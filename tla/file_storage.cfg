SPECIFICATION Spec
CONSTANTS
    Image = {a, b}
    None = None
    Missing = Missing
    Chunks = 2
INVARIANT FileInv
PROPERTY NoAmnesia
PROPERTY ImplementsStore
