SPECIFICATION Spec
CONSTANTS
    Node = {n1, n2, n3}
    Nil = Nil
    Value = {x, y}
    CompactionThreshold = 1
    MaxEntryTerm = 2
    MaxEntries = 3
    MaxSnapshot = 1
CHECK_DEADLOCK FALSE
INVARIANT LoopComputesMerge
INVARIANT PushesAreContiguous
