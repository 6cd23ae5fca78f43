SPECIFICATION Spec
CONSTANTS
    Node = {n1, n2, n3}
    Nil = Nil
    Value = {x}
    CompactionThreshold = 2
    HeartbeatInterval = 4
    SaveSucceeds = {TRUE}
    InboxSize = 1
    Redelivery = FALSE
    MaxElections = 1
    MaxLogIndex = 1
    MaxRestarts = 1
SYMMETRY NodeSymmetry
INVARIANT AppliedOnce
