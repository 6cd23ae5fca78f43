SPECIFICATION Spec
CONSTANTS
    Node = {n1, n2, n3}
    Nil = Nil
    Value = {x}
    CompactionThreshold = 1
    HeartbeatInterval = 4
    SaveSucceeds = {TRUE, FALSE}
    InboxSize = 1
    Redelivery = FALSE
    MaxElections = 2
    MaxLogIndex = 0
    MaxRestarts = 1
SYMMETRY NodeSymmetry
INVARIANT ElectionSafety
