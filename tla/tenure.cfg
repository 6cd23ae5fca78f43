SPECIFICATION Spec
CONSTANTS
    Node = {n1, n2, n3}
    Nil = Nil
    Malformed = Malformed
    Value = {x}
    CompactionThreshold = 1
    Leader = n1
    Up = {n1, n2}
    Timeouts = {4}
    Intervals = {1, 3, 4}
    QueueSize = 3
    MaxProposals = 1
    MaxLosses = 1
CHECK_DEADLOCK FALSE
PROPERTY QuietFollowers
PROPERTY CatchUp
