SPECIFICATION SpecLed
CONSTANTS
    Node = {n1, n2, n3}
    Nil = Nil
    Value = {x}
    CompactionThreshold = 8
    HeartbeatInterval = 4
    SaveSucceeds = {TRUE}
    InboxSize = 1
    Redelivery = FALSE
    MaxElections = 2
    MaxLogIndex = 1
    MaxRestarts = 0
INVARIANT CommittedOnMajority
