SPECIFICATION SpecLed
CONSTANTS
    Node = {n1, n2, n3}
    Nil = Nil
    Value = {x}
    CompactionThreshold = 2
    HeartbeatInterval = 4
    SaveSucceeds = {TRUE}
    InboxSize = 1
    Redelivery = FALSE
    MaxElections = 2
    MaxLogIndex = 2
    MaxRestarts = 0
VIEW LogView
INVARIANT LogMatching
PROPERTY LeaderAppendOnly
PROPERTY CommittedIsKept
