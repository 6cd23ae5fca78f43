SPECIFICATION SpecLed
CONSTANTS
    Node = {n1, n2, n3}
    Nil = Nil
    Value = {x}
    CompactionThreshold = 1
    HeartbeatInterval = 1
    SaveSucceeds = {TRUE}
    InboxSize = 1
    Redelivery = FALSE
    MaxElections = 2
    MaxLogIndex = 1
    MaxRestarts = 1
VIEW HistoryView
INVARIANT TypeOK
INVARIANT ElectionInv
INVARIANT LogInv
INVARIANT CommitInv
INVARIANT MachinesFollowLogs
INVARIANT LeaderCompleteness
PROPERTY VoteIsDurable
PROPERTY CommittedIsKept
