SPECIFICATION SpecLed
CONSTANTS
    Node = {n1, n2, n3}
    Nil = Nil
    Value = {x, y}
    CompactionThreshold = 1
    HeartbeatInterval = 4
    SaveSucceeds = {TRUE}
    InboxSize = 256
    Redelivery = TRUE
    MaxElections = 2
    MaxLogIndex = 1
    MaxRestarts = 0
SYMMETRY ValueSymmetry
VIEW View
INVARIANT ElectionSafety
INVARIANT VotesOnlyTwiceAfterLoss
INVARIANT LeaderIsElected
INVARIANT StateMachineSafetyWithExactAcks
PROPERTY ImplementsCommandLog
