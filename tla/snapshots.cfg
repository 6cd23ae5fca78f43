SPECIFICATION MCSpec
CONSTANTS
    Node = {n1, n2, n3}
    Nil = Nil
    Value = {"add 2", "dec", "set k a", "del k"}
    CompactionThreshold = 2
    MaxI64 = 2
    Self = n1
    Leader = n2
    CounterRaw = {"add 2", "dec"}
    KeyValueRaw = {"set k a", "del k"}
    MaxIndex = 3
    MaxTerm = 2
    MaxRestarts = 1
INVARIANT InstallInv
INVARIANT MachineMatchesIndex
INVARIANT ImageIsRestorable
INVARIANT SecondVoteOnlyAfterInstall
PROPERTY OnlyInstallUncommits
