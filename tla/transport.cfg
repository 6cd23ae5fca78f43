SPECIFICATION Spec
CONSTANTS
    Node = {n1, n2, n3}
    Nil = Nil
    Kinds = {"grpc", "https"}
    QueueSize = 1
    Senders = {n1, n2}
    MaxSends = 2
    Leaders = {n1}
    MaxFaults = 1
CHECK_DEADLOCK FALSE
INVARIANT TransportInv
INVARIANT HandedAsSent
INVARIANT InOrderAtMostOnce
INVARIANT SentIsNotLost
PROPERTY SendReturns
PROPERTY UnreachableEnds
