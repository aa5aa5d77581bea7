CONSTANTS
    Owner = {a, b}  BoxId = {x}  Entry = {e1, e2}  Stream = {s1, s2}
    NoEntry = NoEntry
    Player = {p, q, r}
    Competition = {singles}
    MaxCalls = 4
    NoKey = NoKey
    QueueLimit = 2
    ByteLimit = 3
    Size <- MessageSize
    MaxMessages = 5
    MaxRequests = 2
SPECIFICATION StreamsSpec
INVARIANTS StreamsAreTold WaitersAreServed KeysAreTrue DeliveryIsSound
PROPERTIES EndIsReported NoPairWithTheDead PairedOrGoneReturns FailureEndsAll ImplementsOrderedStream
CHECK_DEADLOCK FALSE
