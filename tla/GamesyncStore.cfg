CONSTANTS
    h = h  g = g  x = x
    Member = {h, g}
    Payload = {x}
    None = None
    Host = h
    IsRaid = TRUE
    Capacity = 2
    Requests <- RaidRequests
    Targets <- RaidTargets
    MaxOperations = 4
    MinInt <- MinusTwo
    MaxInt = 2
    MaxStreams = 1
    MaxClock = 5
SPECIFICATION Spec
INVARIANTS StreamsFollow NothingOutlivesItsSession NumbersAreUnique ControlAgrees
PROPERTIES OthersDocumentsStay AllOrNothing
CHECK_DEADLOCK FALSE
