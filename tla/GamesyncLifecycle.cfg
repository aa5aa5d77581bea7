CONSTANTS
    Member = {p, q}
    MaxCalls = 4
    Nil = Nil
    LateAssignment = FALSE
SPECIFICATION FairSpec
INVARIANTS SessionsAreBounded ViewsAgree
PROPERTIES StreamsKeepTheirSession DisconnectedDeparts
CHECK_DEADLOCK FALSE
