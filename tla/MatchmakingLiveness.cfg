CONSTANTS
    duo = duo  trio = trio  lobby = lobby  circle = circle  raid = raid
    easy = easy  hard = hard
    Posting = {easy, hard}
    Player = {p, q}
    Pool = {duo}
    Kind <- DuoKind
    Capacity <- DuoCapacity
    JoinByName <- NoPool
    ControlRequests <- NoRequest
    SearchRequests <- DuoRequests
    CreationRequests <- NoRequest
    PromptPolls = TRUE
    MaxTickets = 3  MaxCreations = 0
    MaxRooms <- DuoRooms
    MaxAdmissions = 3
    SearchedTogether <- DuoSearches
SPECIFICATION FairSpec
INVARIANT SearchersCanBeJoined
PROPERTY SearchersMeet
CHECK_DEADLOCK FALSE
