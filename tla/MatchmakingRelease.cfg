CONSTANTS
    duo = duo  trio = trio  lobby = lobby  circle = circle  raid = raid
    easy = easy  hard = hard
    Posting = {easy, hard}
    Player = {p, q, r}
    Pool = {duo}
    Kind <- DuoKind
    Capacity <- DuoCapacity
    JoinByName <- NoPool
    ControlRequests <- NoRequest
    SearchRequests <- DuoRequests
    CreationRequests <- NoRequest
    PromptPolls = FALSE
    MaxTickets = 3  MaxCreations = 0
    MaxRooms <- DuoRooms
    MaxAdmissions = 3
    SearchedTogether <- DuoSearches
SPECIFICATION Spec
SYMMETRY PlayerSymmetry
PROPERTY ReleasedSeatsUnconnected
CHECK_DEADLOCK FALSE
