CONSTANTS
    duo = duo  trio = trio  lobby = lobby  circle = circle  raid = raid
    easy = easy  hard = hard
    Posting = {easy, hard}
    Player = {p, q, r}
    Pool = {duo, trio, lobby, circle, raid}
    Kind <- AllKind
    Capacity <- AllCapacity
    JoinByName = {lobby, circle, raid}
    ControlRequests <- AllControls
    SearchRequests <- AllRequests
    CreationRequests <- AllCreations
    PromptPolls = FALSE
    MaxTickets = 3  MaxCreations = 1
    MaxRooms <- AllRooms
    MaxAdmissions = 3
    SearchedTogether <- AllSearches
SPECIFICATION Spec
SYMMETRY PlayerSymmetry
INVARIANTS RoomsAreSound OneRoomToMeetIn RaidsHaveHosts
PROPERTIES OnlyCompleteGroups NoStrangerEnters TombstonesStay
CHECK_DEADLOCK FALSE
