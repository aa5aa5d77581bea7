CONSTANTS
    alice = alice  bob = bob
    User = {alice, bob}  Caller = {alice, bob}  Person = {alice, bob}  Key = {alice, bob}
    cup1 = cup1  cup2 = cup2  singles = singles
    Friendly = {cup1, cup2}
    CodeOf <- CompetitionCodes
    Official = Official  OfficialCode = "OFC001"
    Ranked = {singles}
    Area = {1}  Category = {2}
    Submitted <- MCSubmitted
    Binary = {"team3"}
    Nobody = Nobody
    MaxCompetitions = 2  MaxFields = 14
    s1 = s1  s2 = s2  n1 = n1  t1 = t1  c1 = c1  c2 = c2  c3 = c3
    Slot = {s1, s2}  PenaltyName = {n1}  Team = {t1}  Code = {c1, c2, c3}
    None = None
    CodeNumber <- CountedCodes
    Commits <- MCCommits  AliasRequests <- MCAliasRequests
    MaxCodes = 3
    RoomName = {1, 2, 3, 4}  SeatName = {1, 2, 3}  RoomCode = {"NPLN23", "NPLN42"}
    Absent = Absent
    Raids <- RaidRooms
    RoomCodeOf <- CircleCodes  Hour = 1  MaxTime = 2  MaxCircles = 2
    Locked = {3}  Places <- PlacesOf  Stars <- StarsOf
    JoinRequests <- Joins  Queries <- MCQueries  ListSizes = {1}
    DocumentName = {1, 2, 3}
    FirstRooms <- FirstHosts  FirstDocuments = {1, 3}  MaxChanges = 3
    Known = {alice}
    Link = {1, 2}  KeyOfLink <- LinkKey
    Session = {1, 2, 3}  KeyOfSession <- SessionKey
    hall = hall  Hall = {hall}  NoHall = NoHall
    HallOf <- SessionHall  HostOf <- HallHost
    MaxOpenings = 3
    Author = {alice, bob}  Parent = {1, 2}  SearchLimit = 2  MaxTick = 2  MaxContents = 3
SPECIFICATION ServicesSpec
INVARIANTS ServicesAreSound CodesLeadHome CodesNameTeams CodeFindsRoom
    WalksMissNothing EverybodyShownOnce
PROPERTIES StateIsRead CodesAreKept
CHECK_DEADLOCK FALSE
