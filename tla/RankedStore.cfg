CONSTANTS
    Player = {p, q, r}
    Session = {s1, s2}
    Competition = {singles}
    Outcome <- MCOutcome
    NoReport = NoReport
    InitialRating = 1500
    RatingStep = 30
    PointStep = 1
SPECIFICATION Spec
SYMMETRY PlayerSymmetry
INVARIANTS EachBattleCountedOnce ReportsOfPresent
PROPERTY RecordedOnAgreement
CHECK_DEADLOCK FALSE
