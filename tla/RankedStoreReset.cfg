\* A start that one defeat exhausts, as fifty exhaust 1500.
CONSTANTS
    Player = {p, q, r}
    Session = {s1, s2}
    Competition = {singles}
    Outcome <- MCOutcome
    NoReport = NoReport
    InitialRating = 30
    RatingStep = 30
    PointStep = 1
SPECIFICATION Spec
SYMMETRY PlayerSymmetry
INVARIANT EachBattleCountedOnce
CHECK_DEADLOCK FALSE
