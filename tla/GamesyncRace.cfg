CONSTANTS
    Member = {p, q}
    MaxCalls = 4
    Nil = Nil
    LateAssignment = TRUE
SPECIFICATION Spec
SYMMETRY MemberSymmetry
INVARIANT SessionsAreBounded
CHECK_DEADLOCK FALSE
