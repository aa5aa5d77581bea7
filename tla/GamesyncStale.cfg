CONSTANTS
    Member = {p, q}
    MaxCalls = 4
    Nil = Nil
    LateAssignment = FALSE
SPECIFICATION Spec
SYMMETRY MemberSymmetry
INVARIANT SessionsAreMembers
CHECK_DEADLOCK FALSE
