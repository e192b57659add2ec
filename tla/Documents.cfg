\* Two visitors and two requests of two users, and one document
SPECIFICATION DocumentsSpec
CONSTANTS
    k1 = k1
    k2 = k2
    q1 = q1
    A = A
    B = B
    Sockets = {k1, k2}
    Users = {A, B}
    ApiCalls = {q1, q2}
    Nobody = Nobody
    Assignments <- MCAssignments
    MaxOps = 3
    MaxMishaps = 1
CHECK_DEADLOCK FALSE
INVARIANTS DocumentsTypeOK CacheIsCurrent MembersAreKnown
