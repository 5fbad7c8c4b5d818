SPECIFICATION Spec
CONSTANTS
    User = {u1, u2, u3}
    Token = {t1, t2, t3}
    Request = {r1, r2}
    Resource = {x1}
    Share = {g1}
    Rank = {1}
    NoUser = NoUser
    NoToken = NoToken
    NoRequest = NoRequest
SYMMETRY MCSymmetry
INVARIANTS
    TypeOK
    OwnersAreActive
    GrantsAreActive
    AcceptedIsLatest
CHECK_DEADLOCK FALSE
