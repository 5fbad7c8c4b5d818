SPECIFICATION Spec
CONSTANTS
    User = {u1, u2, u3}
    Workspace = {w1, w2}
    Request = {r1, r2}
    Token = {t1}
    WorkspaceName <- MCSameName
    Personal = Personal
    NoUser = NoUser
    NoToken = NoToken
    NoRequest = NoRequest
SYMMETRY MCSymmetry
INVARIANTS
    OwnerLostOnlyWhenOvertaken
    OwnedNamesDiffer
    DefaultLostOnlyWhenUndercut
CHECK_DEADLOCK FALSE
