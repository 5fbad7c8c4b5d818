SPECIFICATION Spec
CONSTANTS
    User = {u1, u2, u3}
    Workspace = {w1}
    Request = {r1, r2}
    Token = {t1, t2}
    WorkspaceName <- MCSameName
    Personal = Personal
    NoUser = NoUser
    NoToken = NoToken
    NoRequest = NoRequest
SYMMETRY MCSymmetry
VIEW MCWithoutRaces
INVARIANTS
    TypeOK
    OwnerRowIsRecorded
    OpenInvitationIsCurrent
PROPERTIES
    AcceptKeepsStandingRole
CHECK_DEADLOCK FALSE
