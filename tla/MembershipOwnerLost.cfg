SPECIFICATION Spec
CONSTANTS
    User = {u1, u2}
    Workspace = {w1}
    Request = {r1, r2}
    Token = {t1}
    WorkspaceName <- MCSameName
    Personal = Personal
    NoUser = NoUser
    NoToken = NoToken
    NoRequest = NoRequest
INVARIANT
    EveryWorkspaceHasActiveOwner
CHECK_DEADLOCK FALSE
