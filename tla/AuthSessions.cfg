SPECIFICATION Spec
CONSTANTS
    User = {u1}
    Session = {s1, s2, s3}
    Login = {l1, l2}
    Request = {r1, r2}
    NoUser = NoUser
    NoSession = NoSession
    AbsoluteLife = 4
    IdleLife = 3
    SlideAfter = 1
    Horizon = 4
    MaxGeneration = 3
    MaxLogoutAll = 1
SYMMETRY MCSymmetry
INVARIANTS
    TypeOK
    ValidSessionKnowsPassword
    VersionCoversPassword
    IdleLimitFollowsUse
CHECK_DEADLOCK FALSE
