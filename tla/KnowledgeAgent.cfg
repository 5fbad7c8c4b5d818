SPECIFICATION Spec
CONSTANTS
    Project = {p1, p2}
    Commit = {c1, c2}
    Department = {d1, d2}
    Query = {m1, m2}
    Message = m1
    FirstCommit = c1
    FirstDepartment = d1
    Anchor = p1
    Call = {home, source}
    FileList = {home}
    WholeList = {home}
    None = None
    MaxBatch = 2
    CodeRounds = 2
    CodeTools = 2
    MaxRounds = 4
    MaxTools = 4
    RagSize = 1
    CodeSize = 2
    MaterialLimit = 3
    Parts = 2
    MaxChanges = 1
INVARIANTS
    TypeOK
    LateEventsAreFew
    BudgetsAreShared
    GuardsNeverFire
    EvidenceIdsDiffer
    RagOfOneDepartment
    AnswerIsSupported
PROPERTIES
    StreamEnds
CHECK_DEADLOCK FALSE
