SPECIFICATION Spec
CONSTANTS
    Doc = {d1, d2}
    Path = {p1, p2}
    Content = {c1, c2, c0}
    Blank = {c0}
    Upload = {u1, u2}
    Deletion = {r1}
    MaxRevision = 3
    NoDoc = NoDoc
    NoPath = NoPath
    NoContent = NoContent
SYMMETRY MCSymmetry
INVARIANTS
    TypeOK
    ChunksAreCurrent
    HistoryIsComplete
    DeletedWithChunks
