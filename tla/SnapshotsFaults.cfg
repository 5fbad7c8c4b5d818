SPECIFICATION Spec
CONSTANTS
    Commit = {c1, c2}
    Importer = {i1, i2}
    Deleter = {d1}
    Reader = {k1}
    NoCommit = NoCommit
    NoJob = NoJob
    Faults = {"crash", "os_error", "in_doubt"}
SYMMETRY MCSymmetry
INVARIANT
    RegisteredHeadVerifies
