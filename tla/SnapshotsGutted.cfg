SPECIFICATION Spec
CONSTANTS
    Commit = {c1}
    Importer = {i1}
    Deleter = {d1}
    Reader = {k1}
    NoCommit = NoCommit
    NoJob = NoJob
    Faults = {"os_error"}
INVARIANT
    RegisteredIsWhole
