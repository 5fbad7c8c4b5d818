SPECIFICATION FairSpec
CONSTANTS
    Commit = {c1, c2}
    Importer = {i1, i2}
    Deleter = {d1, d2}
    Reader = {k1}
    NoCommit = NoCommit
    NoJob = NoJob
    Faults = {}
INVARIANTS
    TypeOK
    PinnedReadsSucceed
    RegisteredIsWhole
PROPERTIES
    ImplementsStore
    RecoveryKeepsActive
    LockIsReleased
    OrphansGo
