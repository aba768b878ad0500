CONSTANTS
    t1 = t1
    t2 = t2
    Thread = {t1, t2}
    Addr = {8, 16}
    Val = {0, 1}
    NumLocks = 3
    SpinLimit = 0
    MaxClock = 2
    MaxReads = 1
SPECIFICATION Spec
INVARIANTS
    TypeOK
    LockOwnership
    OneNodePerAddress
    MemoryIsNewestStore
    ReadsAtSnapshot
    CommitsSerializable
    OwnLocksFailValidation
PROPERTY VersionsMonotone
SYMMETRY ThreadSymmetry
