CONSTANTS
    t1 = t1
    t2 = t2
    t3 = t3
    s1 = s1
    s2 = s2
    s3 = s3
    NULL = NULL
    Thread = {t1, t2, t3}
    Segment = {s1, s2, s3}
SPECIFICATION FairSpec
INVARIANTS LifetimeTypeOK HandsOver RegionWhole NoDanglingPointer
PROPERTY BoundedRunEnds
CHECK_DEADLOCK FALSE
