CONSTANTS
    t1 = t1
    t2 = t2
    t3 = t3
    s1 = s1
    s2 = s2
    s3 = s3
    NULL = NULL
    Thread = {t1, t2}
    Segment = {s1, s2, s3}
SPECIFICATION FairSpec
INVARIANT UnloadedIdle
CHECK_DEADLOCK FALSE
