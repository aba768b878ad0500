CONSTANTS
    t1 = t1
    t2 = t2
    t3 = t3
    w1 = w1
    s1 = s1
    s2 = s2
    s3 = s3
    NULL = NULL
    Thread = {t1, t2, t3}
    Word = {w1}
    Segment = {s1, s2, s3}
    Val = {0, 1}
    Zero = 0
    MaxTx = 1
SPECIFICATION FairRefSpec
INVARIANTS RefTypeOK SegmentsListed
PROPERTIES RunsAtomically EveryTransactionEnds
CHECK_DEADLOCK FALSE
