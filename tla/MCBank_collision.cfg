CONSTANTS
    t1 = t1
    t2 = t2
    a1 = 8
    a2 = 16
    Thread = {t1}
    Calls <- Alone
    Addr = {8, 16}
    Val <- Balance
    NumLocks = 1
    SpinLimit = 3
    MaxClock = 4
    MaxReads = 2
SPECIFICATION FairWorkerSpec
PROPERTY EveryCallCommits
CHECK_DEADLOCK FALSE
