CONSTANTS
    t1 = t1
    t2 = t2
    a1 = 8
    a2 = 16
    Thread = {t1, t2}
    Calls <- Mixed
    Addr = {8, 16}
    Val <- Balance
    NumLocks = 5
    SpinLimit = 1
    MaxClock = 6
    MaxReads = 2
SPECIFICATION WorkerSpec
INVARIANT NoMoneyLost
CHECK_DEADLOCK FALSE
