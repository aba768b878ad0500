CONSTANTS
    w1 = w1
    w2 = w2
    Worker = {w1, w2}
    First = w1
    NbAccounts = 2
    InitBalance = 1
    NbTx = 2
    NbCheck = 2
    NbRepeats = 2
    MaxTrigger = 4
SPECIFICATION Spec
INVARIANTS AccountsTypeOK BankAddsUp SegmentsFilled NoFalseAlarm
CHECK_DEADLOCK FALSE
