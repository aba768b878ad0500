CONSTANTS
    w1 = w1
    w2 = w2
    Worker = {w1, w2}
    First = w1
    NbAccounts = 2
    InitBalance = 1
    NbTx = 3
    NbCheck = 2
    NbRepeats = 1
    MaxTrigger = 3
SPECIFICATION Spec
PROPERTY TransfersAsAsked
CHECK_DEADLOCK FALSE
