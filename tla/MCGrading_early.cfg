CONSTANTS
    w1 = w1
    w2 = w2
    w3 = w3
    Process = {w1, w2}
    First = w1
    MaxSyncs = 3
    NbRepeats = 1
SPECIFICATION FairGradingSpec
PROPERTIES ReturnsEarly
CHECK_DEADLOCK FALSE
