CONSTANTS
    w1 = w1
    w2 = w2
    w3 = w3
    Process = {w1, w2, w3}
    First = w1
    MaxSyncs = 3
    NbRepeats = 1
SPECIFICATION FairGradingSpec
INVARIANTS GradingTypeOK RoundsInStep VerdictIsRight BarrierTypeOK
PROPERTIES Synchronizes MeasureReturns MeasureEnds
CHECK_DEADLOCK FALSE
