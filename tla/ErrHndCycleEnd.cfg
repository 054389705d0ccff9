CONSTANTS
    Node <- TwoNodes
    CnErrors <- NoErrors
    MnErrors <- OnlyCycle
    Threshold <- Thresholds
    HistoryMayFail = FALSE
    MaxErrors = 3
SPECIFICATION Spec
PROPERTY CycleEndNeverRaises
