CONSTANTS
    Node <- TwoNodes
    CnErrors <- AllCnErrors
    MnErrors <- AllMnErrors
    Threshold <- Thresholds
    HistoryMayFail = TRUE
    MaxErrors = 3
SPECIFICATION Spec
INVARIANT TypeOK
PROPERTY SocIsABucket
INVARIANT TrippedNodeIsRemoved
PROPERTY RemovedForCause
