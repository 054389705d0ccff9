SPECIFICATION FairSpec
CONSTANTS
    CN <- MCCN
    MN = 240
    SyncNodes = {0, 2}
    NodeSets <- MCNodeSets
    Locked = TRUE
    Threshold = 16
    MaxStarts = 2
    MaxChanges = 1
    MaxRefused = 1
    MaxRx = 1
    MaxEv = 0
CHECK_DEADLOCK FALSE
INVARIANT SlotTimerIsSound
PROPERTY SendingIsUntouched
PROPERTY LossesAreExact
PROPERTY CycleGoesOn
