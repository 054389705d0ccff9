CONSTANTS
    BasicEthernet = TRUE
    WaitPreOp1 = FALSE
    InformMayFail = FALSE
    Commands <- ResetCommands
    Frames <- DllEvent
    MaxEvents = 4
SPECIFICATION FairSpec
CHECK_DEADLOCK FALSE
INVARIANT TypeOK
INVARIANT NotStuckInReset
PROPERTY LeavesResetWhenTold
PROPERTY ResetLeadsOn
PROPERTY UserCatchesUp
