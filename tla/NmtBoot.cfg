CONSTANTS
    BasicEthernet = FALSE
    WaitPreOp1 = TRUE
    InformMayFail = TRUE
    Commands <- BootCommands
    Frames <- OnlySoc
    MaxEvents = 6
SPECIFICATION Spec
CHECK_DEADLOCK FALSE
INVARIANT ReadyWhenBothAgree
INVARIANT SilentNextToOtherMn
