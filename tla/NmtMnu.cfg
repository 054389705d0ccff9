SPECIFICATION Spec
CONSTANTS
    a = a
    b = b
    CN = {a, b}
    Configs <- AnyNetwork
    MaxFault = 1
    UIntMax = 15
CHECK_DEADLOCK FALSE
INVARIANT ScanCountIsExact
INVARIANT NobodyIsForgotten
PROPERTY StartedTogether
PROPERTY NoMandatoryMissing
