SPECIFICATION FairSpec
CONSTANTS
    a = a
    b = b
    CN = {a, b}
    Configs <- CalmNetwork
    MaxFault = 1
    UIntMax = 15
CHECK_DEADLOCK FALSE
PROPERTY AllOperational
