CONSTANT
    MaxLost <- MCMaxLost
SPECIFICATION Spec
INVARIANT ReportedOncePerCycle
INVARIANT FlagOfThisCycleOnceSettled
INVARIANT EveryLossReported
INVARIANT NoFalseLossOfSoc
