SPECIFICATION FairSpec
CONSTANTS
  Size <- Sizes
  ReadOnly = {"const"}
  Transfers <- AllTransfers
  Follow <- Second
  MaxCon = 2
  Window = 2
  RetryCount = 1
  MaxAway = 4
  TidMod = 16
  MaxTransfer = 2
  MaxFault = 1
INVARIANTS AnsweredMeansDone NoForeignAnswer BusyMeansPending
PROPERTY TransferEnds
CHECK_DEADLOCK FALSE
