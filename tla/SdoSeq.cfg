SPECIFICATION FairSpec
CONSTANTS
  client = client  server = server
  Node = {client, server}  Initiator = {client}
  HistorySize = 2  SeqMod = 6  Threshold = 2  RetryCount = 1
  MaxSend <- SendBound  MaxOpen = 2  MaxFault = 1
INVARIANTS HistoryIsWindow LosslessMeansDelivered PunctualMeansDelivered DeliveredInOrder
PROPERTY WaitingEnds
CHECK_DEADLOCK FALSE
