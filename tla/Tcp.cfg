CONSTANTS
  PortLo = 1
  PortHi = 4
  Busy = {{2}, {1, 2, 3}}
  MaxOpen = 1
  SeqSpace = 64
  IsnGap = 6
  Isn <- IsnValues
  Mss = 1
  RecvCap = 1
  Backlog = 1
  MaxConnect = 2
  MaxSend = 2
  MaxReply = 1
SPECIFICATION Spec
CHECK_DEADLOCK FALSE
INVARIANTS TypeOK StreamInOrder NextCountsReceived AgreeUnlessReused AcceptedOnce ConnsNeverStuck
PROPERTY ConnectReturns
