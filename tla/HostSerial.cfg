SPECIFICATION FairSpec
CONSTANTS
  RX_BUF_SIZE = 3
  RX_INTER_BUF_SIZE = 2
  MaxUnread = 5
  MaxReceived = 6
INVARIANTS TypeOK InOrder FreshIsWhole
PROPERTIES CloseReturns
