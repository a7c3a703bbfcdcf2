SPECIFICATION Spec
CONSTANTS
  RX_BUFFER_SIZE = 3
  TX_BUFFER_SIZE = 3
  MaxUnread = 5
  MaxReceived = 7
  MaxSent = 4
CHECK_DEADLOCK FALSE
INVARIANTS TypeOK TxExact ReadsInOrder
PROPERTIES ImplementsByteQueue
