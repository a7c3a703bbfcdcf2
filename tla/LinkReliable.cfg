SPECIFICATION FairSpec
CONSTANTS
  PACKET_ID_MAX_VAL = 4
  MaxFaults = 0
  MAXIMUM_SEND_ATTEMPTS = 3
  MAXIMUM_RECV_ATTEMPTS = 3
  AVR_SEND_ATTEMPTS = 3
  AVR_RECV_ATTEMPTS = 3
  StaleSignals = FALSE
  MaxJobs = 5
  DbSizes <- MCDbSizes
  TEMP_BURST = 2
CHECK_DEADLOCK FALSE
INVARIANTS IdsAgree
PROPERTIES ImplementsExchange
