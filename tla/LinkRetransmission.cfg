SPECIFICATION Spec
CONSTANTS
  PACKET_ID_MAX_VAL = 16
  MaxFaults = 1
  MAXIMUM_SEND_ATTEMPTS = 3
  MAXIMUM_RECV_ATTEMPTS = 3
  AVR_SEND_ATTEMPTS = 3
  AVR_RECV_ATTEMPTS = 3
  StaleSignals = FALSE
  MaxJobs = 2
  DbSizes <- MCDbSizes
  TEMP_BURST = 2
CHECK_DEADLOCK FALSE
INVARIANTS AtMostOnce
