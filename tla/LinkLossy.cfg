SPECIFICATION FairSpec
CONSTANTS
  PACKET_ID_MAX_VAL = 16
  MaxFaults = 1
  MAXIMUM_SEND_ATTEMPTS = 2
  MAXIMUM_RECV_ATTEMPTS = 2
  AVR_SEND_ATTEMPTS = 2
  AVR_RECV_ATTEMPTS = 2
  StaleSignals = TRUE
  MaxJobs = 4
  DbSizes <- MCDbSizes
  TEMP_BURST = 2
CHECK_DEADLOCK FALSE
INVARIANTS TypeOK DownloadExact RanInOrder
PROPERTIES ShellReturns MainLoopRuns
