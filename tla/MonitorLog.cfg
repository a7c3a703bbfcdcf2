SPECIFICATION FairSpec
CONSTANTS
  NVM_SIZE = 21
  DB_IDS = 3
  DEFAULT_INTERVAL = 2
  Temperatures <- MCTemperatures
  Intervals <- MCIntervals
  Resolutions <- MCResolutions
  DEFAULT_RESOLUTION = 2
  UINT16 = 4
  MIN_REGISTRATION_INTERVAL = 1
  MaxResets = 1
  MaxDbsPowered = 3
INVARIANTS TypeOK EveryDbFound AtMostOneLate HangsOnlyFull
PROPERTIES ImplementsLog SessionEnds IntervalAtOnce
