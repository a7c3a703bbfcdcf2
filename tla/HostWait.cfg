SPECIFICATION FairSpec
CONSTANTS
  MAXIMUM_ATTEMPTS = 3
  Nodes <- MCNodes
  DB_IDS = 3
  Sizes <- MCSizes
  Bursts <- MCBursts
  MaxDbs = 1
CHECK_DEADLOCK FALSE
PROPERTIES CommandReturns
