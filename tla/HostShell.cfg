SPECIFICATION FairSpec
CONSTANTS
  MAXIMUM_ATTEMPTS = 3
  Nodes <- MCNodes
  DB_IDS = 3
  Sizes <- MCSizes
  Bursts <- MCBursts
  MaxDbs = 4
CHECK_DEADLOCK FALSE
INVARIANTS TypeOK WaitIsTimed ListsSound ListOpsExact EveryDbExported
PROPERTIES ImplementsStore ReturnsOrMissesSignal
