SPECIFICATION Spec
CONSTANTS
  CONFIG_FIELD_COUNT = 4
  FieldSize <- MCFieldSize
  FieldDefault <- MCFieldDefault
  Arguments <- MCArguments
  Lengths <- MCLengths
  Masks <- MCMasks
  Databases <- MCDatabases
  MaxCommands = 2
  MaxCuts = 1
CHECK_DEADLOCK FALSE
INVARIANTS TypeOK DamageDetected CrcIsRemainder KeptIsCurrent FieldsAsSet ShownIsHeld
