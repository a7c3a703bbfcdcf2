SPECIFICATION FairSpec
CONSTANTS
  Pcint <- MCPcint
  D21 <- MCD21
  btn_poweroff = "D21"
  btn_start = "D50"
  btn_stop = "D52"
INVARIANTS TypeOK Attended PressIsPolled FallThenRise
PROPERTIES PressIsServed
