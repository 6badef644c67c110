SPECIFICATION Spec
CONSTANTS
  CPU_DOMAIN_COUNT = 2
  NODE <- Nodes21
  MAX_POWER_LEVEL = 2
  Ancestor <- Ancestor11
  OFF = 2
  EntryPoint = {e1}
  NoEntry = NoEntry
  Primary = 0
  SuspendRequest <- OsiRequests
  OsiSupported = TRUE
  SystemSuspendSupported = TRUE
  PowerDownAbandon = TRUE
  PowerOnWaits = TRUE
  LastLevelInPcMode = TRUE
INVARIANTS ProperLocksHeld
CHECK_DEADLOCK FALSE
