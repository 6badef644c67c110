SPECIFICATION Spec
CONSTANTS
  CPU_DOMAIN_COUNT = 3
  NODE <- Nodes21
  MAX_POWER_LEVEL = 2
  Ancestor <- Ancestor21
  OFF = 2
  EntryPoint = {e1}
  NoEntry = NoEntry
  Primary = 0
  SuspendRequest <- PcRequests
  OsiSupported = FALSE
  SystemSuspendSupported = FALSE
  PowerDownAbandon = FALSE
  PowerOnWaits = TRUE
  LastLevelInPcMode = FALSE
INVARIANTS HierarchyRespected CoordinatedExactly NoCircularWait
CHECK_DEADLOCK FALSE
