CONSTANTS
  Core = {p, s}
  RmmCore = {p, s}
  Primary = p
  SecondaryEp = {ep}
  Rme = TRUE
  RmmSkipsBootComplete = FALSE
SPECIFICATION MCSpec
INVARIANTS SpmcInStep RmmBootRespected ResumedFaithfully ContextsIntact
INVARIANTS TokenWhole StaysInBuffer DiscoveryHolds NothingUnimplemented LogFaithful
PROPERTIES FailureIsFinal EntropyOnce
CHECK_DEADLOCK FALSE
