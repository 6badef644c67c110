SPECIFICATION Spec
CONSTANTS
  Core = {c1, c2}
  NoCore = NoCore
  PA <- MCPA
  PPS = 4
  L0GPTSZ = 3
  PGS = 1
  FIELD_BITS = 1
  L0 <- MCL0
  InitialL1 <- MCInitialL1
INVARIANTS CachesClean OwnerOnly
PROPERTIES ImplementsGranuleMap NothingStranded
