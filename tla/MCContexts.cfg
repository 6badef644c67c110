CONSTANTS
  Config <- MCConfig
  World = {"Secure", "NonSecure"}
  Build = {"Simd", "Sve", "Sme", "SmeFa64"}
SPECIFICATION MCSpec
INVARIANTS FoundAsLeft NoFaultAtEl3  NoUndefinedAccess
