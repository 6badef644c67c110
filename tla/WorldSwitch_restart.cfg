CONSTANTS
  World = {"Secure", "NonSecure"}
  Build = {"Simd", "Sve", "Sme", "SmeFa64"}
SPECIFICATION Spec
INVARIANT RestartsFromReset
