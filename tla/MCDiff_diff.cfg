\* Either pass over every function, then base and difference functions, N up to 4.
CONSTANTS
  Arrays <- MCArrays
  Static <- MCStatic
  Functions <- MCFunctions
  Contents <- MCContents
  Claims <- NoClaims
  MaxN = 4
  Modes <- BothModes
SPECIFICATION RunSpec
INVARIANTS TypeOK DifferenceMakesPN RecordedIsDifference
CHECK_DEADLOCK FALSE
