\* Assertions in a loop, of which the last iteration is verified.
CONSTANTS
  Arrays <- MCArrays
  Static <- MCStatic
  Functions <- Counting
  Contents <- MCContents
  Claims <- MCClaims
  MaxN = 4
  Modes <- Only6
SPECIFICATION RunSpec
INVARIANTS LastIterationSuffices
CHECK_DEADLOCK FALSE
