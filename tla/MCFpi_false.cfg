\* One path and an exact prover: a pre-condition with a false conjunct.
CONSTANTS
  Data <- Two
  Sizes <- MCSizes
  Programs <- SinglePath
  Lost <- NothingLost
  FixpointBound = 3
  SolverGivesUp = FALSE
  FalseIsLiteral = TRUE
SPECIFICATION ExecSpec
INVARIANT SuccessfulIsVerified
CHECK_DEADLOCK FALSE
