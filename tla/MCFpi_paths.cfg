\* Two paths and an exact prover: each path strengthens its own post.
CONSTANTS
  Data <- Three
  Sizes <- MCSizes
  Programs <- Choosing
  Lost <- NothingLost
  FixpointBound = 3
  SolverGivesUp = FALSE
  FalseIsLiteral = FALSE
SPECIFICATION ExecSpec
INVARIANT SuccessfulIsVerified
CHECK_DEADLOCK FALSE
