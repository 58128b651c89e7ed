\* Two paths and an exact prover: the base case of one path's pre-condition.
CONSTANTS
  Data <- Three
  Sizes <- MCSizes
  Programs <- Branching
  Lost <- NothingLost
  FixpointBound = 3
  SolverGivesUp = FALSE
  FalseIsLiteral = FALSE
SPECIFICATION ExecSpec
INVARIANT FailedIsViolated
CHECK_DEADLOCK FALSE
