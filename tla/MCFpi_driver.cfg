\* Every family, with a solver that may give up and pre-conditions that lose conjuncts.
CONSTANTS
  Data <- Three
  Sizes <- MCSizes
  Programs <- AllPrograms
  Lost <- MCLost
  FixpointBound = 3
  SolverGivesUp = TRUE
  FalseIsLiteral = TRUE
SPECIFICATION ExecSpec
INVARIANTS TypeOK SuccessIsSound FailureIsReal UnsupportedIsNotProved OneVerdict FailureInv SoundInv
PROPERTIES Terminates ImplementsVerdict
CHECK_DEADLOCK FALSE
