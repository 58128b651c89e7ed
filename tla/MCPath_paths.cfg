CONSTANTS
  MaxValue = 2
  Memories <- MCMemories
  Globals <- MCGlobals
  Registers <- MCRegisters
  Functions <- MCFunctions
SPECIFICATION Spec
INVARIANTS
  TypeOK
  Consistent
  ModelsFollowRuns
  RunsAreModels
  ModelsAreRuns
  SuccessIsReal
  FailureIsReal
