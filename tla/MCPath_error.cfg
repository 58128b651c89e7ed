CONSTANTS
  MaxValue = 2
  Memories <- MCMemories
  Globals <- MCGlobals
  Registers <- MCRegisters
  Functions <- MCErrors
SPECIFICATION Spec
INVARIANT ErrorIsHandled
