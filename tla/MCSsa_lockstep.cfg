\* The pass over every function, and both forms of the function run together.
CONSTANTS
  Arrays <- MCArrays
  Static <- MCStatic
  Programs <- AllFunctions
  Size = 2
SPECIFICATION RunSpec
INVARIANTS TypeOK SingleAssignment SameReads CurrentNames LockstepInv
CHECK_DEADLOCK FALSE
