\* The pass over every nest of the menus, then both functions, N up to 3.
CONSTANTS
  Arrays <- MCArrays
  Static <- MCStatic
  Functions <- AllNested
  Contents <- MCContents
  MaxN = 3
SPECIFICATION Spec
INVARIANTS TypeOK NoNestIsLeft ChecksSuffice SimplifiedIsNested
PROPERTY Ends
CHECK_DEADLOCK FALSE
