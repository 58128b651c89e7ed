\* Loops that update an element more than once in an iteration.
CONSTANTS
  Arrays <- MCArrays
  Static <- MCStatic
  Programs <- Repeated
  Size = 2
SPECIFICATION RunSpec
INVARIANT SharedNameSuffices
CHECK_DEADLOCK FALSE
