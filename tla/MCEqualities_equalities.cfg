SPECIFICATION Spec
CONSTANTS
  Arrays <- MCArrays
  Numbers <- MCNumbers
  Indices <- MCIndices
  Width = 3
  Inputs <- MCInputs
  Subterms <- SubtermsOf
  substitute <- Substituted
  simplify <- Simplified
  Meaning <- MeaningOf
INVARIANTS
  TypeOK
  PreIsImplied
  PreIsExact
  ArraysAreEliminated
PROPERTIES
  Progress
