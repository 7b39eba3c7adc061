SPECIFICATION Spec
CONSTANTS
  Size = 4
  Packages <- MCPackages
  StabilityRuns = 2
  Required = "boom"
  Answers = {"boom", "none"}
  MaxReductions = 2
INVARIANTS
  ResultReproduces
  OneMinimal
  TrialsStored
PROPERTIES
  ReductionEnds
CHECK_DEADLOCK FALSE
