SPECIFICATION Spec
CONSTANTS
  MayFail = TRUE
  MaxCrashes = 3
INVARIANTS
  LegacySurvives
