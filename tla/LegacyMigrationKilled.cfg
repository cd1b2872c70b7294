SPECIFICATION Spec
CONSTANTS
  MayFail = FALSE
  MaxCrashes = 1
INVARIANTS
  MigratedWhenServing
