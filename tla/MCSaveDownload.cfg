SPECIFICATION Spec
CONSTANTS
  MaxAttempts = 3
  Unix = TRUE
INVARIANTS
  ErrorLeavesOldOrNew
  DestinationIsWhole
  SuccessIsDurable
PROPERTY ReplacesOnlyWhenForced
