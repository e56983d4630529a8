SPECIFICATION Spec
CONSTANTS
  Configurations <- MCDenseDefault
  MaxInputs = 5
INVARIANTS MatchedAsConfigured
CHECK_DEADLOCK FALSE
