SPECIFICATION Spec
CONSTANTS
  Configurations <- MCConfigurations
  MaxInputs = 6
INVARIANTS TypeOK MatchedAsConfigured PoseIsThatOfTheNewestEntry NewestEntryHasItsTarget
  MapHoldsPosedInputsOnce
PROPERTIES RunReturns
CHECK_DEADLOCK FALSE
