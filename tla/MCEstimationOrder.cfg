SPECIFICATION Spec
CONSTANTS
  numberOfAdjustedStereoPairs = 4
  MaxInputs = 6
INVARIANTS RecorderAgreesWithHistory
CHECK_DEADLOCK FALSE
