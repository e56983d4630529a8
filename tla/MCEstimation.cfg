SPECIFICATION Spec
CONSTANTS
  numberOfAdjustedStereoPairs = 3
  MaxInputs = 9
INVARIANTS TypeOK NoAssertFails RecorderAgreesWithHistory DereferencedDataExists MapHoldsTheBundleOnce
PROPERTIES RunReturns AttachedToLatestCloud
CHECK_DEADLOCK FALSE
