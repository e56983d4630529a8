SPECIFICATION Spec
CONSTANTS
  numberOfAdjustedStereoPairs = 4
  useBundleInitialEstimation = TRUE
  MaxInputs = 10
INVARIANTS TypeOK NoAssertFails RecorderAgreesWithHistory FilterReadsStoredMaps DereferencedDataExists MapHoldsTheBundleOnce
PROPERTIES RunReturns
CHECK_DEADLOCK FALSE
