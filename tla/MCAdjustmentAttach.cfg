SPECIFICATION Spec
CONSTANTS
  numberOfAdjustedStereoPairs = 2
  useBundleInitialEstimation = FALSE
  MaxInputs = 4
PROPERTIES AttachedToLatestCloud
CHECK_DEADLOCK FALSE
