\* The registrator refines the match of each input to the scene.
SPECIFICATION Spec
CONSTANTS
  Configurations <- MCRefined
  MaxInputs = 6
INVARIANTS PoseIsThatOfTheNewestEntry
CHECK_DEADLOCK FALSE
