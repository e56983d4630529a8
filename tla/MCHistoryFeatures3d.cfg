SPECIFICATION CallerSpec
CONSTANTS
  Size = 2
  Categories = {"features"}
  MaxInputs = 4
INVARIANTS Features3dBelongToTheirEntry
CHECK_DEADLOCK FALSE
