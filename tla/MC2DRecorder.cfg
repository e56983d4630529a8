SPECIFICATION ClientSpec
CONSTANTS
  MAXIMUM_NUMBER_OF_POSES = 4
  MaxFrames = 8
INVARIANTS TypeOK ProtocolNeverAborts LatestMapsAreThoseOfTheKeptPairs
CHECK_DEADLOCK FALSE
