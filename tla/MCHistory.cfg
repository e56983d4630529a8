SPECIFICATION CallerSpec
CONSTANTS
  Size = 4
  Categories = {"features"}
  MaxInputs = 6
INVARIANTS TypeOK IInv EveryEntryHasImages DataStaysWithItsImages HeapMatchesLists NoDanglingPointer
PROPERTIES RemovalTerminates ImplementsQueue LoopLosesNoEntry
CHECK_DEADLOCK FALSE
