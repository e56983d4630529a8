\* Two loops within one map, a third after a reset, one adjustment aborted
\* while another takes its place, and Shutdown at any time.
SPECIFICATION FairSpec
CONSTANTS
    Gba = {g1, g2}
    LoopSpacing = 1
    MaxKeyFrames = 3
    MaxAborts = 1
INVARIANTS
    TypeOK
    KeyFramesArriveInOrder
    ClearedMapIsUnused
    NoKeyFrameForAStoppedMapper
    CorrectionIsExclusive
PROPERTIES
    ResetReturns
    ShutdownReturns
\* The caller stops calling after Shutdown, and a Shutdown may hang.
CHECK_DEADLOCK FALSE
