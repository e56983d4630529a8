\* The stop request of a loop correction against an adjustment that ends.
SPECIFICATION StronglyFairSpec
CONSTANTS
    Gba = {g1, g2}
    LoopSpacing = 1
    MaxKeyFrames = 3
    MaxAborts = 1
PROPERTY StopRequestIsServed
CHECK_DEADLOCK FALSE
