CONSTANTS
    Backends = {"slirp", "tap"}
    MaxFrame = 4
    MaxReset = 1
SPECIFICATION FairSpec
INVARIANTS TypeOK FreedAlone
PROPERTIES AckedWasRead WriteReturns FrameTaken ShutdownEnds
CHECK_DEADLOCK FALSE
