CONSTANTS
    Starts = {0}
    Ends = {1, 2}
    Guard = 2
    GenMod = 3
    MaxOwed = 2
    MaxAge = 2
SPECIFICATION FairSpec
INVARIANTS TypeOK
PROPERTIES OneCopyPerGeneration SingleShotEnds 
