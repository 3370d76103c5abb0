CONSTANTS
    MaxBytes = 5
    KqSize = 2
    Resets = TRUE
    BerrPops = {TRUE, FALSE}
SPECIFICATION FairSpec
INVARIANTS TypeOK OldestFirst NoneVanishes StatusHonoured
PROPERTY RescuedAreRead
