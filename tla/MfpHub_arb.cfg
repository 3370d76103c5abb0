CONSTANTS
    Channel = {7, 13}
    LevelCh = {7}
    TimerCh = 13
    SoundCh = 13
    TimerFull = 2
    TadrBytes = {0, 1}
    TacrModes = {0, 8}
    Polling = FALSE
SPECIFICATION FairSpec
INVARIANTS TypeOK IackLegal AutoEoiHoldsNothing
PROPERTIES InServiceNests TimerKeepsFiring
