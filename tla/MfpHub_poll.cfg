CONSTANTS
    Channel = {6, 15}
    LevelCh = {6}
    TimerCh = 15
    SoundCh = 15
    TimerFull = 1
    TadrBytes = {}
    TacrModes = {}
    Polling = TRUE
SPECIFICATION FairSpec
PROPERTIES SteadyRequestSeen
