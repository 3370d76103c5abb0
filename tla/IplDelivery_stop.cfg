CONSTANTS
    Sources = {"hbl"}
    NetLevel = 4
    GuestMasks = {0, 3}
    Phantoms = {}
    HoldUntilAck = TRUE
    Countdown = TRUE
SPECIFICATION FairSpec
PROPERTIES HblWakesStopped LatchIsServed
