CONSTANTS
    Sources = {"vbl", "virt"}
    NetLevel = 0
    GuestMasks = {0}
    Phantoms = {}
    HoldUntilAck = TRUE
    Countdown = FALSE
SPECIFICATION FairSpec
PROPERTIES LatchIsServed VblDelivered
