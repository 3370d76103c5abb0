CONSTANTS
    Sources = {"vbl", "mfp"}
    NetLevel = 0
    GuestMasks = {0, 5}
    Phantoms = {2}
    HoldUntilAck = FALSE
    Countdown = TRUE
SPECIFICATION Spec
INVARIANTS TypeOK LatchNeverForgotten
PROPERTIES LatchNeverLowered VblLatchedOnce
