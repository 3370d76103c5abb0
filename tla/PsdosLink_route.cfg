CONSTANTS
    RingN = 2
    WireN = 1
    MaxFault = 1
    KeyThreads = {"usb"}
SPECIFICATION FairSpec
INVARIANTS TypeOK NothingStaysHeld
PROPERTIES LinkRecovers Ordered
