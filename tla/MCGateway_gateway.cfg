SPECIFICATION FairSpec
CONSTANTS
    MaxStarts = 1
    MaxDevices = 2
INVARIANTS
    TypeOK
    ConnectedNeedsPairing
    OneSocket
    NoSecondDevice
PROPERTIES
    CodeReachesRow
    SendIsAnswered
CHECK_DEADLOCK FALSE
