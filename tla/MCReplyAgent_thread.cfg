SPECIFICATION FairSpec
CONSTANTS
    l1 = l1
    l2 = l2
    Leads <- OneLead
    Texts = {"stop", "plain"}
    MaxInbound = 2
    MaxRetries = 0
    NonLeadTurns = 2
    DailyLimit = 2
    DefaultLimit = 35
    MaxDay = 0
    MaxClicks = 1
    MaxPosts = 0
    Faults <- TaskFaults
INVARIANTS
    TypeOK
    SupersededIsCovered
PROPERTIES
    NoSendWithoutBasis
    BurstIsHandled
CHECK_DEADLOCK FALSE
