SPECIFICATION Spec
CONSTANTS
    l1 = l1
    l2 = l2
    Leads <- OneLead
    Texts = {"stop", "plain"}
    MaxInbound = 2
    MaxRetries = 0
    NonLeadTurns = 3
    DailyLimit = 2
    DefaultLimit = 35
    MaxDay = 0
    MaxClicks = 0
    MaxPosts = 0
    Faults <- NoFaults
PROPERTIES
    OptOutIsHonored
CHECK_DEADLOCK FALSE
