SPECIFICATION Spec
CONSTANTS
    l1 = l1
    l2 = l2
    Leads <- TwoLeads
    Texts = {"stop", "plain"}
    MaxInbound = 1
    MaxRetries = 0
    NonLeadTurns = 3
    DailyLimit = 1
    DefaultLimit = 35
    MaxDay = 1
    MaxClicks = 0
    MaxPosts = 0
    Faults <- NoFaults
PROPERTIES
    DailyCapIsDaily
CHECK_DEADLOCK FALSE
