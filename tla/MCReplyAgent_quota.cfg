SPECIFICATION Spec
CONSTANTS
    l1 = l1
    l2 = l2
    Leads <- TwoLeads
    Texts = {"plain"}
    MaxInbound = 1
    MaxRetries = 1
    NonLeadTurns = 2
    DailyLimit = 2
    DefaultLimit = 35
    MaxDay = 1
    MaxClicks = 1
    MaxPosts = 1
    Faults <- BrokerFaults
SYMMETRY LeadSymmetry
INVARIANTS
    RetryAmplificationBounded
    CounterNeverOvercounts
CONSTRAINT OnlyReplies
CHECK_DEADLOCK FALSE
