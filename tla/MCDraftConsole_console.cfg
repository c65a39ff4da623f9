SPECIFICATION FairSpec
CONSTANTS
    c1 = c1
    g1 = g1
    Contacts <- OneContact
    MaxRequests = 2
    Groups <- OneGroup
    MaxMessages = 2
    DailyLimit = 1
    DefaultLimit = 35
    MaxDay = 1
    MaxPosts = 2
    MaxSent = 2
    MaxOpen = 2
INVARIANTS
    TypeOK
    SecondSendNeedsOverlap
    CounterExactWhenSerial
    QuotaHoldsWhenSerial
    OneFollowupPerLead
    OnePromoPerInterval
PROPERTIES
    JobsLeaveForSentRows
    SentIsQueuedOrTold
CHECK_DEADLOCK FALSE
