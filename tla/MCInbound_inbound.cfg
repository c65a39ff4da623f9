SPECIFICATION FairSpec
CONSTANTS
    t1 = t1
    t2 = t2
    c1 = c1
    photo = photo
    need = need
    chat = chat
    Tenants <- TwoTenants
    Contacts <- OneContact
    Messages <- ThreeMessages
    Owner <- MCOwner
    From <- MCFrom
    Source <- MCSource
    Hint <- MCHint
    Grouped <- GroupMessages
    WithMedia <- Photos
    WithId <- Identified
    MaxNumbers = 2
    OwnAccount <- TwoTenants
    MaxPosts <- Posted
    MaxOpen = 2
CONSTRAINT FewRepeats
INVARIANTS
    TypeOK
    StoredOnce
    OneDetectionPerLead
    StoredIsWhole
PROPERTIES
    RoutedHome
    OutcomeStands
    StoredIsScheduled
CHECK_DEADLOCK FALSE
