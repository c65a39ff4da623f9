SPECIFICATION FairSpec
CONSTANTS
    text = text
    photo = photo
    a1 = a1
    Assets <- OneAsset
    MaxDeletes = 2
    Jobs <- TextAndPhoto
    MediaJobs <- OnePhoto
    AssetOf <- PhotoIsA1
    Numbers = {1}
    MaxRetries = 1
    Faults = {"timeout", "refusal", "worker_kill", "bad_answer", "download_error"}
INVARIANTS
    TypeOK
    LibraryConsistent
    DuplicatesNeedDoubt
    UnarmedNeedsCrossing
PROPERTIES
    ImplementsSendChannel
    EveryJobEnds
CHECK_DEADLOCK FALSE
