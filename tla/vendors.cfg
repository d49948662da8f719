SPECIFICATION FairSpec
CONSTANTS
    Vendors = {v1}
    Refs = {r1, r2}
    Handlers = {h1, h2}
    Cycles <- MCCycles
    Attempts = 2
    MaxTime = 2
    MaxDeliveries = 2
    None = None
INVARIANTS
    TypeOK
    ActivatedMeansPaid
    StatusFollowsRecords
    ExpiredWhenDue
    WaitingVendorHasReference
PROPERTY
    LapsedVendorsExpire
CHECK_DEADLOCK FALSE
