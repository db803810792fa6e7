\* One service of two specifications; one request fills syncChan (two in the
\* code), so that the second of two is dropped, and one heartbeat healthChan.
SPECIFICATION FairSpec
CONSTANTS
    Services = {s1}
    SvcSpecs = {a, b}
    Headless = headless
    NoSvc = nosvc
    EpStates = {x}
    NoEp = noep
    SyncChanCap = 1
    HealthChanCap = 1
    MaxChanges = 2
INVARIANTS
    TypeOK
    NoSendOnClosedChannel
    RequestedSyncNotLost
    ServiceMapFollowsLister
PROPERTIES
    Converges
    RunStops
\* Run ends by returning, or waits for ever to send a heartbeat.
CHECK_DEADLOCK FALSE
