\* Two services that come to share a VIP; the Endpoints object of one comes and goes.
SPECIFICATION FairVipSpec
CONSTANTS
    Services = {"s1", "s2"}
    Vips = {"v1", "v2"}
    SvcSpecs <- SharedVip
    NoSvc = nosvc
    EpStates <- EpsOfLocal
    MaxVipChanges = 2
INVARIANTS
    VipTypeOK
PROPERTIES
    WithdrawnOnlyIfStale
    ActiveVipsExported
    
