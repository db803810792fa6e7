\* One service that comes and goes.
SPECIFICATION FairVipSpec
CONSTANTS
    Services = {"s1"}
    Vips = {"v1", "v2"}
    SvcSpecs <- OneLocal
    NoSvc = nosvc
    EpStates <- EpsPresent
    MaxVipChanges = 2
PROPERTIES
    DeletedVipsWithdrawn
