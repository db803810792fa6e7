\* Failures and restarts at every point, with graceful termination.
SPECIFICATION FairSpec
CONSTANTS
    Services = {"s1", "s2"}
    Forms <- DsrAndLocal
    Absent = absent
    NodeIP = "node"
    Endpoints = {"e1", "e2"}
    LocalEndpoints = {"e1"}
    gracefulTermination = TRUE
    MaxChanges = 3
    MaxFaults = 1
    MaxRestarts = 1
INVARIANTS
    CleanSyncIsExact
PROPERTIES
    WantedServiceKept
    Converges
