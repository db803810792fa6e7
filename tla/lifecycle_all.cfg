\* All three controllers, and a channel short enough to fill up.  The process may
\* stop for good: a shutdown hangs when the channel is full and RunCheck is gone.
SPECIFICATION FairSpec
CONSTANTS
    RunRouter = TRUE
    RunServiceProxy = TRUE
    RunFirewall = TRUE
    ChanCap = 1
INVARIANTS
    SetupBeforePolicies
    OrderlyShutdown
PROPERTIES
    ShutdownCompletes
    StartupCompletes
CHECK_DEADLOCK FALSE
