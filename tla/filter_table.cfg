\* Two forwarding rules, two exceptions for services, two foreign rules, one of them with
\* "COMMIT" in its text.
SPECIFICATION FairSpec
CONSTANTS
    ForwardRules <- MCForwardRules
    Whitelist <- MCWhitelist
    Foreign = {"foreign", "commit"}
    Unkept = {"commit"}
    MaxChanges = 2
    MaxOverlaps = 1
    MaxFaults = 1
INVARIANTS
    TypeOK
    RulesInPlace
    AcceptBeforeReject
PROPERTIES
    OthersKept
    Settles
