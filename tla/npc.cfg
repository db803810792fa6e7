\* Two policies of one direction each, a failing command or a crash anywhere.
SPECIFICATION FairSpec
CONSTANTS
    Pods = {"a", "b"}
    LocalPods = {"a", "b"}
    World = world
    Ports = {80, 443}
    Policies = {"q1", "q2"}
    Forms <- OneDirection
    MaxRules = 2
    MaxChanges = 2
    MaxFaults = 1
INVARIANTS
    TypeOK
    NoIpsetRefused
    KernelEnforces
    NoChangeMissed
    UnchangedPoliciesIntact
PROPERTIES
    Converges
