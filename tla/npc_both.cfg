SPECIFICATION Spec
CONSTANTS
    Pods = {"a", "b"}
    LocalPods = {"a"}
    World = world
    Ports = {80}
    Policies = {"q1"}
    Forms <- BothDirections
    MaxRules = 2
    MaxChanges = 1
    MaxFaults = 0
INVARIANTS
    KernelEnforces
