\* The three controllers on the ipsets of the system.
SPECIFICATION FairSpec
CONSTANTS
    NodeSets <- MCNodeSets
    ServiceSets <- MCServiceSets
    PolicySets <- MCPolicySets
    OptionsOf <- MCOptionsOf
    Entries = {1, 2}
    NoSet = noset
    Sources <- MCSources
    MaxChanges = 1
    MaxFaults = 1
INVARIANTS
    TypeOK
PROPERTIES
    SetsAreAtomic
    Converges
