\* The BGP server, its internal peers and its policies.
SPECIFICATION FairSpec
CONSTANTS
    Nodes = {n1}
    NodeForms <- MCNodeForms
    NoNode = none
    OwnForms <- MCOwnForms
    ExternalPeers = {"x"}
    ConfiguredPeers <- MCConfiguredPeers
    DefaultAsn = 64512
    NoAsn = 0
    bgpFullMeshMode = FALSE
    bgpEnableInternal = TRUE
    Others = {"svc"}
    MaxChanges = 2
    MaxFaults = 1
INVARIANTS
    TypeOK
    PeersAsRecorded
PROPERTIES
    PeersFollowNodes
    PoliciesSettle
    StartsOnceAnnotated
