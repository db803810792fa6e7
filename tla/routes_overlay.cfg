\* Full mesh, tunnels to the nodes of other subnets.
SPECIFICATION FairSpec
CONSTANTS
    Dsts = {d1, d2}
    Peers = {n1, n2}
    SameSubnet = {n1}
    BgpPeers = {n1, n2}
    enableOverlays = TRUE
    overlayType = "subnet"
    NoPeer = nopeer
    OwnDst = own
    MaxEvents = 4
    MaxLinks = 2
    MaxFaults = 1
INVARIANTS
    NoGhostRoute
    RouteFollowsPath
PROPERTIES
    RouteHeals
