\* Overlays disabled, one node in another subnet.
SPECIFICATION Spec
CONSTANTS
    Dsts = {d1, d2}
    Peers = {n1, n2}
    SameSubnet = {n1}
    BgpPeers = {n1, n2}
    enableOverlays = FALSE
    overlayType = "subnet"
    NoPeer = nopeer
    OwnDst = own
    MaxEvents = 3
    MaxLinks = 1
    MaxFaults = 0
INVARIANTS
    RouteFollowsPath
