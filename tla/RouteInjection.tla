--------------------------- MODULE RouteInjection ---------------------------
(***************************************************************************)
(* How routes learned over BGP reach the kernel: injectRoute, which GoBGP  *)
(* calls for every change of a best path, the routeSyncer that keeps the   *)
(* injected routes in routeTableStateMap and writes them to the kernel     *)
(* again and again, and the IPIP tunnels some of the routes go through     *)
(* (pkg/controllers/routing/network_routes_controller.go, route_sync.go,   *)
(* utils.go).                                                              *)
(*                                                                         *)
(* Two goroutines: "watch" runs injectRoute for one path after the other,  *)
(* "ticker" runs syncLocalRouteTable periodically.  routeSyncer.mutex      *)
(* guards the map and a whole sweep over it, but not the kernel's table,   *)
(* from which injectRoute deletes without it.                              *)
(***************************************************************************)
EXTENDS Naturals, Sequences, FiniteSets

CONSTANTS
    Dsts,           \* destination subnets
    Peers,          \* next hops: the other nodes
    SameSubnet,     \* those of them in nrc.nodeSubnet
    BgpPeers,       \* those of them this node has a BGP session with: all of
                    \* them in a full mesh, not so behind a route reflector
    enableOverlays, \* --enable-overlay
    overlayType,    \* --overlay-type, "subnet" or "full"
    NoPeer,         \* no path
    OwnDst,         \* a subnet this node advertises itself
    MaxEvents,      \* bound: best-path changes
    MaxLinks,       \* bound: tunnel devices created
    MaxFaults       \* bound: netlink errors and routes lost

ASSUME RouteAssumption ==
    /\ IsFiniteSet(Dsts)
    /\ SameSubnet \subseteq Peers
    /\ BgpPeers \subseteq Peers
    /\ NoPeer \notin Peers /\ OwnDst \notin Dsts
    /\ enableOverlays \in BOOLEAN
    /\ overlayType \in {"subnet", "full"}
    /\ MaxEvents \in Nat /\ MaxLinks \in Nat /\ MaxFaults \in Nat

VARIABLES
    best,           \* GoBGP's best path per destination: a next hop or NoPeer
    established,    \* BGP sessions in state ESTABLISHED
    events,         \* best-path changes not yet handed to injectRoute
    nEvents,        \* best-path changes so far
    routeTableStateMap,
    mutex,          \* holder of routeSyncer.mutex: "none", "watch" or "ticker"
    todo,           \* destinations the holder's sweep has yet to write
    kernel,         \* the kernel's routes with protocol zebra
    link,           \* index of the tunnel device to a next hop, 0 if none
    nLinks,         \* devices created so far
    pc,             \* where injectRoute is
    path,           \* the path it handles: [dst, nextHop, isWithdraw]
    faults,
    unsynced,       \* history: a write of the route failed, or the kernel lost it
    exempt          \* history: the last change of the destination ended in an
                    \* error, or its route is left over from an earlier process

bgpVars == <<best, established, nEvents>>
syncerVars == <<routeTableStateMap, mutex, todo>>
tunnelVars == <<link, nLinks>>
vars == <<bgpVars, events, syncerVars, kernel, tunnelVars, pc, path, faults,
          unsynced, exempt>>

NoRoute == [kind |-> "none", nh |-> NoPeer, idx |-> 0]
ViaGateway(n) == [kind |-> "gw", nh |-> n, idx |-> 0]
ViaLink(n, i) == [kind |-> "link", nh |-> n, idx |-> i]
Routes == [kind : {"none", "gw", "link"}, nh : Peers \cup {NoPeer}, idx : 0 .. MaxLinks]
Paths == [dst : Dsts, nextHop : Peers, isWithdraw : BOOLEAN]

\* A path of this node's own, which has no neighbour ("<nil>").
OwnPath == [dst |-> OwnDst, nextHop |-> NoPeer, isWithdraw |-> FALSE]

shouldCreateTunnel(n) ==
    enableOverlays /\ (overlayType = "full" \/ n \notin SameSubnet)

\* The kernel after a device is deleted: its routes are gone.
WithoutLink(table, i) ==
    [d \in Dsts |-> IF i # 0 /\ table[d].kind = "link" /\ table[d].idx = i
                    THEN NoRoute ELSE table[d]]

\* Routes an earlier process has left in the kernel are not in the map.
Init ==
    /\ best = [d \in Dsts |-> NoPeer]
    /\ established \in SUBSET BgpPeers
    /\ events = <<>>
    /\ nEvents = 0
    /\ routeTableStateMap = [d \in Dsts |-> NoRoute]
    /\ mutex = "none"
    /\ todo = {}
    /\ kernel \in [Dsts -> {NoRoute} \cup {ViaGateway(n) : n \in SameSubnet}]
    /\ link = [n \in Peers |-> 0]
    /\ nLinks = 0
    /\ pc = "idle"
    /\ path \in Paths
    /\ faults = 0
    /\ unsynced = {}
    /\ exempt = {d \in Dsts : kernel[d] # NoRoute}

-----------------------------------------------------------------------------
(* Environment: GoBGP.  A session that drops withdraws every path learned  *)
(* through it.  A next hop without a session of its own is reached through *)
(* a route reflector, whose session stays up.                              *)

Reachable(n) == n \in established \/ n \notin BgpPeers

LearnPath(d, n) ==
    /\ nEvents < MaxEvents
    /\ Reachable(n)
    /\ best[d] # n
    /\ best' = [best EXCEPT ![d] = n]
    /\ events' = Append(events, [dst |-> d, nextHop |-> n, isWithdraw |-> FALSE])
    /\ nEvents' = nEvents + 1
    /\ UNCHANGED <<established, syncerVars, kernel, tunnelVars, pc, path, faults,
                   unsynced, exempt>>

LosePath(d) ==
    /\ nEvents < MaxEvents
    /\ best[d] # NoPeer
    /\ best' = [best EXCEPT ![d] = NoPeer]
    /\ events' = Append(events, [dst |-> d, nextHop |-> best[d], isWithdraw |-> TRUE])
    /\ nEvents' = nEvents + 1
    /\ UNCHANGED <<established, syncerVars, kernel, tunnelVars, pc, path, faults,
                   unsynced, exempt>>

PeerUp(n) ==
    /\ n \in BgpPeers \ established
    /\ nEvents < MaxEvents
    /\ established' = established \cup {n}
    /\ nEvents' = nEvents + 1
    /\ UNCHANGED <<best, events, syncerVars, kernel, tunnelVars, pc, path, faults,
                   unsynced, exempt>>

PeerDown(n) ==
    LET lost == {d \in Dsts : best[d] = n} IN
    /\ n \in established
    /\ nEvents < MaxEvents
    /\ established' = established \ {n}
    /\ best' = [d \in Dsts |-> IF d \in lost THEN NoPeer ELSE best[d]]
    /\ \E order \in [1 .. Cardinality(lost) -> lost] :
          /\ \A d \in lost : \E i \in DOMAIN order : order[i] = d
          /\ events' = events \o [i \in DOMAIN order |->
                           [dst |-> order[i], nextHop |-> n, isWithdraw |-> TRUE]]
    /\ nEvents' = nEvents + 1
    /\ UNCHANGED <<syncerVars, kernel, tunnelVars, pc, path, faults, unsynced, exempt>>

\* GoBGP reports the paths this node has added as well.
AdvertiseOwn ==
    /\ nEvents < MaxEvents
    /\ events' = Append(events, OwnPath)
    /\ nEvents' = nEvents + 1
    /\ UNCHANGED <<best, established, syncerVars, kernel, tunnelVars, pc, path, faults,
                   unsynced, exempt>>

\* Something else removes a route: what the periodic sync is there to repair.
KernelLosesRoute(d) ==
    /\ faults < MaxFaults
    /\ kernel[d] # NoRoute
    /\ kernel' = [kernel EXCEPT ![d] = NoRoute]
    /\ faults' = faults + 1
    /\ unsynced' = unsynced \cup {d}
    /\ UNCHANGED <<bgpVars, events, syncerVars, tunnelVars, pc, path, exempt>>

-----------------------------------------------------------------------------
(* routeSyncer.                                                            *)

\* syncLocalRouteTable: the mutex is held over the whole sweep.
SyncBegin(holder) ==
    /\ mutex = "none"
    /\ mutex' = holder
    /\ todo' = {d \in Dsts : routeTableStateMap[d] # NoRoute}

\* RouteReplace fails when the route's device is gone, or because netlink does;
\* the error is logged and the sweep goes on.
RouteReplace(d) ==
    LET route == routeTableStateMap[d] IN
    /\ d \in todo
    /\ todo' = todo \ {d}
    /\ \/ /\ route.kind = "link" => link[route.nh] = route.idx
          /\ kernel' = [kernel EXCEPT ![d] = route]
          /\ unsynced' = unsynced \ {d}
          /\ UNCHANGED faults
       \/ /\ route.kind = "link" /\ link[route.nh] # route.idx
          /\ UNCHANGED <<kernel, unsynced, faults>>
       \/ /\ faults < MaxFaults
          /\ faults' = faults + 1
          /\ unsynced' = unsynced \cup {d}
          /\ UNCHANGED kernel
    /\ UNCHANGED <<bgpVars, events, routeTableStateMap, mutex, tunnelVars, pc, path,
                   exempt>>

SyncEnd(holder) ==
    /\ mutex = holder
    /\ todo = {}
    /\ mutex' = "none"
    /\ UNCHANGED todo

MTickerNotRun == UNCHANGED vars

TickerBegin ==
    /\ SyncBegin("ticker")
    /\ UNCHANGED <<bgpVars, events, routeTableStateMap, kernel, tunnelVars, pc, path,
                   faults, unsynced, exempt>>

TickerReplace == mutex = "ticker" /\ \E d \in Dsts : RouteReplace(d)

TickerEnd ==
    /\ SyncEnd("ticker")
    /\ UNCHANGED <<bgpVars, events, routeTableStateMap, kernel, tunnelVars, pc, path,
                   faults, unsynced, exempt>>

-----------------------------------------------------------------------------
(* injectRoute.  pc: "idle", "peer" (is the peer still established?),      *)
(* "forgetDown" / "forget" (delInjectedRoute), "cleanup" / "delete" (the   *)
(* kernel's route, and the tunnel of a peer that is down), "tunnel",       *)
(* "add" (addInjectedRoute), "sync" and "sweep" (syncLocalRouteTable).     *)

\* watchBgpUpdates: a path without a neighbour is dropped.
SkipOwnPath ==
    /\ pc = "idle"
    /\ events # <<>>
    /\ Head(events) = OwnPath
    /\ events' = Tail(events)
    /\ UNCHANGED <<bgpVars, syncerVars, kernel, tunnelVars, pc, path, faults, unsynced,
                   exempt>>

\* It hands every other one to injectRoute.
InjectBegin ==
    /\ pc = "idle"
    /\ events # <<>>
    /\ Head(events) # OwnPath
    /\ path' = Head(events)
    /\ events' = Tail(events)
    /\ pc' = IF Head(events).isWithdraw THEN "peer" ELSE "tunnel"
    /\ UNCHANGED <<bgpVars, syncerVars, kernel, tunnelVars, faults, unsynced, exempt>>

\* isPeerEstablished: listing the peers may fail, which counts as established.
InjectCheckPeer ==
    /\ pc = "peer"
    /\ \/ /\ pc' = IF path.nextHop \in established THEN "forget" ELSE "forgetDown"
          /\ UNCHANGED faults
       \/ /\ faults < MaxFaults
          /\ faults' = faults + 1
          /\ pc' = "forget"
    /\ UNCHANGED <<bgpVars, events, syncerVars, kernel, tunnelVars, path, unsynced,
                   exempt>>

MKeepInjectedRoute ==
    /\ pc \in {"forget", "forgetDown"}
    /\ pc' = IF pc = "forget" THEN "delete" ELSE "cleanup"
    /\ UNCHANGED <<bgpVars, events, syncerVars, kernel, tunnelVars, path, faults,
                   unsynced, exempt>>

delInjectedRoute ==
    /\ pc \in {"forget", "forgetDown"}
    /\ mutex = "none"
    /\ routeTableStateMap' = [routeTableStateMap EXCEPT ![path.dst] = NoRoute]
    /\ pc' = IF pc = "forget" THEN "delete" ELSE "cleanup"
    /\ UNCHANGED <<bgpVars, events, mutex, todo, kernel, tunnelVars, path, faults,
                   unsynced, exempt>>

\* deleteRoutesByDestination of the path's destination.
deleteRoutes(delFails) ==
    IF delFails THEN kernel ELSE [kernel EXCEPT ![path.dst] = NoRoute]

\* cleanupTunnel: the destination's routes, then the device of the next hop; it
\* goes on when one of the two fails.
cleanupTunnel(delFails, linkFails) ==
    IF link[path.nextHop] # 0 /\ ~linkFails
    THEN /\ kernel' = WithoutLink(deleteRoutes(delFails), link[path.nextHop])
         /\ link' = [link EXCEPT ![path.nextHop] = 0]
    ELSE /\ kernel' = deleteRoutes(delFails)
         /\ UNCHANGED link

MayFail(fails) ==
    /\ fails => faults < MaxFaults
    /\ faults' = IF fails THEN faults + 1 ELSE faults

MCleanupLinkOnly(delFails, linkFails) ==
    /\ pc = "cleanup"
    /\ ~delFails /\ ~linkFails
    /\ kernel' = WithoutLink(kernel, link[path.nextHop])
    /\ link' = [link EXCEPT ![path.nextHop] = 0]
    /\ exempt' = exempt \ {path.dst}
    /\ unsynced' = unsynced \ {path.dst}
    /\ pc' = "idle"
    /\ UNCHANGED <<bgpVars, events, syncerVars, nLinks, path, faults>>

\* The end of a withdrawal whose peer is down.
InjectCleanup(delFails, linkFails) ==
    /\ pc = "cleanup"
    /\ MayFail(delFails \/ linkFails)
    /\ cleanupTunnel(delFails, linkFails)
    /\ exempt' = IF delFails THEN exempt \cup {path.dst} ELSE exempt \ {path.dst}
    /\ unsynced' = unsynced \ {path.dst}
    /\ pc' = "idle"
    /\ UNCHANGED <<bgpVars, events, syncerVars, nLinks, path>>

\* The end of a withdrawal whose peer is still there.
InjectDelete(delFails) ==
    /\ pc = "delete"
    /\ MayFail(delFails)
    /\ kernel' = deleteRoutes(delFails)
    /\ exempt' = IF delFails THEN exempt \cup {path.dst} ELSE exempt \ {path.dst}
    /\ unsynced' = unsynced \ {path.dst}
    /\ pc' = "idle"
    /\ UNCHANGED <<bgpVars, events, syncerVars, tunnelVars, path>>

\* setupOverlayTunnel: the device is created unless it exists; an error, while
\* creating the device or after, ends injectRoute.
InjectTunnel(fails) ==
    /\ pc = "tunnel"
    /\ shouldCreateTunnel(path.nextHop)
    /\ MayFail(fails)
    /\ \/ /\ fails \/ link[path.nextHop] # 0
          /\ UNCHANGED tunnelVars
       \/ /\ link[path.nextHop] = 0
          /\ nLinks < MaxLinks
          /\ nLinks' = nLinks + 1
          /\ link' = [link EXCEPT ![path.nextHop] = nLinks + 1]
    /\ pc' = IF fails THEN "idle" ELSE "add"
    /\ exempt' = IF fails THEN exempt \cup {path.dst} ELSE exempt
    /\ UNCHANGED <<bgpVars, events, syncerVars, kernel, path, unsynced>>

\* No tunnel for this next hop: what an earlier configuration has left behind is
\* cleaned up; the route goes through the gateway, or BGP is left to do its thing.
InjectNoTunnel(delFails, linkFails) ==
    /\ pc = "tunnel"
    /\ ~shouldCreateTunnel(path.nextHop)
    /\ MayFail(delFails \/ linkFails)
    /\ cleanupTunnel(delFails, linkFails)
    /\ exempt' = IF delFails THEN exempt \cup {path.dst} ELSE exempt \ {path.dst}
    /\ pc' = IF path.nextHop \in SameSubnet THEN "add" ELSE "idle"
    /\ UNCHANGED <<bgpVars, events, syncerVars, nLinks, path, unsynced>>

addInjectedRoute ==
    /\ pc = "add"
    /\ mutex = "none"
    /\ routeTableStateMap' =
          [routeTableStateMap EXCEPT ![path.dst] =
              IF shouldCreateTunnel(path.nextHop)
              THEN ViaLink(path.nextHop, link[path.nextHop])
              ELSE ViaGateway(path.nextHop)]
    /\ exempt' = exempt \ {path.dst}
    /\ pc' = "sync"
    /\ UNCHANGED <<bgpVars, events, mutex, todo, kernel, tunnelVars, path, faults,
                   unsynced>>

InjectSyncBegin ==
    /\ pc = "sync"
    /\ SyncBegin("watch")
    /\ pc' = "sweep"
    /\ UNCHANGED <<bgpVars, events, routeTableStateMap, kernel, tunnelVars, path,
                   faults, unsynced, exempt>>

InjectReplace == mutex = "watch" /\ \E d \in Dsts : RouteReplace(d)

InjectSyncEnd ==
    /\ pc = "sweep"
    /\ SyncEnd("watch")
    /\ pc' = "idle"
    /\ UNCHANGED <<bgpVars, events, routeTableStateMap, kernel, tunnelVars, path,
                   faults, unsynced, exempt>>

-----------------------------------------------------------------------------
Environment ==
    \/ \E d \in Dsts : \/ \E n \in Peers : LearnPath(d, n)
                       \/ LosePath(d)
                       \/ KernelLosesRoute(d)
    \/ \E n \in Peers : PeerUp(n) \/ PeerDown(n)
    \/ AdvertiseOwn

Watch ==
    \/ SkipOwnPath \/ InjectBegin \/ InjectCheckPeer \/ delInjectedRoute
    \/ \E delFails, linkFails \in BOOLEAN :
          InjectCleanup(delFails, linkFails) \/ InjectNoTunnel(delFails, linkFails)
    \/ \E fails \in BOOLEAN : InjectDelete(fails) \/ InjectTunnel(fails)
    \/ addInjectedRoute
    \/ InjectSyncBegin \/ InjectReplace \/ InjectSyncEnd

Ticker == TickerBegin \/ TickerReplace \/ TickerEnd

Next == Environment \/ Watch \/ Ticker

\* The two goroutines keep running, and sync.Mutex starves nobody.
Fairness == SF_vars(Watch) /\ SF_vars(Ticker)

Spec == Init /\ [][Next]_vars
FairSpec == Spec /\ Fairness

-----------------------------------------------------------------------------
TypeOK ==
    /\ best \in [Dsts -> Peers \cup {NoPeer}]
    /\ established \in SUBSET Peers
    /\ events \in Seq(Paths \cup {OwnPath})
    /\ nEvents \in 0 .. MaxEvents
    /\ routeTableStateMap \in [Dsts -> Routes]
    /\ mutex \in {"none", "watch", "ticker"}
    /\ todo \in SUBSET Dsts
    /\ kernel \in [Dsts -> Routes]
    /\ link \in [Peers -> 0 .. MaxLinks]
    /\ nLinks \in 0 .. MaxLinks
    /\ pc \in {"idle", "peer", "forget", "forgetDown", "delete", "cleanup",
               "tunnel", "add", "sync", "sweep"}
    /\ path \in Paths
    /\ faults \in 0 .. MaxFaults
    /\ unsynced \in SUBSET Dsts
    /\ exempt \in SUBSET Dsts

\* No route comes back from the dead: a destination that is not in the state map
\* has no route in the kernel, except while injectRoute is between forgetting the
\* route and deleting it, although the ticker writes routes concurrently and the
\* deletion does not take routeSyncer's mutex.
NoGhostRoute ==
    \A d \in Dsts :
        kernel[d] # NoRoute /\ routeTableStateMap[d] = NoRoute
            => d \in exempt \/ (pc \in {"delete", "cleanup"} /\ path.dst = d)

\* The route the code means a destination to have.
Desired(n) ==
    CASE n = NoPeer -> NoRoute
      [] n # NoPeer /\ shouldCreateTunnel(n) -> ViaLink(n, link[n])
      [] n \in SameSubnet /\ ~shouldCreateTunnel(n) -> ViaGateway(n)
      [] OTHER -> NoRoute

\* Once every best-path change has been handled and no sweep is under way, the
\* kernel routes each destination as its best path says: the periodic sweep has
\* not put back a route that has been withdrawn or has moved, and no tunnel a
\* route needs has been removed.
Quiet == events = <<>> /\ pc = "idle" /\ mutex = "none"
RouteFollowsPath ==
    Quiet => \A d \in Dsts \ (exempt \cup unsynced) : kernel[d] = Desired(best[d])

\* A route the kernel has lost, or could not take, is written again.
RouteHeals ==
    \A d \in Dsts : (d \in unsynced) ~> (d \notin unsynced \/ routeTableStateMap[d] = NoRoute)
=============================================================================
