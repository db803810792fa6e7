------------------------ MODULE RouteInjectionProofs ------------------------
(***************************************************************************)
(* Proofs about RouteInjection, for every set of destinations and next     *)
(* hops, every overlay setting and every number of path changes and        *)
(* failures.                                                               *)
(***************************************************************************)
EXTENDS RouteInjection, FiniteSetTheorems, SequenceTheorems, TLAPS

\* routeSyncer.mutex and the sweep: a sweep writes only destinations that are in
\* the map, and the map does not change while it lasts.
SweepInv ==
    /\ mutex = "watch" <=> pc = "sweep"
    /\ mutex = "none" => todo = {}
    /\ \A d \in todo : routeTableStateMap[d] # NoRoute

IInv == TypeOK /\ SweepInv /\ NoGhostRoute

USE RouteAssumption DEF RouteAssumption

-----------------------------------------------------------------------------
\* The routes the code builds are routes.
LEMMA RoutesType ==
    /\ NoRoute \in Routes
    /\ \A n \in Peers : ViaGateway(n) \in Routes /\ ViaGateway(n) # NoRoute
    /\ \A n \in Peers, i \in 0 .. MaxLinks : ViaLink(n, i) \in Routes /\ ViaLink(n, i) # NoRoute
  BY DEF NoRoute, ViaGateway, ViaLink, Routes

\* Deleting a device only removes routes.
LEMMA WithoutLinkType ==
    ASSUME NEW table \in [Dsts -> Routes], NEW i \in 0 .. MaxLinks
    PROVE  /\ WithoutLink(table, i) \in [Dsts -> Routes]
           /\ \A d \in Dsts : WithoutLink(table, i)[d] # NoRoute => table[d] # NoRoute
  BY RoutesType DEF WithoutLink

\* cleanupTunnel only removes routes, the destination's unless the deletion fails.
LEMMA CleanupEffect ==
    ASSUME TypeOK, NEW delFails \in BOOLEAN, NEW linkFails \in BOOLEAN,
           cleanupTunnel(delFails, linkFails)
    PROVE  /\ kernel' \in [Dsts -> Routes]
           /\ link' \in [Peers -> 0 .. MaxLinks]
           /\ \A d \in Dsts : kernel'[d] # NoRoute => kernel[d] # NoRoute
           /\ ~delFails => kernel'[path.dst] = NoRoute
  <1> path.dst \in Dsts /\ path.nextHop \in Peers
    BY DEF TypeOK, Paths
  <1> DEFINE table == deleteRoutes(delFails)
  <1>1. /\ table \in [Dsts -> Routes]
        /\ \A d \in Dsts : table[d] # NoRoute => kernel[d] # NoRoute
        /\ ~delFails => table[path.dst] = NoRoute
    BY RoutesType DEF TypeOK, deleteRoutes
  <1> HIDE DEF table
  <1>2. CASE link[path.nextHop] # 0 /\ ~linkFails
    <2>1. link[path.nextHop] \in 0 .. MaxLinks
      BY DEF TypeOK
    <2>2. kernel' = WithoutLink(table, link[path.nextHop])
      BY <1>2 DEF cleanupTunnel, table
    <2>3. link' \in [Peers -> 0 .. MaxLinks]
      BY <1>2 DEF cleanupTunnel, TypeOK
    <2> QED
      BY <1>1, <2>1, <2>2, <2>3, WithoutLinkType
  <1>3. CASE ~(link[path.nextHop] # 0 /\ ~linkFails)
    BY <1>1, <1>3 DEF cleanupTunnel, table, TypeOK
  <1> QED
    BY <1>2, <1>3

-----------------------------------------------------------------------------
\* Init establishes the invariant.
LEMMA InitIInv == Init => IInv
  <1> SUFFICES ASSUME Init PROVE IInv
    OBVIOUS
  <1>1. kernel \in [Dsts -> Routes] /\ routeTableStateMap \in [Dsts -> Routes]
    BY RoutesType DEF Init
  <1>2. TypeOK
    BY <1>1 DEF Init, TypeOK
  <1>3. SweepInv
    BY DEF Init, SweepInv
  <1>4. NoGhostRoute
    BY DEF Init, NoGhostRoute
  <1> QED
    BY <1>2, <1>3, <1>4 DEF IInv

\* The withdrawals a lost session causes are paths.
LEMMA PeerDownType ==
    ASSUME TypeOK, NEW n \in Peers, PeerDown(n)
    PROVE  events' \in Seq(Paths \cup {OwnPath})
  <1> DEFINE lost == {d \in Dsts : best[d] = n}
  <1>1. IsFiniteSet(lost) /\ Cardinality(lost) \in Nat
    BY FS_Subset, FS_CardinalityType
  <1>2. PICK order \in [1 .. Cardinality(lost) -> lost] :
          events' = events \o [i \in DOMAIN order |->
                       [dst |-> order[i], nextHop |-> n, isWithdraw |-> TRUE]]
    BY DEF PeerDown
  <1>3. [i \in DOMAIN order |-> [dst |-> order[i], nextHop |-> n, isWithdraw |-> TRUE]]
           \in Seq(Paths \cup {OwnPath})
    <2> DEFINE Reports == Paths \cup {OwnPath}
    <2>1. \A i \in 1 .. Cardinality(lost) :
             [dst |-> order[i], nextHop |-> n, isWithdraw |-> TRUE] \in Reports
      BY DEF Paths
    <2> HIDE DEF lost, Reports
    <2>2. [i \in DOMAIN order |-> [dst |-> order[i], nextHop |-> n, isWithdraw |-> TRUE]]
             \in Seq(Reports)
      BY <1>1, <2>1, SMTT(30)
    <2> QED
      BY <2>2 DEF Reports
  <1>4. \A S : \A s, t \in Seq(S) : s \o t \in Seq(S)
    OBVIOUS
  <1>5. events \in Seq(Paths \cup {OwnPath})
    BY DEF TypeOK
  <1> QED
    BY <1>2, <1>3, <1>4, <1>5, Zenon

\* Every step keeps the types.
LEMMA TypeStep == TypeOK /\ [Next]_vars => TypeOK'
  <1> SUFFICES ASSUME TypeOK, [Next]_vars PROVE TypeOK'
    OBVIOUS
  <1> USE DEF bgpVars, syncerVars, tunnelVars
  <1> path.dst \in Dsts /\ path.nextHop \in Peers
    BY DEF TypeOK, Paths
  <1>1. ASSUME NEW d \in Dsts, NEW n \in Peers, LearnPath(d, n) PROVE TypeOK'
    BY <1>1 DEF LearnPath, TypeOK, Paths
  <1>2. ASSUME NEW d \in Dsts, LosePath(d) PROVE TypeOK'
    BY <1>2 DEF LosePath, TypeOK, Paths
  <1>3. ASSUME NEW d \in Dsts, KernelLosesRoute(d) PROVE TypeOK'
    BY <1>3, RoutesType DEF KernelLosesRoute, TypeOK
  <1>4. ASSUME NEW n \in Peers, PeerUp(n) PROVE TypeOK'
    BY <1>4 DEF PeerUp, TypeOK
  <1>5. ASSUME NEW n \in Peers, PeerDown(n) PROVE TypeOK'
    <2>1. events' \in Seq(Paths \cup {OwnPath})
      BY <1>5, PeerDownType
    <2> QED
      BY <1>5, <2>1 DEF PeerDown, TypeOK
  <1>6. CASE InjectBegin
    BY <1>6 DEF InjectBegin, TypeOK
  <1>7. CASE InjectCheckPeer
    BY <1>7 DEF InjectCheckPeer, TypeOK
  <1>8. CASE delInjectedRoute
    BY <1>8, RoutesType DEF delInjectedRoute, TypeOK
  <1>9. ASSUME NEW delFails \in BOOLEAN, NEW linkFails \in BOOLEAN,
               InjectCleanup(delFails, linkFails)
        PROVE  TypeOK'
    BY <1>9, CleanupEffect DEF InjectCleanup, MayFail, TypeOK
  <1>10. ASSUME NEW delFails \in BOOLEAN, NEW linkFails \in BOOLEAN,
                InjectNoTunnel(delFails, linkFails)
         PROVE  TypeOK'
    BY <1>10, CleanupEffect DEF InjectNoTunnel, MayFail, TypeOK
  <1>11. ASSUME NEW fails \in BOOLEAN, InjectDelete(fails) PROVE TypeOK'
    BY <1>11, RoutesType DEF InjectDelete, deleteRoutes, MayFail, TypeOK
  <1>12. ASSUME NEW fails \in BOOLEAN, InjectTunnel(fails) PROVE TypeOK'
    BY <1>12 DEF InjectTunnel, MayFail, TypeOK
  <1>13. CASE addInjectedRoute
    BY <1>13, RoutesType DEF addInjectedRoute, TypeOK
  <1>14. CASE InjectSyncBegin
    BY <1>14 DEF InjectSyncBegin, SyncBegin, TypeOK
  <1>15. CASE InjectSyncEnd
    BY <1>15 DEF InjectSyncEnd, SyncEnd, TypeOK
  <1>16. ASSUME NEW d \in Dsts, RouteReplace(d) PROVE TypeOK'
    BY <1>16 DEF RouteReplace, TypeOK
  <1>17. CASE TickerBegin
    BY <1>17 DEF TickerBegin, SyncBegin, TypeOK
  <1>18. CASE TickerEnd
    BY <1>18 DEF TickerEnd, SyncEnd, TypeOK
  <1>19. CASE UNCHANGED vars
    BY <1>19 DEF vars, TypeOK
  <1>20. CASE AdvertiseOwn
    BY <1>20 DEF AdvertiseOwn, TypeOK
  <1>21. CASE SkipOwnPath
    BY <1>21 DEF SkipOwnPath, TypeOK
  <1> QED
    BY <1>1, <1>2, <1>3, <1>4, <1>5, <1>6, <1>7, <1>8, <1>9, <1>10, <1>11, <1>12,
       <1>13, <1>14, <1>15, <1>16, <1>17, <1>18, <1>19, <1>20, <1>21
    DEF Next, Environment, Watch, Ticker, InjectReplace, TickerReplace

-----------------------------------------------------------------------------
\* Steps that leave the map, the kernel's table, the lock, the program counter and
\* the exemptions alone.
LEMMA Untouched ==
    ASSUME SweepInv, NoGhostRoute,
           UNCHANGED <<routeTableStateMap, mutex, todo, kernel, pc, path, exempt>>
    PROVE  SweepInv' /\ NoGhostRoute'
  BY DEF SweepInv, NoGhostRoute

\* Every step keeps the sweep invariant and adds no ghost route.
LEMMA GhostStep == IInv /\ [Next]_vars => SweepInv' /\ NoGhostRoute'
  <1> SUFFICES ASSUME TypeOK, SweepInv, NoGhostRoute, [Next]_vars
               PROVE  SweepInv' /\ NoGhostRoute'
    BY DEF IInv
  <1> USE DEF bgpVars, syncerVars, tunnelVars
  <1> path.dst \in Dsts /\ path.nextHop \in Peers
    BY DEF TypeOK, Paths
  <1>1. ASSUME NEW d \in Dsts, NEW n \in Peers, LearnPath(d, n)
        PROVE  SweepInv' /\ NoGhostRoute'
    BY <1>1, Untouched DEF LearnPath
  <1>2. ASSUME NEW d \in Dsts, LosePath(d) PROVE SweepInv' /\ NoGhostRoute'
    BY <1>2, Untouched DEF LosePath
  <1>3. ASSUME NEW d \in Dsts, KernelLosesRoute(d) PROVE SweepInv' /\ NoGhostRoute'
    BY <1>3 DEF KernelLosesRoute, SweepInv, NoGhostRoute, TypeOK
  <1>4. ASSUME NEW n \in Peers, PeerUp(n) PROVE SweepInv' /\ NoGhostRoute'
    BY <1>4, Untouched DEF PeerUp
  <1>5. ASSUME NEW n \in Peers, PeerDown(n) PROVE SweepInv' /\ NoGhostRoute'
    BY <1>5, Untouched DEF PeerDown
  <1>6. CASE InjectBegin
    BY <1>6 DEF InjectBegin, SweepInv, NoGhostRoute
  <1>7. CASE InjectCheckPeer
    BY <1>7 DEF InjectCheckPeer, SweepInv, NoGhostRoute
  <1>8. CASE delInjectedRoute
    BY <1>8 DEF delInjectedRoute, SweepInv, NoGhostRoute, TypeOK
  <1>9. ASSUME NEW delFails \in BOOLEAN, NEW linkFails \in BOOLEAN,
               InjectCleanup(delFails, linkFails)
        PROVE  SweepInv' /\ NoGhostRoute'
    BY <1>9, CleanupEffect DEF InjectCleanup, SweepInv, NoGhostRoute
  <1>10. ASSUME NEW delFails \in BOOLEAN, NEW linkFails \in BOOLEAN,
                InjectNoTunnel(delFails, linkFails)
         PROVE  SweepInv' /\ NoGhostRoute'
    BY <1>10, CleanupEffect DEF InjectNoTunnel, SweepInv, NoGhostRoute
  <1>11. ASSUME NEW fails \in BOOLEAN, InjectDelete(fails)
         PROVE  SweepInv' /\ NoGhostRoute'
    BY <1>11 DEF InjectDelete, deleteRoutes, SweepInv, NoGhostRoute, TypeOK
  <1>12. ASSUME NEW fails \in BOOLEAN, InjectTunnel(fails)
         PROVE  SweepInv' /\ NoGhostRoute'
    BY <1>12 DEF InjectTunnel, SweepInv, NoGhostRoute
  <1>13. CASE addInjectedRoute
    <2>1. routeTableStateMap'[path.dst] # NoRoute
      BY <1>13, RoutesType DEF addInjectedRoute, TypeOK
    <2> QED
      BY <1>13, <2>1 DEF addInjectedRoute, SweepInv, NoGhostRoute, TypeOK
  <1>14. CASE InjectSyncBegin
    BY <1>14 DEF InjectSyncBegin, SyncBegin, SweepInv, NoGhostRoute
  <1>15. CASE InjectSyncEnd
    BY <1>15 DEF InjectSyncEnd, SyncEnd, SweepInv, NoGhostRoute
  <1>16. ASSUME NEW d \in Dsts, RouteReplace(d) PROVE SweepInv' /\ NoGhostRoute'
    <2>1. mutex # "none"
      BY <1>16 DEF RouteReplace, SweepInv
    <2> QED
      BY <1>16, <2>1 DEF RouteReplace, SweepInv, NoGhostRoute, TypeOK
  <1>17. CASE TickerBegin
    BY <1>17 DEF TickerBegin, SyncBegin, SweepInv, NoGhostRoute
  <1>18. CASE TickerEnd
    BY <1>18 DEF TickerEnd, SyncEnd, SweepInv, NoGhostRoute
  <1>19. CASE UNCHANGED vars
    BY <1>19, Untouched DEF vars
  <1>20. CASE AdvertiseOwn \/ SkipOwnPath
    BY <1>20, Untouched DEF AdvertiseOwn, SkipOwnPath
  <1> QED
    BY <1>1, <1>2, <1>3, <1>4, <1>5, <1>6, <1>7, <1>8, <1>9, <1>10, <1>11, <1>12,
       <1>13, <1>14, <1>15, <1>16, <1>17, <1>18, <1>19, <1>20
    DEF Next, Environment, Watch, Ticker, InjectReplace, TickerReplace

-----------------------------------------------------------------------------
\* The invariant holds in every reachable state.
LEMMA Invariant == Spec => []IInv
  <1>1. IInv /\ [Next]_vars => IInv'
    BY TypeStep, GhostStep DEF IInv
  <1> QED
    BY InitIInv, <1>1, PTL DEF Spec

\* injectRoute and the sweeps keep every variable in its type.
THEOREM TypeCorrect == Spec => []TypeOK
  <1>1. IInv => TypeOK
    BY DEF IInv
  <1> QED
    BY <1>1, Invariant, PTL

\* Neither the ticker nor injectRoute's own sweep ever brings back a route that has
\* been taken out of routeTableStateMap, although the kernel's table is changed
\* outside routeSyncer's mutex.
THEOREM NoRouteComesBack == Spec => []NoGhostRoute
  <1>1. IInv => NoGhostRoute
    BY DEF IInv
  <1> QED
    BY <1>1, Invariant, PTL
-----------------------------------------------------------------------------
(* The kernel's routes follow the best paths.                              *)

\* Where the code can promise it: every path is a session of this node's own, and each
\* next hop gets a tunnel or is in the node's subnet.
FullMesh == BgpPeers = Peers
AllInjected == \A n \in Peers : shouldCreateTunnel(n) \/ n \in SameSubnet

\* A change of the destination's path is waiting, or injectRoute is at work on it.
InQueue(d) == \E i \in 1 .. Len(events) : events[i].dst = d
Working == {"peer", "forget", "forgetDown", "delete", "cleanup", "tunnel", "add"}
Settled(d) == ~InQueue(d) /\ (pc \in Working => path.dst # d)

\* The last change in the queue says what the best path is, and so does the path that
\* injectRoute works on if no later one is waiting.
Matches(e) == best[e.dst] = IF e.isWithdraw THEN NoPeer ELSE e.nextHop
LastMatches ==
    \A i \in 1 .. Len(events) :
       \/ events[i] = OwnPath
       \/ Matches(events[i])
       \/ \E j \in i + 1 .. Len(events) : events[j].dst = events[i].dst
QueueInv ==
    /\ LastMatches
    /\ pc \in Working => Matches(path) \/ InQueue(path.dst)
    /\ pc \in {"peer", "forget", "forgetDown", "delete", "cleanup"} => path.isWithdraw
    /\ pc \in {"tunnel", "add"} => ~path.isWithdraw

\* A path has a live session.  When injectRoute has found the session down, no settled
\* destination uses the tunnel that it is about to remove.
SessionInv ==
    /\ \A d \in Dsts : best[d] # NoPeer => best[d] \in established
    /\ pc \in {"forgetDown", "cleanup"} => \A d \in Dsts : best[d] = path.nextHop => InQueue(d)

\* Tunnel devices have indices of their own.
LinkInv ==
    /\ \A n \in Peers : link[n] <= nLinks /\ (link[n] # 0 => shouldCreateTunnel(n))
    /\ \A m, n \in Peers : link[m] = link[n] /\ link[m] # 0 => m = n
    /\ pc = "add" /\ shouldCreateTunnel(path.nextHop) => link[path.nextHop] # 0

\* The map has the route of the best path and the tunnel is there.
MapInv ==
    /\ \A d \in Dsts : Settled(d) /\ d \notin exempt =>
          /\ routeTableStateMap[d] = Desired(best[d])
          /\ best[d] # NoPeer /\ shouldCreateTunnel(best[d]) => link[best[d]] # 0
    /\ pc \in {"delete", "cleanup"} => routeTableStateMap[path.dst] = NoRoute
    /\ pc = "sync" => routeTableStateMap[path.dst] # NoRoute

\* And so has the kernel, except for the destination that the sweep at the end of
\* injectRoute has yet to write.
Unwritten(d) == path.dst = d /\ (pc = "sync" \/ (pc = "sweep" /\ d \in todo))
KernelInv ==
    \A d \in Dsts : Settled(d) /\ d \notin exempt \cup unsynced /\ ~Unwritten(d)
                        => kernel[d] = routeTableStateMap[d]

FInv == IInv /\ QueueInv /\ SessionInv /\ LinkInv /\ MapInv /\ KernelInv

\* A change of a best path is put into the queue with it.
Announced ==
    \A d \in Dsts : /\ InQueue(d) => InQueue(d)'
                    /\ best'[d] = best[d] \/ InQueue(d)'

\* One more change at the end of the queue supersedes the others of its destination.
LEMMA AppendStep ==
    ASSUME TypeOK, LastMatches, NEW e \in Paths,
           events' = Append(events, e),
           best' = [best EXCEPT ![e.dst] = IF e.isWithdraw THEN NoPeer ELSE e.nextHop]
    PROVE  Announced /\ LastMatches'
  <1> e.dst \in Dsts
    BY DEF Paths
  <1>1. events \in Seq(Paths \cup {OwnPath}) /\ Len(events) \in Nat
    BY DEF TypeOK
  <1>2. /\ Len(events') = Len(events) + 1
        /\ \A i \in 1 .. Len(events) : events'[i] = events[i]
        /\ events'[Len(events) + 1] = e
    BY <1>1
  <1>3. \A d \in Dsts : InQueue(d) => InQueue(d)'
    BY <1>1, <1>2 DEF InQueue
  <1>4. InQueue(e.dst)'
    BY <1>1, <1>2 DEF InQueue
  <1>5. \A d \in Dsts : d # e.dst => best'[d] = best[d]
    BY DEF TypeOK
  <1>6. ASSUME NEW i \in 1 .. Len(events')
        PROVE  events'[i] = OwnPath \/ Matches(events[i])' \/ \E j \in i + 1 .. Len(events') : events'[j].dst = events'[i].dst
    <2>1. CASE i = Len(events) + 1
      BY <1>2, <2>1 DEF Matches, TypeOK
    <2>2. CASE i \in 1 .. Len(events) /\ events[i].dst = e.dst
      BY <1>1, <1>2, <2>2
    <2>3. CASE i \in 1 .. Len(events) /\ events[i] = OwnPath
      BY <1>2, <2>3
    <2>4. CASE i \in 1 .. Len(events) /\ events[i] # OwnPath /\ events[i].dst # e.dst
      <3>1. events[i].dst \in Dsts
        <4>1. events[i] \in Paths
          BY <1>1, <2>4
        <4> QED
          BY <4>1 DEF Paths
      <3>2. CASE Matches(events[i])
        BY <1>2, <1>5, <2>4, <3>1, <3>2 DEF Matches
      <3>3. CASE \E j \in i + 1 .. Len(events) : events[j].dst = events[i].dst
        BY <1>1, <1>2, <2>4, <3>3
      <3> QED
        BY <2>4, <3>2, <3>3 DEF LastMatches
    <2> QED
      BY <1>1, <1>2, <2>1, <2>2, <2>3, <2>4
  <1>7. LastMatches'
    BY <1>6 DEF LastMatches
  <1>8. Announced
    BY <1>3, <1>4, <1>5 DEF Announced
  <1> QED
    BY <1>7, <1>8

\* A lost session withdraws every path learned over it.
LEMMA PeerDownStep ==
    ASSUME TypeOK, LastMatches, NEW n \in Peers, PeerDown(n)
    PROVE  Announced /\ LastMatches'
  <1> DEFINE lost == {d \in Dsts : best[d] = n}
  <1>1. IsFiniteSet(lost) /\ Cardinality(lost) \in Nat
    BY FS_Subset, FS_CardinalityType
  <1>2. PICK order \in [1 .. Cardinality(lost) -> lost] :
          /\ \A d \in lost : \E i \in DOMAIN order : order[i] = d
          /\ events' = events \o [i \in DOMAIN order |->
                       [dst |-> order[i], nextHop |-> n, isWithdraw |-> TRUE]]
    BY DEF PeerDown
  <1>3. best' = [d \in Dsts |-> IF d \in lost THEN NoPeer ELSE best[d]]
    BY DEF PeerDown
  <1> DEFINE k == Cardinality(lost)
             t == [i \in DOMAIN order |-> [dst |-> order[i], nextHop |-> n, isWithdraw |-> TRUE]]
  <1>4. events \in Seq(Paths \cup {OwnPath}) /\ Len(events) \in Nat
    BY DEF TypeOK
  <1>5. /\ k \in Nat
        /\ \A i \in 1 .. k : t[i].dst = order[i] /\ order[i] \in lost /\ t[i].isWithdraw = TRUE
        /\ \A d \in lost : \E i \in 1 .. k : t[i].dst = d
    BY <1>1, <1>2
  <1>6. t \in Seq(Paths \cup {OwnPath}) /\ Len(t) = k
    <2>1. \A i \in 1 .. k : t[i] \in Paths \cup {OwnPath}
      BY DEF Paths
    <2>2. t = [i \in 1 .. k |-> t[i]]
      OBVIOUS
    <2> HIDE DEF t, k
    <2>3. t \in Seq(Paths \cup {OwnPath})
      BY <1>5, <2>1, <2>2
    <2> QED
      BY <1>5, <2>2, <2>3
  <1>7. events' = events \o t
    BY <1>2
  <1> HIDE DEF t, k
  <1>8. /\ Len(events') = Len(events) + k
        /\ \A i \in 1 .. Len(events) : events'[i] = events[i]
        /\ \A i \in 1 .. k : events'[Len(events) + i] = t[i]
    <2>1. \A q, r \in Seq(Paths \cup {OwnPath}) :
             /\ Len(q \o r) = Len(q) + Len(r)
             /\ \A i \in 1 .. Len(q) : (q \o r)[i] = q[i]
             /\ \A i \in 1 .. Len(r) : (q \o r)[Len(q) + i] = r[i]
      BY ConcatProperties, SMTT(30)
    <2> QED
      BY <1>4, <1>6, <1>7, <2>1
  <1>9. \A d \in Dsts : InQueue(d) => InQueue(d)'
    BY <1>4, <1>5, <1>8 DEF InQueue
  <1>10. ASSUME NEW d \in lost PROVE InQueue(d)'
    <2>1. PICK i \in 1 .. k : t[i].dst = d
      BY <1>5
    <2>2. Len(events) + i \in 1 .. Len(events') /\ events'[Len(events) + i].dst = d
      BY <1>4, <1>5, <1>8, <2>1
    <2> QED
      BY <2>2 DEF InQueue
  <1>11. Announced
    BY <1>3, <1>9, <1>10 DEF Announced
  <1>12. ASSUME NEW i \in 1 .. Len(events')
         PROVE  events'[i] = OwnPath \/ Matches(events[i])' \/ \E j \in i + 1 .. Len(events') : events'[j].dst = events'[i].dst
    <2>1. CASE i \in Len(events) + 1 .. Len(events) + k
      <3>1. i - Len(events) \in 1 .. k /\ i = Len(events) + (i - Len(events))
        BY <1>4, <1>5, <2>1
      <3>2. events'[i].dst \in lost /\ events'[i].isWithdraw = TRUE
        <4>1. events'[i] = t[i - Len(events)]
          BY <1>8, <3>1
        <4> QED
          BY <1>5, <3>1, <4>1
      <3> QED
        BY <1>3, <3>2 DEF Matches
    <2>2. CASE i \in 1 .. Len(events) /\ events[i].dst \in lost
      <3>1. PICK j \in 1 .. k : t[j].dst = events[i].dst
        BY <1>5, <2>2
      <3>2. Len(events) + j \in i + 1 .. Len(events') /\ events'[Len(events) + j].dst = events'[i].dst
        BY <1>4, <1>5, <1>8, <2>2, <3>1
      <3> QED
        BY <3>2
    <2>5. CASE i \in 1 .. Len(events) /\ events[i] = OwnPath
      BY <1>8, <2>5
    <2>3. CASE i \in 1 .. Len(events) /\ events[i] # OwnPath /\ events[i].dst \notin lost
      <3>1. events[i].dst \in Dsts
        <4>1. events[i] \in Paths
          BY <1>4, <2>3
        <4> QED
          BY <4>1 DEF Paths
      <3>2. CASE Matches(events[i])
        BY <1>3, <1>8, <2>3, <3>1, <3>2 DEF Matches
      <3>3. CASE \E j \in i + 1 .. Len(events) : events[j].dst = events[i].dst
        BY <1>4, <1>5, <1>8, <2>3, <3>3
      <3> QED
        BY <2>3, <3>2, <3>3 DEF LastMatches
    <2>4. i \in 1 .. Len(events) \/ i \in Len(events) + 1 .. Len(events) + k
      BY <1>4, <1>5, <1>8
    <2> QED
      BY <2>1, <2>2, <2>3, <2>4, <2>5
  <1>13. LastMatches'
    BY <1>12 DEF LastMatches
  <1> QED
    BY <1>11, <1>13

\* injectRoute takes the first change out of the queue.
LEMMA TakeStep ==
    ASSUME TypeOK, LastMatches, InjectBegin
    PROVE  /\ LastMatches'
           /\ \A d \in Dsts : InQueue(d) => InQueue(d)' \/ path'.dst = d
           /\ path' \in Paths
           /\ Matches(path)' \/ InQueue(path.dst)'
  <1>1. events \in Seq(Paths \cup {OwnPath}) /\ Len(events) \in Nat /\ Len(events) > 0
    BY DEF TypeOK, InjectBegin
  <1>2. /\ path' = events[1] /\ path' \in Paths
        /\ Len(events') = Len(events) - 1
        /\ \A i \in 1 .. Len(events') : events'[i] = events[i + 1]
        /\ events[1] # OwnPath
    BY <1>1 DEF InjectBegin
  <1>3. best' = best
    BY DEF InjectBegin, bgpVars
  <1>4. \A j \in 2 .. Len(events) : j - 1 \in 1 .. Len(events') /\ events'[j - 1] = events[j]
    BY <1>1, <1>2
  <1>5. ASSUME NEW d \in Dsts, InQueue(d) PROVE InQueue(d)' \/ path'.dst = d
    <2>1. PICK i \in 1 .. Len(events) : events[i].dst = d
      BY <1>5 DEF InQueue
    <2>2. CASE i = 1
      BY <1>2, <2>1, <2>2
    <2>3. CASE i # 1
      <3>1. i \in 2 .. Len(events)
        BY <1>1, <2>3
      <3>2. i - 1 \in 1 .. Len(events') /\ events'[i - 1].dst = d
        BY <1>4, <2>1, <3>1
      <3> QED
        BY <3>2 DEF InQueue
    <2> QED
      BY <2>2, <2>3
  <1>6. Matches(path)' \/ InQueue(path.dst)'
    <2>1. CASE Matches(events[1])
      BY <1>2, <1>3, <2>1 DEF Matches
    <2>2. CASE \E j \in 2 .. Len(events) : events[j].dst = events[1].dst
      <3>1. PICK j \in 2 .. Len(events) : events[j].dst = events[1].dst
        BY <2>2
      <3>2. j - 1 \in 1 .. Len(events') /\ events'[j - 1].dst = path'.dst
        BY <1>2, <1>4, <3>1
      <3> QED
        BY <3>2 DEF InQueue
    <2>3. 1 \in 1 .. Len(events) /\ 1 + 1 = 2
      BY <1>1
    <2> QED
      BY <1>2, <2>1, <2>2, <2>3 DEF LastMatches
  <1>7. ASSUME NEW i \in 1 .. Len(events')
        PROVE  events'[i] = OwnPath \/ Matches(events[i])' \/ \E j \in i + 1 .. Len(events') : events'[j].dst = events'[i].dst
    <2>1. i + 1 \in 1 .. Len(events) /\ events'[i] = events[i + 1]
      BY <1>1, <1>2
    <2>2. CASE Matches(events[i + 1])
      BY <1>3, <2>1, <2>2 DEF Matches
    <2>3. CASE \E j \in (i + 1) + 1 .. Len(events) : events[j].dst = events[i + 1].dst
      <3>1. PICK j \in (i + 1) + 1 .. Len(events) : events[j].dst = events[i + 1].dst
        BY <2>3
      <3>2. j - 1 \in i + 1 .. Len(events') /\ j \in 2 .. Len(events)
        BY <1>1, <1>2, <3>1
      <3> QED
        BY <1>4, <2>1, <3>1, <3>2
    <2>4. CASE events[i + 1] = OwnPath
      BY <2>1, <2>4
    <2> QED
      BY <2>1, <2>2, <2>3, <2>4 DEF LastMatches
  <1>8. LastMatches'
    BY <1>7 DEF LastMatches
  <1> QED
    BY <1>2, <1>5, <1>6, <1>8

\* A path of this node's own, put into the queue or dropped from it, changes nothing for
\* the others.
LEMMA OwnPathStep ==
    ASSUME TypeOK, LastMatches, AdvertiseOwn \/ SkipOwnPath
    PROVE  Announced /\ LastMatches'
  <1>0. events \in Seq(Paths \cup {OwnPath}) /\ Len(events) \in Nat
    BY DEF TypeOK
  <1>1. best' = best
    BY DEF AdvertiseOwn, SkipOwnPath, bgpVars
  <1>2. \A d \in Dsts : OwnPath.dst # d
    BY RouteAssumption DEF OwnPath
  <1>3. CASE AdvertiseOwn
    <2>1. /\ Len(events') = Len(events) + 1
          /\ \A i \in 1 .. Len(events) : events'[i] = events[i]
          /\ events'[Len(events) + 1] = OwnPath
      BY <1>0, <1>3 DEF AdvertiseOwn
    <2>2. Announced
      BY <1>0, <1>1, <2>1 DEF Announced, InQueue
    <2>3. ASSUME NEW i \in 1 .. Len(events')
          PROVE  events'[i] = OwnPath \/ Matches(events[i])' \/ \E j \in i + 1 .. Len(events') : events'[j].dst = events'[i].dst
      <3>1. CASE i = Len(events) + 1
        BY <2>1, <3>1
      <3>2. CASE i \in 1 .. Len(events)
        BY <1>0, <1>1, <2>1, <3>2 DEF LastMatches, Matches
      <3> QED
        BY <1>0, <2>1, <3>1, <3>2
    <2> QED
      BY <2>2, <2>3 DEF LastMatches
  <1>4. CASE SkipOwnPath
    <2>1. /\ events[1] = OwnPath /\ Len(events) > 0
          /\ Len(events') = Len(events) - 1
          /\ \A i \in 1 .. Len(events') : events'[i] = events[i + 1]
      BY <1>0, <1>4 DEF SkipOwnPath
    <2>2. \A j \in 2 .. Len(events) : j - 1 \in 1 .. Len(events') /\ events'[j - 1] = events[j]
      BY <1>0, <2>1
    <2>3. ASSUME NEW d \in Dsts, InQueue(d) PROVE InQueue(d)'
      <3>1. PICK i \in 1 .. Len(events) : events[i].dst = d
        BY <2>3 DEF InQueue
      <3>2. i \in 2 .. Len(events)
        BY <1>0, <1>2, <2>1, <3>1
      <3>3. i - 1 \in 1 .. Len(events') /\ events'[i - 1].dst = d
        BY <2>2, <3>1, <3>2
      <3> QED
        BY <3>3 DEF InQueue
    <2>4. ASSUME NEW i \in 1 .. Len(events')
          PROVE  events'[i] = OwnPath \/ Matches(events[i])' \/ \E j \in i + 1 .. Len(events') : events'[j].dst = events'[i].dst
      <3>1. i + 1 \in 1 .. Len(events) /\ events'[i] = events[i + 1]
        BY <1>0, <2>1
      <3>2. CASE events[i + 1] = OwnPath \/ Matches(events[i + 1])
        BY <1>1, <3>1, <3>2 DEF Matches
      <3>3. CASE \E j \in (i + 1) + 1 .. Len(events) : events[j].dst = events[i + 1].dst
        <4>1. PICK j \in (i + 1) + 1 .. Len(events) : events[j].dst = events[i + 1].dst
          BY <3>3
        <4>2. j - 1 \in i + 1 .. Len(events') /\ j \in 2 .. Len(events)
          BY <1>0, <2>1, <4>1
        <4> QED
          BY <2>2, <3>1, <4>1, <4>2
      <3> QED
        BY <3>1, <3>2, <3>3 DEF LastMatches
    <2> QED
      BY <1>1, <2>3, <2>4 DEF LastMatches, Announced
  <1> QED
    BY <1>3, <1>4

-----------------------------------------------------------------------------
\* Steps that leave the paths and the queue alone.
LEMMA QueueUnchanged ==
    ASSUME UNCHANGED <<best, events>>
    PROVE  /\ LastMatches => LastMatches'
           /\ \A d \in Dsts : InQueue(d) <=> InQueue(d)'
           /\ Announced
  BY DEF LastMatches, Matches, InQueue, Announced

\* Changes that are announced leave the path injectRoute works on the last one, or make
\* another one wait.
LEMMA AnnouncedKeeps ==
    ASSUME TypeOK, QueueInv, Announced, LastMatches', UNCHANGED <<pc, path>>
    PROVE  QueueInv'
  <1> path.dst \in Dsts
    BY DEF TypeOK, Paths
  <1>1. pc \in Working => Matches(path)' \/ InQueue(path.dst)'
    BY DEF QueueInv, Announced, Matches
  <1> QED
    BY <1>1 DEF QueueInv, Working

\* A new best path is announced.
LEMMA LearnPathStep ==
    ASSUME TypeOK, LastMatches, NEW d \in Dsts, NEW n \in Peers, LearnPath(d, n)
    PROVE  Announced /\ LastMatches'
  <1> DEFINE e == [dst |-> d, nextHop |-> n, isWithdraw |-> FALSE]
  <1>1. /\ e \in Paths
        /\ events' = Append(events, e)
        /\ best' = [best EXCEPT ![e.dst] = IF e.isWithdraw THEN NoPeer ELSE e.nextHop]
    BY DEF LearnPath, Paths
  <1> HIDE DEF e
  <1> QED
    BY <1>1, AppendStep

\* The loss of a path is announced.
LEMMA LosePathStep ==
    ASSUME TypeOK, LastMatches, NEW d \in Dsts, LosePath(d)
    PROVE  Announced /\ LastMatches'
  <1> DEFINE e == [dst |-> d, nextHop |-> best[d], isWithdraw |-> TRUE]
  <1>1. /\ e \in Paths
        /\ events' = Append(events, e)
        /\ best' = [best EXCEPT ![e.dst] = IF e.isWithdraw THEN NoPeer ELSE e.nextHop]
    BY DEF LosePath, Paths, TypeOK
  <1> HIDE DEF e
  <1> QED
    BY <1>1, AppendStep

\* Every step keeps the queue in order.
LEMMA QueueStep == IInv /\ QueueInv /\ [Next]_vars => QueueInv'
  <1> SUFFICES ASSUME TypeOK, QueueInv, [Next]_vars PROVE QueueInv'
    BY DEF IInv
  <1> USE DEF bgpVars, syncerVars, tunnelVars
  <1> path \in Paths /\ path.dst \in Dsts /\ path.nextHop \in Peers /\ path.isWithdraw \in BOOLEAN
    BY DEF TypeOK, Paths
  <1>0. LastMatches
    BY DEF QueueInv
  <1>1. ASSUME NEW d \in Dsts, NEW n \in Peers, LearnPath(d, n) PROVE QueueInv'
    BY <1>1, <1>0, LearnPathStep, AnnouncedKeeps DEF LearnPath
  <1>2. ASSUME NEW d \in Dsts, LosePath(d) PROVE QueueInv'
    BY <1>2, <1>0, LosePathStep, AnnouncedKeeps DEF LosePath
  <1>3. ASSUME NEW d \in Dsts, KernelLosesRoute(d) PROVE QueueInv'
    BY <1>3, QueueUnchanged DEF KernelLosesRoute, QueueInv, Matches, Working
  <1>4. ASSUME NEW n \in Peers, PeerUp(n) PROVE QueueInv'
    BY <1>4, QueueUnchanged DEF PeerUp, QueueInv, Matches, Working
  <1>5. ASSUME NEW n \in Peers, PeerDown(n) PROVE QueueInv'
    BY <1>5, <1>0, PeerDownStep, AnnouncedKeeps DEF PeerDown
  <1>6. CASE InjectBegin
    <2>1. path' \in Paths /\ path'.isWithdraw \in BOOLEAN
      BY <1>0, <1>6, TakeStep DEF Paths
    <2>2. path'.isWithdraw = Head(events).isWithdraw
      BY <1>6 DEF InjectBegin
    <2>3. LastMatches' /\ (Matches(path)' \/ InQueue(path.dst)')
      BY <1>0, <1>6, TakeStep
    <2>4. /\ pc' \in {"peer", "tunnel"}
          /\ pc' = "peer" => path'.isWithdraw
          /\ pc' = "tunnel" => ~path'.isWithdraw
      BY <1>6, <2>1, <2>2 DEF InjectBegin
    <2> QED
      BY <2>3, <2>4 DEF QueueInv
  <1>7. CASE InjectCheckPeer
    BY <1>7, QueueUnchanged DEF InjectCheckPeer, QueueInv, Matches, Working
  <1>8. CASE delInjectedRoute
    BY <1>8, QueueUnchanged DEF delInjectedRoute, QueueInv, Matches, Working
  <1>9. ASSUME NEW delFails \in BOOLEAN, NEW linkFails \in BOOLEAN,
               InjectCleanup(delFails, linkFails)
        PROVE  QueueInv'
    BY <1>9, QueueUnchanged DEF InjectCleanup, QueueInv, Matches, Working
  <1>10. ASSUME NEW delFails \in BOOLEAN, NEW linkFails \in BOOLEAN,
                InjectNoTunnel(delFails, linkFails)
         PROVE  QueueInv'
    BY <1>10, QueueUnchanged DEF InjectNoTunnel, QueueInv, Matches, Working
  <1>11. ASSUME NEW fails \in BOOLEAN, InjectDelete(fails) PROVE QueueInv'
    BY <1>11, QueueUnchanged DEF InjectDelete, QueueInv, Matches, Working
  <1>12. ASSUME NEW fails \in BOOLEAN, InjectTunnel(fails) PROVE QueueInv'
    BY <1>12, QueueUnchanged DEF InjectTunnel, QueueInv, Matches, Working
  <1>13. CASE addInjectedRoute
    BY <1>13, QueueUnchanged DEF addInjectedRoute, QueueInv, Matches, Working
  <1>14. CASE InjectSyncBegin
    BY <1>14, QueueUnchanged DEF InjectSyncBegin, SyncBegin, QueueInv, Matches, Working
  <1>15. CASE InjectSyncEnd
    BY <1>15, QueueUnchanged DEF InjectSyncEnd, SyncEnd, QueueInv, Matches, Working
  <1>16. ASSUME NEW d \in Dsts, RouteReplace(d) PROVE QueueInv'
    BY <1>16, QueueUnchanged DEF RouteReplace, QueueInv, Matches, Working
  <1>17. CASE TickerBegin
    BY <1>17, QueueUnchanged DEF TickerBegin, SyncBegin, QueueInv, Matches, Working
  <1>18. CASE TickerEnd
    BY <1>18, QueueUnchanged DEF TickerEnd, SyncEnd, QueueInv, Matches, Working
  <1>19. CASE UNCHANGED vars
    BY <1>19, QueueUnchanged DEF vars, QueueInv, Matches, Working
  <1>20. CASE AdvertiseOwn \/ SkipOwnPath
    BY <1>20, <1>0, OwnPathStep, AnnouncedKeeps DEF AdvertiseOwn, SkipOwnPath
  <1> QED
    BY <1>1, <1>2, <1>3, <1>4, <1>5, <1>6, <1>7, <1>8, <1>9, <1>10, <1>11, <1>12,
       <1>13, <1>14, <1>15, <1>16, <1>17, <1>18, <1>19, <1>20
    DEF Next, Environment, Watch, Ticker, InjectReplace, TickerReplace

\* Announced changes keep the promise about the tunnel that injectRoute is to remove.
LEMMA DownKept ==
    ASSUME TypeOK, SessionInv, Announced, UNCHANGED <<pc, path>>
    PROVE  pc' \in {"forgetDown", "cleanup"} =>
              \A d \in Dsts : best'[d] = path'.nextHop => InQueue(d)'
  BY DEF SessionInv, Announced

\* Every step keeps paths on live sessions.
LEMMA SessionStep == FullMesh /\ IInv /\ QueueInv /\ SessionInv /\ [Next]_vars => SessionInv'
  <1> SUFFICES ASSUME FullMesh, TypeOK, QueueInv, SessionInv, [Next]_vars PROVE SessionInv'
    BY DEF IInv
  <1> USE DEF bgpVars, syncerVars, tunnelVars
  <1> path \in Paths /\ path.dst \in Dsts /\ path.nextHop \in Peers /\ path.isWithdraw \in BOOLEAN
    BY DEF TypeOK, Paths
  <1>0. LastMatches
    BY DEF QueueInv
  <1>1. ASSUME NEW d \in Dsts, NEW n \in Peers, LearnPath(d, n) PROVE SessionInv'
    BY <1>1, <1>0, LearnPathStep, DownKept DEF LearnPath, SessionInv, TypeOK, Reachable, FullMesh
  <1>2. ASSUME NEW d \in Dsts, LosePath(d) PROVE SessionInv'
    BY <1>2, <1>0, LosePathStep, DownKept DEF LosePath, SessionInv, TypeOK
  <1>3. ASSUME NEW d \in Dsts, KernelLosesRoute(d) PROVE SessionInv'
    BY <1>3, QueueUnchanged DEF KernelLosesRoute, SessionInv
  <1>4. ASSUME NEW n \in Peers, PeerUp(n) PROVE SessionInv'
    BY <1>4, QueueUnchanged DEF PeerUp, SessionInv
  <1>5. ASSUME NEW n \in Peers, PeerDown(n) PROVE SessionInv'
    BY <1>5, <1>0, PeerDownStep, DownKept DEF PeerDown, SessionInv, TypeOK
  <1>6. CASE InjectBegin
    BY <1>6 DEF InjectBegin, SessionInv
  <1>7. CASE InjectCheckPeer
    BY <1>7, QueueUnchanged DEF InjectCheckPeer, SessionInv
  <1>8. CASE delInjectedRoute
    BY <1>8, QueueUnchanged DEF delInjectedRoute, SessionInv
  <1>9. ASSUME NEW delFails \in BOOLEAN, NEW linkFails \in BOOLEAN,
               InjectCleanup(delFails, linkFails)
        PROVE  SessionInv'
    BY <1>9, QueueUnchanged DEF InjectCleanup, SessionInv
  <1>10. ASSUME NEW delFails \in BOOLEAN, NEW linkFails \in BOOLEAN,
                InjectNoTunnel(delFails, linkFails)
         PROVE  SessionInv'
    BY <1>10, QueueUnchanged DEF InjectNoTunnel, SessionInv
  <1>11. ASSUME NEW fails \in BOOLEAN, InjectDelete(fails) PROVE SessionInv'
    BY <1>11, QueueUnchanged DEF InjectDelete, SessionInv
  <1>12. ASSUME NEW fails \in BOOLEAN, InjectTunnel(fails) PROVE SessionInv'
    BY <1>12, QueueUnchanged DEF InjectTunnel, SessionInv
  <1>13. CASE addInjectedRoute
    BY <1>13, QueueUnchanged DEF addInjectedRoute, SessionInv
  <1>14. CASE InjectSyncBegin
    BY <1>14, QueueUnchanged DEF InjectSyncBegin, SyncBegin, SessionInv
  <1>15. CASE InjectSyncEnd
    BY <1>15, QueueUnchanged DEF InjectSyncEnd, SyncEnd, SessionInv
  <1>16. ASSUME NEW d \in Dsts, RouteReplace(d) PROVE SessionInv'
    BY <1>16, QueueUnchanged DEF RouteReplace, SessionInv
  <1>17. CASE TickerBegin
    BY <1>17, QueueUnchanged DEF TickerBegin, SyncBegin, SessionInv
  <1>18. CASE TickerEnd
    BY <1>18, QueueUnchanged DEF TickerEnd, SyncEnd, SessionInv
  <1>19. CASE UNCHANGED vars
    BY <1>19, QueueUnchanged DEF vars, SessionInv
  <1>20. CASE AdvertiseOwn \/ SkipOwnPath
    BY <1>20, <1>0, OwnPathStep, DownKept DEF AdvertiseOwn, SkipOwnPath, SessionInv
  <1> QED
    BY <1>1, <1>2, <1>3, <1>4, <1>5, <1>6, <1>7, <1>8, <1>9, <1>10, <1>11, <1>12,
       <1>13, <1>14, <1>15, <1>16, <1>17, <1>18, <1>19, <1>20
    DEF Next, Environment, Watch, Ticker, InjectReplace, TickerReplace

\* Every step keeps the devices apart.
LEMMA LinkStep == IInv /\ LinkInv /\ [Next]_vars => LinkInv'
  <1> SUFFICES ASSUME TypeOK, LinkInv, [Next]_vars PROVE LinkInv'
    BY DEF IInv
  <1> USE DEF bgpVars, syncerVars, tunnelVars
  <1> path \in Paths /\ path.dst \in Dsts /\ path.nextHop \in Peers /\ path.isWithdraw \in BOOLEAN
    BY DEF TypeOK, Paths
  <1>1. ASSUME NEW d \in Dsts, NEW n \in Peers, LearnPath(d, n) PROVE LinkInv'
    BY <1>1 DEF LearnPath, LinkInv
  <1>2. ASSUME NEW d \in Dsts, LosePath(d) PROVE LinkInv'
    BY <1>2 DEF LosePath, LinkInv
  <1>3. ASSUME NEW d \in Dsts, KernelLosesRoute(d) PROVE LinkInv'
    BY <1>3 DEF KernelLosesRoute, LinkInv
  <1>4. ASSUME NEW n \in Peers, PeerUp(n) PROVE LinkInv'
    BY <1>4 DEF PeerUp, LinkInv
  <1>5. ASSUME NEW n \in Peers, PeerDown(n) PROVE LinkInv'
    BY <1>5 DEF PeerDown, LinkInv
  <1>6. CASE InjectBegin
    BY <1>6 DEF InjectBegin, LinkInv
  <1>7. CASE InjectCheckPeer
    BY <1>7 DEF InjectCheckPeer, LinkInv
  <1>8. CASE delInjectedRoute
    BY <1>8 DEF delInjectedRoute, LinkInv
  <1>9. ASSUME NEW delFails \in BOOLEAN, NEW linkFails \in BOOLEAN,
               InjectCleanup(delFails, linkFails)
        PROVE  LinkInv'
    BY <1>9 DEF InjectCleanup, cleanupTunnel, LinkInv, TypeOK
  <1>10. ASSUME NEW delFails \in BOOLEAN, NEW linkFails \in BOOLEAN,
                InjectNoTunnel(delFails, linkFails)
         PROVE  LinkInv'
    BY <1>10 DEF InjectNoTunnel, cleanupTunnel, LinkInv, TypeOK
  <1>11. ASSUME NEW fails \in BOOLEAN, InjectDelete(fails) PROVE LinkInv'
    BY <1>11 DEF InjectDelete, LinkInv
  <1>12. ASSUME NEW fails \in BOOLEAN, InjectTunnel(fails) PROVE LinkInv'
    BY <1>12 DEF InjectTunnel, LinkInv, TypeOK
  <1>13. CASE addInjectedRoute
    BY <1>13 DEF addInjectedRoute, LinkInv
  <1>14. CASE InjectSyncBegin
    BY <1>14 DEF InjectSyncBegin, SyncBegin, LinkInv
  <1>15. CASE InjectSyncEnd
    BY <1>15 DEF InjectSyncEnd, SyncEnd, LinkInv
  <1>16. ASSUME NEW d \in Dsts, RouteReplace(d) PROVE LinkInv'
    BY <1>16 DEF RouteReplace, LinkInv
  <1>17. CASE TickerBegin
    BY <1>17 DEF TickerBegin, SyncBegin, LinkInv
  <1>18. CASE TickerEnd
    BY <1>18 DEF TickerEnd, SyncEnd, LinkInv
  <1>19. CASE UNCHANGED vars
    BY <1>19 DEF vars, LinkInv
  <1>20. CASE AdvertiseOwn \/ SkipOwnPath
    BY <1>20 DEF AdvertiseOwn, SkipOwnPath, LinkInv
  <1> QED
    BY <1>1, <1>2, <1>3, <1>4, <1>5, <1>6, <1>7, <1>8, <1>9, <1>10, <1>11, <1>12,
       <1>13, <1>14, <1>15, <1>16, <1>17, <1>18, <1>19, <1>20
    DEF Next, Environment, Watch, Ticker, InjectReplace, TickerReplace

-----------------------------------------------------------------------------
\* A path whose next hop needs a tunnel is routed through the next hop's device.
LEMMA DesiredValue ==
    ASSUME NEW n \in Peers \cup {NoPeer}
    PROVE  /\ n = NoPeer => Desired(n) = NoRoute
           /\ n # NoPeer /\ shouldCreateTunnel(n) => Desired(n) = ViaLink(n, link[n])
           /\ n # NoPeer /\ n \in SameSubnet /\ ~shouldCreateTunnel(n) => Desired(n) = ViaGateway(n)
           /\ Desired(n).kind = "link" =>
                 /\ n # NoPeer /\ shouldCreateTunnel(n)
                 /\ Desired(n).nh = n /\ Desired(n).idx = link[n]
  BY DEF Desired, NoRoute, ViaGateway, ViaLink

\* What has become settled, or stays so, in a step.
LEMMA SettledBefore ==
    ASSUME Announced, NEW d \in Dsts, Settled(d)',
           pc \in Working => path.dst # d
    PROVE  Settled(d) /\ best'[d] = best[d] /\ ~InQueue(d)
  BY DEF Announced, Settled

\* A step that announces its changes and leaves the map, the devices and the place of
\* injectRoute alone.
LEMMA MapFrame ==
    ASSUME TypeOK, MapInv, Announced,
           UNCHANGED <<routeTableStateMap, link, path, exempt>>,
           pc' = pc \/ (pc \notin Working /\ pc' \notin Working /\ pc' # "sync")
    PROVE  MapInv'
  <1>1. ASSUME NEW d \in Dsts, Settled(d)', d \notin exempt'
        PROVE  /\ routeTableStateMap'[d] = Desired(best[d])'
               /\ best'[d] # NoPeer /\ shouldCreateTunnel(best'[d]) => link'[best'[d]] # 0
    <2>1. pc \in Working => path.dst # d
      BY <1>1 DEF Settled
    <2>2. Settled(d) /\ best'[d] = best[d]
      BY <1>1, <2>1, SettledBefore
    <2>3. best[d] \in Peers \cup {NoPeer}
      BY DEF TypeOK
    <2>4. Desired(best[d])' = Desired(best[d])
      <3>1. Desired(best[d])' = Desired(best'[d])
        BY DEF Desired
      <3> QED
        BY <2>2, <3>1
    <2> QED
      BY <1>1, <2>2, <2>4 DEF MapInv
  <1>2. /\ pc' \in {"delete", "cleanup"} => routeTableStateMap'[path'.dst] = NoRoute
        /\ pc' = "sync" => routeTableStateMap'[path'.dst] # NoRoute
    BY DEF MapInv, Working
  <1> QED
    BY <1>1, <1>2 DEF MapInv

\* A step of injectRoute that keeps the devices of the paths of settled destinations.
LEMMA MapOthers ==
    ASSUME TypeOK, MapInv, UNCHANGED <<best, events, path>>,
           NEW d \in Dsts, Settled(d), d \notin exempt,
           routeTableStateMap'[d] = routeTableStateMap[d],
           best[d] \in Peers /\ shouldCreateTunnel(best[d]) => link'[best[d]] = link[best[d]]
    PROVE  /\ routeTableStateMap'[d] = Desired(best[d])'
           /\ best'[d] # NoPeer /\ shouldCreateTunnel(best'[d]) => link'[best'[d]] # 0
  <1>1. best[d] \in Peers \cup {NoPeer}
    BY DEF TypeOK
  <1> DEFINE n == best[d]
  <1>2. Desired(best[d])' = Desired(best[d])
    <2>1. CASE n = NoPeer
      BY <2>1 DEF Desired
    <2>2. CASE n \in Peers /\ shouldCreateTunnel(n)
      <3>1. Desired(best[d]) = ViaLink(n, link[n]) /\ Desired(best[d])' = ViaLink(n, link'[n])
        BY <2>2 DEF Desired, ViaLink, shouldCreateTunnel
      <3> QED
        BY <2>2, <3>1
    <2>3. CASE n \in Peers /\ ~shouldCreateTunnel(n)
      BY <2>3 DEF Desired, ViaGateway, shouldCreateTunnel, NoRoute
    <2> QED
      BY <1>1, <2>1, <2>2, <2>3
  <1> QED
    BY <1>1, <1>2 DEF MapInv

\* Every step keeps the map in agreement with the best paths.
LEMMA MapStep ==
    ASSUME FullMesh, AllInjected, IInv, QueueInv, SessionInv, LinkInv, MapInv, [Next]_vars
    PROVE  MapInv'
  <1> USE DEF bgpVars, syncerVars, tunnelVars
  <1> path \in Paths /\ path.dst \in Dsts /\ path.nextHop \in Peers /\ path.isWithdraw \in BOOLEAN
    BY DEF IInv, TypeOK, Paths
  <1>0. TypeOK /\ LastMatches
    BY DEF IInv, QueueInv
  <1> DEFINE MapOk(d) == /\ routeTableStateMap[d] = Desired(best[d])
                         /\ best[d] # NoPeer /\ shouldCreateTunnel(best[d]) => link[best[d]] # 0
  <1>1. ASSUME NEW d \in Dsts, NEW n \in Peers, LearnPath(d, n) PROVE MapInv'
    BY <1>1, <1>0, LearnPathStep, MapFrame DEF LearnPath
  <1>2. ASSUME NEW d \in Dsts, LosePath(d) PROVE MapInv'
    BY <1>2, <1>0, LosePathStep, MapFrame DEF LosePath
  <1>3. ASSUME NEW d \in Dsts, KernelLosesRoute(d) PROVE MapInv'
    BY <1>3, <1>0, QueueUnchanged, MapFrame DEF KernelLosesRoute, Working
  <1>4. ASSUME NEW n \in Peers, PeerUp(n) PROVE MapInv'
    BY <1>4, <1>0, QueueUnchanged, MapFrame DEF PeerUp, Working
  <1>5. ASSUME NEW n \in Peers, PeerDown(n) PROVE MapInv'
    BY <1>5, <1>0, PeerDownStep, MapFrame DEF PeerDown
  <1>6. CASE InjectBegin
    <2>1. ASSUME NEW d \in Dsts, Settled(d)', d \notin exempt' PROVE MapOk(d)'
      <3>1. pc = "idle" /\ pc' \in Working
        BY <1>6 DEF InjectBegin, Working
      <3>2. Settled(d)
        BY <1>0, <1>6, <2>1, <3>1, TakeStep DEF Settled, Working
      <3>3. UNCHANGED <<best, routeTableStateMap, link, exempt>>
        BY <1>6 DEF InjectBegin
      <3>4. Desired(best[d])' = Desired(best[d])
        BY <3>3 DEF Desired
      <3> QED
        BY <2>1, <3>2, <3>3, <3>4 DEF MapInv
    <2> QED
      BY <1>6, <2>1 DEF InjectBegin, MapInv
  <1>7. CASE InjectCheckPeer
    <2>1. ASSUME NEW d \in Dsts, Settled(d)', d \notin exempt' PROVE MapOk(d)'
      <3>1. Settled(d)
        BY <1>7, <2>1, QueueUnchanged DEF InjectCheckPeer, Settled, Working
      <3> QED
        BY <1>0, <1>7, <2>1, <3>1, MapOthers DEF InjectCheckPeer
    <2> QED
      BY <1>7, <2>1 DEF InjectCheckPeer, MapInv
  <1>8. CASE delInjectedRoute
    <2>1. ASSUME NEW d \in Dsts, Settled(d)', d \notin exempt' PROVE MapOk(d)'
      <3>1. Settled(d) /\ d # path.dst
        BY <1>8, <2>1, QueueUnchanged DEF delInjectedRoute, Settled, Working
      <3>2. routeTableStateMap'[d] = routeTableStateMap[d]
        BY <1>0, <1>8, <3>1 DEF delInjectedRoute, TypeOK
      <3> QED
        BY <1>0, <1>8, <2>1, <3>1, <3>2, MapOthers DEF delInjectedRoute
    <2>2. routeTableStateMap'[path'.dst] = NoRoute /\ pc' # "sync"
      BY <1>0, <1>8 DEF delInjectedRoute, TypeOK
    <2> QED
      BY <2>1, <2>2 DEF MapInv
  <1>9. ASSUME NEW delFails \in BOOLEAN, NEW linkFails \in BOOLEAN,
               InjectCleanup(delFails, linkFails)
        PROVE  MapInv'
    <2>1. ASSUME NEW d \in Dsts, Settled(d)', d \notin exempt' PROVE MapOk(d)'
      <3>1. ~InQueue(d)
        BY <1>9, <2>1, QueueUnchanged DEF InjectCleanup, Settled
      <3>2. CASE d = path.dst
        <4>1. best'[d] = NoPeer /\ routeTableStateMap'[d] = NoRoute
          BY <1>9, <3>1, <3>2 DEF InjectCleanup, QueueInv, Matches, MapInv, Working
        <4> QED
          BY <4>1 DEF Desired
      <3>3. CASE d # path.dst
        <4>1. Settled(d) /\ d \notin exempt
          BY <1>9, <2>1, <3>1, <3>3 DEF InjectCleanup, Settled
        <4>2. best[d] # path.nextHop
          BY <1>9, <3>1 DEF InjectCleanup, SessionInv
        <4>3. best[d] \in Peers => link'[best[d]] = link[best[d]]
          BY <1>0, <1>9, <4>2 DEF InjectCleanup, cleanupTunnel, TypeOK
        <4> QED
          BY <1>0, <1>9, <4>1, <4>3, MapOthers DEF InjectCleanup
      <3> QED
        BY <3>2, <3>3
    <2> QED
      BY <1>9, <2>1 DEF InjectCleanup, MapInv
  <1>10. ASSUME NEW delFails \in BOOLEAN, NEW linkFails \in BOOLEAN,
                InjectNoTunnel(delFails, linkFails)
         PROVE  MapInv'
    <2>0. pc' = "add" /\ link' = link
      <3>1. link[path.nextHop] = 0
        BY <1>10 DEF InjectNoTunnel, LinkInv
      <3> QED
        BY <1>10, <3>1 DEF InjectNoTunnel, cleanupTunnel, AllInjected
    <2>1. ASSUME NEW d \in Dsts, Settled(d)', d \notin exempt' PROVE MapOk(d)'
      <3>1. Settled(d) /\ d \notin exempt
        BY <1>10, <2>0, <2>1, QueueUnchanged DEF InjectNoTunnel, Settled, Working
      <3> QED
        BY <1>0, <1>10, <2>0, <3>1, MapOthers DEF InjectNoTunnel
    <2> QED
      BY <1>10, <2>0, <2>1 DEF MapInv
  <1>11. ASSUME NEW fails \in BOOLEAN, InjectDelete(fails) PROVE MapInv'
    <2>1. ASSUME NEW d \in Dsts, Settled(d)', d \notin exempt' PROVE MapOk(d)'
      <3>1. ~InQueue(d)
        BY <1>11, <2>1, QueueUnchanged DEF InjectDelete, Settled
      <3>2. CASE d = path.dst
        <4>1. best'[d] = NoPeer /\ routeTableStateMap'[d] = NoRoute
          BY <1>11, <3>1, <3>2 DEF InjectDelete, QueueInv, Matches, MapInv, Working
        <4> QED
          BY <4>1 DEF Desired
      <3>3. CASE d # path.dst
        <4>1. Settled(d) /\ d \notin exempt
          BY <1>11, <2>1, <3>1, <3>3 DEF InjectDelete, Settled
        <4> QED
          BY <1>0, <1>11, <4>1, MapOthers DEF InjectDelete
      <3> QED
        BY <3>2, <3>3
    <2> QED
      BY <1>11, <2>1 DEF InjectDelete, MapInv
  <1>12. ASSUME NEW fails \in BOOLEAN, InjectTunnel(fails) PROVE MapInv'
    <2>1. ASSUME NEW d \in Dsts, Settled(d)', d \notin exempt' PROVE MapOk(d)'
      <3>1. Settled(d) /\ d \notin exempt
        BY <1>12, <2>1, QueueUnchanged DEF InjectTunnel, Settled, Working
      <3>2. best[d] \in Peers /\ shouldCreateTunnel(best[d]) => link[best[d]] # 0
        BY <3>1 DEF MapInv
      <3>3. best[d] \in Peers /\ shouldCreateTunnel(best[d]) => link'[best[d]] = link[best[d]]
        BY <1>0, <1>12, <3>2 DEF InjectTunnel, TypeOK
      <3> QED
        BY <1>0, <1>12, <3>1, <3>3, MapOthers DEF InjectTunnel
    <2> QED
      BY <1>12, <2>1 DEF InjectTunnel, MapInv
  <1>13. CASE addInjectedRoute
    <2>1. ASSUME NEW d \in Dsts, Settled(d)', d \notin exempt' PROVE MapOk(d)'
      <3>1. ~InQueue(d)
        BY <1>13, <2>1, QueueUnchanged DEF addInjectedRoute, Settled
      <3>2. CASE d = path.dst
        <4>1. best'[d] = path.nextHop /\ best[d] = path.nextHop
          BY <1>13, <3>1, <3>2 DEF addInjectedRoute, QueueInv, Matches, Working
        <4>2. Desired(best[d])' = Desired(best[d])
          BY <1>13 DEF addInjectedRoute, Desired
        <4>3. routeTableStateMap'[d] = Desired(best[d])
          BY <1>0, <1>13, <3>2, <4>1, DesiredValue DEF addInjectedRoute, AllInjected, TypeOK
        <4>4. shouldCreateTunnel(path.nextHop) => link'[best'[d]] # 0
          BY <1>13, <4>1 DEF addInjectedRoute, LinkInv
        <4> QED
          BY <4>1, <4>2, <4>3, <4>4
      <3>3. CASE d # path.dst
        <4>1. Settled(d) /\ d \notin exempt
          BY <1>13, <2>1, <3>1, <3>3 DEF addInjectedRoute, Settled
        <4>2. routeTableStateMap'[d] = routeTableStateMap[d]
          BY <1>0, <1>13, <3>3 DEF addInjectedRoute, TypeOK
        <4> QED
          BY <1>0, <1>13, <4>1, <4>2, MapOthers DEF addInjectedRoute
      <3> QED
        BY <3>2, <3>3
    <2>2. routeTableStateMap'[path'.dst] # NoRoute
      BY <1>0, <1>13, RoutesType DEF addInjectedRoute, TypeOK
    <2> QED
      BY <1>13, <2>1, <2>2 DEF addInjectedRoute, MapInv
  <1>14. CASE InjectSyncBegin
    BY <1>14, <1>0, QueueUnchanged, MapFrame DEF InjectSyncBegin, SyncBegin, Working
  <1>15. CASE InjectSyncEnd
    BY <1>15, <1>0, QueueUnchanged, MapFrame DEF InjectSyncEnd, SyncEnd, Working
  <1>16. ASSUME NEW d \in Dsts, RouteReplace(d) PROVE MapInv'
    BY <1>16, <1>0, QueueUnchanged, MapFrame DEF RouteReplace, Working
  <1>17. CASE TickerBegin
    BY <1>17, <1>0, QueueUnchanged, MapFrame DEF TickerBegin, SyncBegin, Working
  <1>18. CASE TickerEnd
    BY <1>18, <1>0, QueueUnchanged, MapFrame DEF TickerEnd, SyncEnd, Working
  <1>19. CASE UNCHANGED vars
    BY <1>19, <1>0, QueueUnchanged, MapFrame DEF vars, Working
  <1>20. CASE AdvertiseOwn \/ SkipOwnPath
    BY <1>20, <1>0, OwnPathStep, MapFrame DEF AdvertiseOwn, SkipOwnPath
  <1> QED
    BY <1>1, <1>2, <1>3, <1>4, <1>5, <1>6, <1>7, <1>8, <1>9, <1>10, <1>11, <1>12,
       <1>13, <1>14, <1>15, <1>16, <1>17, <1>18, <1>19, <1>20
    DEF Next, Environment, Watch, Ticker, InjectReplace, TickerReplace

-----------------------------------------------------------------------------
\* A step that announces its changes and leaves the map, the kernel's table and the
\* place of injectRoute alone.
LEMMA KernelFrame ==
    ASSUME KernelInv, Announced,
           UNCHANGED <<routeTableStateMap, kernel, path, exempt, unsynced, pc>>,
           pc = "sweep" => todo' = todo
    PROVE  KernelInv'
  <1> SUFFICES ASSUME NEW d \in Dsts, Settled(d)', d \notin exempt' \cup unsynced', ~Unwritten(d)'
               PROVE  kernel'[d] = routeTableStateMap'[d]
    BY DEF KernelInv
  <1>1. pc \in Working => path.dst # d
    BY DEF Settled
  <1>2. Settled(d)
    BY <1>1, SettledBefore
  <1>3. ~Unwritten(d)
    BY DEF Unwritten
  <1> QED
    BY <1>2, <1>3 DEF KernelInv

\* Every step keeps the kernel in agreement with the map: neither the removal of a tunnel
\* nor a sweep takes away or overwrites the route of a settled destination.
LEMMA KernelStep ==
    ASSUME FullMesh, AllInjected, IInv, QueueInv, SessionInv, LinkInv, MapInv, KernelInv, [Next]_vars
    PROVE  KernelInv'
  <1> USE DEF bgpVars, syncerVars, tunnelVars
  <1> path \in Paths /\ path.dst \in Dsts /\ path.nextHop \in Peers /\ path.isWithdraw \in BOOLEAN
    BY DEF IInv, TypeOK, Paths
  <1>0. TypeOK /\ LastMatches /\ SweepInv
    BY DEF IInv, QueueInv
  <1> DEFINE Checked(d) == Settled(d) /\ d \notin exempt \cup unsynced /\ ~Unwritten(d)
  <1>1. ASSUME NEW d \in Dsts, NEW n \in Peers, LearnPath(d, n) PROVE KernelInv'
    BY <1>1, <1>0, LearnPathStep, KernelFrame DEF LearnPath
  <1>2. ASSUME NEW d \in Dsts, LosePath(d) PROVE KernelInv'
    BY <1>2, <1>0, LosePathStep, KernelFrame DEF LosePath
  <1>3. ASSUME NEW d \in Dsts, KernelLosesRoute(d) PROVE KernelInv'
    <2> SUFFICES ASSUME NEW c \in Dsts, Checked(c)' PROVE kernel'[c] = routeTableStateMap'[c]
      BY DEF KernelInv
    <2>1. Checked(c) /\ c # d
      BY <1>3, QueueUnchanged DEF KernelLosesRoute, Settled, Unwritten
    <2> QED
      BY <1>0, <1>3, <2>1 DEF KernelLosesRoute, KernelInv, TypeOK
  <1>4. ASSUME NEW n \in Peers, PeerUp(n) PROVE KernelInv'
    BY <1>4, <1>0, QueueUnchanged, KernelFrame DEF PeerUp, Working
  <1>5. ASSUME NEW n \in Peers, PeerDown(n) PROVE KernelInv'
    BY <1>5, <1>0, PeerDownStep, KernelFrame DEF PeerDown
  <1>6. CASE InjectBegin
    <2> SUFFICES ASSUME NEW c \in Dsts, Checked(c)' PROVE kernel'[c] = routeTableStateMap'[c]
      BY DEF KernelInv
    <2>1. Checked(c)
      BY <1>0, <1>6, TakeStep DEF InjectBegin, Settled, Unwritten, Working
    <2> QED
      BY <1>6, <2>1 DEF InjectBegin, KernelInv
  <1>7. CASE InjectCheckPeer
    <2> SUFFICES ASSUME NEW c \in Dsts, Checked(c)' PROVE kernel'[c] = routeTableStateMap'[c]
      BY DEF KernelInv
    <2>1. Checked(c) /\ c # path.dst
      BY <1>7, QueueUnchanged DEF InjectCheckPeer, Settled, Unwritten, Working
    <2> QED
      BY <1>7, <1>0, <2>1 DEF InjectCheckPeer, KernelInv, TypeOK
  <1>8. CASE delInjectedRoute
    <2> SUFFICES ASSUME NEW c \in Dsts, Checked(c)' PROVE kernel'[c] = routeTableStateMap'[c]
      BY DEF KernelInv
    <2>1. Checked(c) /\ c # path.dst
      BY <1>8, QueueUnchanged DEF delInjectedRoute, Settled, Unwritten, Working
    <2> QED
      BY <1>8, <1>0, <2>1 DEF delInjectedRoute, KernelInv, TypeOK
  <1>9. ASSUME NEW delFails \in BOOLEAN, NEW linkFails \in BOOLEAN,
               InjectCleanup(delFails, linkFails)
        PROVE  KernelInv'
    <2> SUFFICES ASSUME NEW c \in Dsts, Checked(c)' PROVE kernel'[c] = routeTableStateMap'[c]
      BY DEF KernelInv
    <2>1. ~InQueue(c)
      BY <1>9, QueueUnchanged DEF InjectCleanup, Settled
    <2>2. CASE c = path.dst
      <3>1. ~delFails
        BY <1>9, <2>2 DEF InjectCleanup
      <3>2. kernel'[c] = NoRoute
        BY <1>0, <1>9, <2>2, <3>1, CleanupEffect DEF InjectCleanup
      <3> QED
        BY <1>9, <2>2, <3>2 DEF InjectCleanup, MapInv
    <2>3. CASE c # path.dst
      <3>1. Checked(c)
        BY <1>9, <2>1, <2>3 DEF InjectCleanup, Settled, Unwritten
      <3>2. best[c] # path.nextHop /\ best[c] \in Peers \cup {NoPeer}
        BY <1>0, <1>9, <2>1 DEF InjectCleanup, SessionInv, TypeOK
      <3>3. kernel[c] = routeTableStateMap[c] /\ kernel[c] = Desired(best[c])
        BY <3>1 DEF KernelInv, MapInv
      <3>4. kernel[c].kind = "link" /\ link[path.nextHop] # 0 => kernel[c].idx # link[path.nextHop]
        BY <3>2, <3>3, DesiredValue DEF LinkInv
      <3>5. deleteRoutes(delFails)[c] = kernel[c]
        BY <1>0, <2>3 DEF deleteRoutes, TypeOK
      <3>6. kernel'[c] = kernel[c]
        BY <1>9, <3>4, <3>5 DEF InjectCleanup, cleanupTunnel, WithoutLink
      <3> QED
        BY <1>9, <3>3, <3>6 DEF InjectCleanup
    <2> QED
      BY <2>2, <2>3
  <1>10. ASSUME NEW delFails \in BOOLEAN, NEW linkFails \in BOOLEAN,
                InjectNoTunnel(delFails, linkFails)
         PROVE  KernelInv'
    <2> SUFFICES ASSUME NEW c \in Dsts, Checked(c)' PROVE kernel'[c] = routeTableStateMap'[c]
      BY DEF KernelInv
    <2>1. pc' = "add" /\ kernel' = deleteRoutes(delFails)
      <3>1. link[path.nextHop] = 0
        BY <1>10 DEF InjectNoTunnel, LinkInv
      <3> QED
        BY <1>10, <3>1 DEF InjectNoTunnel, cleanupTunnel, AllInjected
    <2>2. Checked(c) /\ c # path.dst
      BY <1>10, <2>1, QueueUnchanged DEF InjectNoTunnel, Settled, Unwritten, Working
    <2> QED
      BY <1>0, <1>10, <2>1, <2>2 DEF InjectNoTunnel, deleteRoutes, KernelInv, TypeOK
  <1>11. ASSUME NEW fails \in BOOLEAN, InjectDelete(fails) PROVE KernelInv'
    <2> SUFFICES ASSUME NEW c \in Dsts, Checked(c)' PROVE kernel'[c] = routeTableStateMap'[c]
      BY DEF KernelInv
    <2>1. ~InQueue(c)
      BY <1>11, QueueUnchanged DEF InjectDelete, Settled
    <2>2. CASE c = path.dst
      BY <1>0, <1>11, <2>2 DEF InjectDelete, deleteRoutes, MapInv, TypeOK
    <2>3. CASE c # path.dst
      <3>1. Checked(c)
        BY <1>11, <2>1, <2>3 DEF InjectDelete, Settled, Unwritten
      <3> QED
        BY <1>0, <1>11, <2>3, <3>1 DEF InjectDelete, deleteRoutes, KernelInv, TypeOK
    <2> QED
      BY <2>2, <2>3
  <1>12. ASSUME NEW fails \in BOOLEAN, InjectTunnel(fails) PROVE KernelInv'
    <2> SUFFICES ASSUME NEW c \in Dsts, Checked(c)' PROVE kernel'[c] = routeTableStateMap'[c]
      BY DEF KernelInv
    <2>1. Checked(c) /\ c # path.dst
      BY <1>12, QueueUnchanged DEF InjectTunnel, Settled, Unwritten, Working
    <2> QED
      BY <1>12, <1>0, <2>1 DEF InjectTunnel, KernelInv, TypeOK
  <1>13. CASE addInjectedRoute
    <2> SUFFICES ASSUME NEW c \in Dsts, Checked(c)' PROVE kernel'[c] = routeTableStateMap'[c]
      BY DEF KernelInv
    <2>1. Checked(c) /\ c # path.dst
      BY <1>13, QueueUnchanged DEF addInjectedRoute, Settled, Unwritten, Working
    <2> QED
      BY <1>0, <1>13, <2>1 DEF addInjectedRoute, KernelInv, TypeOK
  <1>14. CASE InjectSyncBegin
    <2> SUFFICES ASSUME NEW c \in Dsts, Checked(c)' PROVE kernel'[c] = routeTableStateMap'[c]
      BY DEF KernelInv
    <2>1. c # path.dst
      BY <1>14 DEF InjectSyncBegin, SyncBegin, MapInv, Unwritten
    <2>2. Checked(c)
      BY <1>14, <2>1, QueueUnchanged DEF InjectSyncBegin, Settled, Unwritten, Working
    <2> QED
      BY <1>14, <2>2 DEF InjectSyncBegin, KernelInv
  <1>15. CASE InjectSyncEnd
    <2> SUFFICES ASSUME NEW c \in Dsts, Checked(c)' PROVE kernel'[c] = routeTableStateMap'[c]
      BY DEF KernelInv
    <2>1. Checked(c)
      BY <1>15, QueueUnchanged DEF InjectSyncEnd, SyncEnd, Settled, Unwritten, Working
    <2> QED
      BY <1>15, <2>1 DEF InjectSyncEnd, KernelInv
  <1>16. ASSUME NEW d \in Dsts, RouteReplace(d) PROVE KernelInv'
    <2> SUFFICES ASSUME NEW c \in Dsts, Checked(c)' PROVE kernel'[c] = routeTableStateMap'[c]
      BY DEF KernelInv
    <2>1. Settled(c) /\ c \notin exempt
      BY <1>16, QueueUnchanged DEF RouteReplace, Settled
    <2>2. CASE c # d
      <3>1. Checked(c)
        BY <1>16, <2>1, <2>2 DEF RouteReplace, Unwritten
      <3> QED
        BY <1>0, <1>16, <2>2, <3>1 DEF RouteReplace, KernelInv, TypeOK
    <2>3. CASE c = d
      <3>1. best[c] \in Peers \cup {NoPeer} /\ routeTableStateMap[c] = Desired(best[c])
        BY <1>0, <2>1 DEF MapInv, TypeOK
      <3>2. routeTableStateMap[c].kind = "link" =>
               link[routeTableStateMap[c].nh] = routeTableStateMap[c].idx
        BY <3>1, DesiredValue
      <3>3. c \notin unsynced'
        OBVIOUS
      <3> QED
        BY <1>0, <1>16, <2>3, <3>2, <3>3 DEF RouteReplace, TypeOK
    <2> QED
      BY <2>2, <2>3
  <1>17. CASE TickerBegin
    <2>1. pc # "sweep"
      BY <1>0, <1>17 DEF TickerBegin, SyncBegin, SweepInv
    <2> QED
      BY <1>17, <2>1, QueueUnchanged, KernelFrame DEF TickerBegin, SyncBegin
  <1>18. CASE TickerEnd
    BY <1>18, <1>0, QueueUnchanged, KernelFrame DEF TickerEnd, SyncEnd, Working
  <1>19. CASE UNCHANGED vars
    BY <1>19, <1>0, QueueUnchanged, KernelFrame DEF vars, Working
  <1>20. CASE AdvertiseOwn \/ SkipOwnPath
    BY <1>20, <1>0, OwnPathStep, KernelFrame DEF AdvertiseOwn, SkipOwnPath
  <1> QED
    BY <1>1, <1>2, <1>3, <1>4, <1>5, <1>6, <1>7, <1>8, <1>9, <1>10, <1>11, <1>12,
       <1>13, <1>14, <1>15, <1>16, <1>17, <1>18, <1>19, <1>20
    DEF Next, Environment, Watch, Ticker, InjectReplace, TickerReplace

-----------------------------------------------------------------------------
\* The invariant holds at the start ...
LEMMA InitFInv == Init => FInv
  <1> SUFFICES ASSUME Init PROVE FInv
    OBVIOUS
  <1>1. IInv
    BY InitIInv
  <1>2. events = <<>> /\ Len(events) = 0 /\ pc = "idle"
    BY DEF Init
  <1>3. QueueInv
    BY <1>2 DEF QueueInv, LastMatches, Working
  <1>4. SessionInv
    BY <1>2 DEF Init, SessionInv
  <1>5. LinkInv
    BY <1>2 DEF Init, LinkInv
  <1>6. MapInv
    BY <1>2, DesiredValue DEF Init, MapInv
  <1>7. KernelInv
    BY <1>2 DEF Init, KernelInv
  <1> QED
    BY <1>1, <1>3, <1>4, <1>5, <1>6, <1>7 DEF FInv

\* ... and in every later state, ...
LEMMA FInvNext == FullMesh /\ AllInjected /\ FInv /\ [Next]_vars => FInv'
  <1> SUFFICES ASSUME FullMesh, AllInjected, FInv, [Next]_vars PROVE FInv'
    OBVIOUS
  <1>1. IInv'
    BY TypeStep, GhostStep DEF FInv, IInv
  <1>2. QueueInv' /\ SessionInv' /\ LinkInv'
    BY QueueStep, SessionStep, LinkStep DEF FInv
  <1>3. MapInv' /\ KernelInv'
    BY MapStep, KernelStep DEF FInv
  <1> QED
    BY <1>1, <1>2, <1>3 DEF FInv

\* ... and when all is quiet every destination is settled.
LEMMA QuietFollows == FInv => RouteFollowsPath
  <1> SUFFICES ASSUME FInv, Quiet, NEW d \in Dsts \ (exempt \cup unsynced)
               PROVE  kernel[d] = Desired(best[d])
    BY DEF RouteFollowsPath
  <1>1. Settled(d) /\ ~Unwritten(d)
    BY DEF Quiet, Settled, Unwritten, InQueue, Working
  <1> QED
    BY <1>1 DEF FInv, MapInv, KernelInv

\* Where every path comes over a session of this node's own and every next hop is reached
\* through a tunnel or directly, once injectRoute has handled every change the kernel
\* routes each destination along its best path, whatever the order in which paths changed,
\* sessions went down, tunnels were removed and the ticker's sweeps ran in between.
THEOREM RoutesFollowPaths == FullMesh /\ AllInjected => (Spec => []RouteFollowsPath)
  <1> SUFFICES ASSUME FullMesh, AllInjected PROVE Spec => []RouteFollowsPath
    OBVIOUS
  <1>1. FInv /\ [Next]_vars => FInv'
    BY FInvNext
  <1> QED
    BY InitFInv, <1>1, QuietFollows, PTL DEF Spec

=============================================================================
