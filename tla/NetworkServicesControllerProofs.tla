------------------ MODULE NetworkServicesControllerProofs ------------------
(***************************************************************************)
(* Proofs about NetworkServicesController, for every set of services, every *)
(* channel capacity and every number of changes.                           *)
(***************************************************************************)
EXTENDS NetworkServicesController, TLAPS

\* Who holds nsc.mu is exactly who is between Lock and Unlock.
LockInv ==
    /\ svcPc # "idle" <=> mu = "svc"
    /\ epPc # "idle" <=> mu = "ep"
    /\ runPc \in {"services1", "services", "endpoints1", "endpoints"} <=> mu = "run"

\* A handler past its early returns runs in a controller that is ready, a ready
\* controller is neither starting nor closing, and the channel is closed last.
ReadyInv ==
    /\ svcPc # "idle" \/ epPc # "idle" => readyForUpdates
    /\ readyForUpdates => runPc \in {"loop", "lock", "services", "endpoints",
                                     "ipvs", "stopping"} \cup BeatPoints
    /\ chanClosed => runPc = "done"

\* A service map that is not the lister's has a rebuilding event behind it: the
\* three copies of it that are still to be compared or stored.
Current(map) == map = buildServicesInfo(svcLister) \/ VipEventPending
SnapshotInv ==
    /\ svcPc = "endpoints" => Current(newServiceMap["svc"])
    /\ epPc = "endpoints" => Current(newServiceMap["ep"])
    /\ (readyForUpdates \/ runPc \in {"endpoints1", "ready"}) /\ ~missedSvcEvent
          => Current(serviceMap) \/ svcPc # "idle"

IInv == /\ TypeOK
        /\ LockInv
        /\ ReadyInv
        /\ NoSendOnClosedChannel
        /\ RequestedSyncNotLost
        /\ SnapshotInv

USE ServicesAssumption DEF ServicesAssumption

-----------------------------------------------------------------------------
\* What the two map builders return.
LEMMA BuildersType ==
    /\ \A l \in [Services -> SvcStates] : buildServicesInfo(l) \in ServiceInfoMaps
    /\ \A l \in EndpointsInfoMaps : buildEndpointsInfo(l) \in EndpointsInfoMaps
  BY DEF buildServicesInfo, buildEndpointsInfo, ServiceInfoMaps, EndpointsInfoMaps,
         SvcStates

\* Init establishes the invariant.
LEMMA InitIInv == Init => IInv
  <1> SUFFICES ASSUME Init PROVE IInv
    OBVIOUS
  <1>1. TypeOK
    <2>1. NilServiceMap \in ServiceInfoMaps /\ NilEndpointsMap \in EndpointsInfoMaps
      BY DEF NilServiceMap, NilEndpointsMap, ServiceInfoMaps, EndpointsInfoMaps
    <2>2. newServiceMap \in [{"svc", "ep"} -> ServiceInfoMaps]
      BY <2>1 DEF Init
    <2>3. applied \in ServiceInfoMaps \X EndpointsInfoMaps
      BY <2>1 DEF Init
    <2>4. changes \in 0 .. MaxChanges /\ syncChan \in 0 .. SyncChanCap
          /\ healthChan \in 0 .. HealthChanCap
      BY DEF Init
    <2>5. svcEvents \in Seq(SvcSpecs \cup {Headless}) /\ epEvents \in Seq(Services)
      BY DEF Init
    <2> QED
      BY <2>1, <2>2, <2>3, <2>4, <2>5, Zenon DEF Init, TypeOK
  <1>2. LockInv /\ ReadyInv /\ NoSendOnClosedChannel /\ RequestedSyncNotLost
    BY DEF Init, LockInv, ReadyInv, NoSendOnClosedChannel, RequestedSyncNotLost
  <1>3. SnapshotInv
    BY DEF Init, SnapshotInv
  <1> QED
    BY <1>1, <1>2, <1>3 DEF IInv

-----------------------------------------------------------------------------
\* Type correctness is inductive on its own.
LEMMA TypeStep == TypeOK /\ [Next]_vars => TypeOK'
  <1> SUFFICES ASSUME TypeOK, [Next]_vars PROVE TypeOK'
    OBVIOUS
  <1> USE DEF TypeOK, listerVars, handlerVars, mapVars, chanVars, healthVars,
              BeatPoints, UnchangedBesidesHealth
  <1>1. ASSUME NEW s \in Services, NEW spec \in SvcStates, ServiceChanges(s, spec)
        PROVE  TypeOK'
    <2>1. (IF spec = NoSvc THEN svcLister[s] ELSE spec) \in SvcSpecs \cup {Headless}
      BY <1>1 DEF ServiceChanges, SvcMayBecome, SvcStates
    <2> QED
      BY <1>1, <2>1 DEF ServiceChanges
  <1>2. ASSUME NEW s \in Services, NEW eps \in EpStates \cup {NoEp}, EndpointsChange(s, eps)
        PROVE  TypeOK'
    BY <1>2 DEF EndpointsChange, EndpointsInfoMaps
  <1>3. CASE Signal
    BY <1>3 DEF Signal
  <1>4. CASE OnServiceUpdate
    BY <1>4 DEF OnServiceUpdate
  <1>5. CASE SvcBuildServices
    BY <1>5, BuildersType DEF SvcBuildServices
  <1>6. CASE SvcStoreAndSync
    BY <1>6, BuildersType DEF SvcStoreAndSync, sync
  <1>7. CASE OnEndpointsUpdate
    BY <1>7 DEF OnEndpointsUpdate
  <1>8. CASE EpBuildServices
    BY <1>8, BuildersType DEF EpBuildServices
  <1>9. CASE EpStoreAndSync
    BY <1>9, BuildersType DEF EpStoreAndSync, sync
  <1>10. CASE RunStraight
    <2>1. CASE RunSetup
      BY <2>1 DEF RunSetup
    <2>6. CASE RunFirstSelect
      BY <2>6 DEF RunFirstSelect
    <2>7. CASE RunReady
      BY <2>7 DEF RunReady
    <2>8. CASE RunStopUpdates
      BY <2>8 DEF RunStopUpdates
    <2>9. CASE RunClose
      BY <2>9 DEF RunClose
    <2>2. CASE DoSyncLock
      BY <2>2 DEF DoSyncLock
    <2>3. CASE DoSyncBuildServices
      BY <2>3, BuildersType, ZenonT(30) DEF DoSyncBuildServices
    <2>4. ASSUME NEW metricsFail \in BOOLEAN, DoSyncFinish(metricsFail) PROVE TypeOK'
      <3>1. buildEndpointsInfo(epLister) \in EndpointsInfoMaps
        BY BuildersType
      <3> QED
        BY <2>4, <3>1 DEF DoSyncFinish
    <2>5. ASSUME NEW hairpinFails \in BOOLEAN, RunSyncIpvs(hairpinFails) PROVE TypeOK'
      BY <2>5 DEF RunSyncIpvs
    <2> QED
      BY <1>10, <2>1, <2>2, <2>3, <2>4, <2>5, <2>6, <2>7, <2>8, <2>9
         DEF RunStraight, DoSync
  <1>11. CASE RunSelect
    BY <1>11 DEF RunSelect, RunTick, RunTakeRequest, RunStop
  <1>12. CASE OthersBeat \/ RunCheck
    <2>1. CASE OthersBeat
      BY <2>1 DEF OthersBeat
    <2>2. CASE RunCheckReceive
      BY <2>2 DEF RunCheckReceive
    <2>3. CASE RunCheckReturns
      <3>1. checking' \in BOOLEAN
        BY <2>3 DEF RunCheckReturns
      <3>2. UNCHANGED <<healthChan, svcLister, epLister, svcEvents, epEvents, changes>>
            /\ UNCHANGED <<svcPc, epPc, newServiceMap, mapVars, chanVars, stopped, mu>>
            /\ UNCHANGED <<readyForUpdates, applied, runPc, missedSvcEvent>>
        BY <2>3, Zenon DEF RunCheckReturns
      <3> QED
        BY <3>1, <3>2
    <2> QED
      BY <1>12, <2>1, <2>2, <2>3 DEF RunCheck
  <1>13. CASE SendHeartBeat
    BY <1>13 DEF SendHeartBeat
  <1>14. CASE UNCHANGED vars
    BY <1>14 DEF vars
  <1> QED
    BY <1>1, <1>2, <1>3, <1>4, <1>5, <1>6, <1>7, <1>8, <1>9, <1>10, <1>11, <1>12,
       <1>13, <1>14
       DEF Next, Environment, SvcListener, EpListener

-----------------------------------------------------------------------------
\* The mutex, the ready flag and the channel.
LEMMA ControlStep ==
    TypeOK /\ LockInv /\ ReadyInv /\ NoSendOnClosedChannel /\ [Next]_vars
        => (LockInv /\ ReadyInv /\ NoSendOnClosedChannel)'
  <1> SUFFICES ASSUME TypeOK, LockInv, ReadyInv, NoSendOnClosedChannel, [Next]_vars
               PROVE  (LockInv /\ ReadyInv /\ NoSendOnClosedChannel)'
    OBVIOUS
  <1> USE DEF TypeOK, LockInv, ReadyInv, NoSendOnClosedChannel, listerVars,
              handlerVars, mapVars, chanVars, healthVars, BeatPoints,
              UnchangedBesidesHealth
  <1>1. CASE Environment
    BY <1>1 DEF Environment, ServiceChanges, EndpointsChange, Signal, OthersBeat
  <1>2. CASE SvcListener
    BY <1>2 DEF SvcListener, OnServiceUpdate, SvcBuildServices, SvcStoreAndSync, sync
  <1>3. CASE EpListener
    BY <1>3 DEF EpListener, OnEndpointsUpdate, EpBuildServices, EpStoreAndSync, sync
  <1>4. CASE RunStraight
    BY <1>4 DEF RunStraight, DoSync, RunSetup, RunFirstSelect, DoSyncLock,
       DoSyncBuildServices, DoSyncFinish, RunReady, RunSyncIpvs, RunStopUpdates,
       RunClose
  <1>5. CASE RunSelect
    BY <1>5 DEF RunSelect, RunTick, RunTakeRequest, RunStop
  <1>6. CASE RunCheck \/ SendHeartBeat
    BY <1>6 DEF RunCheck, RunCheckReceive, RunCheckReturns, SendHeartBeat
  <1>7. CASE UNCHANGED vars
    BY <1>7 DEF vars
  <1> QED
    BY <1>1, <1>2, <1>3, <1>4, <1>5, <1>6, <1>7 DEF Next

-----------------------------------------------------------------------------
\* A dirty map keeps a request: a handler that dirties the maps finds the channel
\* open and leaves it non-empty, and Run empties it only on its way to the maps.
LEMMA RequestStep == IInv /\ [Next]_vars => RequestedSyncNotLost'
  <1> SUFFICES ASSUME IInv, [Next]_vars PROVE RequestedSyncNotLost'
    OBVIOUS
  <1> USE DEF IInv, TypeOK, RequestedSyncNotLost, listerVars, handlerVars, mapVars,
              chanVars, healthVars, BeatPoints, UnchangedBesidesHealth
  <1>1. CASE Environment
    BY <1>1 DEF Environment, ServiceChanges, EndpointsChange, Signal, OthersBeat
  <1>2. CASE SvcListener
    <2>1. CASE OnServiceUpdate \/ SvcBuildServices
      BY <2>1 DEF OnServiceUpdate, SvcBuildServices
    <2>2. CASE SvcStoreAndSync
      <3>1. ~chanClosed
        BY <2>2 DEF SvcStoreAndSync, ReadyInv
      <3> QED
        BY <2>2, <3>1 DEF SvcStoreAndSync, sync
    <2> QED
      BY <1>2, <2>1, <2>2 DEF SvcListener
  <1>3. CASE EpListener
    <2>1. CASE OnEndpointsUpdate \/ EpBuildServices
      BY <2>1 DEF OnEndpointsUpdate, EpBuildServices
    <2>2. CASE EpStoreAndSync
      <3>1. ~chanClosed
        BY <2>2 DEF EpStoreAndSync, ReadyInv
      <3> QED
        BY <2>2, <3>1 DEF EpStoreAndSync, sync
    <2> QED
      BY <1>3, <2>1, <2>2 DEF EpListener
  <1>4. CASE RunStraight
    BY <1>4 DEF RunStraight, DoSync, RunSetup, RunFirstSelect, DoSyncLock,
       DoSyncBuildServices, DoSyncFinish, RunReady, RunSyncIpvs, RunStopUpdates,
       RunClose
  <1>5. CASE RunSelect
    BY <1>5 DEF RunSelect, RunTick, RunTakeRequest, RunStop
  <1>6. CASE RunCheck \/ SendHeartBeat
    BY <1>6 DEF RunCheck, RunCheckReceive, RunCheckReturns, SendHeartBeat
  <1>7. CASE UNCHANGED vars
    BY <1>7 DEF vars
  <1> QED
    BY <1>1, <1>2, <1>3, <1>4, <1>5, <1>6, <1>7 DEF Next

-----------------------------------------------------------------------------
\* Facts about the queue of service notifications.
LEMMA PendingAppend ==
    ASSUME NEW T, NEW q \in Seq(T), NEW e \in T
    PROVE  /\ Len(Append(q, e)) = Len(q) + 1
           /\ Append(q, e)[Len(q) + 1] = e
           /\ \A i \in 1 .. Len(q) : Append(q, e)[i] = q[i]
  OBVIOUS

\* A queued notification that differs from the first one is still queued once the
\* first has been taken.
LEMMA PendingTail ==
    ASSUME NEW T, NEW q \in Seq(T), q # <<>>,
           NEW i \in 1 .. Len(q), q[i] # Head(q)
    PROVE  \E j \in 1 .. Len(Tail(q)) : Tail(q)[j] = q[i]
  <1>1. i # 1 /\ i - 1 \in 1 .. Len(Tail(q))
    OBVIOUS
  <1>2. Tail(q)[i - 1] = q[i]
    BY <1>1
  <1> QED
    BY <1>1, <1>2

\* A change that alters the service map announces itself with an event that is
\* not headless; the maps already built stay current.
LEMMA ServiceChangeKeepsCurrent ==
    ASSUME TypeOK, NEW s \in Services, NEW spec \in SvcStates,
           ServiceChanges(s, spec), NEW map, Current(map)
    PROVE  map = buildServicesInfo(svcLister') \/ VipEventPending'
  <1> DEFINE e == IF spec = NoSvc THEN svcLister[s] ELSE spec
  <1>1. e \in SvcSpecs \cup {Headless}
    BY DEF ServiceChanges, SvcMayBecome, SvcStates, TypeOK
  <1>2. svcEvents' = Append(svcEvents, e) /\ svcEvents \in Seq(SvcSpecs \cup {Headless})
    BY DEF ServiceChanges, TypeOK
  <1>3. CASE VipEventPending
    <2>1. PICK i \in 1 .. Len(svcEvents) : svcEvents[i] # Headless
      BY <1>3 DEF VipEventPending
    <2>2. i \in 1 .. Len(svcEvents') /\ svcEvents'[i] = svcEvents[i]
      BY <1>1, <1>2, PendingAppend
    <2> QED
      BY <2>1, <2>2 DEF VipEventPending
  <1>4. CASE e # Headless
    <2>1. Len(svcEvents) + 1 \in 1 .. Len(svcEvents')
          /\ svcEvents'[Len(svcEvents) + 1] = e
      BY <1>1, <1>2, PendingAppend
    <2> QED
      BY <1>4, <2>1 DEF VipEventPending
  <1>5. CASE e = Headless /\ map = buildServicesInfo(svcLister)
    <2>1. svcLister' = [svcLister EXCEPT ![s] = spec]
          /\ svcLister[s] \notin SvcSpecs /\ spec \notin SvcSpecs
      BY <1>5 DEF ServiceChanges, SvcMayBecome, SvcStates, TypeOK
    <2>2. buildServicesInfo(svcLister') = buildServicesInfo(svcLister)
      BY <2>1 DEF buildServicesInfo, TypeOK
    <2> QED
      BY <1>5, <2>2
  <1> QED
    BY <1>3, <1>4, <1>5 DEF Current

-----------------------------------------------------------------------------
\* Every copy of the service map stays current, or has an event behind it.
LEMMA SnapshotStep == IInv /\ [Next]_vars => SnapshotInv'
  <1> SUFFICES ASSUME IInv, [Next]_vars PROVE SnapshotInv'
    OBVIOUS
  <1> USE DEF IInv, SnapshotInv, listerVars, handlerVars, mapVars, chanVars,
              healthVars, BeatPoints, UnchangedBesidesHealth
  <1>1. ASSUME NEW s \in Services, NEW spec \in SvcStates, ServiceChanges(s, spec)
        PROVE  SnapshotInv'
    <2>1. \A map : Current(map) => map = buildServicesInfo(svcLister') \/ VipEventPending'
      BY <1>1, ServiceChangeKeepsCurrent
    <2> QED
      BY <1>1, <2>1 DEF ServiceChanges, Current
  <1>2. ASSUME UNCHANGED <<svcLister, svcEvents>>, NEW map
        PROVE  Current(map) => map = buildServicesInfo(svcLister') \/ VipEventPending'
    BY <1>2 DEF Current, VipEventPending, buildServicesInfo
  <1>3. ASSUME NEW s \in Services, NEW eps \in EpStates \cup {NoEp}, EndpointsChange(s, eps)
        PROVE  SnapshotInv'
    BY <1>2, <1>3 DEF EndpointsChange, Current
  <1>4. CASE Signal
    BY <1>2, <1>4 DEF Signal, Current
  <1>5. CASE OnServiceUpdate
    <2>1. svcEvents \in Seq(SvcSpecs \cup {Headless}) /\ svcEvents # <<>>
      BY <1>5 DEF OnServiceUpdate, TypeOK
    <2>2. CASE Head(svcEvents) # Headless /\ readyForUpdates
      BY <1>5, <2>2 DEF OnServiceUpdate, LockInv
    <2>3. CASE ~readyForUpdates
      BY <1>5, <2>3 DEF OnServiceUpdate, LockInv
    <2>4. CASE Head(svcEvents) = Headless
      <3>1. VipEventPending => VipEventPending'
        BY <1>5, <2>1, <2>4, PendingTail DEF OnServiceUpdate, VipEventPending
      <3> QED
        BY <1>5, <2>4, <3>1 DEF OnServiceUpdate, LockInv, Current, buildServicesInfo
    <2> QED
      BY <2>2, <2>3, <2>4
  <1>6. CASE SvcBuildServices
    BY <1>6, <1>2 DEF SvcBuildServices, Current, TypeOK, LockInv
  <1>7. CASE SvcStoreAndSync
    BY <1>7, <1>2 DEF SvcStoreAndSync, sync, Current, LockInv
  <1>8. CASE OnEndpointsUpdate
    BY <1>8, <1>2 DEF OnEndpointsUpdate, Current, LockInv
  <1>9. CASE EpBuildServices
    BY <1>9, <1>2 DEF EpBuildServices, Current, TypeOK, LockInv
  <1>10. CASE EpStoreAndSync
    BY <1>10, <1>2 DEF EpStoreAndSync, sync, Current, LockInv
  <1>11. CASE RunStraight
    <2>1. CASE RunSetup \/ RunFirstSelect \/ RunReady \/ RunStopUpdates \/ RunClose
      BY <2>1, <1>2 DEF RunSetup, RunFirstSelect, RunReady, RunStopUpdates, RunClose,
         Current, ReadyInv, LockInv
    <2>2. CASE DoSyncLock
      BY <2>2, <1>2 DEF DoSyncLock, Current, ReadyInv, LockInv
    <2>3. CASE DoSyncBuildServices
      BY <2>3, <1>2 DEF DoSyncBuildServices, Current, LockInv
    <2>4. ASSUME NEW metricsFail \in BOOLEAN, DoSyncFinish(metricsFail)
          PROVE  SnapshotInv'
      BY <2>4, <1>2 DEF DoSyncFinish, Current, LockInv
    <2>5. ASSUME NEW hairpinFails \in BOOLEAN, RunSyncIpvs(hairpinFails)
          PROVE  SnapshotInv'
      BY <2>5, <1>2 DEF RunSyncIpvs, Current
    <2> QED
      BY <1>11, <2>1, <2>2, <2>3, <2>4, <2>5 DEF RunStraight, DoSync
  <1>12. CASE RunSelect
    BY <1>12, <1>2 DEF RunSelect, RunTick, RunTakeRequest, RunStop, Current
  <1>13. CASE OthersBeat \/ RunCheck
    BY <1>13, <1>2 DEF OthersBeat, RunCheck, RunCheckReceive, RunCheckReturns, Current
  <1>14. CASE SendHeartBeat
    BY <1>14, <1>2 DEF SendHeartBeat, Current
  <1>15. CASE UNCHANGED vars
    BY <1>15, <1>2 DEF vars, Current
  <1> QED
    BY <1>1, <1>3, <1>4, <1>5, <1>6, <1>7, <1>8, <1>9, <1>10, <1>11, <1>12, <1>13,
       <1>14, <1>15
       DEF Next, Environment, SvcListener, EpListener

-----------------------------------------------------------------------------
\* Every step preserves the invariant.
LEMMA IInvStep == IInv /\ [Next]_vars => IInv'
  BY TypeStep, ControlStep, RequestStep, SnapshotStep DEF IInv

\* The inductive invariant holds in every reachable state.
LEMMA IInvHolds == Spec => []IInv
  BY InitIInv, IInvStep, PTL DEF Spec

\* Every reachable state of the controller is well typed.
THEOREM TypeCorrect == Spec => []TypeOK
  <1>1. IInv => TypeOK
    BY DEF IInv
  <1> QED
    BY <1>1, IInvHolds, PTL

\* Shutdown is safe: the listeners, which outlive Run, never send on the channel
\* that Run's deferred close has closed.
THEOREM ShutdownSafe == Spec => []NoSendOnClosedChannel
  <1>1. IInv => NoSendOnClosedChannel
    BY DEF IInv
  <1> QED
    BY <1>1, IInvHolds, PTL

\* Dropping a request when nsc.syncChan is full loses nothing, whatever the
\* capacity of the channel.
THEOREM NoRequestLost == Spec => []RequestedSyncNotLost
  <1>1. IInv => RequestedSyncNotLost
    BY DEF IInv
  <1> QED
    BY <1>1, IInvHolds, PTL

\* A ready controller that skipped no event never rests on a stale service map.
THEOREM ServiceMapNeverStale == Spec => []ServiceMapFollowsLister
  <1>1. IInv => ServiceMapFollowsLister
    BY DEF IInv, SnapshotInv, Current, ServiceMapFollowsLister
  <1> QED
    BY <1>1, IInvHolds, PTL
=============================================================================
