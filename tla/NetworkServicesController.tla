---------------------- MODULE NetworkServicesController ----------------------
(***************************************************************************)
(* The control part of the service proxy                                   *)
(* (pkg/controllers/proxy/network_services_controller.go): three           *)
(* goroutines share one controller value under the mutex nsc.mu.           *)
(*                                                                         *)
(*  - "svc": the service informer's listener, which runs OnServiceUpdate;  *)
(*  - "ep":  the endpoints informer's listener, which runs                 *)
(*           OnEndpointsUpdate;                                            *)
(*  - "run": Run, which serves sync requests, the periodic ticker and the  *)
(*           stop channel.                                                 *)
(*                                                                         *)
(* The listers are written by the informers with no regard for nsc.mu, so  *)
(* every read of a lister is a step of its own.  What syncIpvsServices     *)
(* does to the kernel is module IpvsSync; here "applied" records the maps  *)
(* it was last called with.  Run also serves a graceful-termination ticker *)
(* that touches none of this state (module IpvsSync, gracefulSync).        *)
(*                                                                         *)
(* Run reports to the health controller through a bounded channel that it  *)
(* shares with the other controllers.  The send blocks while the channel   *)
(* is full, and the health controller's RunCheck, its only reader, leaves  *)
(* at the same signal as Run.                                              *)
(***************************************************************************)
EXTENDS Naturals, Sequences

CONSTANTS
    Services,       \* names of the services of the cluster
    SvcSpecs,       \* service specifications that have a cluster IP
    Headless,       \* the specification of a headless service
    NoSvc,          \* a service the lister does not hold
    EpStates,       \* contents of an Endpoints object
    NoEp,           \* an Endpoints object the lister does not hold
    SyncChanCap,    \* capacity of nsc.syncChan
    HealthChanCap,  \* capacity of the heartbeat channel
    MaxChanges      \* bound: number of API objects changed in a behaviour

ASSUME ServicesAssumption ==
    /\ Headless \notin SvcSpecs
    /\ NoSvc \notin SvcSpecs \cup {Headless}
    /\ NoEp \notin EpStates
    /\ SyncChanCap \in Nat \ {0}
    /\ HealthChanCap \in Nat \ {0}
    /\ MaxChanges \in Nat

VARIABLES
    svcLister,      \* the service informer's store
    epLister,       \* the endpoints informer's store
    svcEvents,      \* service notifications not yet delivered to the listener
    epEvents,       \* endpoints notifications not yet delivered
    changes,        \* number of API changes so far
    stopped,        \* stopCh is closed
    mu,             \* the goroutine that holds nsc.mu, or "none"
    readyForUpdates,
    serviceMap,
    endpointsMap,
    newServiceMap,  \* the handlers' local map, per handler
    syncChan,       \* number of requests buffered in nsc.syncChan
    chanClosed,     \* close(nsc.syncChan) has been executed
    panicked,       \* a goroutine has sent on the closed channel
    healthChan,     \* number of heartbeats buffered in healthChan
    checking,       \* RunCheck, which receives them, has not returned
    applied,        \* the maps syncIpvsServices was last called with
    runPc, svcPc, epPc,
    missedSvcEvent  \* history: OnServiceUpdate skipped an event, not ready,
                    \* and no full sync has read the lister since

listerVars == <<svcLister, epLister, changes>>
handlerVars == <<svcEvents, epEvents, svcPc, epPc, newServiceMap>>
mapVars == <<serviceMap, endpointsMap>>
chanVars == <<syncChan, chanClosed, panicked>>
healthVars == <<healthChan, checking>>
vars == <<listerVars, handlerVars, mapVars, chanVars, healthVars, stopped, mu,
          readyForUpdates, applied, runPc, missedSvcEvent>>

SvcStates == SvcSpecs \cup {Headless, NoSvc}
ServiceInfoMaps == [Services -> SvcSpecs \cup {NoSvc}]
EndpointsInfoMaps == [Services -> EpStates \cup {NoEp}]

\* buildServicesInfo: services without a cluster IP are skipped.
buildServicesInfo(lister) ==
    [s \in Services |-> IF lister[s] \in SvcSpecs THEN lister[s] ELSE NoSvc]

\* buildEndpointsInfo: every Endpoints object, whatever its service.
buildEndpointsInfo(lister) == lister

NilServiceMap == [s \in Services |-> NoSvc]
NilEndpointsMap == [s \in Services |-> NoEp]

Alive == runPc # "fatal"

Init ==
    /\ svcLister \in [Services -> SvcStates]
    /\ epLister \in EndpointsInfoMaps
    /\ svcEvents = <<>>
    /\ epEvents = <<>>
    /\ changes = 0
    /\ stopped = FALSE
    /\ mu = "none"
    /\ readyForUpdates = FALSE
    /\ serviceMap = NilServiceMap
    /\ endpointsMap = NilEndpointsMap
    /\ newServiceMap = [h \in {"svc", "ep"} |-> NilServiceMap]
    /\ syncChan = 0
    /\ chanClosed = FALSE
    /\ panicked = FALSE
    /\ healthChan = 0
    /\ checking = TRUE
    /\ applied = <<NilServiceMap, NilEndpointsMap>>
    /\ runPc = "setup"
    /\ svcPc = "idle"
    /\ epPc = "idle"
    /\ missedSvcEvent = FALSE

-----------------------------------------------------------------------------
(* Environment: the API server and the informers (client-go).              *)

\* A cluster IP is immutable: a service becomes headless, or stops being
\* headless, only by being deleted and created again.
SvcMayBecome(old, new) ==
    /\ old # new
    /\ Headless \in {old, new} => NoSvc \in {old, new}

\* The store changes first and the notification is queued behind it; a delete
\* notification carries the last known object.
ServiceChanges(s, spec) ==
    /\ Alive
    /\ changes < MaxChanges
    /\ SvcMayBecome(svcLister[s], spec)
    /\ svcLister' = [svcLister EXCEPT ![s] = spec]
    /\ svcEvents' = Append(svcEvents, IF spec = NoSvc THEN svcLister[s] ELSE spec)
    /\ changes' = changes + 1
    /\ UNCHANGED <<epLister, epEvents, svcPc, epPc, newServiceMap, mapVars,
                   chanVars, healthVars, stopped, mu, readyForUpdates, applied,
                   runPc, missedSvcEvent>>

EndpointsChange(s, eps) ==
    /\ Alive
    /\ changes < MaxChanges
    /\ epLister[s] # eps
    /\ epLister' = [epLister EXCEPT ![s] = eps]
    /\ epEvents' = Append(epEvents, s)
    /\ changes' = changes + 1
    /\ UNCHANGED <<svcLister, svcEvents, svcPc, epPc, newServiceMap, mapVars,
                   chanVars, healthVars, stopped, mu, readyForUpdates, applied,
                   runPc, missedSvcEvent>>

\* The main goroutine closes stopCh on SIGINT or SIGTERM.
Signal ==
    /\ Alive
    /\ ~stopped
    /\ stopped' = TRUE
    /\ UNCHANGED <<listerVars, handlerVars, mapVars, chanVars, mu,
                   readyForUpdates, applied, runPc, missedSvcEvent,
                   healthVars>>

-----------------------------------------------------------------------------
(* The heartbeat channel.  Its other end is RunCheck, which returns once it *)
(* sees stopCh closed, whether heartbeats are buffered or not; the other    *)
(* controllers send to it as well.                                          *)

UnchangedBesidesHealth ==
    UNCHANGED <<listerVars, handlerVars, mapVars, chanVars, stopped, mu,
                readyForUpdates, applied, runPc, missedSvcEvent>>

OthersBeat ==
    /\ Alive
    /\ healthChan < HealthChanCap
    /\ healthChan' = healthChan + 1
    /\ UNCHANGED checking
    /\ UnchangedBesidesHealth

RunCheckReceive ==
    /\ Alive
    /\ checking
    /\ healthChan > 0
    /\ healthChan' = healthChan - 1
    /\ UNCHANGED checking
    /\ UnchangedBesidesHealth

RunCheckReturns ==
    /\ Alive
    /\ checking
    /\ stopped
    /\ checking' = FALSE
    /\ UNCHANGED healthChan
    /\ UnchangedBesidesHealth

-----------------------------------------------------------------------------
(* nsc.sync: a send that never blocks; the request is dropped when the     *)
(* buffer is full, and a send on the closed channel panics.                *)

MSyncUnbuffered == UNCHANGED chanVars

MSyncUnbounded ==
    /\ syncChan' = IF chanClosed THEN syncChan ELSE syncChan + 1
    /\ panicked' = (panicked \/ chanClosed)
    /\ UNCHANGED chanClosed

sync ==
    /\ syncChan' = IF ~chanClosed /\ syncChan < SyncChanCap
                   THEN syncChan + 1 ELSE syncChan
    /\ panicked' = (panicked \/ chanClosed)
    /\ UNCHANGED chanClosed

-----------------------------------------------------------------------------
(* OnServiceUpdate, in three steps: lock and early returns; build the      *)
(* service map; build the endpoints map, compare, store, request a sync    *)
(* and unlock.                                                             *)

OnServiceUpdate ==
    /\ Alive
    /\ svcPc = "idle"
    /\ svcEvents # <<>>
    /\ mu = "none"
    /\ svcEvents' = Tail(svcEvents)
    /\ IF readyForUpdates /\ Head(svcEvents) # Headless
       THEN /\ mu' = "svc"
            /\ svcPc' = "services"
       ELSE UNCHANGED <<mu, svcPc>>
    /\ missedSvcEvent' = (missedSvcEvent \/ ~readyForUpdates)
    /\ UNCHANGED <<listerVars, epEvents, epPc, newServiceMap, mapVars,
                   chanVars, healthVars, stopped, readyForUpdates, applied,
                   runPc>>

SvcBuildServices ==
    /\ Alive
    /\ svcPc = "services"
    /\ newServiceMap' = [newServiceMap EXCEPT !["svc"] = buildServicesInfo(svcLister)]
    /\ svcPc' = "endpoints"
    /\ UNCHANGED <<listerVars, svcEvents, epEvents, epPc, mapVars, chanVars,
                   healthVars, stopped, mu, readyForUpdates, applied, runPc,
                   missedSvcEvent>>

MSvcCompareEndpoints ==
    /\ Alive
    /\ svcPc = "endpoints"
    /\ IF buildEndpointsInfo(epLister) # endpointsMap
       THEN /\ endpointsMap' = buildEndpointsInfo(epLister)
            /\ serviceMap' = newServiceMap["svc"]
            /\ sync
       ELSE UNCHANGED <<mapVars, chanVars>>
    /\ mu' = "none"
    /\ svcPc' = "idle"
    /\ UNCHANGED <<listerVars, svcEvents, epEvents, epPc, newServiceMap,
                   healthVars, stopped, readyForUpdates, applied, runPc,
                   missedSvcEvent>>

SvcStoreAndSync ==
    /\ Alive
    /\ svcPc = "endpoints"
    /\ IF newServiceMap["svc"] # serviceMap
       THEN /\ endpointsMap' = buildEndpointsInfo(epLister)
            /\ serviceMap' = newServiceMap["svc"]
            /\ sync
       ELSE UNCHANGED <<mapVars, chanVars>>
    /\ mu' = "none"
    /\ svcPc' = "idle"
    /\ UNCHANGED <<listerVars, svcEvents, epEvents, epPc, newServiceMap,
                   healthVars, stopped, readyForUpdates, applied, runPc,
                   missedSvcEvent>>

-----------------------------------------------------------------------------
(* OnEndpointsUpdate: the service is looked up in the service lister, so   *)
(* its state there, and not the event, decides whether the event counts.   *)

OnEndpointsUpdate ==
    /\ Alive
    /\ epPc = "idle"
    /\ epEvents # <<>>
    /\ mu = "none"
    /\ epEvents' = Tail(epEvents)
    /\ IF readyForUpdates /\ svcLister[Head(epEvents)] \in SvcSpecs
       THEN /\ mu' = "ep"
            /\ epPc' = "services"
       ELSE UNCHANGED <<mu, epPc>>
    /\ UNCHANGED <<listerVars, svcEvents, svcPc, newServiceMap, mapVars,
                   chanVars, healthVars, stopped, readyForUpdates, applied,
                   runPc, missedSvcEvent>>

EpBuildServices ==
    /\ Alive
    /\ epPc = "services"
    /\ newServiceMap' = [newServiceMap EXCEPT !["ep"] = buildServicesInfo(svcLister)]
    /\ epPc' = "endpoints"
    /\ UNCHANGED <<listerVars, svcEvents, epEvents, svcPc, mapVars, chanVars,
                   healthVars, stopped, mu, readyForUpdates, applied, runPc,
                   missedSvcEvent>>

EpStoreAndSync ==
    /\ Alive
    /\ epPc = "endpoints"
    /\ IF buildEndpointsInfo(epLister) # endpointsMap
       THEN /\ endpointsMap' = buildEndpointsInfo(epLister)
            /\ serviceMap' = newServiceMap["ep"]
            /\ sync
       ELSE UNCHANGED <<mapVars, chanVars>>
    /\ mu' = "none"
    /\ epPc' = "idle"
    /\ UNCHANGED <<listerVars, svcEvents, epEvents, svcPc, newServiceMap,
                   healthVars, stopped, readyForUpdates, applied, runPc,
                   missedSvcEvent>>

-----------------------------------------------------------------------------
(* Run.  runPc: "setup" (sysctls, masquerading, firewall), "first" (the    *)
(* select before the initial sync), "lock1" / "services1" / "endpoints1"   *)
(* (the initial doSync), "ready", "loop" (the select), "lock" /            *)
(* "services" / "endpoints" (a later doSync), "ipvs" (a request was taken  *)
(* from syncChan), "requestBeat" / "tickBeat" / "afterBeat" (the blocking  *)
(* heartbeat before a requested sync, before a periodic one and after      *)
(* either), "stopping", "closing", "done", and "fatal" once klog.Fatalf    *)
(* has ended the process.                                                  *)

BeatPoints == {"requestBeat", "tickBeat", "afterBeat"}

\* Errors are logged, except that of one sysctl, which is fatal.
RunSetup ==
    /\ runPc = "setup"
    /\ runPc' \in {"first", "fatal"}
    /\ UNCHANGED <<listerVars, handlerVars, mapVars, chanVars, healthVars,
                   stopped, mu, readyForUpdates, applied, missedSvcEvent>>

RunFirstSelect ==
    /\ runPc = "first"
    /\ runPc' = IF stopped THEN "closing" ELSE "lock1"
    /\ UNCHANGED <<listerVars, handlerVars, mapVars, chanVars, healthVars,
                   stopped, mu, readyForUpdates, applied, missedSvcEvent>>

DoSyncLock ==
    /\ runPc \in {"lock1", "lock"}
    /\ mu = "none"
    /\ mu' = "run"
    /\ runPc' = IF runPc = "lock1" THEN "services1" ELSE "services"
    /\ UNCHANGED <<listerVars, handlerVars, mapVars, chanVars, healthVars,
                   stopped, readyForUpdates, applied, missedSvcEvent>>

DoSyncBuildServices ==
    /\ runPc \in {"services1", "services"}
    /\ serviceMap' = buildServicesInfo(svcLister)
    /\ missedSvcEvent' = FALSE
    /\ runPc' = IF runPc = "services1" THEN "endpoints1" ELSE "endpoints"
    /\ UNCHANGED <<listerVars, handlerVars, endpointsMap, chanVars, healthVars,
                   stopped, mu, readyForUpdates, applied>>

\* The endpoints map is built, syncIpvsServices runs with the new maps (it
\* never returns an error), then publishMetrics, whose error doSync returns:
\* Run logs it and sends no heartbeat, except after the initial sync, where it
\* is fatal.
DoSyncFinish(metricsFail) ==
    /\ runPc \in {"endpoints1", "endpoints"}
    /\ endpointsMap' = buildEndpointsInfo(epLister)
    /\ applied' = <<serviceMap, buildEndpointsInfo(epLister)>>
    /\ mu' = "none"
    /\ runPc' = CASE runPc = "endpoints" /\ metricsFail -> "loop"
                  [] runPc = "endpoints" /\ ~metricsFail -> "afterBeat"
                  [] runPc = "endpoints1" /\ metricsFail -> "fatal"
                  [] OTHER -> "ready"
    /\ UNCHANGED <<listerVars, handlerVars, serviceMap, chanVars, healthVars,
                   stopped, readyForUpdates, missedSvcEvent>>

\* readyForUpdates is set after doSync has released the mutex.
RunReady ==
    /\ runPc = "ready"
    /\ readyForUpdates' = TRUE
    /\ runPc' = "loop"
    /\ UNCHANGED <<listerVars, handlerVars, mapVars, chanVars, healthVars,
                   stopped, mu, applied, missedSvcEvent>>

MRunTick ==
    /\ runPc = "loop"
    /\ runPc' = "requestBeat"
    /\ UNCHANGED <<listerVars, handlerVars, mapVars, chanVars, healthVars,
                   stopped, mu, readyForUpdates, applied, missedSvcEvent>>

RunTick ==
    /\ runPc = "loop"
    /\ runPc' = "tickBeat"
    /\ UNCHANGED <<listerVars, handlerVars, mapVars, chanVars, healthVars,
                   stopped, mu, readyForUpdates, applied, missedSvcEvent>>

\* Only synctypeIpvs is ever sent, so a request carries no information.
RunTakeRequest ==
    /\ runPc = "loop"
    /\ syncChan > 0
    /\ syncChan' = syncChan - 1
    /\ runPc' = "requestBeat"
    /\ UNCHANGED <<listerVars, handlerVars, mapVars, chanClosed, panicked,
                   healthVars, stopped, mu, readyForUpdates, applied,
                   missedSvcEvent>>

\* The send blocks while the channel is full.
SendHeartBeat ==
    /\ runPc \in BeatPoints
    /\ healthChan < HealthChanCap
    /\ healthChan' = healthChan + 1
    /\ runPc' = CASE runPc = "requestBeat" -> "ipvs"
                  [] runPc = "tickBeat" -> "lock"
                  [] runPc = "afterBeat" -> "loop"
    /\ UNCHANGED <<listerVars, handlerVars, mapVars, chanVars, checking, stopped,
                   mu, readyForUpdates, applied, missedSvcEvent>>

MSyncIpvsKeepsLock(hairpinFails) ==
    /\ runPc = "ipvs"
    /\ mu = "none"
    /\ applied' = <<serviceMap, endpointsMap>>
    /\ mu' = IF hairpinFails THEN "run" ELSE "none"
    /\ runPc' = IF hairpinFails THEN "loop" ELSE "afterBeat"
    /\ UNCHANGED <<listerVars, handlerVars, mapVars, chanVars, healthVars,
                   stopped, readyForUpdates, missedSvcEvent>>

\* Lock, syncIpvsServices, syncHairpinIptablesRules, unlock.  The error of the
\* last call decides whether a heartbeat follows.
RunSyncIpvs(hairpinFails) ==
    /\ runPc = "ipvs"
    /\ mu = "none"
    /\ applied' = <<serviceMap, endpointsMap>>
    /\ runPc' = IF hairpinFails THEN "loop" ELSE "afterBeat"
    /\ UNCHANGED <<listerVars, handlerVars, mapVars, chanVars, healthVars,
                   stopped, mu, readyForUpdates, missedSvcEvent>>

RunStop ==
    /\ runPc = "loop"
    /\ stopped
    /\ runPc' = "stopping"
    /\ UNCHANGED <<listerVars, handlerVars, mapVars, chanVars, healthVars,
                   stopped, mu, readyForUpdates, applied, missedSvcEvent>>

MRunStopNoReset ==
    /\ runPc = "stopping"
    /\ mu = "none"
    /\ runPc' = "closing"
    /\ UNCHANGED <<listerVars, handlerVars, mapVars, chanVars, healthVars,
                   stopped, mu, readyForUpdates, applied, missedSvcEvent>>

RunStopUpdates ==
    /\ runPc = "stopping"
    /\ mu = "none"
    /\ readyForUpdates' = FALSE
    /\ runPc' = "closing"
    /\ UNCHANGED <<listerVars, handlerVars, mapVars, chanVars, healthVars,
                   stopped, mu, applied, missedSvcEvent>>

\* The deferred close(nsc.syncChan).
RunClose ==
    /\ runPc = "closing"
    /\ chanClosed' = TRUE
    /\ runPc' = "done"
    /\ UNCHANGED <<listerVars, handlerVars, mapVars, syncChan, panicked,
                   healthVars, stopped, mu, readyForUpdates, applied,
                   missedSvcEvent>>

-----------------------------------------------------------------------------
Environment ==
    \/ \E s \in Services :
          \/ \E spec \in SvcStates : ServiceChanges(s, spec)
          \/ \E eps \in EpStates \cup {NoEp} : EndpointsChange(s, eps)
    \/ Signal
    \/ OthersBeat

RunCheck == RunCheckReceive \/ RunCheckReturns

SvcListener == OnServiceUpdate \/ SvcBuildServices \/ SvcStoreAndSync
EpListener == OnEndpointsUpdate \/ EpBuildServices \/ EpStoreAndSync

DoSync ==
    \/ DoSyncLock
    \/ DoSyncBuildServices
    \/ \E metricsFail \in BOOLEAN : DoSyncFinish(metricsFail)

\* The steps of Run outside its select statement.
RunStraight ==
    \/ RunSetup \/ RunFirstSelect \/ DoSync \/ RunReady
    \/ \E hairpinFails \in BOOLEAN : RunSyncIpvs(hairpinFails)
    \/ RunStopUpdates \/ RunClose

RunSelect == RunTick \/ RunTakeRequest \/ RunStop

Next == Environment \/ RunCheck \/ SvcListener \/ EpListener
        \/ RunStraight \/ SendHeartBeat \/ RunSelect

\* Every goroutine keeps running, and Go's select chooses uniformly among the
\* cases that are ready, so a case that is ready again and again is taken.
\* Senders that wait for room in a channel are served in the order in which they
\* came, so the other controllers cannot keep Run from sending.  Nothing is assumed of the environment, which may stop at any time.
Fairness ==
    /\ WF_vars(RunStraight)
    /\ WF_vars(RunCheckReceive)
    /\ WF_vars(RunCheckReturns)
    /\ SF_vars(SendHeartBeat)
    /\ SF_vars(RunTick)
    /\ SF_vars(RunTakeRequest)
    /\ SF_vars(RunStop)
    /\ SF_vars(SvcListener)
    /\ SF_vars(EpListener)

Spec == Init /\ [][Next]_vars
FairSpec == Spec /\ Fairness

-----------------------------------------------------------------------------
TypeOK ==
    /\ svcLister \in [Services -> SvcStates]
    /\ epLister \in EndpointsInfoMaps
    /\ svcEvents \in Seq(SvcSpecs \cup {Headless})
    /\ epEvents \in Seq(Services)
    /\ changes \in 0 .. MaxChanges
    /\ stopped \in BOOLEAN
    /\ mu \in {"none", "run", "svc", "ep"}
    /\ readyForUpdates \in BOOLEAN
    /\ serviceMap \in ServiceInfoMaps
    /\ endpointsMap \in EndpointsInfoMaps
    /\ newServiceMap \in [{"svc", "ep"} -> ServiceInfoMaps]
    /\ syncChan \in 0 .. SyncChanCap
    /\ chanClosed \in BOOLEAN
    /\ panicked \in BOOLEAN
    /\ healthChan \in 0 .. HealthChanCap
    /\ checking \in BOOLEAN
    /\ applied \in ServiceInfoMaps \X EndpointsInfoMaps
    /\ runPc \in {"setup", "first", "lock1", "services1", "endpoints1", "ready",
                  "loop", "lock", "services", "endpoints", "ipvs", "stopping",
                  "closing", "done", "fatal"} \cup BeatPoints
    /\ svcPc \in {"idle", "services", "endpoints"}
    /\ epPc \in {"idle", "services", "endpoints"}
    /\ missedSvcEvent \in BOOLEAN

\* Shutdown: no handler ever sends on nsc.syncChan after Run's deferred close,
\* although the listeners outlive Run; a send there would panic the process.
NoSendOnClosedChannel == ~panicked

\* A request that nsc.sync drops because the buffer is full is never lost: as
\* long as the maps differ from what syncIpvsServices last saw, a request is
\* buffered, or Run has taken one and has yet to send its heartbeat or to read
\* the maps, or Run is in the middle of a full sync.
RequestedSyncNotLost ==
    applied # <<serviceMap, endpointsMap>>
        => syncChan > 0 \/ runPc \in {"requestBeat", "ipvs", "endpoints1", "endpoints"}

\* While the controller is ready and has not skipped an event, the service map
\* is the lister's, or a notification that will rebuild it is on its way: no
\* interleaving of the two handlers and doSync, each of which writes a map it
\* built from an older reading of the lister, leaves a stale map behind.
VipEventPending == \E i \in 1 .. Len(svcEvents) : svcEvents[i] # Headless
ServiceMapFollowsLister ==
    readyForUpdates /\ ~missedSvcEvent
        => \/ serviceMap = buildServicesInfo(svcLister)
           \/ VipEventPending
           \/ svcPc # "idle"

\* Once the API objects stop changing, what is programmed into IPVS becomes and
\* stays what the listers hold, whatever events were skipped on the way, unless
\* the controller has been told to stop or the initial sync was fatal.
Synced == applied = <<buildServicesInfo(svcLister), buildEndpointsInfo(epLister)>>
Converges == <>[](Synced \/ stopped \/ ~Alive)

\* Run waits to send a heartbeat that nobody will ever receive.
HeartbeatBlocked ==
    runPc \in BeatPoints /\ healthChan = HealthChanCap /\ ~checking

\* After SIGTERM Run returns, and main's wg.Wait with it, unless it comes to wait
\* for room in the heartbeat channel after RunCheck has left: no request, tick,
\* failing call or mutex keeps it otherwise.
RunStops == stopped ~> (runPc \in {"done", "fatal"} \/ HeartbeatBlocked)
=============================================================================
