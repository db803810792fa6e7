-------------------------- MODULE VipAdvertisement --------------------------
(***************************************************************************)
(* How service VIPs are advertised to and withdrawn from the BGP peers     *)
(* (pkg/controllers/routing/ecmp_vip.go, the main loop of                  *)
(* network_routes_controller.go and addServiceVIPsDefinedSet of            *)
(* bgp_policies.go).                                                       *)
(*                                                                         *)
(* Three goroutines work on the same GoBGP server without a lock: the      *)
(* service listener "svc", the endpoints listener "ep" and the periodic    *)
(* loop of Run, "main".  Each lists the services, then reads the endpoints *)
(* of the local ones and so computes what to advertise and withdraw,       *)
(* updates the prefix set of the export policy by listing it, comparing    *)
(* and writing the difference, and then advertises and withdraws what it   *)
(* had computed; the listers and the server change in between.  The        *)
(* Endpoints objects of several local services are read in one step, and   *)
(* a list of VIPs is sent in one: the calls for different VIPs do not      *)
(* touch each other.                                                       *)
(***************************************************************************)
EXTENDS RoutingController, Naturals, Sequences

CONSTANTS
    Services,
    Vips,           \* cluster IPs, external IPs, load balancer IPs
    SvcSpecs,       \* per service, the forms it may take, as records
                    \* [adv, noadv, ext, local]: the two lists of
                    \* getAllVIPsForService, the external IPs among them, and
                    \* whether only nodes with a local endpoint advertise
    NoSvc,
    EpStates,       \* per service, a subset of {"local", "remote", "missing"}: the
                    \* Endpoints object has an address on this node, has none, is
                    \* not there
    MaxVipChanges   \* bound: number of API objects changed

EpKinds == {"local", "remote", "missing"}
ASSUME VipAssumption ==
    /\ \A s \in Services : \A spec \in SvcSpecs[s] :
          /\ spec # NoSvc
          /\ spec.adv \in SUBSET Vips /\ spec.noadv \in SUBSET Vips
          /\ spec.ext \subseteq spec.adv \cup spec.noadv
          /\ spec.local \in BOOLEAN
    /\ \A s \in Services : EpStates[s] \subseteq EpKinds
    /\ MaxVipChanges \in Nat

VARIABLES
    svcLister, epLister,
    svcEvents,      \* undelivered notifications: [old, new]
    epEvents,       \* undelivered notifications: the service of the Endpoints
    vipChanges,
    rib,            \* VIPs in GoBGP's global table
    prefixSet,      \* servicevipsdefinedset
    exported,       \* VIPs the peers have been sent
    vipPc,          \* per goroutine
    listed,         \* the services it has listed, between the two readings of
                    \* getActiveVIPs
    toAdvertise, toWithdraw, current, vipToAdd, vipToDelete,
                    \* its locals, empty again
                    \* once they have been read for the last time
    event,          \* the notification the service listener handles
    stale           \* history: the goroutines that still have to withdraw what they
                    \* began to choose before the services or endpoints last changed

listers == <<svcLister, epLister, svcEvents, epEvents, vipChanges>>
bgpVars == <<rib, prefixSet, exported>>
vipLocals == <<listed, toAdvertise, toWithdraw, current, vipToAdd, vipToDelete>>
vipVars == <<listers, bgpServerStarted, bgpVars, vipPc, vipLocals, event, stale>>

NoEvent == [old |-> NoSvc, new |-> NoSvc]
States(s) == SvcSpecs[s] \cup {NoSvc}
AllSpecs == UNION {States(s) : s \in Services}
VipProcs == {"svc", "ep", "main"}
AllOf(spec) == spec.adv \cup spec.noadv
PresentIn(svcs) == {s \in Services : svcs[s] # NoSvc}
PresentServices == PresentIn(svcLister)
NotListed == [s \in {} |-> NoSvc]

\* nodeHasEndpointsForService, consulted for local services only.
ErrorFor(svcs) == \E s \in PresentIn(svcs) : svcs[s].local /\ epLister[s] = "missing"
EndpointsError == ErrorFor(svcLister)
Advertises(svcs, s) == svcs[s].local => epLister[s] = "local"

\* getActiveVIPs of the listed services: what to advertise, and what to withdraw,
\* which never includes a VIP that another service advertises.
ActiveOf(svcs) == UNION {svcs[s].adv : s \in {s \in PresentIn(svcs) : Advertises(svcs, s)}}
ActiveVIPs == ActiveOf(svcLister)
MWithdrawnVIPs(svcs) ==
    UNION {IF Advertises(svcs, s) THEN svcs[s].noadv ELSE AllOf(svcs[s]) : s \in PresentIn(svcs)}
WithdrawnVIPs(svcs) ==
    (UNION {IF Advertises(svcs, s) THEN svcs[s].noadv ELSE AllOf(svcs[s]) :
               s \in PresentIn(svcs)}) \ ActiveOf(svcs)

\* getAllVIPs, whatever the endpoints.
AdvertisableVIPs == UNION {svcLister[s].adv : s \in PresentServices}

VipInit ==
    /\ svcLister \in {l \in [Services -> AllSpecs] : \A s \in Services : l[s] \in States(s)}
    /\ epLister \in {l \in [Services -> EpKinds] : \A s \in Services : l[s] \in EpStates[s]}
    /\ svcEvents = <<>>
    /\ epEvents = <<>>
    /\ vipChanges = 0
    /\ bgpServerStarted = FALSE
    /\ rib = {}
    /\ prefixSet = {}
    /\ exported = {}
    /\ vipPc = [p \in VipProcs |-> IF p = "main" THEN "start" ELSE "idle"]
    /\ listed = [p \in VipProcs |-> NotListed]
    /\ toAdvertise = [p \in VipProcs |-> {}]
    /\ toWithdraw = [p \in VipProcs |-> {}]
    /\ current = [p \in VipProcs |-> {}]
    /\ vipToAdd = [p \in VipProcs |-> {}]
    /\ vipToDelete = [p \in VipProcs |-> {}]
    /\ event = NoEvent
    /\ stale = {}

-----------------------------------------------------------------------------
(* Environment.                                                            *)

Deciding == {p \in VipProcs : listed[p] # NotListed \/ toWithdraw[p] # {}}

ServiceChanges(s, spec) ==
    /\ vipChanges < MaxVipChanges
    /\ svcLister[s] # spec
    /\ svcLister' = [svcLister EXCEPT ![s] = spec]
    /\ svcEvents' = Append(svcEvents, [old |-> svcLister[s], new |-> spec])
    /\ vipChanges' = vipChanges + 1
    /\ stale' = Deciding
    /\ UNCHANGED <<epLister, epEvents, bgpServerStarted, bgpVars, vipPc, vipLocals, event>>

EndpointsChange(s, eps) ==
    /\ vipChanges < MaxVipChanges
    /\ epLister[s] # eps
    /\ epLister' = [epLister EXCEPT ![s] = eps]
    \* nothing is done when an Endpoints object is deleted
    /\ epEvents' = IF eps = "missing" THEN epEvents ELSE Append(epEvents, s)
    /\ vipChanges' = vipChanges + 1
    /\ stale' = Deciding
    /\ UNCHANGED <<svcLister, svcEvents, bgpServerStarted, bgpVars, vipPc, vipLocals, event>>

-----------------------------------------------------------------------------
(* The steps shared by the three goroutines.                               *)

VipGoto(p, label) == vipPc' = [vipPc EXCEPT ![p] = label]
Cleared(list, p) == [list EXCEPT ![p] = {}]

\* getActiveVIPs lists the services, ...
ListServices(p) ==
    /\ vipPc[p] \in {"services", "active", "external"}
    /\ listed' = [listed EXCEPT ![p] = svcLister]
    /\ VipGoto(p, CASE vipPc[p] = "active" -> "activeEndpoints"
                    [] vipPc[p] = "external" -> "externalEndpoints"
                    [] OTHER -> "endpoints")
    /\ UNCHANGED <<listers, bgpServerStarted, stale, bgpVars, toAdvertise, toWithdraw, current,
                   vipToAdd, vipToDelete, event>>

\* ... then reads their endpoints: a goroutine has its list of what to withdraw, or
\* the error that empties it.
ChooseWithdrawn(p, list) ==
    /\ toWithdraw' = [toWithdraw EXCEPT ![p] = IF ErrorFor(listed[p]) THEN {} ELSE list]
    /\ listed' = [listed EXCEPT ![p] = NotListed]
    /\ stale' = IF toWithdraw'[p] = {} THEN stale \ {p} ELSE stale
    /\ UNCHANGED <<listers, bgpServerStarted, bgpVars, current, vipToAdd, vipToDelete>>

\* An error ends handleServiceUpdate; the loop goes on with empty lists.
AfterEndpoints(p) ==
    CASE p = "main" -> "advertise"
      [] p # "main" /\ ~ErrorFor(listed[p]) -> "list"
      [] p = "svc" /\ ErrorFor(listed[p]) /\ event.old # NoSvc -> "external"
      [] OTHER -> "idle"

EventOver(p, label) == event' = IF p = "svc" /\ label = "idle" THEN NoEvent ELSE event

ReadEndpoints(p) ==
    /\ vipPc[p] = "endpoints"
    /\ ChooseWithdrawn(p, WithdrawnVIPs(listed[p]))
    /\ toAdvertise' = [toAdvertise EXCEPT ![p] =
                          IF ErrorFor(listed[p]) THEN {} ELSE ActiveOf(listed[p])]
    /\ VipGoto(p, AfterEndpoints(p))
    /\ EventOver(p, AfterEndpoints(p))

\* addServiceVIPsDefinedSet: list the set, compare it with the listers, add what
\* is missing, delete what is not wanted.
ListVIPsDefinedSet(p) ==
    /\ vipPc[p] = "list"
    /\ current' = [current EXCEPT ![p] = prefixSet]
    /\ VipGoto(p, "compare")
    /\ UNCHANGED <<listers, bgpServerStarted, stale, bgpVars, listed, toAdvertise, toWithdraw,
                   vipToAdd, vipToDelete, event>>

ComparePrefixes(p) ==
    /\ vipPc[p] = "compare"
    /\ vipToAdd' = [vipToAdd EXCEPT ![p] = AdvertisableVIPs \ current[p]]
    /\ vipToDelete' = [vipToDelete EXCEPT ![p] = current[p] \ AdvertisableVIPs]
    /\ current' = Cleared(current, p)
    /\ VipGoto(p, "addSet")
    /\ UNCHANGED <<listers, bgpServerStarted, stale, bgpVars, listed, toAdvertise, toWithdraw,
                   event>>

AddVIPsDefinedSet(p) ==
    /\ vipPc[p] = "addSet"
    /\ prefixSet' = prefixSet \cup vipToAdd[p]
    /\ vipToAdd' = Cleared(vipToAdd, p)
    /\ VipGoto(p, "deleteSet")
    /\ UNCHANGED <<listers, bgpServerStarted, stale, rib, exported, listed, toAdvertise,
                   toWithdraw, current, vipToDelete, event>>

\* AddPolicies is followed by the deletion check of handleServiceDelete, by the
\* next pass of the loop, or by the advertisements of handleServiceUpdate.
AfterAddPolicies(p) ==
    CASE p = "svc" /\ event.new = NoSvc -> "active"
      [] p = "main" -> "services"
      [] OTHER -> "advertise"

DeleteVIPsDefinedSet(p) ==
    /\ vipPc[p] = "deleteSet"
    /\ prefixSet' = prefixSet \ vipToDelete[p]
    /\ vipToDelete' = Cleared(vipToDelete, p)
    /\ VipGoto(p, AfterAddPolicies(p))
    /\ UNCHANGED <<listers, bgpServerStarted, stale, rib, exported, listed, toAdvertise,
                   toWithdraw, current, vipToAdd, event>>

\* bgpAdvertiseVIP: AddPath, exported to the peers if the export policy accepts it.
advertiseVIPs(p) ==
    /\ vipPc[p] = "advertise"
    /\ rib' = rib \cup toAdvertise[p]
    /\ exported' = exported \cup (toAdvertise[p] \cap prefixSet)
    /\ toAdvertise' = Cleared(toAdvertise, p)
    /\ VipGoto(p, "withdraw")
    /\ UNCHANGED <<listers, bgpServerStarted, stale, prefixSet, listed, toWithdraw, current,
                   vipToAdd, vipToDelete, event>>

AfterWithdraw(p) ==
    CASE p = "main" -> "list"
      [] p = "svc" /\ event.old # NoSvc /\ event.new # NoSvc -> "external"
      [] OTHER -> "idle"

MWithdrawKeepsExport(p) ==
    /\ vipPc[p] = "withdraw"
    /\ rib' = rib \ toWithdraw[p]
    /\ VipGoto(p, AfterWithdraw(p))
    /\ UNCHANGED <<listers, bgpServerStarted, stale, prefixSet, exported, vipLocals, event>>

withdrawVIPs(p) ==
    /\ vipPc[p] = "withdraw"
    /\ rib' = rib \ toWithdraw[p]
    /\ exported' = exported \ toWithdraw[p]
    /\ toWithdraw' = Cleared(toWithdraw, p)
    /\ stale' = stale \ {p}
    /\ VipGoto(p, AfterWithdraw(p))
    /\ EventOver(p, AfterWithdraw(p))
    /\ UNCHANGED <<listers, bgpServerStarted, prefixSet, listed, toAdvertise, current, vipToAdd,
                   vipToDelete>>

-----------------------------------------------------------------------------
(* The service listener.                                                   *)

\* Nothing is done until the BGP server is started, save for the end of
\* OnServiceUpdate.
OnService ==
    /\ vipPc["svc"] = "idle"
    /\ svcEvents # <<>>
    /\ svcEvents' = Tail(svcEvents)
    /\ LET e == Head(svcEvents)
       IN \/ /\ bgpServerStarted
             /\ VipGoto("svc", IF e.new = NoSvc THEN "list" ELSE "services")
             /\ event' = e
          \/ /\ ~bgpServerStarted
             /\ IF e.new = NoSvc \/ e.old = NoSvc
                THEN UNCHANGED <<vipPc, event>>
                ELSE VipGoto("svc", "external") /\ event' = e
    /\ UNCHANGED <<svcLister, epLister, epEvents, vipChanges, bgpServerStarted, stale, bgpVars,
                   vipLocals>>

MDeleteWithdrawsAll ==
    /\ vipPc["svc"] = "activeEndpoints"
    /\ ChooseWithdrawn("svc", AllOf(event.old))
    /\ VipGoto("svc", "withdraw")
    /\ UNCHANGED <<toAdvertise, event>>


\* handleServiceDelete, after AddPolicies: only VIPs no other service uses.
handleServiceDelete ==
    /\ vipPc["svc"] = "activeEndpoints"
    /\ ChooseWithdrawn("svc", AllOf(event.old) \ ActiveOf(listed["svc"]))
    /\ VipGoto("svc", "withdraw")
    /\ UNCHANGED <<toAdvertise, event>>

\* The end of OnServiceUpdate: external IPs that the update has removed.
getExternalIPsToWithdraw ==
    /\ vipPc["svc"] = "externalEndpoints"
    /\ ChooseWithdrawn("svc", (event.old.ext \ event.new.ext) \ ActiveOf(listed["svc"]))
    /\ VipGoto("svc", "withdrawExternal")
    /\ UNCHANGED <<toAdvertise, event>>

\* This part does not ask whether the BGP server has been started.  A server that
\* startBgpServer has created, but not started, refuses DeletePath; before that
\* there is no server, and kube-router panics: what the goroutines had in memory is
\* lost, and a restarted one skips what the informers deliver before its start.
withdrawExternalIPs ==
    /\ vipPc["svc"] = "withdrawExternal"
    /\ \/ /\ bgpServerStarted
          /\ rib' = rib \ toWithdraw["svc"]
          /\ exported' = exported \ toWithdraw["svc"]
          /\ UNCHANGED <<svcEvents, epEvents>>
       \/ /\ ~bgpServerStarted
          /\ UNCHANGED <<rib, exported>>
          /\ \/ UNCHANGED <<svcEvents, epEvents>>
             \/ toWithdraw["svc"] # {} /\ svcEvents' = <<>> /\ epEvents' = <<>>
    /\ toWithdraw' = Cleared(toWithdraw, "svc")
    /\ stale' = stale \ {"svc"}
    /\ VipGoto("svc", "idle")
    /\ event' = NoEvent
    /\ UNCHANGED <<svcLister, epLister, vipChanges, bgpServerStarted, prefixSet, listed,
                   toAdvertise, current, vipToAdd, vipToDelete>>

-----------------------------------------------------------------------------
(* The endpoints listener and the periodic loop.                           *)

OnEndpoints ==
    /\ vipPc["ep"] = "idle"
    /\ epEvents # <<>>
    /\ epEvents' = Tail(epEvents)
    /\ IF bgpServerStarted /\ Head(epEvents) \in PresentServices
       THEN VipGoto("ep", "services")
       ELSE UNCHANGED vipPc
    /\ UNCHANGED <<svcLister, epLister, svcEvents, vipChanges, bgpServerStarted, stale, bgpVars,
                   vipLocals, event>>

\* startBgpServer succeeds, at the first attempt or at a later one, and the passes
\* of the loop begin.
BgpServerStarts ==
    /\ vipPc["main"] = "start"
    /\ bgpServerStarted' = TRUE
    /\ VipGoto("main", "services")
    /\ UNCHANGED <<listers, stale, bgpVars, vipLocals, event>>

-----------------------------------------------------------------------------
ApiChanges ==
    \E s \in Services : \/ \E spec \in States(s) : ServiceChanges(s, spec)
                        \/ \E eps \in EpStates[s] : EndpointsChange(s, eps)

Shared(p) ==
    \/ ListServices(p) \/ ReadEndpoints(p)
    \/ ListVIPsDefinedSet(p) \/ ComparePrefixes(p) \/ AddVIPsDefinedSet(p)
    \/ DeleteVIPsDefinedSet(p) \/ advertiseVIPs(p) \/ withdrawVIPs(p)

SvcListener == \/ OnService \/ handleServiceDelete \/ getExternalIPsToWithdraw
               \/ withdrawExternalIPs \/ Shared("svc")
EpListener == OnEndpoints \/ Shared("ep")
RunLoop == BgpServerStarts \/ Shared("main")

VipNext == ApiChanges \/ SvcListener \/ EpListener \/ RunLoop

\* Each goroutine runs on; none of them ever waits for another.
VipFairness == WF_vipVars(SvcListener) /\ WF_vipVars(EpListener) /\ WF_vipVars(RunLoop)

VipSpec == VipInit /\ [][VipNext]_vipVars
FairVipSpec == VipSpec /\ VipFairness

-----------------------------------------------------------------------------
VipTypeOK ==
    /\ \A s \in Services : svcLister[s] \in States(s) /\ epLister[s] \in EpStates[s]
    /\ vipChanges \in 0 .. MaxVipChanges
    /\ bgpServerStarted \in BOOLEAN
    /\ rib \in SUBSET Vips /\ prefixSet \in SUBSET Vips /\ exported \in SUBSET rib
    /\ vipPc \in [VipProcs -> {"start", "idle", "services", "endpoints", "list", "compare",
                               "addSet", "deleteSet", "active", "activeEndpoints", "advertise",
                               "withdraw", "external", "externalEndpoints",
                               "withdrawExternal"}]
    /\ \A p \in VipProcs : listed[p] = NotListed \/ \A s \in Services : listed[p][s] \in States(s)
    /\ \A p \in VipProcs : /\ toAdvertise[p] \cup toWithdraw[p] \in SUBSET Vips
                           /\ vipToAdd[p] \cup vipToDelete[p] \cup current[p] \in SUBSET Vips

KeepsActiveVips ==
    rib \cap ActiveVIPs \subseteq rib' /\ exported \cap ActiveVIPs \subseteq exported'
StaleWithdrawal ==
    \E p \in stale : vipPc[p] \in {"withdraw", "withdrawExternal"} /\ vipPc'[p] # vipPc[p]

\* A VIP that this node must advertise, on behalf of whichever service, is
\* withdrawn only by a goroutine that began to choose what to withdraw before the
\* services or endpoints last changed: updates, deletions, endpoints events and
\* passes of the loop never withdraw what is wanted as long as nothing changes
\* between their steps.
WithdrawnOnlyIfStale == [][KeepsActiveVips \/ StaleWithdrawal]_vipVars

\* Once the services and endpoints stop changing, every VIP that a service wants
\* this node to advertise is, and stays, exported to the peers, whatever stale
\* lists the three goroutines applied after one another and however long an
\* Endpoints object was missing.
ActiveVipsExported == <>[](EndpointsError \/ ActiveVIPs \subseteq exported)

\* Once the services stop changing, no VIP that no service has is advertised: the
\* handler of the service's deletion has withdrawn it for good.
DeletedVipsWithdrawn ==
    <>[](exported \subseteq UNION {AllOf(svcLister[s]) : s \in PresentServices})

=============================================================================
