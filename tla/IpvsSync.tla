------------------------------ MODULE IpvsSync ------------------------------
(***************************************************************************)
(* How the service proxy programs the kernel:                              *)
(* pkg/controllers/proxy/service_endpoints_sync.go (syncIpvsServices and   *)
(* what it calls) and network_service_graceful.go.                         *)
(*                                                                         *)
(* A sync runs under nsc.mu, so the service and endpoints maps change only *)
(* between syncs.  It sets up the cluster IP, node port and external IP    *)
(* services one after the other, notes what it has set up in the active    *)
(* map, and then removes from the dummy interface and from IPVS whatever   *)
(* the active map does not mention.  gracefulSync runs between syncs, in   *)
(* the same goroutine.                                                     *)
(*                                                                         *)
(* An IPVS service is known by a key: the VIP, the Kubernetes service (for *)
(* the protocol and port) and whether it is an FW mark service.            *)
(***************************************************************************)
EXTENDS Naturals, FiniteSets

CONSTANTS
    Services,
    Forms,          \* per service, the forms it may take:
                    \* [cip, node, ext, externalIPs, local, dsr]: cluster IP,
                    \* has a node port, extIPSet (external and load balancer
                    \* IPs), the external IPs among them, local traffic
                    \* policy, DSR
    Absent,         \* a service that is not in the service map
    NodeIP,
    Endpoints,
    LocalEndpoints, \* those on this node
    gracefulTermination,
    MaxChanges,     \* bound: changes of the maps
    MaxFaults,      \* bound: kernel calls that fail
    MaxRestarts     \* bound: restarts of the process

FormsOf(s) == Forms[s]
AllForms == UNION {FormsOf(s) : s \in Services}

ASSUME IpvsAssumption ==
    /\ \A f \in AllForms : /\ f # Absent
                           /\ f.node \in BOOLEAN /\ f.local \in BOOLEAN /\ f.dsr \in BOOLEAN
                           /\ f.externalIPs \subseteq f.ext
                           /\ f.cip # NodeIP /\ NodeIP \notin f.ext /\ f.cip \notin f.ext
    /\ LocalEndpoints \subseteq Endpoints
    /\ gracefulTermination \in BOOLEAN
    /\ MaxChanges \in Nat /\ MaxFaults \in Nat /\ MaxRestarts \in Nat

VARIABLES
    serviceMap,     \* Services -> a form or Absent
    endpointsMap,   \* Services -> a set of endpoints
    ipvsSvcs,       \* keys of the IPVS services
    weight,         \* per key and endpoint: "none", "zero" or "one"
    dummy,          \* addresses of the dummy interface
    mangle,         \* FW mark keys with a rule in the mangle table
    permitted,      \* keys in the ipsets of the IPVS firewall
    dsrRoutes,      \* addresses in the routing table for external IPs of DSR
    fwMarkMap,      \* FW mark keys the controller remembers
    gracefulQueue,  \* <<key, endpoint>> pairs to be deleted
    active,         \* keys of activeServiceEndpointMap
    activeEps,      \* its endpoints, per key
    todo,           \* services, or <<service, VIP>> pairs, the stage has left
    pc,
    changes, faults, restarts,
    clean           \* history: the last sync saw no failure, the maps have not
                    \* changed since it began, and gracefulSync has not deleted a
                    \* destination that had come back

kernel == <<ipvsSvcs, weight, dummy, mangle, permitted, dsrRoutes>>
maps == <<serviceMap, endpointsMap>>
local == <<active, activeEps, todo>>
bounds == <<changes, faults, restarts>>
vars == <<maps, kernel, fwMarkMap, gracefulQueue, local, pc, bounds, clean>>

Vips == UNION {{f.cip} \cup f.ext : f \in AllForms}
Keys == [vip : Vips \cup {NodeIP}, svc : Services, mark : BOOLEAN]
AddrKey(v, s) == [vip |-> v, svc |-> s, mark |-> FALSE]
MarkKey(v, s) == [vip |-> v, svc |-> s, mark |-> TRUE]
ExtKey(v, s) == [vip |-> v, svc |-> s, mark |-> serviceMap[s].dsr]

Present == {s \in Services : serviceMap[s] # Absent}
hasActiveEndpoints(s) == endpointsMap[s] \cap LocalEndpoints # {}

\* The endpoints of a cluster IP, which falls back to remote ones, and those of a
\* node port or an external IP.
MClusterEps(s) ==
    IF serviceMap[s].local THEN endpointsMap[s] \cap LocalEndpoints ELSE endpointsMap[s]
ClusterEps(s) ==
    IF serviceMap[s].local /\ hasActiveEndpoints(s)
    THEN endpointsMap[s] \cap LocalEndpoints ELSE endpointsMap[s]
IngressEps(s) ==
    IF serviceMap[s].local THEN endpointsMap[s] \cap LocalEndpoints ELSE endpointsMap[s]

\* Node ports and external IPs of a local service without local endpoints are
\* skipped.
HasIngress(s) == serviceMap[s].local => hasActiveEndpoints(s)
NodePortServices == {s \in Present : serviceMap[s].node /\ HasIngress(s)}
ExternalPairs ==
    UNION {{s} \X serviceMap[s].ext : s \in {s \in Present : HasIngress(s)}}

Init ==
    /\ serviceMap = [s \in Services |-> Absent]
    /\ endpointsMap \in [Services -> {{}, Endpoints}]  \* before, or after its service
    /\ ipvsSvcs = {} /\ dummy = {} /\ mangle = {} /\ permitted = {} /\ dsrRoutes = {}
    /\ weight = [k \in Keys |-> [e \in Endpoints |-> "none"]]
    /\ fwMarkMap = {}
    /\ gracefulQueue = {}
    /\ active = {}
    /\ activeEps = [k \in Keys |-> {}]
    /\ todo = {}
    /\ pc = "idle"
    /\ changes = 0 /\ faults = 0 /\ restarts = 0
    /\ clean = FALSE

-----------------------------------------------------------------------------
(* Between syncs.                                                          *)

ServiceChanges(s, form) ==
    /\ pc = "idle"
    /\ changes < MaxChanges
    /\ serviceMap[s] # form
    /\ serviceMap' = [serviceMap EXCEPT ![s] = form]
    /\ changes' = changes + 1
    /\ clean' = FALSE
    /\ UNCHANGED <<endpointsMap, kernel, fwMarkMap, gracefulQueue, local, pc, faults,
                   restarts>>

EndpointsChange(s, eps) ==
    /\ pc = "idle"
    /\ changes < MaxChanges
    /\ endpointsMap[s] # eps
    /\ endpointsMap' = [endpointsMap EXCEPT ![s] = eps]
    /\ changes' = changes + 1
    /\ clean' = FALSE
    /\ UNCHANGED <<serviceMap, kernel, fwMarkMap, gracefulQueue, local, pc, faults,
                   restarts>>

\* The process ends at any moment and is started again: the kernel keeps its
\* state, the marks and the queue are forgotten.
Restart ==
    /\ restarts < MaxRestarts
    /\ restarts' = restarts + 1
    /\ fwMarkMap' = {}
    /\ gracefulQueue' = {}
    /\ pc' = "idle"
    /\ active' = {} /\ todo' = {}
    /\ activeEps' = [k \in Keys |-> {}]
    /\ clean' = FALSE
    /\ UNCHANGED <<maps, kernel, changes, faults>>

-----------------------------------------------------------------------------
(* Kernel calls.                                                           *)

MayFail(fails) ==
    /\ fails => faults < MaxFaults
    /\ faults' = IF fails THEN faults + 1 ELSE faults
    /\ clean' = (clean /\ ~fails)

\* Addresses of the dummy interface; rules of the mangle table, all those of a mark.
ipAddrAdd(v) == dummy \cup {v}
ipAddrDel(v) == dummy \ {v}
setupMangleTableRule(k) == mangle \cup {k}
cleanupMangleTableRule(keys) == mangle \ keys

\* ipvsAddService, ipvsAddFWMarkService: a service that exists is updated.
WithService(k) == ipvsSvcs \cup {k}

\* ipvsAddServer for each of eps: a destination that exists gets its weight back.
WithServers(k, eps) ==
    [weight EXCEPT ![k] = [e \in Endpoints |-> IF e \in eps THEN "one" ELSE @[e]]]

\* The weight that ipvsDeleteDestination leaves.
ipvsDeleteDestination == IF gracefulTermination THEN "zero" ELSE "none"

\* The IPVS service and its servers for one key, noted in the active map.
SetUpKey(k, eps) ==
    /\ ipvsSvcs' = WithService(k)
    /\ weight' = WithServers(k, eps)
    /\ active' = active \cup {k}
    /\ activeEps' = [activeEps EXCEPT ![k] = eps]

-----------------------------------------------------------------------------
(* The stages of syncIpvsServices.  pc: "cluster", "node", "external",     *)
(* "ipvs", "firewall", "dsr".  An error of a stage is logged and the next  *)
(* one runs.                                                               *)

\* The error of an earlier sync is still set.
MErrorKept(listFails) ==
    /\ pc = "idle"
    /\ listFails => faults < MaxFaults
    /\ faults' = IF listFails THEN faults + 1 ELSE faults
    /\ clean' = (faults' = 0)
    /\ active' = {}
    /\ activeEps' = [k \in Keys |-> {}]
    /\ todo' = IF faults' > 0 THEN {} ELSE Present
    /\ pc' = "cluster"
    /\ UNCHANGED <<maps, kernel, fwMarkMap, gracefulQueue, changes, restarts>>

\* ipvsGetServices may fail, and then the whole stage is skipped.
SyncBegin(listFails) ==
    /\ pc = "idle"
    /\ listFails => faults < MaxFaults
    /\ faults' = IF listFails THEN faults + 1 ELSE faults
    /\ clean' = ~listFails
    /\ active' = {}
    /\ activeEps' = [k \in Keys |-> {}]
    /\ todo' = IF listFails THEN {} ELSE Present
    /\ pc' = "cluster"
    /\ UNCHANGED <<maps, kernel, fwMarkMap, gracefulQueue, changes, restarts>>

\* One service of setupClusterIPServices.  Without the dummy interface the stage ends;
\* without its address or its IPVS service the service is passed over; a server that
\* cannot be added is left out of the active map.  A failed call may be any of these.
ClusterService(s, outcome) ==
    LET k == AddrKey(serviceMap[s].cip, s) IN
    /\ pc = "cluster"
    /\ s \in todo
    /\ todo' = IF outcome = "interface" THEN {} ELSE todo \ {s}
    /\ MayFail(outcome # "ok")
    /\ dummy' = IF outcome \in {"interface", "address"} THEN dummy
                ELSE ipAddrAdd(serviceMap[s].cip)
    /\ CASE outcome \in {"interface", "address", "service"} ->
                UNCHANGED <<ipvsSvcs, weight, active, activeEps>>
         [] outcome = "ok" -> SetUpKey(k, ClusterEps(s))
         [] outcome = "server" ->
                \E e \in ClusterEps(s) : SetUpKey(k, ClusterEps(s) \ {e})
    /\ UNCHANGED <<maps, mangle, permitted, dsrRoutes, fwMarkMap, gracefulQueue, pc, changes,
                   restarts>>

NodeBegin(listFails) ==
    /\ pc = "cluster"
    /\ todo = {}
    /\ MayFail(listFails)
    /\ todo' = IF listFails THEN {} ELSE NodePortServices
    /\ pc' = "node"
    /\ UNCHANGED <<maps, kernel, fwMarkMap, gracefulQueue, active, activeEps, changes,
                   restarts>>

\* One service of setupNodePortServices, on the node's address.
NodePortService(s, outcome) ==
    LET k == AddrKey(NodeIP, s) IN
    /\ pc = "node"
    /\ s \in todo
    /\ todo' = todo \ {s}
    /\ MayFail(outcome # "ok")
    /\ CASE outcome = "service" -> UNCHANGED <<ipvsSvcs, weight, active, activeEps>>
         [] outcome = "ok" -> SetUpKey(k, IngressEps(s))
         [] outcome = "server" ->
                \E e \in IngressEps(s) : SetUpKey(k, IngressEps(s) \ {e})
    /\ UNCHANGED <<maps, dummy, mangle, permitted, dsrRoutes, fwMarkMap, gracefulQueue, pc, changes,
                   restarts>>

ExternalBegin ==
    /\ pc = "node"
    /\ todo = {}
    /\ todo' = ExternalPairs
    /\ pc' = "external"
    /\ UNCHANGED <<maps, kernel, fwMarkMap, gracefulQueue, active, activeEps, bounds,
                   clean>>

\* cleanupDSRService of the marks in keys: the mark is forgotten even when the
\* mangle table cannot be read or changed.
cleanupDSRService(keys, fails) ==
    /\ mangle' = IF fails THEN mangle ELSE cleanupMangleTableRule(keys \cap fwMarkMap)
    /\ fwMarkMap' = fwMarkMap \ keys

\* setupExternalIPForService: the address, the IPVS service, the end of an earlier
\* DSR set-up of this VIP, the servers.
ExternalIP(s, v, fails) ==
    /\ pc = "external"
    /\ <<s, v>> \in todo
    /\ ~serviceMap[s].dsr
    /\ MayFail(fails)
    /\ todo' = todo \ {<<s, v>>}
    /\ dummy' = ipAddrAdd(v)
    /\ SetUpKey(AddrKey(v, s), IngressEps(s))
    /\ cleanupDSRService({MarkKey(v, s)}, fails)
    /\ UNCHANGED <<maps, permitted, dsrRoutes, gracefulQueue, pc, changes, restarts>>

\* setupExternalIPForDSRService: the FW mark and its IPVS service, the mangle rule,
\* no address on the dummy interface, the servers.
ExternalIPForDSR(s, v) ==
    /\ pc = "external"
    /\ <<s, v>> \in todo
    /\ serviceMap[s].dsr
    /\ todo' = todo \ {<<s, v>>}
    /\ fwMarkMap' = fwMarkMap \cup {MarkKey(v, s)}
    /\ mangle' = setupMangleTableRule(MarkKey(v, s))
    /\ dummy' = ipAddrDel(v)
    /\ SetUpKey(MarkKey(v, s), IngressEps(s))
    /\ UNCHANGED <<maps, permitted, dsrRoutes, gracefulQueue, pc, bounds, clean>>

\* The calls of either that precede the one that fails have had their effect; the
\* error ends setupExternalIPServices, with this and the remaining VIPs missing
\* from the active map.
ExternalFails(s, v, calls) ==
    LET k == ExtKey(v, s) IN
    /\ pc = "external"
    /\ <<s, v>> \in todo
    /\ MayFail(TRUE)
    /\ ipvsSvcs' = IF calls >= 2 THEN WithService(k) ELSE ipvsSvcs
    /\ \E eps \in IF calls >= 4 THEN SUBSET IngressEps(s) ELSE {{}} :
          weight' = WithServers(k, eps)
    /\ IF k.mark
       THEN /\ fwMarkMap' = IF calls >= 1 THEN fwMarkMap \cup {k} ELSE fwMarkMap
            /\ mangle' = IF calls >= 3 THEN setupMangleTableRule(k) ELSE mangle
            /\ dummy' = IF calls >= 4 THEN ipAddrDel(v) ELSE dummy
       ELSE /\ dummy' = IF calls >= 1 THEN ipAddrAdd(v) ELSE dummy
            /\ cleanupDSRService(IF calls >= 3 THEN {MarkKey(v, s)} ELSE {}, FALSE)
    /\ todo' = {}
    /\ UNCHANGED <<maps, permitted, dsrRoutes, gracefulQueue, active, activeEps, pc, changes,
                   restarts>>

\* cleanupStaleVIPs: addresses of no active IP-based service.
CleanupStaleVIPs(fails) ==
    /\ pc = "external"
    /\ todo = {}
    /\ MayFail(fails)
    /\ dummy' = IF fails THEN dummy ELSE dummy \cap {k.vip : k \in {k \in active : ~k.mark}}
    /\ pc' = "ipvs"
    /\ UNCHANGED <<maps, ipvsSvcs, weight, mangle, permitted, dsrRoutes, fwMarkMap, gracefulQueue,
                   local, changes, restarts>>

\* Two FW mark services look alike to the queue: the kernel reports neither an
\* address nor a port for them.
SameJob(j1, j2) ==
    /\ j1[1] = j2[1] \/ (j1[1].mark /\ j2[1].mark)
    /\ j1[2] = j2[2]

addToGracefulQueue(jobs) ==
    \E new \in SUBSET jobs :
        /\ \A j \in new : \A q \in gracefulQueue \cup (new \ {j}) : ~SameJob(j, q)
        /\ \A j \in jobs : \E q \in gracefulQueue \cup new : SameJob(j, q)
        /\ gracefulQueue' = gracefulQueue \cup new

MCleanupEmptyToo(kept, dsrFails) ==
    LET stale == {k \in ipvsSvcs : k \notin active \/ activeEps[k] = {}} IN
    /\ pc = "ipvs"
    /\ kept = {} /\ ~dsrFails
    /\ ipvsSvcs' = ipvsSvcs \ stale
    /\ weight' = [k \in Keys |-> IF k \in stale THEN [e \in Endpoints |-> "none"]
                                 ELSE weight[k]]
    /\ pc' = "firewall"
    /\ UNCHANGED <<maps, dummy, permitted, dsrRoutes, mangle, fwMarkMap, gracefulQueue, local, bounds,
                   clean>>

\* cleanupStaleIPVSConfig: services that are not in the active map are deleted (a
\* remembered FW mark with its mangle rule), destinations that are not in it are
\* deleted or, under graceful termination, weighted zero and queued.  Deleting the
\* services in kept and the destinations in stuck fails.
CleanupStaleIPVSConfig(kept, dsrFails) ==
    LET stale == ipvsSvcs \ active
        gone == stale \ kept
        Invalid(k) == {e \in Endpoints : weight[k][e] # "none" /\ e \notin activeEps[k]}
        invalid == UNION {{k} \X Invalid(k) : k \in ipvsSvcs \cap active}
    IN
    /\ pc = "ipvs"
    /\ kept \subseteq stale
    /\ \E stuck \in SUBSET invalid :
          LET jobs == invalid \ stuck IN
          /\ MayFail(dsrFails \/ kept # {} \/ stuck # {})
          /\ weight' = [k \in Keys |-> [e \in Endpoints |->
                           CASE k \in gone -> "none"
                             [] <<k, e>> \in jobs -> ipvsDeleteDestination
                             [] OTHER -> weight[k][e]]]
          /\ IF gracefulTermination THEN addToGracefulQueue(jobs) ELSE UNCHANGED gracefulQueue
    /\ ipvsSvcs' = ipvsSvcs \ gone
    /\ cleanupDSRService(stale, dsrFails)
    /\ pc' = "firewall"
    /\ UNCHANGED <<maps, dummy, permitted, dsrRoutes, local, changes, restarts>>

CleanupListFails ==
    /\ pc = "ipvs"
    /\ MayFail(TRUE)
    /\ pc' = "firewall"
    /\ UNCHANGED <<maps, kernel, fwMarkMap, gracefulQueue, local, changes, restarts>>

\* syncIpvsFirewall: the ipsets are filled from the IPVS services; an FW mark
\* service the controller does not remember is left out.
SyncIpvsFirewall(fails) ==
    /\ pc = "firewall"
    /\ MayFail(fails)
    /\ permitted' = IF fails THEN permitted
                    ELSE {k \in ipvsSvcs : k.mark => k \in fwMarkMap}
    /\ pc' = "dsr"
    /\ UNCHANGED <<maps, ipvsSvcs, weight, dummy, mangle, dsrRoutes, fwMarkMap,
                   gracefulQueue, local, changes, restarts>>

\* setupForDSR: routes for the external IPs of DSR services, load balancer IPs not
\* among them, are added and stale ones deleted, except those in stuck, for which the
\* command fails.  (Whether a route is
\* there is decided by searching the listing for the text of the address; the model
\* has no address whose text is part of another one's.)
SetupForDSR(stuck) ==
    LET activeExternalIPs ==
            UNION {serviceMap[s].externalIPs : s \in {s \in Present : serviceMap[s].dsr}}
        missing == activeExternalIPs \ dsrRoutes
        stale == dsrRoutes \ activeExternalIPs
    IN
    /\ pc = "dsr"
    /\ stuck \subseteq missing \cup stale
    /\ MayFail(stuck # {})
    /\ dsrRoutes' = (dsrRoutes \cup (missing \ stuck)) \ (stale \ stuck)
    /\ pc' = "idle"
    /\ UNCHANGED <<maps, ipvsSvcs, weight, dummy, mangle, permitted, fwMarkMap,
                   gracefulQueue, local, changes, restarts>>

-----------------------------------------------------------------------------
(* gracefulSync: a queued destination is deleted, and its job dropped, when *)
(* it has no connection left or its period has passed, both of which the   *)
(* model leaves open.  Without a destination there are no statistics, so   *)
(* only the period counts; deleting it then fails and is logged.           *)
(* For an FW mark service the request goes to the service the job names.   *)

gracefulSync(ready) ==
    /\ pc = "idle"
    /\ gracefulTermination
    /\ ready # {}
    /\ ready \subseteq gracefulQueue
    /\ gracefulQueue' = gracefulQueue \ ready
    /\ weight' = [k \in Keys |-> [e \in Endpoints |->
                     IF <<k, e>> \in ready THEN "none" ELSE weight[k][e]]]
    /\ clean' = (clean /\ \A job \in ready : weight[job[1]][job[2]] # "one")
    /\ UNCHANGED <<maps, ipvsSvcs, dummy, mangle, permitted, dsrRoutes, fwMarkMap, local, pc, bounds>>

-----------------------------------------------------------------------------
Change ==
    \E s \in Services :
        \/ \E form \in FormsOf(s) \cup {Absent} : ServiceChanges(s, form)
        \/ \E eps \in SUBSET Endpoints : EndpointsChange(s, eps)

Sync ==
    \/ \E fails \in BOOLEAN : SyncBegin(fails) \/ NodeBegin(fails)
                              \/ CleanupStaleVIPs(fails) \/ SyncIpvsFirewall(fails)
    \/ \E s \in Services :
          \/ \E outcome \in {"ok", "interface", "address", "service", "server"} :
                ClusterService(s, outcome)
          \/ \E outcome \in {"ok", "service", "server"} : NodePortService(s, outcome)
          \/ \E v \in Vips : \/ \E fails \in BOOLEAN : ExternalIP(s, v, fails)
                             \/ ExternalIPForDSR(s, v)
                             \/ \E calls \in 0 .. 4 : ExternalFails(s, v, calls)
    \/ ExternalBegin
    \/ \E kept \in SUBSET ipvsSvcs, dsrFails \in BOOLEAN :
          CleanupStaleIPVSConfig(kept, dsrFails)
    \/ CleanupListFails
    \/ \E stuck \in SUBSET Vips : SetupForDSR(stuck)

Graceful == \E ready \in SUBSET gracefulQueue : gracefulSync(ready)

Next == Change \/ Restart \/ Sync \/ Graceful

\* Run's periodic ticker starts a sync again and again, and a queued destination's
\* period passes in the end.
Fairness == WF_vars(Sync) /\ SF_vars(gracefulSync(gracefulQueue))

Spec == Init /\ [][Next]_vars
FairSpec == Spec /\ Fairness

-----------------------------------------------------------------------------
TypeOK ==
    /\ serviceMap \in [Services -> AllForms \cup {Absent}]
    /\ \A s \in Services : serviceMap[s] \in FormsOf(s) \cup {Absent}
    /\ endpointsMap \in [Services -> SUBSET Endpoints]
    /\ ipvsSvcs \subseteq Keys /\ permitted \subseteq Keys /\ active \subseteq Keys
    /\ mangle \subseteq Keys /\ fwMarkMap \subseteq Keys
    /\ dummy \subseteq Vips /\ dsrRoutes \subseteq Vips
    /\ weight \in [Keys -> [Endpoints -> {"none", "zero", "one"}]]
    /\ activeEps \in [Keys -> SUBSET Endpoints]
    /\ gracefulQueue \subseteq Keys \X Endpoints
    /\ todo \subseteq Services \cup (Services \X Vips)
    /\ pc \in {"idle", "cluster", "node", "external", "ipvs", "firewall", "dsr"}
    /\ clean \in BOOLEAN

\* What the maps ask for, written down independently of the stages: the IPVS
\* services with their servers, the addresses, the marks.
Reachable(s) == serviceMap[s].local => \E e \in LocalEndpoints : e \in endpointsMap[s]
Wanted ==
    {k \in Keys :
        /\ serviceMap[k.svc] # Absent
        /\ LET f == serviceMap[k.svc] IN
           \/ k.vip = f.cip /\ ~k.mark
           \/ k.vip = NodeIP /\ ~k.mark /\ f.node /\ Reachable(k.svc)
           \/ k.vip \in f.ext /\ k.mark = f.dsr /\ Reachable(k.svc)}
WantedEps(k) ==
    {e \in endpointsMap[k.svc] :
        \/ ~serviceMap[k.svc].local
        \/ e \in LocalEndpoints
        \/ k.vip = serviceMap[k.svc].cip /\ LocalEndpoints \cap endpointsMap[k.svc] = {}}
DsrAddresses == {v \in Vips : \E s \in Services :
                    /\ serviceMap[s] # Absent /\ serviceMap[s].dsr
                    /\ v \in serviceMap[s].externalIPs}
WantedAddresses == {k.vip : k \in {k \in Wanted : ~k.mark /\ k.vip # NodeIP}}

Serving(k) == {e \in Endpoints : weight[k][e] = "one"}
Draining(k) == {e \in Endpoints : weight[k][e] = "zero"}

\* The kernel is what the maps ask for: no service, server, address or route is missing
\* and none is left over, except servers that are being drained.
InSync ==
    /\ ipvsSvcs = Wanted
    /\ permitted = Wanted
    /\ dummy = WantedAddresses
    /\ dsrRoutes = DsrAddresses
    /\ \A k \in Wanted : Serving(k) = WantedEps(k)
    /\ \A k \in Keys : Draining(k) # {} => gracefulTermination /\ k \in Wanted

\* A sync in which no kernel call failed leaves the kernel exactly as the maps ask,
\* until gracefulSync deletes a destination that has come back, whatever earlier syncs
\* that failed half-way, restarts and changes between DSR and ordinary services have
\* left behind.
CleanSyncIsExact == pc = "idle" /\ clean => InSync

\* As long as no call has failed, a service is deleted from IPVS only when it is not
\* there any more: neither the loss of its last endpoint nor a restart nor a change
\* of another service makes it flap.
WantedServiceKept ==
    [][faults' = 0 => \A k \in ipvsSvcs \ ipvsSvcs' : k \notin Wanted]_vars

\* Once the maps stop changing and calls stop failing, the kernel becomes and stays
\* what the maps ask for.
Converges == <>[](pc = "idle" => InSync)
=============================================================================
