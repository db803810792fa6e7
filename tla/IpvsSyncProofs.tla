--------------------------- MODULE IpvsSyncProofs ---------------------------
(***************************************************************************)
(* Proofs about IpvsSync, for every set of services, forms and endpoints   *)
(* and every number of changes, failures and restarts.                     *)
(***************************************************************************)
EXTENDS IpvsSync, TLAPS

\* What a stage has yet to do is in the maps.
StageInv ==
    /\ pc = "cluster" => todo \subseteq Present
    /\ pc = "node" => todo \subseteq NodePortServices
    /\ pc = "external" => todo \subseteq ExternalPairs
    /\ pc \in {"idle", "ipvs", "firewall", "dsr"} => todo = {}

\* Destinations belong to services, and only graceful termination drains them.
WeightInv ==
    \A k \in Keys, e \in Endpoints :
        /\ k \notin ipvsSvcs => weight[k][e] = "none"
        /\ weight[k][e] = "zero" => gracefulTermination

\* The sync under way has not failed if none has.
FaultInv == faults \in Nat /\ (faults = 0 /\ pc # "idle" => clean)

\* The wanted services that the stages have got to.
SetUp(k) ==
    LET f == serviceMap[k.svc] IN
    \/ k.vip = f.cip /\ (pc = "cluster" => k.svc \notin todo)
    \/ /\ k.vip = NodeIP /\ pc # "cluster"
       /\ pc = "node" => k.svc \notin todo
    \/ /\ k.vip \in f.ext /\ pc \notin {"cluster", "node"}
       /\ pc = "external" => <<k.svc, k.vip>> \notin todo

\* As long as no call fails, the active map has exactly those, with their endpoints, and
\* so has the kernel.
Programmed(k) ==
    /\ activeEps[k] = WantedEps(k)
    /\ k \in ipvsSvcs
    /\ \A e \in WantedEps(k) : weight[k][e] = "one"
    /\ k.mark => k \in fwMarkMap
ActiveInv ==
    clean /\ pc # "idle" => /\ active = {k \in Wanted : SetUp(k)}
                            /\ \A k \in active : Programmed(k)

\* The cleanup leaves nothing but what is wanted, then the firewall and the routes follow.
ServersExact ==
    /\ ipvsSvcs = Wanted
    /\ \A k \in Wanted : Serving(k) = WantedEps(k)
    /\ \A k \in Keys : Draining(k) # {} => gracefulTermination /\ k \in Wanted
SyncedInv ==
    clean => /\ pc \in {"firewall", "dsr", "idle"} => ServersExact
             /\ pc \in {"dsr", "idle"} => permitted = Wanted
             /\ pc = "idle" => dsrRoutes = DsrAddresses

IInv == TypeOK /\ StageInv /\ WeightInv /\ FaultInv /\ ActiveInv /\ SyncedInv

\* The addresses.  An address of a DSR service is taken off the dummy interface, so it
\* must not be that of another service that needs it there.
DsrAddressesApart ==
    \A s, t \in Services : \A f \in FormsOf(s), g \in FormsOf(t) :
        s # t /\ f.dsr => f.ext \cap ({g.cip} \cup IF g.dsr THEN {} ELSE g.ext) = {}
AddressInv ==
    clean => /\ pc \in {"cluster", "node", "external"} =>
                   \A k \in active : ~k.mark /\ k.vip # NodeIP => k.vip \in dummy
             /\ pc \in {"ipvs", "firewall", "dsr", "idle"} => dummy = WantedAddresses

USE IpvsAssumption DEF IpvsAssumption

-----------------------------------------------------------------------------
(* The keys and the endpoints of services.                                 *)

\* A service in the map has one of its forms, whose addresses are VIPs of its own.
LEMMA FormFacts ==
    ASSUME TypeOK, NEW s \in Present
    PROVE  LET f == serviceMap[s] IN
           /\ s \in Services /\ f \in FormsOf(s) /\ f \in AllForms /\ f # Absent
           /\ f.node \in BOOLEAN /\ f.local \in BOOLEAN /\ f.dsr \in BOOLEAN
           /\ f.cip \in Vips /\ f.ext \subseteq Vips /\ f.externalIPs \subseteq Vips
           /\ f.cip # NodeIP /\ NodeIP \notin f.ext /\ f.cip \notin f.ext
           /\ AddrKey(f.cip, s) \in Keys
  <1> DEFINE f == serviceMap[s]
  <1>1. s \in Services /\ f \in FormsOf(s) /\ f # Absent
    BY DEF TypeOK, Present
  <1>2. f \in AllForms
    BY <1>1 DEF AllForms
  <1>3. f.cip \in Vips /\ f.ext \subseteq Vips /\ f.externalIPs \subseteq Vips
    BY <1>2, IpvsAssumption DEF Vips
  <1>4. AddrKey(f.cip, s) \in Keys
    BY <1>1, <1>3 DEF AddrKey, Keys
  <1> QED
    BY <1>1, <1>2, <1>3, <1>4

\* The keys that the stages set up are keys.
LEMMA KeyFacts ==
    /\ \A s \in Services : AddrKey(NodeIP, s) \in Keys
    /\ \A s \in Services, v \in Vips : AddrKey(v, s) \in Keys /\ MarkKey(v, s) \in Keys
    /\ \A k \in Keys : k.svc \in Services /\ k.mark \in BOOLEAN /\ k.vip \in Vips \cup {NodeIP}
  BY DEF Keys, AddrKey, MarkKey

\* The endpoints of a service are endpoints.
LEMMA EpsFacts ==
    ASSUME TypeOK, NEW s \in Services
    PROVE  ClusterEps(s) \subseteq Endpoints /\ IngressEps(s) \subseteq Endpoints
  BY DEF TypeOK, ClusterEps, IngressEps

\* The two VIPs of what the external stage has left.
LEMMA PairFacts ==
    ASSUME TypeOK, NEW s, NEW v, <<s, v>> \in ExternalPairs
    PROVE  s \in Present /\ v \in serviceMap[s].ext /\ HasIngress(s)
  BY DEF ExternalPairs

\* What setting up a key changes.
LEMMA SetUpEffect ==
    ASSUME TypeOK, NEW k \in Keys, NEW eps \in SUBSET Endpoints, SetUpKey(k, eps)
    PROVE  /\ ipvsSvcs' = ipvsSvcs \cup {k} /\ ipvsSvcs' \subseteq Keys
           /\ weight' \in [Keys -> [Endpoints -> {"none", "zero", "one"}]]
           /\ \A e \in Endpoints : weight'[k][e] = IF e \in eps THEN "one" ELSE weight[k][e]
           /\ \A q \in Keys : q # k => weight'[q] = weight[q]
           /\ active' = active \cup {k} /\ active' \subseteq Keys
           /\ activeEps' \in [Keys -> SUBSET Endpoints]
           /\ activeEps'[k] = eps /\ \A q \in Keys : q # k => activeEps'[q] = activeEps[q]
  <1>1. weight \in [Keys -> [Endpoints -> {"none", "zero", "one"}]]
    BY DEF TypeOK
  <1> DEFINE w == [e \in Endpoints |-> IF e \in eps THEN "one" ELSE weight[k][e]]
  <1>2. weight' = [weight EXCEPT ![k] = w]
    BY DEF SetUpKey, WithServers
  <1>3. w \in [Endpoints -> {"none", "zero", "one"}]
    BY <1>1
  <1>4. /\ weight' \in [Keys -> [Endpoints -> {"none", "zero", "one"}]]
        /\ weight'[k] = w /\ \A q \in Keys : q # k => weight'[q] = weight[q]
    BY <1>1, <1>2, <1>3
  <1>5. /\ ipvsSvcs' = ipvsSvcs \cup {k} /\ ipvsSvcs' \subseteq Keys
        /\ active' = active \cup {k} /\ active' \subseteq Keys
        /\ activeEps' \in [Keys -> SUBSET Endpoints]
        /\ activeEps'[k] = eps /\ \A q \in Keys : q # k => activeEps'[q] = activeEps[q]
    BY DEF SetUpKey, WithService, TypeOK
  <1> QED
    BY <1>4, <1>5

\* The types of what setting up a key changes.
SetUpTypes ==
    /\ ipvsSvcs' \subseteq Keys /\ active' \subseteq Keys
    /\ weight' \in [Keys -> [Endpoints -> {"none", "zero", "one"}]]
    /\ activeEps' \in [Keys -> SUBSET Endpoints]

\* ... in every outcome of the cluster IP stage,
LEMMA ClusterTypes ==
    ASSUME TypeOK, StageInv, NEW s \in Services,
           NEW outcome \in {"ok", "interface", "address", "service", "server"},
           ClusterService(s, outcome)
    PROVE  SetUpTypes /\ s \in Present
  <1>1. s \in Present
    BY DEF ClusterService, StageInv
  <1> DEFINE k == AddrKey(serviceMap[s].cip, s)
  <1>2. k \in Keys /\ ClusterEps(s) \subseteq Endpoints
    BY <1>1, FormFacts, EpsFacts
  <1>3. CASE outcome \in {"interface", "address", "service"}
    <2>1. UNCHANGED <<ipvsSvcs, weight, active, activeEps>>
      BY <1>3 DEF ClusterService
    <2> QED
      BY <1>1, <2>1 DEF TypeOK, SetUpTypes
  <1>4. CASE outcome = "ok"
    <2>1. SetUpKey(k, ClusterEps(s))
      BY <1>4 DEF ClusterService
    <2> QED
      BY <1>1, <1>2, <2>1, SetUpEffect DEF SetUpTypes
  <1>5. CASE outcome = "server"
    <2>1. PICK e \in ClusterEps(s) : SetUpKey(k, ClusterEps(s) \ {e})
      BY <1>5 DEF ClusterService
    <2>2. ClusterEps(s) \ {e} \in SUBSET Endpoints
      BY <1>2
    <2> QED
      BY <1>1, <1>2, <2>1, <2>2, SetUpEffect DEF SetUpTypes
  <1> QED
    BY <1>1, <1>3, <1>4, <1>5

\* ... and of the node port stage.
LEMMA NodePortTypes ==
    ASSUME TypeOK, NEW s \in Services, NEW outcome \in {"ok", "service", "server"},
           NodePortService(s, outcome)
    PROVE  SetUpTypes
  <1> DEFINE k == AddrKey(NodeIP, s)
  <1>2. k \in Keys /\ IngressEps(s) \subseteq Endpoints
    BY KeyFacts, EpsFacts
  <1>3. CASE outcome = "service"
    BY <1>3 DEF NodePortService, TypeOK, SetUpTypes
  <1>4. CASE outcome = "ok"
    <2>1. SetUpKey(k, IngressEps(s))
      BY <1>4 DEF NodePortService
    <2> QED
      BY <1>2, <2>1, SetUpEffect DEF SetUpTypes
  <1>5. CASE outcome = "server"
    <2>1. PICK e \in IngressEps(s) : SetUpKey(k, IngressEps(s) \ {e})
      BY <1>5 DEF NodePortService
    <2>2. IngressEps(s) \ {e} \in SUBSET Endpoints
      BY <1>2
    <2> QED
      BY <1>2, <2>1, <2>2, SetUpEffect DEF SetUpTypes
  <1> QED
    BY <1>3, <1>4, <1>5

-----------------------------------------------------------------------------
\* Init establishes the invariant.
LEMMA InitInv == Init => IInv /\ AddressInv
  <1> SUFFICES ASSUME Init PROVE IInv /\ AddressInv
    OBVIOUS
  <1>1. TypeOK
    BY DEF Init, TypeOK
  <1>2. StageInv /\ WeightInv /\ FaultInv /\ ActiveInv /\ SyncedInv /\ AddressInv
    BY DEF Init, StageInv, WeightInv, FaultInv, ActiveInv, SyncedInv, AddressInv
  <1> QED
    BY <1>1, <1>2 DEF IInv

\* Every step keeps the types.
LEMMA TypeStep ==
    ASSUME TypeOK, StageInv, [Next]_vars
    PROVE  TypeOK'
  <1> USE DEF kernel, maps, local, bounds
  <1>1. ASSUME NEW s \in Services, NEW form \in FormsOf(s) \cup {Absent},
               ServiceChanges(s, form)
        PROVE  TypeOK'
    <2>1. form \in AllForms \cup {Absent}
      BY DEF AllForms
    <2> QED
      BY <1>1, <2>1 DEF ServiceChanges, TypeOK
  <1>2. ASSUME NEW s \in Services, NEW eps \in SUBSET Endpoints, EndpointsChange(s, eps)
        PROVE  TypeOK'
    BY <1>2 DEF EndpointsChange, MayFail, TypeOK
  <1>3. CASE Restart
    BY <1>3 DEF Restart, MayFail, TypeOK
  <1>4. ASSUME NEW fails \in BOOLEAN, SyncBegin(fails) PROVE TypeOK'
    BY <1>4 DEF SyncBegin, TypeOK, Present
  <1>5. ASSUME NEW fails \in BOOLEAN, NodeBegin(fails) PROVE TypeOK'
    BY <1>5 DEF NodeBegin, MayFail, TypeOK, NodePortServices, Present
  <1>6. ASSUME NEW fails \in BOOLEAN, CleanupStaleVIPs(fails) PROVE TypeOK'
    BY <1>6 DEF CleanupStaleVIPs, MayFail, TypeOK
  <1>7. ASSUME NEW fails \in BOOLEAN, SyncIpvsFirewall(fails) PROVE TypeOK'
    BY <1>7 DEF SyncIpvsFirewall, MayFail, TypeOK
  <1>8. ASSUME NEW s \in Services, NEW outcome \in {"ok", "interface", "address", "service", "server"},
               ClusterService(s, outcome)
        PROVE  TypeOK'
    <2>1. SetUpTypes /\ s \in Present
      BY <1>8, ClusterTypes
    <2>2. serviceMap[s].cip \in Vips
      BY <2>1, FormFacts
    <2> QED
      BY <1>8, <2>1, <2>2 DEF ClusterService, MayFail, ipAddrAdd, SetUpTypes, TypeOK
  <1>9. ASSUME NEW s \in Services, NEW outcome \in {"ok", "service", "server"},
               NodePortService(s, outcome)
        PROVE  TypeOK'
    <2>1. SetUpTypes
      BY <1>9, NodePortTypes
    <2> QED
      BY <1>9, <2>1 DEF NodePortService, MayFail, SetUpTypes, TypeOK
  <1>10. ASSUME NEW s \in Services, NEW v \in Vips, NEW fails \in BOOLEAN, ExternalIP(s, v, fails)
         PROVE  TypeOK'
    <2>1. AddrKey(v, s) \in Keys /\ IngressEps(s) \in SUBSET Endpoints
      BY KeyFacts, EpsFacts
    <2>2. SetUpKey(AddrKey(v, s), IngressEps(s))
      BY <1>10 DEF ExternalIP
    <2>3. SetUpTypes
      BY <2>1, <2>2, SetUpEffect DEF SetUpTypes
    <2> QED
      BY <1>10, <2>3 DEF ExternalIP, MayFail, ipAddrAdd, cleanupDSRService, cleanupMangleTableRule,
                         SetUpTypes, TypeOK
  <1>11. ASSUME NEW s \in Services, NEW v \in Vips, ExternalIPForDSR(s, v) PROVE TypeOK'
    <2>1. MarkKey(v, s) \in Keys /\ IngressEps(s) \in SUBSET Endpoints
      BY KeyFacts, EpsFacts
    <2>2. SetUpKey(MarkKey(v, s), IngressEps(s))
      BY <1>11 DEF ExternalIPForDSR
    <2>3. SetUpTypes
      BY <2>1, <2>2, SetUpEffect DEF SetUpTypes
    <2> QED
      BY <1>11, <2>1, <2>3 DEF ExternalIPForDSR, ipAddrDel, setupMangleTableRule, SetUpTypes, TypeOK
  <1>12. ASSUME NEW s \in Services, NEW v \in Vips, NEW calls \in 0 .. 4, ExternalFails(s, v, calls)
         PROVE  TypeOK'
    <2> DEFINE k == ExtKey(v, s)
    <2>1. s \in Present
      BY <1>12, PairFacts DEF ExternalFails, StageInv
    <2>2. k \in Keys
      BY <2>1, FormFacts DEF ExtKey, Keys
    <2>3. PICK eps \in SUBSET Endpoints : weight' = WithServers(k, eps)
      BY <1>12, EpsFacts DEF ExternalFails
    <2>4. weight' \in [Keys -> [Endpoints -> {"none", "zero", "one"}]]
      <3> DEFINE w == [e \in Endpoints |-> IF e \in eps THEN "one" ELSE weight[k][e]]
      <3>1. weight' = [weight EXCEPT ![k] = w]
        BY <2>3 DEF WithServers
      <3>2. w \in [Endpoints -> {"none", "zero", "one"}]
        BY <2>2 DEF TypeOK
      <3> HIDE DEF w, k
      <3> QED
        BY <3>1, <3>2 DEF TypeOK
    <2>5. /\ ipvsSvcs' \subseteq Keys /\ fwMarkMap' \subseteq Keys /\ mangle' \subseteq Keys
          /\ dummy' \subseteq Vips
      BY <1>12, <2>2 DEF ExternalFails, WithService, setupMangleTableRule, ipAddrAdd, ipAddrDel,
                         cleanupDSRService, cleanupMangleTableRule, TypeOK
    <2> QED
      BY <1>12, <2>4, <2>5 DEF ExternalFails, MayFail, TypeOK
  <1>13. CASE ExternalBegin
    <2>1. ExternalPairs \subseteq Services \X Vips
      BY FormFacts DEF ExternalPairs
    <2> QED
      BY <1>13, <2>1 DEF ExternalBegin, TypeOK
  <1>14. ASSUME NEW kept \in SUBSET ipvsSvcs, NEW dsrFails \in BOOLEAN,
                CleanupStaleIPVSConfig(kept, dsrFails)
         PROVE  TypeOK'
    <2> DEFINE gone == (ipvsSvcs \ active) \ kept
               Invalid(k) == {e \in Endpoints : weight[k][e] # "none" /\ e \notin activeEps[k]}
               invalid == UNION {{k} \X Invalid(k) : k \in ipvsSvcs \cap active}
    <2>1. PICK stuck \in SUBSET invalid :
             /\ weight' = [k \in Keys |-> [e \in Endpoints |->
                              CASE k \in gone -> "none"
                                [] <<k, e>> \in invalid \ stuck -> ipvsDeleteDestination
                                [] OTHER -> weight[k][e]]]
             /\ IF gracefulTermination THEN addToGracefulQueue(invalid \ stuck)
                ELSE UNCHANGED gracefulQueue
      BY <1>14 DEF CleanupStaleIPVSConfig
    <2>2. weight' \in [Keys -> [Endpoints -> {"none", "zero", "one"}]]
      <3>1. \A k \in Keys, e \in Endpoints :
               (CASE k \in gone -> "none"
                  [] <<k, e>> \in invalid \ stuck -> ipvsDeleteDestination
                  [] OTHER -> weight[k][e]) \in {"none", "zero", "one"}
        <4> HIDE DEF gone, invalid
        <4> QED
          BY DEF ipvsDeleteDestination, TypeOK
      <3> HIDE DEF gone, invalid
      <3> QED
        BY <2>1, <3>1
    <2>3. invalid \subseteq Keys \X Endpoints
      BY DEF TypeOK
    <2>4. gracefulQueue' \subseteq Keys \X Endpoints
      <3> HIDE DEF invalid
      <3> QED
        BY <2>1, <2>3 DEF addToGracefulQueue, TypeOK
    <2>5. ipvsSvcs' \subseteq Keys /\ fwMarkMap' \subseteq Keys /\ mangle' \subseteq Keys
      BY <1>14 DEF CleanupStaleIPVSConfig, cleanupDSRService, cleanupMangleTableRule, TypeOK
    <2>6. clean' \in BOOLEAN
      BY <1>14 DEF CleanupStaleIPVSConfig, MayFail, TypeOK
    <2> QED
      BY <1>14, <2>2, <2>4, <2>5, <2>6 DEF CleanupStaleIPVSConfig, TypeOK
  <1>15. CASE CleanupListFails
    BY <1>15 DEF CleanupListFails, MayFail, TypeOK
  <1>16. ASSUME NEW stuck \in SUBSET Vips, SetupForDSR(stuck) PROVE TypeOK'
    <2>1. UNION {serviceMap[s].externalIPs : s \in {s \in Present : serviceMap[s].dsr}} \subseteq Vips
      BY FormFacts
    <2> QED
      BY <1>16, <2>1 DEF SetupForDSR, MayFail, TypeOK
  <1>17. ASSUME NEW ready \in SUBSET gracefulQueue, gracefulSync(ready) PROVE TypeOK'
    BY <1>17 DEF gracefulSync, MayFail, TypeOK
  <1>18. CASE UNCHANGED vars
    BY <1>18 DEF vars, MayFail, TypeOK
  <1> QED
    BY <1>1, <1>2, <1>3, <1>4, <1>5, <1>6, <1>7, <1>8, <1>9, <1>10, <1>11, <1>12,
       <1>13, <1>14, <1>15, <1>16, <1>17, <1>18
    DEF Next, Change, Sync, Graceful

\* Every step keeps the stages to what is in the maps.
LEMMA StageStep ==
    ASSUME TypeOK, StageInv, [Next]_vars
    PROVE  StageInv'
  <1> USE DEF kernel, maps, local, bounds
  <1> DEFINE MapsKept == UNCHANGED <<serviceMap, endpointsMap>>
  <1>0. ASSUME MapsKept
        PROVE  /\ Present' = Present /\ NodePortServices' = NodePortServices
               /\ ExternalPairs' = ExternalPairs
    BY <1>0 DEF Present, NodePortServices, ExternalPairs, HasIngress, hasActiveEndpoints
  <1>1. ASSUME NEW s \in Services, NEW form \in FormsOf(s) \cup {Absent},
               ServiceChanges(s, form)
        PROVE  StageInv'
    BY <1>1, <1>0 DEF ServiceChanges, StageInv
  <1>2. ASSUME NEW s \in Services, NEW eps \in SUBSET Endpoints, EndpointsChange(s, eps)
        PROVE  StageInv'
    BY <1>2, <1>0 DEF EndpointsChange, StageInv
  <1>3. CASE Restart
    BY <1>3, <1>0 DEF Restart, StageInv
  <1>4. ASSUME NEW fails \in BOOLEAN, SyncBegin(fails) PROVE StageInv'
    BY <1>4, <1>0 DEF SyncBegin, StageInv
  <1>5. ASSUME NEW fails \in BOOLEAN, NodeBegin(fails) PROVE StageInv'
    BY <1>5, <1>0 DEF NodeBegin, StageInv
  <1>6. ASSUME NEW fails \in BOOLEAN, CleanupStaleVIPs(fails) PROVE StageInv'
    BY <1>6, <1>0 DEF CleanupStaleVIPs, StageInv
  <1>7. ASSUME NEW fails \in BOOLEAN, SyncIpvsFirewall(fails) PROVE StageInv'
    BY <1>7, <1>0 DEF SyncIpvsFirewall, StageInv
  <1>8. ASSUME NEW s \in Services, NEW outcome \in {"ok", "interface", "address", "service", "server"},
               ClusterService(s, outcome)
        PROVE  StageInv'
    BY <1>8, <1>0 DEF ClusterService, StageInv
  <1>9. ASSUME NEW s \in Services, NEW outcome \in {"ok", "service", "server"},
               NodePortService(s, outcome)
        PROVE  StageInv'
    BY <1>9, <1>0 DEF NodePortService, StageInv
  <1>10. ASSUME NEW s \in Services, NEW v \in Vips, NEW fails \in BOOLEAN, ExternalIP(s, v, fails)
         PROVE  StageInv'
    BY <1>10, <1>0 DEF ExternalIP, StageInv
  <1>11. ASSUME NEW s \in Services, NEW v \in Vips, ExternalIPForDSR(s, v) PROVE StageInv'
    BY <1>11, <1>0 DEF ExternalIPForDSR, StageInv
  <1>12. ASSUME NEW s \in Services, NEW v \in Vips, NEW calls \in 0 .. 4, ExternalFails(s, v, calls)
         PROVE  StageInv'
    BY <1>12, <1>0 DEF ExternalFails, StageInv
  <1>13. CASE ExternalBegin
    BY <1>13, <1>0 DEF ExternalBegin, StageInv
  <1>14. ASSUME NEW kept \in SUBSET ipvsSvcs, NEW dsrFails \in BOOLEAN,
                CleanupStaleIPVSConfig(kept, dsrFails)
         PROVE  StageInv'
    BY <1>14, <1>0 DEF CleanupStaleIPVSConfig, StageInv
  <1>15. CASE CleanupListFails
    BY <1>15, <1>0 DEF CleanupListFails, StageInv
  <1>16. ASSUME NEW stuck \in SUBSET Vips, SetupForDSR(stuck) PROVE StageInv'
    BY <1>16, <1>0 DEF SetupForDSR, StageInv
  <1>17. ASSUME NEW ready \in SUBSET gracefulQueue, gracefulSync(ready) PROVE StageInv'
    BY <1>17, <1>0 DEF gracefulSync, StageInv
  <1>18. CASE UNCHANGED vars
    BY <1>18, <1>0 DEF vars, StageInv
  <1> QED
    BY <1>1, <1>2, <1>3, <1>4, <1>5, <1>6, <1>7, <1>8, <1>9, <1>10, <1>11, <1>12,
       <1>13, <1>14, <1>15, <1>16, <1>17, <1>18
    DEF Next, Change, Sync, Graceful

-----------------------------------------------------------------------------
\* Setting up a key keeps destinations with services.
LEMMA SetUpWeight ==
    ASSUME TypeOK, WeightInv, NEW k \in Keys, NEW eps \in SUBSET Endpoints, SetUpKey(k, eps)
    PROVE  WeightInv'
  <1>1. /\ ipvsSvcs' = ipvsSvcs \cup {k}
        /\ \A e \in Endpoints : weight'[k][e] = IF e \in eps THEN "one" ELSE weight[k][e]
        /\ \A q \in Keys : q # k => weight'[q] = weight[q]
    BY SetUpEffect
  <1> SUFFICES ASSUME NEW q \in Keys, NEW e \in Endpoints
               PROVE  /\ q \notin ipvsSvcs' => weight'[q][e] = "none"
                      /\ weight'[q][e] = "zero" => gracefulTermination
    BY DEF WeightInv
  <1>2. CASE q = k
    BY <1>1, <1>2 DEF WeightInv
  <1>3. CASE q # k
    BY <1>1, <1>3 DEF WeightInv
  <1> QED
    BY <1>2, <1>3

\* A call that may fail.
LEMMA MayFailEffect ==
    ASSUME clean \in BOOLEAN, NEW fails \in BOOLEAN, MayFail(fails)
    PROVE  \/ fails /\ faults' = faults + 1 /\ clean' = FALSE
           \/ ~fails /\ faults' = faults /\ clean' = clean
  <1>1. CASE fails
    <2>1. faults' = faults + 1
      BY <1>1 DEF MayFail
    <2>2. clean' = FALSE
      BY <1>1 DEF MayFail
    <2> QED
      BY <1>1, <2>1, <2>2
  <1>2. CASE ~fails
    <2>1. faults' = faults
      BY <1>2 DEF MayFail
    <2>2. clean' = clean
      BY <1>2 DEF MayFail
    <2> QED
      BY <1>2, <2>1, <2>2
  <1> QED
    BY <1>1, <1>2

\* A destination of an active service that is not among its active endpoints.
Invalid(k, e) == k \in ipvsSvcs \cap active /\ weight[k][e] # "none" /\ e \notin activeEps[k]

\* What the cleanup of the IPVS configuration does to services and destinations.
CleanedUp(gone) ==
    /\ ipvsSvcs' = ipvsSvcs \ gone
    /\ fwMarkMap' = fwMarkMap \ (ipvsSvcs \ active)
    /\ \A k \in Keys, e \in Endpoints :
          /\ k \in gone => weight'[k][e] = "none"
          /\ k \notin gone => \/ weight'[k][e] = weight[k][e]
                              \/ Invalid(k, e) /\ weight'[k][e] = ipvsDeleteDestination
          /\ clean' /\ Invalid(k, e) => weight'[k][e] = ipvsDeleteDestination

\* cleanupStaleIPVSConfig does that, and a sync that stays clean kept nothing stale.
LEMMA CleanupStep ==
    ASSUME TypeOK, NEW kept \in SUBSET ipvsSvcs, NEW dsrFails \in BOOLEAN,
           CleanupStaleIPVSConfig(kept, dsrFails)
    PROVE  /\ CleanedUp((ipvsSvcs \ active) \ kept)
           /\ clean' => clean /\ kept = {}
           /\ faults' = 0 => faults = 0 \/ faults \notin Nat
  <1> DEFINE gone == (ipvsSvcs \ active) \ kept
             InvalidOf(k) == {e \in Endpoints : weight[k][e] # "none" /\ e \notin activeEps[k]}
             invalid == UNION {{k} \X InvalidOf(k) : k \in ipvsSvcs \cap active}
  <1>1. PICK stuck \in SUBSET invalid :
          /\ MayFail(dsrFails \/ kept # {} \/ stuck # {})
          /\ weight' = [k \in Keys |-> [e \in Endpoints |->
                              CASE k \in gone -> "none"
                                [] <<k, e>> \in invalid \ stuck -> ipvsDeleteDestination
                                [] OTHER -> weight[k][e]]]
    BY DEF CleanupStaleIPVSConfig
  <1>2. ipvsSvcs' = ipvsSvcs \ gone /\ fwMarkMap' = fwMarkMap \ (ipvsSvcs \ active)
    BY DEF CleanupStaleIPVSConfig, cleanupDSRService
  <1>3. \A k \in Keys, e \in Endpoints : <<k, e>> \in invalid <=> Invalid(k, e)
    BY DEF Invalid
  <1>4. \A k \in Keys, e \in Endpoints : k \in gone => ~Invalid(k, e)
    BY DEF Invalid
  <1>5. /\ clean' => clean /\ kept = {} /\ stuck = {}
        /\ faults' = 0 => faults = 0 \/ faults \notin Nat
    <2>1. clean \in BOOLEAN /\ (dsrFails \/ kept # {} \/ stuck # {}) \in BOOLEAN
      BY DEF TypeOK
    <2>2. CASE dsrFails \/ kept # {} \/ stuck # {}
      <3>1. clean' = FALSE /\ faults' = faults + 1
        BY <1>1, <2>1, <2>2, MayFailEffect
      <3> QED
        BY <3>1
    <2>3. CASE ~(dsrFails \/ kept # {} \/ stuck # {})
      <3>1. clean' = clean /\ faults' = faults
        BY <1>1, <2>1, <2>3, MayFailEffect
      <3> QED
        BY <2>3, <3>1
    <2> QED
      BY <2>2, <2>3
  <1>6. ASSUME NEW k \in Keys, NEW e \in Endpoints
        PROVE  /\ k \in gone => weight'[k][e] = "none"
               /\ k \notin gone => \/ weight'[k][e] = weight[k][e]
                                   \/ Invalid(k, e) /\ weight'[k][e] = ipvsDeleteDestination
               /\ clean' /\ Invalid(k, e) => weight'[k][e] = ipvsDeleteDestination
    <2> HIDE DEF gone, invalid
    <2>1. weight'[k][e] = CASE k \in gone -> "none"
                            [] <<k, e>> \in invalid \ stuck -> ipvsDeleteDestination
                            [] OTHER -> weight[k][e]
      BY <1>1
    <2>2. CASE k \in gone
      <3>1. <<k, e>> \notin invalid
        BY <1>3, <1>4, <2>2
      <3> QED
        BY <1>3, <2>1, <2>2, <3>1
    <2>3. CASE k \notin gone /\ <<k, e>> \in invalid \ stuck
      <3>1. weight'[k][e] = ipvsDeleteDestination
        BY <2>1, <2>3
      <3> QED
        BY <1>3, <2>3, <3>1
    <2>4. CASE k \notin gone /\ <<k, e>> \notin invalid \ stuck
      <3>1. weight'[k][e] = weight[k][e]
        BY <2>1, <2>4
      <3>2. ~(clean' /\ Invalid(k, e))
        BY <1>3, <1>5, <2>4
      <3> QED
        BY <2>4, <3>1, <3>2
    <2> QED
      BY <2>2, <2>3, <2>4
  <1> QED
    BY <1>2, <1>5, <1>6 DEF CleanedUp

\* Every step keeps destinations with services.
LEMMA WeightStep ==
    ASSUME TypeOK, StageInv, WeightInv, [Next]_vars
    PROVE  WeightInv'
  <1> USE DEF kernel, maps, local, bounds
  <1>1. ASSUME NEW s \in Services, NEW form \in FormsOf(s) \cup {Absent},
               ServiceChanges(s, form)
        PROVE  WeightInv'
    BY <1>1 DEF ServiceChanges, WeightInv
  <1>2. ASSUME NEW s \in Services, NEW eps \in SUBSET Endpoints, EndpointsChange(s, eps)
        PROVE  WeightInv'
    BY <1>2 DEF EndpointsChange, WeightInv
  <1>3. CASE Restart
    BY <1>3 DEF Restart, WeightInv
  <1>4. ASSUME NEW fails \in BOOLEAN, SyncBegin(fails) PROVE WeightInv'
    BY <1>4 DEF SyncBegin, WeightInv
  <1>5. ASSUME NEW fails \in BOOLEAN, NodeBegin(fails) PROVE WeightInv'
    BY <1>5 DEF NodeBegin, WeightInv
  <1>6. ASSUME NEW fails \in BOOLEAN, CleanupStaleVIPs(fails) PROVE WeightInv'
    BY <1>6 DEF CleanupStaleVIPs, WeightInv
  <1>7. ASSUME NEW fails \in BOOLEAN, SyncIpvsFirewall(fails) PROVE WeightInv'
    BY <1>7 DEF SyncIpvsFirewall, WeightInv
  <1>8. ASSUME NEW s \in Services, NEW outcome \in {"ok", "interface", "address", "service", "server"},
               ClusterService(s, outcome)
        PROVE  WeightInv'
    <2> DEFINE k == AddrKey(serviceMap[s].cip, s)
    <2>1. k \in Keys /\ ClusterEps(s) \subseteq Endpoints
      <3>1. s \in Present
        BY <1>8, ClusterTypes
      <3> QED
        BY <3>1, FormFacts, EpsFacts
    <2>2. CASE outcome \in {"interface", "address", "service"}
      <3>1. UNCHANGED <<ipvsSvcs, weight>>
        BY <1>8, <2>2 DEF ClusterService
      <3> QED
        BY <3>1 DEF WeightInv
    <2>3. CASE outcome = "ok"
      <3>1. SetUpKey(k, ClusterEps(s))
        BY <1>8, <2>3 DEF ClusterService
      <3> QED
        BY <2>1, <3>1, SetUpWeight
    <2>4. CASE outcome = "server"
      <3>1. PICK e \in ClusterEps(s) : SetUpKey(k, ClusterEps(s) \ {e})
        BY <1>8, <2>4 DEF ClusterService
      <3>2. ClusterEps(s) \ {e} \in SUBSET Endpoints
        BY <2>1
      <3> QED
        BY <2>1, <3>1, <3>2, SetUpWeight
    <2> QED
      BY <2>2, <2>3, <2>4
  <1>9. ASSUME NEW s \in Services, NEW outcome \in {"ok", "service", "server"},
               NodePortService(s, outcome)
        PROVE  WeightInv'
    <2> DEFINE k == AddrKey(NodeIP, s)
    <2>1. k \in Keys /\ IngressEps(s) \subseteq Endpoints
      BY KeyFacts, EpsFacts
    <2>2. CASE outcome = "service"
      <3>1. UNCHANGED <<ipvsSvcs, weight>>
        BY <1>9, <2>2 DEF NodePortService
      <3> QED
        BY <3>1 DEF WeightInv
    <2>3. CASE outcome = "ok"
      <3>1. SetUpKey(k, IngressEps(s))
        BY <1>9, <2>3 DEF NodePortService
      <3> QED
        BY <2>1, <3>1, SetUpWeight
    <2>4. CASE outcome = "server"
      <3>1. PICK e \in IngressEps(s) : SetUpKey(k, IngressEps(s) \ {e})
        BY <1>9, <2>4 DEF NodePortService
      <3>2. IngressEps(s) \ {e} \in SUBSET Endpoints
        BY <2>1
      <3> QED
        BY <2>1, <3>1, <3>2, SetUpWeight
    <2> QED
      BY <2>2, <2>3, <2>4
  <1>10. ASSUME NEW s \in Services, NEW v \in Vips, NEW fails \in BOOLEAN, ExternalIP(s, v, fails)
         PROVE  WeightInv'
    <2>1. SetUpKey(AddrKey(v, s), IngressEps(s))
      BY <1>10 DEF ExternalIP
    <2> QED
      BY <2>1, KeyFacts, EpsFacts, SetUpWeight
  <1>11. ASSUME NEW s \in Services, NEW v \in Vips, ExternalIPForDSR(s, v) PROVE WeightInv'
    <2>1. SetUpKey(MarkKey(v, s), IngressEps(s))
      BY <1>11 DEF ExternalIPForDSR
    <2> QED
      BY <2>1, KeyFacts, EpsFacts, SetUpWeight
  <1>12. ASSUME NEW s \in Services, NEW v \in Vips, NEW calls \in 0 .. 4, ExternalFails(s, v, calls)
         PROVE  WeightInv'
    <2> DEFINE k == ExtKey(v, s)
    <2>1. s \in Present
      BY <1>12, PairFacts DEF ExternalFails, StageInv
    <2>2. k \in Keys
      BY <2>1, FormFacts DEF ExtKey, Keys
    <2>3. PICK eps \in IF calls >= 4 THEN SUBSET IngressEps(s) ELSE {{}} : weight' = WithServers(k, eps)
      BY <1>12 DEF ExternalFails
    <2>4. ipvsSvcs' = IF calls >= 2 THEN ipvsSvcs \cup {k} ELSE ipvsSvcs
      BY <1>12 DEF ExternalFails, WithService
    <2>5. \A e \in Endpoints : weight'[k][e] = IF e \in eps THEN "one" ELSE weight[k][e]
      <3> HIDE DEF k
      <3> QED
        BY <2>2, <2>3 DEF WithServers, TypeOK
    <2>6. \A q \in Keys : q # k => weight'[q] = weight[q]
      <3> HIDE DEF k
      <3> QED
        BY <2>2, <2>3 DEF WithServers, TypeOK
    <2> SUFFICES ASSUME NEW q \in Keys, NEW e \in Endpoints
                 PROVE  /\ q \notin ipvsSvcs' => weight'[q][e] = "none"
                        /\ weight'[q][e] = "zero" => gracefulTermination
      BY DEF WeightInv
    <2>7. CASE q = k
      <3>1. calls < 2 => eps = {}
        BY <2>3
      <3> HIDE DEF k
      <3> QED
        BY <2>2, <2>4, <2>5, <2>7, <3>1 DEF WeightInv
    <2>8. CASE q # k
      <3> HIDE DEF k
      <3> QED
        BY <2>4, <2>6, <2>8 DEF WeightInv
    <2> QED
      BY <2>7, <2>8
  <1>13. CASE ExternalBegin
    BY <1>13 DEF ExternalBegin, WeightInv
  <1>14. ASSUME NEW kept \in SUBSET ipvsSvcs, NEW dsrFails \in BOOLEAN,
                CleanupStaleIPVSConfig(kept, dsrFails)
         PROVE  WeightInv'
    <2> SUFFICES ASSUME NEW q \in Keys, NEW e \in Endpoints
                 PROVE  /\ q \notin ipvsSvcs' => weight'[q][e] = "none"
                        /\ weight'[q][e] = "zero" => gracefulTermination
      BY DEF WeightInv
    <2> DEFINE gone == (ipvsSvcs \ active) \ kept
    <2>0. CleanedUp(gone)
      BY <1>14, CleanupStep
    <2>1. /\ ipvsSvcs' = ipvsSvcs \ gone
          /\ q \in gone => weight'[q][e] = "none"
          /\ q \notin gone => \/ weight'[q][e] = weight[q][e]
                              \/ Invalid(q, e) /\ weight'[q][e] = ipvsDeleteDestination
      <3> HIDE DEF gone
      <3> QED
        BY <2>0 DEF CleanedUp
    <2>2. ipvsDeleteDestination = "none" \/ (ipvsDeleteDestination = "zero" /\ gracefulTermination)
      BY DEF ipvsDeleteDestination
    <2>3. Invalid(q, e) => q \in ipvsSvcs
      BY DEF Invalid
    <2> QED
      BY <2>1, <2>2, <2>3 DEF WeightInv
  <1>15. CASE CleanupListFails
    BY <1>15 DEF CleanupListFails, WeightInv
  <1>16. ASSUME NEW stuck \in SUBSET Vips, SetupForDSR(stuck) PROVE WeightInv'
    BY <1>16 DEF SetupForDSR, WeightInv
  <1>17. ASSUME NEW ready \in SUBSET gracefulQueue, gracefulSync(ready) PROVE WeightInv'
    <2> SUFFICES ASSUME NEW q \in Keys, NEW e \in Endpoints
                 PROVE  /\ q \notin ipvsSvcs' => weight'[q][e] = "none"
                        /\ weight'[q][e] = "zero" => gracefulTermination
      BY DEF WeightInv
    <2>1. weight'[q][e] = IF <<q, e>> \in ready THEN "none" ELSE weight[q][e]
      BY <1>17 DEF gracefulSync
    <2> QED
      BY <1>17, <2>1 DEF gracefulSync, WeightInv
  <1>18. CASE UNCHANGED vars
    BY <1>18 DEF vars, WeightInv
  <1> QED
    BY <1>1, <1>2, <1>3, <1>4, <1>5, <1>6, <1>7, <1>8, <1>9, <1>10, <1>11, <1>12,
       <1>13, <1>14, <1>15, <1>16, <1>17, <1>18
    DEF Next, Change, Sync, Graceful

\* A sync has failed only if a call has.
LEMMA MayFailFault ==
    ASSUME clean \in BOOLEAN, FaultInv, pc # "idle", NEW fails \in BOOLEAN, MayFail(fails)
    PROVE  FaultInv'
  <1>1. CASE fails
    <2>1. faults' = faults + 1
      BY <1>1 DEF MayFail
    <2> QED
      BY <2>1 DEF FaultInv
  <1>2. CASE ~fails
    BY <1>2, MayFailEffect DEF FaultInv
  <1> QED
    BY <1>1, <1>2

\* Every step keeps the count of failures in line with the history of the sync.
LEMMA FaultStep ==
    ASSUME TypeOK, FaultInv, [Next]_vars
    PROVE  FaultInv'
  <1> USE DEF kernel, maps, local, bounds
  <1>0. clean \in BOOLEAN
    BY DEF TypeOK
  <1>1. ASSUME NEW s \in Services, NEW form \in FormsOf(s) \cup {Absent},
               ServiceChanges(s, form)
        PROVE  FaultInv'
    BY <1>1 DEF ServiceChanges, FaultInv
  <1>2. ASSUME NEW s \in Services, NEW eps \in SUBSET Endpoints, EndpointsChange(s, eps)
        PROVE  FaultInv'
    BY <1>2 DEF EndpointsChange, FaultInv
  <1>3. CASE Restart
    BY <1>3 DEF Restart, FaultInv
  <1>4. ASSUME NEW fails \in BOOLEAN, SyncBegin(fails) PROVE FaultInv'
    <2>1. CASE fails
      BY <1>4, <2>1 DEF SyncBegin, FaultInv
    <2>2. CASE ~fails
      <3>1. faults' = faults
        BY <1>4, <2>2 DEF SyncBegin
      <3>2. clean' = TRUE
        BY <1>4, <2>2 DEF SyncBegin
      <3> QED
        BY <3>1, <3>2 DEF FaultInv
    <2> QED
      BY <2>1, <2>2
  <1>5. ASSUME NEW fails \in BOOLEAN, NodeBegin(fails) PROVE FaultInv'
    BY <1>5, <1>0, MayFailFault DEF NodeBegin
  <1>6. ASSUME NEW fails \in BOOLEAN, CleanupStaleVIPs(fails) PROVE FaultInv'
    BY <1>6, <1>0, MayFailFault DEF CleanupStaleVIPs
  <1>7. ASSUME NEW fails \in BOOLEAN, SyncIpvsFirewall(fails) PROVE FaultInv'
    BY <1>7, <1>0, MayFailFault DEF SyncIpvsFirewall
  <1>8. ASSUME NEW s \in Services, NEW outcome \in {"ok", "interface", "address", "service", "server"},
               ClusterService(s, outcome)
        PROVE  FaultInv'
    BY <1>8, <1>0, MayFailFault DEF ClusterService
  <1>9. ASSUME NEW s \in Services, NEW outcome \in {"ok", "service", "server"},
               NodePortService(s, outcome)
        PROVE  FaultInv'
    BY <1>9, <1>0, MayFailFault DEF NodePortService
  <1>10. ASSUME NEW s \in Services, NEW v \in Vips, NEW fails \in BOOLEAN, ExternalIP(s, v, fails)
         PROVE  FaultInv'
    BY <1>10, <1>0, MayFailFault DEF ExternalIP
  <1>11. ASSUME NEW s \in Services, NEW v \in Vips, ExternalIPForDSR(s, v) PROVE FaultInv'
    BY <1>11 DEF ExternalIPForDSR, FaultInv
  <1>12. ASSUME NEW s \in Services, NEW v \in Vips, NEW calls \in 0 .. 4, ExternalFails(s, v, calls)
         PROVE  FaultInv'
    BY <1>12, <1>0, MayFailFault DEF ExternalFails
  <1>13. CASE ExternalBegin
    BY <1>13 DEF ExternalBegin, FaultInv
  <1>14. ASSUME NEW kept \in SUBSET ipvsSvcs, NEW dsrFails \in BOOLEAN,
                CleanupStaleIPVSConfig(kept, dsrFails)
         PROVE  FaultInv'
    <2>1. PICK stuck : MayFail(dsrFails \/ kept # {} \/ stuck # {})
      BY <1>14 DEF CleanupStaleIPVSConfig
    <2>2. pc = "ipvs"
      BY <1>14 DEF CleanupStaleIPVSConfig
    <2>3. (dsrFails \/ kept # {} \/ stuck # {}) \in BOOLEAN
      OBVIOUS
    <2> QED
      BY <1>0, <2>1, <2>2, <2>3, MayFailFault
  <1>15. CASE CleanupListFails
    BY <1>15, <1>0, MayFailFault DEF CleanupListFails
  <1>16. ASSUME NEW stuck \in SUBSET Vips, SetupForDSR(stuck) PROVE FaultInv'
    BY <1>16, <1>0, MayFailFault DEF SetupForDSR
  <1>17. ASSUME NEW ready \in SUBSET gracefulQueue, gracefulSync(ready) PROVE FaultInv'
    BY <1>17 DEF gracefulSync, FaultInv
  <1>18. CASE UNCHANGED vars
    BY <1>18 DEF vars, FaultInv
  <1> QED
    BY <1>1, <1>2, <1>3, <1>4, <1>5, <1>6, <1>7, <1>8, <1>9, <1>10, <1>11, <1>12,
       <1>13, <1>14, <1>15, <1>16, <1>17, <1>18
    DEF Next, Change, Sync, Graceful

-----------------------------------------------------------------------------
(* What is wanted, and what the stages set up.                             *)

\* What is wanted depends on the maps only.
LEMMA Frozen ==
    ASSUME UNCHANGED <<serviceMap, endpointsMap>>
    PROVE  /\ Wanted' = Wanted /\ \A k : WantedEps(k)' = WantedEps(k)
           /\ DsrAddresses' = DsrAddresses /\ WantedAddresses' = WantedAddresses
  <1>1. Wanted' = Wanted
    BY DEF Wanted, Reachable
  <1> QED
    BY <1>1 DEF WantedEps, DsrAddresses, WantedAddresses

\* Each wanted key is that of a cluster IP, a node port or an external IP.
LEMMA WantedKinds ==
    ASSUME TypeOK, NEW k \in Wanted
    PROVE  LET f == serviceMap[k.svc] IN
           /\ k \in Keys /\ k.svc \in Present
           /\ k = [vip |-> k.vip, svc |-> k.svc, mark |-> k.mark]
           /\ \/ k.vip = f.cip /\ k.vip # NodeIP /\ k.vip \notin f.ext /\ ~k.mark
              \/ k.vip = NodeIP /\ k.vip # f.cip /\ k.vip \notin f.ext /\ ~k.mark
                   /\ k.svc \in NodePortServices
              \/ k.vip \in f.ext /\ k.vip # f.cip /\ k.vip # NodeIP /\ k.mark = f.dsr
                   /\ <<k.svc, k.vip>> \in ExternalPairs
  <1>1. k \in Keys /\ k.svc \in Present
    BY DEF Wanted, Present, Keys
  <1>2. k = [vip |-> k.vip, svc |-> k.svc, mark |-> k.mark]
    BY <1>1 DEF Keys
  <1> DEFINE f == serviceMap[k.svc]
  <1>3. f.cip # NodeIP /\ NodeIP \notin f.ext /\ f.cip \notin f.ext
    BY <1>1, FormFacts
  <1>4. Reachable(k.svc) => HasIngress(k.svc)
    BY DEF Reachable, HasIngress, hasActiveEndpoints
  <1>5. CASE k.vip = f.cip /\ ~k.mark
    BY <1>1, <1>2, <1>3, <1>5
  <1>6. CASE k.vip = NodeIP /\ ~k.mark /\ f.node /\ Reachable(k.svc)
    BY <1>1, <1>2, <1>3, <1>4, <1>6 DEF NodePortServices
  <1>7. CASE k.vip \in f.ext /\ k.mark = f.dsr /\ Reachable(k.svc)
    BY <1>1, <1>2, <1>3, <1>4, <1>7 DEF ExternalPairs
  <1> QED
    BY <1>5, <1>6, <1>7 DEF Wanted

\* What the stages set up is wanted, with the endpoints that they give it: at the cluster
\* IP stage,
LEMMA ClusterWanted ==
    ASSUME TypeOK, NEW s \in Present
    PROVE  LET k == AddrKey(serviceMap[s].cip, s) IN
           k \in Wanted /\ WantedEps(k) = ClusterEps(s) /\ k.svc = s /\ k.vip = serviceMap[s].cip /\ ~k.mark
  <1> DEFINE k == AddrKey(serviceMap[s].cip, s)
  <1>1. k \in Keys /\ k.svc = s /\ k.vip = serviceMap[s].cip /\ ~k.mark
    BY FormFacts DEF AddrKey
  <1>2. s \in Services /\ serviceMap[s] # Absent /\ serviceMap[s].local \in BOOLEAN
    BY FormFacts
  <1> HIDE DEF k
  <1>3. k \in Wanted
    BY <1>1, <1>2 DEF Wanted
  <1>4. WantedEps(k) = ClusterEps(s)
    BY <1>1, <1>2 DEF WantedEps, ClusterEps, hasActiveEndpoints, TypeOK
  <1> QED
    BY <1>1, <1>3, <1>4 DEF k

\* ... at the node port stage,
LEMMA NodeWanted ==
    ASSUME TypeOK, NEW s \in NodePortServices
    PROVE  LET k == AddrKey(NodeIP, s) IN
           k \in Wanted /\ WantedEps(k) = IngressEps(s) /\ k.svc = s /\ k.vip = NodeIP /\ ~k.mark
  <1> DEFINE k == AddrKey(NodeIP, s)
  <1>0. s \in Present /\ s \in Services /\ serviceMap[s].node /\ HasIngress(s)
    BY DEF NodePortServices, Present
  <1>1. k \in Keys /\ k.svc = s /\ k.vip = NodeIP /\ ~k.mark
    BY <1>0, KeyFacts DEF AddrKey
  <1>2. serviceMap[s] # Absent /\ serviceMap[s].local \in BOOLEAN /\ serviceMap[s].cip # NodeIP
    BY <1>0, FormFacts
  <1> HIDE DEF k
  <1>3. k \in Wanted
    BY <1>0, <1>1, <1>2 DEF Wanted, Reachable, HasIngress, hasActiveEndpoints
  <1>4. WantedEps(k) = IngressEps(s)
    BY <1>0, <1>1, <1>2 DEF WantedEps, IngressEps, TypeOK
  <1> QED
    BY <1>1, <1>3, <1>4 DEF k

\* ... and at the external IP stage.
LEMMA ExtWanted ==
    ASSUME TypeOK, NEW s, NEW v, <<s, v>> \in ExternalPairs
    PROVE  LET k == ExtKey(v, s) IN
           /\ k \in Wanted /\ WantedEps(k) = IngressEps(s)
           /\ k.svc = s /\ k.vip = v /\ k.mark = serviceMap[s].dsr
  <1> DEFINE k == ExtKey(v, s)
  <1>0. s \in Present /\ s \in Services /\ v \in serviceMap[s].ext /\ HasIngress(s)
    BY PairFacts DEF Present
  <1>2. /\ serviceMap[s] # Absent /\ serviceMap[s].local \in BOOLEAN /\ serviceMap[s].dsr \in BOOLEAN
        /\ serviceMap[s].cip \notin serviceMap[s].ext /\ serviceMap[s].ext \subseteq Vips
    BY <1>0, FormFacts
  <1>1. k \in Keys /\ k.svc = s /\ k.vip = v /\ k.mark = serviceMap[s].dsr
    BY <1>0, <1>2 DEF ExtKey, Keys
  <1> HIDE DEF k
  <1>3. k \in Wanted
    BY <1>0, <1>1, <1>2 DEF Wanted, Reachable, HasIngress, hasActiveEndpoints
  <1>4. WantedEps(k) = IngressEps(s)
    BY <1>0, <1>1, <1>2 DEF WantedEps, IngressEps, TypeOK
  <1> QED
    BY <1>1, <1>3, <1>4 DEF k

\* Steps that leave the active map alone.
LEMMA ActiveKept ==
    ASSUME TypeOK, ActiveInv, clean, pc # "idle",
           UNCHANGED <<serviceMap, endpointsMap, active, activeEps>>,
           \A k \in Wanted : SetUp(k)' <=> SetUp(k),
           \A k \in active : Programmed(k) => Programmed(k)'
    PROVE  ActiveInv'
  <1>1. Wanted' = Wanted
    BY Frozen
  <1>2. active' = {k \in Wanted : SetUp(k)} /\ \A k \in active : Programmed(k)
    BY DEF ActiveInv
  <1>3. active' = {k \in Wanted : SetUp(k)'}
    BY <1>2
  <1> QED
    BY <1>1, <1>2, <1>3 DEF ActiveInv

\* Nothing that a service in the active map needs has changed.
LEMMA ProgrammedKept ==
    ASSUME UNCHANGED <<serviceMap, endpointsMap, activeEps, ipvsSvcs, weight, fwMarkMap>>, NEW k
    PROVE  Programmed(k) => Programmed(k)'
  BY Frozen DEF Programmed

\* A step that sets up one more key.
LEMMA ActiveGrows ==
    ASSUME TypeOK, ActiveInv, clean, pc # "idle", UNCHANGED <<serviceMap, endpointsMap>>,
           NEW k \in Wanted, SetUpKey(k, WantedEps(k)),
           k.mark => k \in fwMarkMap',
           \A q \in active : q.mark /\ q \in fwMarkMap => q \in fwMarkMap',
           \A q \in Wanted : SetUp(q)' <=> SetUp(q) \/ q = k
    PROVE  ActiveInv'
  <1>1. Wanted' = Wanted /\ \A q : WantedEps(q)' = WantedEps(q)
    BY Frozen
  <1>2. active = {q \in Wanted : SetUp(q)} /\ \A q \in active : Programmed(q)
    BY DEF ActiveInv
  <1>3. k \in Keys /\ WantedEps(k) \in SUBSET Endpoints /\ Wanted \subseteq Keys
    BY DEF Wanted, WantedEps, TypeOK, Keys
  <1>4. /\ ipvsSvcs' = ipvsSvcs \cup {k}
        /\ \A e \in Endpoints : weight'[k][e] = IF e \in WantedEps(k) THEN "one" ELSE weight[k][e]
        /\ \A q \in Keys : q # k => weight'[q] = weight[q]
        /\ active' = active \cup {k}
        /\ activeEps'[k] = WantedEps(k) /\ \A q \in Keys : q # k => activeEps'[q] = activeEps[q]
    BY <1>3, SetUpEffect
  <1>5. active' = {q \in Wanted : SetUp(q)'}
    BY <1>2, <1>4
  <1>6. ASSUME NEW q \in active' PROVE Programmed(q)'
    <2>1. CASE q = k
      BY <1>1, <1>3, <1>4, <2>1 DEF Programmed
    <2>2. CASE q # k
      <3>1. q \in active /\ Programmed(q) /\ q \in Keys
        BY <1>2, <1>3, <1>4, <2>2
      <3> QED
        BY <1>1, <1>4, <2>2, <3>1 DEF Programmed
    <2> QED
      BY <2>1, <2>2
  <1> QED
    BY <1>1, <1>5, <1>6 DEF ActiveInv

\* As long as no call fails the active map is what the stages have got to.
LEMMA ActiveStep ==
    ASSUME TypeOK, StageInv, ActiveInv, [Next]_vars
    PROVE  ActiveInv'
  <1> SUFFICES ASSUME clean', pc' # "idle" PROVE ActiveInv'
    BY DEF ActiveInv
  <1> USE DEF kernel, maps, local, bounds
  <1>0. clean \in BOOLEAN
    BY DEF TypeOK
  <1>1. ASSUME NEW s \in Services, NEW form \in FormsOf(s) \cup {Absent},
               ServiceChanges(s, form)
        PROVE  ActiveInv'
    BY <1>1 DEF ServiceChanges
  <1>2. ASSUME NEW s \in Services, NEW eps \in SUBSET Endpoints, EndpointsChange(s, eps)
        PROVE  ActiveInv'
    BY <1>2 DEF EndpointsChange
  <1>3. CASE Restart
    BY <1>3 DEF Restart
  <1>4. ASSUME NEW fails \in BOOLEAN, SyncBegin(fails) PROVE ActiveInv'
    <2>1. ~fails
      BY <1>4 DEF SyncBegin
    <2>2. active' = {} /\ todo' = Present /\ pc' = "cluster" /\ UNCHANGED <<serviceMap, endpointsMap>>
      BY <1>4, <2>1 DEF SyncBegin
    <2>3. Wanted' = Wanted
      BY <2>2, Frozen
    <2>4. ASSUME NEW k \in Wanted PROVE ~SetUp(k)'
      BY <2>2, <2>4, WantedKinds DEF SetUp
    <2> QED
      BY <2>2, <2>3, <2>4 DEF ActiveInv
  <1>5. ASSUME NEW fails \in BOOLEAN, NodeBegin(fails) PROVE ActiveInv'
    <2>0. clean /\ ~fails
      BY <1>5, <1>0, MayFailEffect DEF NodeBegin
    <2>1. ASSUME NEW k \in Wanted PROVE SetUp(k)' <=> SetUp(k)
      BY <1>5, <2>0, <2>1, WantedKinds DEF NodeBegin, SetUp
    <2>2. \A k \in active : Programmed(k) => Programmed(k)'
      BY <1>5, ProgrammedKept DEF NodeBegin
    <2>3. pc # "idle"
      BY <1>5 DEF NodeBegin
    <2> QED
      BY <1>5, <2>0, <2>1, <2>2, <2>3, ActiveKept DEF NodeBegin
  <1>6. ASSUME NEW fails \in BOOLEAN, CleanupStaleVIPs(fails) PROVE ActiveInv'
    <2>0. clean /\ ~fails
      BY <1>6, <1>0, MayFailEffect DEF CleanupStaleVIPs
    <2>1. ASSUME NEW k \in Wanted PROVE SetUp(k)' <=> SetUp(k)
      BY <1>6, <2>0, <2>1, WantedKinds DEF CleanupStaleVIPs, SetUp
    <2>2. \A k \in active : Programmed(k) => Programmed(k)'
      BY <1>6, ProgrammedKept DEF CleanupStaleVIPs
    <2>3. pc # "idle"
      BY <1>6 DEF CleanupStaleVIPs
    <2> QED
      BY <1>6, <2>0, <2>1, <2>2, <2>3, ActiveKept DEF CleanupStaleVIPs
  <1>7. ASSUME NEW fails \in BOOLEAN, SyncIpvsFirewall(fails) PROVE ActiveInv'
    <2>0. clean /\ ~fails
      BY <1>7, <1>0, MayFailEffect DEF SyncIpvsFirewall
    <2>1. ASSUME NEW k \in Wanted PROVE SetUp(k)' <=> SetUp(k)
      BY <1>7, <2>0, <2>1, WantedKinds DEF SyncIpvsFirewall, SetUp
    <2>2. \A k \in active : Programmed(k) => Programmed(k)'
      BY <1>7, ProgrammedKept DEF SyncIpvsFirewall
    <2>3. pc # "idle"
      BY <1>7 DEF SyncIpvsFirewall
    <2> QED
      BY <1>7, <2>0, <2>1, <2>2, <2>3, ActiveKept DEF SyncIpvsFirewall
  <1>8. ASSUME NEW s \in Services, NEW outcome \in {"ok", "interface", "address", "service", "server"},
               ClusterService(s, outcome)
        PROVE  ActiveInv'
    <2>0. clean /\ outcome = "ok"
      BY <1>0, <1>8, MayFailEffect DEF ClusterService
    <2>1. s \in Present
      BY <1>8, ClusterTypes
    <2> DEFINE k == AddrKey(serviceMap[s].cip, s)
    <2>2. /\ k \in Wanted /\ WantedEps(k) = ClusterEps(s)
          /\ k.svc = s /\ k.vip = serviceMap[s].cip /\ ~k.mark
      BY <2>1, ClusterWanted
    <2>3. SetUpKey(k, WantedEps(k))
      BY <1>8, <2>0, <2>2 DEF ClusterService
    <2>4. /\ pc = "cluster" /\ pc' = pc /\ todo' = todo \ {s} /\ UNCHANGED fwMarkMap
          /\ UNCHANGED <<serviceMap, endpointsMap>>
      BY <1>8, <2>0 DEF ClusterService
    <2>5. ASSUME NEW q \in Wanted PROVE SetUp(q)' <=> SetUp(q) \/ q = k
      <3>1. ASSUME q.svc = s, q.vip = serviceMap[s].cip PROVE q = k
        <4>1. q = [vip |-> q.vip, svc |-> q.svc, mark |-> q.mark] /\ q.mark \in BOOLEAN
          BY WantedKinds, KeyFacts
        <4>2. ~q.mark
          BY <3>1, <2>1, WantedKinds, FormFacts
        <4>3. q.mark = FALSE
          BY <4>1, <4>2
        <4> QED
          BY <3>1, <4>1, <4>3 DEF AddrKey
      <3> HIDE DEF k
      <3> QED
        BY <2>2, <2>4, <3>1 DEF SetUp
    <2> HIDE DEF k
    <2> QED
      BY <2>0, <2>2, <2>3, <2>4, <2>5, ActiveGrows
  <1>9. ASSUME NEW s \in Services, NEW outcome \in {"ok", "service", "server"},
               NodePortService(s, outcome)
        PROVE  ActiveInv'
    <2>0. clean /\ outcome = "ok"
      BY <1>0, <1>9, MayFailEffect DEF NodePortService
    <2>1. s \in NodePortServices /\ s \in Present
      BY <1>9 DEF NodePortService, StageInv, NodePortServices
    <2> DEFINE k == AddrKey(NodeIP, s)
    <2>2. /\ k \in Wanted /\ WantedEps(k) = IngressEps(s)
          /\ k.svc = s /\ k.vip = NodeIP /\ ~k.mark
      BY <2>1, NodeWanted
    <2>3. SetUpKey(k, WantedEps(k))
      BY <1>9, <2>0, <2>2 DEF NodePortService
    <2>4. /\ pc = "node" /\ pc' = pc /\ todo' = todo \ {s} /\ UNCHANGED fwMarkMap
          /\ UNCHANGED <<serviceMap, endpointsMap>>
      BY <1>9, <2>0 DEF NodePortService
    <2>5. ASSUME NEW q \in Wanted PROVE SetUp(q)' <=> SetUp(q) \/ q = k
      <3>1. ASSUME q.svc = s, q.vip = NodeIP PROVE q = k
        <4>1. q = [vip |-> q.vip, svc |-> q.svc, mark |-> q.mark] /\ q.mark \in BOOLEAN
          BY WantedKinds, KeyFacts
        <4>2. ~q.mark
          BY <3>1, <2>1, WantedKinds, FormFacts
        <4>3. q.mark = FALSE
          BY <4>1, <4>2
        <4> QED
          BY <3>1, <4>1, <4>3 DEF AddrKey
      <3> HIDE DEF k
      <3> QED
        BY <2>2, <2>4, <3>1 DEF SetUp
    <2> HIDE DEF k
    <2> QED
      BY <2>0, <2>2, <2>3, <2>4, <2>5, ActiveGrows
  <1>10. ASSUME NEW s \in Services, NEW v \in Vips, NEW fails \in BOOLEAN, ExternalIP(s, v, fails)
         PROVE  ActiveInv'
    <2>0. clean
      BY <1>0, <1>10, MayFailEffect DEF ExternalIP
    <2>1. <<s, v>> \in ExternalPairs /\ serviceMap[s].dsr = FALSE /\ s \in Present
      <3>1. <<s, v>> \in ExternalPairs
        BY <1>10 DEF ExternalIP, StageInv
      <3>2. s \in Present
        BY <3>1, PairFacts
      <3>3. serviceMap[s].dsr \in BOOLEAN
        BY <3>2, FormFacts
      <3> QED
        BY <1>10, <3>1, <3>2, <3>3 DEF ExternalIP
    <2> DEFINE k == ExtKey(v, s)
    <2>2. /\ k \in Wanted /\ WantedEps(k) = IngressEps(s)
          /\ k.svc = s /\ k.vip = v /\ k.mark = FALSE
      BY <2>1, ExtWanted
    <2>3. SetUpKey(k, WantedEps(k))
      BY <1>10, <2>1, <2>2 DEF ExternalIP, ExtKey, AddrKey
    <2>4. /\ pc = "external" /\ pc' = pc /\ todo' = todo \ {<<s, v>>}
          /\ fwMarkMap' = fwMarkMap \ {MarkKey(v, s)}
          /\ UNCHANGED <<serviceMap, endpointsMap>>
      BY <1>10 DEF ExternalIP, cleanupDSRService
    <2>5. ASSUME NEW q \in Wanted PROVE SetUp(q)' <=> SetUp(q) \/ q = k
      <3>1. v \in serviceMap[s].ext
        BY <2>1, PairFacts
      <3>2. q.svc = s /\ q.vip = v => q = k
        BY <2>1, <2>5, <3>1, WantedKinds, FormFacts DEF ExtKey
      <3>3. q.svc # s \/ q.vip # v => (<<q.svc, q.vip>> \in todo' <=> <<q.svc, q.vip>> \in todo)
        BY <2>4
      <3>4. <<s, v>> \notin todo' /\ v # NodeIP /\ v # serviceMap[s].cip
        BY <2>1, <2>4, <3>1, FormFacts
      <3> HIDE DEF k
      <3>5. CASE q = k
        BY <2>2, <2>4, <3>1, <3>4, <3>5 DEF SetUp
      <3>6. CASE q # k
        BY <2>4, <3>2, <3>3, <3>6 DEF SetUp
      <3> QED
        BY <3>5, <3>6
    <2>6. \A q \in active : q.mark /\ q \in fwMarkMap => q \in fwMarkMap'
      <3>1. MarkKey(v, s) \notin active
        <4>1. active \subseteq Wanted
          BY <2>0, <2>4 DEF ActiveInv
        <4>2. MarkKey(v, s) \notin Wanted
          <5>1. v \in serviceMap[s].ext /\ v # serviceMap[s].cip /\ v # NodeIP
            BY <2>1, PairFacts, FormFacts
          <5>2. MarkKey(v, s).vip = v /\ MarkKey(v, s).svc = s /\ MarkKey(v, s).mark = TRUE
            BY DEF MarkKey
          <5> QED
            BY <2>1, <5>1, <5>2 DEF Wanted
        <4> QED
          BY <4>1, <4>2
      <3> QED
        BY <2>4, <3>1
    <2> HIDE DEF k
    <2> QED
      BY <2>0, <2>2, <2>3, <2>4, <2>5, <2>6, ActiveGrows
  <1>11. ASSUME NEW s \in Services, NEW v \in Vips, ExternalIPForDSR(s, v) PROVE ActiveInv'
    <2>0. clean
      BY <1>0, <1>11 DEF ExternalIPForDSR
    <2>1. <<s, v>> \in ExternalPairs /\ serviceMap[s].dsr = TRUE /\ s \in Present
      <3>1. <<s, v>> \in ExternalPairs
        BY <1>11 DEF ExternalIPForDSR, StageInv
      <3>2. s \in Present
        BY <3>1, PairFacts
      <3>3. serviceMap[s].dsr \in BOOLEAN
        BY <3>2, FormFacts
      <3> QED
        BY <1>11, <3>1, <3>2, <3>3 DEF ExternalIPForDSR
    <2> DEFINE k == ExtKey(v, s)
    <2>2. /\ k \in Wanted /\ WantedEps(k) = IngressEps(s)
          /\ k.svc = s /\ k.vip = v /\ k.mark = TRUE
      BY <2>1, ExtWanted
    <2>3. SetUpKey(k, WantedEps(k)) /\ k = MarkKey(v, s)
      BY <1>11, <2>1, <2>2 DEF ExternalIPForDSR, ExtKey, MarkKey
    <2>4. /\ pc = "external" /\ pc' = pc /\ todo' = todo \ {<<s, v>>}
          /\ fwMarkMap' = fwMarkMap \cup {k}
          /\ UNCHANGED <<serviceMap, endpointsMap>>
      BY <1>11, <2>3 DEF ExternalIPForDSR
    <2>5. ASSUME NEW q \in Wanted PROVE SetUp(q)' <=> SetUp(q) \/ q = k
      <3>1. v \in serviceMap[s].ext
        BY <2>1, PairFacts
      <3>2. q.svc = s /\ q.vip = v => q = k
        BY <2>1, <2>5, <3>1, WantedKinds, FormFacts DEF ExtKey
      <3>3. q.svc # s \/ q.vip # v => (<<q.svc, q.vip>> \in todo' <=> <<q.svc, q.vip>> \in todo)
        BY <2>4
      <3>4. <<s, v>> \notin todo' /\ v # NodeIP /\ v # serviceMap[s].cip
        BY <2>1, <2>4, <3>1, FormFacts
      <3> HIDE DEF k
      <3>5. CASE q = k
        BY <2>2, <2>4, <3>1, <3>4, <3>5 DEF SetUp
      <3>6. CASE q # k
        BY <2>4, <3>2, <3>3, <3>6 DEF SetUp
      <3> QED
        BY <3>5, <3>6
    <2> HIDE DEF k
    <2> QED
      BY <2>0, <2>2, <2>3, <2>4, <2>5, ActiveGrows
  <1>12. ASSUME NEW s \in Services, NEW v \in Vips, NEW calls \in 0 .. 4, ExternalFails(s, v, calls)
         PROVE  ActiveInv'
    <2>1. clean' = FALSE
      BY <1>0, <1>12, MayFailEffect DEF ExternalFails
    <2> QED
      BY <2>1
  <1>13. CASE ExternalBegin
    <2>0. clean
      BY <1>13, <1>0 DEF ExternalBegin
    <2>1. ASSUME NEW k \in Wanted PROVE SetUp(k)' <=> SetUp(k)
      BY <1>13, <2>0, <2>1, WantedKinds DEF ExternalBegin, SetUp
    <2>2. \A k \in active : Programmed(k) => Programmed(k)'
      BY <1>13, ProgrammedKept DEF ExternalBegin
    <2>3. pc # "idle"
      BY <1>13 DEF ExternalBegin
    <2> QED
      BY <1>13, <2>0, <2>1, <2>2, <2>3, ActiveKept DEF ExternalBegin
  <1>14. ASSUME NEW kept \in SUBSET ipvsSvcs, NEW dsrFails \in BOOLEAN,
                CleanupStaleIPVSConfig(kept, dsrFails)
         PROVE  ActiveInv'
    <2>0. clean /\ kept = {}
      BY <1>14, CleanupStep
    <2> DEFINE gone == (ipvsSvcs \ active) \ kept
    <2>1. CleanedUp(gone)
      BY <1>14, CleanupStep
    <2>2. /\ pc = "ipvs" /\ pc' = "firewall" /\ todo' = todo
          /\ UNCHANGED <<serviceMap, endpointsMap, active, activeEps>>
      BY <1>14 DEF CleanupStaleIPVSConfig
    <2>3. ASSUME NEW k \in active, Programmed(k) PROVE Programmed(k)'
      <3>1. k \in Keys /\ k \in ipvsSvcs /\ k \notin gone /\ WantedEps(k) \subseteq Endpoints
        BY <2>3 DEF TypeOK, Programmed, WantedEps, Keys
      <3>2. ASSUME NEW e \in WantedEps(k) PROVE weight'[k][e] = "one"
        <4>1. ~Invalid(k, e) /\ e \in Endpoints /\ weight[k][e] = "one"
          BY <2>3, <3>1, <3>2 DEF Invalid, Programmed
        <4> HIDE DEF gone
        <4> QED
          BY <2>1, <3>1, <4>1 DEF CleanedUp
      <3>3. k \in ipvsSvcs' /\ (k \in fwMarkMap => k \in fwMarkMap')
        <4>1. ipvsSvcs' = ipvsSvcs \ gone /\ fwMarkMap' = fwMarkMap \ (ipvsSvcs \ active)
          BY <2>1 DEF CleanedUp
        <4> QED
          BY <2>3, <3>1, <4>1
      <3>4. WantedEps(k)' = WantedEps(k)
        BY <2>2, Frozen
      <3> QED
        BY <2>2, <2>3, <3>2, <3>3, <3>4 DEF Programmed
    <2>4. ASSUME NEW k \in Wanted PROVE SetUp(k)' <=> SetUp(k)
      BY <2>2 DEF SetUp
    <2> QED
      BY <2>0, <2>2, <2>3, <2>4, ActiveKept
  <1>15. CASE CleanupListFails
    <2>1. clean' = FALSE
      BY <1>0, <1>15, MayFailEffect DEF CleanupListFails
    <2> QED
      BY <2>1
  <1>16. ASSUME NEW stuck \in SUBSET Vips, SetupForDSR(stuck) PROVE ActiveInv'
    BY <1>16 DEF SetupForDSR
  <1>17. ASSUME NEW ready \in SUBSET gracefulQueue, gracefulSync(ready) PROVE ActiveInv'
    BY <1>17 DEF gracefulSync
  <1>18. CASE UNCHANGED vars
    <2>1. \A k \in active : Programmed(k) => Programmed(k)'
      BY <1>18, ProgrammedKept DEF vars
    <2> QED
      BY <1>18, <2>1, ActiveKept DEF vars, SetUp
  <1> QED
    BY <1>1, <1>2, <1>3, <1>4, <1>5, <1>6, <1>7, <1>8, <1>9, <1>10, <1>11, <1>12,
       <1>13, <1>14, <1>15, <1>16, <1>17, <1>18
    DEF Next, Change, Sync, Graceful

-----------------------------------------------------------------------------
(* After the stages.                                                       *)

\* After the stages of a sync in which no call failed, the active map is what is wanted.
LEMMA AllSetUp ==
    ASSUME TypeOK, ActiveInv, clean, pc \in {"ipvs", "firewall", "dsr"}
    PROVE  active = Wanted /\ \A k \in Wanted : Programmed(k)
  <1>1. ASSUME NEW k \in Wanted PROVE SetUp(k)
    BY WantedKinds DEF SetUp
  <1> QED
    BY <1>1 DEF ActiveInv

\* Steps that leave the IPVS services alone.
LEMMA ServersKept ==
    ASSUME ServersExact, UNCHANGED <<serviceMap, endpointsMap, ipvsSvcs, weight>>
    PROVE  ServersExact'
  <1>1. Wanted' = Wanted /\ \A k : WantedEps(k)' = WantedEps(k)
    BY Frozen
  <1> QED
    BY <1>1 DEF ServersExact, Serving, Draining

\* The cleanup leaves the wanted services with the wanted servers.
LEMMA CleanupIsExact ==
    ASSUME TypeOK, WeightInv, ActiveInv, clean',
           NEW kept \in SUBSET ipvsSvcs, NEW dsrFails \in BOOLEAN,
           CleanupStaleIPVSConfig(kept, dsrFails)
    PROVE  ServersExact'
  <1> DEFINE gone == (ipvsSvcs \ active) \ kept
  <1>1. clean /\ kept = {} /\ CleanedUp(gone)
    BY CleanupStep
  <1>2. pc = "ipvs" /\ UNCHANGED <<serviceMap, endpointsMap>>
    BY DEF CleanupStaleIPVSConfig, maps
  <1>3. active = Wanted /\ \A k \in Wanted : Programmed(k)
    BY <1>1, <1>2, AllSetUp
  <1>4. Wanted' = Wanted /\ \A k : WantedEps(k)' = WantedEps(k)
    BY <1>2, Frozen
  <1>5. Wanted \subseteq Keys /\ Wanted \subseteq ipvsSvcs /\ gone = ipvsSvcs \ Wanted
    BY <1>1, <1>3 DEF Wanted, Programmed
  <1> HIDE DEF gone
  <1>6. ipvsSvcs' = Wanted
    BY <1>1, <1>5 DEF CleanedUp
  <1>7. ASSUME NEW k \in Wanted, NEW e \in Endpoints
        PROVE  weight'[k][e] = "one" <=> e \in WantedEps(k)
    <2>1. k \in Keys /\ k \notin gone /\ activeEps[k] = WantedEps(k) /\ k \in ipvsSvcs \cap active
      BY <1>3, <1>5 DEF Programmed
    <2>2. ipvsDeleteDestination # "one"
      BY DEF ipvsDeleteDestination
    <2>3. CASE e \in WantedEps(k)
      <3>1. weight[k][e] = "one" /\ ~Invalid(k, e)
        BY <1>3, <2>1, <2>3 DEF Programmed, Invalid
      <3>2. weight'[k][e] = weight[k][e]
        BY <1>1, <2>1, <3>1 DEF CleanedUp
      <3> QED
        BY <2>3, <3>1, <3>2
    <2>4. CASE e \notin WantedEps(k) /\ weight[k][e] = "none"
      <3>1. ~Invalid(k, e)
        BY <2>4 DEF Invalid
      <3>2. weight'[k][e] = weight[k][e]
        BY <1>1, <2>1, <3>1 DEF CleanedUp
      <3> QED
        BY <2>4, <3>2
    <2>5. CASE e \notin WantedEps(k) /\ weight[k][e] # "none"
      <3>1. Invalid(k, e)
        BY <2>1, <2>5 DEF Invalid
      <3>2. weight'[k][e] = ipvsDeleteDestination
        BY <1>1, <2>1, <3>1 DEF CleanedUp
      <3> QED
        BY <2>2, <2>5, <3>2
    <2> QED
      BY <2>3, <2>4, <2>5
  <1>8. ASSUME NEW k \in Wanted PROVE Serving(k)' = WantedEps(k)'
    <2>1. WantedEps(k) \subseteq Endpoints
      BY <1>5 DEF WantedEps, TypeOK, Keys
    <2> QED
      BY <1>4, <1>7, <2>1 DEF Serving
  <1>9. ASSUME NEW k \in Keys, Draining(k)' # {} PROVE gracefulTermination /\ k \in Wanted
    <2>1. PICK e \in Endpoints : weight'[k][e] = "zero"
      BY <1>9 DEF Draining
    <2>2. k \notin gone /\ (weight[k][e] = "zero" \/ (Invalid(k, e) /\ ipvsDeleteDestination = "zero"))
      BY <1>1, <2>1 DEF CleanedUp
    <2>3. gracefulTermination /\ k \in ipvsSvcs
      BY <2>2 DEF WeightInv, Invalid, ipvsDeleteDestination
    <2> QED
      BY <1>5, <2>2, <2>3
  <1> QED
    BY <1>4, <1>6, <1>8, <1>9 DEF ServersExact

\* The end of a sync, and what comes between syncs.
LEMMA SyncedStep ==
    ASSUME TypeOK, WeightInv, ActiveInv, SyncedInv, [Next]_vars
    PROVE  SyncedInv'
  <1> SUFFICES ASSUME clean' PROVE SyncedInv'
    BY DEF SyncedInv
  <1> USE DEF kernel, maps, local, bounds
  <1>0. clean \in BOOLEAN
    BY DEF TypeOK
  <1>1. ASSUME NEW s \in Services, NEW form \in FormsOf(s) \cup {Absent},
               ServiceChanges(s, form)
        PROVE  SyncedInv'
    BY <1>1 DEF ServiceChanges, SyncedInv
  <1>2. ASSUME NEW s \in Services, NEW eps \in SUBSET Endpoints, EndpointsChange(s, eps)
        PROVE  SyncedInv'
    BY <1>2 DEF EndpointsChange, SyncedInv
  <1>3. CASE Restart
    BY <1>3 DEF Restart, SyncedInv
  <1>4. ASSUME NEW fails \in BOOLEAN, SyncBegin(fails) PROVE SyncedInv'
    BY <1>4 DEF SyncBegin, SyncedInv
  <1>5. ASSUME NEW fails \in BOOLEAN, NodeBegin(fails) PROVE SyncedInv'
    BY <1>5 DEF NodeBegin, SyncedInv
  <1>6. ASSUME NEW fails \in BOOLEAN, CleanupStaleVIPs(fails) PROVE SyncedInv'
    BY <1>6 DEF CleanupStaleVIPs, SyncedInv
  <1>7. ASSUME NEW fails \in BOOLEAN, SyncIpvsFirewall(fails) PROVE SyncedInv'
    <2>0. clean /\ ~fails
      BY <1>0, <1>7, MayFailEffect DEF SyncIpvsFirewall
    <2>1. pc = "firewall" /\ pc' = "dsr" /\ UNCHANGED <<serviceMap, endpointsMap, ipvsSvcs, weight>>
      BY <1>7 DEF SyncIpvsFirewall
    <2>2. ServersExact /\ ServersExact' /\ Wanted' = Wanted
      BY <2>0, <2>1, ServersKept, Frozen DEF SyncedInv
    <2>3. permitted' = {k \in Wanted : k.mark => k \in fwMarkMap}
      BY <1>7, <2>0, <2>2 DEF SyncIpvsFirewall, ServersExact
    <2>4. \A k \in Wanted : k.mark => k \in fwMarkMap
      BY <2>0, <2>1, AllSetUp DEF Programmed
    <2> QED
      BY <2>1, <2>2, <2>3, <2>4 DEF SyncedInv
  <1>8. ASSUME NEW s \in Services, NEW outcome \in {"ok", "interface", "address", "service", "server"},
               ClusterService(s, outcome)
        PROVE  SyncedInv'
    BY <1>8 DEF ClusterService, SyncedInv
  <1>9. ASSUME NEW s \in Services, NEW outcome \in {"ok", "service", "server"},
               NodePortService(s, outcome)
        PROVE  SyncedInv'
    BY <1>9 DEF NodePortService, SyncedInv
  <1>10. ASSUME NEW s \in Services, NEW v \in Vips, NEW fails \in BOOLEAN, ExternalIP(s, v, fails)
         PROVE  SyncedInv'
    BY <1>10 DEF ExternalIP, SyncedInv
  <1>11. ASSUME NEW s \in Services, NEW v \in Vips, ExternalIPForDSR(s, v) PROVE SyncedInv'
    BY <1>11 DEF ExternalIPForDSR, SyncedInv
  <1>12. ASSUME NEW s \in Services, NEW v \in Vips, NEW calls \in 0 .. 4, ExternalFails(s, v, calls)
         PROVE  SyncedInv'
    BY <1>12 DEF ExternalFails, SyncedInv
  <1>13. CASE ExternalBegin
    BY <1>13 DEF ExternalBegin, SyncedInv
  <1>14. ASSUME NEW kept \in SUBSET ipvsSvcs, NEW dsrFails \in BOOLEAN,
                CleanupStaleIPVSConfig(kept, dsrFails)
         PROVE  SyncedInv'
    <2>1. ServersExact'
      BY <1>14, CleanupIsExact
    <2>2. pc' = "firewall"
      BY <1>14 DEF CleanupStaleIPVSConfig
    <2> QED
      BY <2>1, <2>2 DEF SyncedInv
  <1>15. CASE CleanupListFails
    <2>1. clean' = FALSE
      BY <1>0, <1>15, MayFailEffect DEF CleanupListFails
    <2> QED
      BY <2>1
  <1>16. ASSUME NEW stuck \in SUBSET Vips, SetupForDSR(stuck) PROVE SyncedInv'
    <2> DEFINE activeExternalIPs ==
                  UNION {serviceMap[t].externalIPs : t \in {t \in Present : serviceMap[t].dsr}}
    <2>0. clean /\ stuck = {}
      BY <1>0, <1>16, MayFailEffect DEF SetupForDSR
    <2>1. /\ pc = "dsr" /\ pc' = "idle"
          /\ UNCHANGED <<serviceMap, endpointsMap, ipvsSvcs, weight, permitted>>
      BY <1>16 DEF SetupForDSR
    <2>2. dsrRoutes' = activeExternalIPs
      BY <1>16, <2>0 DEF SetupForDSR
    <2>3. activeExternalIPs = DsrAddresses
      <3>1. activeExternalIPs \subseteq Vips
        BY FormFacts
      <3> QED
        BY <3>1 DEF DsrAddresses, Present
    <2>4. ServersExact' /\ Wanted' = Wanted /\ DsrAddresses' = DsrAddresses /\ permitted = Wanted
      BY <2>0, <2>1, ServersKept, Frozen DEF SyncedInv
    <2> QED
      BY <2>1, <2>2, <2>3, <2>4 DEF SyncedInv
  <1>17. ASSUME NEW ready \in SUBSET gracefulQueue, gracefulSync(ready) PROVE SyncedInv'
    <2>0. clean /\ \A job \in ready : weight[job[1]][job[2]] # "one"
      BY <1>17 DEF gracefulSync
    <2>1. /\ pc = "idle" /\ pc' = pc
          /\ UNCHANGED <<serviceMap, endpointsMap, ipvsSvcs, permitted, dsrRoutes>>
      BY <1>17 DEF gracefulSync
    <2>2. \A k \in Keys, e \in Endpoints :
             weight'[k][e] = IF <<k, e>> \in ready THEN "none" ELSE weight[k][e]
      BY <1>17 DEF gracefulSync
    <2>3. ServersExact /\ permitted = Wanted /\ dsrRoutes = DsrAddresses
      BY <2>0, <2>1 DEF SyncedInv
    <2>4. /\ Wanted' = Wanted /\ DsrAddresses' = DsrAddresses
          /\ \A k : WantedEps(k)' = WantedEps(k)
      BY <2>1, Frozen
    <2>5. ASSUME NEW k \in Keys PROVE Serving(k)' = Serving(k) /\ Draining(k)' \subseteq Draining(k)
      <3>1. ASSUME NEW e \in Endpoints, <<k, e>> \in ready PROVE weight[k][e] # "one"
        BY <2>0, <3>1
      <3> QED
        BY <2>2, <3>1 DEF Serving, Draining
    <2>6. ServersExact'
      <3>1. Wanted \subseteq Keys
        BY DEF Wanted
      <3> QED
        BY <2>1, <2>3, <2>4, <2>5, <3>1 DEF ServersExact
    <2> QED
      BY <2>1, <2>3, <2>4, <2>6 DEF SyncedInv
  <1>18. CASE UNCHANGED vars
    <2>1. UNCHANGED <<serviceMap, endpointsMap, ipvsSvcs, weight, permitted, dsrRoutes, pc, clean>>
      BY <1>18 DEF vars
    <2>2. Wanted' = Wanted /\ DsrAddresses' = DsrAddresses
      BY <2>1, Frozen
    <2> QED
      BY <2>1, <2>2, ServersKept DEF SyncedInv
  <1> QED
    BY <1>1, <1>2, <1>3, <1>4, <1>5, <1>6, <1>7, <1>8, <1>9, <1>10, <1>11, <1>12,
       <1>13, <1>14, <1>15, <1>16, <1>17, <1>18
    DEF Next, Change, Sync, Graceful

-----------------------------------------------------------------------------
(* The addresses of the dummy interface.                                   *)

\* The address of a DSR service is that of no service that needs it on the interface.
LEMMA AddressesApart ==
    ASSUME TypeOK, DsrAddressesApart, NEW s \in Present, serviceMap[s].dsr,
           NEW q \in Wanted, ~q.mark, q.vip # NodeIP
    PROVE  q.vip \notin serviceMap[s].ext
  <1> DEFINE f == serviceMap[s]
             g == serviceMap[q.svc]
  <1>1. q.svc \in Present
    BY WantedKinds
  <1>2. /\ s \in Services /\ f \in FormsOf(s) /\ f.cip \notin f.ext
        /\ q.svc \in Services /\ g \in FormsOf(q.svc)
    BY <1>1, FormFacts
  <1>3. q.vip = g.cip \/ (q.vip \in g.ext /\ ~g.dsr)
    BY WantedKinds
  <1>4. CASE q.svc = s
    BY <1>2, <1>3, <1>4
  <1>5. CASE q.svc # s
    <2>1. f.ext \cap ({g.cip} \cup IF g.dsr THEN {} ELSE g.ext) = {}
      BY <1>2, <1>5 DEF DsrAddressesApart
    <2> QED
      BY <1>3, <2>1
  <1> QED
    BY <1>4, <1>5

\* Steps that add to the active map a service whose address is on the interface, if it
\* needs one, and take from the interface nothing that the active services need.
LEMMA AddressesGrow ==
    ASSUME AddressInv, clean, pc \in {"cluster", "node", "external"}, pc' = pc,
           NEW k, active' = active \cup {k},
           ~k.mark /\ k.vip # NodeIP => k.vip \in dummy',
           \A q \in active : ~q.mark /\ q.vip # NodeIP /\ q.vip \in dummy => q.vip \in dummy'
    PROVE  AddressInv'
  BY DEF AddressInv

\* Every step keeps the addresses that the active services need, and the cleanup leaves
\* no other.
LEMMA AddressStep ==
    ASSUME TypeOK, StageInv, ActiveInv, AddressInv, DsrAddressesApart, [Next]_vars
    PROVE  AddressInv'
  <1> SUFFICES ASSUME clean' PROVE AddressInv'
    BY DEF AddressInv
  <1> USE DEF kernel, maps, local, bounds
  <1>0. clean \in BOOLEAN
    BY DEF TypeOK
  <1>1. ASSUME NEW s \in Services, NEW form \in FormsOf(s) \cup {Absent},
               ServiceChanges(s, form)
        PROVE  AddressInv'
    BY <1>1 DEF ServiceChanges
  <1>2. ASSUME NEW s \in Services, NEW eps \in SUBSET Endpoints, EndpointsChange(s, eps)
        PROVE  AddressInv'
    BY <1>2 DEF EndpointsChange
  <1>3. CASE Restart
    BY <1>3 DEF Restart
  <1>4. ASSUME NEW fails \in BOOLEAN, SyncBegin(fails) PROVE AddressInv'
    BY <1>4 DEF SyncBegin, AddressInv
  <1>5. ASSUME NEW fails \in BOOLEAN, NodeBegin(fails) PROVE AddressInv'
    <2>1. clean
      BY <1>5, <1>0, MayFailEffect DEF NodeBegin
    <2> QED
      BY <1>5, <2>1 DEF NodeBegin, AddressInv
  <1>6. ASSUME NEW fails \in BOOLEAN, CleanupStaleVIPs(fails) PROVE AddressInv'
    <2>0. clean /\ ~fails
      BY <1>6, <1>0, MayFailEffect DEF CleanupStaleVIPs
    <2>1. /\ pc = "external" /\ todo = {} /\ pc' = "ipvs" /\ UNCHANGED <<serviceMap, endpointsMap>>
          /\ dummy' = dummy \cap {k.vip : k \in {k \in active : ~k.mark}}
      BY <1>6, <2>0 DEF CleanupStaleVIPs
    <2>2. active = Wanted
      <3>1. ASSUME NEW k \in Wanted PROVE SetUp(k)
        BY <2>1, WantedKinds DEF SetUp
      <3> QED
        BY <2>0, <2>1, <3>1 DEF ActiveInv
    <2>3. NodeIP \notin dummy
      BY DEF TypeOK, Vips
    <2>4. \A k \in active : ~k.mark /\ k.vip # NodeIP => k.vip \in dummy
      BY <2>0, <2>1 DEF AddressInv
    <2>5. dummy' = WantedAddresses
      BY <2>1, <2>2, <2>3, <2>4 DEF WantedAddresses
    <2> QED
      BY <2>1, <2>5, Frozen DEF AddressInv
  <1>7. ASSUME NEW fails \in BOOLEAN, SyncIpvsFirewall(fails) PROVE AddressInv'
    <2>0. clean
      BY <1>7, <1>0, MayFailEffect DEF SyncIpvsFirewall
    <2>1. dummy' = dummy /\ UNCHANGED <<serviceMap, endpointsMap>>
      BY <1>7 DEF SyncIpvsFirewall
    <2>2. pc \in {"firewall"} /\ pc' \in {"ipvs", "firewall", "dsr", "idle"}
      BY <1>7 DEF SyncIpvsFirewall
    <2> QED
      BY <2>0, <2>1, <2>2, Frozen DEF AddressInv
  <1>8. ASSUME NEW s \in Services, NEW outcome \in {"ok", "interface", "address", "service", "server"},
               ClusterService(s, outcome)
        PROVE  AddressInv'
    <2>0. clean /\ outcome = "ok"
      BY <1>0, <1>8, MayFailEffect DEF ClusterService
    <2> DEFINE k == AddrKey(serviceMap[s].cip, s)
    <2>1. /\ pc = "cluster" /\ pc' = pc /\ active' = active \cup {k}
          /\ dummy' = dummy \cup {serviceMap[s].cip}
      BY <1>8, <2>0 DEF ClusterService, SetUpKey, ipAddrAdd
    <2>2. k.vip = serviceMap[s].cip
      BY DEF AddrKey
    <2> HIDE DEF k
    <2> QED
      BY <2>0, <2>1, <2>2, AddressesGrow
  <1>9. ASSUME NEW s \in Services, NEW outcome \in {"ok", "service", "server"},
               NodePortService(s, outcome)
        PROVE  AddressInv'
    <2>0. clean /\ outcome = "ok"
      BY <1>0, <1>9, MayFailEffect DEF NodePortService
    <2> DEFINE k == AddrKey(NodeIP, s)
    <2>1. pc = "node" /\ pc' = pc /\ active' = active \cup {k} /\ dummy' = dummy
      BY <1>9, <2>0 DEF NodePortService, SetUpKey
    <2>2. k.vip = NodeIP
      BY DEF AddrKey
    <2> HIDE DEF k
    <2> QED
      BY <2>0, <2>1, <2>2, AddressesGrow
  <1>10. ASSUME NEW s \in Services, NEW v \in Vips, NEW fails \in BOOLEAN, ExternalIP(s, v, fails)
         PROVE  AddressInv'
    <2>0. clean
      BY <1>0, <1>10, MayFailEffect DEF ExternalIP
    <2> DEFINE k == AddrKey(v, s)
    <2>1. pc = "external" /\ pc' = pc /\ active' = active \cup {k} /\ dummy' = dummy \cup {v}
      BY <1>10 DEF ExternalIP, SetUpKey, ipAddrAdd
    <2>2. k.vip = v
      BY DEF AddrKey
    <2> HIDE DEF k
    <2> QED
      BY <2>0, <2>1, <2>2, AddressesGrow
  <1>11. ASSUME NEW s \in Services, NEW v \in Vips, ExternalIPForDSR(s, v) PROVE AddressInv'
    <2>0. clean
      BY <1>0, <1>11 DEF ExternalIPForDSR
    <2> DEFINE k == MarkKey(v, s)
    <2>1. pc = "external" /\ pc' = pc /\ active' = active \cup {k} /\ dummy' = dummy \ {v}
      BY <1>11 DEF ExternalIPForDSR, SetUpKey, ipAddrDel
    <2>2. k.mark
      BY DEF MarkKey
    <2>3. s \in Present /\ v \in serviceMap[s].ext /\ serviceMap[s].dsr
      BY <1>11, PairFacts DEF ExternalIPForDSR, StageInv
    <2>4. active \subseteq Wanted
      BY <2>0, <2>1 DEF ActiveInv
    <2>5. ASSUME NEW q \in active, ~q.mark, q.vip # NodeIP PROVE q.vip # v
      BY <2>3, <2>4, <2>5, AddressesApart
    <2> HIDE DEF k
    <2> QED
      BY <2>0, <2>1, <2>2, <2>5, AddressesGrow
  <1>12. ASSUME NEW s \in Services, NEW v \in Vips, NEW calls \in 0 .. 4, ExternalFails(s, v, calls)
         PROVE  AddressInv'
    <2>1. clean' = FALSE
      BY <1>0, <1>12, MayFailEffect DEF ExternalFails
    <2> QED
      BY <2>1
  <1>13. CASE ExternalBegin
    BY <1>13 DEF ExternalBegin, AddressInv
  <1>14. ASSUME NEW kept \in SUBSET ipvsSvcs, NEW dsrFails \in BOOLEAN,
                CleanupStaleIPVSConfig(kept, dsrFails)
         PROVE  AddressInv'
    <2>0. clean
      BY <1>14, CleanupStep
    <2>1. dummy' = dummy /\ UNCHANGED <<serviceMap, endpointsMap>>
      BY <1>14 DEF CleanupStaleIPVSConfig
    <2>2. pc \in {"ipvs"} /\ pc' \in {"ipvs", "firewall", "dsr", "idle"}
      BY <1>14 DEF CleanupStaleIPVSConfig
    <2> QED
      BY <2>0, <2>1, <2>2, Frozen DEF AddressInv
  <1>15. CASE CleanupListFails
    <2>1. clean' = FALSE
      BY <1>0, <1>15, MayFailEffect DEF CleanupListFails
    <2> QED
      BY <2>1
  <1>16. ASSUME NEW stuck \in SUBSET Vips, SetupForDSR(stuck) PROVE AddressInv'
    <2>0. clean
      BY <1>16, <1>0, MayFailEffect DEF SetupForDSR
    <2>1. dummy' = dummy /\ UNCHANGED <<serviceMap, endpointsMap>>
      BY <1>16 DEF SetupForDSR
    <2>2. pc \in {"dsr"} /\ pc' \in {"ipvs", "firewall", "dsr", "idle"}
      BY <1>16 DEF SetupForDSR
    <2> QED
      BY <2>0, <2>1, <2>2, Frozen DEF AddressInv
  <1>17. ASSUME NEW ready \in SUBSET gracefulQueue, gracefulSync(ready) PROVE AddressInv'
    <2>0. clean
      BY <1>17 DEF gracefulSync
    <2>1. dummy' = dummy /\ UNCHANGED <<serviceMap, endpointsMap>>
      BY <1>17 DEF gracefulSync
    <2>2. pc \in {"idle"} /\ pc' \in {"ipvs", "firewall", "dsr", "idle"}
      BY <1>17 DEF gracefulSync
    <2> QED
      BY <2>0, <2>1, <2>2, Frozen DEF AddressInv
  <1>18. CASE UNCHANGED vars
    <2>1. UNCHANGED <<serviceMap, endpointsMap, dummy, active, pc, clean>>
      BY <1>18 DEF vars
    <2> QED
      BY <2>1, Frozen DEF AddressInv
  <1> QED
    BY <1>1, <1>2, <1>3, <1>4, <1>5, <1>6, <1>7, <1>8, <1>9, <1>10, <1>11, <1>12,
       <1>13, <1>14, <1>15, <1>16, <1>17, <1>18
    DEF Next, Change, Sync, Graceful

-----------------------------------------------------------------------------
(* Theorems.                                                               *)

\* Every step keeps the invariant.
LEMMA InvStep ==
    ASSUME IInv, [Next]_vars
    PROVE  IInv'
  <1>1. TypeOK /\ StageInv /\ WeightInv /\ FaultInv /\ ActiveInv /\ SyncedInv
    BY DEF IInv
  <1>2. TypeOK' /\ StageInv'
    BY <1>1, TypeStep, StageStep
  <1>3. WeightInv' /\ FaultInv'
    BY <1>1, WeightStep, FaultStep
  <1>4. ActiveInv' /\ SyncedInv'
    BY <1>1, ActiveStep, SyncedStep
  <1> QED
    BY <1>2, <1>3, <1>4 DEF IInv

\* The invariant holds throughout.
THEOREM Invariant == Spec => []IInv
  <1>1. Init => IInv
    BY InitInv
  <1>2. IInv /\ [Next]_vars => IInv'
    BY InvStep
  <1> QED
    BY <1>1, <1>2, PTL DEF Spec

\* The proxy's view of the kernel and the kernel's state keep their types whatever calls
\* of syncIpvsServices and gracefulSync fail and whenever the process is restarted.
THEOREM TypeCorrect == Spec => []TypeOK
  <1>1. IInv => TypeOK
    BY DEF IInv
  <1> QED
    BY <1>1, Invariant, PTL

\* A syncIpvsServices in which no call failed leaves the IPVS services, servers, firewall
\* sets, addresses and DSR routes as the maps ask, if no DSR address is also an address
\* that another service needs on the dummy interface.
THEOREM CleanSyncExact == DsrAddressesApart => (Spec => []CleanSyncIsExact)
  <1> SUFFICES ASSUME DsrAddressesApart PROVE Spec => []CleanSyncIsExact
    OBVIOUS
  <1>1. Init => AddressInv
    BY InitInv
  <1>2. IInv /\ AddressInv /\ [Next]_vars => AddressInv'
    BY AddressStep DEF IInv
  <1>3. IInv /\ AddressInv => CleanSyncIsExact
    BY DEF IInv, SyncedInv, ServersExact, AddressInv, CleanSyncIsExact, InSync
  <1> QED
    BY <1>1, <1>2, <1>3, Invariant, PTL DEF Spec

\* Only what is not wanted is deleted.
OnlyUnwanted == \A k \in ipvsSvcs \ ipvsSvcs' : k \notin Wanted

\* Only the cleanup deletes services, and as long as no call has failed the active map that
\* it compares them with is complete.
LEMMA DeletedUnwanted ==
    ASSUME TypeOK, FaultInv, ActiveInv, [Next]_vars, faults' = 0
    PROVE  OnlyUnwanted
  <1> USE DEF kernel, maps, local, bounds
  <1>1. ASSUME NEW s \in Services, NEW form \in FormsOf(s) \cup {Absent},
               ServiceChanges(s, form)
        PROVE  OnlyUnwanted
    BY <1>1 DEF ServiceChanges, OnlyUnwanted
  <1>2. ASSUME NEW s \in Services, NEW eps \in SUBSET Endpoints, EndpointsChange(s, eps)
        PROVE  OnlyUnwanted
    BY <1>2 DEF EndpointsChange, OnlyUnwanted
  <1>3. CASE Restart
    BY <1>3 DEF Restart, OnlyUnwanted
  <1>4. ASSUME NEW fails \in BOOLEAN, SyncBegin(fails) PROVE OnlyUnwanted
    BY <1>4 DEF SyncBegin, OnlyUnwanted
  <1>5. ASSUME NEW fails \in BOOLEAN, NodeBegin(fails) PROVE OnlyUnwanted
    BY <1>5 DEF NodeBegin, OnlyUnwanted
  <1>6. ASSUME NEW fails \in BOOLEAN, CleanupStaleVIPs(fails) PROVE OnlyUnwanted
    BY <1>6 DEF CleanupStaleVIPs, OnlyUnwanted
  <1>7. ASSUME NEW fails \in BOOLEAN, SyncIpvsFirewall(fails) PROVE OnlyUnwanted
    BY <1>7 DEF SyncIpvsFirewall, OnlyUnwanted
  <1>8. ASSUME NEW s \in Services, NEW outcome \in {"ok", "interface", "address", "service", "server"},
               ClusterService(s, outcome)
        PROVE  OnlyUnwanted
    <2>1. ipvsSvcs' = ipvsSvcs \/ \E k : ipvsSvcs' = ipvsSvcs \cup {k}
      <3>1. CASE outcome \in {"interface", "address", "service"}
        BY <1>8, <3>1 DEF ClusterService
      <3>2. CASE outcome = "ok"
        <4>1. SetUpKey(AddrKey(serviceMap[s].cip, s), ClusterEps(s))
          BY <1>8, <3>2 DEF ClusterService
        <4> QED
          BY <4>1 DEF SetUpKey, WithService
      <3>3. CASE outcome = "server"
        <4>1. PICK e \in ClusterEps(s) : SetUpKey(AddrKey(serviceMap[s].cip, s), ClusterEps(s) \ {e})
          BY <1>8, <3>3 DEF ClusterService
        <4> QED
          BY <4>1 DEF SetUpKey, WithService
      <3> QED
        BY <3>1, <3>2, <3>3
    <2> QED
      BY <2>1 DEF OnlyUnwanted
  <1>9. ASSUME NEW s \in Services, NEW outcome \in {"ok", "service", "server"},
               NodePortService(s, outcome)
        PROVE  OnlyUnwanted
    <2>1. ipvsSvcs' = ipvsSvcs \/ \E k : ipvsSvcs' = ipvsSvcs \cup {k}
      <3>1. CASE outcome = "service"
        BY <1>9, <3>1 DEF NodePortService
      <3>2. CASE outcome = "ok"
        <4>1. SetUpKey(AddrKey(NodeIP, s), IngressEps(s))
          BY <1>9, <3>2 DEF NodePortService
        <4> QED
          BY <4>1 DEF SetUpKey, WithService
      <3>3. CASE outcome = "server"
        <4>1. PICK e \in IngressEps(s) : SetUpKey(AddrKey(NodeIP, s), IngressEps(s) \ {e})
          BY <1>9, <3>3 DEF NodePortService
        <4> QED
          BY <4>1 DEF SetUpKey, WithService
      <3> QED
        BY <3>1, <3>2, <3>3
    <2> QED
      BY <2>1 DEF OnlyUnwanted
  <1>10. ASSUME NEW s \in Services, NEW v \in Vips, NEW fails \in BOOLEAN, ExternalIP(s, v, fails)
         PROVE  OnlyUnwanted
    BY <1>10 DEF ExternalIP, SetUpKey, WithService, OnlyUnwanted
  <1>11. ASSUME NEW s \in Services, NEW v \in Vips, ExternalIPForDSR(s, v) PROVE OnlyUnwanted
    BY <1>11 DEF ExternalIPForDSR, SetUpKey, WithService, OnlyUnwanted
  <1>12. ASSUME NEW s \in Services, NEW v \in Vips, NEW calls \in 0 .. 4, ExternalFails(s, v, calls)
         PROVE  OnlyUnwanted
    BY <1>12 DEF ExternalFails, WithService, OnlyUnwanted
  <1>13. CASE ExternalBegin
    BY <1>13 DEF ExternalBegin, OnlyUnwanted
  <1>14. ASSUME NEW kept \in SUBSET ipvsSvcs, NEW dsrFails \in BOOLEAN,
                CleanupStaleIPVSConfig(kept, dsrFails)
         PROVE  OnlyUnwanted
    <2>1. CleanedUp((ipvsSvcs \ active) \ kept) /\ faults = 0 /\ pc = "ipvs"
      BY <1>14, CleanupStep DEF FaultInv, CleanupStaleIPVSConfig
    <2>2. active = Wanted
      BY <2>1, AllSetUp DEF FaultInv
    <2> QED
      BY <2>1, <2>2 DEF CleanedUp, OnlyUnwanted
  <1>15. CASE CleanupListFails
    BY <1>15 DEF CleanupListFails, OnlyUnwanted
  <1>16. ASSUME NEW stuck \in SUBSET Vips, SetupForDSR(stuck) PROVE OnlyUnwanted
    BY <1>16 DEF SetupForDSR, OnlyUnwanted
  <1>17. ASSUME NEW ready \in SUBSET gracefulQueue, gracefulSync(ready) PROVE OnlyUnwanted
    BY <1>17 DEF gracefulSync, OnlyUnwanted
  <1>18. CASE UNCHANGED vars
    BY <1>18 DEF vars, OnlyUnwanted
  <1> QED
    BY <1>1, <1>2, <1>3, <1>4, <1>5, <1>6, <1>7, <1>8, <1>9, <1>10, <1>11, <1>12,
       <1>13, <1>14, <1>15, <1>16, <1>17, <1>18
    DEF Next, Change, Sync, Graceful


\* As long as no call has failed, cleanupStaleIPVSConfig deletes no service that is wanted:
\* the active map it compares with is complete.
THEOREM WantedNeverDeleted == Spec => WantedServiceKept
  <1>1. ASSUME IInv, [Next]_vars, faults' = 0 PROVE OnlyUnwanted
    BY <1>1, DeletedUnwanted DEF IInv
  <1>2. IInv /\ [Next]_vars => [faults' = 0 => \A k \in ipvsSvcs \ ipvsSvcs' : k \notin Wanted]_vars
    BY <1>1 DEF OnlyUnwanted
  <1> QED
    BY <1>2, Invariant, PTL DEF Spec, WantedServiceKept
=============================================================================
