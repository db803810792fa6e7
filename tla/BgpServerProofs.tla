-------------------------- MODULE BgpServerProofs --------------------------
(***************************************************************************)
(* Proofs about BgpServer, for every set of nodes and external peers and   *)
(* every number of goroutines that call AddPolicies, and about             *)
(* VipAdvertisement, which uses the server that BgpServer starts, for      *)
(* every set of services and VIPs.                                         *)
(***************************************************************************)
EXTENDS BgpServer, VipAdvertisement, TLAPS

Peer == Nodes \cup ExternalPeers

\* TypeOK in parts: what the environment, the start of the server, GoBGP, the
\* syncs of the internal peers, and the goroutines change.
ClusterOK ==
    /\ own \in OwnForms
    /\ nodes \in [Nodes -> NodeForms \cup {NoNode}]
    /\ nodeEvents \in Seq(Nodes)
    /\ changes \in 0 .. MaxChanges /\ faults \in 0 .. MaxFaults
ConfigOK ==
    /\ bgpRRServer \in BOOLEAN /\ bgpRRClient \in BOOLEAN
    /\ pathPrepend \in {"none", "decimal", "prefixed"}
    /\ globalPeerRouters \in Seq(ExternalPeers)
    /\ bgpServerStarted \in BOOLEAN /\ listening \in BOOLEAN
    /\ podRoute => bgpServerStarted
    /\ pc["main"] # "start" => bgpServerStarted
GobgpOK ==
    /\ neighborSets \in [SetNames -> SUBSET Peer]
    /\ policies \in SUBSET PolicyNames /\ assigned \in SUBSET policies
InternalOK ==
    /\ peers \in SUBSET Peer
    /\ activeNodes \in SUBSET Nodes /\ forgotten \in SUBSET Nodes
    /\ toPeer \in SUBSET currentNodes /\ currentNodes \in SUBSET Nodes
    /\ NoPeerForgotten
ProcsOK ==
    /\ pc \in [Procs -> Labels]
    /\ on \in [Procs -> SetNames \cup PolicyNames]
    /\ cidrs \in [Procs -> SUBSET Peer]
    /\ toAdd \in [Procs -> SUBSET Peer]
    /\ toDelete \in [Procs -> SUBSET Peer]

PolicySteps == {"listPolicy", "addPolicy", "listAssignment", "assign"}

\* Which set or policy a goroutine is about at each step; a policy is assigned by
\* one that has seen it defined, and policies are never removed.
StepOK ==
    \A p \in Procs :
        /\ mu = p <=> pc[p] = "peering"
        /\ pc[p] \notin PolicySteps => on[p] \in SetNames
        /\ pc[p] \in {"listPolicy", "addPolicy"} => on[p] \in PolicyNames
        /\ pc[p] \in {"listAssignment", "assign"} => on[p] \in policies

IInv == ClusterOK /\ ConfigOK /\ GobgpOK /\ InternalOK /\ ProcsOK /\ StepOK

USE BgpAssumption DEF BgpAssumption, PolicySteps

\* The invariant is the type invariant and the property, part by part.
LEMMA Types == IInv => TypeOK /\ NoPeerForgotten
  BY DEF IInv, TypeOK, ClusterOK, ConfigOK, GobgpOK, InternalOK, ProcsOK, StepOK, Peer

\* The goroutines are distinct, and none is called free.
LEMMA ProcFacts ==
    /\ "main" \in Procs /\ "node" \in Procs /\ Others \subseteq Procs /\ "free" \notin Procs
    /\ "main" \notin Others /\ "node" \notin Others
  BY DEF Procs

-----------------------------------------------------------------------------
\* Init establishes the invariant.
LEMMA InitIInv == Init => IInv
  <1> SUFFICES ASSUME Init PROVE IInv
    OBVIOUS
  <1> USE DEF Init
  <1>1. ClusterOK
    BY DEF ClusterOK
  <1>2. ProcsOK
    BY DEF ProcsOK, Labels, SetNames
  <1>3. ConfigOK
    BY ProcFacts DEF ConfigOK
  <1>4. GobgpOK /\ InternalOK
    BY DEF GobgpOK, InternalOK, NoPeerForgotten
  <1>5. StepOK
    BY ProcFacts DEF StepOK, SetNames
  <1> QED
    BY <1>1, <1>2, <1>3, <1>4, <1>5 DEF IInv

-----------------------------------------------------------------------------
(* Environment and start.                                                  *)

\* Nodes come, go and change, and their events are lost.
LEMMA EnvironmentStep == IInv /\ Environment => IInv'
  <1> SUFFICES ASSUME IInv, Environment PROVE IInv'
    OBVIOUS
  <1>1. ClusterOK' /\ UNCHANGED <<config, gobgp, internal, pc, on, locals>>
    <2>1. ASSUME NEW n \in Nodes, NEW form \in NodeForms \cup {NoNode}, NodeChanges(n, form)
          PROVE  ClusterOK' /\ UNCHANGED <<config, gobgp, internal, pc, on, locals>>
      BY <2>1 DEF NodeChanges, IInv, ClusterOK
    <2>2. ASSUME NEW form \in OwnForms, OwnChanges(form)
          PROVE  ClusterOK' /\ UNCHANGED <<config, gobgp, internal, pc, on, locals>>
      BY <2>2 DEF OwnChanges, IInv, ClusterOK
    <2>3. CASE LoseEvent
      BY <2>3 DEF LoseEvent, Fault, IInv, ClusterOK
    <2> QED
      BY <2>1, <2>2, <2>3 DEF Environment
  <1>2. ConfigOK' /\ GobgpOK' /\ InternalOK' /\ ProcsOK' /\ StepOK'
    BY <1>1 DEF IInv, ConfigOK, GobgpOK, InternalOK, ProcsOK, StepOK, config, gobgp, internal,
                locals, NoPeerForgotten
  <1> QED
    BY <1>1, <1>2 DEF IInv

\* The list of peers names external ones, whether it is the configured one or the
\* annotation's.
LEMMA PeerListType == IInv => PeerList \in Seq(ExternalPeers) /\ ToSet(PeerList) \subseteq ExternalPeers
  <1> SUFFICES ASSUME IInv PROVE PeerList \in Seq(ExternalPeers) /\ ToSet(PeerList) \subseteq ExternalPeers
    OBVIOUS
  <1>1. PeerList \in Seq(ExternalPeers)
    BY DEF PeerList, IInv, ConfigOK, ClusterOK
  <1> QED
    BY <1>1 DEF ToSet

\* An attempt to start the server reads annotations that are in range.
LEMMA AnnotationsType ==
    IInv /\ AnnotationsRead => /\ bgpRRServer' \in BOOLEAN /\ bgpRRClient' \in BOOLEAN
                               /\ pathPrepend' \in {"none", "decimal", "prefixed"}
  <1> SUFFICES ASSUME IInv, AnnotationsRead
               PROVE  /\ bgpRRServer' \in BOOLEAN /\ bgpRRClient' \in BOOLEAN
                      /\ pathPrepend' \in {"none", "decimal", "prefixed"}
    OBVIOUS
  <1>1. bgpRRServer' \in BOOLEAN /\ bgpRRClient' \in BOOLEAN
    BY DEF AnnotationsRead, ReadRR
  <1>2. own.prepend \in {"none", "decimal", "prefixed"}
    BY DEF IInv, ClusterOK, AnnotationsRead
  <1> QED
    BY <1>1, <1>2 DEF AnnotationsRead, ReadPrepend, IInv, ConfigOK

\* Attempts to start the server, from the annotations to the pod route.
LEMMA StartStep == IInv /\ Start => IInv'
  <1> SUFFICES ASSUME IInv, Start PROVE IInv'
    OBVIOUS
  <1>1. ASSUME StartBgpServer PROVE IInv'
    <2> USE <1>1 DEF StartBgpServer
    <2>1. Starting
      BY DEF AnnotationsRead
    <2>2. ClusterOK'
      BY DEF IInv, ClusterOK, cluster
    <2>3. ConfigOK'
      BY AnnotationsType, PeerListType DEF IInv, ConfigOK
    <2>4. GobgpOK'
      BY DEF IInv, GobgpOK
    <2>5. InternalOK'
      BY PeerListType DEF IInv, InternalOK, internal, NoPeerForgotten, Peer
    <2>6. ProcsOK'
      BY ProcFacts DEF IInv, ProcsOK, locals, Labels
    <2>7. StepOK'
      BY <2>1, ProcFacts DEF IInv, ProcsOK, StepOK, internal, Starting
    <2> QED
      BY <2>2, <2>3, <2>4, <2>5, <2>6, <2>7 DEF IInv
  <1>2. CASE NoAsnFound
    BY <1>2 DEF NoAsnFound, vars, cluster, config, gobgp, internal, locals, IInv, ClusterOK,
                ConfigOK, GobgpOK, InternalOK, ProcsOK, StepOK, NoPeerForgotten
  <1>3. ASSUME AnnotationsRefused \/ StartBgpFails \/ PeersRefused \/ ConnectFails
        PROVE  IInv'
    <2>1. UNCHANGED <<gobgp, internal, pc, on, locals, bgpServerStarted>>
      BY <1>3 DEF AnnotationsRefused, StartBgpFails, PeersRefused, ConnectFails
    <2>2. GobgpOK' /\ InternalOK' /\ ProcsOK' /\ StepOK'
      BY <2>1 DEF IInv, GobgpOK, InternalOK, ProcsOK, StepOK, gobgp, internal, locals,
                  NoPeerForgotten
    <2>3. ClusterOK'
      <3>1. UNCHANGED <<own, nodes, nodeEvents, changes>>
        BY <1>3 DEF AnnotationsRefused, StartBgpFails, PeersRefused, ConnectFails, cluster
      <3>2. faults' \in 0 .. MaxFaults
        BY <1>3 DEF AnnotationsRefused, StartBgpFails, PeersRefused, ConnectFails, Fault, StopBgp,
                    IInv, ClusterOK, cluster
      <3> QED
        BY <3>1, <3>2 DEF IInv, ClusterOK
    <2>4. ConfigOK'
      <3>1. CASE AnnotationsRefused
        <4>1. bgpRRServer' \in BOOLEAN /\ bgpRRClient' \in BOOLEAN
          <5>1. CASE own.rr = "bad"
            BY <3>1, <5>1 DEF AnnotationsRefused, IInv, ConfigOK
          <5>2. CASE own.rr # "bad"
            BY <3>1, <5>2 DEF AnnotationsRefused, ReadRR
          <5> QED
            BY <5>1, <5>2
        <4>2. UNCHANGED <<pathPrepend, globalPeerRouters, bgpServerStarted, listening, podRoute, pc>>
          BY <2>1, <3>1 DEF AnnotationsRefused, gobgp
        <4> QED
          BY <4>1, <4>2 DEF IInv, ConfigOK
      <3>2. CASE StartBgpFails
        BY <2>1, <3>2, AnnotationsType DEF StartBgpFails, IInv, ConfigOK, gobgp
      <3>3. CASE PeersRefused
        <4>1. listening' \in BOOLEAN
          BY <3>3 DEF PeersRefused, StopBgp, IInv, ConfigOK
        <4> QED
          BY <2>1, <3>3, <4>1, AnnotationsType DEF PeersRefused, IInv, ConfigOK, gobgp
      <3>4. CASE ConnectFails
        <4>1. listening' \in BOOLEAN
          BY <3>4 DEF ConnectFails, StopBgp, IInv, ConfigOK
        <4> QED
          BY <2>1, <3>4, <4>1, AnnotationsType, PeerListType
             DEF ConnectFails, IInv, ConfigOK, gobgp
      <3> QED
        BY <1>3, <3>1, <3>2, <3>3, <3>4
    <2> QED
      BY <2>2, <2>3, <2>4 DEF IInv
  <1> QED
    BY <1>1, <1>2, <1>3 DEF Start

-----------------------------------------------------------------------------
(* AddPolicies.                                                            *)

\* Where a goroutine goes on behind AddPolicies, and where a pass begins.
LEMMA NextLabels ==
    ASSUME NEW p \in Procs
    PROVE  AfterPolicies(p) \in {"sync", "wait", "idle"} /\ FirstStep(p) \in {"sync", "wait", "idle", "nodes"}
  BY DEF AfterPolicies, FirstStep, Finished

\* What a goroutine outside syncInternalPeers may do to its own step.
LEMMA GotoStep ==
    ASSUME IInv, NEW p \in Procs, pc[p] \notin {"start", "peering"},
           NEW label \in Labels \ {"start", "peering"}, Goto(p, label),
           NEW o \in SetNames \cup PolicyNames, on' = [on EXCEPT ![p] = o],
           mu' = mu, policies \subseteq policies', bgpServerStarted' = bgpServerStarted,
           label \notin PolicySteps => o \in SetNames,
           label \in {"listPolicy", "addPolicy"} => o \in PolicyNames,
           label \in {"listAssignment", "assign"} => o \in policies'
    PROVE  /\ pc' \in [Procs -> Labels] /\ on' \in [Procs -> SetNames \cup PolicyNames]
           /\ pc'["main"] # "start" => bgpServerStarted'
           /\ StepOK'
  <1> USE DEF Goto, IInv, ProcsOK
  <1>1. pc' \in [Procs -> Labels] /\ on' \in [Procs -> SetNames \cup PolicyNames]
    OBVIOUS
  <1>2. pc'["main"] # "start" => bgpServerStarted'
    BY ProcFacts DEF ConfigOK
  <1>3. StepOK'
    <2> SUFFICES ASSUME NEW q \in Procs
                 PROVE  /\ mu' = q <=> pc'[q] = "peering"
                        /\ pc'[q] \notin PolicySteps => on'[q] \in SetNames
                        /\ pc'[q] \in {"listPolicy", "addPolicy"} => on'[q] \in PolicyNames
                        /\ pc'[q] \in {"listAssignment", "assign"} => on'[q] \in policies'
      BY DEF StepOK
    <2>1. CASE q = p
      BY <2>1 DEF StepOK
    <2>2. CASE q # p
      BY <2>2 DEF StepOK
    <2> QED
      BY <2>1, <2>2
  <1> QED
    BY <1>1, <1>2, <1>3

\* The steps that write the two sets of neighbours.
LEMMA PeerSetStep ==
    ASSUME IInv, NEW p \in Procs, ListNodes(p) \/ PeerSetSteps(p) \/ ExternalPeerSet(p)
    PROVE  IInv'
  <1> USE DEF ListNodes, PeerSetSteps, ListDefinedSet, AddDefinedSet, DeleteDefinedSet,
              ExternalPeerSet
  <1>1. ClusterOK'
    BY DEF cluster, IInv, ClusterOK
  <1>2. InternalOK'
    BY DEF gobgp, internal, IInv, InternalOK, NoPeerForgotten
  <1>3. /\ pc[p] \notin {"start", "peering"}
        /\ mu' = mu /\ policies' = policies /\ bgpServerStarted' = bgpServerStarted
    BY DEF gobgp, internal, config
  <1>4. \E label \in Labels \ {"start", "peering"}, o \in SetNames \cup PolicyNames :
            /\ Goto(p, label) /\ on' = [on EXCEPT ![p] = o]
            /\ label \notin PolicySteps => o \in SetNames
            /\ label \in {"listPolicy", "addPolicy"} => o \in PolicyNames
            /\ label \notin {"listAssignment", "assign"}
    <2>0. on \in [Procs -> SetNames \cup PolicyNames] /\ on = [on EXCEPT ![p] = on[p]]
      BY DEF IInv, ProcsOK
    <2>1. CASE ListNodes(p)
      <3>1. PICK label \in {"list", "external"} : Goto(p, label)
        BY <2>1
      <3>2. on[p] \in SetNames
        BY <2>1 DEF IInv, StepOK
      <3> QED
        BY <2>1, <3>1, <3>2, <2>0 DEF Labels
    <2>2. CASE ListDefinedSet(p)
      BY <2>2, <2>0 DEF IInv, StepOK, Labels
    <2>3. CASE AddDefinedSet(p)
      BY <2>3, <2>0 DEF IInv, StepOK, Labels
    <2>4. CASE DeleteDefinedSet(p)
      <3>1. CASE on[p] = "iBGPpeerset"
        <4>1. on[p] \in SetNames /\ Goto(p, "external") /\ on' = on
          BY <2>4, <3>1 DEF SetNames
        <4>2. "external" \in Labels \ {"start", "peering"}
          BY DEF Labels
        <4> QED
          BY <2>0, <4>1, <4>2
      <3>2. CASE on[p] # "iBGPpeerset"
        BY <2>4, <2>0, <3>2 DEF Labels, PolicyNames
      <3> QED
        BY <3>1, <3>2
    <2>5. CASE ExternalPeerSet(p)
      <3>1. "list" \in Labels \ {"start", "peering"} /\ "allpeerset" \in SetNames
        BY DEF Labels, SetNames
      <3>2. Goto(p, "list") /\ on' = [on EXCEPT ![p] = "allpeerset"]
        BY <2>5
      <3> QED
        BY <3>1, <3>2
    <2> QED
      BY <2>1, <2>2, <2>3, <2>4, <2>5
  <1>5. /\ pc' \in [Procs -> Labels] /\ on' \in [Procs -> SetNames \cup PolicyNames]
        /\ pc'["main"] # "start" => bgpServerStarted'
        /\ StepOK'
    BY <1>3, <1>4, GotoStep
  <1>6. ConfigOK'
    BY <1>5 DEF gobgp, config, IInv, ConfigOK
  <1>7. GobgpOK'
    BY DEF IInv, GobgpOK, gobgp, ProcsOK, StepOK
  <1>8. ProcsOK'
    <2>1. PolicyNodes \subseteq Peer /\ External \subseteq Peer
      BY DEF PolicyNodes, Present, External, Peer, IInv, ConfigOK, ToSet
    <2> QED
      BY <1>5, <2>1 DEF IInv, ProcsOK, GobgpOK, StepOK
  <1> QED
    BY <1>1, <1>2, <1>5, <1>6, <1>7, <1>8 DEF IInv

\* The steps that define and assign the two policies.
LEMMA PolicyStep ==
    ASSUME IInv, NEW p \in Procs,
           ListPolicy(p) \/ AddPolicy(p) \/ ListAssignment(p) \/ AddPolicyAssignment(p)
    PROVE  IInv'
  <1> USE DEF ListPolicy, AddPolicy, ListAssignment, AddPolicyAssignment
  <1>1. ClusterOK'
    BY DEF cluster, IInv, ClusterOK
  <1>2. InternalOK'
    BY DEF gobgp, internal, IInv, InternalOK, NoPeerForgotten
  <1>3. /\ pc[p] \notin {"start", "peering"}
        /\ mu' = mu /\ policies \subseteq policies' /\ bgpServerStarted' = bgpServerStarted
    BY DEF gobgp, internal, config
  <1>4. GobgpOK'
    BY DEF IInv, GobgpOK, gobgp, StepOK
  <1>5. \E label \in Labels \ {"start", "peering"}, o \in SetNames \cup PolicyNames :
            /\ Goto(p, label) /\ on' = [on EXCEPT ![p] = o]
            /\ label \notin PolicySteps => o \in SetNames
            /\ label \in {"listPolicy", "addPolicy"} => o \in PolicyNames
            /\ label \in {"listAssignment", "assign"} => o \in policies'
    <2>0. on \in [Procs -> SetNames \cup PolicyNames] /\ on = [on EXCEPT ![p] = on[p]]
      BY DEF IInv, ProcsOK
    <2>1. ASSUME EndPolicies(p)
          PROVE  \E label \in {"sync", "wait", "idle"} : Goto(p, label) /\ on' = [on EXCEPT ![p] = "iBGPpeerset"]
      BY <2>1, NextLabels DEF EndPolicies
    <2>2. ASSUME EndPolicies(p) PROVE <1>5!:
      BY <2>1, <2>2 DEF Labels, SetNames
    <2>3. ASSUME NextPolicy(p) PROVE <1>5!:
      <3>1. CASE on[p] = "export"
        BY <2>3, <3>1 DEF NextPolicy, Labels, PolicyNames
      <3>2. CASE on[p] # "export"
        BY <2>2, <2>3, <3>2 DEF NextPolicy
      <3> QED
        BY <3>1, <3>2
    <2>4. CASE ListPolicy(p)
      <3>1. CASE EndPolicies(p)
        BY <3>1, <2>2
      <3>2. CASE Goto(p, IF on[p] \in policies THEN "listAssignment" ELSE "addPolicy") /\ UNCHANGED on
        <4>1. CASE on[p] \in policies
          BY <1>3, <2>0, <3>2, <4>1 DEF Labels
        <4>2. CASE on[p] \notin policies
          BY <2>0, <2>4, <3>2, <4>2 DEF Labels, IInv, StepOK
        <4> QED
          BY <4>1, <4>2
      <3> QED
        BY <2>4, <3>1, <3>2
    <2>5. CASE AddPolicy(p)
      <3>1. CASE on[p] \in policies
        BY <2>5, <3>1, <2>2
      <3>2. CASE on[p] \notin policies
        BY <2>0, <2>5, <3>2 DEF Labels
      <3> QED
        BY <3>1, <3>2
    <2>6. CASE ListAssignment(p)
      <3>1. CASE on[p] \in assigned
        BY <2>6, <3>1, <2>3
      <3>2. CASE on[p] \notin assigned
        BY <1>3, <2>0, <2>6, <3>2 DEF Labels, IInv, StepOK
      <3> QED
        BY <3>1, <3>2
    <2>7. CASE AddPolicyAssignment(p)
      BY <2>7, <2>2, <2>3
    <2> QED
      BY <2>4, <2>5, <2>6, <2>7
  <1>6. /\ pc' \in [Procs -> Labels] /\ on' \in [Procs -> SetNames \cup PolicyNames]
        /\ pc'["main"] # "start" => bgpServerStarted'
        /\ StepOK'
    BY <1>3, <1>5, GotoStep
  <1>7. ConfigOK'
    BY <1>6 DEF gobgp, config, IInv, ConfigOK
  <1>8. ProcsOK'
    BY <1>6 DEF IInv, ProcsOK, locals
  <1> QED
    BY <1>1, <1>2, <1>4, <1>6, <1>7, <1>8 DEF IInv

-----------------------------------------------------------------------------
(* syncInternalPeers, and who calls what.                                  *)

\* Only the holder of mu works on activeNodes; a peer is added to the server with
\* the node, and leaves the server before the node is forgotten.
LEMMA SyncStep ==
    ASSUME IInv, NEW p \in Procs, syncInternalPeers(p)
    PROVE  IInv'
  <1>1. ASSUME NEW n \in Nodes, AddPeer(p, n) \/ DeletePeer(p, n) PROVE IInv'
    <2> USE <1>1 DEF AddPeer, DeletePeer
    <2>1. ClusterOK'
      BY DEF IInv, ClusterOK, cluster, Fault
    <2>2. InternalOK'
      BY DEF IInv, InternalOK, NoPeerForgotten, Peer
    <2>3. UNCHANGED <<config, neighborSets, policies, assigned, podRoute, mu, pc, on, locals>>
      OBVIOUS
    <2>4. ConfigOK' /\ GobgpOK' /\ ProcsOK' /\ StepOK'
      BY <2>3 DEF IInv, ConfigOK, GobgpOK, ProcsOK, StepOK, config, locals
    <2> QED
      BY <2>1, <2>2, <2>4 DEF IInv
  <1>2. ASSUME LockAndList(p) \/ Unlock(p) PROVE IInv'
    <2> USE <1>2 DEF LockAndList, Unlock
    <2>1. PICK label \in {"peering", "wait", "idle"} : Goto(p, label)
      BY DEF Finished
    <2>2. ClusterOK' /\ GobgpOK'
      BY DEF IInv, ClusterOK, GobgpOK, cluster, gobgp
    <2>3. InternalOK'
      BY DEF IInv, InternalOK, NoPeerForgotten, gobgp, PeerNodes, Present
    <2>4. ProcsOK'
      BY <2>1 DEF IInv, ProcsOK, locals, Goto, Labels
    <2>5. ConfigOK'
      <3>1. pc[p] # "start"
        BY DEF IInv, StepOK
      <3> QED
        BY <2>1, <3>1, ProcFacts DEF IInv, ProcsOK, ConfigOK, config, gobgp, Goto
    <2>6. StepOK'
      <3>1. CASE LockAndList(p)
        BY <3>1, ProcFacts DEF IInv, ProcsOK, StepOK, Goto, gobgp
      <3>2. CASE Unlock(p)
        BY <3>2, ProcFacts DEF IInv, ProcsOK, StepOK, Goto, Finished, gobgp
      <3> QED
        BY <3>1, <3>2
    <2> QED
      BY <2>2, <2>3, <2>4, <2>5, <2>6 DEF IInv
  <1> QED
    BY <1>1, <1>2 DEF syncInternalPeers

\* The calls: a node event, a pass of Run, a service or endpoints event.
LEMMA CallStep ==
    ASSUME IInv, OnNodeUpdate \/ Pass \/ \E p \in Others : OnOtherEvent(p)
    PROVE  IInv'
  <1>1. ASSUME NEW p \in Procs, pc[p] \in {"idle", "pass", "wait"}, Goto(p, FirstStep(p)),
               UNCHANGED <<on, mu, policies, bgpServerStarted>>
        PROVE  /\ pc' \in [Procs -> Labels] /\ on' \in [Procs -> SetNames \cup PolicyNames]
               /\ pc'["main"] # "start" => bgpServerStarted'
               /\ StepOK'
    <2>1. on[p] \in SetNames \cup PolicyNames /\ on' = [on EXCEPT ![p] = on[p]]
      BY <1>1 DEF IInv, ProcsOK
    <2>2. /\ FirstStep(p) \in Labels \ ({"start", "peering"} \cup PolicySteps)
          /\ on[p] \in SetNames
      BY <1>1, NextLabels DEF Labels, IInv, StepOK
    <2> QED
      BY <1>1, <2>1, <2>2, GotoStep
  <1>2. CASE Pass
    <2> USE <1>2 DEF Pass
    <2>1. /\ pc' \in [Procs -> Labels] /\ on' \in [Procs -> SetNames \cup PolicyNames]
          /\ pc'["main"] # "start" => bgpServerStarted'
          /\ StepOK'
      BY <1>1, ProcFacts DEF internal, config
    <2>2. bgpServerStarted
      BY DEF IInv, ConfigOK
    <2>3. ClusterOK' /\ GobgpOK' /\ InternalOK'
      BY DEF IInv, ClusterOK, GobgpOK, InternalOK, Fault, internal, NoPeerForgotten
    <2>4. ConfigOK' /\ ProcsOK'
      BY <2>1, <2>2 DEF IInv, ConfigOK, ProcsOK, config, locals
    <2> QED
      BY <2>1, <2>3, <2>4 DEF IInv
  <1>3. ASSUME NEW p \in Procs, pc[p] = "idle", ClusterOK',
               Goto(p, FirstStep(p)), UNCHANGED <<config, gobgp, internal, on, locals>>
        PROVE  IInv'
    <2>1. /\ pc' \in [Procs -> Labels] /\ on' \in [Procs -> SetNames \cup PolicyNames]
          /\ pc'["main"] # "start" => bgpServerStarted'
          /\ StepOK'
      BY <1>1, <1>3 DEF gobgp, internal, config
    <2>2. GobgpOK' /\ InternalOK'
      BY <1>3 DEF IInv, GobgpOK, InternalOK, gobgp, internal, NoPeerForgotten
    <2>3. ConfigOK' /\ ProcsOK'
      BY <1>3, <2>1 DEF IInv, ConfigOK, ProcsOK, gobgp, config, locals
    <2> QED
      BY <1>3, <2>1, <2>2, <2>3 DEF IInv
  <1>4. CASE OnNodeUpdate
    <2> USE <1>4 DEF OnNodeUpdate
    <2>1. ClusterOK'
      BY DEF IInv, ClusterOK
    <2>2. CASE bgpServerStarted
      BY <1>3, <2>1, <2>2, ProcFacts
    <2>3. CASE ~bgpServerStarted
      <3>1. UNCHANGED <<config, gobgp, internal, pc, on, locals>>
        BY <2>3
      <3> QED
        BY <2>1, <3>1 DEF IInv, ConfigOK, GobgpOK, InternalOK, ProcsOK, StepOK, config, gobgp,
                          internal, locals, NoPeerForgotten
    <2> QED
      BY <2>2, <2>3
  <1>5. ASSUME NEW p \in Others, OnOtherEvent(p) PROVE IInv'
    <2>1. ClusterOK'
      BY <1>5 DEF OnOtherEvent, IInv, ClusterOK
    <2> QED
      BY <1>3, <1>5, <2>1, ProcFacts DEF OnOtherEvent
  <1> QED
    BY <1>2, <1>4, <1>5

-----------------------------------------------------------------------------
\* The invariant holds in every reachable state.
LEMMA Invariant == Spec => []IInv
  <1>1. IInv /\ [Next]_vars => IInv'
    <2> SUFFICES ASSUME IInv, [Next]_vars PROVE IInv'
      OBVIOUS
    <2>1. CASE UNCHANGED vars
      BY <2>1 DEF vars, cluster, config, gobgp, internal, locals, IInv, ClusterOK, ConfigOK,
                  GobgpOK, InternalOK, ProcsOK, StepOK, NoPeerForgotten
    <2>2. ASSUME NEW p \in Procs, AddPolicies(p) \/ syncInternalPeers(p) PROVE IInv'
      BY <2>2, PeerSetStep, PolicyStep, SyncStep DEF AddPolicies
    <2>3. CASE Next
      BY <2>2, <2>3, EnvironmentStep, StartStep, CallStep, ProcFacts
         DEF Next, Main, NodeHandler, Steps
    <2> QED
      BY <2>1, <2>3
  <1> QED
    BY InitIInv, <1>1, PTL DEF Spec

\* Whatever the goroutines interleave, syncInternalPeers is entered by one at a
\* time, a policy is assigned only once it is defined, and the pod CIDR is
\* announced only by a started server.
THEOREM TypeCorrect == Spec => []TypeOK
  <1>1. IInv => TypeOK
    BY Types
  <1> QED
    BY <1>1, Invariant, PTL

-----------------------------------------------------------------------------
(* The record of the peers.                                                *)

\* Until the server is started nobody has entered AddPolicies or
\* syncInternalPeers, so the server begins with an empty record.
RecordOK ==
    /\ RoutersConnected
    /\ pc["main"] = "start" => ~bgpServerStarted
    /\ ~bgpServerStarted => /\ activeNodes = {}
                            /\ \A p \in Procs : pc[p] \in {"start", "idle"}

\* A step that leaves the peers, their record and the start alone.
LEMMA SameRecord ==
    ASSUME IInv, RecordOK,
           UNCHANGED <<peers, activeNodes, globalPeerRouters, bgpServerStarted>>,
           faults' \in {faults, faults + 1},
           pc' = pc \/ (bgpServerStarted /\ pc'["main"] # "start")
    PROVE  RecordOK'
  <1>1. External' = External
    BY DEF External
  <1>2. faults \in Nat /\ (faults' = 0 => faults = 0)
    BY DEF IInv, ClusterOK
  <1>3. RoutersConnected'
    BY <1>1, <1>2 DEF RecordOK, RoutersConnected
  <1> QED
    BY <1>3 DEF RecordOK

\* Attempts to start the server: the one that succeeds connects to all the routers.
LEMMA StartRecord == IInv /\ RecordOK /\ Start => RecordOK'
  <1> SUFFICES ASSUME IInv, RecordOK, Start PROVE RecordOK'
    OBVIOUS
  <1>1. CASE NoAsnFound
    BY <1>1, SameRecord DEF NoAsnFound, vars, cluster, config, gobgp, internal
  <1>2. CASE AnnotationsRefused \/ StartBgpFails \/ PeersRefused
    <2>1. faults' \in {faults, faults + 1}
      BY <1>2 DEF AnnotationsRefused, StartBgpFails, PeersRefused, Fault, StopBgp, cluster, IInv,
                  ClusterOK
    <2>2. UNCHANGED <<peers, activeNodes, globalPeerRouters, bgpServerStarted, pc>>
      BY <1>2 DEF AnnotationsRefused, StartBgpFails, PeersRefused, gobgp, internal
    <2> QED
      BY <2>1, <2>2, SameRecord
  <1>3. CASE ConnectFails
    <2>1. ~bgpServerStarted
      BY <1>3 DEF ConnectFails, AnnotationsRead, Starting, RecordOK
    <2> QED
      BY <1>3, <2>1 DEF ConnectFails, gobgp, internal, RecordOK, RoutersConnected
  <1>4. CASE StartBgpServer
    <2>1. ~bgpServerStarted /\ pc["main"] = "start"
      BY <1>4 DEF StartBgpServer, AnnotationsRead, Starting, RecordOK
    <2>2. activeNodes' = {} /\ peers' = External'
      BY <1>4, <2>1 DEF StartBgpServer, internal, RecordOK, External
    <2>3. bgpServerStarted' /\ pc'["main"] # "start"
      BY <1>4, ProcFacts DEF StartBgpServer, IInv, ProcsOK
    <2> QED
      BY <2>2, <2>3 DEF RecordOK, RoutersConnected
  <1> QED
    BY <1>1, <1>2, <1>3, <1>4 DEF Start

\* syncInternalPeers records a node with its peer and forgets it with its peer; a
\* router is not a node.
LEMMA SyncRecord ==
    ASSUME IInv, RecordOK, NEW p \in Procs, syncInternalPeers(p)
    PROVE  RecordOK'
  <1>0. bgpServerStarted /\ pc[p] # "start"
    BY DEF syncInternalPeers, LockAndList, Unlock, AddPeer, DeletePeer, IInv, StepOK, RecordOK
  <1>1. ASSUME NEW label \in {"peering", "wait", "idle"}, Goto(p, label)
        PROVE  pc'["main"] # "start"
    BY <1>0, <1>1, ProcFacts DEF Goto, IInv, ProcsOK, RecordOK
  <1>2. CASE LockAndList(p) \/ Unlock(p)
    <2>1. PICK label \in {"peering", "wait", "idle"} : Goto(p, label)
      BY <1>2 DEF LockAndList, Unlock, Finished
    <2>2. UNCHANGED <<peers, activeNodes, globalPeerRouters, bgpServerStarted, faults>>
      BY <1>2 DEF LockAndList, Unlock, cluster, config, gobgp
    <2> QED
      BY <1>0, <1>1, <2>1, <2>2, SameRecord
  <1>3. ASSUME NEW n \in Nodes, AddPeer(p, n) \/ DeletePeer(p, n) PROVE RecordOK'
    <2>1. UNCHANGED <<globalPeerRouters, bgpServerStarted, pc>> /\ External' = External
      BY <1>3 DEF AddPeer, DeletePeer, config, External
    <2>2. n \notin External
      BY DEF External, IInv, ConfigOK, ToSet
    <2>3. faults \in Nat /\ faults' \in {faults, faults + 1}
      BY <1>3 DEF AddPeer, DeletePeer, cluster, Fault, IInv, ClusterOK
    <2>4. RoutersConnected'
      <3>1. CASE DeletePeer(p, n)
        <4>1. External' \subseteq peers'
          BY <1>0, <2>1, <2>2, <3>1 DEF DeletePeer, RecordOK, RoutersConnected
        <4>2. ASSUME faults' = 0 PROVE peers' = activeNodes' \cup External'
          <5>1. faults = 0 /\ peers' = peers \ {n} /\ activeNodes' = activeNodes \ {n}
            BY <2>3, <3>1, <4>2 DEF DeletePeer, Fault
          <5> QED
            BY <1>0, <2>1, <2>2, <5>1 DEF RecordOK, RoutersConnected
        <4> QED
          BY <4>1, <4>2 DEF RoutersConnected
      <3>2. CASE AddPeer(p, n)
        <4>1. External' \subseteq peers'
          BY <1>0, <2>1, <3>2 DEF AddPeer, RecordOK, RoutersConnected
        <4>2. ASSUME faults' = 0 PROVE peers' = activeNodes' \cup External'
          <5>1. faults = 0 /\ peers' = peers \cup {n} /\ activeNodes' = activeNodes \cup {n}
            BY <2>3, <3>2, <4>2 DEF AddPeer, Fault
          <5> QED
            BY <1>0, <2>1, <5>1 DEF RecordOK, RoutersConnected
        <4> QED
          BY <4>1, <4>2 DEF RoutersConnected
      <3> QED
        BY <1>3, <3>1, <3>2
    <2> QED
      BY <1>0, <2>1, <2>4 DEF RecordOK
  <1> QED
    BY <1>2, <1>3 DEF syncInternalPeers

\* AddPolicies touches no peer.
LEMMA PoliciesRecord ==
    ASSUME IInv, RecordOK, NEW p \in Procs, AddPolicies(p)
    PROVE  RecordOK'
  <1> USE DEF AddPolicies, ListNodes, PeerSetSteps, ListDefinedSet, AddDefinedSet, DeleteDefinedSet,
              ExternalPeerSet, ListPolicy, AddPolicy, ListAssignment, AddPolicyAssignment
  <1>1. bgpServerStarted /\ pc[p] # "start"
    BY DEF RecordOK
  <1>2. UNCHANGED <<peers, activeNodes, globalPeerRouters, bgpServerStarted, faults>>
    BY DEF cluster, config, gobgp, internal
  <1>3. PICK label \in Labels \ {"start"} : Goto(p, label)
    <2>1. \A l \in {"list", "external", "add", "delete", "listPolicy", "addPolicy",
                    "listAssignment", "assign"} : l \in Labels \ {"start"}
      BY DEF Labels
    <2>2. AfterPolicies(p) \in Labels \ {"start"}
      BY NextLabels DEF Labels
    <2> QED
      BY <2>1, <2>2 DEF EndPolicies, NextPolicy
  <1>4. pc'["main"] # "start"
    BY <1>1, <1>3, ProcFacts DEF Goto, IInv, ProcsOK, RecordOK
  <1> QED
    BY <1>1, <1>2, <1>4, SameRecord

\* The calls, by which a goroutine of a started server begins.
LEMMA CallRecord ==
    ASSUME IInv, RecordOK, OnNodeUpdate \/ Pass \/ \E p \in Others : OnOtherEvent(p)
    PROVE  RecordOK'
  <1>1. /\ UNCHANGED <<peers, activeNodes, globalPeerRouters, bgpServerStarted>>
        /\ faults' \in {faults, faults + 1}
    BY DEF OnNodeUpdate, Pass, OnOtherEvent, Fault, config, gobgp, internal
  <1>2. CASE pc' = pc
    BY <1>1, <1>2, SameRecord
  <1>3. ASSUME NEW p \in Procs, bgpServerStarted, Goto(p, FirstStep(p)) PROVE RecordOK'
    <2>1. pc'["main"] # "start"
      <3>1. FirstStep(p) # "start"
        BY NextLabels
      <3> QED
        BY <1>3, <3>1, ProcFacts DEF Goto, IInv, ProcsOK, RecordOK
    <2> QED
      BY <1>1, <1>3, <2>1, SameRecord
  <1>4. CASE Pass
    <2>1. bgpServerStarted
      BY <1>4, ProcFacts DEF Pass, RecordOK
    <2> QED
      BY <1>3, <1>4, <2>1, ProcFacts DEF Pass
  <1>5. CASE OnNodeUpdate
    BY <1>2, <1>3, <1>5, ProcFacts DEF OnNodeUpdate
  <1>6. ASSUME NEW p \in Others, OnOtherEvent(p) PROVE RecordOK'
    BY <1>3, <1>6, ProcFacts DEF OnOtherEvent
  <1> QED
    BY <1>4, <1>5, <1>6

\* The record is right in every reachable state.
LEMMA RecordInvariant == Spec => []RecordOK
  <1>1. Init => RecordOK
    BY ProcFacts DEF Init, RecordOK, RoutersConnected
  <1>2. IInv /\ RecordOK /\ [Next]_vars => RecordOK'
    <2> SUFFICES ASSUME IInv, RecordOK, [Next]_vars PROVE RecordOK'
      OBVIOUS
    <2>1. CASE UNCHANGED vars
      BY <2>1, SameRecord DEF vars, cluster, config, gobgp, internal
    <2>2. CASE Environment
      BY <2>2, SameRecord DEF Environment, NodeChanges, OwnChanges, LoseEvent, Fault, config, gobgp,
                              internal
    <2>3. ASSUME NEW p \in Procs, AddPolicies(p) \/ syncInternalPeers(p) PROVE RecordOK'
      BY <2>3, PoliciesRecord, SyncRecord
    <2>4. CASE Next
      BY <2>2, <2>3, <2>4, StartRecord, CallRecord, ProcFacts
         DEF Next, Main, NodeHandler, Steps
    <2> QED
      BY <2>1, <2>4
  <1> QED
    BY Invariant, <1>1, <1>2, PTL DEF Spec

\* At every moment, whichever goroutine is syncing, however old its list of nodes
\* and whatever has failed, no neighbour that syncInternalPeers has added is missing
\* from activeNodes, the only record by which a later pass can remove it, unless
\* DeletePeer failed to remove it; every
\* configured or annotated router is still a peer of the started server; and without
\* failures the other peers are exactly the nodes on record.
THEOREM RecordIsRight == Spec => []PeersAsRecorded
  <1>1. RecordOK /\ IInv => PeersAsRecorded
    BY Types DEF RecordOK, PeersAsRecorded
  <1> QED
    BY <1>1, Invariant, RecordInvariant, PTL

-----------------------------------------------------------------------------
(* Service VIPs.  VipAdvertisement works on the server that this component *)
(* starts: the two share bgpServerStarted, and nothing else.               *)

Reading == {"endpoints", "activeEndpoints", "externalEndpoints"}
VipLabels == {"start", "idle", "services", "list", "compare", "addSet", "deleteSet", "active",
              "advertise", "withdraw", "external", "withdrawExternal"} \cup Reading

\* A notification is about a change, so it has an old object or a new one.
Notification == {e \in [old : AllSpecs, new : AllSpecs] : e.old # e.new}

\* What a lister of the services may hold.
Snapshots == {l \in [Services -> AllSpecs] : \A s \in Services : l[s] \in States(s)}

\* The listers and their notifications, GoBGP, and the locals of the goroutines.
ListersOK ==
    /\ svcLister \in Snapshots
    /\ epLister \in [Services -> EpKinds]
    /\ \A s \in Services : epLister[s] \in EpStates[s]
    /\ svcEvents \in Seq(Notification)
    /\ vipChanges \in 0 .. MaxVipChanges
RibOK == rib \in SUBSET Vips /\ prefixSet \in SUBSET Vips /\ exported \in SUBSET rib
ListsOK ==
    /\ listed \in [VipProcs -> Snapshots \cup {NotListed}]
    /\ toAdvertise \in [VipProcs -> SUBSET Vips] /\ toWithdraw \in [VipProcs -> SUBSET Vips]
    /\ current \in [VipProcs -> SUBSET Vips]
    /\ vipToAdd \in [VipProcs -> SUBSET Vips] /\ vipToDelete \in [VipProcs -> SUBSET Vips]

\* What the service listener knows of the notification it handles at each step.
EventOK ==
    /\ vipPc["svc"] # "idle" => event \in Notification
    /\ vipPc["svc"] = "active" => event.new = NoSvc
    /\ vipPc["svc"] = "activeEndpoints" => event.new = NoSvc
    /\ vipPc["svc"] \in {"services", "endpoints"} => event.new # NoSvc
    /\ vipPc["svc"] \in {"external", "externalEndpoints"} => event.old # NoSvc /\ event.new # NoSvc

\* Before the start of the server nothing is in it, and no goroutine but a service
\* listener at the end of an update is past its test of bgpServerStarted.
BeforeStart ==
    \/ bgpServerStarted
    \/ /\ rib = {} /\ prefixSet = {}
       /\ \A p \in VipProcs :
             vipPc[p] \in {"start", "idle", "external", "externalEndpoints", "withdrawExternal"}

\* A list that is not stale holds no VIP that this node must advertise, and a
\* reading of the services that is not stale has the services of the lister.
FreshOK ==
    /\ \A p \in VipProcs : p \notin stale => toWithdraw[p] \cap ActiveVIPs = {}
    /\ \A p \in VipProcs : vipPc[p] \in Reading =>
          listed[p] \in Snapshots /\ (p \notin stale => listed[p] = svcLister)

VipInv ==
    /\ ListersOK /\ RibOK /\ ListsOK /\ EventOK /\ FreshOK
    /\ bgpServerStarted \in BOOLEAN
    /\ vipPc \in [VipProcs -> VipLabels]
    /\ BeforeStart

\* A service is of one of its forms, whose VIPs are VIPs.
LEMMA SpecFields ==
    ASSUME NEW spec \in AllSpecs, spec # NoSvc
    PROVE  /\ spec.adv \subseteq Vips /\ spec.noadv \subseteq Vips /\ spec.ext \subseteq Vips
           /\ AllOf(spec) \subseteq Vips
  <1>1. PICK s \in Services : spec \in SvcSpecs[s]
    BY DEF AllSpecs, States
  <1> QED
    BY <1>1, VipAssumption DEF AllOf

\* What getActiveVIPs and getAllVIPs return; nothing is both to advertise and to
\* withdraw.
LEMMA VipLists ==
    ASSUME NEW svcs \in Snapshots
    PROVE  /\ ActiveOf(svcs) \subseteq Vips /\ WithdrawnVIPs(svcs) \subseteq Vips
           /\ WithdrawnVIPs(svcs) \cap ActiveOf(svcs) = {}
  <1>1. \A s \in PresentIn(svcs) : /\ svcs[s].adv \subseteq Vips
                                   /\ svcs[s].noadv \subseteq Vips
                                   /\ AllOf(svcs[s]) \subseteq Vips
    BY SpecFields DEF Snapshots, PresentIn
  <1>2. ActiveOf(svcs) \subseteq Vips
    BY <1>1 DEF ActiveOf
  <1>3. WithdrawnVIPs(svcs) \subseteq Vips
    BY <1>1 DEF WithdrawnVIPs
  <1>4. ASSUME NEW v \in WithdrawnVIPs(svcs) PROVE v \notin ActiveOf(svcs)
    BY <1>4 DEF WithdrawnVIPs
  <1> QED
    BY <1>2, <1>3, <1>4

LEMMA VipAll ==
    ASSUME ListersOK
    PROVE  AdvertisableVIPs \subseteq Vips
  <1>1. \A s \in PresentServices : svcLister[s].adv \subseteq Vips
    BY SpecFields DEF ListersOK, Snapshots, PresentServices, PresentIn
  <1> QED
    BY <1>1 DEF AdvertisableVIPs

\* The invariant has the type invariant in it.
LEMMA VipTypes == VipInv => VipTypeOK
  <1> SUFFICES ASSUME VipInv PROVE VipTypeOK
    OBVIOUS
  <1>1. \A s \in Services : svcLister[s] \in States(s) /\ epLister[s] \in EpStates[s]
    BY DEF VipInv, ListersOK, Snapshots
  <1>2. \A p \in VipProcs :
            listed[p] = NotListed \/ \A s \in Services : listed[p][s] \in States(s)
    BY DEF VipInv, ListsOK, Snapshots
  <1>3. \A p \in VipProcs : /\ toAdvertise[p] \cup toWithdraw[p] \in SUBSET Vips
                            /\ vipToAdd[p] \cup vipToDelete[p] \cup current[p] \in SUBSET Vips
    BY DEF VipInv, ListsOK
  <1> QED
    BY <1>1, <1>2, <1>3 DEF VipInv, VipTypeOK, ListersOK, RibOK, VipLabels, Reading

\* Init establishes the invariant.
LEMMA VipInitInv == VipInit => VipInv
  <1> SUFFICES ASSUME VipInit PROVE VipInv
    OBVIOUS
  <1> USE DEF VipInit
  <1>1. ListersOK
    BY VipAssumption DEF ListersOK, Snapshots
  <1>2. RibOK /\ ListsOK /\ FreshOK
    BY DEF RibOK, ListsOK, FreshOK, Reading, VipProcs
  <1>3. vipPc \in [VipProcs -> VipLabels] /\ vipPc["svc"] = "idle"
    BY DEF VipProcs, VipLabels, Reading
  <1>4. EventOK
    BY <1>3 DEF EventOK
  <1>5. BeforeStart
    BY DEF BeforeStart
  <1> QED
    BY <1>1, <1>2, <1>3, <1>4, <1>5 DEF VipInv

\* A change of a service or of its endpoints makes every list that is still to be
\* applied stale.
LEMMA VipEnvironmentStep == VipInv /\ ApiChanges => VipInv'
  <1> SUFFICES ASSUME VipInv, ApiChanges PROVE VipInv'
    OBVIOUS
  <1>1. PICK s \in Services : \/ \E spec \in States(s) : ServiceChanges(s, spec)
                             \/ \E eps \in EpStates[s] : EndpointsChange(s, eps)
    BY DEF ApiChanges
  <1>2. /\ stale' = {p \in VipProcs : listed[p] # NotListed \/ toWithdraw[p] # {}}
        /\ UNCHANGED <<bgpServerStarted, rib, prefixSet, exported, vipPc, listed, toAdvertise, toWithdraw,
                       current, vipToAdd, vipToDelete, event>>
    BY <1>1 DEF ServiceChanges, EndpointsChange, bgpVars, vipLocals, Deciding
  <1>3. ListersOK'
    <2>1. ASSUME NEW spec \in States(s), ServiceChanges(s, spec) PROVE ListersOK'
      <3>1. spec \in AllSpecs /\ svcLister[s] \in AllSpecs
        BY <2>1 DEF AllSpecs, VipInv, ListersOK, Snapshots
      <3>2. [old |-> svcLister[s], new |-> spec] \in Notification
        BY <2>1, <3>1 DEF Notification, ServiceChanges
      <3>3. svcEvents' \in Seq(Notification)
        BY <2>1, <3>2 DEF ServiceChanges, VipInv, ListersOK
      <3>4. vipChanges' \in 0 .. MaxVipChanges /\ epLister' = epLister
        BY <2>1, VipAssumption DEF ServiceChanges, VipInv, ListersOK
      <3>5. svcLister' = [svcLister EXCEPT ![s] = spec]
        BY <2>1 DEF ServiceChanges
      <3> QED
        BY <3>1, <3>3, <3>4, <3>5 DEF VipInv, ListersOK, Snapshots
    <2>2. ASSUME NEW eps \in EpStates[s], EndpointsChange(s, eps) PROVE ListersOK'
      <3>1. vipChanges' \in 0 .. MaxVipChanges /\ UNCHANGED <<svcLister, svcEvents>>
        BY <2>2, VipAssumption DEF EndpointsChange, VipInv, ListersOK
      <3>2. epLister' = [epLister EXCEPT ![s] = eps]
        BY <2>2 DEF EndpointsChange
      <3> QED
        BY <3>1, <3>2, VipAssumption DEF VipInv, ListersOK
    <2> QED
      BY <1>1, <2>1, <2>2
  <1>4. FreshOK'
    <2>1. ASSUME NEW l \in Snapshots PROVE l # NotListed
      BY <1>1 DEF Snapshots, NotListed
    <2> QED
      BY <1>2, <2>1 DEF FreshOK, VipInv
  <1>5. RibOK' /\ ListsOK' /\ EventOK' /\ BeforeStart'
    BY <1>2 DEF VipInv, RibOK, ListsOK, EventOK, BeforeStart
  <1> QED
    BY <1>2, <1>3, <1>4, <1>5 DEF VipInv

\* A goroutine of a started server may go on to any step that is not one of those
\* in which the service listener needs more of its notification.
LEMMA VipGotoStep ==
    ASSUME VipInv, NEW p \in VipProcs, NEW label \in VipLabels, VipGoto(p, label),
           bgpServerStarted, bgpServerStarted' = bgpServerStarted,
           p = "svc" => /\ label # "idle" => event' \in Notification
                        /\ label \in {"active", "activeEndpoints"} => event'.new = NoSvc
                        /\ label \in {"services", "endpoints"} => event'.new # NoSvc
                        /\ label \in {"external", "externalEndpoints"} => event'.old # NoSvc /\ event'.new # NoSvc,
           p # "svc" => event' = event
    PROVE  /\ vipPc' \in [VipProcs -> VipLabels] /\ EventOK'
           /\ BeforeStart' /\ bgpServerStarted' \in BOOLEAN
  <1>0. "svc" \in VipProcs
    BY DEF VipProcs
  <1>1. vipPc' \in [VipProcs -> VipLabels] /\ vipPc' = [vipPc EXCEPT ![p] = label]
    BY DEF VipGoto, VipInv
  <1>2. EventOK'
    <2>1. CASE p = "svc"
      BY <1>0, <1>1, <2>1 DEF EventOK, VipInv
    <2>2. CASE p # "svc"
      BY <1>0, <1>1, <2>2 DEF EventOK, VipInv
    <2> QED
      BY <2>1, <2>2
  <1>3. BeforeStart' /\ bgpServerStarted' \in BOOLEAN
    BY DEF BeforeStart
  <1> QED
    BY <1>1, <1>2, <1>3

\* As long as the listers do not change, neither do the lists that they stand for.
LEMMA SameLists ==
    ASSUME svcLister' = svcLister, epLister' = epLister
    PROVE  ActiveVIPs' = ActiveVIPs
  BY DEF ActiveVIPs, ActiveOf, PresentIn, Advertises

\* A step that neither lists the services nor chooses what to withdraw.
LEMMA VipFresh ==
    ASSUME VipInv, NEW p \in VipProcs, NEW label \in VipLabels \ Reading, VipGoto(p, label),
           listed' = listed, svcLister' = svcLister, epLister' = epLister,
           \/ toWithdraw' = toWithdraw /\ stale' = stale
           \/ toWithdraw' = Cleared(toWithdraw, p) /\ stale' = stale \ {p}
    PROVE  FreshOK'
  <1>1. ActiveVIPs' = ActiveVIPs
    BY SameLists
  <1>2. vipPc' = [vipPc EXCEPT ![p] = label] /\ vipPc \in [VipProcs -> VipLabels]
    BY DEF VipGoto, VipInv
  <1>3. ASSUME NEW q \in VipProcs, q \notin stale' PROVE toWithdraw'[q] \cap ActiveVIPs = {}
    BY <1>3 DEF VipInv, FreshOK, ListsOK, Cleared
  <1>4. ASSUME NEW q \in VipProcs, vipPc'[q] \in Reading
        PROVE  listed'[q] \in Snapshots /\ (q \notin stale' => listed'[q] = svcLister')
    <2>1. q # p /\ vipPc[q] \in Reading
      BY <1>2, <1>4
    <2> QED
      BY <2>1 DEF VipInv, FreshOK
  <1> QED
    BY <1>1, <1>3, <1>4 DEF FreshOK

\* A goroutine that has just chosen what to withdraw is not to withdraw what is
\* active, unless its reading was stale.
LEMMA VipChoose ==
    ASSUME VipInv, NEW p \in VipProcs, vipPc[p] \in Reading, NEW list \in SUBSET Vips,
           list \cap ActiveOf(listed[p]) = {}, ChooseWithdrawn(p, list),
           NEW label \in VipLabels \ Reading, VipGoto(p, label),
           toAdvertise' \in [VipProcs -> SUBSET Vips]
    PROVE  ListersOK' /\ RibOK' /\ ListsOK' /\ FreshOK'
  <1>1. PICK wd \in SUBSET Vips :
            /\ wd \cap ActiveOf(listed[p]) = {}
            /\ toWithdraw' = [toWithdraw EXCEPT ![p] = wd]
            /\ stale' = IF wd = {} THEN stale \ {p} ELSE stale
    <2> DEFINE wd == IF ErrorFor(listed[p]) THEN {} ELSE list
    <2>1. wd \in SUBSET Vips /\ wd \cap ActiveOf(listed[p]) = {}
      OBVIOUS
    <2>2. toWithdraw' = [toWithdraw EXCEPT ![p] = wd]
      BY DEF ChooseWithdrawn
    <2>3. toWithdraw'[p] = wd
      BY <2>2 DEF VipInv, ListsOK
    <2>4. stale' = IF wd = {} THEN stale \ {p} ELSE stale
      BY <2>3 DEF ChooseWithdrawn
    <2> HIDE DEF wd
    <2> QED
      BY <2>1, <2>2, <2>4
  <1>2. /\ listed' = [listed EXCEPT ![p] = NotListed]
        /\ UNCHANGED <<listers, bgpServerStarted, bgpVars, current, vipToAdd, vipToDelete>>
    BY DEF ChooseWithdrawn
  <1>3. ListersOK' /\ RibOK'
    BY <1>2 DEF VipInv, ListersOK, RibOK, listers, bgpVars
  <1>4. ListsOK'
    BY <1>1, <1>2 DEF VipInv, ListsOK
  <1>5. ActiveVIPs' = ActiveVIPs
    BY <1>2, SameLists DEF listers
  <1>6. vipPc' = [vipPc EXCEPT ![p] = label] /\ vipPc \in [VipProcs -> VipLabels]
    BY DEF VipGoto, VipInv
  <1>7. ASSUME NEW q \in VipProcs, q \notin stale' PROVE toWithdraw'[q] \cap ActiveVIPs = {}
    <2>1. CASE q = p
      <3>1. toWithdraw'[p] = {} \/ (p \notin stale /\ toWithdraw'[p] \cap ActiveOf(listed[p]) = {})
        BY <1>1, <1>7, <2>1 DEF VipInv, ListsOK
      <3> QED
        BY <2>1, <3>1 DEF VipInv, FreshOK, ActiveVIPs
    <2>2. CASE q # p
      BY <1>1, <1>7, <2>2 DEF VipInv, FreshOK, ListsOK
    <2> QED
      BY <2>1, <2>2
  <1>8. ASSUME NEW q \in VipProcs, vipPc'[q] \in Reading
        PROVE  listed'[q] \in Snapshots /\ (q \notin stale' => listed'[q] = svcLister')
    <2>1. q # p
      BY <1>6, <1>8
    <2> QED
      BY <1>1, <1>2, <1>6, <1>8, <2>1 DEF VipInv, FreshOK, ListsOK, listers
  <1>9. FreshOK'
    BY <1>5, <1>7, <1>8 DEF FreshOK
  <1> QED
    BY <1>3, <1>4, <1>9

\* A goroutine lists the services, and then reads their endpoints.
LEMMA VipReadStep ==
    ASSUME VipInv, NEW p \in VipProcs, ListServices(p) \/ ReadEndpoints(p)
    PROVE  VipInv'
  <1>0. "svc" \in VipProcs
    BY DEF VipProcs
  <1>1. CASE ListServices(p)
    <2> USE <1>1 DEF ListServices
    <2>1. PICK label \in Reading :
              /\ VipGoto(p, label)
              /\ label = "endpoints" => vipPc[p] = "services"
              /\ label = "activeEndpoints" => vipPc[p] = "active"
              /\ label = "externalEndpoints" => vipPc[p] = "external"
      BY DEF Reading
    <2>2. vipPc' = [vipPc EXCEPT ![p] = label] /\ vipPc \in [VipProcs -> VipLabels]
      BY <2>1 DEF VipGoto, VipInv
    <2>3. ListersOK' /\ RibOK' /\ ListsOK'
      BY DEF VipInv, ListersOK, RibOK, ListsOK, listers, bgpVars
    <2>4. FreshOK'
      <3>1. ActiveVIPs' = ActiveVIPs
        BY SameLists DEF listers
      <3>2. \A q \in VipProcs : q \notin stale' => toWithdraw'[q] \cap ActiveVIPs = {}
        BY DEF VipInv, FreshOK
      <3>3. ASSUME NEW q \in VipProcs, vipPc'[q] \in Reading
            PROVE  listed'[q] \in Snapshots /\ (q \notin stale' => listed'[q] = svcLister')
        BY <2>2, <3>3 DEF VipInv, FreshOK, ListsOK, ListersOK, listers
      <3> QED
        BY <3>1, <3>2, <3>3 DEF FreshOK
    <2>5. vipPc' \in [VipProcs -> VipLabels]
      BY <2>1, <2>2 DEF VipLabels
    <2>6. EventOK'
      BY <1>0, <2>1, <2>2 DEF VipInv, EventOK, Reading
    <2>7. BeforeStart' /\ bgpServerStarted' \in BOOLEAN
      BY <2>1, <2>2 DEF VipInv, BeforeStart, Reading, bgpVars
    <2> QED
      BY <2>3, <2>4, <2>5, <2>6, <2>7 DEF VipInv
  <1>2. CASE ReadEndpoints(p)
    <2> USE <1>2 DEF ReadEndpoints
    <2>1. vipPc[p] \in Reading /\ bgpServerStarted /\ (p = "svc" => event \in Notification)
      BY DEF Reading, VipInv, BeforeStart, EventOK
    <2>2. listed[p] \in Snapshots
      BY <2>1 DEF VipInv, FreshOK
    <2>3. toAdvertise' \in [VipProcs -> SUBSET Vips]
      <3> DEFINE adv == IF ErrorFor(listed[p]) THEN {} ELSE ActiveOf(listed[p])
      <3>1. adv \in SUBSET Vips
        BY <2>2, VipLists
      <3>2. toAdvertise' = [toAdvertise EXCEPT ![p] = adv]
        OBVIOUS
      <3> HIDE DEF adv
      <3> QED
        BY <3>1, <3>2 DEF VipInv, ListsOK
    <2>4. AfterEndpoints(p) \in {"advertise", "list", "external", "idle"}
      BY DEF AfterEndpoints
    <2>5. AfterEndpoints(p) \in VipLabels \ Reading
      BY <2>4 DEF VipLabels, Reading
    <2>6. ListersOK' /\ RibOK' /\ ListsOK' /\ FreshOK'
      BY <2>1, <2>2, <2>3, <2>5, VipLists, VipChoose
    <2>7. bgpServerStarted' = bgpServerStarted
      BY DEF ChooseWithdrawn
    <2>8. /\ p = "svc" /\ AfterEndpoints(p) # "idle" => event' = event
          /\ p # "svc" => event' = event
          /\ p = "svc" /\ AfterEndpoints(p) = "external" => event.old # NoSvc /\ event.new # NoSvc
      <3>1. p = "svc" => event.new # NoSvc
        BY DEF VipInv, EventOK
      <3> QED
        BY <3>1 DEF AfterEndpoints, EventOver
    <2> QED
      BY <2>1, <2>4, <2>5, <2>6, <2>7, <2>8, VipGotoStep DEF VipInv
  <1> QED
    BY <1>1, <1>2

\* addServiceVIPsDefinedSet and the advertisements, by any goroutine.
LEMMA VipSharedStep ==
    ASSUME VipInv, NEW p \in VipProcs, Shared(p)
    PROVE  VipInv'
  <1> DEFINE Rest == \/ ListVIPsDefinedSet(p) \/ ComparePrefixes(p) \/ AddVIPsDefinedSet(p)
                     \/ DeleteVIPsDefinedSet(p) \/ advertiseVIPs(p) \/ withdrawVIPs(p)
  <1>1. Rest => /\ ListersOK' /\ ActiveVIPs' = ActiveVIPs
                /\ bgpServerStarted' = bgpServerStarted
    <2>1. Rest => UNCHANGED <<listers, bgpServerStarted>>
      BY DEF ListVIPsDefinedSet, ComparePrefixes, AddVIPsDefinedSet,
             DeleteVIPsDefinedSet, advertiseVIPs, withdrawVIPs
    <2> QED
      BY <2>1, SameLists DEF VipInv, ListersOK, listers
  <1>2. Rest => /\ bgpServerStarted
                /\ p = "svc" => event \in Notification
    BY DEF ListVIPsDefinedSet, ComparePrefixes, AddVIPsDefinedSet,
           DeleteVIPsDefinedSet, advertiseVIPs, withdrawVIPs, VipInv,
           BeforeStart, EventOK
  <1>3. CASE ListVIPsDefinedSet(p)
    <2> USE <1>3 DEF ListVIPsDefinedSet
    <2>1. RibOK' /\ ListsOK'
      BY <1>1 DEF VipInv, RibOK, ListsOK, bgpVars
    <2>2. "compare" \in VipLabels \ Reading /\ event' = event
      BY DEF VipLabels, Reading
    <2>3. FreshOK'
      BY <2>2, VipFresh DEF listers
    <2> QED
      BY <1>1, <1>2, <2>1, <2>2, <2>3, VipGotoStep DEF VipInv, Reading
  <1>4. CASE ComparePrefixes(p)
    <2> USE <1>4 DEF ComparePrefixes
    <2>1. RibOK' /\ ListsOK'
      BY <1>1, VipAll DEF VipInv, RibOK, ListsOK, bgpVars, Cleared
    <2>2. "addSet" \in VipLabels \ Reading /\ event' = event
      BY DEF VipLabels, Reading
    <2>3. FreshOK'
      BY <2>2, VipFresh DEF listers
    <2> QED
      BY <1>1, <1>2, <2>1, <2>2, <2>3, VipGotoStep DEF VipInv, Reading
  <1>5. CASE AddVIPsDefinedSet(p)
    <2> USE <1>5 DEF AddVIPsDefinedSet
    <2>1. RibOK' /\ ListsOK'
      BY <1>1 DEF VipInv, RibOK, ListsOK, Cleared
    <2>2. "deleteSet" \in VipLabels \ Reading /\ event' = event
      BY DEF VipLabels, Reading
    <2>3. FreshOK'
      BY <2>2, VipFresh DEF listers
    <2> QED
      BY <1>1, <1>2, <2>1, <2>2, <2>3, VipGotoStep DEF VipInv, Reading
  <1>6. CASE DeleteVIPsDefinedSet(p)
    <2> USE <1>6 DEF DeleteVIPsDefinedSet
    <2>1. RibOK' /\ ListsOK'
      BY <1>1 DEF VipInv, RibOK, ListsOK, Cleared
    <2>2. /\ AfterAddPolicies(p) \in {"active", "services", "advertise"}
          /\ p = "svc" /\ AfterAddPolicies(p) = "active" => event.new = NoSvc
          /\ p = "svc" => AfterAddPolicies(p) # "services"
      BY DEF AfterAddPolicies
    <2>3. AfterAddPolicies(p) \in VipLabels \ Reading /\ event' = event
      BY <2>2 DEF VipLabels, Reading
    <2>4. FreshOK'
      BY <2>3, VipFresh DEF listers
    <2> QED
      BY <1>1, <1>2, <2>1, <2>2, <2>3, <2>4, VipGotoStep DEF VipInv, Reading
  <1>7. CASE advertiseVIPs(p)
    <2> USE <1>7 DEF advertiseVIPs
    <2>1. RibOK' /\ ListsOK'
      BY <1>1 DEF VipInv, RibOK, ListsOK, Cleared
    <2>2. "withdraw" \in VipLabels \ Reading /\ event' = event
      BY DEF VipLabels, Reading
    <2>3. FreshOK'
      BY <2>2, VipFresh DEF listers
    <2> QED
      BY <1>1, <1>2, <2>1, <2>2, <2>3, VipGotoStep DEF VipInv, Reading
  <1>8. CASE withdrawVIPs(p)
    <2> USE <1>8 DEF withdrawVIPs
    <2>1. RibOK' /\ ListsOK'
      BY <1>1 DEF VipInv, RibOK, ListsOK, Cleared
    <2>2. /\ AfterWithdraw(p) \in {"list", "external", "idle"}
          /\ p = "svc" /\ AfterWithdraw(p) = "external" => event.old # NoSvc /\ event.new # NoSvc
      BY DEF AfterWithdraw
    <2>3. event' = event \/ (p = "svc" /\ AfterWithdraw(p) = "idle")
      BY DEF EventOver
    <2>4. AfterWithdraw(p) \in VipLabels \ Reading
      BY <2>2 DEF VipLabels, Reading
    <2>5. FreshOK'
      BY <2>4, VipFresh DEF listers
    <2> QED
      BY <1>1, <1>2, <2>1, <2>2, <2>3, <2>4, <2>5, VipGotoStep DEF VipInv, Reading
  <1>9. CASE ListServices(p) \/ ReadEndpoints(p)
    BY <1>9, VipReadStep
  <1> QED
    BY <1>3, <1>4, <1>5, <1>6, <1>7, <1>8, <1>9 DEF Shared

\* The service listener takes the next notification.
LEMMA OnServiceStep ==
    ASSUME VipInv, OnService
    PROVE  VipInv'
  <1> DEFINE e == Head(svcEvents)
  <1>0. "svc" \in VipProcs
    BY DEF VipProcs
  <1>1. e \in Notification /\ svcEvents' \in Seq(Notification)
    BY DEF OnService, VipInv, ListersOK
  <1>2. UNCHANGED <<svcLister, epLister, vipChanges, bgpServerStarted, stale, rib, prefixSet,
                    exported, listed, toAdvertise, toWithdraw, current, vipToAdd, vipToDelete>>
    BY DEF OnService, bgpVars, vipLocals
  <1>3. ListersOK' /\ RibOK' /\ ListsOK'
    BY <1>1, <1>2 DEF VipInv, ListersOK, RibOK, ListsOK
  <1>4. CASE /\ bgpServerStarted
             /\ VipGoto("svc", IF e.new = NoSvc THEN "list" ELSE "services") /\ event' = e
    <2>1. PICK label \in {"list", "services"} :
              VipGoto("svc", label) /\ (label = "services" => e.new # NoSvc)
      BY <1>4
    <2>2. label \in VipLabels \ Reading
      BY DEF VipLabels, Reading
    <2>3. FreshOK'
      BY <1>0, <1>2, <2>1, <2>2, VipFresh
    <2> QED
      BY <1>0, <1>1, <1>2, <1>3, <1>4, <2>1, <2>2, <2>3, VipGotoStep DEF VipInv
  <1>5. CASE e.new = NoSvc \/ e.old = NoSvc
    <2>1. CASE UNCHANGED <<vipPc, event>>
      <3>1. FreshOK'
        BY <1>2, <2>1, SameLists DEF VipInv, FreshOK
      <3> QED
        BY <1>2, <1>3, <2>1, <3>1 DEF VipInv, EventOK, BeforeStart
    <2> QED
      BY <1>4, <1>5, <2>1 DEF OnService
  <1>6. CASE ~(e.new = NoSvc \/ e.old = NoSvc) /\ VipGoto("svc", "external") /\ event' = e
    <2>1. "external" \in VipLabels \ Reading
      BY DEF VipLabels, Reading
    <2>2. FreshOK'
      BY <1>0, <1>2, <1>6, <2>1, VipFresh
    <2>3. vipPc' = [vipPc EXCEPT !["svc"] = "external"] /\ event' = e
      BY <1>6 DEF VipGoto
    <2> QED
      BY <1>0, <1>1, <1>2, <1>3, <1>6, <2>1, <2>2, <2>3 DEF VipInv, EventOK, BeforeStart
  <1> QED
    BY <1>4, <1>5, <1>6 DEF OnService

\* Its other steps: what a deletion withdraws, and what an update has removed.
LEMMA SvcListenerStep ==
    ASSUME VipInv, SvcListener
    PROVE  VipInv'
  <1>0. "svc" \in VipProcs
    BY DEF VipProcs
  <1>1. CASE handleServiceDelete
    <2> USE <1>1 DEF handleServiceDelete
    <2>1. /\ vipPc["svc"] \in Reading /\ event \in Notification /\ event.new = NoSvc
          /\ bgpServerStarted
      BY <1>0 DEF VipInv, EventOK, BeforeStart, Reading
    <2>2. AllOf(event.old) \ ActiveOf(listed["svc"]) \in SUBSET Vips
      BY <2>1, SpecFields DEF Notification
    <2>3. "withdraw" \in VipLabels \ Reading
      BY DEF VipLabels, Reading
    <2>4. ListersOK' /\ RibOK' /\ ListsOK' /\ FreshOK'
      BY <1>0, <2>1, <2>2, <2>3, VipChoose DEF VipInv, ListsOK
    <2>5. bgpServerStarted' = bgpServerStarted
      BY DEF ChooseWithdrawn
    <2> QED
      BY <1>0, <2>1, <2>3, <2>4, <2>5, VipGotoStep DEF VipInv
  <1>2. CASE getExternalIPsToWithdraw
    <2> USE <1>2 DEF getExternalIPsToWithdraw
    <2>1. vipPc["svc"] \in Reading /\ event \in Notification /\ event.old # NoSvc
      BY DEF VipInv, EventOK, Reading
    <2>2. (event.old.ext \ event.new.ext) \ ActiveOf(listed["svc"]) \in SUBSET Vips
      BY <2>1, SpecFields DEF Notification
    <2>3. "withdrawExternal" \in VipLabels \ Reading
      BY DEF VipLabels, Reading
    <2>4. ListersOK' /\ RibOK' /\ ListsOK' /\ FreshOK'
      BY <1>0, <2>1, <2>2, <2>3, VipChoose DEF VipInv, ListsOK
    <2>5. vipPc' = [vipPc EXCEPT !["svc"] = "withdrawExternal"]
      BY DEF VipGoto
    <2>6. UNCHANGED <<bgpServerStarted, rib, prefixSet>>
      BY DEF ChooseWithdrawn, bgpVars
    <2> QED
      BY <1>0, <2>1, <2>3, <2>4, <2>5, <2>6 DEF VipInv, EventOK, BeforeStart
  <1>3. CASE withdrawExternalIPs
    <2> USE <1>3 DEF withdrawExternalIPs
    <2>1. ListersOK'
      <3>1. svcEvents' \in Seq(Notification)
        <4>1. svcEvents' = svcEvents \/ svcEvents' = <<>>
          OBVIOUS
        <4>2. svcEvents \in Seq(Notification)
          BY DEF VipInv, ListersOK
        <4>3. <<>> \in Seq(Notification)
          OBVIOUS
        <4> QED
          BY ONLY <4>1, <4>2, <4>3
      <3> QED
        BY <3>1 DEF VipInv, ListersOK
    <2>2. RibOK' /\ ListsOK'
      BY <1>0 DEF VipInv, RibOK, ListsOK, Cleared
    <2>3. "idle" \in VipLabels \ Reading
      BY DEF VipLabels, Reading
    <2>4. FreshOK'
      BY <1>0, <2>3, VipFresh
    <2>5. vipPc' = [vipPc EXCEPT !["svc"] = "idle"]
      BY DEF VipGoto
    <2> QED
      BY <1>0, <2>1, <2>2, <2>3, <2>4, <2>5 DEF VipInv, EventOK, BeforeStart, RibOK
  <1> QED
    BY <1>0, <1>1, <1>2, <1>3, OnServiceStep, VipSharedStep DEF SvcListener

\* The endpoints listener and the loop of Run, which starts the server.
LEMMA VipOthersStep ==
    ASSUME VipInv, EpListener \/ RunLoop
    PROVE  VipInv'
  <1>0. {"svc", "ep", "main"} = VipProcs /\ "services" \in VipLabels \ Reading
    BY DEF VipProcs, VipLabels, Reading
  <1>1. CASE OnEndpoints
    <2> USE <1>1 DEF OnEndpoints
    <2>1. ListersOK' /\ RibOK' /\ ListsOK'
      BY DEF VipInv, ListersOK, RibOK, ListsOK, bgpVars, vipLocals
    <2>2. CASE bgpServerStarted /\ VipGoto("ep", "services")
      <3>1. FreshOK'
        BY <1>0, <2>2, VipFresh DEF vipLocals
      <3> QED
        BY <1>0, <2>1, <2>2, <3>1, VipGotoStep DEF VipInv
    <2>3. CASE UNCHANGED vipPc
      <3>1. FreshOK'
        BY <2>3, SameLists DEF VipInv, FreshOK, vipLocals
      <3> QED
        BY <2>1, <2>3, <3>1 DEF VipInv, EventOK, BeforeStart, bgpVars
    <2> QED
      BY <2>2, <2>3
  <1>2. CASE BgpServerStarts
    <2> USE <1>2 DEF BgpServerStarts
    <2>1. ListersOK' /\ RibOK' /\ ListsOK'
      BY DEF VipInv, ListersOK, RibOK, ListsOK, listers, bgpVars, vipLocals
    <2>2. FreshOK'
      BY <1>0, VipFresh DEF listers, vipLocals
    <2>3. vipPc' = [vipPc EXCEPT !["main"] = "services"]
      BY DEF VipGoto
    <2> QED
      BY <1>0, <2>1, <2>2, <2>3 DEF VipInv, EventOK, BeforeStart
  <1> QED
    BY <1>0, <1>1, <1>2, VipSharedStep DEF EpListener, RunLoop

\* The invariant holds in every reachable state.
LEMMA VipInvariant ==
    VipSpec => []VipInv
  <1>1. VipInit => VipInv
    BY VipInitInv
  <1>2. VipInv /\ [VipNext]_vipVars => VipInv'
    <2> SUFFICES ASSUME VipInv, [VipNext]_vipVars PROVE VipInv'
      OBVIOUS
    <2>1. CASE VipNext
      BY <2>1, VipEnvironmentStep, SvcListenerStep, VipOthersStep DEF VipNext
    <2>2. CASE UNCHANGED vipVars
      <3>1. ActiveVIPs' = ActiveVIPs
        BY <2>2, SameLists DEF vipVars, listers
      <3> QED
        BY <2>2, <3>1 DEF VipInv, ListersOK, RibOK, ListsOK, EventOK, FreshOK, vipVars, listers,
                          bgpVars, vipLocals, BeforeStart
    <2> QED
      BY <2>1, <2>2
  <1> QED
    BY <1>1, <1>2, PTL DEF VipSpec

\* Whatever the three goroutines interleave, and whatever services and VIPs there
\* are, the peers are sent only what is in the server's table, and every list that
\* is computed and applied holds VIPs of services.
THEOREM VipTypeCorrect == VipSpec => []VipTypeOK
  <1>1. VipSpec => []VipInv
    BY VipInvariant
  <1>2. VipInv => VipTypeOK
    BY VipTypes
  <1> QED
    BY <1>1, <1>2, PTL

\* A VIP that this node must advertise is withdrawn only by a goroutine that
\* began to choose its list before the last change of a service or of endpoints.
THEOREM WantedVipsKept == VipSpec => WithdrawnOnlyIfStale
  <1>1. VipSpec => []VipInv
    BY VipInvariant
  <1>2. VipInv /\ [VipNext]_vipVars => [KeepsActiveVips \/ StaleWithdrawal]_vipVars
    <2> SUFFICES ASSUME VipInv, VipNext, ~KeepsActiveVips PROVE StaleWithdrawal
      OBVIOUS
    <2> USE DEF KeepsActiveVips
    <2>1. ASSUME UNCHANGED <<rib, exported>> PROVE FALSE
      BY <2>1
    <2>2. ASSUME NEW p \in VipProcs, NEW label, label # vipPc[p], VipGoto(p, label),
                 vipPc[p] \in {"withdraw", "withdrawExternal"},
                 rib' = rib \ toWithdraw[p], exported' = exported \ toWithdraw[p]
          PROVE  StaleWithdrawal
      <3>1. p \in stale
        BY <2>2 DEF VipInv, FreshOK
      <3>2. vipPc'[p] # vipPc[p]
        BY <2>2 DEF VipGoto, VipInv
      <3> QED
        BY <2>2, <3>1, <3>2 DEF StaleWithdrawal
    <2>3. ASSUME NEW p \in VipProcs, Shared(p) PROVE StaleWithdrawal
      <3>1. CASE withdrawVIPs(p)
        <4>1. AfterWithdraw(p) # "withdraw"
          BY DEF AfterWithdraw
        <4> QED
          BY <2>2, <3>1, <4>1 DEF withdrawVIPs
      <3>2. CASE advertiseVIPs(p)
        BY <3>2 DEF advertiseVIPs
      <3>3. CASE ~withdrawVIPs(p) /\ ~advertiseVIPs(p)
        BY <2>1, <2>3, <3>3 DEF Shared, ListServices, ReadEndpoints, ChooseWithdrawn,
                                ListVIPsDefinedSet, ComparePrefixes, AddVIPsDefinedSet,
                                DeleteVIPsDefinedSet, bgpVars
      <3> QED
        BY <3>1, <3>2, <3>3
    <2>4. CASE withdrawExternalIPs
      <3>1. "svc" \in VipProcs
        BY DEF VipProcs
      <3> QED
        BY <2>2, <2>4, <3>1 DEF withdrawExternalIPs
    <2>5. CASE ApiChanges
      BY <2>1, <2>5 DEF ApiChanges, ServiceChanges, EndpointsChange, bgpVars
    <2>6. CASE OnService \/ handleServiceDelete \/ getExternalIPsToWithdraw
      BY <2>1, <2>6 DEF OnService, handleServiceDelete, getExternalIPsToWithdraw,
                      ChooseWithdrawn, bgpVars
    <2>7. CASE OnEndpoints \/ BgpServerStarts
      BY <2>1, <2>7 DEF OnEndpoints, BgpServerStarts, bgpVars
    <2>8. "svc" \in VipProcs /\ "ep" \in VipProcs /\ "main" \in VipProcs
      BY DEF VipProcs
    <2> QED
      BY <2>3, <2>4, <2>5, <2>6, <2>7, <2>8
         DEF VipNext, SvcListener, EpListener, RunLoop
  <1> QED
    BY <1>1, <1>2, PTL DEF VipSpec, WithdrawnOnlyIfStale

\* The two components together: as long as any VIP is in the server's table, the
\* server is the one that was started with all its peer routers, and none of them
\* has been disconnected.
THEOREM VipsHaveRouters ==
    Spec /\ VipSpec => [](rib # {} => External \subseteq peers)
  <1>1. VipSpec => []VipInv
    BY VipInvariant
  <1>2. RecordOK /\ VipInv => (rib # {} => External \subseteq peers)
    BY DEF RecordOK, RoutersConnected, VipInv, BeforeStart
  <1> QED
    BY <1>1, <1>2, RecordInvariant, PTL
=============================================================================
