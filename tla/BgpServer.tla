----------------------------- MODULE BgpServer -----------------------------
(***************************************************************************)
(* The node's BGP server: how it is started from the node's annotations    *)
(* (startBgpServer and the start loop of Run in                            *)
(* pkg/controllers/routing/network_routes_controller.go), and how its      *)
(* internal peers and its export and import policies follow the nodes of   *)
(* the cluster (bgp_peers.go, bgp_policies.go).                            *)
(*                                                                         *)
(* Goroutines: "main" is Run, "node" the handler of node events, and those *)
(* of Others the handlers of service and endpoints events, which call      *)
(* AddPolicies too.  Only syncInternalPeers holds nrc.mu; AddPolicies      *)
(* lists, compares and writes without a lock.  GoBGP is external: a set, a *)
(* policy, an assignment or a peer is added or removed by one call.  The   *)
(* set of service VIPs, and the VIPs, are in VipAdvertisement.             *)
(***************************************************************************)
EXTENDS RoutingController, Naturals, Sequences, SequencesExt

CONSTANTS
    Nodes,              \* the other nodes
    NodeForms,          \* the forms of their objects: [ip, asn, rr]
    NoNode,             \* no object
    OwnForms,           \* the annotations of this node: [asn, rr, prepend, peers]
    ExternalPeers,
    ConfiguredPeers,    \* --peer-router-ips, a sequence
    DefaultAsn, NoAsn,
    bgpFullMeshMode, bgpEnableInternal,
    Others,
    MaxChanges,         \* bound: objects changed
    MaxFaults           \* bound: calls that fail, notifications that are lost

ASSUME BgpAssumption ==
    /\ \A f \in NodeForms : /\ f # NoNode /\ f.ip \in BOOLEAN
                            /\ f.rr \in {"none", "server", "client"}
    /\ \A f \in OwnForms : /\ f.rr \in {"none", "server", "client", "bad"}
                           /\ f.prepend \in {"none", "decimal", "prefixed", "bad"}
                           /\ f.peers.kind \in {"none", "unparsable", "listed"}
                           /\ f.peers.ips \in Seq(ExternalPeers)
    /\ ConfiguredPeers \in Seq(ExternalPeers)
    /\ Nodes \cap ExternalPeers = {}
    /\ bgpFullMeshMode \in BOOLEAN /\ bgpEnableInternal \in BOOLEAN
    /\ Others \cap {"main", "node", "free"} = {}
    /\ MaxChanges \in Nat /\ MaxFaults \in Nat

VARIABLES
    own,                \* this node's object, as the API server has it
    nodes,              \* nodeLister
    nodeEvents,         \* undelivered notifications
    changes, faults,
    nodeAsnNumber, bgpRRServer, bgpRRClient, pathPrepend, globalPeerRouters,
    listening,          \* a server that was not stopped holds the BGP port
    peers,              \* GoBGP: neighbours,
    neighborSets,       \*   the two sets that follow the nodes,
    policies, assigned, \*   policies, and those in effect
    podRoute,           \*   the path to the node's pod CIDR
    activeNodes, mu,
    toPeer, currentNodes,       \* locals of syncInternalPeers, mu's holder
    forgotten,          \* history: nodes that DeletePeer failed to remove
    pc, on,             \* per goroutine: step, and the set or policy it is about
    cidrs, toAdd, toDelete      \* its locals in AddPolicies

cluster == <<own, nodes, nodeEvents, changes, faults>>
config == <<nodeAsnNumber, bgpRRServer, bgpRRClient, pathPrepend, globalPeerRouters,
            bgpServerStarted, listening>>
gobgp == <<peers, neighborSets, policies, assigned, podRoute>>
internal == <<activeNodes, mu, toPeer, currentNodes, forgotten>>
locals == <<cidrs, toAdd, toDelete>>
vars == <<cluster, config, gobgp, internal, pc, on, locals>>

Procs == {"main", "node"} \cup Others
SetNames == {"iBGPpeerset", "allpeerset"}
PolicyNames == {"export", "import"}
Present == {n \in Nodes : nodes[n] # NoNode}
External == ToSet(globalPeerRouters)

\* addiBGPPeersDefinedSet takes every node with an address.
PolicyNodes == IF bgpEnableInternal THEN {n \in Present : nodes[n].ip} ELSE {}

\* syncInternalPeers: the nodes to peer with.
PeerNodes ==
    {n \in Present : /\ nodes[n].ip
                     /\ bgpRRClient => nodes[n].rr = "server"
                     /\ bgpFullMeshMode \/ nodes[n].asn = nodeAsnNumber}

Init ==
    /\ own \in OwnForms
    /\ nodes \in [Nodes -> NodeForms \cup {NoNode}]
    /\ nodeEvents = <<>>
    /\ changes = 0 /\ faults = 0
    /\ bgpServerStarted = FALSE
    /\ nodeAsnNumber = DefaultAsn
    /\ bgpRRServer = FALSE /\ bgpRRClient = FALSE
    /\ pathPrepend = "none"
    /\ globalPeerRouters = ConfiguredPeers
    /\ listening = FALSE
    /\ peers = {}
    /\ neighborSets = [k \in SetNames |-> {}]
    /\ policies = {} /\ assigned = {}
    /\ podRoute = FALSE
    /\ activeNodes = {}
    /\ mu = "free"
    /\ toPeer = {} /\ currentNodes = {} /\ forgotten = {}
    /\ pc = [p \in Procs |-> IF p = "main" THEN "start" ELSE "idle"]
    /\ on = [p \in Procs |-> "iBGPpeerset"]
    /\ cidrs = [p \in Procs |-> {}]
    /\ toAdd = [p \in Procs |-> {}]
    /\ toDelete = [p \in Procs |-> {}]

-----------------------------------------------------------------------------
(* Environment.  A handler does nothing for the update of a node, nor for  *)
(* a new node that has no address: no event is queued for these.           *)

NodeChanges(n, form) ==
    /\ changes < MaxChanges
    /\ nodes[n] # form
    /\ nodes' = [nodes EXCEPT ![n] = form]
    /\ nodeEvents' = IF \/ form = NoNode
                        \/ nodes[n] = NoNode /\ form.ip
                     THEN Append(nodeEvents, n) ELSE nodeEvents
    /\ changes' = changes + 1
    /\ UNCHANGED <<own, faults, config, gobgp, internal, pc, on, locals>>

\* Nobody reads the node's own annotations once the server is started.
OwnChanges(form) ==
    /\ changes < MaxChanges
    /\ ~bgpServerStarted
    /\ own # form
    /\ own' = form
    /\ changes' = changes + 1
    /\ UNCHANGED <<nodes, nodeEvents, faults, config, gobgp, internal, pc, on, locals>>

Fault == faults < MaxFaults /\ faults' = faults + 1

LoseEvent ==
    /\ Fault
    /\ nodeEvents # <<>>
    /\ nodeEvents' = Tail(nodeEvents)
    /\ UNCHANGED <<own, nodes, changes, config, gobgp, internal, pc, on, locals>>

-----------------------------------------------------------------------------
(* The start loop.  An attempt that finds no node object or no ASN changes *)
(* nothing; every other one works on a new GoBGP server, which is stopped  *)
(* again when the attempt fails, unless that fails, too.                   *)

Starting == pc["main"] = "start"
AsnFound == bgpFullMeshMode \/ own.asn # NoAsn

NoAsnFound == Starting /\ ~AsnFound /\ UNCHANGED vars

\* What an attempt has set before it starts the server is never reset.
ReadAsn == nodeAsnNumber' = IF bgpFullMeshMode THEN DefaultAsn ELSE own.asn
ReadRR ==
    /\ bgpRRServer' = (bgpRRServer \/ own.rr = "server")
    /\ bgpRRClient' = (bgpRRClient \/ own.rr = "client")
ReadPrepend == pathPrepend' = IF own.prepend = "none" THEN pathPrepend ELSE own.prepend

AnnotationsRefused ==
    /\ Starting /\ AsnFound
    /\ own.rr = "bad" \/ own.prepend = "bad"
    /\ ReadAsn
    /\ IF own.rr = "bad" THEN UNCHANGED <<bgpRRServer, bgpRRClient>> ELSE ReadRR
    /\ UNCHANGED <<cluster, pathPrepend, globalPeerRouters, bgpServerStarted, listening, gobgp,
                   internal, pc, on, locals>>

AnnotationsRead ==
    /\ Starting /\ AsnFound
    /\ own.rr # "bad" /\ own.prepend # "bad"
    /\ ReadAsn /\ ReadRR /\ ReadPrepend

\* The port is in use, or StartBgp fails otherwise.
StartBgpFails ==
    /\ AnnotationsRead
    /\ IF listening THEN UNCHANGED faults ELSE Fault
    /\ UNCHANGED <<own, nodes, nodeEvents, changes, globalPeerRouters, bgpServerStarted,
                   listening, gobgp, internal, pc, on, locals>>

\* newGlobalPeers: an ASN for every address, none of them reserved, and of ports,
\* passwords and local addresses none or as many.
Valid(list) ==
    /\ Len(list.ips) = Len(list.asns)
    /\ list.optional \subseteq {0, Len(list.ips)}
    /\ "reserved" \notin ToSet(list.asns)

PeersRefusedByAnnotation ==
    /\ globalPeerRouters = <<>>
    /\ \/ own.peers.kind = "unparsable"
       \/ own.peers.kind = "listed" /\ ~Valid(own.peers)

\* The annotations are asked only as long as there is no list of peers.
PeerList ==
    IF globalPeerRouters = <<>> /\ own.peers.kind = "listed" THEN own.peers.ips
    ELSE globalPeerRouters

\* The error of StopBgp is logged, and whatever it left behind is kept: a server
\* that may still listen.  Faults counts it and the calls that failed before it.
StopBgp(failed) ==
    /\ \/ faults' = faults + failed /\ UNCHANGED listening
       \/ faults' = faults + failed + 1 /\ listening' = TRUE
    /\ faults' <= MaxFaults

MPeersRefused ==
    /\ AnnotationsRead
    /\ ~listening
    /\ PeersRefusedByAnnotation
    /\ listening' = TRUE
    /\ UNCHANGED <<cluster, globalPeerRouters, bgpServerStarted, gobgp, internal, pc, on,
                   locals>>

PeersRefused ==
    /\ AnnotationsRead
    /\ ~listening
    /\ PeersRefusedByAnnotation
    /\ StopBgp(0)
    /\ UNCHANGED <<own, nodes, nodeEvents, changes, globalPeerRouters, bgpServerStarted, gobgp,
                   internal, pc, on, locals>>

\* connectToExternalBGPPeers: GoBGP refuses an address that it has already, or
\* fails.  The list stays, and is the one that the next attempt uses.
ConnectFails ==
    /\ AnnotationsRead
    /\ ~listening
    /\ ~PeersRefusedByAnnotation
    /\ PeerList # <<>>
    /\ \/ ~IsInjective(PeerList) /\ StopBgp(0)
       \/ StopBgp(1)
    /\ globalPeerRouters' = PeerList
    /\ UNCHANGED <<own, nodes, nodeEvents, changes, bgpServerStarted, gobgp, internal, pc, on,
                   locals>>

StartBgpServer ==
    /\ AnnotationsRead
    /\ ~listening
    /\ ~PeersRefusedByAnnotation
    /\ IsInjective(PeerList)
    /\ globalPeerRouters' = PeerList
    /\ peers' = ToSet(PeerList)
    /\ listening' = TRUE
    /\ bgpServerStarted' = TRUE
    /\ pc' = [pc EXCEPT !["main"] = "pass"]
    /\ UNCHANGED <<cluster, neighborSets, policies, assigned, podRoute, internal, on, locals>>

-----------------------------------------------------------------------------
(* AddPolicies, by any goroutine.                                          *)

Goto(p, label) == pc' = [pc EXCEPT ![p] = label]

\* What follows AddPolicies, whether or not it returned an error, and what
\* follows syncInternalPeers.
Finished(p) == IF p = "main" THEN "wait" ELSE "idle"
MAfterPolicies(p) == IF bgpEnableInternal /\ p = "node" THEN "sync" ELSE Finished(p)
AfterPolicies(p) == IF bgpEnableInternal /\ p \notin Others THEN "sync" ELSE Finished(p)

\* A route reflector adds no policies.
FirstStep(p) == IF bgpRRServer THEN AfterPolicies(p) ELSE "nodes"

EndPolicies(p) ==
    /\ Goto(p, AfterPolicies(p))
    /\ on' = [on EXCEPT ![p] = "iBGPpeerset"]

ListNodes(p) ==
    /\ pc[p] = "nodes"
    /\ cidrs' = [cidrs EXCEPT ![p] = PolicyNodes]
    /\ Goto(p, IF bgpEnableInternal THEN "list" ELSE "external")
    /\ UNCHANGED <<cluster, config, gobgp, internal, on, toAdd, toDelete>>

\* addiBGPPeersDefinedSet and addAllBGPPeersDefinedSet: list the set (of which
\* one that does not exist yet has nothing), compare, add, delete.
ListDefinedSet(p) ==
    /\ pc[p] = "list"
    /\ toAdd' = [toAdd EXCEPT ![p] = cidrs[p] \ neighborSets[on[p]]]
    /\ toDelete' = [toDelete EXCEPT ![p] = neighborSets[on[p]] \ cidrs[p]]
    /\ Goto(p, "add")
    /\ UNCHANGED <<cluster, config, gobgp, internal, on, cidrs>>

AddDefinedSet(p) ==
    /\ pc[p] = "add"
    /\ neighborSets' = [neighborSets EXCEPT ![on[p]] = @ \cup toAdd[p]]
    /\ toAdd' = [toAdd EXCEPT ![p] = {}]
    /\ Goto(p, "delete")
    /\ UNCHANGED <<cluster, config, peers, policies, assigned, podRoute, internal, on, cidrs,
                   toDelete>>

DeleteDefinedSet(p) ==
    /\ pc[p] = "delete"
    /\ neighborSets' = [neighborSets EXCEPT ![on[p]] = @ \ toDelete[p]]
    /\ toDelete' = [toDelete EXCEPT ![p] = {}]
    /\ IF on[p] = "iBGPpeerset"
       THEN Goto(p, "external") /\ UNCHANGED <<on, cidrs>>
       ELSE /\ Goto(p, "listPolicy")
            /\ on' = [on EXCEPT ![p] = "export"]
            /\ cidrs' = [cidrs EXCEPT ![p] = {}]
    /\ UNCHANGED <<cluster, config, peers, policies, assigned, podRoute, internal, toAdd>>

\* addExternalBGPPeersDefinedSet: the list does not change any more.
ExternalPeerSet(p) ==
    /\ pc[p] = "external"
    /\ cidrs' = [cidrs EXCEPT ![p] = @ \cup External]
    /\ on' = [on EXCEPT ![p] = "allpeerset"]
    /\ Goto(p, "list")
    /\ UNCHANGED <<cluster, config, gobgp, internal, toAdd, toDelete>>

\* addExportPolicies accepts the AS to prepend in base 10 only, startBgpServer in
\* any base: with a prefix AddPolicies ends here, every time.
ListPolicy(p) ==
    /\ pc[p] = "listPolicy"
    /\ \/ /\ on[p] = "export" /\ pathPrepend = "prefixed"
          /\ EndPolicies(p)
       \/ /\ on[p] = "import" \/ pathPrepend # "prefixed"
          /\ Goto(p, IF on[p] \in policies THEN "listAssignment" ELSE "addPolicy")
          /\ UNCHANGED on
    /\ UNCHANGED <<cluster, config, gobgp, internal, locals>>

\* The second of two goroutines that add a policy, or its assignment, fails: its
\* AddPolicies ends.
AddPolicy(p) ==
    /\ pc[p] = "addPolicy"
    /\ policies' = policies \cup {on[p]}
    /\ IF on[p] \in policies THEN EndPolicies(p)
       ELSE Goto(p, "listAssignment") /\ UNCHANGED on
    /\ UNCHANGED <<cluster, config, peers, neighborSets, assigned, podRoute, internal, locals>>

NextPolicy(p) ==
    IF on[p] = "export"
    THEN Goto(p, "listPolicy") /\ on' = [on EXCEPT ![p] = "import"]
    ELSE EndPolicies(p)

MListAssignment(p) ==
    /\ pc[p] = "listAssignment"
    /\ NextPolicy(p)
    /\ UNCHANGED <<cluster, config, gobgp, internal, locals>>

ListAssignment(p) ==
    /\ pc[p] = "listAssignment"
    /\ IF on[p] \in assigned THEN NextPolicy(p) ELSE Goto(p, "assign") /\ UNCHANGED on
    /\ UNCHANGED <<cluster, config, gobgp, internal, locals>>

AddPolicyAssignment(p) ==
    /\ pc[p] = "assign"
    /\ assigned' = assigned \cup {on[p]}
    /\ IF on[p] \in assigned THEN EndPolicies(p) ELSE NextPolicy(p)
    /\ UNCHANGED <<cluster, config, peers, neighborSets, policies, podRoute, internal, locals>>

\* The set of all peers is written like that of the internal ones.
PeerSetSteps(p) == ListDefinedSet(p) \/ AddDefinedSet(p) \/ DeleteDefinedSet(p)

AddPolicies(p) ==
    \/ ListNodes(p) \/ PeerSetSteps(p)
    \/ ExternalPeerSet(p) \/ ListPolicy(p) \/ AddPolicy(p) \/ ListAssignment(p)
    \/ AddPolicyAssignment(p)

-----------------------------------------------------------------------------
(* syncInternalPeers, under nrc.mu.                                        *)

MNoLock(p) ==
    /\ pc[p] = "sync"
    /\ mu' = p
    /\ toPeer' = PeerNodes
    /\ currentNodes' = PeerNodes
    /\ Goto(p, "peering")
    /\ UNCHANGED <<cluster, config, gobgp, activeNodes, forgotten, on, locals>>

LockAndList(p) ==
    /\ pc[p] = "sync"
    /\ mu = "free"
    /\ mu' = p
    /\ toPeer' = PeerNodes
    /\ currentNodes' = PeerNodes
    /\ Goto(p, "peering")
    /\ UNCHANGED <<cluster, config, gobgp, activeNodes, forgotten, on, locals>>

\* The error of a peer that exists is ignored, any other one logged.
AddPeer(p, n) ==
    /\ mu = p
    /\ n \in toPeer
    /\ toPeer' = toPeer \ {n}
    /\ activeNodes' = activeNodes \cup {n}
    /\ forgotten' = forgotten \ {n}
    /\ \/ peers' = peers \cup {n} /\ UNCHANGED faults
       \/ n \notin peers /\ Fault /\ UNCHANGED peers
    /\ UNCHANGED <<own, nodes, nodeEvents, changes, config, neighborSets, policies, assigned,
                   podRoute, mu, currentNodes, pc, on, locals>>

MDeletePeer(p, n) ==
    /\ mu = p
    /\ toPeer = {}
    /\ n \in activeNodes \ currentNodes
    /\ peers' = currentNodes
    /\ activeNodes' = activeNodes \ {n}
    /\ UNCHANGED <<cluster, config, neighborSets, policies, assigned, podRoute, mu, toPeer,
                   currentNodes, forgotten, pc, on, locals>>

\* DeletePeer fails for a peer that could not be added, or for any other reason: the
\* error is logged, and the node forgotten all the same.
DeletePeer(p, n) ==
    /\ mu = p
    /\ toPeer = {}
    /\ n \in activeNodes \ currentNodes
    /\ \/ peers' = peers \ {n} /\ UNCHANGED <<faults, forgotten>>
       \/ n \in peers /\ Fault /\ forgotten' = forgotten \cup {n} /\ UNCHANGED peers
    /\ activeNodes' = activeNodes \ {n}
    /\ UNCHANGED <<own, nodes, nodeEvents, changes, config, neighborSets, policies, assigned,
                   podRoute, mu, toPeer, currentNodes, pc, on, locals>>

Unlock(p) ==
    /\ mu = p
    /\ toPeer = {} /\ activeNodes \subseteq currentNodes
    /\ mu' = "free"
    /\ currentNodes' = {}
    /\ Goto(p, Finished(p))
    /\ UNCHANGED <<cluster, config, gobgp, activeNodes, toPeer, forgotten, on, locals>>

syncInternalPeers(p) ==
    \/ LockAndList(p) \/ Unlock(p)
    \/ \E n \in Nodes : AddPeer(p, n) \/ DeletePeer(p, n)

-----------------------------------------------------------------------------
(* Who calls them.                                                         *)

\* OnNodeUpdate: nothing until the server is started.
OnNodeUpdate ==
    /\ pc["node"] = "idle"
    /\ nodeEvents # <<>>
    /\ nodeEvents' = Tail(nodeEvents)
    /\ IF bgpServerStarted THEN Goto("node", FirstStep("node")) ELSE UNCHANGED pc
    /\ UNCHANGED <<own, nodes, changes, faults, config, gobgp, internal, on, locals>>

\* A service or an Endpoints object changes, and its handler calls AddPolicies.
OnOtherEvent(p) ==
    /\ changes < MaxChanges
    /\ changes' = changes + 1
    /\ pc[p] = "idle"
    /\ bgpServerStarted
    /\ Goto(p, FirstStep(p))
    /\ UNCHANGED <<own, nodes, nodeEvents, faults, config, gobgp, internal, on, locals>>

\* A pass of the loop, at the start and at every tick: advertisePodRoute, whose
\* error is logged, then AddPolicies and syncInternalPeers.
Pass ==
    /\ pc["main"] \in {"pass", "wait"}
    /\ \/ podRoute' = TRUE /\ UNCHANGED faults
       \/ Fault /\ UNCHANGED podRoute
    /\ Goto("main", FirstStep("main"))
    /\ UNCHANGED <<own, nodes, nodeEvents, changes, config, peers, neighborSets, policies,
                   assigned, internal, on, locals>>

-----------------------------------------------------------------------------
Environment ==
    \/ \E n \in Nodes, form \in NodeForms \cup {NoNode} : NodeChanges(n, form)
    \/ \E form \in OwnForms : OwnChanges(form)
    \/ LoseEvent

Start == \/ NoAsnFound \/ AnnotationsRefused \/ StartBgpFails \/ PeersRefused
         \/ ConnectFails \/ StartBgpServer
Steps(p) == AddPolicies(p) \/ syncInternalPeers(p)
Main == Start \/ Pass \/ Steps("main")
NodeHandler == OnNodeUpdate \/ Steps("node")

Next ==
    \/ Environment \/ Main \/ NodeHandler
    \/ \E p \in Others : OnOtherEvent(p) \/ AddPolicies(p)

\* Every goroutine runs on; a mutex is granted to a waiter that keeps asking.
Fairness ==
    /\ WF_vars(Main) /\ SF_vars(LockAndList("main"))
    /\ WF_vars(NodeHandler) /\ SF_vars(LockAndList("node"))
    /\ \A p \in Others : WF_vars(AddPolicies(p))

Spec == Init /\ [][Next]_vars
FairSpec == Spec /\ Fairness

-----------------------------------------------------------------------------
Labels == {"start", "pass", "wait", "idle", "nodes", "list", "add", "delete", "external",
           "listPolicy", "addPolicy", "listAssignment", "assign", "sync", "peering"}

\* The types of the state; one goroutine at a time is in syncInternalPeers, and
\* the path to the pods is there only once the server is started.
TypeOK ==
    /\ own \in OwnForms
    /\ nodes \in [Nodes -> NodeForms \cup {NoNode}]
    /\ nodeEvents \in Seq(Nodes)
    /\ changes \in 0 .. MaxChanges /\ faults \in 0 .. MaxFaults
    /\ bgpRRServer \in BOOLEAN /\ bgpRRClient \in BOOLEAN
    /\ pathPrepend \in {"none", "decimal", "prefixed"}
    /\ globalPeerRouters \in Seq(ExternalPeers)
    /\ bgpServerStarted \in BOOLEAN /\ listening \in BOOLEAN
    /\ podRoute => bgpServerStarted
    /\ peers \in SUBSET (Nodes \cup ExternalPeers)
    /\ neighborSets \in [SetNames -> SUBSET (Nodes \cup ExternalPeers)]
    /\ policies \in SUBSET PolicyNames /\ assigned \in SUBSET policies
    /\ activeNodes \in SUBSET Nodes /\ forgotten \in SUBSET Nodes
    /\ toPeer \in SUBSET currentNodes /\ currentNodes \in SUBSET Nodes
    /\ pc \in [Procs -> Labels]
    /\ on \in [Procs -> SetNames \cup PolicyNames]
    /\ cidrs \in [Procs -> SUBSET (Nodes \cup ExternalPeers)]
    /\ toAdd \in [Procs -> SUBSET (Nodes \cup ExternalPeers)]
    /\ toDelete \in [Procs -> SUBSET (Nodes \cup ExternalPeers)]
    /\ \A p \in Procs : /\ mu = p <=> pc[p] = "peering"
                        /\ pc[p] \in {"list", "add", "delete"} => on[p] \in SetNames

NoPeerForgotten == peers \cap Nodes \subseteq activeNodes \cup forgotten
RoutersConnected ==
    bgpServerStarted => /\ External \subseteq peers
                        /\ faults = 0 => peers = activeNodes \cup External

\* The record that syncInternalPeers works from is right at every moment, also in
\* the middle of a sync.  No internal peer is forgotten: whatever nodes came and
\* went while the two callers took turns, and whichever AddPeer failed, a node that
\* the server peers with is one that a later pass would remove, except one that a
\* failed DeletePeer has left behind.  No sync, whatever
\* it removes, disconnects a peer router that the server was started with; and as
\* long as no call has failed the server has exactly the recorded nodes besides.
PeersAsRecorded == NoPeerForgotten /\ RoutersConnected

\* Once the nodes stop changing the server peers with exactly those nodes that it
\* should, although notifications are lost, updates ignored, calls fail and the
\* lists in use are stale; besides them only with a node that DeletePeer failed to
\* remove, and that has not been added again since.
PeersFollowNodes ==
    bgpEnableInternal =>
        <>[](bgpServerStarted => peers = PeerNodes \cup External \cup forgotten)

\* Once the nodes stop changing the sets that the policies match on are those of
\* the nodes, and both policies are in effect, although several goroutines list,
\* compare and write without a lock and one may fail because of another.
PoliciesSettle ==
    <>[](bgpServerStarted /\ ~bgpRRServer =>
            /\ neighborSets["iBGPpeerset"] = PolicyNodes
            /\ neighborSets["allpeerset"] = PolicyNodes \cup External
            /\ pathPrepend # "prefixed" => assigned = PolicyNames)

\* The annotations name all that a start needs, without contradiction.
Complete(form) ==
    /\ bgpFullMeshMode \/ form.asn # NoAsn
    /\ form.rr # "bad" /\ form.prepend # "bad"
    /\ form.peers.kind = "listed" => Valid(form.peers) /\ IsInjective(form.peers.ips)
    /\ form.peers.kind # "unparsable"

\* A node whose annotations are, or are made, complete starts its server: no
\* failed attempt stands in the way of the next one, except one that failed to
\* connect to a list of peers that names an address twice, which is kept, and one
\* whose StopBgp failed, too, so that the port stays in use.
StartsOnceAnnotated ==
    <>[]Complete(own) => <>(\/ bgpServerStarted
                            \/ ~IsInjective(globalPeerRouters)
                            \/ listening /\ faults > 0)
=============================================================================
