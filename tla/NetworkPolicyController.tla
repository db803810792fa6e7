---------------------- MODULE NetworkPolicyController ----------------------
(***************************************************************************)
(* The network policy controller (pkg/controllers/netpol): event handlers  *)
(* and a ticker request full syncs over a channel with one slot, and one   *)
(* goroutine serves them with fullPolicySync, which lists the policies,    *)
(* then the pods of one policy after the other, writes the ipsets one      *)
(* after the other, lists the pods again, replaces the filter table at a   *)
(* stroke and destroys the ipsets nobody needs any more.  Any step may     *)
(* fail, which aborts the sync, and the process may end anywhere.          *)
(*                                                                         *)
(* A packet has a source, a destination and a port.  Named ports, IP       *)
(* blocks, established connections and traffic of the node itself are left *)
(* out; a selector is given by the pods it selects.                        *)
(***************************************************************************)
EXTENDS Naturals, Sequences

CONSTANTS
    Pods,
    LocalPods,      \* those scheduled on this node
    World,          \* a source or destination that is no pod
    Ports,
    Policies,
    Forms,          \* per policy, the specs it may have: [sel, dirs, rules],
                    \* the pods selected, the policy types, and per direction a
                    \* sequence of rules [all, peers, ports]
    MaxRules,       \* bound: rules of a policy
    MaxChanges,     \* bound: changes of API objects
    MaxFaults       \* bound: commands that fail and ends of the process

Dirs == {"in", "out"}
NoPolicy == [dirs |-> {}]   \* there is no such policy: each has a type
Drifted == [dirs |-> {"drifted"}]
AllForms == UNION {Forms[q] : q \in Policies}

ASSUME PolicyAssumption ==
    /\ LocalPods \subseteq Pods
    /\ World \notin Pods
    /\ \A f \in AllForms :
          /\ f.sel \subseteq Pods /\ f.dirs \subseteq Dirs /\ f.dirs # {}
          /\ \A d \in Dirs : \A i \in DOMAIN f.rules[d] :
                /\ i \in 1 .. MaxRules
                /\ f.rules[d][i].all \in BOOLEAN
                /\ f.rules[d][i].peers \subseteq Pods /\ f.rules[d][i].ports \subseteq Ports
    /\ MaxRules \in Nat /\ MaxChanges \in Nat /\ MaxFaults \in Nat

VARIABLES
    policies,       \* the network policy lister
    pods,           \* the pod lister: "absent", "pending", "running", "finished"
    changes,
    events,         \* relevant notifications not yet delivered
    fullSyncRequest,\* requests buffered in fullSyncRequestChan
    pc,             \* where fullPolicySync is
    info,           \* networkPoliciesInfo; a policy is as listed until its pods
                    \* have been listed
    unread,         \* policies of the list for which that has yet to happen
    localPods,      \* getLocalPods
    todo,           \* ipsets still to be written, or to be destroyed
    ipsets,         \* the kernel's ipsets: contents, or NoSet
    table,          \* the kernel's filter table
    refused,        \* the kernel refused to destroy, or could not find, an ipset
    faults,
    lastRead,       \* history: the networkPoliciesInfo of the last sync that built it
    loaded,         \* history: the sync that read it has loaded its table
    enforced        \* history: per policy, what the table in the kernel was made from,
                    \* or Drifted if a later sync has read it differently

listers == <<policies, pods, changes>>
requests == <<events, fullSyncRequest>>
locals == <<info, unread, localPods, todo>>
kernel == <<ipsets, table, refused>>
bounds == <<faults>>
history == <<lastRead, loaded, enforced>>
vars == <<listers, requests, pc, locals, kernel, bounds, history>>

FullSyncChanCap == 1    \* capacity of fullSyncRequestChan

\* isNetPolActionable
Actionable == {p \in Pods : pods[p] = "running"}

\* An ipset is named after a policy, a direction and 0 for the pods the policy
\* selects, or the position of a rule for the peers of that rule.
NoSet == [exists |-> FALSE, pods |-> {}]
SetOf(members) == [exists |-> TRUE, pods |-> members]
SetNames == [pol : Policies, dir : Dirs, idx : 0 .. MaxRules]
Name(q, d, i) == [pol |-> q, dir |-> d, idx |-> i]

-----------------------------------------------------------------------------
(* What a sync makes of the listers.                                       *)

\* buildNetworkPoliciesInfo and evalPodPeer: pods that are not actionable neither
\* are targets nor count as peers.
ActionableRules(list) ==
    [i \in DOMAIN list |-> [all |-> list[i].all, peers |-> list[i].peers \cap Actionable,
                            ports |-> list[i].ports]]
ActionablePolicy(f) ==
    [sel |-> f.sel \cap Actionable,
     dirs |-> f.dirs,
     rules |-> [d \in Dirs |-> ActionableRules(f.rules[d])]]

\* A rule with peers of which no pod exists yields neither an ipset nor a rule.
HasPeerSet(f, d, i) == ~f.rules[d][i].all /\ f.rules[d][i].peers # {}

\* The ipsets of syncNetworkPolicyChains, which are also the active ones.
ActiveSets ==
    {n \in SetNames : /\ info[n.pol] # NoPolicy
                      /\ n.dir \in info[n.pol].dirs
                      /\ \/ n.idx = 0
                         \/ /\ n.idx \in DOMAIN info[n.pol].rules[n.dir]
                            /\ HasPeerSet(info[n.pol], n.dir, n.idx)}
SetContents(n) ==
    IF n.idx = 0 THEN info[n.pol].sel ELSE info[n.pol].rules[n.dir][n.idx].peers

\* The rules of a policy for one direction.  Index 0 stands for a rule that matches
\* all sources, or all destinations.
PolicyRules(f, d) ==
    {[dir |-> d, idx |-> IF f.rules[d][i].all THEN 0 ELSE i, ports |-> f.rules[d][i].ports] :
        i \in {i \in DOMAIN f.rules[d] : f.rules[d][i].all \/ HasPeerSet(f, d, i)}}
processIngressRules(f) == IF "in" \in f.dirs THEN PolicyRules(f, "in") ELSE {}
processEgressRules(f) == IF "out" \in f.dirs THEN PolicyRules(f, "out") ELSE {}

\* The chain of a policy.
MPolicyChain(f) ==
    UNION {{[dir |-> d, idx |-> IF HasPeerSet(f, d, i) THEN i ELSE 0,
             ports |-> f.rules[d][i].ports] : i \in DOMAIN f.rules[d]} : d \in f.dirs}
PolicyChain(f) == processIngressRules(f) \cup processEgressRules(f)

\* The table that iptables-restore loads: pods with a firewall chain and, per
\* policy, the pods whose chain jumps to it, for which direction, and its rules.
NewTable ==
    [fw |-> localPods,
     chain |-> [q \in Policies |->
                   IF info[q] = NoPolicy THEN NoPolicy
                   ELSE [sel |-> info[q].sel, dirs |-> info[q].dirs,
                         rules |-> PolicyChain(info[q])]]]
EmptyTable == [fw |-> {}, chain |-> [q \in Policies |-> NoPolicy]]

\* The ipsets that the rules of a table mention.
References(t) ==
    UNION {UNION {{Name(q, r.dir, 0)} \cup (IF r.idx = 0 THEN {} ELSE {Name(q, r.dir, r.idx)}) :
                     r \in t.chain[q].rules} :
           q \in {q \in Policies : t.chain[q] # NoPolicy}}

-----------------------------------------------------------------------------
(* What becomes of a packet, in the kernel and in the policies.            *)

Packets == {k \in [src : Pods \cup {World}, dst : Pods \cup {World}, port : Ports] :
               k.src # k.dst /\ LocalPods \cap {k.src, k.dst} # {}}
EndsOf(k) == {k.src, k.dst}

\* A rule marks a packet that matches its ipsets and ports.
Marks(q, k) ==
    \E r \in table.chain[q].rules :
        LET peer == IF r.dir = "in" THEN k.src ELSE k.dst
            target == IF r.dir = "in" THEN k.dst ELSE k.src
        IN /\ k.port \in r.ports
           /\ target \in ipsets[Name(q, r.dir, 0)].pods
           /\ r.idx # 0 => peer \in ipsets[Name(q, r.dir, r.idx)].pods

Side(p, k) == IF k.dst = p THEN "in" ELSE "out"
Selecting(p, d) ==
    {q \in Policies : table.chain[q] # NoPolicy /\ p \in table.chain[q].sel
                      /\ d \in table.chain[q].dirs}

\* setupPodNetpolRules: the chain of a pod runs through the policies that select the
\* pod; a policy of one direction sees only packets of that direction, a policy of
\* both sees all.  Without a policy of its direction a packet is marked by the
\* default chain, and what is not marked is rejected.
PodChainPasses(p, k) ==
    \/ Selecting(p, Side(p, k)) = {}
    \/ \E q \in Selecting(p, Side(p, k)) : Marks(q, k)

Accepted == {k \in Packets : \A p \in EndsOf(k) \cap table.fw : PodChainPasses(p, k)}

\* The NetworkPolicy API: a pod that policies of a direction select accepts in that
\* direction what a rule of one of them, for that direction, allows.
RuleAllows(r, peer, port) == port \in r.ports /\ (r.all \/ peer \in r.peers)
PodAllows(p, k) ==
    LET d == Side(p, k)
        peer == IF d = "in" THEN k.src ELSE k.dst
        isolating == {q \in Policies : policies[q] # NoPolicy /\ p \in policies[q].sel
                                       /\ d \in policies[q].dirs}
    IN isolating = {} \/ \E q \in isolating : \E i \in DOMAIN policies[q].rules[d] :
                            RuleAllows(policies[q].rules[d][i], peer, k.port)
Live == {k \in Packets : EndsOf(k) \subseteq Actionable \cup {World}}
Allowed == {k \in Packets : k \in Live => \A p \in EndsOf(k) \cap LocalPods : PodAllows(p, k)}

\* What a sync depends on, and whether the last one has read it as it is now.
Built(f) == IF f = NoPolicy THEN NoPolicy ELSE ActionablePolicy(f)
Relevant == [q \in Policies |-> Built(policies[q])]
UpToDate == lastRead = Relevant /\ localPods = LocalPods \cap Actionable

Fault == faults < MaxFaults /\ faults' = faults + 1

Init ==
    /\ policies \in {l \in [Policies -> AllForms \cup {NoPolicy}] :
                        \A q \in Policies : l[q] \in Forms[q] \cup {NoPolicy}}
    /\ pods \in [Pods -> {"absent", "running"}]
    /\ changes = 0
    /\ events = 0
    /\ fullSyncRequest = 1
    /\ pc = "idle"
    /\ info = [q \in Policies |-> NoPolicy]
    /\ localPods = {}
    /\ todo = {}
    /\ ipsets = [n \in SetNames |-> NoSet]
    /\ table = EmptyTable
    /\ refused = FALSE
    /\ faults = 0
    /\ unread = {}
    /\ lastRead = info
    /\ loaded = FALSE
    /\ enforced = info

-----------------------------------------------------------------------------
(* Environment: the API server, the informers, the end of the process.     *)

\* Every change of a policy is reported.
PolicyChanges(q, form) ==
    /\ changes < MaxChanges
    /\ policies[q] # form
    /\ policies' = [policies EXCEPT ![q] = form]
    /\ changes' = changes + 1
    /\ events' = events + 1
    /\ UNCHANGED <<pods, fullSyncRequest, pc, locals, kernel, bounds, history>>

PodMayBecome(old, new) ==
    \/ old = "absent" /\ new \in {"pending", "running"}
    \/ old = "pending" /\ new \in {"running", "finished"}
    \/ old = "running" /\ new = "finished"
    \/ old # "absent" /\ new = "absent"

\* newPodEventHandler: a new pod counts only if it is actionable, an update if the
\* phase or the address changes, a deletion always.
PodEventRelevant(old, new) == old = "absent" => new = "running"

PodChanges(p, state) ==
    /\ changes < MaxChanges
    /\ PodMayBecome(pods[p], state)
    /\ pods' = [pods EXCEPT ![p] = state]
    /\ changes' = changes + 1
    /\ events' = IF PodEventRelevant(pods[p], state) THEN events + 1 ELSE events
    /\ UNCHANGED <<policies, fullSyncRequest, pc, locals, kernel, bounds, history>>

\* The process ends and is started again.  The kernel keeps its state; Run asks for
\* a sync before it does anything else.
Restart ==
    /\ events' = 0
    /\ fullSyncRequest' = 1
    /\ pc' = "idle"
    /\ info' = [q \in Policies |-> NoPolicy]
    /\ unread' = {}
    /\ localPods' = {}
    /\ todo' = {}
    /\ UNCHANGED <<listers, kernel, history>>

Crash == Fault /\ Restart

-----------------------------------------------------------------------------
(* RequestFullSync, by an event handler and by Run's ticker: a request that *)
(* finds the channel full is dropped.                                      *)

MRequestUnbounded == fullSyncRequest' = fullSyncRequest + 1

MRequestWhenIdle ==
    fullSyncRequest' = IF pc = "idle" THEN FullSyncChanCap ELSE fullSyncRequest

RequestFullSync ==
    fullSyncRequest' = IF fullSyncRequest < FullSyncChanCap THEN fullSyncRequest + 1
                       ELSE fullSyncRequest

HandleEvent ==
    /\ events > 0
    /\ events' = events - 1
    /\ RequestFullSync
    /\ UNCHANGED <<listers, pc, locals, kernel, bounds, history>>

MNoTick == UNCHANGED vars

Tick ==
    /\ RequestFullSync
    /\ UNCHANGED <<listers, events, pc, locals, kernel, bounds, history>>

-----------------------------------------------------------------------------
(* fullPolicySync.  pc: "idle", "build" (the top level chains are ensured), *)
(* "read" (buildNetworkPoliciesInfo, then iptables-save), "sets" (ipset    *)
(* restore under way), "rules", "clean" and "destroy"                      *)
(* (cleanupStaleIPSets).                                                   *)

\* An error that is logged and ends the sync: of iptables-save and ipset save, of
\* ipset restore, of the listing of chains and of iptables-restore, of ipset destroy.
Abort ==
    /\ pc \in {"read", "sets", "rules", "destroy"} /\ unread = {}
    /\ Fault
    /\ pc' = "idle"
    /\ todo' = {}
    /\ UNCHANGED <<listers, requests, info, unread, localPods, kernel, history>>

\* An error that ends the process: of the commands that ensure the top level chains
\* and the default chain, and of ipset save in cleanupStaleIPSets.
Fatal ==
    /\ pc \in {"build", "clean"}
    /\ Fault
    /\ Restart

TakeRequest ==
    /\ pc = "idle"
    /\ fullSyncRequest > 0
    /\ fullSyncRequest' = fullSyncRequest - 1
    /\ pc' = "build"
    /\ UNCHANGED <<listers, events, locals, kernel, bounds, history>>

\* buildNetworkPoliciesInfo lists the policies ...
ListPolicies ==
    /\ pc = "build"
    /\ info' = policies
    /\ unread' = {q \in Policies : policies[q] # NoPolicy}
    /\ loaded' = FALSE
    /\ pc' = "read"
    /\ UNCHANGED <<listers, requests, localPods, todo, kernel, bounds, lastRead, enforced>>

\* ... and, policy by policy, the pods it selects and those of its peers.  (The lists of
\* one policy, one for the selector and one per peer, are read in one step.)
BuildPolicy(q) ==
    /\ pc = "read"
    /\ q \in unread
    /\ unread' = unread \ {q}
    /\ info' = [info EXCEPT ![q] = ActionablePolicy(info[q])]
    /\ UNCHANGED <<listers, requests, pc, localPods, todo, kernel, bounds, history>>

\* iptables-save, then ipset save under ipsetMutex.
SaveTo(written) ==
    /\ pc = "read"
    /\ unread = {}
    /\ todo' = ActiveSets
    /\ ipsets' = written
    /\ lastRead' = info
    /\ enforced' = [q \in Policies |-> IF info[q] = enforced[q] THEN enforced[q] ELSE Drifted]
    /\ pc' = "sets"
    /\ UNCHANGED <<listers, requests, info, unread, localPods, table, refused, bounds,
                   loaded>>
MFlushSets == SaveTo([n \in SetNames |-> IF n \in ActiveSets THEN SetOf({}) ELSE ipsets[n]])
SaveTables == SaveTo(ipsets)

\* ipset restore: each set is filled aside and swapped in.
SwapSet(n) ==
    /\ pc = "sets"
    /\ n \in todo
    /\ todo' = todo \ {n}
    /\ ipsets' = [ipsets EXCEPT ![n] = SetOf(SetContents(n))]
    /\ UNCHANGED <<listers, requests, pc, info, unread, localPods, table, refused, bounds, history>>

\* syncPodFirewallChains: the pod lister is read again.
GetLocalPods ==
    /\ pc = "sets"
    /\ todo = {}
    /\ localPods' = LocalPods \cap Actionable
    /\ pc' = "rules"
    /\ UNCHANGED <<listers, requests, info, unread, todo, kernel, bounds, history>>

\* ensureExplicitAccept, cleanupStaleRules and iptables-restore: one atomic load,
\* which fails if a rule names an ipset that is not there.
RestoreTable ==
    /\ pc = "rules"
    /\ IF \A n \in References(NewTable) : ipsets[n].exists
       THEN /\ table' = NewTable
            /\ loaded' = TRUE
            /\ enforced' = info
            /\ pc' = "clean"
            /\ UNCHANGED refused
       ELSE /\ refused' = TRUE
            /\ pc' = "idle"
            /\ UNCHANGED <<table, loaded, enforced>>
    /\ UNCHANGED <<listers, requests, locals, ipsets, bounds, lastRead>>

MCleanupTargets ==
    /\ pc = "clean"
    /\ todo' = {n \in SetNames : ipsets[n].exists} \ {n \in ActiveSets : n.idx # 0}
    /\ pc' = "destroy"
    /\ UNCHANGED <<listers, requests, info, unread, localPods, kernel, bounds, history>>

\* cleanupStaleIPSets: every ipset of ours that is not active.
CleanupStaleIPSets ==
    /\ pc = "clean"
    /\ todo' = {n \in SetNames : ipsets[n].exists} \ ActiveSets
    /\ pc' = "destroy"
    /\ UNCHANGED <<listers, requests, info, unread, localPods, kernel, bounds, history>>

\* The kernel does not destroy a set that a rule refers to; the error ends the sync.
DestroySet(n) ==
    /\ pc = "destroy"
    /\ n \in todo
    /\ IF n \in References(table)
       THEN /\ refused' = TRUE
            /\ todo' = {}
            /\ UNCHANGED ipsets
       ELSE /\ todo' = todo \ {n}
            /\ ipsets' = [ipsets EXCEPT ![n] = NoSet]
            /\ UNCHANGED refused
    /\ UNCHANGED <<listers, requests, pc, info, unread, localPods, table, bounds, history>>

SyncEnd ==
    /\ pc = "destroy"
    /\ todo = {}
    /\ pc' = "idle"
    /\ UNCHANGED <<listers, requests, locals, kernel, bounds, history>>

-----------------------------------------------------------------------------
Environment ==
    \/ \E q \in Policies : \E form \in Forms[q] \cup {NoPolicy} : PolicyChanges(q, form)
    \/ \E p \in Pods : \E state \in {"absent", "pending", "running", "finished"} :
          PodChanges(p, state)
    \/ Crash

Sync ==
    \/ TakeRequest \/ ListPolicies \/ SaveTables \/ GetLocalPods \/ RestoreTable
    \/ CleanupStaleIPSets \/ SyncEnd
    \/ \E q \in Policies : BuildPolicy(q)
    \/ \E n \in SetNames : SwapSet(n) \/ DestroySet(n)

Next == Environment \/ HandleEvent \/ Tick \/ Sync \/ Abort \/ Fatal

\* The goroutines keep running and Run's ticker keeps ticking.
Fairness == WF_vars(HandleEvent) /\ WF_vars(Tick) /\ WF_vars(Sync)

Spec == Init /\ [][Next]_vars
FairSpec == Spec /\ Fairness

-----------------------------------------------------------------------------
TypeOK ==
    /\ policies \in [Policies -> AllForms \cup {NoPolicy}]
    /\ \A q \in Policies : policies[q] \in Forms[q] \cup {NoPolicy}
    /\ pods \in [Pods -> {"absent", "pending", "running", "finished"}]
    /\ changes \in 0 .. MaxChanges
    /\ events \in 0 .. changes
    /\ fullSyncRequest \in 0 .. FullSyncChanCap
    /\ pc \in {"idle", "build", "read", "sets", "rules", "clean", "destroy"}
    /\ unread \in SUBSET Policies
    /\ localPods \in SUBSET LocalPods
    /\ todo \in SUBSET SetNames
    /\ ipsets \in [SetNames -> [exists : BOOLEAN, pods : SUBSET Pods]]
    /\ table.fw \in SUBSET LocalPods
    /\ refused \in BOOLEAN /\ loaded \in BOOLEAN
    /\ faults \in 0 .. MaxFaults

\* Rules and ipsets are written and removed in an order in which no rule is ever
\* loaded that names a missing ipset and no ipset is destroyed that a rule names,
\* whatever half-finished syncs and earlier processes have left in the kernel.
NoIpsetRefused == ~refused

\* Once a sync has loaded its table and what it read is still so, the kernel accepts
\* exactly the packets the network policies allow, from and to the pods of this node.
KernelEnforces == loaded /\ UpToDate => Accepted \cap Live = Allowed \cap Live

\* The packets that a policy, as a sync has read it, lets through at the pods that
\* it selects.
Permits(f, k) ==
    \E d \in f.dirs : LET peer == IF d = "in" THEN k.src ELSE k.dst
                          target == IF d = "in" THEN k.dst ELSE k.src
                      IN /\ target \in f.sel
                         /\ \E i \in DOMAIN f.rules[d] : RuleAllows(f.rules[d][i], peer, k.port)

\* The ipsets change one by one before the rules do, under the same names, and the
\* sync may stop in between, more than once and for good: all the time each policy
\* that no sync has read differently since its rules were loaded goes on to mark
\* exactly the packets that it permits.
UnchangedPoliciesIntact ==
    \A q \in Policies : enforced[q] \notin {NoPolicy, Drifted} =>
        \A k \in Packets : Marks(q, k) <=> Permits(enforced[q], k)

\* No change is missed: when the table in the kernel was made from listers that have
\* changed since, a notification or a request is under way, or a sync is about to
\* read the listers, although the channel holds one request and drops the others,
\* and the sync reads the pods policy by policy and once more for the pods' chains.
NoChangeMissed == loaded /\ ~UpToDate => events > 0 \/ fullSyncRequest > 0 \/ pc = "build"

\* Once pods and policies stop changing and commands stop failing, the kernel comes
\* to enforce the policies and goes on doing so.
Converges == <>[](\A k \in Live : k \in Accepted <=> k \in Allowed)
=============================================================================
