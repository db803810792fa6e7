------------------------------- MODULE Ipset -------------------------------
(***************************************************************************)
(* The ipset handler (pkg/utils/ipset.go) in the hands of the three        *)
(* controllers.  The routing controller (syncNodeIPSets) and the service   *)
(* proxy (syncIpvsFirewall) replace their sets with Refresh: a temporary   *)
(* set of their own is created, filled, swapped in and destroyed.  The     *)
(* network policy controller saves all sets of the system, replaces its    *)
(* own in the saved copy and restores everything, again through temporary  *)
(* sets; so it rewrites the other controllers' sets too.  ipsetMutex is    *)
(* what makes that safe.  Any command may fail, and the process may end    *)
(* anywhere and leave temporary sets behind.                               *)
(*                                                                         *)
(* A name of the kernel is <<s, "set">> or <<s, "temp">>, the "s-" of      *)
(* Refresh; the "TMP-..." sets of restore, one for every distinct string   *)
(* of options, are a variable of their own.  Those that an earlier restore *)
(* left behind are saved and restored too, which only swaps each of them   *)
(* with itself and flushes it.                                             *)
(***************************************************************************)
EXTENDS Naturals, Sequences, SequencesExt

CONSTANTS
    NodeSets,       \* the routing controller's sets, in the order of their refresh
    ServiceSets,    \* the service proxy's, likewise
    PolicySets,     \* names the network policy controller may use
    OptionsOf,      \* the type of every set, as in its create options
    Entries,
    NoSet,          \* stands for a set that does not exist
    Sources,        \* per set, what its source may say: contents, or NoSet
    MaxChanges,     \* bound: changes of sources
    MaxFaults       \* bound: commands that fail and ends of the process

Refreshers == {"nrc", "nsc"}
Own(r) == IF r = "nrc" THEN NodeSets ELSE ServiceSets
RefreshedSets == ToSet(NodeSets) \cup ToSet(ServiceSets)
Sets == RefreshedSets \cup PolicySets
Names == (Sets \X {"set"}) \cup (RefreshedSets \X {"temp"})
Contents == {NoSet} \cup SUBSET Entries

\* Distinct option strings.  (The kernel lengthens the options of a set, so new
\* sets have strings, and a temporary set, of their own; here they share it.)
Options == {OptionsOf[s] : s \in Sets}

ASSUME IpsetAssumption ==
    /\ RefreshedSets \cap PolicySets = {}
    /\ ToSet(NodeSets) \cap ToSet(ServiceSets) = {}
    /\ NodeSets \in Seq(RefreshedSets) /\ NodeSets # <<>>
    /\ ServiceSets \in Seq(RefreshedSets) /\ ServiceSets # <<>>
    /\ \A v \in SUBSET Entries : v # NoSet
    /\ \A s \in Sets : Sources[s] \subseteq Contents /\ Sources[s] # {}
    /\ \A s \in RefreshedSets : NoSet \notin Sources[s]
    /\ MaxChanges \in Nat /\ MaxFaults \in Nat

VARIABLES
    readings,       \* history: per set, what its source has said so far
    ipsetMutex,     \* its holder, or "free"
    pc,             \* where each controller is
    idx,            \* per refresher, which of its sets it is refreshing
    goal,           \* per set, which of the readings the sync under way works from
    saved,          \* npc.ipSetHandler.Sets, over Names
    todo,           \* names still to be restored, or to be destroyed
    flushed,        \* options whose temporary set this restore has flushed
    kernel,         \* the kernel's sets, over Names
    tmp,            \* the kernel's "TMP-..." sets, over Options
    at,             \* history: per set, the reading it was last filled from
    changes, faults

sources == <<readings, changes>>
locals == <<idx, goal, saved, todo, flushed>>
sets == <<kernel, tmp, at>>
vars == <<sources, ipsetMutex, pc, locals, sets, faults>>

Empty == [n \in Names |-> NoSet]
Members(v) == IF v = NoSet THEN {} ELSE v
Fault == faults < MaxFaults /\ faults' = faults + 1
Goal(s) == readings[s][goal[s]]

Read(S) == goal' = [s \in Sets |-> IF s \in S THEN Len(readings[s]) ELSE goal[s]]
MLock(p) == ipsetMutex' = p
Lock(p) == ipsetMutex = "free" /\ ipsetMutex' = p
Goto(p, l) == pc' = [pc EXCEPT ![p] = l]

Init ==
    /\ readings \in [Sets -> {<<v>> : v \in Contents}]
    /\ \A s \in Sets : readings[s][1] \in Sources[s]
    /\ ipsetMutex = "free"
    /\ pc = [p \in {"nrc", "nsc", "npc"} |-> IF p = "npc" THEN "idle" ELSE "setup"]
    /\ idx = [r \in Refreshers |-> 1]
    /\ goal = [s \in Sets |-> 1]
    /\ saved = Empty /\ todo = {} /\ flushed = {}
    /\ kernel = Empty
    /\ tmp = [o \in Options |-> NoSet]
    /\ at = [s \in Sets |-> 0]
    /\ changes = 0 /\ faults = 0

(***************************************************************************)
(* Nodes, local addresses, IPVS services and network policies change.      *)
(***************************************************************************)
SourceChanges(s) ==
    /\ changes < MaxChanges
    /\ changes' = changes + 1
    /\ \E v \in Sources[s] \ {readings[s][Len(readings[s])]} :
          readings' = [readings EXCEPT ![s] = Append(@, v)]
    /\ UNCHANGED <<ipsetMutex, pc, locals, sets, faults>>

(***************************************************************************)
(* The routing controller and the service proxy.                           *)
(***************************************************************************)

Current(r) == Own(r)[idx[r]]
SetName(r) == <<Current(r), "set">>
TempName(r) == <<Current(r), "temp">>

\* NewNetworkRoutingController and setupIpvsFirewall create the missing sets of
\* their controller, without the mutex.
Setup(r) ==
    /\ pc[r] = "setup"
    /\ kernel' = [kernel EXCEPT ![SetName(r)] = Members(@)]
    /\ IF idx[r] < Len(Own(r))
       THEN idx' = [idx EXCEPT ![r] = @ + 1] /\ UNCHANGED pc
       ELSE idx' = [idx EXCEPT ![r] = 1] /\ Goto(r, "idle")
    /\ UNCHANGED <<sources, ipsetMutex, goal, saved, todo, flushed, tmp, at, faults>>

\* What a sync reads, and when: the routing controller all nodes at the start,
\* the service proxy its addresses at the start and the IPVS services after the
\* first refresh.
ReadBefore(r, k) ==
    IF r = "nrc" THEN IF k = 1 THEN ToSet(NodeSets) ELSE {}
    ELSE CASE k = 1 -> {ServiceSets[1]}
           [] k = 2 -> ToSet(Tail(ServiceSets))
           [] OTHER -> {}

\* syncNodeIPSets or syncIpvsFirewall starts.
RefreshBegin(r) ==
    /\ pc[r] = "idle"
    /\ Lock(r)
    /\ Read(ReadBefore(r, 1))
    /\ Goto(r, "create")
    /\ UNCHANGED <<sources, idx, saved, todo, flushed, sets, faults>>

\* ipset.Add: the temporary set is created unless it is there already.
CreateTemp(r) ==
    /\ pc[r] = "create"
    /\ kernel' = [kernel EXCEPT ![TempName(r)] = Members(@)]
    /\ Goto(r, "fill")
    /\ UNCHANGED <<sources, ipsetMutex, locals, tmp, at, faults>>

\* BatchAdd.
FillTemp(r) ==
    /\ pc[r] = "fill"
    /\ kernel' = [kernel EXCEPT ![TempName(r)] = @ \cup Goal(Current(r))]
    /\ Goto(r, "swap")
    /\ UNCHANGED <<sources, ipsetMutex, locals, tmp, at, faults>>

SwapTemp(r) ==
    /\ pc[r] = "swap"
    /\ kernel' = [kernel EXCEPT ![SetName(r)] = kernel[TempName(r)], ![TempName(r)] = kernel[SetName(r)]]
    /\ at' = [at EXCEPT ![Current(r)] = goal[Current(r)]]
    /\ Goto(r, "destroy")
    /\ UNCHANGED <<sources, ipsetMutex, locals, tmp, faults>>

\* On to the next set, or the mutex is released.
MNextSet(r) ==
    IF idx[r] <= Len(Own(r))
    THEN /\ idx' = [idx EXCEPT ![r] = @ + 1]
         /\ Read(ReadBefore(r, idx[r] + 1))
         /\ Goto(r, "create")
         /\ UNCHANGED ipsetMutex
    ELSE /\ idx' = [idx EXCEPT ![r] = 1]
         /\ Goto(r, "idle")
         /\ ipsetMutex' = "free"
         /\ UNCHANGED goal
NextSet(r) ==
    IF idx[r] < Len(Own(r))
    THEN /\ idx' = [idx EXCEPT ![r] = @ + 1]
         /\ Read(ReadBefore(r, idx[r] + 1))
         /\ Goto(r, "create")
         /\ UNCHANGED ipsetMutex
    ELSE /\ idx' = [idx EXCEPT ![r] = 1]
         /\ Goto(r, "idle")
         /\ ipsetMutex' = "free"
         /\ UNCHANGED goal

\* Destroy of the temporary set.
DestroyTemp(r) ==
    /\ pc[r] = "destroy"
    /\ kernel' = [kernel EXCEPT ![TempName(r)] = NoSet]
    /\ NextSet(r)
    /\ UNCHANGED <<sources, saved, todo, flushed, tmp, at, faults>>

\* A command fails: the sync ends there.  A batch may have added some entries.
RefreshFails(r) ==
    /\ pc[r] \in {"create", "fill", "swap", "destroy"}
    /\ Fault
    /\ \/ UNCHANGED kernel
       \/ /\ pc[r] = "fill"
          /\ \E part \in SUBSET Goal(Current(r)) : kernel' = [kernel EXCEPT ![TempName(r)] = @ \cup part]
    /\ Goto(r, "idle")
    /\ ipsetMutex' = "free"
    /\ idx' = [idx EXCEPT ![r] = 1]
    /\ UNCHANGED <<sources, goal, saved, todo, flushed, tmp, at>>

(***************************************************************************)
(* The network policy controller: fullPolicySync.                          *)
(***************************************************************************)

\* buildNetworkPoliciesInfo, before the mutex is taken.
PolicyBegin ==
    /\ pc["npc"] = "idle"
    /\ Read(PolicySets)
    /\ Goto("npc", "save")
    /\ UNCHANGED <<sources, ipsetMutex, idx, saved, todo, flushed, sets, faults>>

\* A set in the saved copy, after RefreshSet for those of every policy.
RefreshSet(n) == IF n[1] \in PolicySets /\ Goal(n[1]) # NoSet THEN Goal(n[1]) ELSE kernel[n]

\* syncNetworkPolicyChains up to Restore.
Save ==
    /\ pc["npc"] = "save"
    /\ Lock("npc")
    /\ saved' = [n \in Names |-> RefreshSet(n)]
    /\ todo' = {n \in Names : saved'[n] # NoSet}
    /\ flushed' = {}
    /\ Goto("npc", "restore")
    /\ UNCHANGED <<sources, idx, goal, sets, faults>>

\* The name that buildIPSetRestore comes to next, in a fixed order.
NextName == CHOOSE n \in todo : TRUE
TmpOf(n) == OptionsOf[n[1]]

\* create and flush of the temporary set at its first use, the entries, create.
RestoreFill ==
    /\ pc["npc"] = "restore" /\ todo # {}
    /\ LET n == NextName  o == TmpOf(n) IN
          /\ tmp' = [tmp EXCEPT ![o] = (IF o \in flushed THEN @ ELSE {}) \cup saved[n]]
          /\ kernel' = [kernel EXCEPT ![n] = Members(@)]
          /\ flushed' = flushed \cup {o}
    /\ Goto("npc", "swap")
    /\ UNCHANGED <<sources, ipsetMutex, idx, goal, saved, todo, at, faults>>

\* swap.
RestoreSwap ==
    /\ pc["npc"] = "swap"
    /\ LET n == NextName  o == TmpOf(n) IN
          /\ kernel' = [kernel EXCEPT ![n] = tmp[o]]
          /\ tmp' = [tmp EXCEPT ![o] = kernel[n]]
          /\ at' = IF n[1] \in PolicySets /\ Goal(n[1]) # NoSet THEN [at EXCEPT ![n[1]] = goal[n[1]]] ELSE at
    /\ Goto("npc", "flush")
    /\ UNCHANGED <<sources, ipsetMutex, locals, faults>>

\* flush of the temporary set, on to the next name.
RestoreFlush ==
    /\ pc["npc"] = "flush"
    /\ tmp' = [tmp EXCEPT ![TmpOf(NextName)] = {}]
    /\ todo' = todo \ {NextName}
    /\ Goto("npc", "restore")
    /\ UNCHANGED <<sources, ipsetMutex, idx, goal, saved, flushed, kernel, at, faults>>

\* destroy of the temporary sets, one after the other.
RestoreDestroy ==
    /\ pc["npc"] = "restore" /\ todo = {}
    /\ \E o \in flushed :
          /\ tmp' = [tmp EXCEPT ![o] = NoSet]
          /\ flushed' = flushed \ {o}
    /\ UNCHANGED <<sources, ipsetMutex, pc, idx, goal, saved, todo, kernel, at, faults>>

\* syncNetworkPolicyChains releases the mutex.
RestoreEnd ==
    /\ pc["npc"] = "restore" /\ todo = {} /\ flushed = {}
    /\ ipsetMutex' = "free"
    /\ saved' = Empty
    /\ Goto("npc", "cleanup")
    /\ UNCHANGED <<sources, idx, goal, todo, flushed, sets, faults>>

\* cleanupStaleIPSets: the sets of the system that no policy of this sync has.
\* (A failed Save ends the process.)
MCleanupBegin ==
    /\ pc["npc"] = "cleanup"
    /\ Lock("npc")
    /\ todo' = {n \in PolicySets \X {"set"} : saved[n] # NoSet /\ Goal(n[1]) = NoSet}
    /\ Goto("npc", "destroy")
    /\ UNCHANGED <<sources, idx, goal, saved, flushed, sets, faults>>
CleanupBegin ==
    /\ pc["npc"] = "cleanup"
    /\ Lock("npc")
    /\ todo' = {n \in PolicySets \X {"set"} : kernel[n] # NoSet /\ Goal(n[1]) = NoSet}
    /\ Goto("npc", "destroy")
    /\ UNCHANGED <<sources, idx, goal, saved, flushed, sets, faults>>

CleanupDestroy ==
    /\ pc["npc"] = "destroy"
    /\ \E n \in todo :
          /\ kernel' = [kernel EXCEPT ![n] = NoSet]
          /\ at' = [at EXCEPT ![n[1]] = goal[n[1]]]
          /\ todo' = todo \ {n}
    /\ UNCHANGED <<sources, ipsetMutex, pc, idx, goal, saved, flushed, tmp, faults>>

CleanupEnd ==
    /\ pc["npc"] = "destroy" /\ todo = {}
    /\ ipsetMutex' = "free"
    /\ Goto("npc", "idle")
    /\ UNCHANGED <<sources, locals, sets, faults>>

\* A command fails and ends the sync: a save, any line of a restore, a destroy
\* (of a set that a rule still refers to, say), or a step of the iptables work
\* between restore and cleanup.
PolicyFails ==
    /\ \/ pc["npc"] = "save" /\ ipsetMutex = "free"
       \/ pc["npc"] = "restore" \/ pc["npc"] = "swap" \/ pc["npc"] = "flush" \/ pc["npc"] = "cleanup"
       \/ pc["npc"] = "destroy" /\ todo # {}
    /\ Fault
    /\ \/ UNCHANGED tmp
       \/ /\ pc["npc"] = "restore" /\ todo # {}
          /\ LET o == TmpOf(NextName) IN
                \E part \in SUBSET saved[NextName] :
                    tmp' = [tmp EXCEPT ![o] = (IF o \in flushed THEN @ ELSE {}) \cup part]
    /\ ipsetMutex' = IF ipsetMutex = "npc" THEN "free" ELSE ipsetMutex
    /\ saved' = Empty /\ todo' = {} /\ flushed' = {}
    /\ Goto("npc", "idle")
    /\ UNCHANGED <<sources, idx, goal, kernel, at>>

(***************************************************************************)
(* The process ends and is started again.  What the kernel holds stays.    *)
(***************************************************************************)
Restart ==
    /\ ipsetMutex' = "free"
    /\ pc' = [p \in DOMAIN pc |-> IF p = "npc" THEN "idle" ELSE "setup"]
    /\ idx' = [r \in Refreshers |-> 1]
    /\ saved' = Empty /\ todo' = {} /\ flushed' = {}
    /\ UNCHANGED <<sources, goal, sets>>

Crash == Fault /\ Restart

\* A create of the set-up fails.  The routing controller's constructor returns
\* the error and the process ends.  The service proxy only logs it; ipsetMap
\* lacks the set, and the next syncIpvsFirewall dereferences nil.
SetupFails(r) ==
    /\ pc[r] = "setup"
    /\ Fault
    /\ IF r = "nrc" THEN Restart
       ELSE /\ Goto(r, "nil")
            /\ UNCHANGED <<sources, ipsetMutex, locals, sets>>

NilSet == pc["nsc"] = "nil" /\ ipsetMutex = "free" /\ Restart /\ UNCHANGED faults

RefreshStep(r) == Setup(r) \/ RefreshBegin(r) \/ CreateTemp(r) \/ FillTemp(r) \/ SwapTemp(r) \/ DestroyTemp(r)
RestoreStep == RestoreFill \/ RestoreSwap \/ RestoreFlush \/ RestoreDestroy \/ RestoreEnd
PolicyStep == PolicyBegin \/ Save \/ RestoreStep \/ CleanupBegin \/ CleanupDestroy \/ CleanupEnd

Next ==
    \/ \E s \in Sets : SourceChanges(s)
    \/ \E r \in Refreshers : RefreshStep(r) \/ RefreshFails(r) \/ SetupFails(r)
    \/ PolicyStep \/ PolicyFails
    \/ NilSet \/ Crash

Spec == Init /\ [][Next]_vars

\* Every controller syncs again and again, by its ticker, and sync.Mutex hands
\* the lock to a waiter that has been starved; a step between two Lock calls is
\* a command that returns.
FairSpec ==
    /\ Spec
    /\ \A r \in Refreshers :
          /\ SF_vars(RefreshBegin(r))
          /\ WF_vars(Setup(r) \/ CreateTemp(r) \/ FillTemp(r) \/ SwapTemp(r) \/ DestroyTemp(r))
    /\ SF_vars(Save) /\ SF_vars(CleanupBegin) /\ SF_vars(NilSet)
    /\ WF_vars(PolicyBegin \/ RestoreStep \/ CleanupDestroy \/ CleanupEnd)

(***************************************************************************)
(* Properties.                                                             *)
(***************************************************************************)

\* Every variable has its type.
TypeOK ==
    /\ readings \in [Sets -> Seq(Contents)]
    /\ ipsetMutex \in {"free", "nrc", "nsc", "npc"}
    /\ pc \in [{"nrc", "nsc", "npc"} ->
              {"setup", "nil", "idle", "create", "fill", "swap", "destroy", "save", "restore", "flush", "cleanup"}]
    /\ \A r \in Refreshers : idx[r] \in DOMAIN Own(r)
    /\ \A s \in Sets : goal[s] \in 1 .. Len(readings[s])
    /\ saved \in [Names -> Contents] /\ todo \subseteq Names /\ flushed \subseteq Options
    /\ kernel \in [Names -> Contents]
    /\ tmp \in [Options -> Contents]
    /\ at \in [Sets -> Nat]
    /\ changes \in 0 .. MaxChanges /\ faults \in 0 .. MaxFaults

\* Refinement: whatever the controllers interleave, fail at or leave behind,
\* the packet filter sees each set go from one complete content to the next one
\* that its own source had, never back, and policy sets exactly
\* (ipset.go, syncNodeIPSets, syncIpvsFirewall, syncNetworkPolicyChains).
A == INSTANCE AtomicSets WITH content <- [s \in Sets |-> kernel[<<s, "set">>]]
SetsAreAtomic == A!Spec

\* Once sources, faults and crashes stop, every set holds what its source says,
\* nothing that a failed refresh has left in a temporary set, and a policy set
\* without a policy is gone.
Converges ==
    <>[](\A s \in Sets : kernel[<<s, "set">>] = readings[s][Len(readings[s])])
=============================================================================
