------------------- MODULE NetworkPolicyControllerProofs -------------------
(***************************************************************************)
(* Proofs about NetworkPolicyController, for every set of pods and         *)
(* policies and every number of changes, faults and crashes.               *)
(***************************************************************************)
EXTENDS NetworkPolicyController, TLAPS

\* networkPoliciesInfo is well formed.
FormOK(f) ==
    /\ f.sel \subseteq Pods
    /\ f.dirs \subseteq Dirs
    /\ \A d \in Dirs : \A i \in DOMAIN f.rules[d] :
          /\ i \in 1 .. MaxRules
          /\ f.rules[d][i].peers \subseteq Pods
InfoOK ==
    /\ info = [q \in Policies |-> info[q]]
    /\ \A q \in Policies : info[q] # NoPolicy => FormOK(info[q])
    /\ \A q \in unread : info[q] # NoPolicy

\* The ipsets the sync needs have been written before its rules are loaded, and the
\* loaded rules mention no other, so that none of those is destroyed.
SetsInv ==
    /\ pc = "sets" => todo \subseteq ActiveSets /\ \A n \in ActiveSets \ todo : ipsets[n].exists
    /\ pc = "rules" => \A n \in ActiveSets : ipsets[n].exists
    /\ pc \in {"clean", "destroy"} => References(table) \subseteq ActiveSets
    /\ pc = "destroy" => todo \cap ActiveSets = {}

\* What a sync under way has already read is up to date, or another sync will follow.
Pending == events > 0 \/ fullSyncRequest > 0
ReadInv ==
    /\ pc \in {"read", "sets", "rules"} => ~loaded
    /\ pc = "read" /\ ~Pending =>
          \A q \in Policies : info[q] = IF q \in unread THEN policies[q] ELSE Relevant[q]
    /\ pc \in {"sets", "rules"} /\ lastRead # Relevant => Pending
    /\ pc = "rules" /\ localPods # LocalPods \cap Actionable => Pending

IInv == TypeOK /\ InfoOK /\ SetsInv /\ NoIpsetRefused

USE DEF Dirs, FullSyncChanCap

\* The rules a sync builds mention active ipsets only.
LEMMA RulesUseActiveSets ==
    ASSUME InfoOK, PolicyAssumption
    PROVE  References(NewTable) \subseteq ActiveSets
<1> SUFFICES ASSUME NEW n \in References(NewTable) PROVE n \in ActiveSets
    OBVIOUS
<1>1. PICK q \in Policies :
         /\ NewTable.chain[q] # NoPolicy
         /\ \E r \in NewTable.chain[q].rules :
               n = Name(q, r.dir, 0) \/ (r.idx # 0 /\ n = Name(q, r.dir, r.idx))
    BY DEF References
<1>2. /\ info[q] # NoPolicy
      /\ NewTable.chain[q].rules = PolicyChain(info[q])
    BY <1>1 DEF NewTable
<1>r. PICK r \in PolicyChain(info[q]) :
         n = Name(q, r.dir, 0) \/ (r.idx # 0 /\ n = Name(q, r.dir, r.idx))
    BY <1>1, <1>2
<1>d. PICK d \in info[q].dirs : r \in PolicyRules(info[q], d)
    BY <1>r DEF PolicyChain, processIngressRules, processEgressRules
<1>3. PICK i \in DOMAIN info[q].rules[d] :
         /\ info[q].rules[d][i].all \/ HasPeerSet(info[q], d, i)
         /\ r.dir = d
         /\ r.idx = IF info[q].rules[d][i].all THEN 0 ELSE i
  <2>1. PICK i \in DOMAIN info[q].rules[d] :
           /\ info[q].rules[d][i].all \/ HasPeerSet(info[q], d, i)
           /\ r = [dir |-> d, idx |-> IF info[q].rules[d][i].all THEN 0 ELSE i,
                   ports |-> info[q].rules[d][i].ports]
      BY <1>d, ZenonT(30) DEF PolicyRules
  <2> QED BY <2>1
<1>4. d \in Dirs /\ i \in 1 .. MaxRules /\ MaxRules \in Nat
    BY <1>2, <1>3 DEF InfoOK, FormOK, PolicyAssumption
<1>5. CASE n = Name(q, r.dir, 0)
    BY <1>2, <1>3, <1>4, <1>5 DEF ActiveSets, SetNames, Name
<1>6. CASE r.idx # 0 /\ n = Name(q, r.dir, r.idx)
  <2>1. r.idx = i /\ HasPeerSet(info[q], d, i)
      BY <1>3, <1>6
  <2> QED BY <1>2, <1>3, <1>4, <1>6, <2>1, SMTT(30) DEF ActiveSets, SetNames, Name
<1> QED BY <1>r, <1>5, <1>6

\* What a sync writes into an ipset is a set of pods.
LEMMA SetContentsType ==
    ASSUME InfoOK, NEW n \in ActiveSets
    PROVE  SetContents(n) \subseteq Pods
BY DEF InfoOK, FormOK, ActiveSets, SetNames, SetContents

\* A policy of the lister is well formed.
LEMMA ListedType ==
    ASSUME TypeOK, PolicyAssumption, NEW q \in Policies, policies[q] # NoPolicy
    PROVE  FormOK(policies[q])
<1>1. policies[q] \in AllForms
    BY DEF TypeOK, AllForms
<1> QED BY <1>1 DEF PolicyAssumption, FormOK

\* So is what is left of it when only actionable pods count.
LEMMA BuildType ==
    ASSUME NEW f, FormOK(f)
    PROVE  FormOK(ActionablePolicy(f))
<1> DEFINE x == ActionablePolicy(f)
<1>1. /\ x.sel = f.sel \cap Actionable /\ x.dirs = f.dirs
      /\ x.rules = [d \in Dirs |-> ActionableRules(f.rules[d])]
    BY DEF ActionablePolicy
<1> HIDE DEF x
<1>2. ASSUME NEW d \in Dirs, NEW i \in DOMAIN x.rules[d]
      PROVE  i \in 1 .. MaxRules /\ x.rules[d][i].peers \subseteq Pods
  <2>1. x.rules[d] = ActionableRules(f.rules[d])
      BY <1>1
  <2>2. i \in DOMAIN f.rules[d]
      BY <2>1 DEF ActionableRules
  <2>3. x.rules[d][i].peers = f.rules[d][i].peers \cap Actionable
    <3> DEFINE list == f.rules[d]
    <3>1. ActionableRules(list)[i] = [all |-> list[i].all, peers |-> list[i].peers \cap Actionable,
                                      ports |-> list[i].ports]
        BY <2>2 DEF ActionableRules
    <3> QED BY <2>1, <3>1
  <2> QED BY <2>2, <2>3 DEF FormOK
<1>3. x.sel \subseteq Pods /\ x.dirs \subseteq Dirs
    BY <1>1 DEF FormOK
<1> QED BY <1>2, <1>3 DEF FormOK, x

\* The initial states satisfy the inductive invariant.
LEMMA InitIInv == ASSUME PolicyAssumption, Init PROVE IInv
<1>1. ipsets \in [SetNames -> [exists : BOOLEAN, pods : SUBSET Pods]]
  <2>1. NoSet \in [exists : BOOLEAN, pods : SUBSET Pods]
      BY DEF NoSet
  <2>2. ipsets = [n \in SetNames |-> NoSet]
      BY DEF Init
  <2> QED BY <2>1, <2>2
<1>2. \A q \in Policies : policies[q] \in Forms[q] \cup {NoPolicy}
    BY DEF Init
<1>3. pods \in [Pods -> {"absent", "pending", "running", "finished"}]
    BY DEF Init
<1>4. table.fw \in SUBSET LocalPods
    BY DEF Init, EmptyTable
<1>5. policies \in [Policies -> AllForms \cup {NoPolicy}] /\ localPods \in SUBSET LocalPods
      /\ todo \in SUBSET SetNames /\ unread \in SUBSET Policies
    BY DEF Init
<1>6. /\ changes \in 0 .. MaxChanges /\ events \in 0 .. changes
      /\ fullSyncRequest \in 0 .. FullSyncChanCap
      /\ faults \in 0 .. MaxFaults
    BY DEF Init, PolicyAssumption
<1>7. /\ pc \in {"idle", "build", "read", "sets", "rules", "clean", "destroy"}
      /\ refused \in BOOLEAN /\ loaded \in BOOLEAN
    BY DEF Init
<1>8. TypeOK
    BY <1>1, <1>2, <1>3, <1>4, <1>5, <1>6, <1>7 DEF TypeOK
<1>9. InfoOK /\ SetsInv /\ NoIpsetRefused
    BY DEF Init, InfoOK, SetsInv, NoIpsetRefused
<1> QED BY <1>8, <1>9 DEF IInv

\* Every step of the sync, of the environment and of a restart preserves it.
LEMMA NextIInv == ASSUME PolicyAssumption, IInv, [Next]_vars PROVE IInv'
<1> USE DEF IInv, NoIpsetRefused
<1>1. CASE UNCHANGED vars
    BY <1>1 DEF vars, listers, requests, locals, kernel, bounds, history, TypeOK, InfoOK,
                SetsInv, ActiveSets
<1>2. ASSUME NEW q \in Policies, NEW form \in Forms[q] \cup {NoPolicy},
             PolicyChanges(q, form)
      PROVE  IInv'
  <2> USE <1>2 DEF PolicyChanges, locals, kernel, bounds, history
  <2>1. /\ policies' \in [Policies -> AllForms \cup {NoPolicy}]
        /\ \A r \in Policies : policies'[r] \in Forms[r] \cup {NoPolicy}
      BY DEF TypeOK, AllForms
  <2>2. changes' \in 0 .. MaxChanges /\ events' \in 0 .. changes'
      BY DEF TypeOK, PolicyAssumption
  <2>3. TypeOK'
      BY <2>1, <2>2 DEF TypeOK
  <2>4. InfoOK' /\ SetsInv'
      BY DEF InfoOK, SetsInv, ActiveSets
  <2> QED BY <2>3, <2>4
<1>3. ASSUME NEW p \in Pods, NEW state \in {"absent", "pending", "running", "finished"},
             PodChanges(p, state)
      PROVE  IInv'
  <2> USE <1>3 DEF PodChanges, locals, kernel, bounds, history
  <2>1. pods' \in [Pods -> {"absent", "pending", "running", "finished"}]
      BY DEF TypeOK
  <2>2. changes' \in 0 .. MaxChanges /\ events' \in 0 .. changes'
      BY DEF TypeOK, PolicyAssumption
  <2>3. TypeOK'
      BY <2>1, <2>2 DEF TypeOK
  <2>4. InfoOK' /\ SetsInv'
      BY DEF InfoOK, SetsInv, ActiveSets
  <2> QED BY <2>3, <2>4
<1>4. ASSUME Restart, faults' \in 0 .. MaxFaults
      PROVE  IInv'
  <2> USE <1>4 DEF Restart, listers, kernel, history
  <2>1. TypeOK'
      BY DEF TypeOK, PolicyAssumption
  <2>2. InfoOK' /\ SetsInv'
      BY DEF InfoOK, SetsInv
  <2> QED BY <2>1, <2>2
<1>5. CASE Crash
    BY <1>4, <1>5 DEF Crash, Fault, TypeOK, PolicyAssumption
<1>6. CASE Fatal
    BY <1>4, <1>6 DEF Fatal, Fault, TypeOK, PolicyAssumption
<1>7. CASE HandleEvent \/ Tick
  <2> USE <1>7 DEF HandleEvent, Tick, RequestFullSync, listers, locals, kernel, bounds, history
  <2>1. TypeOK'
      BY DEF TypeOK, PolicyAssumption
  <2>2. InfoOK' /\ SetsInv'
      BY DEF InfoOK, SetsInv, ActiveSets
  <2> QED BY <2>1, <2>2
<1>8. CASE Abort
  <2> USE <1>8 DEF Abort, Fault, listers, requests, kernel, history
  <2>1. TypeOK'
      BY DEF TypeOK, PolicyAssumption
  <2>2. InfoOK' /\ SetsInv'
      BY DEF InfoOK, SetsInv
  <2> QED BY <2>1, <2>2
<1>9. CASE TakeRequest
  <2> USE <1>9 DEF TakeRequest, listers, locals, kernel, bounds, history
  <2>1. TypeOK'
      BY DEF TypeOK, PolicyAssumption
  <2>2. InfoOK' /\ SetsInv'
      BY DEF InfoOK, SetsInv
  <2> QED BY <2>1, <2>2
<1>10. CASE ListPolicies
  <2> USE <1>10 DEF ListPolicies, listers, requests, kernel, bounds
  <2>1. TypeOK'
      BY DEF TypeOK
  <2>2. /\ info' = policies /\ policies = [q \in Policies |-> policies[q]]
        /\ \A q \in unread' : policies[q] # NoPolicy
      BY DEF TypeOK
  <2>3. InfoOK'
      BY <2>2, ListedType DEF InfoOK, FormOK
  <2>4. SetsInv'
      BY DEF SetsInv
  <2> QED BY <2>1, <2>3, <2>4
<1>18. ASSUME NEW q \in Policies, BuildPolicy(q)
       PROVE  IInv'
  <2> USE <1>18 DEF BuildPolicy, listers, requests, kernel, bounds, history
  <2>1. TypeOK'
      BY DEF TypeOK
  <2>2. FormOK(ActionablePolicy(info[q]))
      BY BuildType DEF InfoOK
  <2>3. /\ info' = [r \in Policies |-> info'[r]] /\ info'[q] = ActionablePolicy(info[q])
        /\ \A r \in Policies \ {q} : info'[r] = info[r]
      BY DEF InfoOK
  <2>4. InfoOK'
    <3>1. \A r \in Policies : info'[r] # NoPolicy => FormOK(info'[r])
        BY <2>2, <2>3 DEF InfoOK
    <3>2. unread' \subseteq unread \ {q} /\ unread \subseteq Policies
        BY DEF TypeOK
    <3>3. \A r \in unread' : info'[r] # NoPolicy
        BY <2>3, <3>2 DEF InfoOK
    <3> QED BY <2>3, <3>1, <3>3 DEF InfoOK, FormOK
  <2>5. SetsInv'
      BY DEF SetsInv
  <2> QED BY <2>1, <2>4, <2>5
<1>11. CASE SaveTables
  <2> USE <1>11 DEF SaveTables, SaveTo, listers, requests, bounds
  <2>1. TypeOK'
      BY DEF TypeOK, ActiveSets
  <2>2. InfoOK' /\ SetsInv'
      BY DEF InfoOK, SetsInv, ActiveSets
  <2> QED BY <2>1, <2>2
<1>12. ASSUME NEW n \in SetNames, SwapSet(n)
       PROVE  IInv'
  <2> USE <1>12 DEF SwapSet, listers, requests, bounds, history
  <2>0. ActiveSets' = ActiveSets
      BY DEF ActiveSets
  <2>1. n \in ActiveSets
      BY DEF SetsInv
  <2>2. SetOf(SetContents(n)) \in [exists : BOOLEAN, pods : SUBSET Pods]
      BY <2>1, SetContentsType DEF SetOf
  <2>3. ipsets' \in [SetNames -> [exists : BOOLEAN, pods : SUBSET Pods]]
      BY <2>2 DEF TypeOK
  <2>4. TypeOK'
      BY <2>3 DEF TypeOK
  <2>5. SetsInv'
      BY <2>0 DEF SetsInv, TypeOK, SetOf
  <2> QED BY <2>4, <2>5 DEF InfoOK
<1>13. CASE GetLocalPods
  <2> USE <1>13 DEF GetLocalPods, listers, requests, kernel, bounds, history
  <2>1. TypeOK'
      BY DEF TypeOK
  <2>2. InfoOK' /\ SetsInv'
      BY DEF InfoOK, SetsInv, ActiveSets
  <2> QED BY <2>1, <2>2
<1>14. CASE RestoreTable
  <2> USE <1>14 DEF RestoreTable, listers, requests, locals, bounds
  <2>1. \A n \in References(NewTable) : ipsets[n].exists
      BY RulesUseActiveSets DEF SetsInv
  <2>2. TypeOK'
    <3>1. table'.fw = localPods
        BY <2>1 DEF NewTable
    <3> QED BY <2>1, <3>1 DEF TypeOK
  <2>3. InfoOK' /\ ActiveSets' = ActiveSets
      BY DEF InfoOK, ActiveSets
  <2>4. SetsInv'
      BY <2>1, <2>3, RulesUseActiveSets DEF SetsInv, References
  <2> QED BY <2>1, <2>2, <2>3, <2>4
<1>15. CASE CleanupStaleIPSets
  <2> USE <1>15 DEF CleanupStaleIPSets, listers, requests, kernel, bounds, history
  <2>1. TypeOK'
      BY DEF TypeOK
  <2>2. InfoOK' /\ ActiveSets' = ActiveSets
      BY DEF InfoOK, ActiveSets
  <2>3. SetsInv'
      BY <2>2 DEF SetsInv, References
  <2> QED BY <2>1, <2>2, <2>3
<1>16. ASSUME NEW n \in SetNames, DestroySet(n)
       PROVE  IInv'
  <2> USE <1>16 DEF DestroySet, listers, requests, bounds, history
  <2>1. n \notin References(table)
      BY DEF SetsInv
  <2>2. NoSet \in [exists : BOOLEAN, pods : SUBSET Pods]
      BY DEF NoSet
  <2>3. TypeOK'
      BY <2>1, <2>2 DEF TypeOK
  <2>4. InfoOK' /\ SetsInv'
      BY <2>1 DEF InfoOK, SetsInv, ActiveSets, References
  <2> QED BY <2>1, <2>3, <2>4
<1>17. CASE SyncEnd
  <2> USE <1>17 DEF SyncEnd, listers, requests, locals, kernel, bounds, history
  <2>1. TypeOK'
      BY DEF TypeOK
  <2>2. InfoOK' /\ SetsInv'
      BY DEF InfoOK, SetsInv
  <2> QED BY <2>1, <2>2
<1> QED
    BY <1>1, <1>2, <1>3, <1>5, <1>6, <1>7, <1>8, <1>9, <1>10, <1>11, <1>12, <1>13, <1>14,
       <1>15, <1>16, <1>17, <1>18 DEF Next, Environment, Sync

\* The counters of the model, the request channel with its one slot, the ipsets and
\* the firewall chains keep their types, whatever fails and whenever the process ends.
THEOREM TypeCorrect == Spec => []TypeOK
<1>1. Init => IInv
    BY PolicyAssumption, InitIInv
<1>2. IInv /\ [Next]_vars => IInv'
    BY PolicyAssumption, NextIInv
<1>3. IInv => TypeOK
    BY DEF IInv
<1> QED BY <1>1, <1>2, <1>3, PTL DEF Spec

\* fullPolicySync writes ipsets, loads rules and destroys ipsets in an order in which
\* the kernel never refuses a command because of an ipset that is missing or in use,
\* whatever aborted syncs and earlier processes left behind.
THEOREM NoIpsetEverRefused == Spec => []NoIpsetRefused
<1>1. Init => IInv
    BY PolicyAssumption, InitIInv
<1>2. IInv /\ [Next]_vars => IInv'
    BY PolicyAssumption, NextIInv
<1>3. IInv => NoIpsetRefused
    BY DEF IInv
<1> QED BY <1>1, <1>2, <1>3, PTL DEF Spec

-----------------------------------------------------------------------------
(* No change of the listers is missed.                                     *)

\* A change that no handler hears of is one that no sync would see.
LEMMA UnheardChange ==
    ASSUME TypeOK, NEW p \in Pods, NEW state \in {"absent", "pending", "running", "finished"},
           PodChanges(p, state)
    PROVE  events' > 0 \/ (Actionable' = Actionable /\ Relevant' = Relevant)
<1>1. CASE PodEventRelevant(pods[p], state)
    BY <1>1 DEF PodChanges, TypeOK
<1>2. CASE ~PodEventRelevant(pods[p], state)
  <2>1. pods[p] = "absent" /\ state # "running"
      BY <1>2 DEF PodEventRelevant
  <2>2. pods' = [pods EXCEPT ![p] = state] /\ policies' = policies
      BY DEF PodChanges
  <2>3. Actionable' = Actionable
      BY <2>1, <2>2 DEF Actionable, TypeOK
  <2> QED BY <2>2, <2>3 DEF Relevant, Built, ActionablePolicy, ActionableRules
<1> QED BY <1>1, <1>2

\* The first sync is requested before anything has been read.
LEMMA ReadInvInit == ASSUME Init PROVE ReadInv /\ NoChangeMissed
BY DEF Init, ReadInv, NoChangeMissed

\* Every step preserves that a stale reading has a sync to follow it.
LEMMA ReadInvNext == ASSUME IInv, IInv', ReadInv, NoChangeMissed, [Next]_vars
                     PROVE  ReadInv' /\ NoChangeMissed'
<1> USE DEF ReadInv, NoChangeMissed, UpToDate, Pending
<1>t. TypeOK /\ TypeOK' /\ InfoOK
    BY DEF IInv
<1>u. ASSUME UNCHANGED listers PROVE Relevant' = Relevant /\ Actionable' = Actionable /\ policies' = policies
    BY <1>u DEF listers, Relevant, Built, ActionablePolicy, ActionableRules, Actionable
<1>1. CASE UNCHANGED vars
    BY <1>1, <1>u DEF vars, listers, requests, locals, history
<1>2. ASSUME NEW q \in Policies, NEW form \in Forms[q] \cup {NoPolicy},
             PolicyChanges(q, form)
      PROVE  ReadInv' /\ NoChangeMissed'
  <2>1. events' > 0
      BY <1>2, <1>t DEF PolicyChanges, TypeOK
  <2> QED BY <1>2, <2>1 DEF PolicyChanges, locals, history
<1>3. ASSUME NEW p \in Pods, NEW state \in {"absent", "pending", "running", "finished"},
             PodChanges(p, state)
      PROVE  ReadInv' /\ NoChangeMissed'
  <2>1. events' > 0 \/ (Actionable' = Actionable /\ Relevant' = Relevant)
      BY <1>3, <1>t, UnheardChange
  <2>2. events' >= events
      BY <1>3, <1>t DEF PodChanges, TypeOK
  <2>3. events > 0 => events' > 0
      BY <2>2, <1>t DEF TypeOK
  <2> QED BY <1>3, <2>1, <2>3 DEF PodChanges, locals, history
<1>4. CASE Restart
    BY <1>4 DEF Restart
<1>5. CASE HandleEvent \/ Tick
  <2>1. fullSyncRequest' > 0
      BY <1>5, <1>t DEF HandleEvent, Tick, RequestFullSync, TypeOK
  <2> QED BY <1>5, <2>1, <1>u DEF HandleEvent, Tick, locals, history
<1>6. CASE Abort
    BY <1>6, <1>u DEF Abort, requests, history
<1>7. CASE TakeRequest
    BY <1>7, <1>u DEF TakeRequest, locals, history
<1>8. CASE ListPolicies
  <2>1. \A q \in Policies : q \notin unread' => policies[q] = NoPolicy /\ Relevant[q] = NoPolicy
      BY <1>8 DEF ListPolicies, Relevant, Built
  <2> QED BY <1>8, <1>u, <2>1 DEF ListPolicies, requests
<1>14. ASSUME NEW q \in Policies, BuildPolicy(q)
       PROVE  ReadInv' /\ NoChangeMissed'
  <2>1. /\ pc = "read" /\ pc' = "read" /\ q \in unread /\ unread' = unread \ {q}
        /\ info' = [info EXCEPT ![q] = ActionablePolicy(info[q])]
        /\ UNCHANGED <<listers, requests, loaded, lastRead>>
      BY <1>14 DEF BuildPolicy, history
  <2>2. info'[q] = ActionablePolicy(info[q]) /\ \A r \in Policies \ {q} : info'[r] = info[r]
      BY <1>t, <2>1 DEF InfoOK
  <2>3. info[q] = policies[q] => info'[q] = Relevant[q]
      BY <1>t, <2>1, <2>2 DEF InfoOK, Relevant, Built
  <2> QED BY <1>u, <2>1, <2>2, <2>3 DEF requests
<1>9. CASE SaveTables
  <2>1. /\ pc = "read" /\ unread = {} /\ pc' = "sets" /\ lastRead' = info
        /\ UNCHANGED <<listers, requests, loaded>>
      BY <1>9 DEF SaveTables, SaveTo
  <2>2. ASSUME \A q \in Policies : info[q] = Relevant[q] PROVE info = Relevant
      BY <1>t, <2>2 DEF InfoOK, Relevant
  <2> QED BY <1>u, <2>1, <2>2 DEF requests
<1>10. CASE GetLocalPods
    BY <1>10, <1>u DEF GetLocalPods, requests, history
<1>11. CASE RestoreTable
    BY <1>11, <1>u DEF RestoreTable, requests, locals
<1>12. CASE CleanupStaleIPSets \/ SyncEnd
    BY <1>12, <1>u DEF CleanupStaleIPSets, SyncEnd, requests, locals, history
<1>13. ASSUME NEW n \in SetNames, SwapSet(n) \/ DestroySet(n)
       PROVE  ReadInv' /\ NoChangeMissed'
    BY <1>13, <1>u DEF SwapSet, DestroySet, requests, history
<1> QED
    BY <1>1, <1>2, <1>3, <1>4, <1>5, <1>6, <1>7, <1>8, <1>9, <1>10, <1>11, <1>12, <1>13, <1>14
    DEF Next, Environment, Sync, Crash, Fatal

\* RequestFullSync may drop a request because the channel is full, a sync reads the
\* pods at two moments, and a handler ignores some pod events: still, a table made
\* from listers that have changed since is always followed by another sync.
THEOREM NoChangeEverMissed == Spec => []NoChangeMissed
<1>1. Init => IInv /\ ReadInv /\ NoChangeMissed
    BY PolicyAssumption, InitIInv, ReadInvInit
<1>2. IInv /\ ReadInv /\ NoChangeMissed /\ [Next]_vars
        => IInv' /\ ReadInv' /\ NoChangeMissed'
    BY PolicyAssumption, NextIInv, ReadInvNext
<1> QED BY <1>1, <1>2, PTL DEF Spec
-----------------------------------------------------------------------------
(* The kernel enforces the policies.                                       *)

\* The ipsets and chains that a sync makes of networkPoliciesInfo.
SetsOf(x) ==
    {n \in SetNames : /\ x[n.pol] # NoPolicy
                      /\ n.dir \in x[n.pol].dirs
                      /\ \/ n.idx = 0
                         \/ /\ n.idx \in DOMAIN x[n.pol].rules[n.dir]
                            /\ HasPeerSet(x[n.pol], n.dir, n.idx)}
ContentsOf(x, n) == IF n.idx = 0 THEN x[n.pol].sel ELSE x[n.pol].rules[n.dir][n.idx].peers
ChainsOf(x) ==
    [q \in Policies |->
        IF x[q] = NoPolicy THEN NoPolicy
        ELSE [sel |-> x[q].sel, dirs |-> x[q].dirs, rules |-> PolicyChain(x[q])]]

\* A sync works on one networkPoliciesInfo, it writes all the ipsets before it
\* loads the rules, and as long as its table is the loaded one the ipsets of that table
\* have the contents that it gave them.
Filled(x, n) == ipsets[n] = SetOf(ContentsOf(x, n))
EnforceInv ==
    /\ pc \in {"sets", "rules", "clean", "destroy"} => info = lastRead
    /\ pc = "sets" => \A n \in SetsOf(info) \ todo : Filled(info, n)
    /\ pc = "rules" => \A n \in SetsOf(info) : Filled(info, n)
    /\ pc \in {"read", "sets", "rules"} => ~loaded
    /\ loaded => /\ table.chain = ChainsOf(lastRead)
                 /\ table.fw = localPods \/ localPods = {}
                 /\ \A n \in SetsOf(lastRead) : Filled(lastRead, n)

\* A sync fills and loads what SetsOf, ContentsOf and ChainsOf say.
LEMMA SyncMakes ==
    /\ ActiveSets = SetsOf(info)
    /\ \A n : SetContents(n) = ContentsOf(info, n)
    /\ NewTable.chain = ChainsOf(info) /\ NewTable.fw = localPods
<1>2. ActiveSets = SetsOf(info)
    BY DEF ActiveSets, SetsOf
<1>3. \A n : SetContents(n) = ContentsOf(info, n)
    BY DEF SetContents, ContentsOf
<1>4. NewTable.chain = ChainsOf(info) /\ NewTable.fw = localPods
    BY DEF NewTable, ChainsOf
<1> QED BY <1>2, <1>3, <1>4

\* Every step keeps the sets and chains of one reading together.
LEMMA EnforceInvNext == ASSUME IInv, EnforceInv, [Next]_vars PROVE EnforceInv'
<1> USE DEF EnforceInv, Filled
\* Nothing that the invariant speaks about changes, or the sync ends.
<1>1. ASSUME UNCHANGED <<info, localPods, ipsets, table, lastRead, loaded>>,
             (pc' = pc /\ todo' = todo) \/ pc' \in {"idle", "build"}
      PROVE  EnforceInv'
    BY <1>1
<1>2. CASE UNCHANGED vars
    BY <1>1, <1>2 DEF vars, locals, kernel, history
<1>3. ASSUME NEW q \in Policies, NEW form \in Forms[q] \cup {NoPolicy}, PolicyChanges(q, form)
      PROVE  EnforceInv'
    BY <1>1, <1>3 DEF PolicyChanges, locals, kernel, history
<1>4. ASSUME NEW p \in Pods, NEW state \in {"absent", "pending", "running", "finished"}, PodChanges(p, state)
      PROVE  EnforceInv'
    BY <1>1, <1>4 DEF PodChanges, locals, kernel, history
<1>5. CASE Restart
  <2> USE <1>5 DEF Restart, kernel, history
  <2>1. pc' = "idle" /\ localPods' = {} /\ UNCHANGED <<ipsets, table, lastRead, loaded>>
      OBVIOUS
  <2> QED BY <2>1
<1>6. CASE HandleEvent \/ Tick
    BY <1>1, <1>6 DEF HandleEvent, Tick, locals, kernel, history
<1>7. CASE Abort
    BY <1>1, <1>7 DEF Abort, kernel, history
<1>8. CASE TakeRequest
    BY <1>1, <1>8 DEF TakeRequest, locals, kernel, history
<1>9. CASE ListPolicies
  <2>1. pc' = "read" /\ ~loaded'
      BY <1>9 DEF ListPolicies
  <2> QED BY <2>1
<1>17. ASSUME NEW q \in Policies, BuildPolicy(q) PROVE EnforceInv'
  <2>1. pc = "read" /\ pc' = "read" /\ loaded' = loaded
      BY <1>17 DEF BuildPolicy, history
  <2> QED BY <2>1
<1>10. CASE SaveTables
  <2>1. pc' = "sets" /\ todo' = SetsOf(info) /\ UNCHANGED <<info, loaded>> /\ lastRead' = info /\ pc = "read"
      BY <1>10, SyncMakes DEF SaveTables, SaveTo
  <2> QED BY <2>1
<1>11. ASSUME NEW n \in SetNames, SwapSet(n) PROVE EnforceInv'
  <2>1. /\ pc = "sets" /\ pc' = "sets" /\ UNCHANGED <<info, lastRead, loaded>>
        /\ todo' = todo \ {n} /\ ipsets' = [ipsets EXCEPT ![n] = SetOf(ContentsOf(info, n))]
      BY <1>11, SyncMakes DEF SwapSet, history
  <2>2. SetsOf(info) \subseteq SetNames
      BY DEF SetsOf
  <2>3. DOMAIN ipsets = SetNames
      BY DEF IInv, TypeOK
  <2>4. \A m \in SetsOf(info) \ todo' : ipsets'[m] = SetOf(ContentsOf(info, m))
      BY <2>1, <2>2, <2>3
  <2> QED BY <2>1, <2>4
<1>12. CASE GetLocalPods
    BY <1>12 DEF GetLocalPods, kernel, history
<1>13. CASE RestoreTable
  <2>1. \A n \in References(NewTable) : ipsets[n].exists
      BY <1>13, PolicyAssumption, RulesUseActiveSets DEF IInv, SetsInv, RestoreTable
  <2>2. /\ pc = "rules" /\ pc' = "clean" /\ table' = NewTable /\ UNCHANGED <<info, localPods, ipsets, lastRead>>
      BY <1>13, <2>1 DEF RestoreTable, locals
  <2>3. table'.chain = ChainsOf(info) /\ table'.fw = localPods
      BY <2>2, SyncMakes
  <2> QED BY <2>2, <2>3
<1>14. CASE CleanupStaleIPSets
    BY <1>14 DEF CleanupStaleIPSets, kernel, history
<1>15. ASSUME NEW n \in SetNames, DestroySet(n) PROVE EnforceInv'
  <2>1. /\ pc = "destroy" /\ pc' = "destroy" /\ UNCHANGED <<info, localPods, table, lastRead, loaded>>
        /\ n \in todo
      BY <1>15 DEF DestroySet, history
  <2>2. n \notin SetsOf(info)
      BY <2>1, SyncMakes DEF IInv, SetsInv
  <2>3. DOMAIN ipsets = SetNames /\ SetsOf(info) \subseteq SetNames
      BY DEF IInv, TypeOK, SetsOf
  <2>4. ipsets' = ipsets \/ ipsets' = [ipsets EXCEPT ![n] = NoSet]
      BY <1>15 DEF DestroySet
  <2>5. \A m \in SetsOf(info) : ipsets'[m] = ipsets[m]
      BY <2>2, <2>3, <2>4
  <2> QED BY <2>1, <2>5
<1>16. CASE SyncEnd
    BY <1>1, <1>16 DEF SyncEnd, locals, kernel, history
<1> QED
    BY <1>2, <1>3, <1>4, <1>5, <1>6, <1>7, <1>8, <1>9, <1>10, <1>11, <1>12, <1>13, <1>14, <1>15, <1>16, <1>17
    DEF Next, Environment, Sync, Crash, Fatal

\* Policies of one type only: each either restricts what its pods receive or what they
\* send.  A chain of a policy with both types also lets pass what only its other
\* type allows (run npc_both).
OneTypeEach == \A f \in AllForms : \A d, e \in f.dirs : d = e

\* A live packet, at the pod that receives or sends it: the rules of a policy mark it
\* exactly if the policy allows it.
LEMMA PolicyMarks ==
    ASSUME OneTypeEach, IInv, EnforceInv, loaded, UpToDate,
           NEW k \in Live, NEW p \in EndsOf(k) \cap LocalPods,
           NEW q \in Policies, policies[q] # NoPolicy, p \in policies[q].sel, Side(p, k) \in policies[q].dirs
    PROVE  Marks(q, k) <=> LET d == Side(p, k) IN
               \E i \in DOMAIN policies[q].rules[d] :
                   RuleAllows(policies[q].rules[d][i], IF d = "in" THEN k.src ELSE k.dst, k.port)
<1> DEFINE d == Side(p, k)
           f == policies[q]
           peer == IF d = "in" THEN k.src ELSE k.dst
           x == Relevant
<1>1. f \in AllForms /\ d \in Dirs /\ f.dirs = {d}
  <2>1. f \in AllForms
      BY DEF IInv, TypeOK, AllForms
  <2>2. \A e \in f.dirs : e = d
      BY <2>1 DEF OneTypeEach
  <2> QED BY <2>1, <2>2 DEF Side
<1>2. /\ k \in Packets /\ EndsOf(k) = {k.src, k.dst} /\ k.src # k.dst
      /\ k.src \in Actionable \cup {World} /\ k.dst \in Actionable \cup {World} /\ p \in Actionable
  <2>1. k \in Packets /\ EndsOf(k) = {k.src, k.dst} /\ {k.src, k.dst} \subseteq Actionable \cup {World}
      BY DEF Live, EndsOf
  <2>2. k.src # k.dst
      BY <2>1 DEF Packets
  <2>3. p \in Actionable
      BY <2>1, PolicyAssumption DEF PolicyAssumption
  <2> QED BY <2>1, <2>2, <2>3
\* The pod is the target of the rules, the other end their peer.
<1>3. /\ d = "in" => k.dst = p
      /\ d = "out" => k.src = p
    BY <1>2 DEF Side
<1>4. \A i \in DOMAIN f.rules[d] :
         i \in 1 .. MaxRules /\ f.rules[d][i].all \in BOOLEAN /\ f.rules[d][i].peers \subseteq Pods
    BY <1>1, PolicyAssumption DEF PolicyAssumption
<1>5. \A i \in DOMAIN f.rules[d] : peer \in f.rules[d][i].peers <=> peer \in f.rules[d][i].peers \cap Actionable
  <2>1. peer \in Actionable \cup {World}
      BY <1>2
  <2> QED BY <1>4, <2>1, PolicyAssumption DEF PolicyAssumption
<1>6. lastRead = Relevant /\ table.chain = ChainsOf(x) /\ \A n \in SetsOf(x) : ipsets[n] = SetOf(ContentsOf(x, n))
    BY DEF EnforceInv, UpToDate, Filled
<1>7. /\ x[q] # NoPolicy /\ x[q].sel = f.sel \cap Actionable /\ x[q].dirs = f.dirs
      /\ DOMAIN x[q].rules[d] = DOMAIN f.rules[d]
      /\ \A i \in DOMAIN f.rules[d] :
            x[q].rules[d][i] = [all |-> f.rules[d][i].all, peers |-> f.rules[d][i].peers \cap Actionable,
                                ports |-> f.rules[d][i].ports]
  <2>1. x[q] = [sel |-> f.sel \cap Actionable, dirs |-> f.dirs,
                rules |-> [e \in Dirs |-> [i \in DOMAIN f.rules[e] |->
                              [all |-> f.rules[e][i].all, peers |-> f.rules[e][i].peers \cap Actionable,
                               ports |-> f.rules[e][i].ports]]]]
      BY DEF Relevant, Built, ActionablePolicy, ActionableRules
  <2>2. x[q].sel = f.sel \cap Actionable /\ x[q].dirs = f.dirs
        /\ x[q].rules[d] = [i \in DOMAIN f.rules[d] |->
                              [all |-> f.rules[d][i].all, peers |-> f.rules[d][i].peers \cap Actionable,
                               ports |-> f.rules[d][i].ports]]
      BY <1>1, <2>1
  <2>3. x[q] # NoPolicy
      BY <1>1, <2>2, SMTT(30) DEF NoPolicy
  <2> QED BY <2>2, <2>3
<1> HIDE DEF x, d, f, peer
<1>a. \A i \in DOMAIN f.rules[d] :
         /\ x[q].rules[d][i].all = f.rules[d][i].all
         /\ x[q].rules[d][i].peers = f.rules[d][i].peers \cap Actionable
         /\ x[q].rules[d][i].ports = f.rules[d][i].ports
  <2> TAKE i \in DOMAIN f.rules[d]
  <2>1. x[q].rules[d][i] = [all |-> f.rules[d][i].all, peers |-> f.rules[d][i].peers \cap Actionable,
                            ports |-> f.rules[d][i].ports]
      BY <1>7
  <2>2. x[q].rules[d][i].all = f.rules[d][i].all
      BY <1>4, <2>1
  <2>3. x[q].rules[d][i].peers = f.rules[d][i].peers \cap Actionable /\ x[q].rules[d][i].ports = f.rules[d][i].ports
      BY <2>1
  <2> QED BY <2>2, <2>3
<1>b. \A i \in DOMAIN f.rules[d] :
         HasPeerSet(x[q], d, i) <=> ~f.rules[d][i].all /\ f.rules[d][i].peers \cap Actionable # {}
    BY <1>a DEF HasPeerSet
\* The ipsets of the policy.
<1>c. ASSUME NEW j \in 0 .. MaxRules, j = 0 \/ (j \in DOMAIN f.rules[d] /\ HasPeerSet(x[q], d, j))
      PROVE  ipsets[Name(q, d, j)].pods = IF j = 0 THEN x[q].sel ELSE x[q].rules[d][j].peers
  <2> DEFINE n == Name(q, d, j)
  <2>1. n \in SetNames /\ n.pol = q /\ n.dir = d /\ n.idx = j
      BY <1>1 DEF Name, SetNames
  <2> HIDE DEF n
  <2>2. d \in x[q].dirs
      BY <1>1, <1>7
  <2>3. n \in SetsOf(x)
      BY <1>7, <1>c, <2>1, <2>2 DEF SetsOf
  <2>4. ipsets[n] = SetOf(ContentsOf(x, n))
      BY <1>6, <2>3
  <2>5. ipsets[n].pods = ContentsOf(x, n)
      BY <2>4 DEF SetOf
  <2> QED BY <2>1, <2>5 DEF ContentsOf, n
<1>8. table.chain[q].rules = PolicyRules(x[q], d)
  <2>1. table.chain[q].rules = PolicyChain(x[q])
      BY <1>6, <1>7 DEF ChainsOf
  <2> QED BY <1>1, <1>7, <2>1 DEF PolicyChain, processIngressRules, processEgressRules
<1>9. p \in ipsets[Name(q, d, 0)].pods
  <2>1. 0 \in 0 .. MaxRules
      BY PolicyAssumption DEF PolicyAssumption
  <2>2. ipsets[Name(q, d, 0)].pods = x[q].sel
      BY <1>c, <2>1
  <2> QED BY <1>2, <1>7, <2>2 DEF f
<1>10. ASSUME NEW i \in DOMAIN f.rules[d], HasPeerSet(x[q], d, i)
       PROVE  ipsets[Name(q, d, i)].pods = f.rules[d][i].peers \cap Actionable
  <2>1. i \in 0 .. MaxRules /\ i # 0
      BY <1>4
  <2>2. ipsets[Name(q, d, i)].pods = x[q].rules[d][i].peers
      BY <1>c, <1>10, <2>1
  <2> QED BY <1>a, <2>2
<1>11. Marks(q, k) <=> \E r \in table.chain[q].rules :
          k.port \in r.ports /\ (r.idx # 0 => peer \in ipsets[Name(q, d, r.idx)].pods)
  <2>1. \A r \in table.chain[q].rules : r.dir = d
      BY <1>8 DEF PolicyRules
  <2>2. ASSUME NEW r \in table.chain[q].rules
        PROVE  /\ (IF r.dir = "in" THEN k.src ELSE k.dst) = peer
               /\ (IF r.dir = "in" THEN k.dst ELSE k.src) = p
      BY <1>1, <1>3, <2>1 DEF peer
  <2> QED BY <1>9, <2>1, <2>2 DEF Marks
<1>12. ASSUME NEW r \in table.chain[q].rules, k.port \in r.ports,
              r.idx # 0 => peer \in ipsets[Name(q, d, r.idx)].pods
       PROVE  \E i \in DOMAIN f.rules[d] : RuleAllows(f.rules[d][i], peer, k.port)
  <2>0. PICK i \in DOMAIN x[q].rules[d] :
           /\ x[q].rules[d][i].all \/ HasPeerSet(x[q], d, i)
           /\ r = [dir |-> d, idx |-> IF x[q].rules[d][i].all THEN 0 ELSE i, ports |-> x[q].rules[d][i].ports]
      BY <1>8, <1>12 DEF PolicyRules
  <2>1. /\ i \in DOMAIN f.rules[d]
        /\ f.rules[d][i].all \/ HasPeerSet(x[q], d, i)
        /\ r.idx = (IF f.rules[d][i].all THEN 0 ELSE i) /\ r.ports = f.rules[d][i].ports
      BY <1>7, <1>a, <2>0
  <2>2. CASE f.rules[d][i].all
      BY <1>12, <2>1, <2>2 DEF RuleAllows
  <2>3. CASE ~f.rules[d][i].all
    <3>1. r.idx = i /\ i # 0 /\ HasPeerSet(x[q], d, i)
        BY <1>4, <2>1, <2>3
    <3>2. peer \in ipsets[Name(q, d, i)].pods
        BY <1>12, <3>1
    <3>3. peer \in f.rules[d][i].peers
        BY <1>10, <2>1, <3>1, <3>2
    <3> QED BY <1>12, <2>1, <3>3 DEF RuleAllows
  <2> QED BY <2>2, <2>3
<1>13. ASSUME NEW i \in DOMAIN f.rules[d], RuleAllows(f.rules[d][i], peer, k.port)
       PROVE  \E r \in table.chain[q].rules :
                 k.port \in r.ports /\ (r.idx # 0 => peer \in ipsets[Name(q, d, r.idx)].pods)
  <2> DEFINE r == [dir |-> d, idx |-> IF x[q].rules[d][i].all THEN 0 ELSE i, ports |-> x[q].rules[d][i].ports]
  <2>1. x[q].rules[d][i].all \/ HasPeerSet(x[q], d, i)
      BY <1>5, <1>a, <1>b, <1>13 DEF RuleAllows
  <2>2. r \in table.chain[q].rules
      BY <1>7, <1>8, <2>1 DEF PolicyRules
  <2>3. k.port \in r.ports
      BY <1>a, <1>13 DEF RuleAllows
  <2>4. ASSUME r.idx # 0 PROVE peer \in ipsets[Name(q, d, r.idx)].pods
    <3>1. ~x[q].rules[d][i].all /\ r.idx = i
        BY <2>4
    <3>2. ~f.rules[d][i].all
        BY <1>a, <3>1
    <3>3. peer \in f.rules[d][i].peers \cap Actionable
        BY <1>5, <1>13, <3>2 DEF RuleAllows
    <3> QED BY <1>10, <2>1, <3>1, <3>3
  <2> QED BY <2>2, <2>3, <2>4
<1> QED BY <1>11, <1>12, <1>13 DEF d, f, peer

\* The chain of a local pod passes a live packet exactly if the policies do.
LEMMA PodPasses ==
    ASSUME OneTypeEach, IInv, EnforceInv, loaded, UpToDate,
           NEW k \in Live, NEW p \in EndsOf(k) \cap LocalPods
    PROVE  PodChainPasses(p, k) <=> PodAllows(p, k)
<1> DEFINE d == Side(p, k)
           isolating == {q \in Policies : policies[q] # NoPolicy /\ p \in policies[q].sel /\ d \in policies[q].dirs}
           allows(q) == \E i \in DOMAIN policies[q].rules[d] :
                           RuleAllows(policies[q].rules[d][i], IF d = "in" THEN k.src ELSE k.dst, k.port)
<1>1. p \in Actionable
  <2>1. EndsOf(k) \subseteq Actionable \cup {World}
      BY DEF Live
  <2> QED BY <2>1, PolicyAssumption DEF PolicyAssumption
<1>2. table.chain = ChainsOf(Relevant)
    BY DEF EnforceInv, UpToDate
<1>3. ASSUME NEW q \in Policies
      PROVE  q \in Selecting(p, d) <=> q \in isolating
  <2>1. CASE policies[q] = NoPolicy
    <3>1. Relevant[q] = NoPolicy
        BY <2>1 DEF Relevant, Built, ActionablePolicy, ActionableRules
    <3> QED BY <1>2, <2>1, <3>1 DEF ChainsOf, Selecting
  <2>2. CASE policies[q] # NoPolicy
    <3> DEFINE x == Relevant[q]
    <3>1. policies[q].dirs # {}
      <4>1. policies[q] \in AllForms
          BY <2>2 DEF IInv, TypeOK, AllForms
      <4> QED BY <4>1, PolicyAssumption DEF PolicyAssumption
    <3>2. x.sel = policies[q].sel \cap Actionable /\ x.dirs = policies[q].dirs
        BY <2>2 DEF Relevant, Built, ActionablePolicy, ActionableRules
    <3>3. x # NoPolicy
        BY <3>1, <3>2 DEF NoPolicy
    <3> HIDE DEF x
    <3>4. table.chain[q] = [sel |-> x.sel, dirs |-> x.dirs, rules |-> PolicyChain(x)]
        BY <1>2, <3>3 DEF ChainsOf, x
    <3>5. table.chain[q].sel = x.sel /\ table.chain[q].dirs = x.dirs
        BY <3>4
    <3>6. table.chain[q] # NoPolicy
        BY <3>1, <3>2, <3>5 DEF NoPolicy
    <3> QED BY <1>1, <2>2, <3>2, <3>5, <3>6 DEF Selecting
  <2> QED BY <2>1, <2>2
<1>4. Selecting(p, d) = isolating
    BY <1>3 DEF Selecting
<1>5. \A q \in isolating : Marks(q, k) <=> allows(q)
    BY PolicyMarks
<1>6. PodAllows(p, k) <=> isolating = {} \/ \E q \in isolating : allows(q)
    BY DEF PodAllows
<1>7. PodChainPasses(p, k) <=> isolating = {} \/ \E q \in isolating : Marks(q, k)
  <2> HIDE DEF isolating
  <2> QED BY <1>4 DEF PodChainPasses
<1> HIDE DEF isolating, allows
<1> QED BY <1>5, <1>6, <1>7

\* The loaded rules let through what the policies allow.
LEMMA Enforces == ASSUME OneTypeEach, IInv, EnforceInv PROVE KernelEnforces
<1> SUFFICES ASSUME loaded, UpToDate, NEW k \in Live
             PROVE  k \in Accepted <=> k \in Allowed
    BY DEF KernelEnforces, Live
<1>1. k \in Packets /\ EndsOf(k) \subseteq Actionable \cup {World} /\ LocalPods \cap EndsOf(k) # {}
    BY DEF Live, Packets, EndsOf
<1>2. EndsOf(k) \cap LocalPods \subseteq LocalPods \cap Actionable
    BY <1>1, PolicyAssumption DEF PolicyAssumption
<1>3. table.fw = LocalPods \cap Actionable
    BY <1>1, <1>2 DEF EnforceInv, UpToDate
<1>4. EndsOf(k) \cap table.fw = EndsOf(k) \cap LocalPods
    BY <1>2, <1>3
<1>5. \A p \in EndsOf(k) \cap LocalPods : PodChainPasses(p, k) <=> PodAllows(p, k)
    BY PodPasses
<1> QED BY <1>1, <1>4, <1>5 DEF Accepted, Allowed

\* Policies of one type each: once a sync has loaded its table, and what it read is still
\* so, the firewall chains, the policy chains and the ipsets together accept exactly the
\* packets from and to local pods that the policies allow, for any policies and pods,
\* after any aborted syncs and restarts.
THEOREM PoliciesEnforced == OneTypeEach => (Spec => []KernelEnforces)
<1> SUFFICES ASSUME OneTypeEach PROVE Spec => []KernelEnforces
    OBVIOUS
<1>1. Init => IInv /\ EnforceInv
    BY PolicyAssumption, InitIInv DEF Init, EnforceInv
<1>2. IInv /\ EnforceInv /\ [Next]_vars => IInv' /\ EnforceInv'
    BY PolicyAssumption, NextIInv, EnforceInvNext
<1>3. IInv /\ EnforceInv => KernelEnforces
    BY Enforces
<1> QED BY <1>1, <1>2, <1>3, PTL DEF Spec

-----------------------------------------------------------------------------
(* Policies that have not changed go on to be enforced while a sync works. *)

Kept(q) == enforced[q] \notin {NoPolicy, Drifted}

\* While a sync is under way, a policy that has not drifted is as this sync, too, has
\* read it; its chain is the loaded one, and its ipsets have the contents it calls for.
DriftInv ==
    /\ \A q \in Policies : Kept(q) =>
          /\ enforced[q].dirs \subseteq Dirs
          /\ \A d \in Dirs : \A i \in DOMAIN enforced[q].rules[d] : i \in 1 .. MaxRules
          /\ table.chain[q].rules = PolicyChain(enforced[q])
    /\ pc \in {"sets", "rules", "clean", "destroy"} =>
          \A q \in Policies : enforced[q] \in {info[q], Drifted}
    /\ \A n \in SetsOf(enforced) : Filled(enforced, n)

\* An ipset of a kept policy is one that the sync under way wants as it is.
LEMMA KeptSets ==
    ASSUME DriftInv, pc \in {"sets", "rules", "clean", "destroy"},
           NEW n \in SetsOf(enforced)
    PROVE  n \in SetsOf(info) /\ ContentsOf(info, n) = ContentsOf(enforced, n)
<1>1. n \in SetNames /\ n.pol \in Policies /\ n.dir \in Dirs /\ n.dir \in enforced[n.pol].dirs
    BY DEF SetsOf, SetNames
<1>2. enforced[n.pol] # Drifted
    BY <1>1 DEF Drifted
<1>3. enforced[n.pol] = info[n.pol]
    BY <1>1, <1>2 DEF DriftInv
<1> QED BY <1>3 DEF SetsOf, ContentsOf

\* Every step keeps chain, ipsets and reading of an unchanged policy together.
LEMMA DriftInvNext == ASSUME IInv, EnforceInv, DriftInv, [Next]_vars PROVE DriftInv'
<1> USE DEF Kept, Filled
<1>1. ASSUME UNCHANGED <<info, ipsets, table, enforced>>,
             pc' \in {pc, "idle", "build"} \/ pc \in {"sets", "rules", "clean", "destroy"}
      PROVE  DriftInv'
  <2>1. SetsOf(enforced)' = SetsOf(enforced)
      BY <1>1 DEF SetsOf
  <2> QED BY <1>1, <2>1 DEF DriftInv, ContentsOf
<1>2. CASE UNCHANGED vars
    BY <1>1, <1>2 DEF vars, locals, kernel, history
<1>3. ASSUME NEW q \in Policies, NEW form \in Forms[q] \cup {NoPolicy}, PolicyChanges(q, form)
      PROVE  DriftInv'
    BY <1>1, <1>3 DEF PolicyChanges, locals, kernel, history
<1>4. ASSUME NEW p \in Pods, NEW state \in {"absent", "pending", "running", "finished"}, PodChanges(p, state)
      PROVE  DriftInv'
    BY <1>1, <1>4 DEF PodChanges, locals, kernel, history
<1>5. CASE Restart
  <2>1. pc' = "idle" /\ UNCHANGED <<ipsets, table, enforced>>
      BY <1>5 DEF Restart, kernel, history
  <2>2. SetsOf(enforced)' = SetsOf(enforced)
      BY <2>1 DEF SetsOf
  <2> QED BY <2>1, <2>2 DEF DriftInv, ContentsOf
<1>6. CASE HandleEvent \/ Tick \/ Abort \/ TakeRequest
    BY <1>1, <1>6 DEF HandleEvent, Tick, Abort, TakeRequest, locals, kernel, history
<1>12. CASE ListPolicies \/ \E q \in Policies : BuildPolicy(q)
  <2>1. pc' = "read" /\ UNCHANGED <<ipsets, table, enforced>>
      BY <1>12 DEF ListPolicies, BuildPolicy, kernel, history
  <2>2. SetsOf(enforced)' = SetsOf(enforced)
      BY <2>1 DEF SetsOf
  <2> QED BY <2>1, <2>2 DEF DriftInv, ContentsOf
<1>7. CASE GetLocalPods \/ CleanupStaleIPSets \/ SyncEnd
    BY <1>1, <1>7 DEF GetLocalPods, CleanupStaleIPSets, SyncEnd, locals, kernel, history
<1>8. CASE SaveTables
  <2>1. /\ enforced' = [q \in Policies |-> IF info'[q] = enforced[q] THEN enforced[q] ELSE Drifted]
        /\ UNCHANGED <<info, ipsets, table>>
      BY <1>8 DEF SaveTables, SaveTo
  <2>2. \A q \in Policies : /\ enforced'[q] \in {info'[q], Drifted}
                            /\ enforced'[q] # Drifted => enforced'[q] = enforced[q]
      BY <2>1
  <2>3. ASSUME NEW n \in SetsOf(enforced)' PROVE ipsets'[n] = SetOf(ContentsOf(enforced, n)')
    <3>1. n.pol \in Policies /\ n.dir \in Dirs /\ n.dir \in enforced'[n.pol].dirs
        BY <2>3 DEF SetsOf, SetNames
    <3>2. enforced'[n.pol] = enforced[n.pol]
        BY <2>2, <3>1 DEF Drifted
    <3>3. n \in SetsOf(enforced)
        BY <2>3, <3>2 DEF SetsOf
    <3>4. ContentsOf(enforced, n)' = ContentsOf(enforced, n)
        BY <3>2 DEF ContentsOf
    <3> QED BY <2>1, <3>3, <3>4 DEF DriftInv
  <2> QED BY <2>1, <2>2, <2>3 DEF DriftInv
<1>9. ASSUME NEW n \in SetNames, SwapSet(n) PROVE DriftInv'
  <2>1. /\ pc = "sets" /\ pc' = "sets" /\ UNCHANGED <<info, table, enforced>>
        /\ ipsets' = [ipsets EXCEPT ![n] = SetOf(ContentsOf(info, n))]
      BY <1>9, SyncMakes DEF SwapSet, history
  <2>2. SetsOf(enforced)' = SetsOf(enforced) /\ SetsOf(enforced) \subseteq SetNames
      BY <2>1 DEF SetsOf
  <2>3. DOMAIN ipsets = SetNames
      BY DEF IInv, TypeOK
  <2>4. \A m \in SetsOf(enforced) : ipsets'[m] = SetOf(ContentsOf(enforced, m))
      BY <2>1, <2>2, <2>3, KeptSets DEF DriftInv
  <2>5. \A m : ContentsOf(enforced, m)' = ContentsOf(enforced, m)
      BY <2>1 DEF ContentsOf
  <2> QED BY <2>1, <2>2, <2>4, <2>5 DEF DriftInv
<1>10. ASSUME NEW n \in SetNames, DestroySet(n) PROVE DriftInv'
  <2>1. /\ pc = "destroy" /\ pc' = "destroy" /\ UNCHANGED <<info, table, enforced>>
        /\ n \in todo /\ (ipsets' = ipsets \/ ipsets' = [ipsets EXCEPT ![n] = NoSet])
      BY <1>10 DEF DestroySet, history
  <2>2. n \notin SetsOf(info)
      BY <2>1, SyncMakes DEF IInv, SetsInv
  <2>3. n \notin SetsOf(enforced)
      BY <2>1, <2>2, KeptSets
  <2>4. SetsOf(enforced)' = SetsOf(enforced) /\ SetsOf(enforced) \subseteq SetNames
      BY <2>1 DEF SetsOf
  <2>5. DOMAIN ipsets = SetNames
      BY DEF IInv, TypeOK
  <2>6. \A m \in SetsOf(enforced) : ipsets'[m] = ipsets[m]
      BY <2>1, <2>3, <2>4, <2>5
  <2>7. \A m : ContentsOf(enforced, m)' = ContentsOf(enforced, m)
      BY <2>1 DEF ContentsOf
  <2> QED BY <2>1, <2>4, <2>6, <2>7 DEF DriftInv
<1>11. CASE RestoreTable
  <2>1. \A n \in References(NewTable) : ipsets[n].exists
      BY <1>11, PolicyAssumption, RulesUseActiveSets DEF IInv, SetsInv, RestoreTable
  <2>2. /\ pc = "rules" /\ pc' = "clean" /\ table' = NewTable /\ enforced' = info
        /\ UNCHANGED <<info, ipsets>>
      BY <1>11, <2>1 DEF RestoreTable, locals
  <2>3. table'.chain = ChainsOf(info)
      BY <2>2, SyncMakes
  <2>4. ASSUME NEW q \in Policies, Kept(q)'
        PROVE  /\ enforced'[q].dirs \subseteq Dirs
               /\ \A d \in Dirs : \A i \in DOMAIN enforced'[q].rules[d] : i \in 1 .. MaxRules
               /\ table'.chain[q].rules = PolicyChain(enforced'[q])
    <3>1. enforced'[q] = info[q] /\ info[q] # NoPolicy
        BY <2>2, <2>4
    <3>2. table'.chain[q] = [sel |-> info[q].sel, dirs |-> info[q].dirs, rules |-> PolicyChain(info[q])]
        BY <2>3, <3>1 DEF ChainsOf
    <3> QED BY <3>1, <3>2 DEF IInv, InfoOK, FormOK
  <2>5. \A n \in SetsOf(info) : ipsets'[n] = SetOf(ContentsOf(info, n))
      BY <2>2 DEF EnforceInv
  <2>6. SetsOf(enforced)' = SetsOf(info) /\ \A n : ContentsOf(enforced, n)' = ContentsOf(info, n)
      BY <2>2 DEF SetsOf, ContentsOf
  <2>7. \A q \in Policies : enforced'[q] \in {info'[q], Drifted}
      BY <2>2
  <2> HIDE DEF Kept
  <2>8. \A n \in SetsOf(enforced)' : Filled(enforced, n)'
      BY <2>5, <2>6
  <2>9. \A q \in Policies : PolicyChain(enforced[q])' = PolicyChain(enforced'[q])
      BY DEF PolicyChain, processIngressRules, processEgressRules, PolicyRules, HasPeerSet
  <2> QED BY <2>4, <2>7, <2>8, <2>9 DEF DriftInv
<1> QED
    BY <1>2, <1>3, <1>4, <1>5, <1>6, <1>7, <1>8, <1>9, <1>10, <1>11, <1>12
    DEF Next, Environment, Sync, Crash, Fatal

\* Chain and ipsets of a kept policy together mark what the policy permits.
LEMMA KeptMarks ==
    ASSUME DriftInv, NEW q \in Policies, Kept(q), NEW k \in Packets
    PROVE  Marks(q, k) <=> Permits(enforced[q], k)
<1> DEFINE f == enforced[q]
           peer(d) == IF d = "in" THEN k.src ELSE k.dst
           target(d) == IF d = "in" THEN k.dst ELSE k.src
<1>1. /\ f # NoPolicy /\ f.dirs \subseteq Dirs /\ table.chain[q].rules = PolicyChain(f)
      /\ \A d \in Dirs : \A i \in DOMAIN f.rules[d] : i \in 1 .. MaxRules
    BY DEF DriftInv, Kept
<1>2. MaxRules \in Nat
    BY PolicyAssumption DEF PolicyAssumption
<1> HIDE DEF f
<1>3. ASSUME NEW d \in f.dirs, NEW j \in 0 .. MaxRules,
             j = 0 \/ (j \in DOMAIN f.rules[d] /\ HasPeerSet(f, d, j))
      PROVE  ipsets[Name(q, d, j)].pods = IF j = 0 THEN f.sel ELSE f.rules[d][j].peers
  <2> DEFINE n == Name(q, d, j)
  <2>1. n \in SetNames /\ n.pol = q /\ n.dir = d /\ n.idx = j
      BY <1>1 DEF Name, SetNames
  <2> HIDE DEF n
  <2>2. n \in SetsOf(enforced)
      BY <1>1, <1>3, <2>1 DEF SetsOf, f
  <2>3. ipsets[n] = SetOf(ContentsOf(enforced, n))
      BY <2>2 DEF DriftInv, Filled
  <2>4. ipsets[n].pods = ContentsOf(enforced, n)
      BY <2>3 DEF SetOf
  <2> QED BY <2>1, <2>4 DEF ContentsOf, n, f
<1>4. \A r : r \in table.chain[q].rules <=> \E d \in f.dirs : r \in PolicyRules(f, d)
    BY <1>1 DEF PolicyChain, processIngressRules, processEgressRules
<1>5. ASSUME NEW d \in f.dirs PROVE ipsets[Name(q, d, 0)].pods = f.sel
    BY <1>2, <1>3
<1>6. ASSUME NEW d \in f.dirs, NEW i \in DOMAIN f.rules[d], HasPeerSet(f, d, i)
      PROVE  i # 0 /\ ipsets[Name(q, d, i)].pods = f.rules[d][i].peers
  <2>1. i \in 1 .. MaxRules
      BY <1>1
  <2>2. i # 0 /\ i \in 0 .. MaxRules
      BY <1>2, <2>1
  <2> QED BY <1>3, <1>6, <2>2
<1>7. ASSUME NEW r \in table.chain[q].rules, k.port \in r.ports,
             target(r.dir) \in ipsets[Name(q, r.dir, 0)].pods,
             r.idx # 0 => peer(r.dir) \in ipsets[Name(q, r.dir, r.idx)].pods
      PROVE  Permits(f, k)
  <2>1. PICK d \in f.dirs : r \in PolicyRules(f, d)
      BY <1>4
  <2>2. PICK i \in DOMAIN f.rules[d] :
           /\ f.rules[d][i].all \/ HasPeerSet(f, d, i)
           /\ r = [dir |-> d, idx |-> IF f.rules[d][i].all THEN 0 ELSE i, ports |-> f.rules[d][i].ports]
      BY <2>1, ZenonT(30) DEF PolicyRules
  <2>3. /\ r.dir = d /\ r.ports = f.rules[d][i].ports
        /\ ~f.rules[d][i].all => r.idx = i
      BY <2>2
  <2>4. target(d) \in f.sel
      BY <1>5, <1>7, <2>3
  <2>5. RuleAllows(f.rules[d][i], peer(d), k.port)
    <3>1. CASE f.rules[d][i].all
        BY <1>7, <2>3, <3>1 DEF RuleAllows
    <3>2. CASE ~f.rules[d][i].all
      <4>1. HasPeerSet(f, d, i) /\ r.idx = i
          BY <2>2, <2>3, <3>2
      <4>2. peer(d) \in f.rules[d][i].peers
          BY <1>6, <1>7, <2>3, <4>1
      <4> QED BY <1>7, <2>3, <4>2 DEF RuleAllows
    <3> QED BY <3>1, <3>2
  <2> QED BY <2>4, <2>5 DEF Permits
<1>8. ASSUME NEW d \in f.dirs, NEW i \in DOMAIN f.rules[d], target(d) \in f.sel,
             RuleAllows(f.rules[d][i], peer(d), k.port)
      PROVE  \E r \in table.chain[q].rules :
                /\ k.port \in r.ports
                /\ target(r.dir) \in ipsets[Name(q, r.dir, 0)].pods
                /\ r.idx # 0 => peer(r.dir) \in ipsets[Name(q, r.dir, r.idx)].pods
  <2> DEFINE r == [dir |-> d, idx |-> IF f.rules[d][i].all THEN 0 ELSE i, ports |-> f.rules[d][i].ports]
  <2>1. f.rules[d][i].all \/ HasPeerSet(f, d, i)
      BY <1>8 DEF RuleAllows, HasPeerSet
  <2>2. r \in table.chain[q].rules
      BY <1>4, <2>1 DEF PolicyRules
  <2>3. k.port \in r.ports /\ target(r.dir) \in ipsets[Name(q, r.dir, 0)].pods
      BY <1>5, <1>8 DEF RuleAllows
  <2>4. ASSUME r.idx # 0 PROVE peer(r.dir) \in ipsets[Name(q, r.dir, r.idx)].pods
    <3>1. ~f.rules[d][i].all /\ r.idx = i /\ r.dir = d
        BY <2>4
    <3> QED BY <1>6, <1>8, <2>1, <3>1 DEF RuleAllows
  <2> QED BY <2>2, <2>3, <2>4
<1> QED BY <1>7, <1>8 DEF Marks, Permits, f

\* At every moment of every sync, also one that was aborted half-way or whose process
\* ended, and for any policies and pods: a policy that no sync has read differently
\* since its rules were loaded marks exactly the packets that it permits, although its
\* ipsets are written anew each time before the rules are.
THEOREM UnchangedPoliciesEnforced == Spec => []UnchangedPoliciesIntact
<1>1. Init => IInv /\ EnforceInv /\ DriftInv
  <2>1. Init => DriftInv
      BY DEF Init, DriftInv, Kept, SetsOf, SetNames
  <2> QED BY <2>1, PolicyAssumption, InitIInv DEF Init, EnforceInv
<1>2. IInv /\ EnforceInv /\ DriftInv /\ [Next]_vars => IInv' /\ EnforceInv' /\ DriftInv'
    BY PolicyAssumption, NextIInv, EnforceInvNext, DriftInvNext
<1>3. DriftInv => UnchangedPoliciesIntact
    BY KeptMarks DEF UnchangedPoliciesIntact, Kept
<1> QED BY <1>1, <1>2, <1>3, PTL DEF Spec
=============================================================================
