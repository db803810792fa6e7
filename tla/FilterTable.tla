---------------------------- MODULE FilterTable ----------------------------
(***************************************************************************)
(* The filter table of the node, which three controllers and other         *)
(* programs write, none of them under a common lock:                       *)
(*   - the routing controller inserts its FORWARD rules when they are      *)
(*     missing (enableForwarding);                                         *)
(*   - the service proxy sets up the chain of the IPVS firewall once per   *)
(*     process (setupIpvsFirewall);                                        *)
(*   - the network policy controller puts its rules at fixed positions     *)
(*     (ensureTopLevelChains), then saves the table, edits the copy and    *)
(*     writes all of it back (fullPolicySync, pkg/utils/iptables.go);      *)
(*   - other programs insert, append and delete rules.                     *)
(* Every iptables command is a step.  The process may end at any of them;  *)
(* the table stays.  A process starts its controllers one after the other. *)
(*                                                                         *)
(* A chain is a sequence of rules, a rule a name.  OUTPUT and its custom   *)
(* chain are treated like FORWARD and its own and are left out.  Of the    *)
(* custom chains only KUBE-ROUTER-INPUT is kept, which also has the rules  *)
(* for service addresses; "pods" stands for the jumps to the pods' chains. *)
(***************************************************************************)
EXTENDS Naturals, Sequences, SequencesExt

CONSTANTS
    ForwardRules,   \* the rules of enableForwarding, in order
    Whitelist,      \* cluster IPs, node ports, external IP ranges: the rules
                    \* at positions 1, 2, ... of KUBE-ROUTER-INPUT
    Foreign,        \* rules of other programs, all in the built-in chains
    Unkept,         \* those of them with "COMMIT" in their text
    MaxChanges,     \* bound: writes of other programs
    MaxOverlaps,    \* bound: insertions by the routing controller while the
                    \* network policy controller is in the middle of a sync
    MaxFaults       \* bound: commands that fail and ends of the process

Builtin == {"FORWARD", "INPUT"}
Chains == Builtin \cup {"KUBE-ROUTER-INPUT", "KUBE-ROUTER-SERVICES"}
FirewallRules == <<"accept-ipvs", "accept-icmp", "reject">>
Rules == ToSet(ForwardRules) \cup ToSet(Whitelist) \cup Foreign \cup ToSet(FirewallRules)
         \cup {"netpol", "ipvs", "pods", "accept"}

\* What ensureTopLevelChains puts where, in the order of its calls.
Ensured ==
    <<[chain |-> "FORWARD", rule |-> "netpol", pos |-> 1], [chain |-> "INPUT", rule |-> "netpol", pos |-> 1]>>
    \o [i \in DOMAIN Whitelist |-> [chain |-> "KUBE-ROUTER-INPUT", rule |-> Whitelist[i], pos |-> i]]

\* The exceptions are distinct: of a range that is configured twice the second copy
\* never gets to its position.
ASSUME FilterAssumption ==
    /\ ForwardRules \in Seq(Rules) /\ ForwardRules # <<>>
    /\ Whitelist \in Seq(Rules) /\ Whitelist # <<>>
    /\ IsInjective(Whitelist)
    /\ ToSet(Whitelist) \cap {"pods", "accept"} = {}
    /\ IsFiniteSet(Foreign) /\ Unkept \subseteq Foreign
    /\ Foreign \cap (ToSet(ForwardRules) \cup ToSet(Whitelist) \cup ToSet(FirewallRules)
                     \cup {"netpol", "ipvs", "pods", "accept"}) = {}
    /\ MaxChanges \in Nat /\ MaxOverlaps \in Nat /\ MaxFaults \in Nat

VARIABLES
    table,          \* Chains -> Seq(Rules)
    nrc, nrcIdx,    \* where enableForwarding is, at which of its rules
    nsc,            \* where setupIpvsFirewall is
    npc, npcIdx,    \* where fullPolicySync is, at which of the ensured rules
    ruleNo,         \* its variable of the same name
    saved,          \* npc.filterTableRules
    disturbed,      \* history: somebody else has written since the last sync of
                    \* this process began, or there has been none
    changes, overlaps, faults

nrcVars == <<nrc, nrcIdx>>
npcVars == <<npc, npcIdx, ruleNo, saved>>
bounds == <<changes, overlaps, faults>>
vars == <<table, nrcVars, nsc, npcVars, disturbed, bounds>>

\* A chain without the rules R.
Without(chain, R) ==
    LET kept[i \in 0 .. Len(chain)] ==
            IF i = 0 THEN <<>>
            ELSE IF chain[i] \in R THEN kept[i - 1] ELSE Append(kept[i - 1], chain[i])
    IN  kept[Len(chain)]

EmptyTable == [c \in Chains |-> <<>>]
Fault == faults < MaxFaults /\ faults' = faults + 1

\* iptables -I, -A unless there, and the number that the rule has in a listing of
\* the chain without its policy line: 0 if it is not there.
Insert(c, pos, r) == table' = [table EXCEPT ![c] = InsertAt(@, pos, r)]
AppendUnique(c, r) == table' = [table EXCEPT ![c] = IF Contains(@, r) THEN @ ELSE Append(@, r)]
NumberOf(c, r) == SelectInSeq(table[c], LAMBDA x : x = r)

Init ==
    /\ table = [EmptyTable EXCEPT !["FORWARD"] = SetToSeq(Foreign)]
    /\ nrc = "check" /\ nrcIdx = 1
    /\ nsc = "off"
    /\ npc = "off" /\ npcIdx = 1 /\ ruleNo = 0 /\ saved = EmptyTable
    /\ disturbed = TRUE
    /\ changes = 0 /\ overlaps = 0 /\ faults = 0

(***************************************************************************)
(* The process ends; the next one starts with the routing controller.      *)
(***************************************************************************)
Restart ==
    /\ nrc' = "check" /\ nrcIdx' = 1
    /\ nsc' = "off"
    /\ npc' = "off" /\ npcIdx' = 1 /\ ruleNo' = 0 /\ saved' = EmptyTable
    /\ disturbed' = TRUE
    /\ UNCHANGED <<changes, overlaps>>

Crash == Fault /\ Restart /\ UNCHANGED table

\* kube-router --cleanup-config runs in between.  The network policy controller
\* removes every rule that names a chain of its own, the service proxy one jump to its
\* chain and the chain.  The FORWARD rules stay.
WithoutPolicies(t) ==
    [c \in Chains |-> IF c = "KUBE-ROUTER-INPUT" THEN <<>> ELSE Without(t[c], {"netpol"})]
cleanupIpvsFirewall(t) ==
    [t EXCEPT !["INPUT"] = RemoveFirst(@, "ipvs"), !["KUBE-ROUTER-SERVICES"] = <<>>]
CleanupConfig ==
    /\ Fault /\ Restart
    /\ table' = cleanupIpvsFirewall(WithoutPolicies(table))

(***************************************************************************)
(* Other programs.                                                         *)
(***************************************************************************)
OthersWrite ==
    /\ changes < MaxChanges
    /\ changes' = changes + 1
    /\ \E c \in Builtin :
          \/ \E r \in Foreign :
                /\ ~Contains(table[c], r)
                /\ Insert(c, 1, r) \/ AppendUnique(c, r)
          \/ \E i \in DOMAIN table[c] : table' = [table EXCEPT ![c] = RemoveAt(@, i)]
    /\ disturbed' = TRUE
    /\ UNCHANGED <<nrcVars, nsc, npcVars, overlaps, faults>>

(***************************************************************************)
(* enableForwarding, before the other controllers start and in every round *)
(* of the routing controller's loop.  An error is logged and ends it.      *)
(***************************************************************************)
MNrcNext ==
    IF nrcIdx <= Len(ForwardRules) THEN nrcIdx' = nrcIdx + 1 /\ nrc' = "check" /\ UNCHANGED nsc
    ELSE nrcIdx' = 1 /\ nrc' = "idle" /\ nsc' = IF nsc = "off" THEN "clear" ELSE nsc
NrcNext ==
    IF nrcIdx < Len(ForwardRules) THEN nrcIdx' = nrcIdx + 1 /\ nrc' = "check" /\ UNCHANGED nsc
    ELSE nrcIdx' = 1 /\ nrc' = "idle" /\ nsc' = IF nsc = "off" THEN "clear" ELSE nsc

MNrcLoop == UNCHANGED vars
NrcLoop ==
    /\ nrc = "idle"
    /\ nrc' = "check"
    /\ UNCHANGED <<table, nrcIdx, nsc, npcVars, disturbed, bounds>>

NrcExists ==
    /\ nrc = "check"
    /\ IF Contains(table["FORWARD"], ForwardRules[nrcIdx]) THEN NrcNext
       ELSE nrc' = "insert" /\ UNCHANGED <<nrcIdx, nsc>>
    /\ UNCHANGED <<table, npcVars, disturbed, bounds>>

NrcInsert ==
    /\ nrc = "insert"
    /\ IF npc \in {"off", "idle"} THEN UNCHANGED overlaps
       ELSE overlaps < MaxOverlaps /\ overlaps' = overlaps + 1
    /\ Insert("FORWARD", 1, ForwardRules[nrcIdx])
    /\ disturbed' = TRUE
    /\ NrcNext
    /\ UNCHANGED <<npcVars, changes, faults>>

NrcFails ==
    /\ nrc \in {"check", "insert"}
    /\ Fault
    /\ nrc' = "idle" /\ nrcIdx' = 1
    /\ nsc' = IF nsc = "off" THEN "clear" ELSE nsc
    /\ UNCHANGED <<table, npcVars, disturbed, changes, overlaps>>

(***************************************************************************)
(* setupIpvsFirewall.  Without ipvsPermitAll it only clears the chain.     *)
(***************************************************************************)
NscDone == nsc' = "done" /\ npc' = "idle" /\ UNCHANGED <<npcIdx, ruleNo, saved>>

NscClear(ipvsPermitAll) ==
    /\ nsc = "clear"
    /\ table' = [table EXCEPT !["KUBE-ROUTER-SERVICES"] = <<>>]
    /\ IF ipvsPermitAll THEN nsc' = "accept-ipvs" /\ UNCHANGED npcVars ELSE NscDone
    /\ UNCHANGED <<nrcVars, disturbed, bounds>>

\* The first rule is inserted, the others are appended.  (The chain has just been
\* cleared and nobody else writes it, so the Exists before the insertion finds nothing.)
MNscRule ==
    /\ nsc \in ToSet(FirewallRules)
    /\ LET i == SelectInSeq(FirewallRules, LAMBDA r : r = nsc) IN
          /\ Insert("KUBE-ROUTER-SERVICES", 1, nsc)
          /\ nsc' = IF i < Len(FirewallRules) THEN FirewallRules[i + 1] ELSE "check"
    /\ UNCHANGED <<nrcVars, npcVars, disturbed, bounds>>
NscRule ==
    /\ nsc \in ToSet(FirewallRules)
    /\ LET i == SelectInSeq(FirewallRules, LAMBDA r : r = nsc) IN
          /\ IF i = 1 THEN Insert("KUBE-ROUTER-SERVICES", 1, nsc) ELSE AppendUnique("KUBE-ROUTER-SERVICES", nsc)
          /\ nsc' = IF i < Len(FirewallRules) THEN FirewallRules[i + 1] ELSE "check"
    /\ UNCHANGED <<nrcVars, npcVars, disturbed, bounds>>

NscJumpExists ==
    /\ nsc = "check"
    /\ IF Contains(table["INPUT"], "ipvs") THEN NscDone ELSE nsc' = "jump" /\ UNCHANGED npcVars
    /\ UNCHANGED <<table, nrcVars, disturbed, bounds>>

NscJump ==
    /\ nsc = "jump"
    /\ Insert("INPUT", 1, "ipvs")
    /\ NscDone
    /\ UNCHANGED <<nrcVars, disturbed, bounds>>

NscFails ==
    /\ nsc \notin {"off", "done"}
    /\ Fault
    /\ NscDone
    /\ UNCHANGED <<table, nrcVars, disturbed, changes, overlaps>>

(***************************************************************************)
(* fullPolicySync of the network policy controller.                        *)
(***************************************************************************)
Goal == Ensured[npcIdx]
NpcNext ==
    /\ IF npcIdx < Len(Ensured) THEN npcIdx' = npcIdx + 1 /\ npc' = "exists"
       ELSE npcIdx' = 1 /\ npc' = "save"
    /\ ruleNo' = 0

NpcBegin ==
    /\ npc = "idle"
    /\ npc' = "exists"
    /\ disturbed' = FALSE
    /\ UNCHANGED <<table, nrcVars, nsc, npcIdx, ruleNo, saved, bounds>>

\* ensureRuleAtPosition: Exists, and Insert if the rule is not there.
NpcExists ==
    /\ npc = "exists"
    /\ npc' = IF Contains(table[Goal.chain], Goal.rule) THEN "list" ELSE "insert"
    /\ UNCHANGED <<table, nrcVars, nsc, npcIdx, ruleNo, saved, disturbed, bounds>>

NpcInsert ==
    /\ npc = "insert"
    /\ Goal.pos <= Len(table[Goal.chain]) + 1
    /\ Insert(Goal.chain, Goal.pos, Goal.rule)
    /\ NpcNext
    /\ UNCHANGED <<nrcVars, nsc, saved, disturbed, bounds>>

\* List: the number of the first rule with the identification of the wanted one.
NpcList ==
    /\ npc = "list"
    /\ LET n == NumberOf(Goal.chain, Goal.rule) IN
          IF n = Goal.pos THEN NpcNext ELSE ruleNo' = n /\ npc' = "move" /\ UNCHANGED npcIdx
    /\ UNCHANGED <<table, nrcVars, nsc, saved, disturbed, bounds>>

\* It is inserted once more where it belongs, and the old one is deleted by number.
NpcMove ==
    /\ npc = "move"
    /\ Goal.pos <= Len(table[Goal.chain]) + 1
    /\ Insert(Goal.chain, Goal.pos, Goal.rule)
    /\ npc' = "delete"
    /\ UNCHANGED <<nrcVars, nsc, npcIdx, ruleNo, saved, disturbed, bounds>>

DeleteRule(n) ==
    /\ npc = "delete"
    /\ n <= Len(table[Goal.chain])
    /\ table' = [table EXCEPT ![Goal.chain] = RemoveAt(@, n)]
    /\ NpcNext
    /\ UNCHANGED <<nrcVars, nsc, saved, disturbed, bounds>>
MNpcDelete == DeleteRule(ruleNo)
NpcDelete == DeleteRule(ruleNo + 1)

\* An iptables command of ensureTopLevelChains fails, also because the position
\* does not exist: klog.Fatalf.
NpcFatal ==
    /\ \/ npc \in {"exists", "insert", "list", "move", "delete"} /\ Fault
       \/ /\ \/ npc \in {"insert", "move"} /\ Goal.pos > Len(table[Goal.chain]) + 1
             \/ npc = "delete" /\ ruleNo + 1 > Len(table[Goal.chain])
          /\ UNCHANGED faults
    /\ Restart
    /\ UNCHANGED table

\* iptables-save.
NpcSave ==
    /\ npc = "save"
    /\ saved' = table
    /\ npc' = "restore"
    /\ UNCHANGED <<table, nrcVars, nsc, npcIdx, ruleNo, disturbed, bounds>>

\* cleanupStaleRules drops the jumps to the chains of earlier syncs and, in order to
\* write the closing line itself, every line that contains "COMMIT".
WithoutStale(chain) == Without(chain, {"pods"} \cup Unkept)

\* ensureExplicitAccept: once, and at the end of the chain.
WithAccept(chain) == Append(Without(chain, {"accept"}), "accept")

\* The copy with the jumps to the pods' new chains, which syncPodFirewallChains
\* appends.
MEdited(t) ==
    [t EXCEPT !["FORWARD"] = WithoutStale(@), !["INPUT"] = WithoutStale(@),
              !["KUBE-ROUTER-INPUT"] = WithAccept(<<"pods">> \o WithoutStale(@))]
Edited(t) ==
    [t EXCEPT !["FORWARD"] = WithoutStale(@), !["INPUT"] = WithoutStale(@),
              !["KUBE-ROUTER-INPUT"] = WithAccept(Append(WithoutStale(@), "pods"))]

\* iptables-restore replaces the whole table.
NpcRestore ==
    /\ npc = "restore"
    /\ table' = Edited(saved)
    /\ npc' = "idle"
    /\ saved' = EmptyTable
    /\ UNCHANGED <<nrcVars, nsc, npcIdx, ruleNo, disturbed, bounds>>

\* An error after ensureTopLevelChains is logged and ends the sync.
NpcAbort ==
    /\ npc \in {"save", "restore"}
    /\ Fault
    /\ npc' = "idle"
    /\ saved' = EmptyTable
    /\ UNCHANGED <<table, nrcVars, nsc, npcIdx, ruleNo, disturbed, changes, overlaps>>

Nsc == (\E ipvsPermitAll \in BOOLEAN : NscClear(ipvsPermitAll)) \/ NscRule \/ NscJumpExists \/ NscJump
Ensure == NpcExists \/ NpcInsert \/ NpcList \/ NpcMove \/ NpcDelete \/ NpcFatal
NpcSync == NpcBegin \/ Ensure \/ NpcSave \/ NpcRestore

Next ==
    \/ Crash \/ CleanupConfig \/ OthersWrite
    \/ NrcLoop \/ NrcExists \/ NrcInsert \/ NrcFails
    \/ Nsc \/ NscFails
    \/ NpcSync \/ NpcAbort

Spec == Init /\ [][Next]_vars

\* Both loops go round by their tickers and every command returns.  The routing
\* controller gets to insert between two syncs in the end.
FairSpec ==
    /\ Spec
    /\ WF_vars(NrcLoop \/ NrcExists) /\ SF_vars(NrcInsert)
    /\ WF_vars(Nsc) /\ WF_vars(NpcSync)

(***************************************************************************)
(* Properties.                                                             *)
(***************************************************************************)

\* Every variable has its type.
TypeOK ==
    /\ table \in [Chains -> Seq(Rules)] /\ saved \in [Chains -> Seq(Rules)]
    /\ nrc \in {"idle", "check", "insert"} /\ nrcIdx \in DOMAIN ForwardRules
    /\ nsc \in {"off", "clear", "check", "jump", "done"} \cup ToSet(FirewallRules)
    /\ npc \in {"off", "idle", "exists", "insert", "list", "move", "delete", "save", "restore"}
    /\ npcIdx \in DOMAIN Ensured /\ ruleNo \in Nat
    /\ disturbed \in BOOLEAN
    /\ changes \in 0 .. MaxChanges /\ overlaps \in 0 .. MaxOverlaps /\ faults \in 0 .. MaxFaults

At(e) == Len(table[e.chain]) >= e.pos /\ table[e.chain][e.pos] = e.rule
InPlace == \A i \in DOMAIN Ensured : At(Ensured[i])

\* After ensureTopLevelChains, through save and restore, and until somebody else
\* writes, every rule is at its position, whatever copies and order crashes,
\* aborted syncs and other writers had left: the jump to the network policies is
\* the first rule, the exceptions for services precede the pods' rules.
RulesInPlace == ~disturbed /\ npc \in {"save", "restore", "idle"} => InPlace

\* A sync that nobody else disturbs neither removes nor reorders the rules of
\* others, although it deletes by number and rewrites the whole table; all but those
\* with "COMMIT" in their text, which every sync loses.
OthersRules(c) == Without(table[c], ToSet(Whitelist) \cup Unkept \cup {"netpol", "pods", "accept"})
OthersKept ==
    [][npc' # npc /\ ~disturbed /\ faults' = faults /\ nsc = "done" => \A c \in Chains : OthersRules(c)' = OthersRules(c)]_vars

\* Traffic to service addresses is not rejected before the rule that accepts the
\* services is there, at no step of the set-up, after no restart, and no rewrite of
\* the table changes that.
AcceptBeforeReject ==
    LET chain == table["KUBE-ROUTER-SERVICES"] IN
    \A i \in DOMAIN chain : chain[i] = "reject" => \E j \in 1 .. i - 1 : chain[j] = "accept-ipvs"

\* Once nobody disturbs them any more the controllers agree: the rules of the
\* network policy controller are in place and those of the routing controller,
\* which inserts at the top, are all there, below the jump to the policies.
Settles == <>[](InPlace /\ \A i \in DOMAIN ForwardRules : Contains(table["FORWARD"], ForwardRules[i]))
=============================================================================
