----------------------------- MODULE AtomicSets -----------------------------
(***************************************************************************)
(* What the packet filter may rely on: a named set of addresses goes from  *)
(* one complete content to the next in one step, never back to an earlier  *)
(* one, and it changes only because its own source has changed.            *)
(*                                                                         *)
(* Two kinds of set differ in how exact a replacement is.  A policy set is *)
(* replaced by exactly what its owner has read.  A refreshed set gets all  *)
(* that its owner has read and may for once keep entries of earlier        *)
(* readings, which an interrupted refresh has left in its temporary set.   *)
(***************************************************************************)
EXTENDS Naturals, Sequences

CONSTANTS
    RefreshedSets,  \* sets of the routing controller and the service proxy
    PolicySets,     \* sets of the network policy controller
    Entries,
    NoSet           \* what a set is that does not exist

VARIABLES
    readings,       \* per set, what its source has said so far, in order
    at,             \* per set, the reading it has been filled from
    content         \* per set, what packets are compared with

Sets == RefreshedSets \cup PolicySets
avars == <<readings, at, content>>

Current(s) == readings[s][Len(readings[s])]
UpTo(s, i) == UNION {readings[s][j] : j \in {j \in 1 .. i : readings[s][j] # NoSet}}

Init ==
    /\ \A s \in Sets : Len(readings[s]) = 1
    /\ at = [s \in Sets |-> 0]
    /\ content = [s \in Sets |-> NoSet]

\* The source of a set says something else.
SourceChanges(s) ==
    /\ \E v \in {NoSet} \cup SUBSET Entries : readings' = [readings EXCEPT ![s] = Append(@, v)]
    /\ UNCHANGED <<at, content>>

\* An empty set is created.
Create(s) ==
    /\ content[s] = NoSet
    /\ content' = [content EXCEPT ![s] = {}]
    /\ UNCHANGED <<readings, at>>

\* A set is replaced by a reading that is not older than the one it was made from.
Replace(s) ==
    \E i \in 1 .. Len(readings[s]) :
        /\ i >= at[s]
        /\ readings[s][i] # NoSet
        /\ at' = [at EXCEPT ![s] = i]
        /\ \E v \in SUBSET UpTo(s, i) :
              /\ readings[s][i] \subseteq v
              /\ s \in PolicySets => v = readings[s][i]
              /\ content' = [content EXCEPT ![s] = v]
        /\ UNCHANGED readings

\* A policy set that a reading no longer has is destroyed.
Remove(s) ==
    /\ s \in PolicySets
    /\ \E i \in 1 .. Len(readings[s]) : i >= at[s] /\ readings[s][i] = NoSet /\ at' = [at EXCEPT ![s] = i]
    /\ content' = [content EXCEPT ![s] = NoSet]
    /\ UNCHANGED readings

Next == \E s \in Sets : SourceChanges(s) \/ Create(s) \/ Replace(s) \/ Remove(s)

Spec == Init /\ [][Next]_avars
=============================================================================
