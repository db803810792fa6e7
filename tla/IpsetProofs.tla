----------------------------- MODULE IpsetProofs -----------------------------
(***************************************************************************)
(* Proofs about Ipset: for all sets, contents and sources, and any number  *)
(* of changes, failures and restarts, the sets of the system implement     *)
(* AtomicSets.                                                             *)
(***************************************************************************)
EXTENDS Ipset, TLAPS

RefreshLabels == {"setup", "nil", "idle", "create", "fill", "swap", "destroy"}
PolicyLabels == {"idle", "save", "restore", "swap", "flush", "cleanup", "destroy"}

\* ipsetMutex: between its first and its last command a sync holds the mutex.
MutexInv ==
    /\ idx \in [Refreshers -> Nat] /\ goal \in [Sets -> Nat]
    /\ \A r \in Refreshers :
          /\ pc[r] \in RefreshLabels
          /\ pc[r] \in {"create", "fill", "swap", "destroy"} <=> ipsetMutex = r
    /\ pc["npc"] \in PolicyLabels
    /\ pc["npc"] \in {"restore", "swap", "flush", "destroy"} <=> ipsetMutex = "npc"

\* No set was filled from a later reading than the one its sync works from.
ReadingsInv ==
    /\ \A s \in RefreshedSets : \A i \in 1 .. Len(readings[s]) : readings[s][i] # NoSet
    /\ \A s \in Sets : at[s] <= goal[s]

\* What a refreshed set and its temporary set hold, residues of interrupted
\* refreshes included, the source has said by the reading that the sync works from.
Said(s, i, e) == \E j \in 1 .. i : readings[s][j] # NoSet /\ e \in readings[s][j]
ResidueInv ==
    \A s \in RefreshedSets : \A k \in {"set", "temp"} :
        \A e \in Members(kernel[<<s, k>>]) : Said(s, goal[s], e)

\* The temporary set exists once it is created, and is complete once it is filled.
FillInv ==
    \A r \in Refreshers :
        /\ pc[r] \in {"fill", "swap"} => kernel[TempName(r)] # NoSet
        /\ pc[r] = "swap" => Goal(Current(r)) \subseteq kernel[TempName(r)]

\* During a restore the saved copy is the kernel's, but for the sets of the policies.
Wanted(n) == n[1] \in PolicySets /\ Goal(n[1]) # NoSet
SavedInv ==
    pc["npc"] \in {"restore", "swap", "flush"} =>
        \A n \in Names : /\ n \in todo => saved[n] # NoSet
                         /\ Wanted(n) => saved[n] = Goal(n[1])
                         /\ ~Wanted(n) /\ saved[n] # NoSet => kernel[n] = saved[n]

\* The temporary set of a restore holds exactly the set it is about to replace;
\* those that it has used before are empty.
TmpInv ==
    /\ pc["npc"] = "restore" => \A o \in flushed : tmp[o] = {}
    /\ pc["npc"] \in {"swap", "flush"} =>
          /\ todo # {}
          /\ \A o \in flushed : o # TmpOf(NextName) => tmp[o] = {}
    /\ pc["npc"] = "swap" => tmp[TmpOf(NextName)] = saved[NextName]

\* Sets that are about to be destroyed have no policy.
DestroyInv ==
    pc["npc"] = "destroy" =>
        \A n \in todo : n \in PolicySets \X {"set"} /\ Goal(n[1]) = NoSet

IInv == /\ TypeOK /\ MutexInv /\ ReadingsInv /\ ResidueInv /\ FillInv
        /\ SavedInv /\ TmpInv /\ DestroyInv

USE IpsetAssumption DEF IpsetAssumption

-----------------------------------------------------------------------------
(* Facts about the names of sets, and about readings.                      *)

\* Every set has a name, and a refreshed set has a temporary one.
LEMMA NameFacts ==
    /\ RefreshedSets \subseteq Sets /\ PolicySets \subseteq Sets
    /\ \A s \in Sets : <<s, "set">> \in Names
    /\ \A s \in RefreshedSets : <<s, "temp">> \in Names
    /\ \A n \in Names : /\ n[1] \in Sets /\ n = <<n[1], n[2]>>
                        /\ n[2] # "set" => n[2] = "temp" /\ n[1] \in RefreshedSets
                        /\ TmpOf(n) \in Options
  BY DEF Sets, Names, TmpOf, Options

\* A refresher has at least one set of its own.
LEMMA OwnFacts ==
    \A r \in Refreshers : /\ Own(r) \in Seq(RefreshedSets)
                          /\ Len(Own(r)) \in Nat /\ Len(Own(r)) >= 1
                          /\ DOMAIN Own(r) = 1 .. Len(Own(r))
  BY DEF Refreshers, Own

\* The set that a refresher is at, and its temporary set.
LEMMA CurrentFacts ==
    ASSUME TypeOK, NEW r \in Refreshers
    PROVE  /\ Current(r) \in RefreshedSets
           /\ SetName(r) \in Names /\ TempName(r) \in Names
           /\ SetName(r) # TempName(r)
  <1>1. Current(r) \in RefreshedSets
    BY OwnFacts DEF TypeOK, Current
  <1> QED
    BY <1>1, NameFacts DEF SetName, TempName

\* What a refresher has read before its k-th set is its own.
LEMMA ReadBeforeFacts ==
    ASSUME NEW r \in Refreshers, NEW k \in Nat
    PROVE  ReadBefore(r, k) \subseteq RefreshedSets
  <1>1. ToSet(NodeSets) \subseteq RefreshedSets
    BY DEF RefreshedSets
  <1>2. ServiceSets[1] \in RefreshedSets /\ Tail(ServiceSets) \in Seq(RefreshedSets)
    OBVIOUS
  <1>3. ToSet(Tail(ServiceSets)) \subseteq RefreshedSets
    BY <1>2 DEF ToSet
  <1> QED
    BY <1>1, <1>2, <1>3 DEF ReadBefore

\* A sync that reads its sources again works from a reading that is not older.
LEMMA ReadFacts ==
    ASSUME IInv, NEW S, Read(S), readings' = readings
    PROVE  /\ goal' \in [Sets -> Nat]
           /\ \A s \in Sets : /\ goal'[s] \in 1 .. Len(readings[s]) /\ goal[s] <= goal'[s]
                              /\ s \notin S => goal'[s] = goal[s]
  <1>1. \A s \in Sets : Len(readings[s]) \in Nat /\ goal[s] \in 1 .. Len(readings[s])
    BY DEF IInv, TypeOK
  <1> QED
    BY <1>1 DEF Read

\* The reading that a sync works from is one of the source's.
LEMMA ReadingFacts ==
    ASSUME IInv, NEW s \in Sets
    PROVE  /\ Len(readings[s]) \in Nat /\ goal[s] \in 1 .. Len(readings[s])
           /\ \A i \in 1 .. Len(readings[s]) : readings[s][i] \in Contents
           /\ Goal(s) \in Contents
           /\ s \in RefreshedSets => Goal(s) \in SUBSET Entries
  <1>1. /\ Len(readings[s]) \in Nat /\ goal[s] \in 1 .. Len(readings[s])
        /\ \A i \in 1 .. Len(readings[s]) : readings[s][i] \in Contents
    BY DEF IInv, TypeOK
  <1> QED
    BY <1>1 DEF Goal, IInv, ReadingsInv, Contents

\* The kernel's set of a name, as a set of entries.
LEMMA KernelFacts ==
    ASSUME IInv, NEW n \in Names
    PROVE  /\ kernel[n] \in Contents
           /\ Members(kernel[n]) \in SUBSET Entries
           /\ kernel[n] # NoSet => Members(kernel[n]) = kernel[n]
           /\ Members(kernel[n]) # NoSet /\ Members(kernel[n]) \in Contents
  BY DEF IInv, TypeOK, Contents, Members

\* What a source has said by a reading it has said by a later one.
LEMMA SaidLater ==
    ASSUME NEW s, NEW i \in Nat, NEW j \in Nat, i <= j, NEW e, Said(s, i, e)
    PROVE  Said(s, j, e)
  BY DEF Said

\* The entries of the reading in use are among those said so far.
LEMMA GoalSaid ==
    ASSUME IInv, NEW s \in RefreshedSets, NEW e \in Goal(s)
    PROVE  Said(s, goal[s], e)
  <1>1. s \in Sets
    BY NameFacts
  <1>2. goal[s] \in 1 .. goal[s] /\ readings[s][goal[s]] # NoSet
    BY <1>1, ReadingFacts DEF IInv, ReadingsInv
  <1> QED
    BY <1>2 DEF Said, Goal

-----------------------------------------------------------------------------
(* What a refresher's step leaves alone, and what one of the network       *)
(* policy controller does.                                                 *)

\* A refresher's steps leave the restore of the policy controller alone: a set that the
\* saved copy has is not written by them while the restore lasts.
LEMMA RefresherFrame ==
    ASSUME IInv, UNCHANGED <<readings, saved, todo, flushed, tmp>>, pc'["npc"] = pc["npc"],
           \A s \in PolicySets : goal'[s] = goal[s],
           pc["npc"] \in {"restore", "swap", "flush"} =>
              \A n \in Names : kernel'[n] = kernel[n] \/ kernel[n] = NoSet
    PROVE  SavedInv' /\ TmpInv' /\ DestroyInv'
  <1>1. NextName' = NextName
    BY DEF NextName
  <1>2. \A s \in PolicySets : Goal(s)' = Goal(s)
    BY DEF Goal
  <1>3. SavedInv'
    BY <1>2 DEF IInv, SavedInv, Wanted
  <1>4. TmpInv'
    BY <1>1 DEF IInv, TmpInv, TmpOf
  <1>5. DestroyInv'
    BY <1>2 DEF IInv, DestroyInv
  <1> QED
    BY <1>3, <1>4, <1>5

\* Steps of the policy controller leave the refreshed sets alone.
LEMMA PolicyFrame ==
    ASSUME IInv, UNCHANGED <<readings, idx>>, \A r \in Refreshers : pc'[r] = pc[r],
           \A s \in RefreshedSets : goal'[s] = goal[s],
           \A n \in Names : n[1] \in RefreshedSets => kernel'[n] = kernel[n]
    PROVE  ResidueInv' /\ FillInv'
  <1>1. \A s \in RefreshedSets : \A k \in {"set", "temp"} : kernel'[<<s, k>>] = kernel[<<s, k>>]
    BY NameFacts
  <1>2. ResidueInv'
    <2> SUFFICES ASSUME NEW s \in RefreshedSets, NEW k \in {"set", "temp"},
                        NEW e \in Members(kernel[<<s, k>>])'
                 PROVE  Said(s, goal[s], e)'
      BY DEF ResidueInv
    <2>1. e \in Members(kernel[<<s, k>>])
      BY <1>1 DEF Members
    <2>2. Said(s, goal[s], e)
      BY <2>1 DEF IInv, ResidueInv
    <2> QED
      BY <2>2 DEF Said
  <1>3. \A r \in Refreshers : Current(r)' = Current(r) /\ Current(r) \in RefreshedSets
    BY CurrentFacts DEF Current, IInv, Own
  <1>4. FillInv'
    <2> SUFFICES ASSUME NEW r \in Refreshers
                 PROVE  /\ pc'[r] \in {"fill", "swap"} => kernel'[TempName(r)'] # NoSet
                        /\ pc'[r] = "swap" => Goal(Current(r))' \subseteq kernel'[TempName(r)']
      BY DEF FillInv
    <2>1. TempName(r)' = TempName(r) /\ kernel'[TempName(r)] = kernel[TempName(r)]
      BY <1>1, <1>3 DEF TempName
    <2>2. Goal(Current(r))' = Goal(Current(r))
      BY <1>3 DEF Goal
    <2> QED
      BY <2>1, <2>2 DEF IInv, FillInv
  <1> QED
    BY <1>2, <1>4
-----------------------------------------------------------------------------
\* Init establishes the invariant.
LEMMA InitIInv == Init => IInv
  <1> SUFFICES ASSUME Init PROVE IInv
    OBVIOUS
  <1> USE DEF Init
  <1>1. \A s \in Sets : /\ readings[s] \in Seq(Contents) /\ Len(readings[s]) = 1
                        /\ readings[s][1] \in Sources[s]
    <2> TAKE s \in Sets
    <2>1. PICK v \in Contents : readings[s] = <<v>>
      OBVIOUS
    <2> QED
      BY <2>1
  <1>2. \A r \in Refreshers : idx[r] \in DOMAIN Own(r)
    BY OwnFacts
  <1>3. TypeOK
    <2>1. readings \in [Sets -> Seq(Contents)]
      BY <1>1
    <2>2. pc \in [{"nrc", "nsc", "npc"} -> {"setup", "idle"}]
      OBVIOUS
    <2>3. NoSet \in Contents /\ Empty \in [Names -> Contents]
      BY DEF Contents, Empty
    <2>4. \A s \in Sets : goal[s] \in 1 .. Len(readings[s])
      BY <1>1
    <2> QED
      BY <1>2, <2>1, <2>2, <2>3, <2>4 DEF TypeOK
  <1>4. MutexInv
    BY DEF MutexInv, Refreshers, RefreshLabels, PolicyLabels
  <1>5. ReadingsInv
    BY <1>1, NameFacts DEF ReadingsInv
  <1>6. ResidueInv
    BY NameFacts DEF ResidueInv, Members, Empty
  <1>7. FillInv /\ SavedInv /\ TmpInv /\ DestroyInv
    BY DEF FillInv, SavedInv, TmpInv, DestroyInv, Refreshers
  <1> QED
    BY <1>3, <1>4, <1>5, <1>6, <1>7 DEF IInv

\* A source that changes leaves what it has said before as it was.
LEMMA SourceStep ==
    ASSUME IInv, NEW s \in Sets, SourceChanges(s)
    PROVE  IInv'
  <1> USE DEF SourceChanges, locals, sets
  <1>1. PICK v \in Sources[s] : readings' = [readings EXCEPT ![s] = Append(@, v)]
    OBVIOUS
  <1>2. readings \in [Sets -> Seq(Contents)] /\ v \in Contents
    BY DEF IInv, TypeOK
  <1>3. \A q \in Sets : /\ readings'[q] \in Seq(Contents) /\ Len(readings[q]) <= Len(readings'[q])
                        /\ Len(readings[q]) \in Nat /\ Len(readings'[q]) \in Nat
                        /\ \A i \in 1 .. Len(readings[q]) : readings'[q][i] = readings[q][i]
                        /\ \A i \in 1 .. Len(readings'[q]) :
                              i \in 1 .. Len(readings[q]) \/ (q = s /\ readings'[q][i] = v)
    BY <1>1, <1>2
  <1>4. readings' \in [Sets -> Seq(Contents)]
    BY <1>1, <1>2
  <1>5. \A q \in Sets : goal[q] \in 1 .. Len(readings[q]) /\ goal[q] \in 1 .. Len(readings'[q])
    BY <1>3 DEF IInv, TypeOK
  <1>6. \A q \in Sets : Goal(q)' = Goal(q)
    BY <1>3, <1>5 DEF Goal
  <1>7. TypeOK'
    BY <1>4, <1>5 DEF IInv, TypeOK
  <1>8. MutexInv'
    BY DEF IInv, MutexInv
  <1>9. ReadingsInv'
    BY <1>3, NameFacts DEF IInv, ReadingsInv
  <1>10. ResidueInv'
    <2>1. ASSUME NEW q \in RefreshedSets, NEW e, Said(q, goal[q], e) PROVE Said(q, goal[q], e)'
      BY <1>3, <1>5, <2>1, NameFacts DEF Said
    <2> QED
      BY <2>1 DEF IInv, ResidueInv, Members
  <1>11. FillInv'
    <2>1. \A r \in Refreshers : Current(r)' = Current(r) /\ TempName(r)' = TempName(r)
                                /\ Current(r) \in Sets
      BY CurrentFacts, NameFacts DEF IInv, Current, TempName, Own
    <2> QED
      BY <1>6, <2>1 DEF IInv, FillInv
  <1>12. SavedInv' /\ DestroyInv'
    BY <1>6, NameFacts DEF IInv, SavedInv, DestroyInv, Wanted
  <1>13. TmpInv'
    BY DEF IInv, TmpInv, NextName, TmpOf
  <1> QED
    BY <1>7, <1>8, <1>9, <1>10, <1>11, <1>12, <1>13 DEF IInv

-----------------------------------------------------------------------------
(* Refresh, by the routing controller and by the service proxy.            *)

\* What a step of a refresher that has, takes or gives back the mutex must do to
\* keep the invariant.
LEMMA HolderStep ==
    ASSUME IInv, NEW r \in Refreshers, NEW l \in RefreshLabels, Goto(r, l),
           ipsetMutex \in {"free", r}, ipsetMutex' \in {"free", r},
           l \in {"create", "fill", "swap", "destroy"} <=> ipsetMutex' = r,
           UNCHANGED <<readings, changes, saved, todo, flushed, tmp>>,
           faults' \in 0 .. MaxFaults,
           idx' \in [Refreshers -> Nat], \A q \in Refreshers : idx'[q] \in DOMAIN Own(q),
           goal' \in [Sets -> Nat],
           \A s \in Sets : goal'[s] \in 1 .. Len(readings[s]) /\ goal[s] <= goal'[s],
           \A s \in PolicySets : goal'[s] = goal[s],
           at' \in [Sets -> Nat], \A s \in Sets : at'[s] <= goal[s],
           kernel' \in [Names -> Contents],
           \A s \in RefreshedSets : \A k \in {"set", "temp"} :
              \A e \in Members(kernel'[<<s, k>>]) : Said(s, goal[s], e),
           l \in {"fill", "swap"} => idx' = idx /\ goal' = goal /\ kernel'[TempName(r)] # NoSet,
           l = "swap" => Goal(Current(r)) \subseteq kernel'[TempName(r)]
    PROVE  IInv'
  <1>1. pc \in [{"nrc", "nsc", "npc"} -> RefreshLabels \cup PolicyLabels]
    BY DEF IInv, TypeOK, RefreshLabels, PolicyLabels
  <1>2. /\ pc'[r] = l /\ pc'["npc"] = pc["npc"] /\ r # "npc" /\ r # "free"
        /\ \A q \in Refreshers : q # r => pc'[q] = pc[q]
        /\ pc' \in [{"nrc", "nsc", "npc"} -> RefreshLabels \cup PolicyLabels]
    BY <1>1 DEF Goto, Refreshers
  <1>3. pc["npc"] \notin {"restore", "swap", "flush", "destroy"}
    BY <1>2 DEF IInv, MutexInv
  <1>4. TypeOK'
    BY <1>2 DEF IInv, TypeOK, RefreshLabels, PolicyLabels, Refreshers
  <1>5. MutexInv'
    BY <1>2, <1>3 DEF IInv, MutexInv, Refreshers
  <1>6. ReadingsInv'
    <2>1. \A s \in Sets : at'[s] \in Nat /\ goal[s] \in Nat /\ goal'[s] \in Nat
      BY DEF IInv, MutexInv
    <2>2. \A s \in Sets : at'[s] <= goal'[s]
      <3> TAKE s \in Sets
      <3>1. at'[s] <= goal[s] /\ goal[s] <= goal'[s]
        OBVIOUS
      <3> QED
        BY <2>1, <3>1
    <2> QED
      BY <2>2 DEF IInv, ReadingsInv
  <1>7. ResidueInv'
    <2> SUFFICES ASSUME NEW s \in RefreshedSets, NEW k \in {"set", "temp"},
                        NEW e \in Members(kernel'[<<s, k>>])
                 PROVE  Said(s, goal'[s], e)
      BY ZenonT(30) DEF ResidueInv, Said, Members
    <2>1. s \in Sets /\ goal[s] \in Nat /\ goal'[s] \in Nat
      BY NameFacts DEF IInv, MutexInv
    <2> QED
      BY <2>1, SaidLater
  <1>8. FillInv'
    <2> SUFFICES ASSUME NEW q \in Refreshers, pc'[q] \in {"fill", "swap"}
                 PROVE  /\ kernel'[TempName(q)'] # NoSet
                        /\ pc'[q] = "swap" => Goal(Current(q))' \subseteq kernel'[TempName(q)']
      BY DEF FillInv
    <2>1. q = r
      BY <1>2 DEF IInv, MutexInv, Refreshers
    <2>2. TempName(r)' = TempName(r) /\ Current(r)' = Current(r)
      BY <1>2, <2>1 DEF TempName, Current, Own
    <2>3. Goal(Current(r))' = Goal(Current(r))
      BY <1>2, <2>1, <2>2 DEF Goal
    <2> QED
      BY <1>2, <2>1, <2>2, <2>3
  <1>9. SavedInv' /\ TmpInv' /\ DestroyInv'
    BY <1>2, <1>3, RefresherFrame
  <1> QED
    BY <1>4, <1>5, <1>6, <1>7, <1>8, <1>9 DEF IInv

\* What a refresher's step at label l starts from.
LEMMA HolderFacts ==
    ASSUME IInv, NEW r \in Refreshers
    PROVE  /\ idx \in [Refreshers -> Nat] /\ \A q \in Refreshers : idx[q] \in DOMAIN Own(q)
           /\ goal \in [Sets -> Nat]
           /\ \A s \in Sets : goal[s] \in 1 .. Len(readings[s]) /\ goal[s] <= goal[s]
           /\ at \in [Sets -> Nat] /\ \A s \in Sets : at[s] <= goal[s]
           /\ kernel \in [Names -> Contents]
           /\ faults \in 0 .. MaxFaults
           /\ \A s \in RefreshedSets : \A k \in {"set", "temp"} :
                \A e \in Members(kernel[<<s, k>>]) : Said(s, goal[s], e)
           /\ pc[r] \in {"create", "fill", "swap", "destroy"} => ipsetMutex = r
           /\ Current(r) \in RefreshedSets /\ Current(r) \in Sets
           /\ SetName(r) = <<Current(r), "set">> /\ TempName(r) = <<Current(r), "temp">>
           /\ SetName(r) \in Names /\ TempName(r) \in Names
  <1>1. \A s \in Sets : goal[s] \in 1 .. Len(readings[s]) /\ goal[s] \in Nat
    BY ReadingFacts
  <1>2. TypeOK
    BY DEF IInv
  <1>3. /\ Current(r) \in RefreshedSets /\ Current(r) \in Sets
        /\ SetName(r) = <<Current(r), "set">> /\ TempName(r) = <<Current(r), "temp">>
        /\ SetName(r) \in Names /\ TempName(r) \in Names
    BY <1>2, CurrentFacts, NameFacts DEF SetName, TempName
  <1>4. /\ idx \in [Refreshers -> Nat] /\ goal \in [Sets -> Nat]
        /\ pc[r] \in {"create", "fill", "swap", "destroy"} => ipsetMutex = r
    BY DEF IInv, MutexInv
  <1>5. /\ \A q \in Refreshers : idx[q] \in DOMAIN Own(q)
        /\ at \in [Sets -> Nat] /\ kernel \in [Names -> Contents] /\ faults \in 0 .. MaxFaults
    BY <1>2 DEF TypeOK
  <1>6. \A s \in Sets : goal[s] <= goal[s] /\ at[s] <= goal[s]
    BY <1>1 DEF IInv, ReadingsInv
  <1>7. \A s \in RefreshedSets : \A k \in {"set", "temp"} :
            \A e \in Members(kernel[<<s, k>>]) : Said(s, goal[s], e)
    BY DEF IInv, ResidueInv
  <1> QED
    BY <1>1, <1>3, <1>4, <1>5, <1>6, <1>7

\* RefreshBegin and CreateTemp.
LEMMA CreateStep ==
    ASSUME IInv, NEW r \in Refreshers, RefreshBegin(r) \/ CreateTemp(r)
    PROVE  IInv'
  <1>1. CASE RefreshBegin(r)
    <2> USE <1>1 DEF RefreshBegin, sources, sets, Lock
    <2>1. ReadBefore(r, 1) \subseteq RefreshedSets
      BY ReadBeforeFacts
    <2>2. /\ goal' \in [Sets -> Nat]
          /\ \A s \in Sets : goal'[s] \in 1 .. Len(readings[s]) /\ goal[s] <= goal'[s]
          /\ \A s \in PolicySets : goal'[s] = goal[s]
      BY <2>1, ReadFacts, NameFacts
    <2>3. "create" \in RefreshLabels
      BY DEF RefreshLabels
    <2> QED
      BY <2>2, <2>3, HolderFacts, HolderStep
  <1>2. CASE CreateTemp(r)
    <2> USE <1>2 DEF CreateTemp, sources, locals
    <2>1. kernel' = [kernel EXCEPT ![TempName(r)] = Members(kernel[TempName(r)])]
      OBVIOUS
    <2>2. /\ TempName(r) \in Names
          /\ Members(kernel[TempName(r)]) \in Contents /\ Members(kernel[TempName(r)]) # NoSet
      BY HolderFacts, KernelFacts
    <2>3. kernel' \in [Names -> Contents] /\ kernel'[TempName(r)] # NoSet
      BY <2>1, <2>2, HolderFacts
    <2>4. \A n \in Names : Members(kernel'[n]) = Members(kernel[n])
      BY <2>1, <2>2, HolderFacts DEF Members
    <2>5. \A s \in RefreshedSets : \A k \in {"set", "temp"} :
             \A e \in Members(kernel'[<<s, k>>]) : Said(s, goal[s], e)
      BY <2>4, HolderFacts, NameFacts
    <2>6. "fill" \in RefreshLabels
      BY DEF RefreshLabels
    <2> QED
      BY <2>3, <2>5, <2>6, HolderFacts, HolderStep
  <1> QED
    BY <1>1, <1>2

\* A batch adds the goal, or a part of it, to the temporary set.
LEMMA FillFacts ==
    ASSUME IInv, NEW r \in Refreshers, pc[r] = "fill", NEW part \in SUBSET Goal(Current(r)),
           kernel' = [kernel EXCEPT ![TempName(r)] = @ \cup part]
    PROVE  /\ kernel' \in [Names -> Contents]
           /\ kernel'[TempName(r)] = kernel[TempName(r)] \cup part
           /\ kernel'[TempName(r)] # NoSet
           /\ \A s \in RefreshedSets : \A k \in {"set", "temp"} :
                \A e \in Members(kernel'[<<s, k>>]) : Said(s, goal[s], e)
  <1>1. kernel[TempName(r)] \in SUBSET Entries /\ part \in SUBSET Entries
    <2>1. kernel[TempName(r)] # NoSet
      BY DEF IInv, FillInv
    <2> QED
      BY <2>1, HolderFacts, KernelFacts, ReadingFacts
  <1>2. kernel[TempName(r)] \cup part \in SUBSET Entries
    BY <1>1
  <1>3. kernel'[TempName(r)] = kernel[TempName(r)] \cup part
    BY HolderFacts
  <1>4. kernel' \in [Names -> Contents]
    BY <1>2, HolderFacts DEF Contents
  <1>5. ASSUME NEW s \in RefreshedSets, NEW k \in {"set", "temp"}, NEW e \in Members(kernel'[<<s, k>>])
        PROVE  Said(s, goal[s], e)
    <2>1. CASE <<s, k>> = TempName(r)
      <3>1. s = Current(r) /\ k = "temp"
        BY <2>1, HolderFacts
      <3>2. e \in kernel[TempName(r)] \/ e \in Goal(s)
        BY <1>2, <1>3, <1>5, <2>1, <3>1 DEF Members
      <3>3. CASE e \in Goal(s)
        BY <3>3, GoalSaid
      <3>4. CASE e \in kernel[TempName(r)]
        <4>1. e \in Members(kernel[<<s, k>>])
          BY <1>1, <2>1, <3>4 DEF Members
        <4> QED
          BY <4>1, HolderFacts
      <3> QED
        BY <3>2, <3>3, <3>4
    <2>2. CASE <<s, k>> # TempName(r)
      <3>1. kernel'[<<s, k>>] = kernel[<<s, k>>]
        BY <2>2, HolderFacts, NameFacts
      <3> QED
        BY <1>5, <3>1, HolderFacts
    <2> QED
      BY <2>1, <2>2
  <1> QED
    BY <1>2, <1>3, <1>4, <1>5

\* The temporary set is filled with the reading, on top of what it held.
LEMMA FillStep ==
    ASSUME IInv, NEW r \in Refreshers, FillTemp(r)
    PROVE  IInv'
  <1> USE DEF FillTemp, sources, locals
  <1>1. "swap" \in RefreshLabels
    BY DEF RefreshLabels
  <1>2. /\ kernel' \in [Names -> Contents] /\ kernel'[TempName(r)] # NoSet
        /\ kernel'[TempName(r)] = kernel[TempName(r)] \cup Goal(Current(r))
        /\ \A s \in RefreshedSets : \A k \in {"set", "temp"} :
              \A e \in Members(kernel'[<<s, k>>]) : Said(s, goal[s], e)
    BY FillFacts
  <1>3. Goal(Current(r)) \subseteq kernel'[TempName(r)]
    BY <1>2
  <1> QED
    BY <1>1, <1>2, <1>3, HolderFacts, HolderStep

\* The swap exchanges two sets of which everything was said.
LEMMA SwapStep ==
    ASSUME IInv, NEW r \in Refreshers, SwapTemp(r)
    PROVE  IInv'
  <1> USE DEF SwapTemp, sources, locals
  <1>1. "destroy" \in RefreshLabels
    BY DEF RefreshLabels
  <1>2. /\ kernel' \in [Names -> Contents]
        /\ kernel'[SetName(r)] = kernel[TempName(r)] /\ kernel'[TempName(r)] = kernel[SetName(r)]
        /\ \A n \in Names : n # SetName(r) /\ n # TempName(r) => kernel'[n] = kernel[n]
    BY HolderFacts
  <1>3. ASSUME NEW s \in RefreshedSets, NEW k \in {"set", "temp"}, NEW e \in Members(kernel'[<<s, k>>])
        PROVE  Said(s, goal[s], e)
    <2>1. CASE s = Current(r)
      <3>1. \E j \in {"set", "temp"} : kernel'[<<s, k>>] = kernel[<<s, j>>]
        BY <1>2, <2>1, HolderFacts
      <3> QED
        BY <1>3, <3>1, HolderFacts
    <2>2. CASE s # Current(r)
      <3>1. kernel'[<<s, k>>] = kernel[<<s, k>>]
        BY <1>2, <2>2, HolderFacts, NameFacts, SMTT(30)
      <3> QED
        BY <1>3, <3>1, HolderFacts
    <2> QED
      BY <2>1, <2>2
  <1>4. at' \in [Sets -> Nat] /\ \A s \in Sets : at'[s] <= goal[s]
    BY HolderFacts
  <1> QED
    BY <1>1, <1>2, <1>3, <1>4, HolderFacts, HolderStep

\* The temporary set is destroyed and the refresher goes on to its next set.
LEMMA DestroyStep ==
    ASSUME IInv, NEW r \in Refreshers, DestroyTemp(r)
    PROVE  IInv'
  <1> USE DEF DestroyTemp, sources
  <1>1. /\ kernel' \in [Names -> Contents] /\ kernel'[TempName(r)] = NoSet
        /\ \A n \in Names : n # TempName(r) => kernel'[n] = kernel[n]
    BY HolderFacts DEF Contents
  <1>2. ASSUME NEW s \in RefreshedSets, NEW k \in {"set", "temp"}, NEW e \in Members(kernel'[<<s, k>>])
        PROVE  Said(s, goal[s], e)
    <2>1. <<s, k>> # TempName(r)
      BY <1>1, <1>2 DEF Members
    <2>2. kernel'[<<s, k>>] = kernel[<<s, k>>]
      BY <1>1, <2>1, NameFacts
    <2> QED
      BY <1>2, <2>2, HolderFacts
  <1>3. CASE idx[r] < Len(Own(r))
    <2>1. /\ idx' = [idx EXCEPT ![r] = @ + 1] /\ Read(ReadBefore(r, idx[r] + 1))
          /\ Goto(r, "create") /\ ipsetMutex' = ipsetMutex
      BY <1>3 DEF NextSet
    <2>2. idx' \in [Refreshers -> Nat] /\ \A q \in Refreshers : idx'[q] \in DOMAIN Own(q)
      BY <1>3, <2>1, HolderFacts, OwnFacts
    <2>3. ReadBefore(r, idx[r] + 1) \subseteq RefreshedSets
      BY HolderFacts, ReadBeforeFacts
    <2>4. /\ goal' \in [Sets -> Nat]
          /\ \A s \in Sets : goal'[s] \in 1 .. Len(readings[s]) /\ goal[s] <= goal'[s]
          /\ \A s \in PolicySets : goal'[s] = goal[s]
      BY <2>1, <2>3, ReadFacts, NameFacts
    <2>5. "create" \in RefreshLabels
      BY DEF RefreshLabels
    <2> QED
      BY <1>1, <1>2, <2>1, <2>2, <2>4, <2>5, HolderFacts, HolderStep
  <1>4. CASE ~(idx[r] < Len(Own(r)))
    <2>1. /\ idx' = [idx EXCEPT ![r] = 1] /\ goal' = goal
          /\ Goto(r, "idle") /\ ipsetMutex' = "free"
      BY <1>4 DEF NextSet
    <2>2. idx' \in [Refreshers -> Nat] /\ \A q \in Refreshers : idx'[q] \in DOMAIN Own(q)
      BY <2>1, HolderFacts, OwnFacts
    <2>3. "idle" \in RefreshLabels /\ r # "free"
      BY DEF RefreshLabels, Refreshers
    <2> QED
      BY <1>1, <1>2, <2>1, <2>2, <2>3, HolderFacts, HolderStep
  <1> QED
    BY <1>3, <1>4

\* A command of a refresh fails, some entries may have been added.
LEMMA RefreshFailsStep ==
    ASSUME IInv, NEW r \in Refreshers, RefreshFails(r)
    PROVE  IInv'
  <1> USE DEF RefreshFails, sources
  <1>1. idx' \in [Refreshers -> Nat] /\ \A q \in Refreshers : idx'[q] \in DOMAIN Own(q)
    BY HolderFacts, OwnFacts
  <1>2. "idle" \in RefreshLabels /\ r # "free"
    BY DEF RefreshLabels, Refreshers
  <1>3. faults' \in 0 .. MaxFaults
    BY HolderFacts DEF Fault
  <1>4. /\ kernel' \in [Names -> Contents]
        /\ \A s \in RefreshedSets : \A k \in {"set", "temp"} :
              \A e \in Members(kernel'[<<s, k>>]) : Said(s, goal[s], e)
    <2>1. CASE kernel' = kernel
      BY <2>1, HolderFacts
    <2>2. ASSUME NEW part \in SUBSET Goal(Current(r)), pc[r] = "fill",
                 kernel' = [kernel EXCEPT ![TempName(r)] = @ \cup part]
          PROVE  <1>4!:
      BY <2>2, FillFacts
    <2> QED
      BY <2>1, <2>2
  <1> QED
    BY <1>1, <1>2, <1>3, <1>4, HolderFacts, HolderStep

\* The set-up creates missing sets while others may be at work: no saved copy has
\* a set that is missing.
LEMMA SetupStep ==
    ASSUME IInv, NEW r \in Refreshers, Setup(r)
    PROVE  IInv'
  <1> USE DEF Setup, sources
  <1>1. /\ kernel' \in [Names -> Contents]
        /\ \A n \in Names : /\ Members(kernel'[n]) = Members(kernel[n])
                            /\ n # SetName(r) => kernel'[n] = kernel[n]
                            /\ kernel'[n] = kernel[n] \/ kernel[n] = NoSet
    <2>1. kernel' = [kernel EXCEPT ![SetName(r)] = Members(kernel[SetName(r)])]
      OBVIOUS
    <2>2. /\ SetName(r) \in Names /\ Members(kernel[SetName(r)]) \in Contents
          /\ kernel[SetName(r)] # NoSet => Members(kernel[SetName(r)]) = kernel[SetName(r)]
      BY HolderFacts, KernelFacts
    <2> QED
      BY <2>1, <2>2, HolderFacts DEF Members
  <1>2. \E l \in {"setup", "idle"} : Goto(r, l)
    <2>1. CASE pc' = pc
      <3>1. pc' = [pc EXCEPT ![r] = "setup"]
        BY <2>1 DEF IInv, TypeOK
      <3> QED
        BY <3>1 DEF Goto
    <2> QED
      BY <2>1
  <1>3. idx' \in [Refreshers -> Nat] /\ \A q \in Refreshers : idx'[q] \in DOMAIN Own(q)
    BY HolderFacts, OwnFacts, SMTT(30)
  <1>4. /\ pc'[r] \in {"setup", "idle"} /\ pc'["npc"] = pc["npc"]
        /\ \A q \in Refreshers : q # r => pc'[q] = pc[q] /\ idx'[q] = idx[q]
        /\ pc' \in [{"nrc", "nsc", "npc"} -> RefreshLabels \cup PolicyLabels]
    BY <1>2, HolderFacts, SMTT(30) DEF Goto, IInv, TypeOK, Refreshers, RefreshLabels, PolicyLabels
  <1>5. TypeOK'
    BY <1>1, <1>3, <1>4 DEF IInv, TypeOK, RefreshLabels, PolicyLabels
  <1>6. MutexInv'
    BY <1>3, <1>4 DEF IInv, MutexInv, RefreshLabels
  <1>7. ReadingsInv'
    BY DEF IInv, ReadingsInv
  <1>8. ResidueInv'
    <2> SUFFICES ASSUME NEW s \in RefreshedSets, NEW k \in {"set", "temp"},
                        NEW e \in Members(kernel'[<<s, k>>])
                 PROVE  Said(s, goal[s], e)
      BY DEF ResidueInv, Said, Members
    <2> QED
      BY <1>1, HolderFacts, NameFacts
  <1>9. FillInv'
    <2> SUFFICES ASSUME NEW q \in Refreshers, pc'[q] \in {"fill", "swap"}
                 PROVE  /\ kernel'[TempName(q)'] # NoSet
                        /\ pc'[q] = "swap" => Goal(Current(q))' \subseteq kernel'[TempName(q)']
      BY DEF FillInv
    <2>1. q # r /\ pc'[q] = pc[q] /\ idx'[q] = idx[q]
      BY <1>4
    <2>2. Current(q)' = Current(q) /\ TempName(q)' = TempName(q)
      BY <2>1 DEF Current, TempName, Own
    <2>3. Goal(Current(q))' = Goal(Current(q))
      BY <2>2 DEF Goal
    <2>4. kernel'[TempName(q)] = kernel[TempName(q)]
      BY <1>1, HolderFacts
    <2> QED
      BY <2>1, <2>2, <2>3, <2>4 DEF IInv, FillInv
  <1>10. SavedInv' /\ TmpInv' /\ DestroyInv'
    BY <1>1, <1>4, RefresherFrame
  <1> QED
    BY <1>5, <1>6, <1>7, <1>8, <1>9, <1>10 DEF IInv

-----------------------------------------------------------------------------
(* The network policy controller.                                          *)

\* What its step must do to keep the invariant: it writes no refreshed set.
LEMMA PolicyParts ==
    ASSUME IInv, NEW l \in PolicyLabels, Goto("npc", l),
           ipsetMutex' = ipsetMutex \/ (ipsetMutex \in {"free", "npc"} /\ ipsetMutex' \in {"free", "npc"}),
           l \in {"restore", "swap", "flush", "destroy"} <=> ipsetMutex' = "npc",
           UNCHANGED <<readings, changes, idx>>, faults' \in 0 .. MaxFaults,
           goal' \in [Sets -> Nat],
           \A s \in Sets : goal'[s] \in 1 .. Len(readings[s]) /\ goal[s] <= goal'[s],
           \A s \in RefreshedSets : goal'[s] = goal[s],
           saved' \in [Names -> Contents], todo' \subseteq Names, flushed' \subseteq Options,
           tmp' \in [Options -> Contents], kernel' \in [Names -> Contents],
           \A n \in Names : n[1] \in RefreshedSets => kernel'[n] = kernel[n],
           at' \in [Sets -> Nat], \A s \in Sets : at'[s] <= goal[s],
           SavedInv', TmpInv', DestroyInv'
    PROVE  IInv'
  <1>1. /\ pc'["npc"] = l /\ \A r \in Refreshers : pc'[r] = pc[r]
        /\ pc' \in [{"nrc", "nsc", "npc"} -> RefreshLabels \cup PolicyLabels]
    BY DEF IInv, TypeOK, Goto, Refreshers, RefreshLabels, PolicyLabels
  <1>2. TypeOK'
    BY <1>1 DEF IInv, TypeOK, RefreshLabels, PolicyLabels
  <1>3. MutexInv'
    BY <1>1 DEF IInv, MutexInv, Refreshers
  <1>4. ReadingsInv'
    <2>1. \A s \in Sets : at'[s] \in Nat /\ goal[s] \in Nat /\ goal'[s] \in Nat
      BY DEF IInv, MutexInv
    <2>2. \A s \in Sets : at'[s] <= goal'[s]
      <3> TAKE s \in Sets
      <3>1. at'[s] <= goal[s] /\ goal[s] <= goal'[s]
        OBVIOUS
      <3> QED
        BY <2>1, <3>1
    <2> QED
      BY <2>2 DEF IInv, ReadingsInv
  <1>5. ResidueInv' /\ FillInv'
    BY <1>1, PolicyFrame
  <1> QED
    BY <1>2, <1>3, <1>4, <1>5 DEF IInv

\* The types that the steps of the policy controller need.
LEMMA PolicyFacts ==
    ASSUME IInv
    PROVE  /\ pc \in [{"nrc", "nsc", "npc"} -> RefreshLabels \cup PolicyLabels]
           /\ goal \in [Sets -> Nat]
           /\ \A s \in Sets : goal[s] \in 1 .. Len(readings[s]) /\ goal[s] <= goal[s]
           /\ saved \in [Names -> Contents] /\ todo \subseteq Names /\ flushed \subseteq Options
           /\ tmp \in [Options -> Contents] /\ kernel \in [Names -> Contents]
           /\ at \in [Sets -> Nat] /\ \A s \in Sets : at[s] <= goal[s]
           /\ faults \in 0 .. MaxFaults
           /\ pc["npc"] \in {"restore", "swap", "flush", "destroy"} <=> ipsetMutex = "npc"
           /\ NoSet \in Contents /\ {} \in Contents /\ Empty \in [Names -> Contents]
  <1>1. \A s \in Sets : goal[s] \in 1 .. Len(readings[s]) /\ goal[s] \in Nat
    BY ReadingFacts
  <1>2. \A s \in Sets : goal[s] <= goal[s]
    BY <1>1
  <1>3. NoSet \in Contents /\ {} \in Contents /\ Empty \in [Names -> Contents]
    BY DEF Contents, Empty
  <1>4. pc \in [{"nrc", "nsc", "npc"} -> RefreshLabels \cup PolicyLabels]
    BY DEF IInv, TypeOK, RefreshLabels, PolicyLabels
  <1>5. /\ goal \in [Sets -> Nat]
        /\ pc["npc"] \in {"restore", "swap", "flush", "destroy"} <=> ipsetMutex = "npc"
    BY DEF IInv, MutexInv
  <1>6. \A s \in Sets : at[s] <= goal[s]
    BY DEF IInv, ReadingsInv
  <1>7. /\ saved \in [Names -> Contents] /\ todo \subseteq Names /\ flushed \subseteq Options
        /\ tmp \in [Options -> Contents] /\ kernel \in [Names -> Contents]
        /\ at \in [Sets -> Nat] /\ faults \in 0 .. MaxFaults
    BY DEF IInv, TypeOK
  <1> QED
    BY <1>1, <1>2, <1>3, <1>4, <1>5, <1>6, <1>7

\* At the labels where the controller does nothing the last three parts say nothing.
LEMMA QuietLabel ==
    ASSUME IInv, NEW l \in {"idle", "save", "cleanup"}, Goto("npc", l)
    PROVE  SavedInv' /\ TmpInv' /\ DestroyInv'
  <1>1. pc'["npc"] = l
    BY PolicyFacts DEF Goto
  <1> QED
    BY <1>1 DEF SavedInv, TmpInv, DestroyInv

\* The set that the restore is at is one of those left.
LEMMA NextNameFacts ==
    ASSUME IInv, todo # {}
    PROVE  /\ NextName \in todo /\ NextName \in Names /\ TmpOf(NextName) \in Options
           /\ NextName[1] \in Sets
  <1>1. NextName \in todo
    BY DEF NextName
  <1> QED
    BY <1>1, PolicyFacts, NameFacts

\* The policy controller reads its source.
LEMMA PolicyBeginStep == IInv /\ PolicyBegin => IInv'
  <1> SUFFICES ASSUME IInv, PolicyBegin PROVE IInv'
    OBVIOUS
  <1> USE DEF PolicyBegin, sources, sets
  <1>1. /\ goal' \in [Sets -> Nat]
        /\ \A s \in Sets : goal'[s] \in 1 .. Len(readings[s]) /\ goal[s] <= goal'[s]
        /\ \A s \in RefreshedSets : goal'[s] = goal[s]
    BY ReadFacts, NameFacts
  <1>2. "save" \in PolicyLabels
    BY DEF PolicyLabels
  <1>3. SavedInv' /\ TmpInv' /\ DestroyInv'
    BY QuietLabel
  <1> QED
    BY <1>1, <1>2, <1>3, PolicyFacts, PolicyParts

\* It takes the mutex and saves all sets.
LEMMA SaveStep == IInv /\ Save => IInv'
  <1> SUFFICES ASSUME IInv, Save PROVE IInv'
    OBVIOUS
  <1> USE DEF Save, sources, sets, Lock
  <1>1. \A n \in Names : RefreshSet(n) \in Contents
    BY PolicyFacts, ReadingFacts, NameFacts DEF RefreshSet
  <1>2. saved' \in [Names -> Contents] /\ todo' \subseteq Names /\ flushed' \subseteq Options
    BY <1>1
  <1>3. pc'["npc"] = "restore" /\ "restore" \in PolicyLabels
    BY PolicyFacts DEF Goto, PolicyLabels
  <1>4. SavedInv'
    <2> SUFFICES ASSUME NEW n \in Names
                 PROVE  /\ n \in todo' => saved'[n] # NoSet
                        /\ Wanted(n)' => saved'[n] = Goal(n[1])'
                        /\ ~Wanted(n)' /\ saved'[n] # NoSet => kernel'[n] = saved'[n]
      BY DEF SavedInv
    <2>1. Goal(n[1])' = Goal(n[1]) /\ Wanted(n)' = Wanted(n)
      BY DEF Goal, Wanted
    <2>2. saved'[n] = RefreshSet(n)
      OBVIOUS
    <2>3. n \in todo' => saved'[n] # NoSet
      OBVIOUS
    <2> QED
      BY <2>1, <2>2, <2>3 DEF RefreshSet, Wanted
  <1>5. TmpInv' /\ DestroyInv'
    BY <1>3 DEF TmpInv, DestroyInv
  <1> QED
    BY <1>2, <1>3, <1>4, <1>5, PolicyFacts, PolicyParts

\* It fills the temporary set of the next set's options.
LEMMA RestoreFillStep == IInv /\ RestoreFill => IInv'
  <1> SUFFICES ASSUME IInv, RestoreFill PROVE IInv'
    OBVIOUS
  <1> DEFINE n == NextName  o == TmpOf(NextName)
  <1> USE DEF RestoreFill, sources
  <1>1. n \in todo /\ n \in Names /\ o \in Options /\ n[1] \in Sets
    BY NextNameFacts
  <1>2. saved[n] # NoSet /\ saved[n] \in SUBSET Entries
    BY <1>1, PolicyFacts DEF IInv, SavedInv, Contents
  <1>3. /\ tmp' = [tmp EXCEPT ![o] = (IF o \in flushed THEN tmp[o] ELSE {}) \cup saved[n]]
        /\ kernel' = [kernel EXCEPT ![n] = Members(kernel[n])]
        /\ flushed' = flushed \cup {o}
    OBVIOUS
  <1>4. (IF o \in flushed THEN tmp[o] ELSE {}) \cup saved[n] = saved[n]
    BY <1>2 DEF IInv, TmpInv
  <1>5. tmp' \in [Options -> Contents] /\ tmp'[o] = saved[n]
        /\ \A q \in Options : q # o => tmp'[q] = tmp[q]
    BY <1>1, <1>2, <1>3, <1>4, PolicyFacts DEF Contents
  <1>6. /\ kernel' \in [Names -> Contents]
        /\ \A q \in Names : kernel'[q] = kernel[q] \/ (q = n /\ kernel[q] = NoSet)
    BY <1>1, <1>3, PolicyFacts, KernelFacts DEF Members
  <1>7. ~Wanted(n) => kernel[n] # NoSet
    BY <1>1, <1>2 DEF IInv, SavedInv
  <1>8. \A q \in Names : q[1] \in RefreshedSets => kernel'[q] = kernel[q]
    BY <1>6, <1>7 DEF Wanted
  <1>9. pc'["npc"] = "swap" /\ "swap" \in PolicyLabels
    BY PolicyFacts DEF Goto, PolicyLabels
  <1>10. NextName' = NextName
    BY DEF NextName
  <1>11. SavedInv'
    <2> SUFFICES ASSUME NEW q \in Names
                 PROVE  /\ q \in todo' => saved'[q] # NoSet
                        /\ Wanted(q)' => saved'[q] = Goal(q[1])'
                        /\ ~Wanted(q)' /\ saved'[q] # NoSet => kernel'[q] = saved'[q]
      BY DEF SavedInv
    <2>1. Goal(q[1])' = Goal(q[1]) /\ Wanted(q)' = Wanted(q)
      BY DEF Goal, Wanted
    <2> QED
      BY <1>6, <1>7, <2>1 DEF IInv, SavedInv
  <1>12. TmpInv'
    BY <1>1, <1>3, <1>5, <1>9, <1>10, PolicyFacts DEF IInv, TmpInv, TmpOf
  <1>13. DestroyInv'
    BY <1>9 DEF DestroyInv
  <1>14. flushed' \subseteq Options
    BY <1>1, <1>3, PolicyFacts
  <1> QED
    BY <1>5, <1>6, <1>8, <1>9, <1>11, <1>12, <1>13, <1>14, PolicyFacts, PolicyParts

\* A swap changes the content of the sets of policies only.
LEMMA RestoreSwapFacts ==
    ASSUME IInv, RestoreSwap
    PROVE  /\ NextName \in Names /\ TmpOf(NextName) \in Options
           /\ kernel' \in [Names -> Contents] /\ tmp' \in [Options -> Contents]
           /\ kernel'[NextName] = saved[NextName]
           /\ \A q \in Names : kernel'[q] = kernel[q] \/ (q = NextName /\ Wanted(q))
           /\ Wanted(NextName) => saved[NextName] = Goal(NextName[1])
  <1> DEFINE n == NextName  o == TmpOf(NextName)
  <1> USE DEF RestoreSwap
  <1>1. n \in todo /\ n \in Names /\ o \in Options
    BY NextNameFacts DEF IInv, TmpInv
  <1>2. tmp[o] = saved[n] /\ saved[n] # NoSet
    BY <1>1 DEF IInv, TmpInv, SavedInv
  <1>3. kernel' = [kernel EXCEPT ![n] = tmp[o]] /\ tmp' = [tmp EXCEPT ![o] = kernel[n]]
    OBVIOUS
  <1>4. /\ ~Wanted(n) => kernel[n] = saved[n]
        /\ Wanted(n) => saved[n] = Goal(n[1])
    BY <1>1, <1>2 DEF IInv, SavedInv
  <1>5. kernel' \in [Names -> Contents] /\ tmp' \in [Options -> Contents]
    BY <1>1, <1>3, PolicyFacts
  <1>6. /\ kernel'[n] = saved[n]
        /\ \A q \in Names : kernel'[q] = kernel[q] \/ (q = n /\ Wanted(q))
    BY <1>1, <1>2, <1>3, <1>4, PolicyFacts
  <1> QED
    BY <1>1, <1>4, <1>5, <1>6

\* It swaps the temporary set with the set.
LEMMA RestoreSwapStep == IInv /\ RestoreSwap => IInv'
  <1> SUFFICES ASSUME IInv, RestoreSwap PROVE IInv'
    OBVIOUS
  <1> USE DEF RestoreSwap, sources, locals
  <1>1. \A q \in Names : q[1] \in RefreshedSets => kernel'[q] = kernel[q]
    BY RestoreSwapFacts DEF Wanted
  <1>2. pc'["npc"] = "flush" /\ "flush" \in PolicyLabels
    BY PolicyFacts DEF Goto, PolicyLabels
  <1>3. at' \in [Sets -> Nat] /\ \A s \in Sets : at'[s] <= goal[s]
    <2>1. CASE at' = at
      BY <2>1, PolicyFacts
    <2>2. CASE at' = [at EXCEPT ![NextName[1]] = goal[NextName[1]]]
      BY <2>2, PolicyFacts, RestoreSwapFacts, NameFacts
    <2> QED
      BY <2>1, <2>2
  <1>4. SavedInv'
    <2> SUFFICES ASSUME NEW q \in Names
                 PROVE  /\ q \in todo' => saved'[q] # NoSet
                        /\ Wanted(q)' => saved'[q] = Goal(q[1])'
                        /\ ~Wanted(q)' /\ saved'[q] # NoSet => kernel'[q] = saved'[q]
      BY DEF SavedInv
    <2>1. Goal(q[1])' = Goal(q[1]) /\ Wanted(q)' = Wanted(q)
      BY DEF Goal, Wanted
    <2> QED
      BY <2>1, RestoreSwapFacts DEF IInv, SavedInv
  <1>5. TmpInv'
    <2>1. NextName' = NextName
      BY DEF NextName
    <2>2. \A q \in Options : q # TmpOf(NextName) => tmp'[q] = tmp[q]
      BY PolicyFacts
    <2> QED
      BY <1>2, <2>1, <2>2, PolicyFacts DEF IInv, TmpInv, TmpOf
  <1>6. DestroyInv'
    BY <1>2 DEF DestroyInv
  <1> QED
    BY <1>1, <1>2, <1>3, <1>4, <1>5, <1>6, RestoreSwapFacts, PolicyFacts, PolicyParts

\* It flushes the temporary set and goes on to the next set.
LEMMA RestoreFlushStep == IInv /\ RestoreFlush => IInv'
  <1> SUFFICES ASSUME IInv, RestoreFlush PROVE IInv'
    OBVIOUS
  <1> USE DEF RestoreFlush, sources
  <1>1. NextName \in Names /\ TmpOf(NextName) \in Options
    BY NextNameFacts DEF IInv, TmpInv
  <1>2. /\ tmp' \in [Options -> Contents] /\ tmp'[TmpOf(NextName)] = {}
        /\ \A q \in Options : q # TmpOf(NextName) => tmp'[q] = tmp[q]
    BY <1>1, PolicyFacts
  <1>3. pc'["npc"] = "restore" /\ "restore" \in PolicyLabels
    BY PolicyFacts DEF Goto, PolicyLabels
  <1>4. SavedInv'
    <2> SUFFICES ASSUME NEW q \in Names
                 PROVE  /\ q \in todo' => saved'[q] # NoSet
                        /\ Wanted(q)' => saved'[q] = Goal(q[1])'
                        /\ ~Wanted(q)' /\ saved'[q] # NoSet => kernel'[q] = saved'[q]
      BY DEF SavedInv
    <2>1. Goal(q[1])' = Goal(q[1]) /\ Wanted(q)' = Wanted(q)
      BY DEF Goal, Wanted
    <2> QED
      BY <2>1 DEF IInv, SavedInv
  <1>5. TmpInv'
    BY <1>2, <1>3, PolicyFacts DEF IInv, TmpInv
  <1>6. DestroyInv'
    BY <1>3 DEF DestroyInv
  <1>7. todo' \subseteq Names
    BY PolicyFacts
  <1> QED
    BY <1>2, <1>3, <1>4, <1>5, <1>6, <1>7, PolicyFacts, PolicyParts

\* It destroys a temporary set.
LEMMA RestoreDestroyStep == IInv /\ RestoreDestroy => IInv'
  <1> SUFFICES ASSUME IInv, RestoreDestroy PROVE IInv'
    OBVIOUS
  <1> USE DEF RestoreDestroy, sources
  <1>1. PICK o \in flushed : tmp' = [tmp EXCEPT ![o] = NoSet] /\ flushed' = flushed \ {o}
    OBVIOUS
  <1>2. tmp' \in [Options -> Contents] /\ flushed' \subseteq Options /\ o \in Options
    BY <1>1, PolicyFacts DEF Contents
  <1>3. \A q \in flushed' : tmp'[q] = tmp[q]
    BY <1>1, <1>2, PolicyFacts
  <1>4. TmpInv'
    BY <1>3, <1>1, PolicyFacts DEF IInv, TmpInv
  <1>5. ASSUME NEW s PROVE Goal(s)' = Goal(s)
    BY DEF Goal
  <1>6. SavedInv'
    BY <1>5 DEF IInv, SavedInv, Wanted
  <1>7. DestroyInv'
    BY DEF DestroyInv
  <1>8. "restore" \in PolicyLabels /\ ipsetMutex = "npc"
    BY PolicyFacts DEF PolicyLabels
  <1>9. Goto("npc", "restore")
    BY DEF Goto, IInv, TypeOK
  <1> QED
    BY <1>2, <1>4, <1>6, <1>7, <1>8, <1>9, PolicyFacts, PolicyParts

\* It releases the mutex.
LEMMA RestoreEndStep == IInv /\ RestoreEnd => IInv'
  <1> SUFFICES ASSUME IInv, RestoreEnd PROVE IInv'
    OBVIOUS
  <1> USE DEF RestoreEnd, sources, sets
  <1>1. tmp' \in [Options -> Contents]
    BY PolicyFacts
  <1>2. SavedInv' /\ TmpInv' /\ DestroyInv'
    BY QuietLabel
  <1>3. "cleanup" \in PolicyLabels /\ ipsetMutex = "npc"
    BY PolicyFacts DEF PolicyLabels
  <1> QED
    BY <1>1, <1>2, <1>3, PolicyFacts, PolicyParts

\* It destroys the sets that have no policy any more.
LEMMA CleanupStep == IInv /\ (CleanupBegin \/ CleanupDestroy \/ CleanupEnd) => IInv'
  <1> SUFFICES ASSUME IInv, CleanupBegin \/ CleanupDestroy \/ CleanupEnd PROVE IInv'
    OBVIOUS
  <1> USE DEF sources, locals, sets
  <1>1. CASE CleanupBegin
    <2> USE <1>1 DEF CleanupBegin, Lock
    <2>1. pc'["npc"] = "destroy" /\ "destroy" \in PolicyLabels
      BY PolicyFacts DEF Goto, PolicyLabels
    <2>2. todo' \subseteq Names
      BY NameFacts DEF Names, Sets
    <2>3. \A s \in Sets : Goal(s)' = Goal(s)
      BY DEF Goal
    <2>4. DestroyInv'
      BY <2>3, NameFacts DEF DestroyInv
    <2>5. SavedInv' /\ TmpInv'
      BY <2>1 DEF SavedInv, TmpInv
    <2> QED
      BY <2>1, <2>2, <2>4, <2>5, PolicyFacts, PolicyParts
  <1>2. CASE CleanupDestroy
    <2> USE <1>2 DEF CleanupDestroy
    <2>1. PICK n \in todo : /\ kernel' = [kernel EXCEPT ![n] = NoSet]
                            /\ at' = [at EXCEPT ![n[1]] = goal[n[1]]]
                            /\ todo' = todo \ {n}
      OBVIOUS
    <2>2. n \in Names /\ n[1] \in PolicySets /\ n[1] \in Sets
      BY PolicyFacts, NameFacts DEF IInv, DestroyInv
    <2>3. /\ kernel' \in [Names -> Contents]
          /\ \A q \in Names : q[1] \in RefreshedSets => kernel'[q] = kernel[q]
      BY <2>1, <2>2, PolicyFacts
    <2>4. at' \in [Sets -> Nat] /\ \A s \in Sets : at'[s] <= goal[s]
      BY <2>1, <2>2, PolicyFacts
    <2>5. Goto("npc", "destroy") /\ "destroy" \in PolicyLabels /\ pc'["npc"] = "destroy"
      BY PolicyFacts DEF Goto, PolicyLabels
    <2>6. DestroyInv'
      BY <2>1 DEF IInv, DestroyInv, Goal
    <2>7. SavedInv' /\ TmpInv'
      BY <2>5 DEF SavedInv, TmpInv
    <2>8. todo' \subseteq Names
      BY <2>1, PolicyFacts
    <2> QED
      BY <2>3, <2>4, <2>5, <2>6, <2>7, <2>8, PolicyFacts, PolicyParts
  <1>3. CASE CleanupEnd
    <2> USE <1>3 DEF CleanupEnd
    <2>1. SavedInv' /\ TmpInv' /\ DestroyInv'
      BY QuietLabel
    <2>2. "idle" \in PolicyLabels /\ ipsetMutex = "npc"
      BY PolicyFacts DEF PolicyLabels
    <2> QED
      BY <2>1, <2>2, PolicyFacts, PolicyParts
  <1> QED
    BY <1>1, <1>2, <1>3

\* A command of the policy controller fails.
LEMMA PolicyFailsStep == IInv /\ PolicyFails => IInv'
  <1> SUFFICES ASSUME IInv, PolicyFails PROVE IInv'
    OBVIOUS
  <1> USE DEF PolicyFails, sources
  <1>1. tmp' \in [Options -> Contents]
    <2>1. CASE tmp' = tmp
      BY <2>1, PolicyFacts
    <2>2. ASSUME NEW part \in SUBSET saved[NextName], pc["npc"] = "restore", todo # {},
                 tmp' = [tmp EXCEPT ![TmpOf(NextName)] =
                            (IF TmpOf(NextName) \in flushed THEN @ ELSE {}) \cup part]
          PROVE  tmp' \in [Options -> Contents]
      <3>1. NextName \in todo /\ NextName \in Names /\ TmpOf(NextName) \in Options
        BY <2>2, NextNameFacts
      <3>2. saved[NextName] \in SUBSET Entries
        BY <2>2, <3>1, PolicyFacts DEF IInv, SavedInv, Contents
      <3>3. (IF TmpOf(NextName) \in flushed THEN tmp[TmpOf(NextName)] ELSE {}) \cup part = part
        BY <2>2 DEF IInv, TmpInv
      <3>4. tmp' = [tmp EXCEPT ![TmpOf(NextName)] = part]
        BY <2>2, <3>3
      <3> QED
        BY <3>1, <3>2, <3>4, PolicyFacts DEF Contents
    <2> QED
      BY <2>1, <2>2
  <1>2. SavedInv' /\ TmpInv' /\ DestroyInv'
    BY QuietLabel
  <1>3. "idle" \in PolicyLabels
    BY DEF PolicyLabels
  <1>4. faults' \in 0 .. MaxFaults
    BY PolicyFacts DEF Fault
  <1> QED
    BY <1>1, <1>2, <1>3, <1>4, PolicyFacts, PolicyParts

-----------------------------------------------------------------------------
(* The end of the process, and the set-up that fails.                      *)

\* A new process knows nothing, the kernel keeps its sets.
LEMMA RestartStep == IInv /\ Restart /\ faults' \in 0 .. MaxFaults => IInv'
  <1> SUFFICES ASSUME IInv, Restart, faults' \in 0 .. MaxFaults PROVE IInv'
    OBVIOUS
  <1> USE DEF Restart, sources, sets
  <1>1. /\ pc' \in [{"nrc", "nsc", "npc"} -> {"setup", "idle"}]
        /\ pc'["npc"] = "idle" /\ \A r \in Refreshers : pc'[r] = "setup"
    BY PolicyFacts DEF Refreshers
  <1>2. idx' \in [Refreshers -> Nat] /\ \A q \in Refreshers : idx'[q] \in DOMAIN Own(q)
    BY OwnFacts
  <1>3. TypeOK'
    BY <1>1, <1>2, PolicyFacts DEF IInv, TypeOK
  <1>4. MutexInv'
    BY <1>1, <1>2, PolicyFacts DEF MutexInv, RefreshLabels, PolicyLabels, Refreshers
  <1>5. ReadingsInv'
    BY DEF IInv, ReadingsInv
  <1>6. ResidueInv'
    BY DEF IInv, ResidueInv, Said, Members
  <1>7. FillInv' /\ SavedInv' /\ TmpInv' /\ DestroyInv'
    BY <1>1 DEF FillInv, SavedInv, TmpInv, DestroyInv
  <1> QED
    BY <1>3, <1>4, <1>5, <1>6, <1>7 DEF IInv

\* The ways in which the process ends.
LEMMA EndStep == IInv /\ (NilSet \/ Crash \/ \E r \in Refreshers : SetupFails(r)) => IInv'
  <1> SUFFICES ASSUME IInv, NilSet \/ Crash \/ \E r \in Refreshers : SetupFails(r) PROVE IInv'
    OBVIOUS
  <1>1. ASSUME Fault PROVE faults' \in 0 .. MaxFaults
    BY <1>1, PolicyFacts DEF Fault
  <1>2. CASE NilSet
    BY <1>2, PolicyFacts, RestartStep DEF NilSet
  <1>3. CASE Crash
    BY <1>1, <1>3, RestartStep DEF Crash
  <1>4. ASSUME NEW r \in Refreshers, SetupFails(r) PROVE IInv'
    <2>1. CASE r = "nrc"
      BY <1>1, <1>4, <2>1, RestartStep DEF SetupFails
    <2>2. CASE r # "nrc"
      <3> USE <1>4, <2>2 DEF SetupFails, sources, locals, sets
      <3>1. /\ pc'[r] = "nil" /\ pc'["npc"] = pc["npc"]
            /\ \A q \in Refreshers : q # r => pc'[q] = pc[q]
            /\ pc' \in [{"nrc", "nsc", "npc"} -> RefreshLabels \cup PolicyLabels]
        BY PolicyFacts DEF Goto, Refreshers, RefreshLabels
      <3>2. TypeOK'
        BY <1>1, <3>1 DEF IInv, TypeOK, RefreshLabels, PolicyLabels
      <3>3. MutexInv'
        BY <3>1 DEF IInv, MutexInv, RefreshLabels
      <3>4. ReadingsInv'
        BY DEF IInv, ReadingsInv
      <3>5. ResidueInv'
        BY DEF IInv, ResidueInv, Said, Members
      <3>6. FillInv'
        <4> SUFFICES ASSUME NEW q \in Refreshers, pc'[q] \in {"fill", "swap"}
                     PROVE  /\ kernel'[TempName(q)'] # NoSet
                            /\ pc'[q] = "swap" => Goal(Current(q))' \subseteq kernel'[TempName(q)']
          BY DEF FillInv
        <4>1. Current(q)' = Current(q) /\ TempName(q)' = TempName(q)
          BY DEF Current, TempName, Own
        <4>2. Goal(Current(q))' = Goal(Current(q))
          BY <4>1 DEF Goal
        <4> QED
          BY <3>1, <4>1, <4>2 DEF IInv, FillInv
      <3>7. SavedInv' /\ TmpInv' /\ DestroyInv'
        BY <3>1, RefresherFrame
      <3> QED
        BY <3>2, <3>3, <3>4, <3>5, <3>6, <3>7 DEF IInv
    <2> QED
      BY <2>1, <2>2
  <1> QED
    BY <1>2, <1>3, <1>4

-----------------------------------------------------------------------------
\* The invariant holds in every reachable state.
LEMMA Invariant == Spec => []IInv
  <1>1. IInv /\ [Next]_vars => IInv'
    <2> SUFFICES ASSUME IInv, [Next]_vars PROVE IInv'
      OBVIOUS
    <2>1. CASE UNCHANGED vars
      <3> USE <2>1 DEF vars, sources, locals, sets
      <3>1. TypeOK' /\ MutexInv' /\ ReadingsInv'
        BY DEF IInv, TypeOK, MutexInv, ReadingsInv
      <3>2. ResidueInv' /\ FillInv'
        BY PolicyFrame
      <3>3. SavedInv' /\ TmpInv' /\ DestroyInv'
        BY RefresherFrame
      <3> QED
        BY <3>1, <3>2, <3>3 DEF IInv
    <2>2. ASSUME NEW s \in Sets, SourceChanges(s) PROVE IInv'
      BY <2>2, SourceStep
    <2>3. ASSUME NEW r \in Refreshers, RefreshStep(r) \/ RefreshFails(r) \/ SetupFails(r) PROVE IInv'
      BY <2>3, SetupStep, CreateStep, FillStep, SwapStep, DestroyStep, RefreshFailsStep, EndStep
         DEF RefreshStep
    <2>4. CASE PolicyStep \/ PolicyFails
      BY <2>4, PolicyBeginStep, SaveStep, RestoreFillStep, RestoreSwapStep, RestoreFlushStep,
         RestoreDestroyStep, RestoreEndStep, CleanupStep, PolicyFailsStep DEF PolicyStep, RestoreStep
    <2> QED
      BY <2>1, <2>2, <2>3, <2>4, EndStep DEF Next
  <1> QED
    BY InitIInv, <1>1, PTL DEF Spec

-----------------------------------------------------------------------------
(* The refinement: every step is a step of AtomicSets, or leaves alone     *)
(* what packets are compared with.                                         *)

Content == [s \in Sets |-> kernel[<<s, "set">>]]

\* A step that changes no set that rules refer to is a stutter of AtomicSets.
LEMMA Stutter ==
    ASSUME UNCHANGED <<readings, at>>,
           \A s \in Sets : kernel'[<<s, "set">>] = kernel[<<s, "set">>]
    PROVE  UNCHANGED A!avars
  BY DEF A!avars

\* How one set of the kernel, and no other, changes its content.
LEMMA ContentExcept ==
    ASSUME NEW s \in Sets, NEW v, kernel'[<<s, "set">>] = v,
           \A q \in Sets : q # s => kernel'[<<q, "set">>] = kernel[<<q, "set">>]
    PROVE  Content' = [Content EXCEPT ![s] = v]
  BY DEF Content

\* A command on one name leaves the content of the others alone.
LEMMA OneName ==
    ASSUME IInv, NEW n \in Names, NEW v, kernel' = [kernel EXCEPT ![n] = v]
    PROVE  /\ kernel'[n] = v
           /\ \A q \in Sets : n # <<q, "set">> => kernel'[<<q, "set">>] = kernel[<<q, "set">>]
           /\ \A q \in Sets : n[2] # "set" \/ n[1] # q => n # <<q, "set">>
  <1>1. kernel \in [Names -> Contents]
    BY PolicyFacts
  <1>2. kernel'[n] = v /\ \A q \in Names : q # n => kernel'[q] = kernel[q]
    BY <1>1
  <1>3. \A q \in Sets : n[2] # "set" \/ n[1] # q => n # <<q, "set">>
    OBVIOUS
  <1> QED
    BY <1>2, <1>3, NameFacts

\* Creating an empty set is a step of AtomicSets.
LEMMA CreateRefines ==
    ASSUME NEW s \in Sets, UNCHANGED <<readings, at>>,
           kernel[<<s, "set">>] = NoSet, kernel'[<<s, "set">>] = {},
           \A q \in Sets : q # s => kernel'[<<q, "set">>] = kernel[<<q, "set">>]
    PROVE  A!Next
  <1>1. Content' = [Content EXCEPT ![s] = {}] /\ Content[s] = NoSet
    BY ContentExcept DEF Content
  <1>2. A!Create(s)
    BY <1>1 DEF A!Create, Content
  <1> QED
    BY <1>2 DEF A!Next, A!Sets, Sets

\* What was said so far is what AtomicSets allows a set to keep.
LEMMA SaidIsUpTo ==
    ASSUME NEW s, NEW i \in Nat, NEW v, \A e \in v : Said(s, i, e)
    PROVE  v \subseteq A!UpTo(s, i)
  BY DEF Said, A!UpTo

\* A set is replaced by the reading that its sync works from.
LEMMA ReplaceRefines ==
    ASSUME IInv, NEW s \in Sets, NEW v, readings' = readings,
           at' = [at EXCEPT ![s] = goal[s]],
           kernel'[<<s, "set">>] = v,
           \A q \in Sets : q # s => kernel'[<<q, "set">>] = kernel[<<q, "set">>],
           Goal(s) # NoSet, Goal(s) \subseteq v,
           \A e \in v : Said(s, goal[s], e),
           s \in PolicySets => v = Goal(s)
    PROVE  A!Next
  <1>1. Content' = [Content EXCEPT ![s] = v]
    BY ContentExcept
  <1>2. goal[s] \in 1 .. Len(readings[s]) /\ goal[s] >= at[s] /\ goal[s] \in Nat
    BY PolicyFacts
  <1>3. v \in SUBSET A!UpTo(s, goal[s])
    BY <1>2, SaidIsUpTo
  <1>4. A!Replace(s)
    BY <1>1, <1>2, <1>3 DEF A!Replace, Content, Goal
  <1> QED
    BY <1>4 DEF A!Next, A!Sets, Sets

\* Destroying the set of a deleted policy is a step of AtomicSets.
LEMMA RemoveRefines ==
    ASSUME IInv, NEW s \in PolicySets, readings' = readings,
           at' = [at EXCEPT ![s] = goal[s]], kernel'[<<s, "set">>] = NoSet,
           \A q \in Sets : q # s => kernel'[<<q, "set">>] = kernel[<<q, "set">>],
           Goal(s) = NoSet
    PROVE  A!Next
  <1>0. s \in Sets
    BY NameFacts
  <1>1. Content' = [Content EXCEPT ![s] = NoSet]
    BY <1>0, ContentExcept
  <1>2. goal[s] \in 1 .. Len(readings[s]) /\ goal[s] >= at[s]
    BY <1>0, PolicyFacts
  <1>3. A!Remove(s)
    BY <1>1, <1>2 DEF A!Remove, Content, Goal
  <1> QED
    BY <1>0, <1>3 DEF A!Next, A!Sets, Sets

\* The initial states map to initial states.
LEMMA InitRefines == Init => A!Init
  <1> SUFFICES ASSUME Init PROVE A!Init
    OBVIOUS
  <1>1. \A s \in Sets : Len(readings[s]) = 1
    <2> TAKE s \in Sets
    <2>1. PICK v \in Contents : readings[s] = <<v>>
      BY DEF Init
    <2> QED
      BY <2>1
  <1>2. \A s \in Sets : kernel[<<s, "set">>] = NoSet
    BY NameFacts DEF Init, Empty
  <1> QED
    BY <1>1, <1>2 DEF Init, A!Init, A!Sets, Sets

\* A change of a source is one of AtomicSets.
LEMMA SourceRefines ==
    ASSUME IInv, NEW s \in Sets, SourceChanges(s)
    PROVE  A!Next
  <1> USE DEF SourceChanges, sets
  <1>1. PICK v \in Sources[s] : readings' = [readings EXCEPT ![s] = Append(@, v)]
    OBVIOUS
  <1>2. v \in {NoSet} \cup SUBSET Entries
    BY DEF Contents
  <1>3. A!SourceChanges(s)
    BY <1>1, <1>2 DEF A!SourceChanges
  <1> QED
    BY <1>3 DEF A!Next, A!Sets, Sets

\* Of a refresh only the creation of the set and the swap are visible.
LEMMA RefreshRefines ==
    ASSUME IInv, NEW r \in Refreshers, RefreshStep(r) \/ RefreshFails(r)
    PROVE  A!Next \/ UNCHANGED A!avars
  <1> DEFINE s == Current(r)
  <1>0. /\ s \in Sets /\ s \in RefreshedSets /\ s \notin PolicySets
        /\ SetName(r) = <<s, "set">> /\ TempName(r) = <<s, "temp">>
        /\ SetName(r) \in Names /\ TempName(r) \in Names
        /\ kernel \in [Names -> Contents]
        /\ \A q \in Sets : <<q, "set">> \in Names
    BY HolderFacts, NameFacts
  <1>1. CASE Setup(r)
    <2> USE <1>1 DEF Setup, sources
    <2>1. \A q \in Sets : q # s => kernel'[<<q, "set">>] = kernel[<<q, "set">>]
      BY <1>0
    <2>2. CASE kernel[<<s, "set">>] = NoSet
      <3>1. kernel'[<<s, "set">>] = {}
        BY <1>0, <2>2 DEF Members
      <3> QED
        BY <1>0, <2>1, <2>2, <3>1, CreateRefines
    <2>3. CASE kernel[<<s, "set">>] # NoSet
      <3>1. kernel'[<<s, "set">>] = kernel[<<s, "set">>]
        BY <1>0, <2>3 DEF Members
      <3>2. \A q \in Sets : kernel'[<<q, "set">>] = kernel[<<q, "set">>]
        BY <2>1, <3>1
      <3> QED
        BY <3>2, Stutter
    <2> QED
      BY <2>2, <2>3
  <1>2. CASE SwapTemp(r)
    <2> USE <1>2 DEF SwapTemp, sources
    <2>1. /\ kernel'[<<s, "set">>] = kernel[<<s, "temp">>]
          /\ \A q \in Sets : q # s => kernel'[<<q, "set">>] = kernel[<<q, "set">>]
      BY <1>0
    <2>2. Goal(s) \subseteq kernel[<<s, "temp">>] /\ kernel[<<s, "temp">>] # NoSet
      BY <1>0 DEF IInv, FillInv
    <2>3. Goal(s) # NoSet
      BY <1>0, ReadingFacts
    <2>4. \A e \in kernel[<<s, "temp">>] : Said(s, goal[s], e)
      BY <1>0, <2>2, HolderFacts DEF Members
    <2>5. at' = [at EXCEPT ![s] = goal[s]] /\ readings' = readings
      OBVIOUS
    <2> QED
      BY <1>0, <2>1, <2>2, <2>3, <2>4, <2>5, ReplaceRefines
  <1>3. CASE RefreshBegin(r) \/ CreateTemp(r) \/ FillTemp(r) \/ DestroyTemp(r) \/ RefreshFails(r)
    <2>1. UNCHANGED <<readings, at>>
      BY <1>3 DEF RefreshBegin, CreateTemp, FillTemp, DestroyTemp, RefreshFails, sources, sets
    <2>2. kernel' = kernel \/ \E v : kernel' = [kernel EXCEPT ![TempName(r)] = v]
      BY <1>3 DEF RefreshBegin, CreateTemp, FillTemp, DestroyTemp, RefreshFails, sets
    <2>3. TempName(r)[2] # "set"
      BY <1>0
    <2>4. CASE \E v : kernel' = [kernel EXCEPT ![TempName(r)] = v]
      <3>1. PICK v : kernel' = [kernel EXCEPT ![TempName(r)] = v]
        BY <2>4
      <3>2. \A q \in Sets : kernel'[<<q, "set">>] = kernel[<<q, "set">>]
        BY <1>0, <2>3, <3>1, OneName
      <3> QED
        BY <2>1, <3>2, Stutter
    <2> QED
      BY <2>1, <2>2, <2>4, Stutter
  <1> QED
    BY <1>1, <1>2, <1>3 DEF RefreshStep

\* Of a policy sync only the swaps and the destruction of stale sets are visible.
LEMMA PolicyRefines ==
    ASSUME IInv, PolicyStep \/ PolicyFails
    PROVE  A!Next \/ UNCHANGED A!avars
  <1>0. \A q \in Sets : <<q, "set">> \in Names
    BY NameFacts
  <1>1. CASE RestoreFill
    <2> USE <1>1 DEF RestoreFill, sources
    <2>1. NextName \in Names /\ NextName[1] \in Sets /\ NextName = <<NextName[1], NextName[2]>>
      BY NextNameFacts, NameFacts
    <2>2. kernel' = [kernel EXCEPT ![NextName] = Members(kernel[NextName])]
      OBVIOUS
    <2>3. CASE NextName[2] = "set" /\ kernel[NextName] = NoSet
      <3>1. /\ kernel'[<<NextName[1], "set">>] = {} /\ kernel[<<NextName[1], "set">>] = NoSet
            /\ \A q \in Sets : q # NextName[1] => kernel'[<<q, "set">>] = kernel[<<q, "set">>]
        BY <2>1, <2>2, <2>3, OneName, ZenonT(30) DEF Members
      <3> QED
        BY <2>1, <3>1, CreateRefines
    <2>4. CASE ~(NextName[2] = "set" /\ kernel[NextName] = NoSet)
      <3>1. \A q \in Sets : kernel'[<<q, "set">>] = kernel[<<q, "set">>]
        <4>1. CASE NextName[2] # "set"
          BY <2>1, <2>2, <4>1, OneName
        <4>2. CASE NextName[2] = "set"
          <5>1. kernel'[NextName] = kernel[NextName]
            BY <2>1, <2>2, <2>4, <4>2, OneName DEF Members
          <5>2. NextName = <<NextName[1], "set">>
            BY <2>1, <4>2
          <5> QED
            BY <2>1, <2>2, <5>1, <5>2, OneName
        <4> QED
          BY <4>1, <4>2
      <3> QED
        BY <3>1, Stutter
    <2> QED
      BY <2>3, <2>4
  <1>2. CASE RestoreSwap
    <2> USE <1>2 DEF RestoreSwap, sources
    <2> DEFINE s == NextName[1]
    <2>1. CASE Wanted(NextName)
      <3>1. s \in PolicySets /\ s \in Sets /\ s \notin RefreshedSets /\ NextName = <<s, "set">>
        BY <2>1, RestoreSwapFacts, NameFacts DEF Wanted
      <3>2. at' = [at EXCEPT ![s] = goal[s]] /\ readings' = readings
        BY <2>1 DEF Wanted
      <3>3. kernel'[<<s, "set">>] = Goal(s) /\ Goal(s) # NoSet
        BY <2>1, <3>1, RestoreSwapFacts DEF Wanted
      <3>4. \A q \in Sets : q # s => kernel'[<<q, "set">>] = kernel[<<q, "set">>]
        BY <1>0, <3>1, RestoreSwapFacts
      <3>5. \A e \in Goal(s) : Said(s, goal[s], e)
        BY <3>1, <3>3, ReadingFacts DEF Said, Goal
      <3> QED
        BY <3>1, <3>2, <3>3, <3>4, <3>5, ReplaceRefines
    <2>2. CASE ~Wanted(NextName)
      <3>1. UNCHANGED <<readings, at>>
        BY <2>2 DEF Wanted
      <3>2. \A q \in Sets : kernel'[<<q, "set">>] = kernel[<<q, "set">>]
        BY <1>0, <2>2, RestoreSwapFacts
      <3> QED
        BY <3>1, <3>2, Stutter
    <2> QED
      BY <2>1, <2>2
  <1>3. CASE CleanupDestroy
    <2> USE <1>3 DEF CleanupDestroy, sources
    <2>1. PICK n \in todo : /\ kernel' = [kernel EXCEPT ![n] = NoSet]
                            /\ at' = [at EXCEPT ![n[1]] = goal[n[1]]]
      OBVIOUS
    <2>2. n \in Names /\ n[1] \in PolicySets /\ n = <<n[1], "set">> /\ Goal(n[1]) = NoSet
      BY PolicyFacts DEF IInv, DestroyInv
    <2>3. /\ kernel'[<<n[1], "set">>] = NoSet
          /\ \A q \in Sets : q # n[1] => kernel'[<<q, "set">>] = kernel[<<q, "set">>]
      <3>1. /\ kernel'[n] = NoSet
            /\ \A q \in Sets : n # <<q, "set">> => kernel'[<<q, "set">>] = kernel[<<q, "set">>]
            /\ \A q \in Sets : n[1] # q => n # <<q, "set">>
        BY <2>1, <2>2, OneName
      <3>2. kernel'[<<n[1], "set">>] = NoSet
        BY <2>2, <3>1, Zenon
      <3> QED
        BY <3>1, <3>2
    <2> QED
      BY <2>1, <2>2, <2>3, RemoveRefines
  <1>4. CASE \/ PolicyBegin \/ Save \/ RestoreFlush \/ RestoreDestroy \/ RestoreEnd \/ CleanupBegin
             \/ CleanupEnd \/ PolicyFails
    <2>1. UNCHANGED <<readings, at, kernel>>
      BY <1>4 DEF PolicyBegin, Save, RestoreFlush, RestoreDestroy, RestoreEnd, CleanupBegin, CleanupEnd,
                  PolicyFails, sources, sets
    <2> QED
      BY <2>1, Stutter
  <1> QED
    BY <1>1, <1>2, <1>3, <1>4 DEF PolicyStep, RestoreStep

\* Every step is a step of AtomicSets or a stutter.
LEMMA StepRefines == IInv /\ [Next]_vars => [A!Next]_A!avars
  <1> SUFFICES ASSUME IInv, [Next]_vars PROVE A!Next \/ UNCHANGED A!avars
    OBVIOUS
  <1>1. ASSUME UNCHANGED <<readings, at, kernel>> PROVE UNCHANGED A!avars
    BY <1>1, Stutter
  <1>2. CASE UNCHANGED vars
    BY <1>1, <1>2 DEF vars, sources, sets
  <1>3. CASE NilSet \/ Crash \/ \E r \in Refreshers : SetupFails(r)
    BY <1>1, <1>3 DEF NilSet, Crash, SetupFails, Restart, sources, sets
  <1> QED
    BY <1>2, <1>3, SourceRefines, RefreshRefines, PolicyRefines DEF Next

-----------------------------------------------------------------------------
\* Every variable keeps its type; a sync works only from a reading that its source
\* has given, and every set holds entries or does not exist.
THEOREM TypeCorrect == Spec => []TypeOK
  <1>1. IInv => TypeOK
    BY DEF IInv
  <1> QED
    BY <1>1, Invariant, PTL

\* ipsetMutex does what it is there for: for any sets, sources and number of
\* failures and restarts, the temporary sets, swaps and restores of the three
\* controllers take each set from one complete content to the next that its own
\* source has given, and the restore of saved copies never undoes a refresh.
THEOREM RefinesAtomicSets == Spec => SetsAreAtomic
  <1>1. Spec => A!Init /\ [][A!Next]_A!avars
    BY Invariant, InitRefines, StepRefines, PTL DEF Spec
  <1> QED
    BY <1>1 DEF SetsAreAtomic, A!Spec

=============================================================================
