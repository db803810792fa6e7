-------------------------- MODULE FilterTableProofs --------------------------
(***************************************************************************)
(* Proofs about FilterTable, for any forwarding rules, exceptions and      *)
(* foreign rules and any number of writes, failures and restarts.          *)
(***************************************************************************)
EXTENDS FilterTable, TLAPS, FiniteSetTheorems, SequenceTheorems, WellFoundedInduction

-----------------------------------------------------------------------------
(* Induction over the naturals, by the smallest counterexample.            *)

\* A non-empty set of naturals has a smallest element.
LEMMA Smallest ==
    ASSUME NEW T \in SUBSET Nat, T # {}
    PROVE  \E n \in T : \A m \in T : n <= m
  <1> DEFINE R == OpToRel(<, Nat)
  <1>1. IsWellFoundedOn(R, Nat)
    BY NatLessThanWellFounded, Zenon
  <1>2. ASSUME NEW m \in Nat, NEW n \in Nat, m < n PROVE <<m, n>> \in R
    BY <1>2 DEF OpToRel
  <1> HIDE DEF R
  <1>3. \E n \in T : \A m \in T : ~ (<<m, n>> \in R)
    BY <1>1, WFMin
  <1>4. PICK n \in T : \A m \in T : ~ (<<m, n>> \in R)
    BY <1>3
  <1>5. ASSUME NEW m \in T PROVE n <= m
     <2>1. m \in Nat /\ n \in Nat
       OBVIOUS
     <2>2. ~(m < n)
       BY <1>4, <1>2, <2>1, Zenon
     <2> QED
       BY <2>1, <2>2
  <1> QED
    BY <1>5

\* A set that has 0 and with a number its successor has all numbers up to a bound.
LEMMA Induction ==
    ASSUME NEW T \in SUBSET Nat, NEW N \in Nat, 0 \in T,
           \A n \in T : n < N => n + 1 \in T
    PROVE  \A n \in 0 .. N : n \in T
  <1> DEFINE F == {n \in Nat : n <= N /\ n \notin T}
  <1>1. SUFFICES F = {}
    OBVIOUS
  <1>2. SUFFICES ASSUME F # {} PROVE FALSE
    OBVIOUS
  <1>3. PICK n \in F : \A m \in F : n <= m
    BY <1>2, Smallest
  <1>4. n - 1 \in Nat /\ n - 1 < N
    BY <1>3
  <1>5. n - 1 \in T
    BY <1>3, <1>4
  <1>6. (n - 1) + 1 \in T
    BY <1>4, <1>5
  <1> QED
    BY <1>3, <1>6

-----------------------------------------------------------------------------
(* What iptables commands do to a chain.                                   *)

\* What insertion at a position does to a sequence.
LEMMA InsertAtFacts ==
    ASSUME NEW S, NEW s \in Seq(S), NEW e \in S, NEW p \in 1 .. Len(s) + 1
    PROVE  /\ InsertAt(s, p, e) \in Seq(S)
           /\ Len(InsertAt(s, p, e)) = Len(s) + 1
           /\ InsertAt(s, p, e)[p] = e
           /\ \A i \in 1 .. p - 1 : InsertAt(s, p, e)[i] = s[i]
           /\ \A i \in p + 1 .. Len(s) + 1 : InsertAt(s, p, e)[i] = s[i - 1]
  <1> DEFINE a == SubSeq(s, 1, p - 1)  c == SubSeq(s, p, Len(s))
  <1>1. Len(s) \in Nat /\ \A i \in 1 .. Len(s) : s[i] \in S
    OBVIOUS
  <1>2. /\ a \in Seq(S) /\ Len(a) = p - 1 /\ \A i \in 1 .. p - 1 : a[i] = s[i]
    BY <1>1, SubSeqProperties
  <1>3. /\ c \in Seq(S) /\ Len(c) = Len(s) - p + 1
        /\ \A i \in 1 .. Len(s) - p + 1 : c[i] = s[p + i - 1]
    BY <1>1, SubSeqProperties
  <1>4. InsertAt(s, p, e) = (a \o <<e>>) \o c
    BY DEF InsertAt
  <1> HIDE DEF a, c
  <1>5. /\ a \o <<e>> \in Seq(S) /\ Len(a \o <<e>>) = p /\ (a \o <<e>>)[p] = e
        /\ \A i \in 1 .. p - 1 : (a \o <<e>>)[i] = s[i]
    <2>1. <<e>> \in Seq(S) /\ Len(<<e>>) = 1 /\ <<e>>[1] = e
      OBVIOUS
    <2>2. /\ a \o <<e>> \in Seq(S) /\ Len(a \o <<e>>) = Len(a) + 1
          /\ \A i \in 1 .. Len(a) + 1 :
                (a \o <<e>>)[i] = IF i <= Len(a) THEN a[i] ELSE <<e>>[i - Len(a)]
      BY <1>2, <2>1, ConcatProperties
    <2> QED
      BY <1>1, <1>2, <2>1, <2>2
  <1> DEFINE b == a \o <<e>>
  <1>6. /\ b \o c \in Seq(S) /\ Len(b \o c) = Len(s) + 1
        /\ \A i \in 1 .. Len(s) + 1 : (b \o c)[i] = IF i <= p THEN b[i] ELSE c[i - p]
    BY <1>1, <1>3, <1>5, ConcatProperties
  <1> HIDE DEF b
  <1>7. \A i \in p + 1 .. Len(s) + 1 : (b \o c)[i] = s[i - 1]
    <2> TAKE i \in p + 1 .. Len(s) + 1
    <2>1. i - p \in 1 .. Len(s) - p + 1 /\ p + (i - p) - 1 = i - 1
      BY <1>1
    <2>2. c[i - p] = s[i - 1]
      BY <1>3, <2>1
    <2> QED
      BY <1>1, <1>6, <2>2
  <1>8. (b \o c)[p] = e /\ \A i \in 1 .. p - 1 : (b \o c)[i] = s[i]
    BY <1>1, <1>5, <1>6 DEF b
  <1> QED
    BY <1>4, <1>6, <1>7, <1>8 DEF b

\* What removal by number does to a sequence.
LEMMA RemoveAtFacts ==
    ASSUME NEW S, NEW s \in Seq(S), NEW p \in 1 .. Len(s)
    PROVE  /\ RemoveAt(s, p) \in Seq(S)
           /\ Len(RemoveAt(s, p)) = Len(s) - 1
           /\ \A i \in 1 .. p - 1 : RemoveAt(s, p)[i] = s[i]
           /\ \A i \in p .. Len(s) - 1 : RemoveAt(s, p)[i] = s[i + 1]
  <1> DEFINE a == SubSeq(s, 1, p - 1)  c == SubSeq(s, p + 1, Len(s))
  <1>1. Len(s) \in Nat /\ \A i \in 1 .. Len(s) : s[i] \in S
    OBVIOUS
  <1>2. /\ a \in Seq(S) /\ Len(a) = p - 1 /\ \A i \in 1 .. p - 1 : a[i] = s[i]
    BY <1>1, SubSeqProperties
  <1>3. /\ c \in Seq(S) /\ Len(c) = Len(s) - p
        /\ \A i \in 1 .. Len(s) - p : c[i] = s[p + i]
    BY <1>1, SubSeqProperties
  <1>4. RemoveAt(s, p) = a \o c
    BY DEF RemoveAt
  <1> HIDE DEF a, c
  <1>5. /\ a \o c \in Seq(S) /\ Len(a \o c) = Len(s) - 1
        /\ \A i \in 1 .. Len(s) - 1 : (a \o c)[i] = IF i <= p - 1 THEN a[i] ELSE c[i - (p - 1)]
    BY <1>1, <1>2, <1>3, ConcatProperties
  <1>6. \A i \in p .. Len(s) - 1 : (a \o c)[i] = s[i + 1]
    <2> TAKE i \in p .. Len(s) - 1
    <2>1. i - (p - 1) \in 1 .. Len(s) - p /\ p + (i - (p - 1)) = i + 1
      BY <1>1
    <2>2. c[i - (p - 1)] = s[i + 1]
      BY <1>3, <2>1
    <2> QED
      BY <1>1, <1>5, <2>2
  <1> QED
    BY <1>1, <1>2, <1>4, <1>5, <1>6

-----------------------------------------------------------------------------
(* A chain without some of its rules.                                      *)

\* g[i] are the first i rules of s, without R, for every i up to n.
Filters(g, s, R, n) ==
    /\ g[0] = <<>>
    /\ \A i \in 1 .. n : g[i] = IF s[i] \in R THEN g[i - 1] ELSE Append(g[i - 1], s[i])

\* There is a function that filters ever longer prefixes of a sequence.
LEMMA FilterExists ==
    ASSUME NEW S, NEW s \in Seq(S), NEW R
    PROVE  \E g \in [0 .. Len(s) -> Seq(S)] : Filters(g, s, R, Len(s))
  <1> DEFINE P(n) == \E g \in [0 .. n -> Seq(S)] : Filters(g, s, R, n)
             T == {n \in Nat : P(n)}
  <1>1. Len(s) \in Nat /\ \A i \in 1 .. Len(s) : s[i] \in S
    OBVIOUS
  <1>2. P(0)
    <2>1. [i \in 0 .. 0 |-> <<>>] \in [0 .. 0 -> Seq(S)]
      OBVIOUS
    <2>2. Filters([i \in 0 .. 0 |-> <<>>], s, R, 0)
      BY DEF Filters
    <2> QED
      BY <2>1, <2>2
  <1>3. ASSUME NEW n \in Nat, n < Len(s), P(n) PROVE P(n + 1)
    <2>1. PICK g \in [0 .. n -> Seq(S)] : Filters(g, s, R, n)
      BY <1>3
    <2> DEFINE v == IF s[n + 1] \in R THEN g[n] ELSE Append(g[n], s[n + 1])
               h == [i \in 0 .. n + 1 |-> IF i = n + 1 THEN v ELSE g[i]]
    <2>2. v \in Seq(S)
      BY <1>1, <1>3
    <2>3. h \in [0 .. n + 1 -> Seq(S)]
      BY <2>2
    <2>4. h[n + 1] = v /\ \A i \in 0 .. n : h[i] = g[i]
      OBVIOUS
    <2> HIDE DEF h
    <2>5. Filters(h, s, R, n + 1)
      <3>1. h[0] = <<>>
        BY <2>1, <2>4 DEF Filters
      <3>2. ASSUME NEW i \in 1 .. n + 1
            PROVE  h[i] = IF s[i] \in R THEN h[i - 1] ELSE Append(h[i - 1], s[i])
        <4>1. CASE i = n + 1
          <5>1. h[i - 1] = g[n]
            BY <2>4, <4>1
          <5> QED
            BY <2>4, <4>1, <5>1
        <4>2. CASE i # n + 1
          <5>1. i \in 1 .. n /\ i - 1 \in 0 .. n /\ i \in 0 .. n
            BY <4>2
          <5>2. h[i - 1] = g[i - 1] /\ h[i] = g[i]
            BY <2>4, <5>1
          <5>3. g[i] = IF s[i] \in R THEN g[i - 1] ELSE Append(g[i - 1], s[i])
            BY <2>1, <5>1 DEF Filters
          <5> QED
            BY <5>2, <5>3
        <4> QED
          BY <4>1, <4>2
      <3> QED
        BY <3>1, <3>2 DEF Filters
    <2> QED
      BY <2>3, <2>5
  <1>4. \A n \in 0 .. Len(s) : n \in T
    <2>1. 0 \in T /\ T \subseteq Nat
      BY <1>2
    <2>2. \A n \in T : n < Len(s) => n + 1 \in T
      <3> HIDE DEF P
      <3> QED
        BY <1>3
    <2> HIDE DEF T
    <2> QED
      BY <1>1, <2>1, <2>2, Induction
  <1>5. P(Len(s))
    BY <1>1, <1>4
  <1> QED
    BY <1>5

\* Without is what its definition says: the function it is defined by exists.
LEMMA WithoutIs ==
    ASSUME NEW S, NEW s \in Seq(S), NEW R
    PROVE  \E g \in [0 .. Len(s) -> Seq(S)] : Filters(g, s, R, Len(s)) /\ Without(s, R) = g[Len(s)]
  <1> DEFINE Body(g) == [i \in 0 .. Len(s) |->
                           IF i = 0 THEN <<>>
                           ELSE IF s[i] \in R THEN g[i - 1] ELSE Append(g[i - 1], s[i])]
  <1>1. PICK g \in [0 .. Len(s) -> Seq(S)] : Filters(g, s, R, Len(s))
    BY FilterExists
  <1>2. g = Body(g)
    <2>1. \A i \in 0 .. Len(s) : g[i] = Body(g)[i]
      <3> TAKE i \in 0 .. Len(s)
      <3>1. CASE i = 0
        BY <1>1, <3>1 DEF Filters
      <3>2. CASE i # 0
        <4>1. i \in 1 .. Len(s)
          BY <3>2
        <4>2. g[i] = IF s[i] \in R THEN g[i - 1] ELSE Append(g[i - 1], s[i])
          BY <1>1, <4>1 DEF Filters
        <4> QED
          BY <3>2, <4>2
      <3> QED
        BY <3>1, <3>2
    <2> QED
      BY <2>1
  <1> DEFINE h == CHOOSE h : h = Body(h)
  <1>3. h = Body(h)
    BY <1>2
  <1>4. Without(s, R) = h[Len(s)]
    BY DEF Without
  <1> HIDE DEF h
  <1>5. Len(s) \in Nat /\ \A i \in 1 .. Len(s) : s[i] \in S
    OBVIOUS
  <1>6. h[0] = <<>>
    BY <1>3, <1>5
  <1>7. \A i \in 1 .. Len(s) : h[i] = IF s[i] \in R THEN h[i - 1] ELSE Append(h[i - 1], s[i])
    <2> TAKE i \in 1 .. Len(s)
    <2>1. Body(h)[i] = IF s[i] \in R THEN h[i - 1] ELSE Append(h[i - 1], s[i])
      BY <1>5
    <2>2. h[i] = Body(h)[i]
      <3> HIDE DEF Body
      <3> QED
        BY <1>3
    <2> QED
      BY <2>1, <2>2
  <1>8. DOMAIN h = 0 .. Len(s) /\ h = [i \in 0 .. Len(s) |-> h[i]]
    BY <1>3
  <1> HIDE DEF Body
  <1>9. \A i \in 0 .. Len(s) : h[i] \in Seq(S)
    <2> DEFINE T == {i \in Nat : h[i] \in Seq(S)}
    <2>1. 0 \in T
      BY <1>6
    <2>2. ASSUME NEW n \in T, n < Len(s) PROVE n + 1 \in T
      <3>1. n + 1 \in 1 .. Len(s) /\ h[n] \in Seq(S) /\ (n + 1) - 1 = n
        BY <1>5, <2>2
      <3>2. CASE s[n + 1] \in R
        BY <1>7, <3>1, <3>2
      <3>3. CASE s[n + 1] \notin R
        <4>1. h[n + 1] = Append(h[n], s[n + 1]) /\ s[n + 1] \in S
          BY <1>5, <1>7, <3>1, <3>3
        <4>2. h[n + 1] \in Seq(S)
          BY <3>1, <4>1
        <4> QED
          BY <4>2
      <3> QED
        BY <3>2, <3>3
    <2>3. T \in SUBSET Nat
      OBVIOUS
    <2>4. \A i \in 0 .. Len(s) : i \in T
      <3> HIDE DEF T
      <3> QED
        BY <1>5, <2>1, <2>2, <2>3, Induction
    <2> QED
      BY <2>4
  <1>10. h \in [0 .. Len(s) -> Seq(S)]
    BY <1>8, <1>9
  <1> QED
    BY <1>4, <1>6, <1>7, <1>10 DEF Filters

\* Without yields a sequence.
LEMMA WithoutType ==
    ASSUME NEW S, NEW s \in Seq(S), NEW R
    PROVE  Without(s, R) \in Seq(S)
  <1>1. PICK g \in [0 .. Len(s) -> Seq(S)] : Without(s, R) = g[Len(s)]
    BY WithoutIs
  <1> QED
    BY <1>1

\* Rules that are kept and that only kept rules precede stay where they are.
LEMMA WithoutPrefix ==
    ASSUME NEW S, NEW s \in Seq(S), NEW R, NEW k \in 0 .. Len(s),
           \A i \in 1 .. k : s[i] \notin R
    PROVE  /\ Len(Without(s, R)) >= k
           /\ \A i \in 1 .. k : Without(s, R)[i] = s[i]
  <1>1. PICK g \in [0 .. Len(s) -> Seq(S)] : Filters(g, s, R, Len(s)) /\ Without(s, R) = g[Len(s)]
    BY WithoutIs
  <1> DEFINE Good(n) == /\ Len(g[n]) <= n
                        /\ \A i \in 1 .. k : i <= n => i <= Len(g[n]) /\ g[n][i] = s[i]
             T == {n \in Nat : n <= Len(s) => Good(n)}
  <1>2. Len(s) \in Nat /\ k \in Nat /\ k <= Len(s) /\ \A i \in 1 .. Len(s) : s[i] \in S
    OBVIOUS
  <1>3. 0 \in T
    BY <1>1 DEF Filters
  <1>4. ASSUME NEW n \in T, n < Len(s) PROVE n + 1 \in T
    <2>1. n \in Nat /\ n + 1 \in 1 .. Len(s) /\ (n + 1) - 1 = n /\ g[n] \in Seq(S) /\ Good(n)
      BY <1>2, <1>4
    <2> HIDE DEF T
    <2>2. g[n + 1] = IF s[n + 1] \in R THEN g[n] ELSE Append(g[n], s[n + 1])
      BY <1>1, <2>1 DEF Filters
    <2>3. CASE s[n + 1] \in R
      <3>1. g[n + 1] = g[n] /\ ~(n + 1 \in 1 .. k)
        BY <2>2, <2>3
      <3>2. Good(n + 1)
        BY <1>2, <2>1, <3>1
      <3> QED
        BY <2>1, <3>2 DEF T
    <2>4. CASE s[n + 1] \notin R
      <3>1. g[n + 1] = Append(g[n], s[n + 1]) /\ s[n + 1] \in S
        BY <1>2, <2>1, <2>2, <2>4
      <3>2. /\ Len(g[n + 1]) = Len(g[n]) + 1 /\ Len(g[n]) \in Nat
            /\ g[n + 1][Len(g[n]) + 1] = s[n + 1]
            /\ \A i \in 1 .. Len(g[n]) : g[n + 1][i] = g[n][i]
        BY <2>1, <3>1
      <3>3. ASSUME NEW i \in 1 .. k, i <= n + 1 PROVE i <= Len(g[n + 1]) /\ g[n + 1][i] = s[i]
        <4>1. CASE i <= n
          BY <2>1, <3>2, <3>3, <4>1
        <4>2. CASE i = n + 1
          <5>1. Len(g[n]) = n
            <6>1. CASE n = 0
              BY <2>1, <3>2, <6>1
            <6>2. CASE n # 0
              BY <2>1, <3>2, <4>2, <6>2
            <6> QED
              BY <6>1, <6>2
          <5> QED
            BY <3>2, <4>2, <5>1
        <4> QED
          BY <2>1, <3>3, <4>1, <4>2
      <3>4. Good(n + 1)
        BY <2>1, <3>2, <3>3
      <3> QED
        BY <2>1, <3>4 DEF T
    <2> QED
      BY <2>3, <2>4
  <1>5. \A n \in 0 .. Len(s) : n \in T
    <2>1. T \in SUBSET Nat
      OBVIOUS
    <2> HIDE DEF T
    <2> QED
      BY <1>2, <1>3, <1>4, <2>1, Induction
  <1>6. Good(Len(s))
    BY <1>2, <1>5
  <1> QED
    <2>1. g[Len(s)] \in Seq(S)
      BY <1>2
    <2>2. Len(g[Len(s)]) \in Nat
      BY <2>1
    <2> QED
      BY <1>1, <1>2, <1>6, <2>2

\* Rules of R may come and go without effect on the others.
LEMMA WithoutInsertAt ==
    ASSUME NEW S, NEW s \in Seq(S), NEW R, NEW p \in 1 .. Len(s) + 1, NEW e \in S, e \in R
    PROVE  Without(InsertAt(s, p, e), R) = Without(s, R)
  <1> DEFINE t == InsertAt(s, p, e)
  <1>1. /\ t \in Seq(S) /\ Len(t) = Len(s) + 1 /\ Len(s) \in Nat /\ t[p] = e
        /\ \A i \in 1 .. p - 1 : t[i] = s[i]
        /\ \A i \in p + 1 .. Len(s) + 1 : t[i] = s[i - 1]
    BY InsertAtFacts
  <1> HIDE DEF t
  <1>2. PICK g \in [0 .. Len(s) -> Seq(S)] : Filters(g, s, R, Len(s)) /\ Without(s, R) = g[Len(s)]
    BY WithoutIs
  <1>3. PICK h \in [0 .. Len(t) -> Seq(S)] : Filters(h, t, R, Len(t)) /\ Without(t, R) = h[Len(t)]
    <2>1. t \in Seq(S)
      BY <1>1
    <2> QED
      BY ONLY <2>1, WithoutIs
  <1> DEFINE Same(n) == h[n] = IF n < p THEN g[n] ELSE g[n - 1]
             T == {n \in Nat : Same(n)}
  <1>4. 0 \in T
    BY <1>2, <1>3 DEF Filters
  <1>5. ASSUME NEW n \in T, n < Len(t) PROVE n + 1 \in T
    <2>1. n \in Nat /\ n + 1 \in 1 .. Len(t) /\ (n + 1) - 1 = n /\ Same(n)
      BY <1>1, <1>5
    <2> HIDE DEF T
    <2>2. h[n + 1] = IF t[n + 1] \in R THEN h[n] ELSE Append(h[n], t[n + 1])
      BY <1>3, <2>1 DEF Filters
    <2>3. CASE n + 1 < p
      <3>1. n + 1 \in 1 .. Len(s) /\ n + 1 \in 1 .. p - 1 /\ n < p
        BY <1>1, <2>1, <2>3
      <3>2. t[n + 1] = s[n + 1] /\ h[n] = g[n]
        BY <1>1, <2>1, <3>1
      <3>3. g[n + 1] = IF s[n + 1] \in R THEN g[n] ELSE Append(g[n], s[n + 1])
        BY <1>2, <2>1, <3>1 DEF Filters
      <3>4. h[n + 1] = g[n + 1]
        BY <2>2, <3>2, <3>3
      <3> QED
        BY <2>1, <2>3, <3>4 DEF T
    <2>4. CASE n + 1 = p
      <3>1. t[n + 1] \in R /\ h[n] = g[n]
        BY <1>1, <2>1, <2>4
      <3> QED
        BY <2>1, <2>2, <2>4, <3>1 DEF T
    <2>5. CASE n + 1 > p
      <3>1. n \in 1 .. Len(s) /\ t[n + 1] = s[n] /\ h[n] = g[n - 1]
        <4>1. n \in 1 .. Len(s) /\ n + 1 \in p + 1 .. Len(s) + 1 /\ ~(n < p)
          BY <1>1, <2>1, <2>5
        <4>2. t[n + 1] = s[(n + 1) - 1]
          BY <1>1, <4>1
        <4>3. h[n] = g[n - 1]
          BY <2>1, <4>1
        <4> QED
          BY <2>1, <4>1, <4>2, <4>3
      <3>2. g[n] = IF s[n] \in R THEN g[n - 1] ELSE Append(g[n - 1], s[n])
        BY <1>2, <3>1 DEF Filters
      <3>3. h[n + 1] = g[n]
        BY <2>2, <3>1, <3>2
      <3>4. ~(n + 1 < p) /\ h[n + 1] = g[(n + 1) - 1]
        BY <2>1, <2>5, <3>3
      <3> QED
        BY <2>1, <3>4 DEF T
    <2> QED
      BY <2>1, <2>3, <2>4, <2>5
  <1>6. \A n \in 0 .. Len(t) : n \in T
    <2>1. T \in SUBSET Nat /\ Len(t) \in Nat
      BY <1>1
    <2> HIDE DEF T
    <2> QED
      BY <1>4, <1>5, <2>1, Induction
  <1>7. Same(Len(t))
    BY <1>1, <1>6
  <1> QED
    BY <1>1, <1>2, <1>3, <1>7 DEF t

\* Removing one of the rules that Without leaves out does not change the others.
LEMMA WithoutRemoveAt ==
    ASSUME NEW S, NEW s \in Seq(S), NEW R, NEW p \in 1 .. Len(s), s[p] \in R
    PROVE  Without(RemoveAt(s, p), R) = Without(s, R)
  <1> DEFINE t == RemoveAt(s, p)
  <1>1. /\ t \in Seq(S) /\ Len(t) = Len(s) - 1 /\ Len(s) \in Nat /\ s[p] \in S
        /\ \A i \in 1 .. p - 1 : t[i] = s[i]
        /\ \A i \in p .. Len(s) - 1 : t[i] = s[i + 1]
    BY RemoveAtFacts
  <1> HIDE DEF t
  <1>2. InsertAt(t, p, s[p]) = s
    <2> DEFINE u == InsertAt(t, p, s[p])
    <2>1. p \in 1 .. Len(t) + 1
      BY <1>1
    <2>2. /\ u \in Seq(S) /\ Len(u) = Len(t) + 1 /\ u[p] = s[p]
          /\ \A i \in 1 .. p - 1 : u[i] = t[i]
          /\ \A i \in p + 1 .. Len(t) + 1 : u[i] = t[i - 1]
      <3>1. t \in Seq(S) /\ s[p] \in S
        BY <1>1
      <3> QED
        BY ONLY <2>1, <3>1, InsertAtFacts, SMTT(30)
    <2> HIDE DEF u
    <2>3. ASSUME NEW i \in 1 .. Len(s) PROVE u[i] = s[i]
      <3>1. CASE i < p
        BY <1>1, <2>2, <3>1
      <3>2. CASE i > p
        <4>1. i \in p + 1 .. Len(t) + 1 /\ i - 1 \in p .. Len(s) - 1 /\ (i - 1) + 1 = i
          BY <1>1, <3>2
        <4> QED
          BY <1>1, <2>2, <4>1
      <3> QED
        BY <2>2, <3>1, <3>2
    <2>4. Len(u) = Len(s)
      BY <1>1, <2>2
    <2>5. u = s
      BY <2>2, <2>3, <2>4, SeqEqual
    <2> QED
      BY <2>5 DEF u
  <1>3. p \in 1 .. Len(t) + 1
    BY <1>1
  <1>4. Without(InsertAt(t, p, s[p]), R) = Without(t, R)
    BY <1>1, <1>3, WithoutInsertAt
  <1> QED
    BY <1>2, <1>4 DEF t

\* A rule at the end of a chain.
LEMMA WithoutAppend ==
    ASSUME NEW S, NEW s \in Seq(S), NEW R, NEW e \in S
    PROVE  Without(Append(s, e), R) = IF e \in R THEN Without(s, R) ELSE Append(Without(s, R), e)
  <1> DEFINE t == Append(s, e)
  <1>1. /\ t \in Seq(S) /\ Len(t) = Len(s) + 1 /\ Len(s) \in Nat /\ t[Len(s) + 1] = e
        /\ \A i \in 1 .. Len(s) : t[i] = s[i]
    OBVIOUS
  <1> HIDE DEF t
  <1>2. PICK g \in [0 .. Len(s) -> Seq(S)] : Filters(g, s, R, Len(s)) /\ Without(s, R) = g[Len(s)]
    BY WithoutIs
  <1>3. PICK h \in [0 .. Len(t) -> Seq(S)] : Filters(h, t, R, Len(t)) /\ Without(t, R) = h[Len(t)]
    <2>1. t \in Seq(S)
      BY <1>1
    <2> QED
      BY ONLY <2>1, WithoutIs
  <1> DEFINE T == {n \in Nat : h[n] = g[n]}
  <1>4. 0 \in T
    BY <1>2, <1>3 DEF Filters
  <1>5. ASSUME NEW n \in T, n < Len(s) PROVE n + 1 \in T
    <2>1. n \in Nat /\ n + 1 \in 1 .. Len(s) /\ n + 1 \in 1 .. Len(t) /\ (n + 1) - 1 = n /\ h[n] = g[n]
      BY <1>1, <1>5
    <2> HIDE DEF T
    <2>2. h[n + 1] = IF t[n + 1] \in R THEN h[n] ELSE Append(h[n], t[n + 1])
      BY <1>3, <2>1 DEF Filters
    <2>3. g[n + 1] = IF s[n + 1] \in R THEN g[n] ELSE Append(g[n], s[n + 1])
      BY <1>2, <2>1 DEF Filters
    <2>4. h[n + 1] = g[n + 1]
      BY <1>1, <2>1, <2>2, <2>3
    <2> QED
      BY <2>1, <2>4 DEF T
  <1>6. \A n \in 0 .. Len(s) : n \in T
    <2>1. T \in SUBSET Nat
      OBVIOUS
    <2> HIDE DEF T
    <2> QED
      BY <1>1, <1>4, <1>5, <2>1, Induction
  <1>7. h[Len(s)] = g[Len(s)]
    BY <1>1, <1>6
  <1>8. Len(s) + 1 \in 1 .. Len(t) /\ (Len(s) + 1) - 1 = Len(s)
    BY <1>1
  <1>9. h[Len(s) + 1] = IF t[Len(s) + 1] \in R THEN h[Len(s)] ELSE Append(h[Len(s)], t[Len(s) + 1])
    BY <1>3, <1>8 DEF Filters
  <1>10. Without(t, R) = IF e \in R THEN Without(s, R) ELSE Append(Without(s, R), e)
    BY <1>1, <1>2, <1>3, <1>7, <1>9
  <1> QED
    BY <1>10 DEF t

\* To take away some of the rules first changes nothing.
LEMMA WithoutTwice ==
    ASSUME NEW S, NEW s \in Seq(S), NEW R, NEW Q \in SUBSET R
    PROVE  Without(Without(s, Q), R) = Without(s, R)
  <1>1. PICK g \in [0 .. Len(s) -> Seq(S)] : Filters(g, s, R, Len(s)) /\ Without(s, R) = g[Len(s)]
    BY WithoutIs
  <1>2. PICK h \in [0 .. Len(s) -> Seq(S)] : Filters(h, s, Q, Len(s)) /\ Without(s, Q) = h[Len(s)]
    BY WithoutIs
  <1> DEFINE T == {n \in Nat : Without(h[n], R) = g[n]}
  <1>3. Len(s) \in Nat /\ \A i \in 1 .. Len(s) : s[i] \in S
    OBVIOUS
  <1>4. \A x \in Seq(S), e \in S :
          Without(Append(x, e), R) = IF e \in R THEN Without(x, R) ELSE Append(Without(x, R), e)
    BY WithoutAppend
  <1>5. 0 \in T
    <2>1. <<>> \in Seq(S) /\ Len(<<>>) = 0
      OBVIOUS
    <2> DEFINE e == <<>>
    <2>2. e \in Seq(S) /\ Len(e) = 0
      BY <2>1
    <2> HIDE DEF e
    <2>3. PICK f \in [0 .. Len(e) -> Seq(S)] : Filters(f, e, R, Len(e)) /\ Without(e, R) = f[Len(e)]
      BY <2>2, WithoutIs
    <2>4. Without(<<>>, R) = <<>>
      BY <2>2, <2>3 DEF Filters, e
    <2>5. h[0] = <<>> /\ g[0] = <<>>
      BY <1>1, <1>2 DEF Filters
    <2> QED
      BY <2>4, <2>5
  <1>6. ASSUME NEW n \in T, n < Len(s) PROVE n + 1 \in T
    <2>1. /\ n \in Nat /\ n + 1 \in 1 .. Len(s) /\ (n + 1) - 1 = n /\ n \in 0 .. Len(s)
          /\ Without(h[n], R) = g[n]
      BY <1>3, <1>6
    <2> HIDE DEF T
    <2>2. h[n + 1] = IF s[n + 1] \in Q THEN h[n] ELSE Append(h[n], s[n + 1])
      BY <1>2, <2>1 DEF Filters
    <2>3. g[n + 1] = IF s[n + 1] \in R THEN g[n] ELSE Append(g[n], s[n + 1])
      BY <1>1, <2>1 DEF Filters
    <2>4. Without(h[n + 1], R) = g[n + 1]
      <3>1. CASE s[n + 1] \in Q
        BY <2>1, <2>2, <2>3, <3>1
      <3>2. CASE s[n + 1] \notin Q
        <4>1. h[n] \in Seq(S) /\ s[n + 1] \in S
          BY <1>3, <2>1
        <4>2. Without(Append(h[n], s[n + 1]), R) =
                IF s[n + 1] \in R THEN Without(h[n], R) ELSE Append(Without(h[n], R), s[n + 1])
          BY <1>4, <4>1
        <4> QED
          BY <2>1, <2>2, <2>3, <3>2, <4>2
      <3> QED
        BY <3>1, <3>2
    <2> QED
      BY <2>1, <2>4 DEF T
  <1>7. \A n \in 0 .. Len(s) : n \in T
    <2>1. T \in SUBSET Nat
      OBVIOUS
    <2> HIDE DEF T
    <2> QED
      BY <1>3, <1>5, <1>6, <2>1, Induction
  <1> QED
    BY <1>1, <1>2, <1>3, <1>7

-----------------------------------------------------------------------------
(* The number of a rule in a listing, and the ensured rules.               *)

\* The first of the copies, if there is one.
First(s, r) == SelectInSeq(s, LAMBDA x : x = r)

\* The first position of a rule that a chain contains.
LEMMA FirstOf ==
    ASSUME NEW S, NEW s \in Seq(S), NEW r, Contains(s, r)
    PROVE  First(s, r) \in 1 .. Len(s) /\ s[First(s, r)] = r
  <1> DEFINE I == {i \in 1 .. Len(s) : s[i] = r}
  <1>1. I \in SUBSET Nat /\ I # {}
    BY DEF Contains
  <1>2. \E n \in I : \A m \in I : n <= m
    BY <1>1, Smallest
  <1>3. Min(I) \in I
    BY <1>2 DEF Min
  <1>4. First(s, r) = Min(I)
    BY <1>1 DEF SelectInSeq, First
  <1> QED
    BY <1>3, <1>4

\* Deletion by specification yields a sequence.
LEMMA RemoveFirstType ==
    ASSUME NEW S, NEW s \in Seq(S), NEW r
    PROVE  RemoveFirst(s, r) \in Seq(S)
  <1>1. CASE Contains(s, r)
    <2>1. First(s, r) \in 1 .. Len(s)
      BY <1>1, FirstOf
    <2>2. RemoveFirst(s, r) = RemoveAt(s, First(s, r))
      BY <1>1 DEF RemoveFirst, Contains, First, SelectInSeq
    <2> QED
      BY <2>1, <2>2, RemoveAtFacts
  <1>2. CASE ~Contains(s, r)
    BY <1>2 DEF RemoveFirst, Contains
  <1> QED
    BY <1>1, <1>2

\* The rules of other programs, in some order.
LEMMA ForeignSeq == SetToSeq(Foreign) \in Seq(Rules)
  <1>1. IsFiniteSet(Foreign) /\ Foreign \subseteq Rules
    BY FilterAssumption DEF Rules
  <1>2. PICK n \in Nat : ExistsBijection(1 .. n, Foreign)
    BY <1>1, FS_NatBijection
  <1>3. Cardinality(Foreign) = n
    BY <1>2, FS_CountingElements
  <1>4. \E f \in [1 .. n -> Foreign] : IsInjective(f)
    BY <1>2 DEF ExistsBijection, Bijection, Injection, IsInjective
  <1>5. SetToSeq(Foreign) \in [1 .. n -> Foreign]
    BY <1>3, <1>4 DEF SetToSeq
  <1> QED
    BY <1>1, <1>2, <1>5

\* The two jumps, then the exceptions for services in their order.
LEMMA EnsuredRules ==
    /\ Len(Ensured) = 2 + Len(Whitelist) /\ DOMAIN Ensured = 1 .. Len(Ensured) /\ Len(Whitelist) \in Nat
    /\ Ensured[1] = [chain |-> "FORWARD", rule |-> "netpol", pos |-> 1]
    /\ Ensured[2] = [chain |-> "INPUT", rule |-> "netpol", pos |-> 1]
    /\ \A j \in 1 .. Len(Whitelist) :
          j + 2 \in DOMAIN Ensured /\ Ensured[j + 2] = [chain |-> "KUBE-ROUTER-INPUT", rule |-> Whitelist[j], pos |-> j]
  <1> DEFINE a == <<[chain |-> "FORWARD", rule |-> "netpol", pos |-> 1], [chain |-> "INPUT", rule |-> "netpol", pos |-> 1]>>
             w == [i \in DOMAIN Whitelist |-> [chain |-> "KUBE-ROUTER-INPUT", rule |-> Whitelist[i], pos |-> i]]
             E == [chain : Chains, rule : Rules, pos : Nat]
  <1>1. Whitelist \in Seq(Rules) /\ IsInjective(Whitelist)
    BY FilterAssumption
  <1>2. Len(Whitelist) \in Nat /\ DOMAIN Whitelist = 1 .. Len(Whitelist) /\ \A i \in 1 .. Len(Whitelist) : Whitelist[i] \in Rules /\ Whitelist[i] \in ToSet(Whitelist)
    BY <1>1 DEF ToSet
  <1>3. "netpol" \in Rules
    BY DEF Rules
  <1>4. a \in Seq(E) /\ Len(a) = 2
    BY <1>3 DEF Chains, Builtin
  <1>5. w \in Seq(E) /\ Len(w) = Len(Whitelist)
    BY <1>2 DEF Chains, Builtin
  <1>6. Ensured = a \o w
    BY DEF Ensured
  <1>7. /\ Ensured \in Seq(E) /\ Len(Ensured) = 2 + Len(Whitelist)
        /\ \A i \in 1 .. 2 + Len(Whitelist) : Ensured[i] = IF i <= 2 THEN a[i] ELSE w[i - 2]
    <2> HIDE DEF a, w, E
    <2>1. /\ a \o w \in Seq(E) /\ Len(a \o w) = Len(a) + Len(w)
          /\ \A i \in 1 .. Len(a) + Len(w) : (a \o w)[i] = IF i <= Len(a) THEN a[i] ELSE w[i - Len(a)]
      <3>1. a \in Seq(E) /\ w \in Seq(E)
        BY <1>4, <1>5
      <3>2. \A x, y \in Seq(E) :
              /\ x \o y \in Seq(E) /\ Len(x \o y) = Len(x) + Len(y)
              /\ \A i \in 1 .. Len(x) + Len(y) : (x \o y)[i] = IF i <= Len(x) THEN x[i] ELSE y[i - Len(x)]
        BY ConcatProperties
      <3> QED
        BY ONLY <3>1, <3>2
    <2> QED
      BY ONLY <1>2, <1>4, <1>5, <1>6, <2>1
  <1>8. /\ Ensured[1] = [chain |-> "FORWARD", rule |-> "netpol", pos |-> 1]
        /\ Ensured[2] = [chain |-> "INPUT", rule |-> "netpol", pos |-> 1]
    <2>1. 1 \in 1 .. 2 + Len(Whitelist) /\ 2 \in 1 .. 2 + Len(Whitelist)
      BY <1>2
    <2>2. Ensured[1] = a[1] /\ Ensured[2] = a[2]
      <3> HIDE DEF a, w, E
      <3> QED
        BY <1>7, <2>1
    <2> QED
      BY <2>2
  <1>9. \A j \in 1 .. Len(Whitelist) : Ensured[j + 2] = [chain |-> "KUBE-ROUTER-INPUT", rule |-> Whitelist[j], pos |-> j]
    <2> TAKE j \in 1 .. Len(Whitelist)
    <2>1. j + 2 \in 1 .. 2 + Len(Whitelist) /\ ~(j + 2 <= 2) /\ (j + 2) - 2 = j
      BY <1>2
    <2> QED
      BY <1>2, <1>7, <2>1
  <1>10. DOMAIN Ensured = 1 .. Len(Ensured) /\ \A j \in 1 .. Len(Whitelist) : j + 2 \in DOMAIN Ensured
    BY <1>2, <1>7
  <1> QED
    BY <1>2, <1>7, <1>8, <1>9, <1>10

\* Each rule has a position in its chain, the positions before it are those of rules
\* that are ensured earlier, and those are other rules.
LEMMA EnsuredFacts ==
    /\ Len(Ensured) \in Nat /\ Len(Ensured) >= 2 /\ DOMAIN Ensured = 1 .. Len(Ensured)
    /\ \A k \in DOMAIN Ensured :
          /\ Ensured[k].chain \in Chains /\ Ensured[k].chain # "KUBE-ROUTER-SERVICES"
          /\ Ensured[k].rule \in ToSet(Whitelist) \cup {"netpol"} /\ Ensured[k].rule \in Rules
          /\ Ensured[k].pos \in Nat /\ Ensured[k].pos >= 1
          /\ \A q \in 1 .. Ensured[k].pos - 1 : \E i \in 1 .. k - 1 :
                Ensured[i].chain = Ensured[k].chain /\ Ensured[i].pos = q
          /\ \A i \in 1 .. k - 1 : Ensured[i].chain = Ensured[k].chain =>
                Ensured[i].pos < Ensured[k].pos /\ Ensured[i].rule # Ensured[k].rule
  <1>1. Whitelist \in Seq(Rules) /\ IsInjective(Whitelist)
    BY FilterAssumption
  <1>2. Len(Whitelist) \in Nat /\ DOMAIN Whitelist = 1 .. Len(Whitelist) /\ \A i \in 1 .. Len(Whitelist) : Whitelist[i] \in Rules /\ Whitelist[i] \in ToSet(Whitelist)
    BY <1>1 DEF ToSet
  <1>3. "netpol" \in Rules
    BY DEF Rules
  <1>7. Len(Ensured) = 2 + Len(Whitelist)
    BY EnsuredRules
  <1>8. /\ Ensured[1] = [chain |-> "FORWARD", rule |-> "netpol", pos |-> 1]
        /\ Ensured[2] = [chain |-> "INPUT", rule |-> "netpol", pos |-> 1]
    BY EnsuredRules
  <1>9. \A j \in 1 .. Len(Whitelist) : Ensured[j + 2] = [chain |-> "KUBE-ROUTER-INPUT", rule |-> Whitelist[j], pos |-> j]
    BY EnsuredRules
  <1>10. /\ Len(Ensured) \in Nat /\ Len(Ensured) >= 2 /\ DOMAIN Ensured = 1 .. Len(Ensured)
    BY <1>2, EnsuredRules
  <1>11. ASSUME NEW k \in DOMAIN Ensured
         PROVE /\ Ensured[k].chain \in Chains /\ Ensured[k].chain # "KUBE-ROUTER-SERVICES"
               /\ Ensured[k].rule \in ToSet(Whitelist) \cup {"netpol"} /\ Ensured[k].rule \in Rules
               /\ Ensured[k].pos \in Nat /\ Ensured[k].pos >= 1
               /\ \A q \in 1 .. Ensured[k].pos - 1 : \E i \in 1 .. k - 1 :
                     Ensured[i].chain = Ensured[k].chain /\ Ensured[i].pos = q
               /\ \A i \in 1 .. k - 1 : Ensured[i].chain = Ensured[k].chain =>
                     Ensured[i].pos < Ensured[k].pos /\ Ensured[i].rule # Ensured[k].rule
    <2>1. k \in 1 .. 2 + Len(Whitelist)
      BY <1>7, <1>10
    <2>2. CASE k = 1
      BY <1>3, <1>8, <2>2 DEF Chains, Builtin
    <2>3. CASE k = 2
      BY <1>3, <1>8, <2>3 DEF Chains, Builtin
    <2>4. CASE k > 2
      <3> DEFINE j == k - 2
      <3>1. j \in 1 .. Len(Whitelist) /\ k = j + 2
        BY <1>2, <2>1, <2>4
      <3>2. Ensured[k] = [chain |-> "KUBE-ROUTER-INPUT", rule |-> Whitelist[j], pos |-> j]
        BY <1>9, <3>1
      <3> HIDE DEF j
      <3>3. ASSUME NEW q \in 1 .. j - 1
            PROVE  \E i \in 1 .. k - 1 : Ensured[i].chain = Ensured[k].chain /\ Ensured[i].pos = q
        <4>1. q \in 1 .. Len(Whitelist) /\ q + 2 \in 1 .. k - 1
          BY <1>2, <3>1
        <4>2. Ensured[q + 2] = [chain |-> "KUBE-ROUTER-INPUT", rule |-> Whitelist[q], pos |-> q]
          BY <1>9, <4>1
        <4>3. Ensured[q + 2].chain = Ensured[k].chain /\ Ensured[q + 2].pos = q
          BY <3>2, <4>2
        <4> QED
          BY <4>1, <4>3
      <3>4. ASSUME NEW i \in 1 .. k - 1, Ensured[i].chain = Ensured[k].chain
            PROVE  Ensured[i].pos < Ensured[k].pos /\ Ensured[i].rule # Ensured[k].rule
        <4>1. i # 1 /\ i # 2
          BY <1>8, <3>2, <3>4
        <4>2. i - 2 \in 1 .. Len(Whitelist) /\ i = (i - 2) + 2 /\ i - 2 < j
          BY <1>2, <3>1, <4>1
        <4>3. Ensured[i].pos = i - 2 /\ Ensured[i].rule = Whitelist[i - 2]
          <5>1. Ensured[(i - 2) + 2] = [chain |-> "KUBE-ROUTER-INPUT", rule |-> Whitelist[i - 2], pos |-> i - 2]
            BY <1>9, <4>2
          <5> QED
            BY <4>2, <5>1
        <4>4. Whitelist[i - 2] # Whitelist[j]
          BY <1>1, <1>2, <3>1, <4>2 DEF IsInjective
        <4> QED
          BY <3>2, <4>2, <4>3, <4>4
      <3>5. Ensured[k].pos = j /\ j \in Nat /\ j >= 1 /\ Ensured[k].chain = "KUBE-ROUTER-INPUT" /\ Ensured[k].rule = Whitelist[j]
        BY <3>1, <3>2
      <3>6. Ensured[k].chain \in Chains /\ Ensured[k].chain # "KUBE-ROUTER-SERVICES"
        BY <3>5 DEF Chains
      <3>7. Ensured[k].rule \in ToSet(Whitelist) \cup {"netpol"} /\ Ensured[k].rule \in Rules
        BY <1>2, <3>1, <3>5
      <3> QED
        BY <3>3, <3>4, <3>5, <3>6, <3>7
    <2> QED
      BY <2>1, <2>2, <2>3, <2>4
  <1> QED
    BY <1>10, <1>11

-----------------------------------------------------------------------------
(* The inductive invariant.                                                *)

\* The controllers start one after the other, and between two syncs the loop over the
\* ensured rules is at its beginning.
OrderInv ==
    /\ npc = "off" <=> nsc # "done"
    /\ npc = "off" => disturbed
    /\ npc \in {"off", "idle", "save", "restore"} => npcIdx = 1

\* In a chain of services no reject precedes the rule that accepts the services.
AcceptFirst(chain) ==
    \A i \in DOMAIN chain : chain[i] = "reject" => \E j \in 1 .. i - 1 : chain[j] = "accept-ipvs"
ServicesInv ==
    /\ AcceptFirst(table["KUBE-ROUTER-SERVICES"])
    /\ nsc \in {"accept-icmp", "reject"} =>
          /\ Len(table["KUBE-ROUTER-SERVICES"]) >= 1
          /\ table["KUBE-ROUTER-SERVICES"][1] = "accept-ipvs"
    /\ npc = "restore" => AcceptFirst(saved["KUBE-ROUTER-SERVICES"])

\* What a sync that nobody disturbs has achieved where it is: the rules before the
\* current one are in place, the number it has read is that of a copy of the rule
\* behind its position, and the number that it will delete is that of the old copy.
Copy(n) == n \in 1 .. Len(table[Goal.chain]) /\ table[Goal.chain][n] = Goal.rule /\ n > Goal.pos
SyncInv ==
    ~disturbed =>
        /\ npc \in {"exists", "insert", "list", "move", "delete"} => \A i \in 1 .. npcIdx - 1 : At(Ensured[i])
        /\ npc = "list" => Contains(table[Goal.chain], Goal.rule)
        /\ npc = "move" => Copy(ruleNo)
        /\ npc = "delete" => At(Goal) /\ Copy(ruleNo + 1)
        /\ npc \in {"save", "restore", "idle"} => InPlace
        /\ npc = "restore" => saved = table

IInv == TypeOK /\ OrderInv /\ ServicesInv /\ SyncInv

-----------------------------------------------------------------------------
(* Every variable has its type.                                            *)

Tables == [Chains -> Seq(Rules)]

\* Facts about the rules and chains that the code names.
LEMMA Constants ==
    /\ Len(ForwardRules) \in Nat /\ Len(ForwardRules) >= 1 /\ DOMAIN ForwardRules = 1 .. Len(ForwardRules)
    /\ \A i \in DOMAIN ForwardRules : ForwardRules[i] \in Rules
    /\ Foreign \subseteq Rules
    /\ ToSet(FirewallRules) = {"accept-ipvs", "accept-icmp", "reject"}
    /\ {"netpol", "ipvs", "pods", "accept", "accept-ipvs", "accept-icmp", "reject"} \subseteq Rules
    /\ {"FORWARD", "INPUT", "KUBE-ROUTER-INPUT", "KUBE-ROUTER-SERVICES"} = Chains /\ Builtin \subseteq Chains
    /\ EmptyTable \in Tables
    /\ MaxChanges \in Nat /\ MaxOverlaps \in Nat /\ MaxFaults \in Nat
    /\ 1 \in DOMAIN Ensured
  <1>1. ForwardRules \in Seq(Rules) /\ ForwardRules # <<>>
    BY FilterAssumption
  <1>2. Len(ForwardRules) \in Nat /\ Len(ForwardRules) >= 1 /\ DOMAIN ForwardRules = 1 .. Len(ForwardRules)
    BY <1>1
  <1>3. ToSet(FirewallRules) = {"accept-ipvs", "accept-icmp", "reject"}
    <2>1. FirewallRules = <<"accept-ipvs", "accept-icmp", "reject">>
      BY DEF FirewallRules
    <2>2. DOMAIN FirewallRules = 1 .. 3 /\ FirewallRules[1] = "accept-ipvs" /\ FirewallRules[2] = "accept-icmp" /\ FirewallRules[3] = "reject"
      BY <2>1
    <2> QED
      BY <2>2 DEF ToSet
  <1>4. EmptyTable \in Tables
    BY DEF EmptyTable, Tables
  <1>5. \A i \in DOMAIN ForwardRules : ForwardRules[i] \in Rules
    BY <1>1, <1>2
  <1>6. 1 \in DOMAIN Ensured
    BY EnsuredFacts
  <1>7. {"netpol", "ipvs", "pods", "accept", "accept-ipvs", "accept-icmp", "reject"} \subseteq Rules /\ Foreign \subseteq Rules
    BY <1>3 DEF Rules
  <1> QED
    BY <1>2, <1>3, <1>4, <1>5, <1>6, <1>7, FilterAssumption DEF Chains, Builtin

\* The other chains stay as they are.
Only(t, u, c, chain) == u[c] = chain /\ \A d \in Chains : d # c => u[d] = t[d]

\* Writing one chain leaves the others alone.
LEMMA Write ==
    ASSUME NEW t \in Tables, NEW c \in Chains, NEW chain \in Seq(Rules), NEW u, u = [t EXCEPT ![c] = chain]
    PROVE  u \in Tables /\ Only(t, u, c, chain)
  BY DEF Tables, Only

\* The table after an insertion.
LEMMA InsertIs ==
    ASSUME table \in Tables, NEW c \in Chains, NEW pos \in 1 .. Len(table[c]) + 1, NEW r \in Rules, Insert(c, pos, r)
    PROVE  /\ InsertAt(table[c], pos, r) \in Seq(Rules) /\ table' \in Tables
           /\ Only(table, table', c, InsertAt(table[c], pos, r))
  <1>1. table[c] \in Seq(Rules)
    BY DEF Tables
  <1>2. InsertAt(table[c], pos, r) \in Seq(Rules)
    BY <1>1, InsertAtFacts
  <1>3. table' = [table EXCEPT ![c] = InsertAt(table[c], pos, r)]
    BY DEF Insert
  <1> QED
    BY <1>2, <1>3, Write

\* The table after a rule was appended unless it is there.
LEMMA AppendIs ==
    ASSUME table \in Tables, NEW c \in Chains, NEW r \in Rules, AppendUnique(c, r)
    PROVE  /\ table' \in Tables
           /\ Only(table, table', c, IF Contains(table[c], r) THEN table[c] ELSE Append(table[c], r))
  <1> DEFINE chain == IF Contains(table[c], r) THEN table[c] ELSE Append(table[c], r)
  <1>1. chain \in Seq(Rules)
    BY DEF Tables
  <1>2. table' = [table EXCEPT ![c] = chain]
    BY DEF AppendUnique
  <1> HIDE DEF chain
  <1>3. table' \in Tables /\ Only(table, table', c, chain)
    BY <1>1, <1>2, Write
  <1> QED
    BY <1>3 DEF chain

\* The table after a deletion by number.
LEMMA RemoveIs ==
    ASSUME table \in Tables, NEW c \in Chains, NEW n \in 1 .. Len(table[c]), table' = [table EXCEPT ![c] = RemoveAt(@, n)]
    PROVE  /\ RemoveAt(table[c], n) \in Seq(Rules) /\ table' \in Tables
           /\ Only(table, table', c, RemoveAt(table[c], n))
  <1>1. table[c] \in Seq(Rules)
    BY DEF Tables
  <1>2. RemoveAt(table[c], n) \in Seq(Rules)
    BY <1>1, RemoveAtFacts
  <1> QED
    BY <1>2, Write

\* What cleanupStaleRules drops.
Dropped == {"pods"} \cup Unkept

\* The rewrite of the saved table: what becomes of each chain.
LEMMA EditedIs ==
    ASSUME NEW t \in Tables
    PROVE  /\ Edited(t) \in Tables
           /\ \A c \in Builtin : Edited(t)[c] = Without(t[c], Dropped)
           /\ Edited(t)["KUBE-ROUTER-INPUT"] =
                 Append(Without(Append(Without(t["KUBE-ROUTER-INPUT"], Dropped), "pods"), {"accept"}), "accept")
           /\ Edited(t)["KUBE-ROUTER-SERVICES"] = t["KUBE-ROUTER-SERVICES"]
  <1> DEFINE K == "KUBE-ROUTER-INPUT"
             a == Without(t["FORWARD"], Dropped)
             b == Without(t["INPUT"], Dropped)
             k == Append(Without(Append(Without(t[K], Dropped), "pods"), {"accept"}), "accept")
  <1>1. /\ \A c \in Chains : t[c] \in Seq(Rules)
        /\ "pods" \in Rules /\ "accept" \in Rules
        /\ K \in Chains /\ "FORWARD" \in Chains /\ "INPUT" \in Chains /\ "KUBE-ROUTER-SERVICES" \in Chains
    BY Constants DEF Tables
  <1>2. a \in Seq(Rules) /\ b \in Seq(Rules) /\ Without(t[K], Dropped) \in Seq(Rules)
    BY <1>1, WithoutType
  <1>3. Append(Without(t[K], Dropped), "pods") \in Seq(Rules)
    BY <1>1, <1>2
  <1>4. Without(Append(Without(t[K], Dropped), "pods"), {"accept"}) \in Seq(Rules)
    BY <1>3, WithoutType
  <1>5. k \in Seq(Rules)
    BY <1>1, <1>4
  <1>6. Edited(t) = [t EXCEPT !["FORWARD"] = a, !["INPUT"] = b, ![K] = k]
    BY DEF Edited, WithAccept, WithoutStale, Dropped
  <1> HIDE DEF a, b, k
  <1>7. Edited(t) \in Tables /\ Edited(t)["FORWARD"] = a /\ Edited(t)["INPUT"] = b /\ Edited(t)[K] = k
        /\ Edited(t)["KUBE-ROUTER-SERVICES"] = t["KUBE-ROUTER-SERVICES"]
    BY <1>1, <1>2, <1>5, <1>6 DEF Tables
  <1> QED
    BY <1>7 DEF Builtin, a, b, k

\* No rule of the controllers is dropped for its text.
LEMMA DroppedRules ==
    /\ "netpol" \notin Dropped
    /\ \A r \in ToSet(Whitelist) : r \notin Dropped
  BY FilterAssumption DEF Dropped

\* --cleanup-config leaves a table.
LEMMA CleanedType ==
    ASSUME NEW t \in Tables
    PROVE  cleanupIpvsFirewall(WithoutPolicies(t)) \in Tables
  <1> DEFINE u == WithoutPolicies(t)
  <1>1. u \in Tables
    <2>1. ASSUME NEW c \in Chains PROVE Without(t[c], {"netpol"}) \in Seq(Rules)
      <3>1. t[c] \in Seq(Rules)
        BY DEF Tables
      <3> QED
        BY <3>1, WithoutType
    <2> QED
      BY <2>1 DEF WithoutPolicies, Tables
  <1> HIDE DEF u
  <1>2. u["INPUT"] \in Seq(Rules) /\ "INPUT" \in Chains /\ "KUBE-ROUTER-SERVICES" \in Chains
    BY <1>1, Constants DEF Tables
  <1>3. RemoveFirst(u["INPUT"], "ipvs") \in Seq(Rules)
    BY <1>2, RemoveFirstType
  <1>4. cleanupIpvsFirewall(u) \in Tables
    <2> DEFINE v == [u EXCEPT !["INPUT"] = RemoveFirst(u["INPUT"], "ipvs")]
               w == [v EXCEPT !["KUBE-ROUTER-SERVICES"] = <<>>]
    <2>1. v \in Tables
      BY <1>1, <1>2, <1>3 DEF Tables
    <2>2. w \in Tables
      <3> HIDE DEF v
      <3> QED
        BY <1>2, <2>1 DEF Tables
    <2>3. cleanupIpvsFirewall(u) = w
      BY DEF cleanupIpvsFirewall
    <2> QED
      BY <2>2, <2>3
  <1> QED
    BY <1>4 DEF u

\* The number in a listing, also of a rule that is not there.
LEMMA NumberIs ==
    ASSUME table \in Tables, NEW c \in Chains, NEW r
    PROVE  /\ NumberOf(c, r) \in Nat
           /\ Contains(table[c], r) => NumberOf(c, r) \in 1 .. Len(table[c]) /\ table[c][NumberOf(c, r)] = r
  <1>1. table[c] \in Seq(Rules)
    BY DEF Tables
  <1>2. NumberOf(c, r) = First(table[c], r)
    BY DEF NumberOf, First, SelectInSeq
  <1>3. CASE Contains(table[c], r)
    BY <1>1, <1>2, <1>3, FirstOf
  <1>4. CASE ~Contains(table[c], r)
    BY <1>2, <1>4 DEF First, SelectInSeq, Contains
  <1> QED
    BY <1>3, <1>4

\* The steps of setupIpvsFirewall.
LEMMA FirewallSteps ==
    ASSUME NscRule
    PROVE  \/ /\ nsc = "accept-ipvs" /\ nsc' = "accept-icmp" /\ Insert("KUBE-ROUTER-SERVICES", 1, nsc)
           \/ /\ nsc = "accept-icmp" /\ nsc' = "reject" /\ AppendUnique("KUBE-ROUTER-SERVICES", nsc)
           \/ /\ nsc = "reject" /\ nsc' = "check" /\ AppendUnique("KUBE-ROUTER-SERVICES", nsc)
  <1>1. /\ FirewallRules \in Seq({"accept-ipvs", "accept-icmp", "reject"}) /\ Len(FirewallRules) = 3
        /\ FirewallRules[1] = "accept-ipvs" /\ FirewallRules[2] = "accept-icmp" /\ FirewallRules[3] = "reject"
    BY DEF FirewallRules
  <1>2. nsc \in ToSet(FirewallRules)
    BY DEF NscRule
  <1>3. Contains(FirewallRules, nsc)
    BY <1>1, <1>2 DEF ToSet, Contains
  <1> DEFINE i == First(FirewallRules, nsc)
  <1>4. i \in 1 .. 3 /\ FirewallRules[i] = nsc
    BY <1>1, <1>3, FirstOf
  <1>5. i = SelectInSeq(FirewallRules, LAMBDA r : r = nsc)
    BY DEF First, SelectInSeq
  <1>6. /\ IF i = 1 THEN Insert("KUBE-ROUTER-SERVICES", 1, nsc) ELSE AppendUnique("KUBE-ROUTER-SERVICES", nsc)
        /\ nsc' = IF i < Len(FirewallRules) THEN FirewallRules[i + 1] ELSE "check"
    BY <1>5 DEF NscRule
  <1> HIDE DEF i
  <1>7. CASE i = 1
    BY <1>1, <1>4, <1>6, <1>7
  <1>8. CASE i = 2
    BY <1>1, <1>4, <1>6, <1>8
  <1>9. CASE i = 3
    BY <1>1, <1>4, <1>6, <1>9
  <1> QED
    BY <1>4, <1>7, <1>8, <1>9

\* Every step keeps the types.
LEMMA TypeStep ==
    ASSUME TypeOK, [Next]_vars
    PROVE  TypeOK'
  <1>1. table \in Tables /\ saved \in Tables
    BY DEF TypeOK, Tables
  <1>2. \A c \in Chains : table[c] \in Seq(Rules) /\ Len(table[c]) \in Nat
    <2> TAKE c \in Chains
    <2>1. table[c] \in Seq(Rules)
      BY <1>1 DEF Tables
    <2> QED
      BY <2>1
  <1>3. SUFFICES /\ table' \in Tables /\ saved' \in Tables
                 /\ nrc' \in {"idle", "check", "insert"} /\ nrcIdx' \in DOMAIN ForwardRules
                 /\ nsc' \in {"off", "clear", "check", "jump", "done"} \cup ToSet(FirewallRules)
                 /\ npc' \in {"off", "idle", "exists", "insert", "list", "move", "delete", "save", "restore"}
                 /\ npcIdx' \in DOMAIN Ensured /\ ruleNo' \in Nat
                 /\ disturbed' \in BOOLEAN
                 /\ changes' \in 0 .. MaxChanges /\ overlaps' \in 0 .. MaxOverlaps /\ faults' \in 0 .. MaxFaults
    BY DEF TypeOK, Tables
  <1>4. \A k \in DOMAIN Ensured : /\ Ensured[k].chain \in Chains /\ Ensured[k].rule \in Rules
                                  /\ Ensured[k].pos \in Nat /\ Ensured[k].pos >= 1
    BY EnsuredFacts
  <1>5. /\ Goal.chain \in Chains /\ Goal.rule \in Rules /\ Goal.pos \in Nat /\ Goal.pos >= 1
    BY <1>4 DEF Goal, TypeOK
  <1> USE Constants, <1>1
  <1> HIDE DEF Goal
  <1>6. CASE UNCHANGED vars
    BY <1>6 DEF TypeOK, vars, nrcVars, npcVars, bounds
  <1>7. CASE Crash
    BY <1>7 DEF TypeOK, Crash, Fault, Restart
  <1>8. CASE CleanupConfig
    <2>1. table' \in Tables
      BY <1>8, CleanedType DEF CleanupConfig
    <2> QED
      BY <1>8, <2>1 DEF TypeOK, CleanupConfig, Fault, Restart
  <1>9. CASE OthersWrite
    <2>1. PICK c \in Builtin :
             \/ \E r \in Foreign : ~Contains(table[c], r) /\ (Insert(c, 1, r) \/ AppendUnique(c, r))
             \/ \E i \in DOMAIN table[c] : table' = [table EXCEPT ![c] = RemoveAt(@, i)]
      BY <1>9 DEF OthersWrite
    <2>2. c \in Chains /\ 1 \in 1 .. Len(table[c]) + 1 /\ DOMAIN table[c] = 1 .. Len(table[c])
      BY <1>2
    <2>3. table' \in Tables
      BY <2>1, <2>2, InsertIs, AppendIs, RemoveIs
    <2> QED
      BY <1>9, <2>3 DEF TypeOK, OthersWrite, nrcVars, npcVars
  <1>10. CASE NrcLoop
    BY <1>10 DEF TypeOK, NrcLoop, npcVars, bounds
  <1>11. CASE NrcExists
    BY <1>11 DEF TypeOK, NrcExists, NrcNext, npcVars, bounds
  <1>12. CASE NrcInsert
    <2>1. table' \in Tables
      <3>1. "FORWARD" \in Chains /\ 1 \in 1 .. Len(table["FORWARD"]) + 1 /\ ForwardRules[nrcIdx] \in Rules
        BY <1>2 DEF TypeOK
      <3>2. Insert("FORWARD", 1, ForwardRules[nrcIdx])
        BY <1>12 DEF NrcInsert
      <3> QED
        BY <3>1, <3>2, InsertIs
    <2> QED
      BY <1>12, <2>1 DEF TypeOK, NrcInsert, NrcNext, npcVars
  <1>13. CASE NrcFails
    BY <1>13 DEF TypeOK, NrcFails, Fault, npcVars
  <1>14. CASE \E ipvsPermitAll \in BOOLEAN : NscClear(ipvsPermitAll)
    <2>1. <<>> \in Seq(Rules) /\ "KUBE-ROUTER-SERVICES" \in Chains
      OBVIOUS
    <2>2. table' = [table EXCEPT !["KUBE-ROUTER-SERVICES"] = <<>>]
      BY <1>14 DEF NscClear
    <2>3. table' \in Tables
      BY <2>1, <2>2, Write
    <2> QED
      BY <1>14, <2>3 DEF TypeOK, NscClear, NscDone, nrcVars, npcVars, bounds
  <1>15. CASE NscRule
    <2>1. "KUBE-ROUTER-SERVICES" \in Chains /\ 1 \in 1 .. Len(table["KUBE-ROUTER-SERVICES"]) + 1 /\ nsc \in Rules
      BY <1>2, <1>15 DEF NscRule
    <2>2. table' \in Tables /\ nsc' \in {"accept-icmp", "reject", "check"}
      BY <1>15, <2>1, FirewallSteps, InsertIs, AppendIs
    <2> QED
      BY <1>15, <2>2 DEF TypeOK, NscRule, nrcVars, npcVars, bounds
  <1>16. CASE NscJumpExists
    BY <1>16 DEF TypeOK, NscJumpExists, NscDone, nrcVars, npcVars, bounds
  <1>17. CASE NscJump
    <2>1. table' \in Tables
      <3>1. "INPUT" \in Chains /\ 1 \in 1 .. Len(table["INPUT"]) + 1 /\ "ipvs" \in Rules
        BY <1>2
      <3> QED
        BY <1>17, <3>1, InsertIs DEF NscJump
    <2> QED
      BY <1>17, <2>1 DEF TypeOK, NscJump, NscDone, nrcVars, bounds
  <1>18. CASE NscFails
    BY <1>18 DEF TypeOK, NscFails, NscDone, Fault, nrcVars
  <1>19. CASE NpcBegin
    BY <1>19 DEF TypeOK, NpcBegin, nrcVars, bounds
  <1>20. ASSUME NpcNext PROVE npc' \in {"exists", "save"} /\ npcIdx' \in DOMAIN Ensured /\ ruleNo' = 0
    BY <1>20, EnsuredFacts DEF NpcNext, TypeOK
  <1>21. CASE NpcExists
    BY <1>21 DEF TypeOK, NpcExists, nrcVars, bounds
  <1>22. ASSUME Goal.pos <= Len(table[Goal.chain]) + 1, Insert(Goal.chain, Goal.pos, Goal.rule) PROVE table' \in Tables
    <2>1. Goal.pos \in 1 .. Len(table[Goal.chain]) + 1
      BY <1>2, <1>5, <1>22
    <2> QED
      BY <1>5, <1>22, <2>1, InsertIs
  <1>23. CASE NpcInsert
    BY <1>20, <1>22, <1>23 DEF TypeOK, NpcInsert, nrcVars, bounds
  <1>24. CASE NpcList
    <2>1. NumberOf(Goal.chain, Goal.rule) \in Nat
      BY <1>5, NumberIs
    <2> QED
      BY <1>20, <1>24, <2>1 DEF TypeOK, NpcList, nrcVars, bounds
  <1>25. CASE NpcMove
    BY <1>22, <1>25 DEF TypeOK, NpcMove, nrcVars, bounds
  <1>26. CASE NpcDelete
    <2>1. ruleNo + 1 \in 1 .. Len(table[Goal.chain])
      BY <1>2, <1>5, <1>26 DEF NpcDelete, DeleteRule, TypeOK
    <2>2. table' \in Tables
      BY <1>5, <1>26, <2>1, RemoveIs DEF NpcDelete, DeleteRule
    <2> QED
      BY <1>20, <1>26, <2>2 DEF TypeOK, NpcDelete, DeleteRule, nrcVars, bounds
  <1>27. CASE NpcFatal
    BY <1>27 DEF TypeOK, NpcFatal, Fault, Restart
  <1>28. CASE NpcSave
    BY <1>28 DEF TypeOK, NpcSave, nrcVars, bounds
  <1>29. CASE NpcRestore
    <2>1. table' \in Tables
      BY <1>29, EditedIs DEF NpcRestore
    <2> QED
      BY <1>29, <2>1 DEF TypeOK, NpcRestore, nrcVars, bounds
  <1>30. CASE NpcAbort
    BY <1>30 DEF TypeOK, NpcAbort, Fault, nrcVars
  <1> QED
    BY <1>6, <1>7, <1>8, <1>9, <1>10, <1>11, <1>12, <1>13, <1>14, <1>15, <1>16, <1>17, <1>18, <1>19,
       <1>21, <1>23, <1>24, <1>25, <1>26, <1>27, <1>28, <1>29, <1>30
       DEF Next, Nsc, NpcSync, Ensure

\* Every variable has its type, whatever the forwarding rules, the exceptions for
\* services and the foreign rules: the positions and numbers that ensureRuleAtPosition
\* computes are numbers, no iptables command leaves anything but a chain.
THEOREM TypeCorrect == Spec => []TypeOK
  <1>1. Init => TypeOK
    <2> SUFFICES ASSUME Init PROVE TypeOK
      OBVIOUS
    <2> USE Constants
    <2>1. table \in Tables
      <3>1. SetToSeq(Foreign) \in Seq(Rules)
        BY ForeignSeq
      <3>2. table = [EmptyTable EXCEPT !["FORWARD"] = SetToSeq(Foreign)]
        BY DEF Init
      <3> QED
        BY <3>1, <3>2, Write
    <2> QED
      BY <2>1 DEF Init, TypeOK, Tables
  <1>2. TypeOK /\ [Next]_vars => TypeOK'
    BY TypeStep
  <1> QED
    BY <1>1, <1>2, PTL DEF Spec

-----------------------------------------------------------------------------
(* The order of the controllers.                                           *)

\* Every step keeps the policy controller behind the set-up of the firewall.
LEMMA OrderStep ==
    ASSUME TypeOK, OrderInv, [Next]_vars
    PROVE  OrderInv'
  <1> USE DEF OrderInv
  <1>1. CASE UNCHANGED vars
    BY <1>1 DEF vars, nrcVars, npcVars, bounds
  <1>2. CASE Crash \/ CleanupConfig \/ NpcFatal
    BY <1>2 DEF Crash, CleanupConfig, NpcFatal, Restart
  <1>3. CASE OthersWrite
    BY <1>3 DEF OthersWrite, npcVars
  <1>4. CASE NrcLoop
    BY <1>4 DEF NrcLoop, npcVars
  <1>5. CASE NrcExists
    BY <1>5 DEF NrcExists, NrcNext, npcVars
  <1>6. CASE NrcInsert
    BY <1>6 DEF NrcInsert, NrcNext, npcVars
  <1>7. CASE NrcFails
    BY <1>7 DEF NrcFails, npcVars
  <1>8. CASE \E ipvsPermitAll \in BOOLEAN : NscClear(ipvsPermitAll)
    BY <1>8 DEF NscClear, NscDone, npcVars
  <1>9. CASE NscRule
    <2>1. nsc \in {"accept-ipvs", "accept-icmp", "reject"} /\ nsc' \in {"accept-icmp", "reject", "check"}
      BY <1>9, FirewallSteps
    <2> QED
      BY <1>9, <2>1 DEF NscRule, npcVars
  <1>10. CASE NscJumpExists
    BY <1>10 DEF NscJumpExists, NscDone, npcVars
  <1>11. CASE NscJump
    BY <1>11 DEF NscJump, NscDone
  <1>12. CASE NscFails
    BY <1>12 DEF NscFails, NscDone
  <1>13. CASE NpcBegin
    BY <1>13 DEF NpcBegin
  <1>14. CASE NpcExists
    BY <1>14 DEF NpcExists
  <1>15. CASE NpcInsert
    BY <1>15 DEF NpcInsert, NpcNext
  <1>16. CASE NpcList
    BY <1>16 DEF NpcList, NpcNext
  <1>17. CASE NpcMove
    BY <1>17 DEF NpcMove
  <1>18. CASE NpcDelete
    BY <1>18 DEF NpcDelete, DeleteRule, NpcNext
  <1>19. CASE NpcSave
    BY <1>19 DEF NpcSave
  <1>20. CASE NpcRestore
    BY <1>20 DEF NpcRestore
  <1>21. CASE NpcAbort
    BY <1>21 DEF NpcAbort
  <1> QED
    BY <1>1, <1>2, <1>3, <1>4, <1>5, <1>6, <1>7, <1>8, <1>9, <1>10, <1>11, <1>12, <1>13, <1>14,
       <1>15, <1>16, <1>17, <1>18, <1>19, <1>20, <1>21
       DEF Next, Nsc, NpcSync, Ensure

-----------------------------------------------------------------------------
(* The chain of services.                                                  *)

\* A chain of services that begins with the accepting rule is in order.
LEMMA HeadAccepts ==
    ASSUME NEW chain \in Seq(Rules), Len(chain) >= 1, chain[1] = "accept-ipvs"
    PROVE  AcceptFirst(chain)
  <1>1. ASSUME NEW i \in DOMAIN chain, chain[i] = "reject" PROVE 1 \in 1 .. i - 1
    <2>1. i \in 1 .. Len(chain) /\ i # 1
      BY <1>1
    <2> QED
      BY <2>1
  <1> QED
    BY <1>1 DEF AcceptFirst

\* A step that leaves the chain of services alone.
LEMMA ServicesFrame ==
    ASSUME TypeOK, OrderInv, ServicesInv, table'["KUBE-ROUTER-SERVICES"] = table["KUBE-ROUTER-SERVICES"],
           nsc' \notin {"accept-icmp", "reject"} \/ nsc' = nsc,
           npc' # "restore" \/ (npc' = npc /\ saved' = saved)
    PROVE  ServicesInv'
  BY DEF ServicesInv

\* Another chain than that of services.
LEMMA OtherChain ==
    ASSUME NEW c \in Chains, c # "KUBE-ROUTER-SERVICES", NEW chain, Only(table, table', c, chain)
    PROVE  table'["KUBE-ROUTER-SERVICES"] = table["KUBE-ROUTER-SERVICES"]
  BY Constants DEF Only

\* Every step keeps the accepting rule before the rejecting one, in the kernel and in
\* the saved table.
LEMMA ServicesStep ==
    ASSUME TypeOK, OrderInv, ServicesInv, [Next]_vars
    PROVE  ServicesInv'
  <1> DEFINE S == "KUBE-ROUTER-SERVICES"
  <1>1. /\ table \in Tables /\ saved \in Tables /\ S \in Chains
    BY Constants DEF TypeOK, Tables
  <1>2. \A c \in Chains : table[c] \in Seq(Rules) /\ Len(table[c]) \in Nat
    <2> TAKE c \in Chains
    <2>1. table[c] \in Seq(Rules)
      BY <1>1 DEF Tables
    <2> QED
      BY <2>1
  <1>3. /\ Goal.chain \in Chains /\ Goal.chain # S /\ Goal.rule \in Rules /\ Goal.pos \in Nat /\ Goal.pos >= 1
    BY EnsuredFacts DEF Goal, TypeOK
  <1>4. AcceptFirst(<<>>)
    BY DEF AcceptFirst
  <1> HIDE DEF Goal
  <1>5. CASE UNCHANGED vars
    BY <1>5, ServicesFrame DEF vars, nrcVars, npcVars, bounds
  <1>6. CASE Crash \/ NpcFatal
    BY <1>6, ServicesFrame DEF Crash, NpcFatal, Restart
  <1>7. CASE CleanupConfig
    <2>1. table'[S] = <<>>
      <3>1. WithoutPolicies(table) \in [Chains -> {WithoutPolicies(table)[c] : c \in Chains}]
        BY DEF WithoutPolicies
      <3> QED
        BY <1>1, <1>7, <3>1 DEF CleanupConfig, cleanupIpvsFirewall
    <2> QED
      BY <1>4, <1>7, <2>1 DEF ServicesInv, CleanupConfig, Restart
  <1>8. CASE OthersWrite
    <2>1. PICK c \in Builtin :
             \/ \E r \in Foreign : ~Contains(table[c], r) /\ (Insert(c, 1, r) \/ AppendUnique(c, r))
             \/ \E i \in DOMAIN table[c] : table' = [table EXCEPT ![c] = RemoveAt(@, i)]
      BY <1>8 DEF OthersWrite
    <2>2. c \in Chains /\ 1 \in 1 .. Len(table[c]) + 1 /\ DOMAIN table[c] = 1 .. Len(table[c]) /\ c # S
      BY <1>2, Constants DEF Builtin
    <2>3. \E chain : Only(table, table', c, chain)
      BY <1>1, <2>1, <2>2, Constants, InsertIs, AppendIs, RemoveIs
    <2>4. table'[S] = table[S]
      BY <2>2, <2>3, OtherChain
    <2> QED
      BY <1>8, <2>4, ServicesFrame DEF OthersWrite, npcVars
  <1>9. CASE NrcLoop
    BY <1>9, ServicesFrame DEF NrcLoop, npcVars
  <1>10. CASE NrcExists
    BY <1>10, ServicesFrame DEF NrcExists, NrcNext, npcVars
  <1>11. CASE NrcInsert
    <2>1. "FORWARD" \in Chains /\ 1 \in 1 .. Len(table["FORWARD"]) + 1 /\ ForwardRules[nrcIdx] \in Rules
      BY <1>2, Constants DEF TypeOK
    <2>2. Insert("FORWARD", 1, ForwardRules[nrcIdx])
      BY <1>11 DEF NrcInsert
    <2>3. table'[S] = table[S]
      BY <1>1, <2>1, <2>2, InsertIs, OtherChain
    <2> QED
      BY <1>11, <2>3, ServicesFrame DEF NrcInsert, NrcNext, npcVars
  <1>12. CASE NrcFails
    BY <1>12, ServicesFrame DEF NrcFails, npcVars
  <1>13. CASE \E ipvsPermitAll \in BOOLEAN : NscClear(ipvsPermitAll)
    <2>1. table'[S] = <<>>
      BY <1>1, <1>13 DEF NscClear, Tables
    <2>2. nsc' \in {"accept-ipvs", "done"} /\ npc' # "restore"
      BY <1>13 DEF NscClear, NscDone, npcVars, OrderInv
    <2> QED
      BY <1>4, <2>1, <2>2 DEF ServicesInv
  <1>14. CASE NscRule
    <2>1. nsc \in Rules /\ 1 \in 1 .. Len(table[S]) + 1 /\ npc' # "restore"
      BY <1>1, <1>2, <1>14, Constants DEF NscRule, npcVars, OrderInv
    <2>2. CASE nsc = "accept-ipvs" /\ nsc' = "accept-icmp" /\ Insert(S, 1, nsc)
      <3>1. table' \in Tables /\ table'[S] = InsertAt(table[S], 1, nsc)
        BY <1>1, <2>1, <2>2, InsertIs DEF Only
      <3>2. table'[S] \in Seq(Rules) /\ Len(table'[S]) >= 1 /\ table'[S][1] = "accept-ipvs"
        BY <1>1, <1>2, <2>1, <2>2, <3>1, InsertAtFacts
      <3> QED
        BY <2>1, <2>2, <3>2, HeadAccepts DEF ServicesInv
    <2>3. CASE nsc \in {"accept-icmp", "reject"} /\ AppendUnique(S, nsc)
      <3>1. Len(table[S]) >= 1 /\ table[S][1] = "accept-ipvs"
        BY <2>3 DEF ServicesInv
      <3>2. table'[S] = IF Contains(table[S], nsc) THEN table[S] ELSE Append(table[S], nsc)
        BY <1>1, <2>1, <2>3, AppendIs DEF Only
      <3>3. table'[S] \in Seq(Rules) /\ Len(table'[S]) >= 1 /\ table'[S][1] = "accept-ipvs"
        BY <1>1, <1>2, <2>1, <3>1, <3>2
      <3> QED
        BY <2>1, <3>3, HeadAccepts DEF ServicesInv
    <2> QED
      BY <1>14, <2>2, <2>3, FirewallSteps
  <1>15. CASE NscJumpExists
    BY <1>15, ServicesFrame DEF NscJumpExists, NscDone, npcVars
  <1>16. CASE NscJump
    <2>1. "INPUT" \in Chains /\ 1 \in 1 .. Len(table["INPUT"]) + 1 /\ "ipvs" \in Rules
      BY <1>2, Constants
    <2>2. table'[S] = table[S]
      BY <1>1, <1>16, <2>1, InsertIs, OtherChain DEF NscJump
    <2> QED
      BY <1>16, <2>2, ServicesFrame DEF NscJump, NscDone
  <1>17. CASE NscFails
    BY <1>17, ServicesFrame DEF NscFails, NscDone
  <1>18. CASE NpcBegin
    BY <1>18, ServicesFrame DEF NpcBegin
  <1>19. CASE NpcExists
    BY <1>19, ServicesFrame DEF NpcExists
  <1>20. ASSUME Goal.pos <= Len(table[Goal.chain]) + 1, Insert(Goal.chain, Goal.pos, Goal.rule)
         PROVE  table'[S] = table[S]
    <2>1. Goal.pos \in 1 .. Len(table[Goal.chain]) + 1
      BY <1>2, <1>3, <1>20
    <2> QED
      BY <1>1, <1>3, <1>20, <2>1, InsertIs, OtherChain
  <1>21. CASE NpcInsert
    BY <1>20, <1>21, ServicesFrame DEF NpcInsert, NpcNext
  <1>22. CASE NpcList
    BY <1>22, ServicesFrame DEF NpcList, NpcNext
  <1>23. CASE NpcMove
    BY <1>20, <1>23, ServicesFrame DEF NpcMove
  <1>24. CASE NpcDelete
    <2>1. ruleNo + 1 \in 1 .. Len(table[Goal.chain])
      BY <1>2, <1>3, <1>24 DEF NpcDelete, DeleteRule, TypeOK
    <2>2. table'[S] = table[S]
      BY <1>1, <1>3, <1>24, <2>1, RemoveIs, OtherChain DEF NpcDelete, DeleteRule
    <2> QED
      BY <1>24, <2>2, ServicesFrame DEF NpcDelete, DeleteRule, NpcNext
  <1>25. CASE NpcSave
    BY <1>25 DEF ServicesInv, NpcSave
  <1>26. CASE NpcRestore
    <2>1. table'[S] = saved[S]
      BY <1>1, <1>26, EditedIs DEF NpcRestore
    <2>2. nsc' = "done" /\ npc' = "idle"
      BY <1>26 DEF NpcRestore, OrderInv
    <2> QED
      BY <1>26, <2>1, <2>2 DEF ServicesInv, NpcRestore
  <1>27. CASE NpcAbort
    BY <1>27, ServicesFrame DEF NpcAbort
  <1> QED
    BY <1>5, <1>6, <1>7, <1>8, <1>9, <1>10, <1>11, <1>12, <1>13, <1>14, <1>15, <1>16, <1>17, <1>18,
       <1>19, <1>21, <1>22, <1>23, <1>24, <1>25, <1>26, <1>27
       DEF Next, Nsc, NpcSync, Ensure

-----------------------------------------------------------------------------
(* The positions of the ensured rules.                                     *)

\* A rule at its position in a table.
Placed(t, e) == Len(t[e.chain]) >= e.pos /\ t[e.chain][e.pos] = e.rule

\* A rule that was ensured before the current one is in front of the position where
\* the current one is inserted, and stays there.
LEMMA InsertKeeps ==
    ASSUME NEW k \in DOMAIN Ensured, table \in Tables, NEW e, e = Ensured[k],
           e.pos <= Len(table[e.chain]) + 1, Insert(e.chain, e.pos, e.rule),
           \A i \in 1 .. k - 1 : Placed(table, Ensured[i])
    PROVE  /\ \A i \in 1 .. k : Placed(table', Ensured[i])
           /\ table'[e.chain] \in Seq(Rules)
           /\ Len(table'[e.chain]) = Len(table[e.chain]) + 1
           /\ \A n \in 1 .. Len(table[e.chain]) : n >= e.pos => table'[e.chain][n + 1] = table[e.chain][n]
  <1>1. /\ k \in Nat /\ k >= 1 /\ e.chain \in Chains /\ e.rule \in Rules /\ e.pos \in Nat /\ e.pos >= 1
        /\ DOMAIN Ensured = 1 .. Len(Ensured) /\ Len(Ensured) \in Nat
    BY EnsuredFacts
  <1> DEFINE s == table[e.chain]  t == table'[e.chain]
  <1>2. s \in Seq(Rules) /\ Len(s) \in Nat /\ e.pos \in 1 .. Len(s) + 1
    <2>1. s \in Seq(Rules)
      BY <1>1 DEF Tables
    <2> QED
      BY <1>1, <2>1
  <1>3. Only(table, table', e.chain, InsertAt(s, e.pos, e.rule)) /\ t = InsertAt(s, e.pos, e.rule)
    BY <1>1, <1>2, InsertIs DEF Only
  <1> HIDE DEF s, t
  <1>4. /\ t \in Seq(Rules) /\ Len(t) = Len(s) + 1 /\ t[e.pos] = e.rule
        /\ \A i \in 1 .. e.pos - 1 : t[i] = s[i]
        /\ \A i \in e.pos + 1 .. Len(s) + 1 : t[i] = s[i - 1]
    <2>1. ASSUME NEW x \in Rules, NEW q \in 1 .. Len(s) + 1
          PROVE  /\ InsertAt(s, q, x) \in Seq(Rules) /\ Len(InsertAt(s, q, x)) = Len(s) + 1
                 /\ InsertAt(s, q, x)[q] = x
                 /\ \A i \in 1 .. q - 1 : InsertAt(s, q, x)[i] = s[i]
                 /\ \A i \in q + 1 .. Len(s) + 1 : InsertAt(s, q, x)[i] = s[i - 1]
      <3>1. s \in Seq(Rules)
        BY <1>2
      <3>2. x \in Rules /\ q \in 1 .. Len(s) + 1
        OBVIOUS
      <3> QED
        BY ONLY <3>1, <3>2, InsertAtFacts
    <2>2. e.rule \in Rules /\ e.pos \in 1 .. Len(s) + 1
      BY <1>1, <1>2
    <2>3. /\ InsertAt(s, e.pos, e.rule) \in Seq(Rules) /\ Len(InsertAt(s, e.pos, e.rule)) = Len(s) + 1
          /\ InsertAt(s, e.pos, e.rule)[e.pos] = e.rule
          /\ \A i \in 1 .. e.pos - 1 : InsertAt(s, e.pos, e.rule)[i] = s[i]
          /\ \A i \in e.pos + 1 .. Len(s) + 1 : InsertAt(s, e.pos, e.rule)[i] = s[i - 1]
      BY ONLY <2>1, <2>2
    <2>4. t = InsertAt(s, e.pos, e.rule)
      BY <1>3
    <2> QED
      BY ONLY <2>3, <2>4
  <1>5. ASSUME NEW i \in 1 .. k PROVE Placed(table', Ensured[i])
    <2>1. CASE i = k
      BY <1>1, <1>2, <1>4, <2>1 DEF Placed, t
    <2>2. CASE i # k
      <3>1. i \in 1 .. k - 1 /\ i \in DOMAIN Ensured
        BY <1>1, <2>2
      <3>2. Placed(table, Ensured[i]) /\ Ensured[i].chain \in Chains /\ Ensured[i].pos \in Nat /\ Ensured[i].pos >= 1
        BY <3>1, EnsuredFacts
      <3>3. CASE Ensured[i].chain = e.chain
        <4>1. Ensured[i].pos < e.pos
          BY <3>1, <3>3, EnsuredFacts
        <4>2. Ensured[i].pos \in 1 .. e.pos - 1
          BY <1>1, <3>2, <4>1
        <4>3. Len(s) >= Ensured[i].pos /\ s[Ensured[i].pos] = Ensured[i].rule
          BY <3>2, <3>3 DEF Placed, s
        <4>4. Len(t) >= Ensured[i].pos /\ t[Ensured[i].pos] = Ensured[i].rule
          BY <1>2, <1>4, <3>2, <4>2, <4>3
        <4> QED
          BY <3>3, <4>4 DEF Placed, t
      <3>4. CASE Ensured[i].chain # e.chain
        BY <1>3, <3>2, <3>4 DEF Only, Placed
      <3> QED
        BY <3>3, <3>4
    <2> QED
      BY <2>1, <2>2
  <1>6. ASSUME NEW n \in 1 .. Len(s), n >= e.pos PROVE t[n + 1] = s[n]
    <2>1. n + 1 \in e.pos + 1 .. Len(s) + 1 /\ (n + 1) - 1 = n
      BY <1>1, <1>2, <1>6
    <2> QED
      BY <1>4, <2>1
  <1> QED
    BY <1>4, <1>5, <1>6 DEF s, t

\* A deletion behind the current position moves none of the ensured rules so far.
LEMMA RemoveKeeps ==
    ASSUME NEW k \in DOMAIN Ensured, table \in Tables, NEW e, e = Ensured[k],
           NEW n \in 1 .. Len(table[e.chain]), n > e.pos, table' = [table EXCEPT ![e.chain] = RemoveAt(@, n)],
           \A i \in 1 .. k : Placed(table, Ensured[i])
    PROVE  \A i \in 1 .. k : Placed(table', Ensured[i])
  <1>1. /\ k \in Nat /\ k >= 1 /\ e.chain \in Chains /\ e.pos \in Nat
        /\ DOMAIN Ensured = 1 .. Len(Ensured) /\ Len(Ensured) \in Nat
    BY EnsuredFacts
  <1> DEFINE s == table[e.chain]  t == table'[e.chain]
  <1>2. s \in Seq(Rules) /\ Len(s) \in Nat
    <2>1. s \in Seq(Rules)
      BY <1>1 DEF Tables
    <2> QED
      BY <2>1
  <1>3. Only(table, table', e.chain, RemoveAt(s, n)) /\ t = RemoveAt(s, n)
    BY <1>1, RemoveIs DEF Only
  <1>4. n \in 1 .. Len(s)
    OBVIOUS
  <1> HIDE DEF s, t
  <1>5. t \in Seq(Rules) /\ Len(t) = Len(s) - 1 /\ \A i \in 1 .. n - 1 : t[i] = s[i]
    BY <1>2, <1>3, <1>4, RemoveAtFacts
  <1> TAKE i \in 1 .. k
  <1>6. i \in DOMAIN Ensured /\ (i = k \/ i \in 1 .. k - 1)
    BY <1>1
  <1>7. Placed(table, Ensured[i]) /\ Ensured[i].chain \in Chains /\ Ensured[i].pos \in Nat /\ Ensured[i].pos >= 1
    BY <1>6, EnsuredFacts
  <1>8. CASE Ensured[i].chain = e.chain
    <2>1. Ensured[i].pos <= e.pos
      BY <1>1, <1>6, <1>7, <1>8, EnsuredFacts
    <2>2. Ensured[i].pos \in 1 .. n - 1
      BY <1>1, <1>4, <1>7, <2>1
    <2>3. s[Ensured[i].pos] = Ensured[i].rule
      BY <1>7, <1>8 DEF Placed, s
    <2>4. Len(t) >= Ensured[i].pos /\ t[Ensured[i].pos] = Ensured[i].rule
      BY <1>2, <1>4, <1>5, <2>2, <2>3
    <2> QED
      BY <1>8, <2>4 DEF Placed, t
  <1>9. CASE Ensured[i].chain # e.chain
    BY <1>3, <1>7, <1>9 DEF Only, Placed
  <1> QED
    BY <1>8, <1>9

\* The rewrite of the table: the exceptions precede the jumps to the pods' chains and
\* the final accept, which come and go behind them.
LEMMA EditedKeeps ==
    ASSUME NEW t \in Tables, \A i \in DOMAIN Ensured : Placed(t, Ensured[i])
    PROVE  \A i \in DOMAIN Ensured : Placed(Edited(t), Ensured[i])
  <1> DEFINE K == "KUBE-ROUTER-INPUT"
             c == t[K]
             m == Len(Whitelist)
             b == Without(c, Dropped)
             d == Append(b, "pods")
             f == Without(d, {"accept"})
             g == Append(f, "accept")
  <1>1. /\ c \in Seq(Rules) /\ "pods" \in Rules /\ "accept" \in Rules /\ K \in Chains
    BY Constants DEF Tables
  <1>2. Whitelist \in Seq(Rules) /\ ToSet(Whitelist) \cap {"pods", "accept"} = {} /\ m \in Nat
        /\ DOMAIN Whitelist = 1 .. m /\ \A j \in 1 .. m : Whitelist[j] \in ToSet(Whitelist)
    <2>1. Whitelist \in Seq(Rules) /\ ToSet(Whitelist) \cap {"pods", "accept"} = {}
      BY FilterAssumption
    <2> QED
      BY <2>1 DEF ToSet
  <1>3. \A j \in 1 .. m : Whitelist[j] \notin Dropped /\ Whitelist[j] \notin {"accept"}
    BY <1>2, DroppedRules
  <1>4. \A i \in DOMAIN Ensured : Ensured[i].chain = K => Ensured[i].pos \in 1 .. m /\ Ensured[i].rule = Whitelist[Ensured[i].pos]
    <2> SUFFICES ASSUME NEW i \in DOMAIN Ensured, Ensured[i].chain = K
                 PROVE  Ensured[i].pos \in 1 .. m /\ Ensured[i].rule = Whitelist[Ensured[i].pos]
      OBVIOUS
    <2>1. i # 1 /\ i # 2
      BY EnsuredRules
    <2>2. i - 2 \in 1 .. m /\ (i - 2) + 2 = i
      BY <1>2, <2>1, EnsuredRules
    <2>3. Ensured[(i - 2) + 2] = [chain |-> K, rule |-> Whitelist[i - 2], pos |-> i - 2]
      BY <2>2, EnsuredRules
    <2> QED
      BY <2>2, <2>3
  <1>5. m <= Len(c) /\ \A j \in 1 .. m : c[j] = Whitelist[j]
    <2>1. ASSUME NEW j \in 1 .. m PROVE j <= Len(c) /\ c[j] = Whitelist[j]
      <3>1. PICK i \in DOMAIN Ensured : Ensured[i] = [chain |-> K, rule |-> Whitelist[j], pos |-> j]
        BY EnsuredRules
      <3> QED
        BY <3>1 DEF Placed
    <2>2. m = 0 \/ m \in 1 .. m
      BY <1>2
    <2>3. Len(c) \in Nat
      BY <1>1
    <2> QED
      BY <2>1, <2>2, <2>3
  <1> HIDE DEF m, c
  <1>6. Len(c) \in Nat /\ m \in 0 .. Len(c)
    BY <1>1, <1>2, <1>5
  <1>7. b \in Seq(Rules) /\ Len(b) >= m /\ \A j \in 1 .. m : b[j] = Whitelist[j]
    <2>1. \A j \in 1 .. m : c[j] \notin Dropped
      BY <1>3, <1>5
    <2>2. Len(b) >= m /\ \A j \in 1 .. m : b[j] = c[j]
      BY <1>1, <1>6, <2>1, WithoutPrefix
    <2> QED
      BY <1>1, <1>5, <2>2, WithoutType
  <1> HIDE DEF b
  <1>8. d \in Seq(Rules) /\ Len(d) \in Nat /\ m \in 0 .. Len(d) /\ \A j \in 1 .. m : d[j] = Whitelist[j]
    BY <1>1, <1>2, <1>7
  <1> HIDE DEF d
  <1>9. f \in Seq(Rules) /\ Len(f) >= m /\ \A j \in 1 .. m : f[j] = Whitelist[j]
    <2>1. \A j \in 1 .. m : d[j] \notin {"accept"}
      BY <1>3, <1>8
    <2>2. Len(f) >= m /\ \A j \in 1 .. m : f[j] = d[j]
      BY <1>8, <2>1, WithoutPrefix
    <2> QED
      BY <1>8, <2>2, WithoutType
  <1> HIDE DEF f
  <1>10. g \in Seq(Rules) /\ Len(g) \in Nat /\ Len(g) >= m /\ \A j \in 1 .. m : g[j] = Whitelist[j]
    BY <1>1, <1>2, <1>9
  <1>11. Edited(t)[K] = g
    BY EditedIs DEF b, c, d, f
  <1> HIDE DEF g
  <1> TAKE i \in DOMAIN Ensured
  <1>12. Ensured[i].chain = K \/ (Ensured[i].chain \in Builtin /\ Ensured[i].pos = 1 /\ Ensured[i].rule = "netpol")
    <2>1. i = 1 \/ i = 2 \/ i - 2 \in 1 .. m
      BY <1>2, EnsuredRules DEF m
    <2>2. CASE i - 2 \in 1 .. m
      <3>1. Ensured[(i - 2) + 2] = [chain |-> K, rule |-> Whitelist[i - 2], pos |-> i - 2]
        BY <2>2, EnsuredRules DEF m
      <3>2. (i - 2) + 2 = i
        BY EnsuredRules
      <3> QED
        BY <3>1, <3>2
    <2> QED
      BY <2>1, <2>2, EnsuredRules DEF Builtin
  <1>14. CASE Ensured[i].chain = K
    BY <1>2, <1>4, <1>10, <1>11, <1>14 DEF Placed
  <1>15. CASE Ensured[i].chain \in Builtin /\ Ensured[i].pos = 1 /\ Ensured[i].rule = "netpol"
    <2> DEFINE s == t[Ensured[i].chain]
    <2>1. s \in Seq(Rules) /\ Len(s) \in Nat
      <3>1. s \in Seq(Rules)
        BY <1>15 DEF Tables, Chains
      <3> QED
        BY <3>1
    <2>2. Len(s) >= 1 /\ s[1] = "netpol"
      BY <1>15 DEF Placed
    <2>3. Edited(t)[Ensured[i].chain] = Without(s, Dropped)
      BY <1>15, EditedIs
    <2> HIDE DEF s
    <2>4. 1 \in 0 .. Len(s) /\ 1 \in 1 .. 1 /\ \A j \in 1 .. 1 : s[j] \notin Dropped
      BY <2>1, <2>2, DroppedRules
    <2>5. Len(Without(s, Dropped)) >= 1 /\ \A j \in 1 .. 1 : Without(s, Dropped)[j] = s[j]
      BY <2>1, <2>4, WithoutPrefix
    <2> QED
      BY <1>15, <2>2, <2>3, <2>4, <2>5 DEF Placed
  <1> QED
    BY <1>12, <1>14, <1>15

\* The loop goes on once the current rule is in place.
LEMMA NextEnsured ==
    ASSUME TypeOK, NpcNext, \A i \in 1 .. npcIdx : Placed(table', Ensured[i])
    PROVE  SyncInv'
  <1>1. npcIdx \in 1 .. Len(Ensured) /\ Len(Ensured) \in Nat /\ DOMAIN Ensured = 1 .. Len(Ensured)
    BY EnsuredFacts DEF TypeOK
  <1>2. CASE npcIdx < Len(Ensured)
    <2>1. npc' = "exists" /\ npcIdx' - 1 = npcIdx
      BY <1>1, <1>2 DEF NpcNext
    <2> QED
      BY <2>1 DEF SyncInv, At, Placed
  <1>3. CASE npcIdx = Len(Ensured)
    <2>1. npc' = "save"
      BY <1>1, <1>3 DEF NpcNext
    <2> QED
      BY <1>1, <1>3, <2>1 DEF SyncInv, InPlace, At, Placed
  <1>4. npcIdx < Len(Ensured) \/ npcIdx = Len(Ensured)
    <2>1. npcIdx \in 1 .. Len(Ensured) /\ Len(Ensured) \in Nat
      BY <1>1
    <2> QED
      BY ONLY <2>1
  <1> QED
    BY <1>2, <1>3, <1>4

\* Every step keeps what the sync under way has achieved.
LEMMA SyncStep ==
    ASSUME TypeOK, OrderInv, SyncInv, [Next]_vars
    PROVE  SyncInv'
  <1>1. table \in Tables /\ saved \in Tables
    BY DEF TypeOK, Tables
  <1>2. /\ npcIdx \in DOMAIN Ensured /\ npcIdx \in 1 .. Len(Ensured) /\ Len(Ensured) \in Nat
        /\ ruleNo \in Nat /\ Goal = Ensured[npcIdx]
    BY EnsuredFacts DEF TypeOK, Goal
  <1>3. /\ Goal.chain \in Chains /\ Goal.rule \in Rules /\ Goal.pos \in Nat /\ Goal.pos >= 1
    BY <1>2, EnsuredFacts
  <1>4. table[Goal.chain] \in Seq(Rules) /\ Len(table[Goal.chain]) \in Nat
    <2>1. table[Goal.chain] \in Seq(Rules)
      BY <1>1, <1>3 DEF Tables
    <2> QED
      BY <2>1
  <1>5. \A i \in DOMAIN Ensured : At(Ensured[i]) <=> Placed(table, Ensured[i])
    BY DEF At, Placed
  <1>6. ASSUME ~disturbed, npc \in {"exists", "insert", "list", "move", "delete"}
        PROVE  \A i \in 1 .. npcIdx - 1 : Placed(table, Ensured[i])
    BY <1>6 DEF SyncInv, At, Placed
  <1>7. ASSUME npcIdx' = npcIdx PROVE Goal' = Goal
    BY <1>7 DEF Goal
  \* Nothing that the invariant speaks about changes, or somebody else writes.
  <1>8. ASSUME UNCHANGED <<table, npcVars, disturbed>> PROVE SyncInv'
    BY <1>8 DEF SyncInv, Goal, Copy, At, InPlace, npcVars
  <1>9. ASSUME disturbed' PROVE SyncInv'
    BY <1>9 DEF SyncInv
  <1>10. CASE UNCHANGED vars
    BY <1>8, <1>10 DEF vars
  <1>11. CASE Crash \/ CleanupConfig \/ NpcFatal
    BY <1>9, <1>11 DEF Crash, CleanupConfig, NpcFatal, Restart
  <1>12. CASE OthersWrite \/ NrcInsert
    BY <1>9, <1>12 DEF OthersWrite, NrcInsert
  <1>13. CASE NrcLoop \/ NrcExists \/ NrcFails
    BY <1>8, <1>13 DEF NrcLoop, NrcExists, NrcFails
  <1>14. CASE Nsc
    <2>1. nsc # "done" /\ disturbed' = disturbed
      BY <1>14, Constants DEF Nsc, NscClear, NscRule, NscJumpExists, NscJump
    <2> QED
      BY <1>9, <2>1 DEF OrderInv
  <1>15. CASE NscFails
    BY <1>9, <1>15 DEF NscFails, OrderInv
  <1>16. CASE NpcBegin
    <2>1. npc' = "exists" /\ npcIdx' = 1
      BY <1>16 DEF NpcBegin, OrderInv
    <2> QED
      BY <2>1 DEF SyncInv
  <1>17. CASE NpcExists
    <2> USE <1>17 DEF NpcExists
    <2>1. table' = table /\ disturbed' = disturbed /\ npcIdx' = npcIdx /\ Goal' = Goal
          /\ npc' \in {"list", "insert"} /\ (npc' = "list" => Contains(table[Goal.chain], Goal.rule))
      BY <1>7
    <2>2. ~disturbed => \A i \in 1 .. npcIdx - 1 : At(Ensured[i])'
      BY <2>1 DEF SyncInv, At
    <2> QED
      BY <2>1, <2>2 DEF SyncInv
  <1>18. CASE NpcInsert
    <2> SUFFICES ASSUME ~disturbed PROVE SyncInv'
      BY <1>9, <1>18 DEF NpcInsert
    <2>1. \A i \in 1 .. npcIdx : Placed(table', Ensured[i])
      BY <1>1, <1>2, <1>6, <1>18, InsertKeeps DEF NpcInsert
    <2> QED
      BY <1>18, <2>1, NextEnsured DEF NpcInsert
  <1>19. CASE NpcList
    <2> SUFFICES ASSUME ~disturbed PROVE SyncInv'
      BY <1>9, <1>19 DEF NpcList
    <2> DEFINE n == NumberOf(Goal.chain, Goal.rule)
    <2>1. n \in 1 .. Len(table[Goal.chain]) /\ table[Goal.chain][n] = Goal.rule
      BY <1>1, <1>3, <1>19, NumberIs DEF NpcList, SyncInv
    <2>2. IF n = Goal.pos THEN NpcNext ELSE ruleNo' = n /\ npc' = "move" /\ npcIdx' = npcIdx
      BY <1>19 DEF NpcList
    <2>3. table' = table
      BY <1>19 DEF NpcList
    <2>4. npc = "list"
      BY <1>19 DEF NpcList
    <2> HIDE DEF n
    <2>5. CASE n = Goal.pos
      <3>1. Placed(table, Ensured[npcIdx])
        BY <1>2, <1>3, <1>4, <2>1, <2>5 DEF Placed
      <3>2. \A i \in 1 .. npcIdx : i = npcIdx \/ i \in 1 .. npcIdx - 1
        BY <1>2
      <3>3. \A i \in 1 .. npcIdx : Placed(table', Ensured[i])
        BY <1>6, <2>3, <2>4, <3>1, <3>2
      <3> QED
        BY <2>2, <2>5, <3>3, NextEnsured
    <2>6. CASE n # Goal.pos
      <3>1. ~(n < Goal.pos)
        <4> SUFFICES ASSUME n < Goal.pos PROVE FALSE
          OBVIOUS
        <4>1. n \in 1 .. Ensured[npcIdx].pos - 1
          BY <1>2, <1>3, <2>1
        <4>2. PICK i \in 1 .. npcIdx - 1 : Ensured[i].chain = Goal.chain /\ Ensured[i].pos = n
          BY <1>2, <4>1, EnsuredFacts
        <4>3. Ensured[i].rule # Goal.rule
          BY <1>2, <4>2, EnsuredFacts
        <4>4. Placed(table, Ensured[i])
          BY <1>6, <2>4
        <4> QED
          BY <2>1, <4>2, <4>3, <4>4 DEF Placed
      <3>2. n > Goal.pos
        BY <1>3, <2>1, <2>6, <3>1
      <3>3. ruleNo' = n /\ npc' = "move" /\ npcIdx' = npcIdx /\ Goal' = Goal
        BY <1>7, <2>2, <2>6
      <3>4. Copy(ruleNo)'
        BY <2>1, <2>3, <3>2, <3>3 DEF Copy
      <3>5. \A i \in 1 .. npcIdx - 1 : At(Ensured[i])'
        BY <1>6, <2>3, <2>4 DEF Placed, At
      <3> QED
        BY <3>3, <3>4, <3>5 DEF SyncInv
    <2> QED
      BY <2>5, <2>6
  <1>20. CASE NpcMove
    <2> SUFFICES ASSUME ~disturbed PROVE SyncInv'
      BY <1>9, <1>20 DEF NpcMove
    <2>1. npc = "move" /\ npc' = "delete" /\ npcIdx' = npcIdx /\ ruleNo' = ruleNo /\ Goal' = Goal
      BY <1>7, <1>20 DEF NpcMove
    <2>2. Copy(ruleNo)
      BY <2>1 DEF SyncInv
    <2>3. /\ \A i \in 1 .. npcIdx : Placed(table', Ensured[i])
          /\ Len(table'[Goal.chain]) = Len(table[Goal.chain]) + 1
          /\ \A n \in 1 .. Len(table[Goal.chain]) : n >= Goal.pos => table'[Goal.chain][n + 1] = table[Goal.chain][n]
      BY <1>1, <1>2, <1>6, <1>20, InsertKeeps DEF NpcMove
    <2>4. table'[Goal.chain][ruleNo + 1] = Goal.rule
      BY <1>2, <1>3, <1>4, <2>2, <2>3, SMTT(30) DEF Copy
    <2>5. ruleNo + 1 \in 1 .. Len(table'[Goal.chain]) /\ ruleNo + 1 > Goal.pos
      BY <1>2, <1>3, <1>4, <2>2, <2>3 DEF Copy
    <2>6. Copy(ruleNo + 1)'
      BY <2>1, <2>4, <2>5 DEF Copy
    <2>7. npcIdx \in 1 .. npcIdx /\ \A i \in 1 .. npcIdx - 1 : i \in 1 .. npcIdx
      BY <1>2
    <2>8. At(Goal)' /\ \A i \in 1 .. npcIdx' - 1 : At(Ensured[i])'
      BY <1>2, <2>1, <2>3, <2>7 DEF At, Placed
    <2> QED
      BY <2>1, <2>6, <2>8 DEF SyncInv
  <1>21. CASE NpcDelete
    <2> SUFFICES ASSUME ~disturbed PROVE SyncInv'
      BY <1>9, <1>21 DEF NpcDelete, DeleteRule
    <2>1. npc = "delete" /\ NpcNext /\ table' = [table EXCEPT ![Goal.chain] = RemoveAt(@, ruleNo + 1)]
      BY <1>21 DEF NpcDelete, DeleteRule
    <2>2. At(Goal) /\ Copy(ruleNo + 1)
      BY <2>1 DEF SyncInv
    <2>3. \A i \in 1 .. npcIdx : i = npcIdx \/ i \in 1 .. npcIdx - 1
      BY <1>2
    <2>4. \A i \in 1 .. npcIdx : Placed(table, Ensured[i])
      BY <1>2, <1>5, <1>6, <2>1, <2>2, <2>3
    <2>5. ruleNo + 1 \in 1 .. Len(table[Goal.chain]) /\ ruleNo + 1 > Goal.pos
      BY <2>2 DEF Copy
    <2>6. \A i \in 1 .. npcIdx : Placed(table', Ensured[i])
      BY <1>1, <1>2, <2>1, <2>4, <2>5, RemoveKeeps
    <2> QED
      BY <2>1, <2>6, NextEnsured
  <1>22. CASE NpcSave
    BY <1>22 DEF NpcSave, SyncInv, InPlace, At
  <1>23. CASE NpcRestore
    <2> SUFFICES ASSUME ~disturbed PROVE SyncInv'
      BY <1>9, <1>23 DEF NpcRestore
    <2>1. npc' = "idle" /\ table' = Edited(table)
      BY <1>23 DEF NpcRestore, SyncInv
    <2>2. \A i \in DOMAIN Ensured : Placed(table, Ensured[i])
      BY <1>5, <1>23 DEF NpcRestore, SyncInv, InPlace
    <2>3. \A i \in DOMAIN Ensured : Placed(table', Ensured[i])
      BY <1>1, <2>1, <2>2, EditedKeeps
    <2>4. InPlace'
      BY <2>3 DEF InPlace, At, Placed
    <2> QED
      BY <2>1, <2>4 DEF SyncInv
  <1>24. CASE NpcAbort
    BY <1>24 DEF NpcAbort, SyncInv, InPlace, At
  <1> QED
    BY <1>10, <1>11, <1>12, <1>13, <1>14, <1>15, <1>16, <1>17, <1>18, <1>19, <1>20, <1>21, <1>22, <1>23, <1>24
       DEF Next, NpcSync, Ensure

-----------------------------------------------------------------------------
(* The theorems.                                                           *)

\* The invariant holds in every reachable state.
LEMMA Invariance == Spec => []IInv
  <1>1. Init => OrderInv /\ ServicesInv /\ SyncInv
    <2> SUFFICES ASSUME Init PROVE OrderInv /\ ServicesInv /\ SyncInv
      OBVIOUS
    <2>1. table["KUBE-ROUTER-SERVICES"] = <<>>
      BY Constants DEF Init, EmptyTable
    <2> QED
      BY <2>1 DEF Init, OrderInv, ServicesInv, SyncInv, AcceptFirst
  <1>2. IInv /\ [Next]_vars => OrderInv' /\ ServicesInv' /\ SyncInv'
    BY OrderStep, ServicesStep, SyncStep DEF IInv
  <1>3. TypeOK /\ OrderInv /\ ServicesInv /\ SyncInv <=> IInv
    BY DEF IInv
  <1> QED
    BY <1>1, <1>2, <1>3, TypeCorrect, PTL DEF Spec

\* ensureTopLevelChains leaves every rule at its position, whatever number of copies in
\* whatever order it finds, because the number that it deletes is that of the old copy,
\* and the save and the restore that follow move none of them.
THEOREM EnsuredRulesInPlace == Spec => []RulesInPlace
  <1>1. IInv => RulesInPlace
    BY DEF IInv, SyncInv, RulesInPlace
  <1> QED
    BY <1>1, Invariance, PTL

\* setupIpvsFirewall at none of its steps, a restart at any of them, a clean-up, and a
\* rewrite of the table from an earlier copy: no reject precedes the rule that
\* accepts the services.
THEOREM ServicesAccepted == Spec => []AcceptBeforeReject
  <1>1. IInv => AcceptBeforeReject
    BY DEF IInv, ServicesInv, AcceptFirst, AcceptBeforeReject
  <1> QED
    BY <1>1, Invariance, PTL

\* The rewrite of the table leaves the rules of others, but for those with "COMMIT",
\* in every chain.
LEMMA EditedOthers ==
    ASSUME NEW t \in Tables, NEW c \in Chains, NEW R, Dropped \subseteq R, "accept" \in R
    PROVE  Without(Edited(t)[c], R) = Without(t[c], R)
  <1> DEFINE K == "KUBE-ROUTER-INPUT"
             b == Without(t[K], Dropped)
             d == Append(b, "pods")
             f == Without(d, {"accept"})
             g == Append(f, "accept")
  <1>1. /\ t[K] \in Seq(Rules) /\ "pods" \in Rules /\ "accept" \in Rules /\ K \in Chains
        /\ Dropped \in SUBSET R /\ "pods" \in R /\ {"accept"} \in SUBSET R
    BY Constants DEF Tables, Dropped
  <1>2. b \in Seq(Rules) /\ Without(b, R) = Without(t[K], R)
    BY <1>1, WithoutType, WithoutTwice
  <1> HIDE DEF b
  <1>3. d \in Seq(Rules) /\ Without(d, R) = Without(b, R)
    BY <1>1, <1>2, WithoutAppend
  <1> HIDE DEF d
  <1>4. f \in Seq(Rules) /\ Without(f, R) = Without(d, R)
    BY <1>1, <1>3, WithoutType, WithoutTwice
  <1> HIDE DEF f
  <1>5. g \in Seq(Rules) /\ Without(g, R) = Without(f, R)
    BY <1>1, <1>4, WithoutAppend
  <1>6. Edited(t)[K] = g
    BY EditedIs DEF b, d, f
  <1> HIDE DEF g
  <1>7. ASSUME c \in Builtin PROVE Without(Edited(t)[c], R) = Without(t[c], R)
    <2>1. t[c] \in Seq(Rules) /\ Edited(t)[c] = Without(t[c], Dropped)
      BY <1>7, EditedIs DEF Tables
    <2> QED
      BY <1>1, <2>1, WithoutTwice
  <1>8. c = K \/ c \in Builtin \/ c = "KUBE-ROUTER-SERVICES"
    BY DEF Chains
  <1> QED
    BY <1>2, <1>3, <1>4, <1>5, <1>6, <1>7, <1>8, EditedIs

\* A step of a sync that nobody disturbs keeps the rules of others in their order.
LEMMA OthersStep ==
    ASSUME IInv, [Next]_vars, npc' # npc, ~disturbed, faults' = faults, nsc = "done"
    PROVE  \A c \in Chains : OthersRules(c)' = OthersRules(c)
  <1> DEFINE R == ToSet(Whitelist) \cup Unkept \cup {"netpol", "pods", "accept"}
  <1>1. /\ table \in Tables /\ saved \in Tables /\ faults \in Nat /\ faults + 1 # faults
    BY Constants DEF IInv, TypeOK, Tables
  <1>2. SUFFICES \A c \in Chains : Without(table'[c], R) = Without(table[c], R)
    BY DEF OthersRules
  <1>3. /\ Goal.chain \in Chains /\ Goal.rule \in Rules /\ Goal.rule \in R /\ Goal.pos \in Nat /\ Goal.pos >= 1
    <2>1. npcIdx \in DOMAIN Ensured
      BY DEF IInv, TypeOK
    <2> QED
      BY <2>1, EnsuredFacts DEF Goal
  <1>4. table[Goal.chain] \in Seq(Rules) /\ Len(table[Goal.chain]) \in Nat
    <2>1. table[Goal.chain] \in Seq(Rules)
      BY <1>1, <1>3 DEF Tables
    <2> QED
      BY <2>1
  <1> HIDE DEF R, Goal
  <1>5. ASSUME Goal.pos <= Len(table[Goal.chain]) + 1, Insert(Goal.chain, Goal.pos, Goal.rule)
        PROVE  \A c \in Chains : Without(table'[c], R) = Without(table[c], R)
    <2>1. Goal.pos \in 1 .. Len(table[Goal.chain]) + 1
      BY <1>3, <1>4, <1>5
    <2>2. Only(table, table', Goal.chain, InsertAt(table[Goal.chain], Goal.pos, Goal.rule))
      BY <1>1, <1>3, <1>5, <2>1, InsertIs
    <2>3. Without(InsertAt(table[Goal.chain], Goal.pos, Goal.rule), R) = Without(table[Goal.chain], R)
      BY <1>3, <1>4, <2>1, WithoutInsertAt
    <2> QED
      BY <2>2, <2>3 DEF Only
  <1>6. CASE table' = table
    BY <1>6
  <1>7. CASE NpcInsert \/ NpcMove
    BY <1>5, <1>7 DEF NpcInsert, NpcMove
  <1>8. CASE NpcDelete
    <2>1. table' = [table EXCEPT ![Goal.chain] = RemoveAt(@, ruleNo + 1)] /\ Copy(ruleNo + 1)
      BY <1>8 DEF NpcDelete, DeleteRule, IInv, SyncInv
    <2>2. ruleNo + 1 \in 1 .. Len(table[Goal.chain]) /\ table[Goal.chain][ruleNo + 1] \in R
      BY <1>3, <2>1 DEF Copy
    <2>3. Only(table, table', Goal.chain, RemoveAt(table[Goal.chain], ruleNo + 1))
      BY <1>1, <1>3, <2>1, <2>2, RemoveIs
    <2>4. Without(RemoveAt(table[Goal.chain], ruleNo + 1), R) = Without(table[Goal.chain], R)
      BY <1>4, <2>2, WithoutRemoveAt
    <2> QED
      BY <2>3, <2>4 DEF Only
  <1>9. CASE NpcRestore
    <2>1. table' = Edited(table) /\ Dropped \subseteq R /\ "accept" \in R
      BY <1>9 DEF NpcRestore, IInv, SyncInv, R, Dropped
    <2> QED
      BY <1>1, <2>1, EditedOthers
  <1>10. CASE NpcBegin \/ NpcExists \/ NpcList \/ NpcSave \/ NpcFatal
    BY <1>6, <1>10 DEF NpcBegin, NpcExists, NpcList, NpcSave, NpcFatal
  <1>11. ~Crash /\ ~CleanupConfig /\ ~NpcAbort /\ ~NscFails /\ ~NrcFails
    BY <1>1 DEF Crash, CleanupConfig, NpcAbort, NscFails, NrcFails, Fault
  <1>12. ~OthersWrite /\ ~NrcLoop /\ ~NrcExists /\ ~NrcInsert /\ ~(UNCHANGED vars)
    BY DEF OthersWrite, NrcLoop, NrcExists, NrcInsert, vars, npcVars
  <1>13. ~Nsc
    BY Constants DEF Nsc, NscClear, NscRule, NscJumpExists, NscJump
  <1> QED
    BY <1>7, <1>8, <1>9, <1>10, <1>11, <1>12, <1>13 DEF Next, NpcSync, Ensure

\* A sync deletes by number and rewrites the whole table from a copy; while nobody else
\* writes it neither removes nor reorders a rule of others, in any chain, unless the text
\* of the rule contains "COMMIT".
THEOREM SyncKeepsOthers == Spec => OthersKept
  <1>1. IInv /\ [Next]_vars =>
          [npc' # npc /\ ~disturbed /\ faults' = faults /\ nsc = "done" => \A c \in Chains : OthersRules(c)' = OthersRules(c)]_vars
    BY OthersStep
  <1> QED
    BY <1>1, Invariance, PTL DEF Spec, OthersKept

=============================================================================
