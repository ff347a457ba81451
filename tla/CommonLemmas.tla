---------------------------- MODULE CommonLemmas -----------------------------
(***************************************************************************)
(* What the proofs about several modules rest on: that a function defined  *)
(* by recursion exists and what holds of it, without a proof for each; and *)
(* what an attempt limiter promises, for every limit, window and lockout.  *)
(***************************************************************************)
EXTENDS RateLimiter, FiniteSetTheorems, SequenceTheorems, WellFoundedInduction, TLAPS

-----------------------------------------------------------------------------
(* Recursion: a sequence of steps, and a descent from parent to parent.    *)

LEMMA Least ==
  ASSUME NEW T, T \subseteq Nat, T # {}
  PROVE  \E x \in T : \A y \in T : x <= y
<1> DEFINE R == {p \in Nat \X Nat : p[1] < p[2]}
<1>1. OpToRel(<, Nat) = R
  BY DEF OpToRel
<1>2. IsWellFoundedOn(R, Nat)
  BY <1>1, NatLessThanWellFounded
<1> HIDE DEF R
<1>3. PICK x \in T : \A y \in T : ~(<<y, x>> \in R)
  BY <1>2, WFMin
<1>4. ASSUME NEW y \in T PROVE x <= y
  <2>1. ~(y < x)
    BY <1>3 DEF R
  <2>2. QED
    BY <2>1
<1>5. QED
  BY <1>4

\* Induction up to n, over a set in place of a predicate.
LEMMA Induct ==
  ASSUME NEW n \in Nat, NEW S, 0 \in S, \A i \in 0..(n - 1) : i \in S => i + 1 \in S
  PROVE  0..n \subseteq S
<1> DEFINE T == {m \in 0..n : m \notin S}
<1> SUFFICES ASSUME T # {} PROVE FALSE
  OBVIOUS
<1>1. T \subseteq Nat
  OBVIOUS
<1>2. PICK m \in T : \A k \in T : m <= k
  BY <1>1, Least
<1>3. m # 0
  OBVIOUS
<1>4. m - 1 \in 0..(n - 1) /\ m - 1 \in S /\ (m - 1) + 1 = m
  BY <1>2, <1>3
<1>5. QED
  BY <1>4

\* g goes from a by steps of G; f is given by parents.
Stepwise(g, n, a, G) == g[0] = a /\ \A i \in 1..n : g[i] = G[<<g[i - 1], i>>]
Ranked(rank, L, parent, Stop) ==
  \A l \in L \ Stop : parent[l] \in L /\ rank[parent[l]] < rank[l]
HandedDown(S, L, parent, Stop) ==
  L \cap Stop \subseteq S /\ \A l \in L \ Stop : parent[l] \in S => l \in S
ByParents(f, L, parent, Stop, a, G) ==
  \A l \in L : f[l] = IF l \in Stop THEN a[l] ELSE G[<<l, f[parent[l]]>>]

\* A sequence of n steps from a.
LEMMA Steps ==
  ASSUME NEW n \in Nat, NEW V, NEW a \in V, NEW G \in [V \X (1..n) -> V]
  PROVE  \E g \in [0..n -> V] : Stepwise(g, n, a, G)
<1> DEFINE Upto(m) ==
             \E g \in [0..m -> V] :
               g = [i \in 0..m |-> IF i = 0 THEN a ELSE G[<<g[i - 1], i>>]]
<1>1. Upto(0)
  <2> DEFINE g == [i \in 0..0 |-> a]
  <2>1. g \in [0..0 -> V]
    OBVIOUS
  <2>2. g = [i \in 0..0 |-> IF i = 0 THEN a ELSE G[<<g[i - 1], i>>]]
    OBVIOUS
  <2>3. QED
    BY <2>1, <2>2
<1>2. ASSUME NEW m \in 0..(n - 1), Upto(m) PROVE Upto(m + 1)
  <2>1. PICK g \in [0..m -> V] :
          g = [i \in 0..m |-> IF i = 0 THEN a ELSE G[<<g[i - 1], i>>]]
    BY <1>2
  <2> DEFINE h == [i \in 0..(m + 1) |-> IF i = m + 1 THEN G[<<g[m], m + 1>>] ELSE g[i]]
  <2>2. g[m] \in V /\ <<g[m], m + 1>> \in V \X (1..n)
    OBVIOUS
  <2>3. h \in [0..(m + 1) -> V]
    BY <2>2
  <2>4. h = [i \in 0..(m + 1) |-> IF i = 0 THEN a ELSE G[<<h[i - 1], i>>]]
    <3>1. \A i \in 0..m : g[i] = IF i = 0 THEN a ELSE G[<<g[i - 1], i>>]
      BY <2>1
    <3>2. ASSUME NEW i \in 0..(m + 1)
          PROVE  h[i] = IF i = 0 THEN a ELSE G[<<h[i - 1], i>>]
      <4>1. CASE i = m + 1
        <5>1. h[i] = G[<<g[m], m + 1>>] /\ h[m] = g[m] /\ i - 1 = m /\ i # 0
          BY <4>1
        <5>2. QED
          BY <5>1, <4>1
      <4>2. CASE i # m + 1
        <5>1. i \in 0..m /\ h[i] = g[i]
          BY <4>2
        <5>2. CASE i = 0
          BY <5>1, <5>2, <3>1
        <5>3. CASE i # 0
          <6>1. i - 1 \in 0..m /\ h[i - 1] = g[i - 1]
            BY <5>1, <5>3
          <6>2. QED
            BY <5>1, <5>3, <6>1, <3>1
        <5>4. QED
          BY <5>2, <5>3
      <4>3. QED
        BY <4>1, <4>2
    <3>3. QED
      BY <3>2
  <2>5. QED
    BY <2>3, <2>4
<1> DEFINE T == {m \in 0..n : Upto(m)}
<1> HIDE DEF Upto
<1>3. 0 \in T /\ \A m \in 0..(n - 1) : m \in T => m + 1 \in T
  BY <1>1, <1>2
<1>4. 0..n \subseteq T
  <2> HIDE DEF T
  <2> QED BY <1>3, Induct
<1>5. Upto(n)
  BY <1>4
<1>6. QED
  <2>1. PICK g \in [0..n -> V] :
          g = [i \in 0..n |-> IF i = 0 THEN a ELSE G[<<g[i - 1], i>>]]
    BY <1>5 DEF Upto
  <2>2. \A i \in 0..n : g[i] = IF i = 0 THEN a ELSE G[<<g[i - 1], i>>]
    BY <2>1
  <2>3. 0 \in 0..n /\ \A i \in 1..n : i \in 0..n /\ i # 0
    OBVIOUS
  <2>4. Stepwise(g, n, a, G)
    BY <2>2, <2>3 DEF Stepwise
  <2> QED BY <2>4

\* A recursion that goes from a level to its parent.
LEMMA Descent ==
  ASSUME NEW L, NEW parent, NEW Stop, NEW n \in Nat, NEW rank \in [L -> 0..n],
         Ranked(rank, L, parent, Stop),
         NEW V, NEW a \in [L -> V], NEW G \in [L \X V -> V]
  PROVE  \E f \in [L -> V] : ByParents(f, L, parent, Stop, a, G)
<1> DEFINE D(m) == {l \in L : rank[l] < m}
           Upto(m) ==
             \E f \in [D(m) -> V] :
               f = [l \in D(m) |-> IF l \in Stop THEN a[l] ELSE G[<<l, f[parent[l]]>>]]
<1>1. Upto(0)
  <2>1. D(0) = {}
    OBVIOUS
  <2> HIDE DEF D
  <2> DEFINE f == [l \in {} |-> a[l]]
  <2>2. f \in [D(0) -> V]
    BY <2>1
  <2>3. f = [l \in D(0) |-> IF l \in Stop THEN a[l] ELSE G[<<l, f[parent[l]]>>]]
    BY <2>1
  <2>4. QED
    BY <2>2, <2>3
<1>2. ASSUME NEW m \in Nat, Upto(m) PROVE Upto(m + 1)
  <2>1. PICK f \in [D(m) -> V] :
          f = [l \in D(m) |-> IF l \in Stop THEN a[l] ELSE G[<<l, f[parent[l]]>>]]
    BY <1>2
  <2> DEFINE h == [l \in D(m + 1) |-> IF l \in Stop THEN a[l] ELSE G[<<l, f[parent[l]]>>]]
  <2>2. \A l \in D(m + 1) \ Stop : parent[l] \in D(m)
    BY DEF Ranked
  <2>3. h \in [D(m + 1) -> V]
    BY <2>2
  <2>4. \A l \in D(m) : l \in D(m + 1) /\ h[l] = f[l]
    <3>1. \A l \in D(m) : l \in D(m + 1)
      OBVIOUS
    <3> HIDE DEF D
    <3>2. \A l \in D(m) : f[l] = IF l \in Stop THEN a[l] ELSE G[<<l, f[parent[l]]>>]
      BY <2>1
    <3>3. \A l \in D(m + 1) : h[l] = IF l \in Stop THEN a[l] ELSE G[<<l, f[parent[l]]>>]
      OBVIOUS
    <3> HIDE DEF h
    <3> QED BY <3>1, <3>2, <3>3
  <2>5. h = [l \in D(m + 1) |-> IF l \in Stop THEN a[l] ELSE G[<<l, h[parent[l]]>>]]
    <3>1. \A l \in D(m + 1) : h[l] = IF l \in Stop THEN a[l] ELSE G[<<l, f[parent[l]]>>]
      OBVIOUS
    <3>2. \A l \in D(m + 1) \ Stop : h[parent[l]] = f[parent[l]]
      <4> HIDE DEF h
      <4> QED BY <2>2, <2>4
    <3> HIDE DEF h, D
    <3> QED BY <2>3, <3>1, <3>2
  <2>6. QED
    BY <2>3, <2>5
<1> DEFINE T == {m \in 0..(n + 1) : Upto(m)}
<1> HIDE DEF Upto
<1>3. 0 \in T /\ \A m \in 0..n : m \in T => m + 1 \in T
  BY <1>1, <1>2
<1>4. 0..(n + 1) \subseteq T
  <2> HIDE DEF T
  <2>1. n + 1 \in Nat /\ (n + 1) - 1 = n
    OBVIOUS
  <2> QED BY <1>3, <2>1, Induct
<1>5. Upto(n + 1) /\ D(n + 1) = L
  BY <1>4
<1> HIDE DEF D
<1>6. PICK f \in [L -> V] :
        f = [l \in L |-> IF l \in Stop THEN a[l] ELSE G[<<l, f[parent[l]]>>]]
  BY <1>5 DEF Upto
<1>7. ByParents(f, L, parent, Stop, a, G)
  BY <1>6 DEF ByParents
<1>8. QED
  BY <1>7

\* What holds at the ends, and at a level if at its parent, holds everywhere.
LEMMA AlongParents ==
  ASSUME NEW L, NEW parent, NEW Stop, NEW n \in Nat, NEW rank \in [L -> 0..n],
         Ranked(rank, L, parent, Stop),
         NEW S, HandedDown(S, L, parent, Stop)
  PROVE  L \subseteq S
<1> DEFINE D(m) == {l \in L : rank[l] < m}
           T == {m \in 0..(n + 1) : D(m) \subseteq S}
<1>1. 0 \in T
  OBVIOUS
<1>2. ASSUME NEW m \in 0..n, m \in T PROVE m + 1 \in T
  <2>1. ASSUME NEW l \in D(m + 1) PROVE l \in S
    <3>1. CASE l \in Stop
      BY <3>1 DEF HandedDown
    <3>2. CASE l \notin Stop
      <4>1. parent[l] \in D(m)
        BY <3>2 DEF Ranked
      <4> QED BY <4>1, <3>2, <1>2 DEF HandedDown
    <3> QED BY <3>1, <3>2
  <2> QED BY <2>1
<1>3. 0..(n + 1) \subseteq T
  <2> HIDE DEF T
  <2>1. n + 1 \in Nat /\ (n + 1) - 1 = n
    OBVIOUS
  <2> QED BY <1>1, <1>2, <2>1, Induct
<1> QED BY <1>3

-----------------------------------------------------------------------------
(* Attempt limiters.  RunLoop has one for each level, Login one for each   *)
(* name; the argument about either is made here, about one limiter and the *)
(* list of all failures recorded in it since it was new.                   *)

Sorted(f) == \A i, j \in 1..Len(f) : i <= j => f[i] <= f[j]
Limiters == [failures : Seq(Nat), lockedUntil : Nat]

\* What a limiter r remembers of the failures f, when each was admitted: the
\* latest, fewer than MaxAttempts, and of every one before these either that it
\* has aged or that a lockout followed it.
IsEnd(s, f, k) == Len(f) = k + Len(s) /\ \A i \in 1..Len(s) : s[i] = f[k + i]
Settled(r, f, k) == \A i \in 1..k :
  f[i] + Window < f[Len(f)] \/ f[i] + Lockout <= r.lockedUntil
Counts(r, f) ==
  /\ Sorted(f)
  /\ \E k \in Nat : IsEnd(r.failures, f, k) /\ Settled(r, f, k)
  /\ Len(r.failures) < MaxAttempts
  /\ r.lockedUntil > 0 => Len(f) >= MaxAttempts

-----------------------------------------------------------------------------
(* Sequences.                                                              *)

\* How many numbers there are up to n.
LEMMA CountToN ==
  ASSUME NEW n \in Nat PROVE IsFiniteSet(1..n) /\ Cardinality(1..n) = n
<1>1. /\ IsFiniteSet(1..n)
      /\ Cardinality(1..n) = IF 1 > n THEN 0 ELSE n - 1 + 1
  BY 1 \in Int, n \in Int, FS_Interval
<1>2. QED
  BY <1>1

\* Of failures in the order of time the window holds the latest ones, and what
\* it has lost is older than Window.
LEMMA RecentIsLatest ==
  ASSUME NEW f \in Seq(Nat), Sorted(f), NEW now \in Nat
  PROVE  \E d \in 0..Len(f) :
           /\ Recent(f, now) = SubSeq(f, d + 1, Len(f))
           /\ \A i \in 1..d : f[i] + Window < now
<1> DEFINE aged == {i \in DOMAIN f : f[i] + Window < now}
           d == Cardinality(aged)
<1>1. Window \in Nat /\ Len(f) \in Nat /\ DOMAIN f = 1..Len(f)
  BY LimiterAssumption
<1>2. \A i \in aged : 1..i \subseteq aged
  BY <1>1 DEF Sorted
<1>3. IsFiniteSet(aged) /\ d \in 0..Len(f)
  <2>1. IsFiniteSet(1..Len(f)) /\ Cardinality(1..Len(f)) = Len(f)
    BY <1>1, CountToN
  <2>2. aged \subseteq 1..Len(f)
    BY <1>1
  <2>3. IsFiniteSet(aged) /\ d <= Len(f)
    BY <2>1, <2>2, FS_Subset
  <2>4. QED
    BY <2>3, <1>1, FS_CardinalityType
<1>4. aged \subseteq 1..d
  <2> SUFFICES ASSUME NEW i \in aged PROVE i <= d
    BY <1>1, <1>3
  <2>1. i \in Nat /\ 1..i \subseteq aged
    BY <1>1, <1>2
  <2>2. Cardinality(1..i) = i /\ Cardinality(1..i) <= d
    <3>1. Cardinality(1..i) = i
      BY <2>1, CountToN
    <3>2. Cardinality(1..i) <= d
      BY <2>1, <1>3, FS_Subset
    <3>3. QED
      BY <3>1, <3>2
  <2>3. QED
    BY <2>2
<1>5. aged = 1..d
  <2>1. IsFiniteSet(1..d) /\ Cardinality(1..d) = d
    BY <1>3, CountToN
  <2>2. QED
    BY <2>1, <1>4, FS_Subset
<1>6. QED
  BY <1>3, <1>5 DEF Recent

\* A sequence without its first d elements, and with one more.
LEMMA WithoutFirst ==
  ASSUME NEW s \in Seq(Nat), NEW d \in 0..Len(s), NEW u,
         u = SubSeq(s, d + 1, Len(s))
  PROVE  /\ u \in Seq(Nat) /\ Len(u) = Len(s) - d
         /\ \A i \in 1..(Len(s) - d) : u[i] = s[d + i]
<1>1. Len(s) \in Nat /\ d + 1 \in 1..(Len(s) + 1) /\ Len(s) \in d..Len(s)
      /\ (d + 1) - 1 = d
  OBVIOUS
<1>2. /\ u \in Seq(Nat) /\ Len(u) = Len(s) - (d + 1) + 1
      /\ \A i \in 1..(Len(s) - (d + 1) + 1) : u[i] = s[(d + 1) + i - 1]
  BY <1>1, SubSeqProperties
<1>3. Len(s) - (d + 1) + 1 = Len(s) - d
      /\ \A i \in 1..(Len(s) - d) : (d + 1) + i - 1 = d + i
  BY <1>1
<1>4. QED
  BY <1>2, <1>3

LEMMA WithLast ==
  ASSUME NEW u \in Seq(Nat), NEW t \in Nat, NEW c, c = Append(u, t)
  PROVE  /\ c \in Seq(Nat) /\ Len(c) = Len(u) + 1 /\ c[Len(u) + 1] = t
         /\ \A i \in 1..Len(u) : c[i] = u[i]
BY AppendProperties

\* One more at the end of a list of times up to now.
LEMMA ListedInOrder ==
  ASSUME NEW f \in Seq(Nat), NEW t \in Nat, \A i \in 1..Len(f) : f[i] <= t
  PROVE  /\ Append(f, t) \in Seq(Nat)
         /\ \A i \in 1..Len(Append(f, t)) :
              Append(f, t)[i] \in Nat /\ Append(f, t)[i] <= t
<1> DEFINE g == Append(f, t)
<1>1. /\ g \in Seq(Nat) /\ Len(g) = Len(f) + 1 /\ g[Len(f) + 1] = t
      /\ \A i \in 1..Len(f) : g[i] = f[i]
  BY WithLast
<1> HIDE DEF g
<1> SUFFICES ASSUME NEW i \in 1..Len(g) PROVE g[i] \in Nat /\ g[i] <= t
  BY <1>1 DEF g
<1>2. CASE i = Len(f) + 1
  BY <1>1, <1>2
<1>3. CASE i # Len(f) + 1
  <2>1. i \in 1..Len(f)
    BY <1>1, <1>3
  <2>2. f[i] \in Nat /\ f[i] <= t /\ g[i] = f[i]
    BY <2>1, <1>1
  <2>3. QED
    BY <2>2
<1>4. QED
  BY <1>2, <1>3

\* What is counted stays the end of the list of all failures.
LEMMA StaysTheEnd ==
  ASSUME NEW f \in Seq(Nat), NEW s \in Seq(Nat), NEW k \in Nat, IsEnd(s, f, k),
         NEW d \in 0..Len(s), NEW t \in Nat
  PROVE  /\ Append(SubSeq(s, d + 1, Len(s)), t) \in Seq(Nat)
         /\ Len(Append(SubSeq(s, d + 1, Len(s)), t)) = Len(s) - d + 1
         /\ IsEnd(Append(SubSeq(s, d + 1, Len(s)), t), Append(f, t), k + d)
<1> DEFINE kept == SubSeq(s, d + 1, Len(s))
           c == Append(kept, t)
           g == Append(f, t)
<1>1. Len(s) \in Nat /\ Len(f) \in Nat /\ d \in 0..Len(s)
  OBVIOUS
<1>2. /\ kept \in Seq(Nat) /\ Len(kept) = Len(s) - d
      /\ \A i \in 1..(Len(s) - d) : kept[i] = s[d + i]
  BY WithoutFirst
<1> HIDE DEF kept
<1>3. /\ c \in Seq(Nat) /\ Len(c) = Len(kept) + 1 /\ c[Len(kept) + 1] = t
      /\ \A i \in 1..Len(kept) : c[i] = kept[i]
  BY <1>2, WithLast
<1>4. /\ Len(g) = Len(f) + 1 /\ g[Len(f) + 1] = t
      /\ \A i \in 1..Len(f) : g[i] = f[i]
  BY WithLast
<1> HIDE DEF g, c
<1>5. Len(f) = k + Len(s)
  BY DEF IsEnd
<1>6. ASSUME NEW i \in 1..Len(c) PROVE c[i] = g[k + d + i]
  <2>1. CASE i = Len(kept) + 1
    <3>1. k + d + i = Len(f) + 1
      BY <2>1, <1>1, <1>2, <1>5
    <3>2. QED
      BY <3>1, <2>1, <1>3, <1>4
  <2>2. CASE i # Len(kept) + 1
    <3>1. d + i \in 1..Len(s) /\ i \in 1..(Len(s) - d)
      BY <2>2, <1>1, <1>2, <1>3, SMTT(30)
    <3>2. k + d + i = k + (d + i) /\ k + d + i \in 1..Len(f)
      BY <3>1, <1>1, <1>5
    <3>3. c[i] = s[d + i]
      BY <3>1, <1>2, <1>3
    <3>4. s[d + i] = f[k + (d + i)]
      BY <3>1 DEF IsEnd
    <3>5. QED
      BY <3>2, <3>3, <3>4, <1>4
  <2>3. QED
    BY <2>1, <2>2
<1>7. Len(c) = Len(s) - d + 1 /\ Len(g) = (k + d) + Len(c)
  BY <1>1, <1>2, <1>3, <1>4, <1>5
<1>8. IsEnd(c, g, k + d)
  BY <1>6, <1>7 DEF IsEnd
<1>9. QED
  BY <1>3, <1>7, <1>8 DEF g, c, kept

\* The end of a sequence in order is in order.
LEMMA EndIsSorted ==
  ASSUME NEW f \in Seq(Nat), Sorted(f), NEW s \in Seq(Nat), NEW k \in Nat,
         IsEnd(s, f, k)
  PROVE  Sorted(s)
<1>1. Len(f) = k + Len(s) /\ Len(s) \in Nat
  BY DEF IsEnd
<1>2. /\ \A i \in 1..Len(s) : k + i \in 1..Len(f)
      /\ \A i, j \in 1..Len(s) : i <= j => k + i <= k + j
  BY <1>1
<1>3. \A i \in 1..Len(s) : s[i] = f[k + i]
  BY DEF IsEnd
<1>4. QED
  BY <1>2, <1>3 DEF Sorted

\* A failure that was admitted is counted, or starts the lockout.
LEMMA FailureCounts ==
  ASSUME MaxAttempts > 0, NEW r \in Limiters, NEW f \in Seq(Nat),
         Counts(r, f), NEW now \in Nat, \A i \in 1..Len(f) : f[i] <= now
  PROVE  /\ RecordFailure(r, now) \in Limiters
         /\ Counts(RecordFailure(r, now), Append(f, now))
<1> DEFINE s == r.failures
           g == Append(f, now)
           c == Append(Recent(s, now), now)
<1>1. /\ MaxAttempts \in Nat /\ Window \in Nat /\ Lockout \in Nat
      /\ r.lockedUntil \in Nat /\ s \in Seq(Nat) /\ Len(s) \in Nat
      /\ Len(f) \in Nat
  BY LimiterAssumption DEF Limiters
<1>2. PICK k \in Nat : IsEnd(s, f, k) /\ Settled(r, f, k)
  BY DEF Counts
<1>3. /\ Sorted(f) /\ Len(s) < MaxAttempts
      /\ r.lockedUntil > 0 => Len(f) >= MaxAttempts
  BY DEF Counts
<1>4. Len(f) = k + Len(s)
  BY <1>2 DEF IsEnd
<1> HIDE DEF s
<1>5. Sorted(s)
  BY <1>1, <1>2, <1>3, EndIsSorted
<1>6. PICK d \in 0..Len(s) :
        /\ Recent(s, now) = SubSeq(s, d + 1, Len(s))
        /\ \A i \in 1..d : s[i] + Window < now
  BY <1>1, <1>5, RecentIsLatest
<1>7. c \in Seq(Nat) /\ Len(c) = Len(s) - d + 1 /\ IsEnd(c, g, k + d)
  BY <1>1, <1>2, <1>6, StaysTheEnd
<1>8. /\ g \in Seq(Nat) /\ Len(g) = Len(f) + 1 /\ g[Len(f) + 1] = now
      /\ \A i \in 1..Len(f) : g[i] = f[i]
  BY WithLast
<1>9. RecordFailure(r, now) =
        IF Len(c) >= MaxAttempts
        THEN [failures |-> <<>>, lockedUntil |-> now + Lockout]
        ELSE [r EXCEPT !.failures = c]
  BY DEF RecordFailure, Reached, s
<1> HIDE DEF g, c
<1>10. \A i \in 1..Len(g) : g[i] \in Nat /\ g[i] <= now
  BY ListedInOrder DEF g
<1>11. Sorted(g)
  <2> SUFFICES ASSUME NEW i \in 1..Len(g), NEW j \in 1..Len(g), i <= j
               PROVE  g[i] <= g[j]
    BY DEF Sorted
  <2>1. CASE j = Len(f) + 1
    BY <2>1, <1>8, <1>10
  <2>2. CASE j # Len(f) + 1
    <3>1. i \in 1..Len(f) /\ j \in 1..Len(f)
      BY <2>2, <1>1, <1>8, SMTT(30)
    <3>2. QED
      BY <3>1, <1>3, <1>8 DEF Sorted
  <2>3. QED
    BY <2>1, <2>2
<1>12. CASE Len(c) >= MaxAttempts
  <2> DEFINE q == [failures |-> <<>>, lockedUntil |-> now + Lockout]
  <2>1. q \in Limiters /\ q.failures = <<>> /\ q.lockedUntil = now + Lockout
    BY <1>1 DEF Limiters
  <2>2. IsEnd(q.failures, g, Len(g))
    BY <1>1, <1>8, <2>1 DEF IsEnd
  <2>3. Settled(q, g, Len(g))
    BY <1>1, <1>10, <2>1 DEF Settled
  <2>4. Len(g) >= MaxAttempts
    BY <1>12, <1>1, <1>4, <1>6, <1>7, <1>8
  <2>5. Len(q.failures) < MaxAttempts
    BY <2>1
  <2> HIDE DEF q
  <2>6. Counts(q, g)
    BY <2>2, <2>3, <2>4, <2>5, <1>1, <1>8, <1>11 DEF Counts
  <2>7. QED
    BY <2>1, <2>6, <1>9, <1>12 DEF q, g
<1>13. CASE ~(Len(c) >= MaxAttempts)
  <2> DEFINE q == [r EXCEPT !.failures = c]
  <2>1. /\ q \in Limiters /\ q.failures = c /\ q.lockedUntil = r.lockedUntil
    BY <1>7 DEF Limiters
  <2>2. k + d \in Nat /\ Len(c) < MaxAttempts
    BY <1>13, <1>1, <1>6, <1>7
  <2>3. ASSUME NEW i \in 1..(k + d)
        PROVE  g[i] + Window < g[Len(g)] \/ g[i] + Lockout <= r.lockedUntil
    <3>1. i \in 1..Len(f) /\ g[i] = f[i]
      BY <1>1, <1>4, <1>6, <1>8, SMTT(30)
    <3>2. CASE i \in 1..k
      <4>1. f[i] + Window < f[Len(f)] \/ f[i] + Lockout <= r.lockedUntil
        BY <3>2, <1>2 DEF Settled
      <4>2. f[Len(f)] <= now /\ f[Len(f)] \in Nat /\ f[i] \in Nat
        BY <3>1, <1>1
      <4>3. g[Len(g)] = now
        BY <1>8
      <4>4. f[i] + Window < now \/ f[i] + Lockout <= r.lockedUntil
        BY <4>1, <4>2, <1>1, SMTT(30)
      <4>5. QED
        BY <3>1, <4>3, <4>4
    <3>3. CASE i \notin 1..k
      <4>1. i - k \in 1..d /\ i - k \in 1..Len(s) /\ i = k + (i - k)
        <5>1. i \in k + 1..k + d /\ k \in Nat /\ d \in Nat /\ d <= Len(s)
          BY <3>3, <1>1
        <5>2. QED
          BY <5>1, <1>1
      <4>2. f[i] = s[i - k]
        BY <4>1, <1>2 DEF IsEnd
      <4>3. QED
        <5>1. s[i - k] + Window < now
          BY <4>1, <1>6
        <5>2. g[Len(g)] = now /\ g[i] = s[i - k]
          BY <3>1, <4>2, <1>8
        <5>3. QED
          BY <5>1, <5>2
    <3>4. QED
      BY <3>2, <3>3
  <2>4. Settled(q, g, k + d)
    BY <2>1, <2>3 DEF Settled
  <2>5. r.lockedUntil > 0 => Len(g) >= MaxAttempts
    BY <1>1, <1>3, <1>8
  <2> HIDE DEF q
  <2>6. Counts(q, g)
    BY <2>1, <2>2, <2>4, <2>5, <1>7, <1>11 DEF Counts
  <2>7. QED
    BY <2>1, <2>6, <1>9, <1>13 DEF q, g
<1>14. QED
  BY <1>12, <1>13

-----------------------------------------------------------------------------
(* What follows for the failures.                                          *)

Slow(f) ==
  \A i \in 1..(Len(f) - MaxAttempts) :
    f[i + MaxAttempts - 1] - f[i] <= Window =>
      f[i + MaxAttempts] - f[i] >= Lockout

\* The failures stay slow: the one MaxAttempts before is not counted any more.
LEMMA FailuresAreSlow ==
  ASSUME MaxAttempts > 0, NEW r \in Limiters, NEW f \in Seq(Nat),
         Counts(r, f), Slow(f), NEW now \in Nat, Allow(r, now)
  PROVE  Slow(Append(f, now))
<1> DEFINE g == Append(f, now)
           M == MaxAttempts
<1>1. /\ M \in Nat /\ Window \in Nat /\ Lockout \in Nat
      /\ r.lockedUntil \in Nat /\ Len(r.failures) \in Nat /\ Len(f) \in Nat
  BY LimiterAssumption DEF Limiters
<1>2. now >= r.lockedUntil /\ M > 0
  BY <1>1 DEF Allow
<1>3. PICK k \in Nat : IsEnd(r.failures, f, k) /\ Settled(r, f, k)
  BY DEF Counts
<1>4. Len(f) - M + 1 <= k
  BY <1>1, <1>3 DEF IsEnd, Counts
<1>5. /\ Len(g) = Len(f) + 1 /\ g[Len(f) + 1] = now
      /\ \A i \in 1..Len(f) : g[i] = f[i]
  BY WithLast
<1> HIDE DEF g, M
<1> SUFFICES ASSUME NEW i \in 1..(Len(g) - M), g[i + M - 1] - g[i] <= Window
             PROVE  g[i + M] - g[i] >= Lockout
  BY DEF Slow, g, M
<1>6. CASE i <= Len(f) - M
  <2>1. /\ i \in 1..Len(f) /\ i + M - 1 \in 1..Len(f) /\ i + M \in 1..Len(f)
        /\ i \in 1..(Len(f) - M)
    BY <1>1, <1>2, <1>6, SMTT(30)
  <2>2. f[i + M - 1] - f[i] <= Window
    BY <2>1, <1>5
  <2>3. f[i + M] - f[i] >= Lockout
    BY <2>1, <2>2 DEF Slow, M
  <2>4. QED
    BY <2>1, <2>3, <1>5
<1>7. CASE ~(i <= Len(f) - M)
  <2>1. /\ i \in 1..k /\ i \in 1..Len(f) /\ i + M = Len(f) + 1
        /\ i + M - 1 = Len(f) /\ Len(f) \in 1..Len(f)
    <3>1. i = Len(f) + 1 - M
      BY <1>1, <1>5, <1>7
    <3>2. i >= 1 /\ i <= k /\ i \in Nat
      BY <3>1, <1>1, <1>4
    <3>3. QED
      BY <3>1, <3>2, <1>1, <1>2
  <2>2. f[i] + Window < f[Len(f)] \/ f[i] + Lockout <= r.lockedUntil
    BY <2>1, <1>3 DEF Settled
  <2>3. f[i] \in Nat /\ f[Len(f)] \in Nat
    BY <2>1
  <2>4. g[i] = f[i] /\ g[i + M - 1] = f[Len(f)] /\ g[i + M] = now
    BY <2>1, <1>5
  <2>5. f[i] + Lockout <= now
    <3>1. f[Len(f)] - f[i] <= Window
      BY <2>4
    <3>2. ~(f[i] + Window < f[Len(f)])
      <4>1. Window \in Nat
        BY <1>1
      <4>2. QED
        BY <3>1, <2>3, <4>1
    <3>3. f[i] + Lockout <= r.lockedUntil
      BY <3>2, <2>2
    <3>4. QED
      BY <3>3, <2>3, <1>1, <1>2, SMTT(30)
  <2>6. QED
    BY <2>3, <2>4, <2>5, <1>1, SMTT(30)
<1>8. QED
  BY <1>6, <1>7

\* A limiter is new, or RecordSuccess has made it so.
LEMMA NewCounts ==
  /\ NewLimiter \in Limiters /\ Slow(<<>>)
  /\ MaxAttempts > 0 => Counts(NewLimiter, <<>>)
<1>1. /\ NewLimiter \in Limiters
      /\ NewLimiter.failures = <<>> /\ NewLimiter.lockedUntil = 0
  BY DEF NewLimiter, Limiters
<1>2. Slow(<<>>)
  BY LimiterAssumption DEF Slow
<1>3. IsEnd(<<>>, <<>>, 0) /\ Settled(NewLimiter, <<>>, 0) /\ Sorted(<<>>)
  BY DEF IsEnd, Settled, Sorted
<1>4. QED
  BY <1>1, <1>2, <1>3 DEF Counts

-----------------------------------------------------------------------------
(* For the modules that keep a limiter r and the list f of its failures.   *)

Remembers(r, f, now) ==
  /\ r \in Limiters /\ f \in Seq(Nat)
  /\ \A i \in 1..Len(f) : f[i] <= now
  /\ MaxAttempts > 0 => Counts(r, f) /\ Slow(f)

LEMMA NewRemembers == ASSUME NEW now PROVE Remembers(NewLimiter, <<>>, now)
BY NewCounts DEF Remembers

LEMMA LaterRemembers ==
  ASSUME NEW r, NEW f, NEW now \in Nat, NEW later \in Nat, now <= later,
         Remembers(r, f, now)
  PROVE  Remembers(r, f, later)
<1>1. \A i \in 1..Len(f) : f[i] \in Nat /\ f[i] <= now
  BY DEF Remembers
<1>2. \A i \in 1..Len(f) : f[i] <= later
  BY <1>1
<1>3. QED
  BY <1>2 DEF Remembers

\* A failure recorded after Allow has let the attempt pass is remembered, and
\* of MaxAttempts + 1 failures, all but the last within Window, the last comes
\* a lockout after the first.
THEOREM FailureRemembers ==
  ASSUME NEW r, NEW f, NEW now \in Nat, Remembers(r, f, now), Allow(r, now)
  PROVE  Remembers(RecordFailure(r, now), Append(f, now), now)
<1>1. /\ r \in Limiters /\ f \in Seq(Nat) /\ \A i \in 1..Len(f) : f[i] <= now
      /\ MaxAttempts > 0 => Counts(r, f) /\ Slow(f)
  BY DEF Remembers
<1>2. /\ Append(f, now) \in Seq(Nat)
      /\ \A i \in 1..Len(Append(f, now)) : Append(f, now)[i] <= now
  BY <1>1, ListedInOrder
<1>3. CASE MaxAttempts > 0
  BY <1>1, <1>2, <1>3, FailureCounts, FailuresAreSlow DEF Remembers
<1>4. CASE ~(MaxAttempts > 0)
  <2>1. MaxAttempts = 0
    BY <1>4, LimiterAssumption
  <2>2. RecordFailure(r, now) = r
    BY <2>1 DEF RecordFailure
  <2>3. QED
    BY <1>1, <1>2, <1>4, <2>2 DEF Remembers
<1>5. QED
  BY <1>3, <1>4

\* An attempt is refused only after MaxAttempts failures.
LEMMA RefusedAfterFailures ==
  ASSUME NEW r, NEW f, NEW now \in Nat, Remembers(r, f, now), ~Allow(r, now)
  PROVE  Len(f) >= MaxAttempts
<1>1. MaxAttempts > 0 /\ r.lockedUntil > 0
  BY LimiterAssumption DEF Allow, Remembers, Limiters
<1>2. QED
  BY <1>1 DEF Remembers, Counts
=============================================================================
