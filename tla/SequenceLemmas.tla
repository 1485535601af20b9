--------------------------- MODULE SequenceLemmas ---------------------------
(***************************************************************************)
(* Lemmas about sequences, mostly without repetitions, and about the least *)
(* of a set of numbers, that the proofs of the other modules rest on.      *)
(***************************************************************************)
EXTENDS SequencesExt, FiniteSetTheorems, SequenceTheorems, WellFoundedInduction, TLAPS

\* Numbers that are not all out of a set have a first one in it: what the proofs
\* use in place of an induction.
LEMMA LeastNumber ==
    ASSUME NEW T \in SUBSET Nat, T # {}
    PROVE  \E m \in T : \A k \in T : m <= k
<1>1. PICK m \in T : \A k \in T : ~(<<k, m>> \in OpToRel(<, Nat))
  BY NatLessThanWellFounded, WFMin
<1>2. \A k \in T : ~(k < m)
  BY <1>1 DEF OpToRel
<1> QED
  BY <1>2

(***************************************************************************)
(* Iteration: what a recursive function on 0..n computes.                  *)
(***************************************************************************)

\* f takes the steps G one after the other, from x on.
Iterates(f, x, n, G) ==
    /\ f = [k \in 0..n |-> f[k]]
    /\ f[0] = x
    /\ \A k \in 1..n : f[k] = G[k][f[k - 1]]

\* There is such an f ...
LEMMA IterationExists ==
    ASSUME NEW S, NEW x \in S, NEW n \in Nat, NEW G \in [1..n -> [S -> S]]
    PROVE  \E f \in [0..n -> S] : Iterates(f, x, n, G)
<1> DEFINE Upto(m) == \E f \in [0..m -> S] :
                        f[0] = x /\ \A k \in 1..m : f[k] = G[k][f[k - 1]]
           T == {m \in 0..n : ~Upto(m)}
<1>1. CASE T = {}
  <2>1. n \in 0..n
    OBVIOUS
  <2>2. PICK f \in [0..n -> S] : f[0] = x /\ \A k \in 1..n : f[k] = G[k][f[k - 1]]
    BY <1>1, <2>1
  <2>3. f = [k \in 0..n |-> f[k]]
    BY <2>2
  <2> QED
    BY <2>2, <2>3 DEF Iterates
<1>2. CASE T # {}
  <2>1. PICK m \in T : \A k \in T : m <= k
    <3>1. T \in SUBSET Nat
      OBVIOUS
    <3> HIDE DEF T
    <3> QED
      BY <1>2, <3>1, LeastNumber
  <2>2. Upto(0)
    <3> DEFINE f == [k \in 0..0 |-> x]
    <3>1. f \in [0..0 -> S] /\ f[0] = x /\ 1..0 = {}
      OBVIOUS
    <3> QED
      BY <3>1
  <2>3. m \in 1..n /\ m - 1 \in 0..n /\ m - 1 \notin T
    <3>1. m \in 0..n /\ m # 0
      BY <2>1, <2>2
    <3> QED
      BY <2>1, <3>1
  <2>4. PICK f \in [0..m - 1 -> S] :
               f[0] = x /\ \A k \in 1..m - 1 : f[k] = G[k][f[k - 1]]
    BY <2>3
  <2>5. f[m - 1] \in S /\ G[m] \in [S -> S]
    BY <2>3
  <2> DEFINE g == [k \in 0..m |-> IF k = m THEN G[m][f[m - 1]] ELSE f[k]]
  <2>6. g \in [0..m -> S]
    <3>1. \A k \in 0..m : k = m \/ k \in 0..m - 1
      BY <2>3
    <3> QED
      BY <2>4, <2>5, <3>1
  <2>7. g[0] = x /\ \A k \in 0..m - 1 : g[k] = f[k]
    BY <2>3, <2>4
  <2>8. \A k \in 1..m : g[k] = G[k][g[k - 1]]
    <3> SUFFICES ASSUME NEW k \in 1..m
                 PROVE  g[k] = G[k][g[k - 1]]
      OBVIOUS
    <3>1. k - 1 \in 0..m - 1 /\ g[k - 1] = f[k - 1]
      BY <2>3, <2>7
    <3>2. CASE k = m
      BY <2>3, <3>1, <3>2
    <3>3. CASE k # m
      <4>1. k \in 1..m - 1 /\ g[k] = f[k]
        BY <2>3, <3>3
      <4> QED
        BY <2>4, <3>1, <4>1
    <3> QED
      BY <3>2, <3>3
  <2> HIDE DEF g
  <2>9. Upto(m)
    BY <2>6, <2>7, <2>8
  <2> QED
    BY <2>1, <2>9
<1> QED
  BY <1>1, <1>2 DEF Iterates

\* ... and only one.
LEMMA IterationUnique ==
    ASSUME NEW n \in Nat, NEW G, NEW x, NEW f, NEW g,
           Iterates(f, x, n, G), Iterates(g, x, n, G)
    PROVE  f = g
<1> USE DEF Iterates
<1> DEFINE T == {k \in 0..n : f[k] # g[k]}
<1>1. CASE T = {}
  <2>1. \A k \in 0..n : f[k] = g[k]
    BY <1>1
  <2> QED
    BY <2>1
<1>2. CASE T # {}
  <2>1. PICK m \in T : \A k \in T : m <= k
    <3>1. T \in SUBSET Nat
      OBVIOUS
    <3> HIDE DEF T
    <3> QED
      BY <1>2, <3>1, LeastNumber
  <2>2. m \in 1..n /\ m - 1 \in 0..n /\ m - 1 \notin T
    <3>1. m \in 0..n /\ m # 0
      BY <2>1
    <3> QED
      BY <2>1, <3>1
  <2>3. f[m - 1] = g[m - 1]
    BY <2>2
  <2> QED
    BY <2>1, <2>2, <2>3
<1> QED
  BY <1>1, <1>2

(***************************************************************************)
(* Sequences without repetitions.                                          *)
(***************************************************************************)

\* Only the empty sequence has no elements.
LEMMA EmptyToSet ==
    ASSUME NEW S, NEW q \in Seq(S)
    PROVE  ToSet(q) = {} <=> q = << >>
<1>1. Len(q) \in Nat /\ DOMAIN q = 1..Len(q)
  BY LenProperties
<1>2. ASSUME ToSet(q) = {}
      PROVE  q = << >>
  <2>1. DOMAIN q = {}
    BY <1>2 DEF ToSet
  <2>2. Len(q) = 0
    BY <1>1, <2>1
  <2> QED
    BY <2>2, EmptySeq
<1>3. ASSUME q = << >>
      PROVE  ToSet(q) = {}
  BY <1>3 DEF ToSet
<1> QED
  BY <1>2, <1>3

\* The first element is one of them.
LEMMA HeadInQueue ==
    ASSUME NEW S, NEW q \in Seq(S), q # << >>
    PROVE  Head(q) \in ToSet(q)
<1>1. 1 \in DOMAIN q /\ Head(q) = q[1]
  BY LenProperties, EmptySeq, HeadTailProperties
<1> QED
  BY <1>1 DEF ToSet

\* Appending a new element keeps a sequence free of repetitions.
LEMMA AppendOnce ==
    ASSUME NEW S, NEW q \in Seq(S), NEW x \in S,
           IsInjective(q), x \notin ToSet(q)
    PROVE  /\ IsInjective(Append(q, x))
           /\ ToSet(Append(q, x)) = ToSet(q) \union {x}
<1> DEFINE r == Append(q, x)
<1>1. /\ Len(q) \in Nat /\ r \in Seq(S) /\ Len(r) = Len(q) + 1
      /\ DOMAIN q = 1..Len(q) /\ DOMAIN r = 1..Len(q) + 1
      /\ \A i \in 1..Len(q) : r[i] = q[i]
      /\ r[Len(q) + 1] = x
  BY AppendProperties, LenProperties
<1>2. \A i \in 1..Len(q) : q[i] # x
  BY <1>1 DEF ToSet
<1> HIDE DEF r
<1>3. ASSUME NEW i \in DOMAIN r, NEW j \in DOMAIN r, r[i] = r[j]
      PROVE  i = j
  <2>1. CASE i \in 1..Len(q) /\ j \in 1..Len(q)
    BY <1>1, <1>3, <2>1 DEF IsInjective
  <2>2. CASE i \notin 1..Len(q) \/ j \notin 1..Len(q)
    BY <1>1, <1>2, <1>3, <2>2
  <2> QED
    BY <2>1, <2>2
<1>4. ToSet(r) = ToSet(q) \union {x}
  BY <1>1 DEF ToSet
<1> QED
  BY <1>3, <1>4 DEF IsInjective, r

\* Taking the first element out takes it out of the set.
LEMMA TailOnce ==
    ASSUME NEW S, NEW q \in Seq(S), q # << >>, IsInjective(q)
    PROVE  /\ IsInjective(Tail(q))
           /\ ToSet(Tail(q)) = ToSet(q) \ {Head(q)}
<1> DEFINE r == Tail(q)
<1>1. /\ Len(q) \in Nat /\ Len(q) > 0 /\ r \in Seq(S) /\ Len(r) = Len(q) - 1
      /\ DOMAIN q = 1..Len(q) /\ DOMAIN r = 1..Len(q) - 1
      /\ \A i \in 1..Len(q) - 1 : r[i] = q[i + 1]
      /\ Head(q) = q[1]
  BY HeadTailProperties, LenProperties, EmptySeq
<1> HIDE DEF r
<1>2. IsInjective(r)
  BY <1>1 DEF IsInjective
<1>3. ASSUME NEW y \in ToSet(r)
      PROVE  y \in ToSet(q) \ {Head(q)}
  <2>1. PICK i \in 1..Len(q) - 1 : y = q[i + 1]
    BY <1>1, <1>3 DEF ToSet
  <2>2. i + 1 \in DOMAIN q /\ 1 \in DOMAIN q /\ i + 1 # 1
    BY <1>1
  <2> QED
    BY <1>1, <2>1, <2>2 DEF ToSet, IsInjective
<1>4. ASSUME NEW y \in ToSet(q) \ {Head(q)}
      PROVE  y \in ToSet(r)
  <2>1. PICK i \in 1..Len(q) : y = q[i]
    BY <1>1, <1>4 DEF ToSet
  <2>2. i # 1
    BY <1>1, <1>4, <2>1
  <2>3. i - 1 \in DOMAIN r /\ r[i - 1] = y
    BY <1>1, <2>1, <2>2
  <2> QED
    BY <2>3 DEF ToSet
<1> QED
  BY <1>2, <1>3, <1>4 DEF r

\* One sequence behind another that has no element of it.
LEMMA ConcatOnce ==
    ASSUME NEW S, NEW p \in Seq(S), NEW q \in Seq(S),
           IsInjective(p), IsInjective(q), ToSet(p) \intersect ToSet(q) = {}
    PROVE  /\ p \o q \in Seq(S)
           /\ IsInjective(p \o q)
           /\ ToSet(p \o q) = ToSet(p) \union ToSet(q)
<1> DEFINE r == p \o q
<1>1. /\ Len(p) \in Nat /\ DOMAIN p = 1..Len(p)
      /\ Len(q) \in Nat /\ DOMAIN q = 1..Len(q)
  BY LenProperties
<1>2. /\ r \in Seq(S) /\ Len(r) = Len(p) + Len(q)
      /\ \A i \in 1..Len(p) + Len(q) :
           r[i] = IF i <= Len(p) THEN p[i] ELSE q[i - Len(p)]
  BY ConcatProperties
<1>3. DOMAIN r = 1..Len(p) + Len(q)
  BY <1>2, LenProperties
<1> HIDE DEF r
<1>4. \A i \in 1..Len(p), j \in 1..Len(q) : p[i] # q[j]
  BY <1>1 DEF ToSet
<1>5. IsInjective(r)
  <2> SUFFICES ASSUME NEW i \in 1..Len(p) + Len(q), NEW j \in 1..Len(p) + Len(q),
                      r[i] = r[j]
               PROVE  i = j
    BY <1>3 DEF IsInjective
  <2>1. CASE i <= Len(p) /\ j <= Len(p)
    BY <1>1, <1>2, <2>1 DEF IsInjective
  <2>2. CASE i > Len(p) /\ j > Len(p)
    <3>1. i - Len(p) \in 1..Len(q) /\ j - Len(p) \in 1..Len(q)
      BY <1>1, <2>2
    <3>2. q[i - Len(p)] = q[j - Len(p)]
      BY <1>1, <1>2, <2>2
    <3>3. i - Len(p) = j - Len(p)
      BY <1>1, <3>1, <3>2 DEF IsInjective
    <3> QED
      BY <1>1, <3>3
  <2>3. CASE i <= Len(p) /\ j > Len(p)
    <3>1. i \in 1..Len(p) /\ j - Len(p) \in 1..Len(q)
      BY <1>1, <2>3
    <3> QED
      BY <1>1, <1>2, <1>4, <2>3, <3>1
  <2>4. CASE i > Len(p) /\ j <= Len(p)
    <3>1. j \in 1..Len(p) /\ i - Len(p) \in 1..Len(q)
      BY <1>1, <2>4
    <3> QED
      BY <1>1, <1>2, <1>4, <2>4, <3>1
  <2> QED
    BY <1>1, <2>1, <2>2, <2>3, <2>4
<1>6. ToSet(r) = ToSet(p) \union ToSet(q)
  <2>1. ASSUME NEW x \in ToSet(r)
        PROVE  x \in ToSet(p) \union ToSet(q)
    <3>1. PICK i \in 1..Len(p) + Len(q) : x = r[i]
      BY <1>3, <2>1 DEF ToSet
    <3>2. CASE i <= Len(p)
      BY <1>1, <1>2, <3>1, <3>2 DEF ToSet
    <3>3. CASE i > Len(p)
      <4>1. i - Len(p) \in 1..Len(q) /\ x = q[i - Len(p)]
        BY <1>1, <1>2, <3>1, <3>3
      <4> QED
        BY <1>1, <4>1 DEF ToSet
    <3> QED
      BY <1>1, <3>2, <3>3
  <2>2. ASSUME NEW x \in ToSet(p)
        PROVE  x \in ToSet(r)
    <3>1. PICK i \in 1..Len(p) : x = p[i]
      BY <1>1, <2>2 DEF ToSet
    <3>2. i \in DOMAIN r /\ r[i] = x
      BY <1>1, <1>2, <1>3, <3>1
    <3> QED
      BY <3>2 DEF ToSet
  <2>3. ASSUME NEW x \in ToSet(q)
        PROVE  x \in ToSet(r)
    <3>1. PICK i \in 1..Len(q) : x = q[i]
      BY <1>1, <2>3 DEF ToSet
    <3>2. /\ Len(p) + i \in DOMAIN r /\ ~(Len(p) + i <= Len(p))
          /\ (Len(p) + i) - Len(p) = i
      BY <1>1, <1>3, <3>1
    <3>3. r[Len(p) + i] = x
      BY <1>2, <1>3, <3>1, <3>2
    <3> QED
      BY <3>2, <3>3 DEF ToSet
  <2> QED
    BY <2>1, <2>2, <2>3
<1> QED
  BY <1>2, <1>5, <1>6 DEF r

\* An order of a finite set of threads is a sequence of threads.
LEMMA OrdersAreSequences ==
    ASSUME NEW S, IsFiniteSet(S), NEW order \in SetToSeqs(S)
    PROVE  order \in Seq(S)
<1>1. Cardinality(S) \in Nat
  BY FS_CardinalityType
<1>2. order \in [1..Cardinality(S) -> S]
  BY DEF SetToSeqs
<1> QED
  BY <1>1, <1>2, SeqDef

\* An order of a finite set holds each of its elements once.
LEMMA OrdersOnce ==
    ASSUME NEW S, IsFiniteSet(S), NEW order \in SetToSeqs(S)
    PROVE  /\ order \in Seq(S)
           /\ IsInjective(order)
           /\ ToSet(order) = S
<1> DEFINE D == 1..Cardinality(S)
<1>1. Cardinality(S) \in Nat
  BY FS_CardinalityType
<1>2. /\ order \in [D -> S]
      /\ \A i, j \in D : i # j => order[i] # order[j]
  BY DEF SetToSeqs
<1>3. order \in Injection(D, S)
  BY <1>2 DEF Injection, IsInjective
<1>4. IsFiniteSet(D) /\ Cardinality(D) = Cardinality(S)
  BY <1>1, FS_Interval
<1>5. order \in Surjection(D, S)
  BY <1>3, <1>4, FS_Injection
<1>6. ToSet(order) = S
  BY <1>2, <1>5 DEF Surjection, ToSet
<1>7. IsInjective(order)
  BY <1>2 DEF IsInjective
<1> QED
  BY <1>6, <1>7, OrdersAreSequences

(***************************************************************************)
(* Removing and inserting.                                                 *)
(***************************************************************************)

\* Where SubSeq finds what is behind the k-th of n.
LEMMA BehindIndices ==
    ASSUME NEW n \in Nat, NEW k \in 1..n
    PROVE  /\ n - (k + 1) + 1 = n - k
           /\ (IF k + 1 <= n THEN n - (k + 1) + 1 ELSE 0) = n - k
           /\ \A i \in 1..n - k : k + 1 + i - 1 = k + i
  OBVIOUS

\* RemoveAt moves those behind up by one.
LEMMA RemoveAtProperties ==
    ASSUME NEW S, NEW q \in Seq(S), NEW k \in 1..Len(q)
    PROVE  /\ RemoveAt(q, k) \in Seq(S)
           /\ Len(RemoveAt(q, k)) = Len(q) - 1
           /\ \A i \in 1..Len(q) - 1 :
                RemoveAt(q, k)[i] = IF i < k THEN q[i] ELSE q[i + 1]
<1> DEFINE before == SubSeq(q, 1, k - 1)
           behind == SubSeq(q, k + 1, Len(q))
<1>1. Len(q) \in Nat /\ DOMAIN q = 1..Len(q) /\ \A i \in 1..Len(q) : q[i] \in S
  BY LenProperties
<1>2. /\ before \in Seq(S) /\ Len(before) = k - 1
      /\ \A i \in 1..k - 1 : before[i] = q[i]
  <2>1. 1 \in Int /\ k - 1 \in Int /\ \A i \in 1..k - 1 : q[i] \in S
    BY <1>1
  <2>2. /\ before \in Seq(S)
        /\ Len(before) = IF 1 <= k - 1 THEN k - 1 - 1 + 1 ELSE 0
        /\ \A i \in 1..k - 1 - 1 + 1 : before[i] = q[1 + i - 1]
    BY <2>1, SubSeqProperties
  <2> QED
    BY <1>1, <2>2
<1>3. /\ behind \in Seq(S) /\ Len(behind) = Len(q) - k
      /\ \A i \in 1..Len(q) - k : behind[i] = q[k + i]
  <2>1. k + 1 \in Int /\ Len(q) \in Int /\ \A i \in k + 1..Len(q) : q[i] \in S
    BY <1>1
  <2>2. /\ behind \in Seq(S)
        /\ Len(behind) = IF k + 1 <= Len(q) THEN Len(q) - (k + 1) + 1 ELSE 0
        /\ \A i \in 1..Len(q) - (k + 1) + 1 : behind[i] = q[k + 1 + i - 1]
    BY <2>1, SubSeqProperties
  <2> HIDE DEF behind
  <2>3. /\ Len(q) - (k + 1) + 1 = Len(q) - k
        /\ (IF k + 1 <= Len(q) THEN Len(q) - (k + 1) + 1 ELSE 0) = Len(q) - k
        /\ \A i \in 1..Len(q) - k : k + 1 + i - 1 = k + i
    BY <1>1, BehindIndices
  <2>4. \A i \in 1..Len(q) - k : behind[i] = q[k + i]
    <3> SUFFICES ASSUME NEW i \in 1..Len(q) - k
                 PROVE  behind[i] = q[k + i]
      OBVIOUS
    <3>1. k + 1 + i - 1 = k + i /\ i \in 1..Len(q) - (k + 1) + 1
      BY <2>3
    <3>2. behind[i] = q[k + 1 + i - 1]
      BY <2>2, <3>1
    <3> QED
      BY <3>1, <3>2
  <2> QED
    BY <2>2, <2>3, <2>4
<1> HIDE DEF before, behind
<1>4. /\ before \o behind \in Seq(S)
      /\ Len(before \o behind) = Len(before) + Len(behind)
      /\ \A i \in 1..Len(before) + Len(behind) :
           (before \o behind)[i] =
             IF i <= Len(before) THEN before[i] ELSE behind[i - Len(before)]
  BY <1>2, <1>3, ConcatProperties
<1>5. \A i \in 1..Len(q) - 1 :
        (before \o behind)[i] = IF i < k THEN q[i] ELSE q[i + 1]
  <2> SUFFICES ASSUME NEW i \in 1..Len(q) - 1
               PROVE  (before \o behind)[i] = IF i < k THEN q[i] ELSE q[i + 1]
    OBVIOUS
  <2>1. CASE i < k
    BY <1>1, <1>2, <1>3, <1>4, <2>1
  <2>2. CASE ~(i < k)
    <3>1. i - (k - 1) \in 1..Len(q) - k /\ k + (i - (k - 1)) = i + 1
      BY <1>1, <2>2
    <3>2. behind[i - (k - 1)] = q[i + 1]
      BY <1>3, <3>1
    <3> QED
      BY <1>1, <1>2, <1>3, <1>4, <2>2, <3>2
  <2> QED
    BY <2>1, <2>2
<1>6. RemoveAt(q, k) = before \o behind
  BY DEF RemoveAt, before, behind
<1>7. Len(before) + Len(behind) = Len(q) - 1
  BY <1>1, <1>2, <1>3
<1> QED
  BY <1>4, <1>5, <1>6, <1>7

\* Without repetitions, it removes one element.
LEMMA RemoveAtOnce ==
    ASSUME NEW S, NEW q \in Seq(S), IsInjective(q), NEW k \in 1..Len(q)
    PROVE  /\ IsInjective(RemoveAt(q, k))
           /\ ToSet(RemoveAt(q, k)) = ToSet(q) \ {q[k]}
<1> DEFINE r == RemoveAt(q, k)
<1>1. /\ r \in Seq(S) /\ Len(r) = Len(q) - 1
      /\ \A i \in 1..Len(q) - 1 : r[i] = IF i < k THEN q[i] ELSE q[i + 1]
  BY RemoveAtProperties
<1> HIDE DEF r
<1>2. Len(q) \in Nat /\ DOMAIN q = 1..Len(q) /\ DOMAIN r = 1..Len(q) - 1
  BY <1>1, LenProperties
<1>3. \A i, j \in 1..Len(q) : q[i] = q[j] => i = j
  BY <1>2 DEF IsInjective
<1> DEFINE at(i) == IF i < k THEN i ELSE i + 1
<1>4. \A i \in 1..Len(q) - 1 : at(i) \in 1..Len(q) /\ at(i) # k /\ r[i] = q[at(i)]
  BY <1>1, <1>2
<1>5. \A i, j \in 1..Len(q) - 1 : at(i) = at(j) => i = j
  BY <1>2
<1>6. \A i \in 1..Len(q) : i # k => \E j \in 1..Len(q) - 1 : at(j) = i
  <2> SUFFICES ASSUME NEW i \in 1..Len(q), i # k
               PROVE  \E j \in 1..Len(q) - 1 : at(j) = i
    OBVIOUS
  <2>1. CASE i < k
    BY <1>2, <2>1
  <2>2. CASE i > k
    <3>1. i - 1 \in 1..Len(q) - 1 /\ at(i - 1) = i
      BY <1>2, <2>2
    <3> QED
      BY <3>1
  <2> QED
    BY <2>1, <2>2
<1> HIDE DEF at
<1>7. IsInjective(r)
  BY <1>2, <1>3, <1>4, <1>5 DEF IsInjective
<1>8. ASSUME NEW x \in ToSet(r)
      PROVE  x \in ToSet(q) \ {q[k]}
  <2>1. PICK i \in 1..Len(q) - 1 : x = r[i]
    BY <1>2, <1>8 DEF ToSet
  <2>2. at(i) \in DOMAIN q /\ x = q[at(i)] /\ x # q[k]
    BY <1>2, <1>3, <1>4, <2>1
  <2> QED
    BY <2>2 DEF ToSet
<1>9. ASSUME NEW x \in ToSet(q) \ {q[k]}
      PROVE  x \in ToSet(r)
  <2>1. PICK i \in 1..Len(q) : x = q[i] /\ i # k
    BY <1>2, <1>9 DEF ToSet
  <2>2. PICK j \in 1..Len(q) - 1 : at(j) = i
    BY <1>6, <2>1
  <2>3. j \in DOMAIN r /\ r[j] = x
    BY <1>2, <1>4, <2>1, <2>2
  <2> QED
    BY <2>3 DEF ToSet
<1> QED
  BY <1>7, <1>8, <1>9 DEF r

\* SequencesExt's RemoveFirst, of a sequence without repetitions.
LEMMA RemoveFirstIs ==
    ASSUME NEW S, NEW c \in Seq(S), IsInjective(c), NEW i
    PROVE  /\ i \notin ToSet(c) => RemoveFirst(c, i) = c
           /\ \A k \in 1..Len(c) : c[k] = i => RemoveFirst(c, i) = RemoveAt(c, k)
<1>1. Len(c) \in Nat /\ DOMAIN c = 1..Len(c)
  BY LenProperties
<1>2. ASSUME i \notin ToSet(c)
      PROVE  RemoveFirst(c, i) = c
  <2>1. ~(\E k \in 1..Len(c) : c[k] = i)
    BY <1>1, <1>2 DEF ToSet
  <2> QED
    BY <2>1 DEF RemoveFirst
<1>3. ASSUME NEW k \in 1..Len(c), c[k] = i
      PROVE  RemoveFirst(c, i) = RemoveAt(c, k)
  <2>1. {j \in 1..Len(c) : c[j] = i} = {k}
    BY <1>1, <1>3 DEF IsInjective
  <2>2. Min({k}) = k
    BY <1>1 DEF Min
  <2>3. SelectInSeq(c, LAMBDA v : v = i) = k
    BY <2>1, <2>2 DEF SelectInSeq
  <2> QED
    BY <1>3, <2>3 DEF RemoveFirst
<1> QED
  BY <1>2, <1>3

\* InsertAt moves those from there on back by one.
LEMMA InsertAtProperties ==
    ASSUME NEW S, NEW q \in Seq(S), NEW k \in 1..Len(q) + 1, NEW x \in S
    PROVE  /\ InsertAt(q, k, x) \in Seq(S)
           /\ Len(InsertAt(q, k, x)) = Len(q) + 1
           /\ \A i \in 1..Len(q) + 1 :
                InsertAt(q, k, x)[i] =
                  IF i < k THEN q[i] ELSE IF i = k THEN x ELSE q[i - 1]
<1> DEFINE before == SubSeq(q, 1, k - 1)
           behind == SubSeq(q, k, Len(q))
<1>1. Len(q) \in Nat /\ DOMAIN q = 1..Len(q) /\ \A i \in 1..Len(q) : q[i] \in S
  BY LenProperties
<1>2. /\ before \in Seq(S) /\ Len(before) = k - 1
      /\ \A i \in 1..k - 1 : before[i] = q[i]
  <2>1. 1 \in Int /\ k - 1 \in Int /\ \A i \in 1..k - 1 : q[i] \in S
    BY <1>1
  <2>2. /\ before \in Seq(S)
        /\ Len(before) = IF 1 <= k - 1 THEN k - 1 - 1 + 1 ELSE 0
        /\ \A i \in 1..k - 1 - 1 + 1 : before[i] = q[1 + i - 1]
    BY <2>1, SubSeqProperties
  <2> QED
    BY <1>1, <2>2
<1>3. /\ behind \in Seq(S) /\ Len(behind) = Len(q) + 1 - k
      /\ \A i \in 1..Len(q) + 1 - k : behind[i] = q[k + i - 1]
  <2>1. k \in Int /\ Len(q) \in Int /\ \A i \in k..Len(q) : q[i] \in S
    BY <1>1
  <2>2. /\ behind \in Seq(S)
        /\ Len(behind) = IF k <= Len(q) THEN Len(q) - k + 1 ELSE 0
        /\ \A i \in 1..Len(q) - k + 1 : behind[i] = q[k + i - 1]
    BY <2>1, SubSeqProperties
  <2> QED
    BY <1>1, <2>2
<1> HIDE DEF before, behind
<1> DEFINE front == before \o <<x>>
<1>4. <<x>> \in Seq(S) /\ Len(<<x>>) = 1 /\ <<x>>[1] = x
  OBVIOUS
<1>5. /\ front \in Seq(S) /\ Len(front) = k
      /\ \A i \in 1..k - 1 : front[i] = q[i]
      /\ front[k] = x
  <2>1. /\ front \in Seq(S) /\ Len(front) = Len(before) + 1
        /\ \A i \in 1..Len(before) + 1 :
             front[i] = IF i <= Len(before) THEN before[i] ELSE <<x>>[i - Len(before)]
    BY <1>2, <1>4, ConcatProperties
  <2> HIDE DEF front
  <2>2. Len(before) = k - 1 /\ k - 1 \in Nat /\ Len(before) + 1 = k
    BY <1>1, <1>2
  <2>3. ASSUME NEW i \in 1..k - 1
        PROVE  front[i] = q[i]
    <3>1. i \in 1..Len(before) + 1 /\ i <= Len(before)
      BY <2>2
    <3>2. front[i] = before[i]
      BY <2>1, <3>1
    <3> QED
      BY <1>2, <3>2
  <2>4. front[k] = x
    <3>1. k \in 1..Len(before) + 1 /\ ~(k <= Len(before)) /\ k - Len(before) = 1
      BY <1>1, <2>2
    <3>2. front[k] = <<x>>[k - Len(before)]
      BY <2>1, <3>1
    <3> QED
      BY <1>4, <3>1, <3>2
  <2> QED
    BY <2>1, <2>2, <2>3, <2>4
<1> HIDE DEF front
<1>6. /\ front \o behind \in Seq(S)
      /\ Len(front \o behind) = Len(front) + Len(behind)
      /\ \A i \in 1..Len(front) + Len(behind) :
           (front \o behind)[i] =
             IF i <= Len(front) THEN front[i] ELSE behind[i - Len(front)]
  BY <1>3, <1>5, ConcatProperties
<1> DEFINE w == front \o behind
<1> HIDE DEF w
<1>7. \A i \in 1..Len(q) + 1 :
        /\ i < k => w[i] = q[i]
        /\ i = k => w[i] = x
        /\ i > k => w[i] = q[i - 1]
  <2>1. \A i \in 1..Len(q) + 1 : w[i] = IF i <= k THEN front[i] ELSE behind[i - k]
    BY <1>1, <1>3, <1>5, <1>6 DEF w
  <2> SUFFICES ASSUME NEW i \in 1..Len(q) + 1
               PROVE  /\ i < k => w[i] = q[i]
                      /\ i = k => w[i] = x
                      /\ i > k => w[i] = q[i - 1]
    OBVIOUS
  <2>2. CASE i <= k
    BY <1>1, <1>5, <2>1, <2>2
  <2>3. CASE i > k
    <3>1. i - k \in 1..Len(q) + 1 - k /\ k + (i - k) - 1 = i - 1
      BY <1>1, <2>3
    <3>2. behind[i - k] = q[i - 1]
      BY <1>3, <3>1
    <3>3. w[i] = behind[i - k]
      BY <2>1, <2>3
    <3> QED
      BY <1>1, <2>3, <3>2, <3>3
  <2> QED
    BY <1>1, <2>2, <2>3
<1>8. InsertAt(q, k, x) = w
  BY DEF InsertAt, before, behind, front, w
<1>9. Len(w) = Len(q) + 1 /\ w \in Seq(S)
  BY <1>1, <1>3, <1>5, <1>6 DEF w
<1>10. \A i \in 1..Len(q) + 1 :
         w[i] = IF i < k THEN q[i] ELSE IF i = k THEN x ELSE q[i - 1]
  BY <1>1, <1>7
<1> QED
  BY <1>8, <1>9, <1>10

\* Inserting a new element keeps a sequence free of repetitions.
LEMMA InsertAtOnce ==
    ASSUME NEW S, NEW q \in Seq(S), IsInjective(q), NEW k \in 1..Len(q) + 1,
           NEW x \in S, x \notin ToSet(q)
    PROVE  /\ IsInjective(InsertAt(q, k, x))
           /\ ToSet(InsertAt(q, k, x)) = ToSet(q) \union {x}
<1> DEFINE r == InsertAt(q, k, x)
<1>1. /\ r \in Seq(S) /\ Len(r) = Len(q) + 1
      /\ \A i \in 1..Len(q) + 1 :
           r[i] = IF i < k THEN q[i] ELSE IF i = k THEN x ELSE q[i - 1]
  <2> HIDE DEF r
  <2>1. InsertAt(q, k, x) = r
    BY DEF r
  <2>2. /\ InsertAt(q, k, x) \in Seq(S)
        /\ Len(InsertAt(q, k, x)) = Len(q) + 1
        /\ \A i \in 1..Len(q) + 1 :
             InsertAt(q, k, x)[i] = IF i < k THEN q[i] ELSE IF i = k THEN x ELSE q[i - 1]
    BY InsertAtProperties, SMTT(30)
  <2> QED
    BY <2>1, <2>2, Zenon
<1> HIDE DEF r
<1>2. Len(q) \in Nat /\ DOMAIN q = 1..Len(q) /\ DOMAIN r = 1..Len(q) + 1
  BY <1>1, LenProperties
<1>3. /\ \A i, j \in 1..Len(q) : q[i] = q[j] => i = j
      /\ \A i \in 1..Len(q) : q[i] # x
  BY <1>2 DEF IsInjective, ToSet
<1> DEFINE at(i) == IF i < k THEN i ELSE i - 1
<1>4. \A i \in 1..Len(q) + 1 : i # k => at(i) \in 1..Len(q) /\ r[i] = q[at(i)]
  BY <1>1, <1>2
<1>5. \A i, j \in 1..Len(q) + 1 : i # k /\ j # k /\ at(i) = at(j) => i = j
  BY <1>2
<1>6. \A i \in 1..Len(q) : \E j \in 1..Len(q) + 1 : j # k /\ at(j) = i
  <2> SUFFICES ASSUME NEW i \in 1..Len(q)
               PROVE  \E j \in 1..Len(q) + 1 : j # k /\ at(j) = i
    OBVIOUS
  <2>1. CASE i < k
    BY <1>2, <2>1
  <2>2. CASE i >= k
    <3>1. i + 1 \in 1..Len(q) + 1 /\ i + 1 # k /\ at(i + 1) = i
      BY <1>2, <2>2
    <3> QED
      BY <3>1
  <2> QED
    BY <2>1, <2>2
<1>7. k \in DOMAIN r /\ r[k] = x
  BY <1>1, <1>2
<1> HIDE DEF at
<1>8. IsInjective(r)
  <2> SUFFICES ASSUME NEW i \in 1..Len(q) + 1, NEW j \in 1..Len(q) + 1, r[i] = r[j]
               PROVE  i = j
    BY <1>2 DEF IsInjective
  <2> QED
    BY <1>3, <1>4, <1>5, <1>7
<1>9. ASSUME NEW y \in ToSet(r)
      PROVE  y \in ToSet(q) \union {x}
  <2>1. PICK i \in 1..Len(q) + 1 : y = r[i]
    BY <1>2, <1>9 DEF ToSet
  <2> QED
    BY <1>2, <1>4, <1>7, <2>1 DEF ToSet
<1>10. ASSUME NEW y \in ToSet(q)
       PROVE  y \in ToSet(r)
  <2>1. PICK i \in 1..Len(q) : y = q[i]
    BY <1>2, <1>10 DEF ToSet
  <2>2. PICK j \in 1..Len(q) + 1 : j # k /\ at(j) = i
    BY <1>6
  <2>3. j \in DOMAIN r /\ r[j] = y
    BY <1>2, <1>4, <2>1, <2>2
  <2> QED
    BY <2>3 DEF ToSet
<1> QED
  BY <1>7, <1>8, <1>9, <1>10 DEF r, ToSet

=============================================================================
