-------------------------- MODULE BellringerProofs --------------------------
(***************************************************************************)
(* Proof that the delta list of Bellringer keeps the times AlarmClock      *)
(* promises, for any bells, any number of them pending, and any times.     *)
(***************************************************************************)
EXTENDS Bellringer, SequenceLemmas

(***************************************************************************)
(* Elapsed and TicksLeft, of any list q and any values v.                  *)
(***************************************************************************)

Sums(q, v) ==
    LET sum[k \in 0..Len(q)] == IF k = 0 THEN 0 ELSE sum[k - 1] + v[q[k]]
    IN  [k \in 0..Len(q) |-> sum[k]]

Left(q, v) ==
    [b \in Bells |->
       IF b \in ToSet(q) THEN Sums(q, v)[CHOOSE k \in DOMAIN q : q[k] = b] ELSE 0]

\* g adds up the values along q.
AddsUp(g, q, v) ==
    /\ g \in [0..Len(q) -> Nat]
    /\ g[0] = 0
    /\ \A k \in 1..Len(q) : g[k] = g[k - 1] + v[q[k]]

\* The recursion of Elapsed is well founded.
LEMMA SumsAddUp ==
    ASSUME NEW q \in Seq(Bells), NEW v \in [Bells -> Nat]
    PROVE  AddsUp(Sums(q, v), q, v)
<1> DEFINE n == Len(q)
           G == [k \in 1..n |-> [y \in Nat |-> y + v[q[k]]]]
           Rec(f) == [k \in 0..n |-> IF k = 0 THEN 0 ELSE f[k - 1] + v[q[k]]]
<1>1. n \in Nat /\ \A k \in 1..n : v[q[k]] \in Nat
  BY LenProperties
<1>2. G \in [1..n -> [Nat -> Nat]]
  BY <1>1
<1>3. PICK f \in [0..n -> Nat] : Iterates(f, 0, n, G)
  <2>1. 0 \in Nat
    OBVIOUS
  <2> HIDE DEF n, G
  <2> QED
    BY <1>1, <1>2, <2>1, IterationExists
<1>4. \A k \in 1..n : f[k - 1] \in Nat /\ f[k] = f[k - 1] + v[q[k]]
  <2> SUFFICES ASSUME NEW k \in 1..n
               PROVE  f[k - 1] \in Nat /\ f[k] = f[k - 1] + v[q[k]]
    OBVIOUS
  <2>1. k - 1 \in 0..n
    BY <1>1
  <2>2. f[k - 1] \in Nat
    BY <1>3, <2>1
  <2>3. G[k][f[k - 1]] = f[k - 1] + v[q[k]]
    BY <2>2
  <2> QED
    BY <1>3, <2>2, <2>3 DEF Iterates
<1>5. f = Rec(f)
  <2>1. \A k \in 0..n : k = 0 \/ k \in 1..n
    BY <1>1
  <2>2. \A k \in 0..n : f[k] = Rec(f)[k]
    BY <1>3, <1>4, <2>1 DEF Iterates
  <2> QED
    BY <1>3, <2>2
<1> DEFINE c == CHOOSE g : g = Rec(g)
<1>6. c = Rec(c)
  BY <1>5
<1>7. Sums(q, v) = [k \in 0..n |-> c[k]]
  BY DEF Sums
<1> HIDE DEF c
<1>8. c = [k \in 0..n |-> c[k]]
  BY <1>6
<1>9. c[0] = f[0] /\ \A k \in 1..n : c[k] = c[k - 1] + v[q[k]]
  BY <1>1, <1>3, <1>6 DEF Iterates
<1>10. c = f
  <2> DEFINE H == [k \in 1..n |-> [y \in {c[k - 1], f[k - 1]} |-> y + v[q[k]]]]
  <2>1. \A k \in 1..n : c[k] = H[k][c[k - 1]] /\ f[k] = H[k][f[k - 1]]
    BY <1>4, <1>9
  <2> HIDE DEF H, n
  <2>2. Iterates(c, 0, n, H) /\ Iterates(f, 0, n, H)
    BY <1>3, <1>8, <1>9, <2>1 DEF Iterates
  <2> QED
    BY <1>1, <2>2, IterationUnique
<1> QED
  BY <1>3, <1>4, <1>7, <1>8, <1>10 DEF AddsUp, Iterates

\* Only one function adds them up.
LEMMA SumsAre ==
    ASSUME NEW q \in Seq(Bells), NEW v \in [Bells -> Nat], NEW g, AddsUp(g, q, v)
    PROVE  Sums(q, v) = g
<1> DEFINE n == Len(q)
           f == Sums(q, v)
           H == [k \in 1..n |-> [y \in Nat |-> y + v[q[k]]]]
<1>1. n \in Nat
  BY LenProperties
<1>2. AddsUp(f, q, v)
  BY SumsAddUp
<1> HIDE DEF f
<1>3. \A k \in 1..n : k - 1 \in 0..n
  BY <1>1
<1>4. \A k \in 1..n : f[k] = H[k][f[k - 1]]
  BY <1>2, <1>3 DEF AddsUp
<1>5. \A k \in 1..n : g[k] = H[k][g[k - 1]]
  BY <1>3 DEF AddsUp
<1>6. f = [k \in 0..n |-> f[k]] /\ g = [k \in 0..n |-> g[k]] /\ f[0] = 0 /\ g[0] = 0
  BY <1>2 DEF AddsUp
<1> HIDE DEF H, n
<1>7. Iterates(f, 0, n, H) /\ Iterates(g, 0, n, H)
  BY <1>4, <1>5, <1>6 DEF Iterates
<1> QED
  BY <1>1, <1>7, IterationUnique DEF f

\* A bell further back rings no earlier.
LEMMA SumsGrow ==
    ASSUME NEW q \in Seq(Bells), NEW v \in [Bells -> Nat], NEW g, AddsUp(g, q, v),
           NEW i \in 0..Len(q), NEW j \in 0..Len(q), i <= j
    PROVE  g[i] <= g[j]
<1> DEFINE T == {k \in i..Len(q) : g[k] < g[i]}
<1>1. Len(q) \in Nat /\ g \in [0..Len(q) -> Nat] /\ \A k \in 1..Len(q) : v[q[k]] \in Nat
  BY LenProperties DEF AddsUp
<1> DEFINE N == 0..Len(q)
<1>4. \A k \in N : g[k] \in Nat
  BY <1>1
<1>2. CASE T = {}
  <2>1. j \in i..Len(q) /\ i \in Nat
    BY <1>1
  <2>2. ~(g[j] < g[i])
    BY <1>2, <2>1
  <2>3. g[j] \in Nat /\ g[i] \in Nat
    BY <1>4
  <2> QED
    BY <2>2, <2>3
<1>3. CASE T # {}
  <2>1. PICK m \in T : \A k \in T : m <= k
    <3>1. T \in SUBSET Nat
      BY <1>1
    <3> HIDE DEF T
    <3> QED
      BY <1>3, <3>1, LeastNumber
  <2>2. m \in i + 1..Len(q) /\ m - 1 \in i..Len(q) /\ m - 1 \notin T
    <3>1. m # i
      BY <1>1, <2>1
    <3> QED
      BY <1>1, <2>1, <3>1
  <2>3. g[m - 1] \in Nat /\ g[i] \in Nat /\ g[m - 1] >= g[i]
    <3>1. m - 1 \in N
      BY <1>1, <2>2
    <3>2. g[m - 1] \in Nat /\ g[i] \in Nat
      BY <1>4, <3>1
    <3>3. ~(g[m - 1] < g[i])
      BY <2>2
    <3> QED
      BY <3>2, <3>3
  <2>4. g[m] = g[m - 1] + v[q[m]] /\ v[q[m]] \in Nat
    BY <1>1, <2>2 DEF AddsUp
  <2> QED
    BY <2>1, <2>3, <2>4
<1> QED
  BY <1>2, <1>3

\* The time left to the bells of the list, and to the others.
LEMMA LeftAt ==
    ASSUME NEW q \in Seq(Bells), IsInjective(q), NEW v \in [Bells -> Nat],
           NEW g, AddsUp(g, q, v)
    PROVE  /\ Left(q, v) \in [Bells -> Nat]
           /\ \A k \in 1..Len(q) : q[k] \in Bells /\ Left(q, v)[q[k]] = g[k]
           /\ \A b \in Bells \ ToSet(q) : Left(q, v)[b] = 0
<1>1. Len(q) \in Nat /\ DOMAIN q = 1..Len(q) /\ \A k \in 1..Len(q) : q[k] \in Bells
  BY LenProperties
<1>2. Sums(q, v) = g /\ \A k \in 1..Len(q) : g[k] \in Nat
  <2>1. Sums(q, v) = g
    BY SumsAre
  <2> QED
    BY <1>1, <2>1 DEF AddsUp
<1>3. ASSUME NEW k \in 1..Len(q)
      PROVE  Left(q, v)[q[k]] = g[k]
  <2>1. q[k] \in ToSet(q) /\ q[k] \in Bells
    BY <1>1 DEF ToSet
  <2>2. (CHOOSE j \in DOMAIN q : q[j] = q[k]) = k
    BY <1>1 DEF IsInjective
  <2> QED
    BY <1>2, <2>1, <2>2 DEF Left
<1>4. \A b \in Bells \ ToSet(q) : Left(q, v)[b] = 0
  BY DEF Left
<1>5. \A b \in ToSet(q) : \E k \in 1..Len(q) : q[k] = b
  BY <1>1 DEF ToSet
<1>6. Left(q, v) = [b \in Bells |-> Left(q, v)[b]]
  BY DEF Left
<1>7. ASSUME NEW b \in Bells
      PROVE  Left(q, v)[b] \in Nat
  <2>1. CASE b \in ToSet(q)
    <3>1. PICK k \in 1..Len(q) : q[k] = b
      BY <1>5, <2>1
    <3> QED
      BY <1>2, <1>3, <3>1
  <2>2. CASE b \notin ToSet(q)
    BY <1>4, <2>2
  <2> QED
    BY <2>1, <2>2
<1> QED
  BY <1>1, <1>3, <1>4, <1>6, <1>7

(***************************************************************************)
(* The invariant: outside check() no bell of the list has run down, so     *)
(* that a tick takes one off every pending bell.                           *)
(***************************************************************************)

BInv ==
    /\ bells \in Seq(Bells)
    /\ IsInjective(bells)
    /\ m_value \in [Bells -> Nat]
    /\ checking \in BOOLEAN
    /\ ~checking /\ bells # << >> => m_value[Head(bells)] > 0

\* The operators above, of the list as it is and as it will be.
LEMMA OfTheList ==
    /\ Elapsed(m_value) = Sums(bells, m_value)
    /\ TicksLeft = Left(bells, m_value)
    /\ TicksLeft' = Left(bells', m_value')
<1>1. \A v : Elapsed(v) = Sums(bells, v)
  BY DEF Elapsed, Sums
<1>2. Elapsed(m_value)' = Sums(bells', m_value')
  BY DEF Elapsed, Sums
<1>3. TicksLeft = Left(bells, m_value)
  BY <1>1 DEF TicksLeft, Left, Linked
<1>4. TicksLeft' = Left(bells', m_value')
  BY <1>2 DEF TicksLeft, Left, Linked
<1> QED
  BY <1>1, <1>3, <1>4

\* job(): the new bell gets its time, the others keep theirs.
LEMMA JobSums ==
    ASSUME BInv, NEW bell \in Bells \ ToSet(bells), NEW ticks \in Nat \ {0},
           Job(bell, ticks)
    PROVE  /\ bells' \in Seq(Bells) /\ IsInjective(bells')
           /\ ToSet(bells') = ToSet(bells) \union {bell}
           /\ m_value' \in [Bells -> Nat]
           /\ \E p \in 0..Len(bells) :
                LET S == Sums(bells, m_value)
                IN  /\ S[p] <= ticks
                    /\ bells' = InsertAt(bells, p + 1, bell)
                    /\ AddsUp([k \in 0..Len(bells) + 1 |->
                                 IF k <= p THEN S[k]
                                 ELSE IF k = p + 1 THEN ticks ELSE S[k - 1]],
                              bells', m_value')
<1> DEFINE n == Len(bells)
           value == [m_value EXCEPT ![bell] = ticks]
           S == Sums(bells, m_value)
           p == BellsBefore(value, ticks)
           rest == ticks - S[p]
           N == 0..n
<1>1. /\ n \in Nat /\ DOMAIN bells = 1..n /\ bells \in Seq(Bells)
      /\ \A k \in 1..n : bells[k] \in Bells /\ bells[k] # bell
      /\ m_value \in [Bells -> Nat] /\ ticks \in Nat
  BY LenProperties DEF BInv, ToSet
<1>2. \A i, j \in 1..n : bells[i] = bells[j] => i = j
  BY <1>1 DEF BInv, IsInjective
<1>3. AddsUp(S, bells, m_value)
  BY <1>1, SumsAddUp
<1> HIDE DEF S
<1>4. Elapsed(value) = S
  <2>1. value \in [Bells -> Nat] /\ \A k \in 1..n : value[bells[k]] = m_value[bells[k]]
    BY <1>1
  <2> HIDE DEF value
  <2>2. AddsUp(S, bells, value)
    BY <1>3, <2>1 DEF AddsUp
  <2>3. Sums(bells, value) = S
    BY <1>1, <2>1, <2>2, SumsAre
  <2> QED
    BY <2>3 DEF Elapsed, Sums
<1>5. \A k \in N : S[k] \in Nat
  BY <1>3 DEF AddsUp
<1>6. \A i, j \in N : i <= j => S[i] <= S[j]
  BY <1>1, <1>3, SumsGrow
<1>7. p \in N /\ S[p] <= ticks /\ \A k \in 1..n : k > p => S[k] > ticks
  <2> DEFINE B == {k \in 1..n : S[k] <= ticks}
             U == {k \in 1..n + 1 : k \notin B}
  <2>1. p = Cardinality(B)
    BY <1>4 DEF BellsBefore
  <2>2. PICK m \in U : \A k \in U : m <= k
    <3>1. U \in SUBSET Nat /\ n + 1 \in U
      BY <1>1
    <3> HIDE DEF U
    <3> QED
      BY <3>1, LeastNumber
  <2>3. \A k \in 1..n : k < m => S[k] <= ticks
    BY <1>1, <2>2
  <2>4. \A k \in 1..n : k >= m => S[k] > ticks
    <3> SUFFICES ASSUME NEW k \in 1..n, k >= m
                 PROVE  S[k] > ticks
      OBVIOUS
    <3>1. m \in 1..n /\ S[m] > ticks
      BY <1>1, <1>5, <2>2
    <3>2. S[m] <= S[k] /\ S[m] \in Nat /\ S[k] \in Nat
      BY <1>5, <1>6, <3>1
    <3> QED
      BY <1>1, <3>1, <3>2
  <2>5. B = 1..m - 1
    BY <1>1, <1>5, <2>2, <2>3, <2>4
  <2>6. p = m - 1
    <3>1. 1 \in Int /\ m - 1 \in Int /\ m \in 1..n + 1
      BY <1>1, <2>2
    <3>2. Cardinality(1..m - 1) = IF 1 > m - 1 THEN 0 ELSE m - 1 - 1 + 1
      BY <3>1, FS_Interval
    <3> HIDE DEF p, B
    <3> QED
      BY <2>1, <2>5, <3>1, <3>2
  <2> HIDE DEF p, B, U
  <2>7. m - 1 \in N /\ m \in 1..n + 1
    BY <1>1, <2>2 DEF U
  <2>8. S[m - 1] <= ticks
    <3>1. CASE m = 1
      <4>1. S[0] = 0
        BY <1>3 DEF AddsUp
      <4> QED
        BY <1>1, <3>1, <4>1
    <3>2. CASE m # 1
      <4>1. m - 1 \in 1..n /\ m - 1 < m
        BY <1>1, <2>7, <3>2
      <4> QED
        BY <2>3, <4>1
    <3> QED
      BY <3>1, <3>2
  <2> QED
    BY <1>1, <2>4, <2>6, <2>7, <2>8
<1>8. /\ m_value' = [DelayNext(value, p, rest) EXCEPT ![bell] = rest]
      /\ bells' = InsertAt(bells, p + 1, bell)
  BY <1>4 DEF Job
<1> HIDE DEF p
<1>9. rest \in Nat /\ S[p] \in Nat /\ S[p] + rest = ticks
  BY <1>1, <1>5, <1>7
<1>10. ASSUME p < n
       PROVE  m_value[bells[p + 1]] \in Nat /\ m_value[bells[p + 1]] - rest \in Nat
  <2>1. p + 1 \in 1..n /\ p + 1 > p /\ p + 1 - 1 = p
    BY <1>1, <1>7, <1>10
  <2>2. S[p + 1] = S[p] + m_value[bells[p + 1]] /\ S[p + 1] > ticks
    BY <1>3, <1>7, <2>1 DEF AddsUp
  <2>3. m_value[bells[p + 1]] \in Nat
    BY <1>1, <2>1
  <2> QED
    BY <1>1, <1>9, <2>2, <2>3
<1> HIDE DEF rest
<1>11. /\ m_value' \in [Bells -> Nat]
       /\ m_value'[bell] = rest
       /\ \A k \in 1..n :
            m_value'[bells[k]] =
              IF k = p + 1 THEN m_value[bells[k]] - rest ELSE m_value[bells[k]]
  <2>1. CASE p = n
    <3>1. m_value' = [value EXCEPT ![bell] = rest]
      BY <1>8, <2>1 DEF DelayNext
    <3> QED
      BY <1>1, <1>9, <2>1, <3>1
  <2>2. CASE p # n
    <3>1. p < n /\ p + 1 \in 1..n
      <4>1. p \in Nat /\ p <= n /\ n \in Nat
        BY <1>1, <1>7
      <4>2. p < n
        BY <2>2, <4>1
      <4> QED
        BY <4>1, <4>2
    <3>2. m_value' = [[value EXCEPT ![bells[p + 1]] = @ - rest] EXCEPT ![bell] = rest]
      BY <1>8, <2>2 DEF DelayNext
    <3>3. value[bells[p + 1]] = m_value[bells[p + 1]] /\ value \in [Bells -> Nat]
      BY <1>1, <3>1
    <3> QED
      BY <1>1, <1>2, <1>9, <1>10, <3>1, <3>2, <3>3
  <2> QED
    BY <2>1, <2>2
<1>12. /\ bells' \in Seq(Bells) /\ Len(bells') = n + 1
       /\ \A k \in 1..n + 1 :
            bells'[k] = IF k < p + 1 THEN bells[k] ELSE IF k = p + 1 THEN bell ELSE bells[k - 1]
  <2>1. bells \in Seq(Bells) /\ bell \in Bells /\ p + 1 \in 1..n + 1
    BY <1>1, <1>7
  <2> DEFINE at == p + 1
  <2>2. at \in 1..n + 1
    BY <2>1
  <2>4. bells' = InsertAt(bells, at, bell)
    BY <1>8
  <2> HIDE DEF at
  <2>3. /\ InsertAt(bells, at, bell) \in Seq(Bells)
        /\ Len(InsertAt(bells, at, bell)) = n + 1
        /\ \A k \in 1..n + 1 :
             InsertAt(bells, at, bell)[k] =
               IF k < at THEN bells[k] ELSE IF k = at THEN bell ELSE bells[k - 1]
    BY <2>1, <2>2, InsertAtProperties
  <2> QED
    BY <2>3, <2>4 DEF at
<1>13. IsInjective(bells') /\ ToSet(bells') = ToSet(bells) \union {bell}
  <2>1. p + 1 \in 1..n + 1
    BY <1>1, <1>7
  <2> QED
    BY <1>1, <1>8, <2>1, InsertAtOnce DEF BInv
<1> DEFINE T == [k \in 0..n + 1 |-> IF k <= p THEN S[k] ELSE IF k = p + 1 THEN ticks ELSE S[k - 1]]
<1>14. T \in [0..n + 1 -> Nat] /\ T[0] = 0
  <2>1. \A k \in 0..n + 1 : ~(k <= p) /\ k # p + 1 => k - 1 \in N
    BY <1>1, <1>7
  <2>2. \A k \in 0..n + 1 : k <= p => k \in N
    BY <1>1, <1>7
  <2>3. 0 \in 0..n + 1 /\ 0 <= p /\ S[0] = 0
    BY <1>1, <1>3, <1>7 DEF AddsUp
  <2> QED
    BY <1>1, <1>5, <2>1, <2>2, <2>3
<1>15. ASSUME NEW k \in 1..n + 1
       PROVE  T[k] = T[k - 1] + m_value'[bells'[k]]
  <2>0. k \in 0..n + 1 /\ k - 1 \in 0..n + 1 /\ p \in Nat /\ p <= n
    BY <1>1, <1>7
  <2>1. CASE k <= p
    <3>1. k \in 1..n /\ k - 1 <= p /\ k # p + 1 /\ k < p + 1
      BY <2>0, <2>1
    <3>2. T[k] = S[k] /\ T[k - 1] = S[k - 1]
      BY <2>0, <2>1, <3>1
    <3>3. bells'[k] = bells[k] /\ m_value'[bells[k]] = m_value[bells[k]]
      BY <1>11, <1>12, <3>1
    <3> QED
      BY <1>3, <3>1, <3>2, <3>3 DEF AddsUp
  <2>2. CASE k = p + 1
    <3>1. T[k] = ticks /\ T[k - 1] = S[p]
      BY <2>0, <2>2
    <3>2. m_value'[bells'[k]] = rest
      BY <1>11, <1>12, <2>0, <2>2
    <3> QED
      BY <1>9, <3>1, <3>2
  <2>3. CASE k = p + 2
    <3>1. p + 1 \in 1..n /\ p + 1 - 1 = p /\ k - 1 = p + 1 /\ p < n
      BY <1>1, <2>0, <2>3
    <3>2. T[k] = S[p + 1] /\ T[k - 1] = ticks
      BY <2>0, <2>3, <3>1
    <3>3. bells'[k] = bells[p + 1]
      BY <1>12, <2>0, <2>3, <3>1
    <3>4. m_value'[bells'[k]] = m_value[bells[p + 1]] - rest
      BY <1>11, <3>1, <3>3
    <3>5. S[p + 1] = S[p] + m_value[bells[p + 1]]
      <4> DEFINE at == p + 1
      <4>1. at \in 1..n /\ at - 1 = p
        BY <2>0, <3>1
      <4> HIDE DEF at
      <4>2. S[at] = S[p] + m_value[bells[at]]
        BY <1>3, <4>1 DEF AddsUp
      <4> QED
        BY <4>2 DEF at
    <3> HIDE DEF T
    <3>6. m_value[bells[p + 1]] \in Nat /\ S[p + 1] \in Nat
      BY <1>5, <1>10, <3>1
    <3> QED
      BY <1>1, <1>9, <3>2, <3>4, <3>5, <3>6
  <2>4. CASE k > p + 2
    <3>1. k - 1 \in 1..n /\ k - 1 # p + 1 /\ k - 1 > p + 1
      BY <1>1, <2>0, <2>4
    <3>2. T[k] = S[k - 1] /\ T[k - 1] = S[k - 1 - 1]
      BY <2>0, <2>4, <3>1
    <3>3. bells'[k] = bells[k - 1] /\ m_value'[bells[k - 1]] = m_value[bells[k - 1]]
      <4>1. ~(k < p + 1) /\ k # p + 1
        BY <2>0, <2>4
      <4>2. bells'[k] = bells[k - 1]
        BY <1>12, <4>1
      <4> QED
        BY <1>11, <3>1, <4>2
    <3> QED
      BY <1>3, <3>1, <3>2, <3>3 DEF AddsUp
  <2> QED
    BY <2>0, <2>1, <2>2, <2>3, <2>4
<1> HIDE DEF T
<1>16. AddsUp(T, bells', m_value')
  BY <1>1, <1>12, <1>14, <1>15 DEF AddsUp
<1> QED
  BY <1>7, <1>8, <1>11, <1>12, <1>13, <1>16 DEF S, T

\* The value of the first bell is what it has left.
LEMMA FirstSum ==
    ASSUME NEW q \in Seq(Bells), q # << >>, NEW v \in [Bells -> Nat],
           NEW g, AddsUp(g, q, v)
    PROVE  1 \in 1..Len(q) /\ Head(q) = q[1] /\ g[1] \in Nat /\ v[Head(q)] = g[1]
<1>1. Len(q) \in Nat /\ Len(q) # 0 /\ Head(q) = q[1] /\ q[1] \in Bells
  BY LenProperties, EmptySeq, HeadTailProperties
<1>2. 1 \in 1..Len(q)
  BY <1>1
<1>3. g[1] = g[0] + v[q[1]] /\ g[0] = 0
  BY <1>2, 1 - 1 = 0 DEF AddsUp
<1> QED
  BY <1>1, <1>2, <1>3

LEMMA JobStep ==
    ASSUME BInv, ~checking, NEW bell \in Bells \ ToSet(bells), NEW ticks \in Nat \ {0},
           Job(bell, ticks)
    PROVE  /\ BInv'
           /\ TicksLeft[bell] = 0
           /\ TicksLeft' = [TicksLeft EXCEPT ![bell] = ticks]
<1> DEFINE S == Sums(bells, m_value)
           n == Len(bells)
<1>1. /\ bells \in Seq(Bells) /\ IsInjective(bells) /\ m_value \in [Bells -> Nat]
      /\ checking' = checking
  BY DEF BInv, Job
<1>2. /\ bells' \in Seq(Bells) /\ IsInjective(bells') /\ m_value' \in [Bells -> Nat]
      /\ ToSet(bells') = ToSet(bells) \union {bell}
  BY JobSums
<1>3. PICK p \in 0..n :
        /\ S[p] <= ticks
        /\ bells' = InsertAt(bells, p + 1, bell)
        /\ AddsUp([k \in 0..n + 1 |->
                     IF k <= p THEN S[k] ELSE IF k = p + 1 THEN ticks ELSE S[k - 1]],
                  bells', m_value')
  BY JobSums
<1> DEFINE T == [k \in 0..n + 1 |->
                   IF k <= p THEN S[k] ELSE IF k = p + 1 THEN ticks ELSE S[k - 1]]
<1>4. AddsUp(S, bells, m_value) /\ AddsUp(T, bells', m_value')
  BY <1>1, <1>3, SumsAddUp
<1> HIDE DEF S
<1>5. n \in Nat /\ DOMAIN bells = 1..n
  BY <1>1, LenProperties
<1>6. /\ Len(bells') = n + 1
      /\ \A k \in 1..n + 1 :
           bells'[k] = IF k < p + 1 THEN bells[k] ELSE IF k = p + 1 THEN bell ELSE bells[k - 1]
  <2> DEFINE at == p + 1
  <2>1. at \in 1..n + 1 /\ bell \in Bells
    BY <1>5
  <2>2. bells' = InsertAt(bells, at, bell)
    BY <1>3
  <2> HIDE DEF at
  <2>3. /\ Len(InsertAt(bells, at, bell)) = n + 1
        /\ \A k \in 1..n + 1 :
             InsertAt(bells, at, bell)[k] =
               IF k < at THEN bells[k] ELSE IF k = at THEN bell ELSE bells[k - 1]
    BY <1>1, <2>1, InsertAtProperties
  <2> QED
    BY <2>2, <2>3 DEF at
<1> DEFINE L == Left(bells, m_value)
           M == Left(bells', m_value')
<1>7. /\ L \in [Bells -> Nat]
      /\ \A k \in 1..n : bells[k] \in Bells /\ L[bells[k]] = S[k]
      /\ \A b \in Bells \ ToSet(bells) : L[b] = 0
  BY <1>1, <1>4, LeftAt
<1>8. /\ M \in [Bells -> Nat]
      /\ \A k \in 1..n + 1 : M[bells'[k]] = T[k]
      /\ \A b \in Bells \ ToSet(bells') : M[b] = 0
  <2> HIDE DEF T
  <2>1. /\ M \in [Bells -> Nat]
        /\ \A k \in 1..Len(bells') : bells'[k] \in Bells /\ M[bells'[k]] = T[k]
        /\ \A b \in Bells \ ToSet(bells') : M[b] = 0
    BY <1>2, <1>4, LeftAt
  <2> QED
    BY <1>6, <2>1
<1>9. p + 1 \in 1..n + 1 /\ bells'[p + 1] = bell /\ T[p + 1] = ticks
  BY <1>5, <1>6
<1>10. ASSUME NEW k \in 1..n
       PROVE  M[bells[k]] = S[k]
  <2>1. CASE k <= p
    <3>1. k \in 1..n + 1 /\ bells'[k] = bells[k] /\ T[k] = S[k]
      BY <1>5, <1>6, <2>1
    <3> QED
      BY <1>8, <3>1
  <2>2. CASE k > p
    <3>1. /\ k + 1 \in 1..n + 1 /\ ~(k + 1 < p + 1) /\ ~(k + 1 <= p)
          /\ k + 1 # p + 1 /\ k + 1 - 1 = k
      BY <1>5, <2>2
    <3>2. bells'[k + 1] = bells[k] /\ T[k + 1] = S[k]
      BY <1>5, <1>6, <3>1
    <3> QED
      BY <1>8, <3>1, <3>2
  <2> QED
    BY <1>5, <2>1, <2>2
<1> HIDE DEF L, M
<1>11. ASSUME NEW b \in Bells
       PROVE  M[b] = IF b = bell THEN ticks ELSE L[b]
  <2>1. CASE b = bell
    BY <1>8, <1>9, <2>1
  <2>2. CASE b # bell /\ b \notin ToSet(bells)
    BY <1>2, <1>7, <1>8, <2>2
  <2>3. CASE b \in ToSet(bells)
    <3>1. PICK k \in 1..n : bells[k] = b
      BY <1>5, <2>3 DEF ToSet
    <3> QED
      BY <1>7, <1>10, <2>3, <3>1
  <2> QED
    BY <2>1, <2>2, <2>3
<1>12. L[bell] = 0 /\ M = [L EXCEPT ![bell] = ticks]
  BY <1>7, <1>8, <1>11
<1>13. m_value'[Head(bells')] > 0
  <2>1. bells' # << >>
    BY <1>5, <1>6
  <2>2. m_value'[Head(bells')] = T[1]
    <3> HIDE DEF T
    <3> QED
      BY <1>2, <1>4, <2>1, FirstSum
  <2>3. CASE p = 0
    BY <1>5, <2>2, <2>3
  <2>4. CASE p # 0
    <3>1. T[1] = S[1] /\ 1 \in 1..n
      BY <1>5, <2>4
    <3>2. bells # << >>
      BY <1>5, <3>1
    <3>3. m_value[Head(bells)] = S[1] /\ m_value[Head(bells)] > 0
      BY <1>1, <1>4, <3>2, FirstSum DEF BInv
    <3> QED
      BY <2>2, <3>1, <3>3
  <2> QED
    BY <2>3, <2>4
<1> QED
  BY <1>1, <1>2, <1>12, <1>13, OfTheList DEF BInv, L, M

\* cancel(): the bell's time is gone, the others keep theirs.
LEMMA CancelStep ==
    ASSUME BInv, NEW bell \in Bells, Cancel(bell)
    PROVE  BInv' /\ TicksLeft' = [TicksLeft EXCEPT ![bell] = 0]
<1> DEFINE S == Sums(bells, m_value)
           n == Len(bells)
<1>1. /\ bells \in Seq(Bells) /\ IsInjective(bells) /\ m_value \in [Bells -> Nat]
      /\ ~checking /\ checking' = checking
  BY DEF BInv, Cancel
<1>2. AddsUp(S, bells, m_value)
  BY <1>1, SumsAddUp
<1> HIDE DEF S
<1>3. /\ n \in Nat /\ DOMAIN bells = 1..n
      /\ \A j \in 1..n : bells[j] \in Bells /\ m_value[bells[j]] \in Nat
      /\ \A i, j \in 1..n : bells[i] = bells[j] => i = j
  BY <1>1, LenProperties DEF IsInjective
<1>4. PICK k \in 1..n :
        bells[k] = bell /\ m_value' = Inherit(k) /\ bells' = RemoveAt(bells, k)
  BY <1>3 DEF Cancel
<1>5. /\ m_value' \in [Bells -> Nat]
      /\ \A j \in 1..n : m_value'[bells[j]] =
           IF j = k + 1 THEN m_value[bells[j]] + m_value[bell] ELSE m_value[bells[j]]
  <2>1. CASE k = n
    <3>1. m_value' = m_value
      BY <1>4, <2>1 DEF Inherit
    <3> QED
      BY <1>1, <1>3, <2>1, <3>1
  <2>2. CASE k # n
    <3> DEFINE b == bells[k + 1]
    <3>1. k + 1 \in 1..n
      <4>1. k \in Nat /\ n \in Nat /\ 1 <= k /\ k <= n
        BY <1>3
      <4>2. k < n
        BY <2>2, <4>1
      <4> QED
        BY <4>1, <4>2
    <3>2. m_value' = [m_value EXCEPT ![b] = @ + m_value[bell]]
      BY <1>4, <2>2 DEF Inherit
    <3>3. b \in Bells /\ m_value[b] + m_value[bell] \in Nat
      BY <1>3, <1>4, <3>1
    <3>4. \A j \in 1..n : bells[j] = b <=> j = k + 1
      BY <1>3, <3>1
    <3> HIDE DEF b
    <3>5. \A x \in Bells :
            m_value'[x] = IF x = b THEN m_value[b] + m_value[bell] ELSE m_value[x]
      BY <1>1, <3>2
    <3> QED
      BY <1>1, <1>3, <3>2, <3>3, <3>4, <3>5
  <2> QED
    BY <2>1, <2>2
<1>6. /\ bells' \in Seq(Bells) /\ Len(bells') = n - 1
      /\ \A j \in 1..n - 1 : bells'[j] = IF j < k THEN bells[j] ELSE bells[j + 1]
  <2>1. /\ RemoveAt(bells, k) \in Seq(Bells) /\ Len(RemoveAt(bells, k)) = n - 1
        /\ \A j \in 1..n - 1 :
             RemoveAt(bells, k)[j] = IF j < k THEN bells[j] ELSE bells[j + 1]
    BY <1>1, RemoveAtProperties
  <2> QED
    BY <1>4, <2>1
<1>7. IsInjective(bells') /\ ToSet(bells') = ToSet(bells) \ {bell}
  BY <1>1, <1>4, RemoveAtOnce
<1> DEFINE T == [j \in 0..n - 1 |-> IF j < k THEN S[j] ELSE S[j + 1]]
<1>8. \A j \in 0..n : S[j] \in Nat
  BY <1>2 DEF AddsUp
<1>9. T \in [0..n - 1 -> Nat] /\ T[0] = 0
  <2>1. \A j \in 0..n - 1 : j \in 0..n /\ j + 1 \in 0..n
    BY <1>3
  <2>2. 0 \in 0..n - 1 /\ 0 < k /\ S[0] = 0
    BY <1>2, <1>3 DEF AddsUp
  <2> QED
    BY <1>8, <2>1, <2>2
<1>10. ASSUME NEW j \in 1..n - 1
       PROVE  T[j] = T[j - 1] + m_value'[bells'[j]]
  <2>0. /\ j \in 0..n - 1 /\ j - 1 \in 0..n - 1 /\ j \in 1..n /\ j + 1 \in 1..n
        /\ j + 1 - 1 = j
    BY <1>3
  <2>1. S[j] = S[j - 1] + m_value[bells[j]]
    BY <1>2, <2>0 DEF AddsUp
  <2>2. S[j + 1] = S[j] + m_value[bells[j + 1]]
    <3> DEFINE i == j + 1
    <3>1. i \in 1..n /\ i - 1 = j
      BY <2>0
    <3> HIDE DEF i
    <3>2. S[i] = S[j] + m_value[bells[i]]
      BY <1>2, <3>1 DEF AddsUp
    <3> QED
      BY <3>2 DEF i
  <2>3. S[j - 1] \in Nat /\ m_value[bells[j]] \in Nat /\ m_value[bells[j + 1]] \in Nat
    BY <1>3, <1>8, <2>0
  <2>4. CASE j < k
    <3>1. T[j] = S[j] /\ T[j - 1] = S[j - 1]
      BY <2>0, <2>4
    <3>2. m_value'[bells'[j]] = m_value[bells[j]]
      BY <1>3, <1>5, <1>6, <2>0, <2>4
    <3> QED
      BY <2>1, <3>1, <3>2
  <2>5. CASE j = k
    <3>1. T[j] = S[j + 1] /\ T[j - 1] = S[j - 1]
      BY <2>0, <2>5
    <3>2. m_value'[bells'[j]] = m_value[bells[j + 1]] + m_value[bells[j]]
      <4>1. bells'[j] = bells[j + 1]
        BY <1>6, <2>5
      <4>2. m_value'[bells[j + 1]] = m_value[bells[j + 1]] + m_value[bell]
        BY <1>5, <2>0, <2>5
      <4> QED
        BY <1>4, <2>5, <4>1, <4>2
    <3> HIDE DEF T
    <3> QED
      BY <2>1, <2>2, <2>3, <3>1, <3>2
  <2>6. CASE j > k
    <3>1. T[j] = S[j + 1] /\ T[j - 1] = S[j]
      <4>1. ~(j < k) /\ ~(j - 1 < k) /\ j - 1 + 1 = j
        BY <2>0, <2>6
      <4> QED
        BY <2>0, <4>1
    <3>2. m_value'[bells'[j]] = m_value[bells[j + 1]]
      <4>1. bells'[j] = bells[j + 1] /\ j + 1 # k + 1
        BY <1>6, <2>0, <2>6
      <4> QED
        BY <1>5, <2>0, <4>1
    <3> QED
      BY <2>2, <3>1, <3>2
  <2> QED
    BY <2>0, <2>4, <2>5, <2>6
<1>11. AddsUp(T, bells', m_value')
  BY <1>6, <1>9, <1>10 DEF AddsUp
<1> HIDE DEF T
<1>12. \A j \in 1..n - 1 : T[j] = IF j < k THEN S[j] ELSE S[j + 1]
  BY <1>3 DEF T
<1> DEFINE L == Left(bells, m_value)
           M == Left(bells', m_value')
<1>13. /\ L \in [Bells -> Nat]
       /\ \A j \in 1..n : L[bells[j]] = S[j]
       /\ \A b \in Bells \ ToSet(bells) : L[b] = 0
  BY <1>1, <1>2, LeftAt
<1>14. /\ M \in [Bells -> Nat]
       /\ \A j \in 1..n - 1 : M[bells'[j]] = T[j]
       /\ \A b \in Bells \ ToSet(bells') : M[b] = 0
  <2>1. /\ M \in [Bells -> Nat]
        /\ \A j \in 1..Len(bells') : bells'[j] \in Bells /\ M[bells'[j]] = T[j]
        /\ \A b \in Bells \ ToSet(bells') : M[b] = 0
    BY <1>5, <1>6, <1>7, <1>11, LeftAt
  <2> QED
    BY <1>6, <2>1
<1>15. ASSUME NEW i \in 1..n, i # k
       PROVE  M[bells[i]] = S[i]
  <2>1. CASE i < k
    <3>1. i \in 1..n - 1 /\ bells'[i] = bells[i] /\ T[i] = S[i]
      BY <1>3, <1>6, <1>12, <2>1
    <3> QED
      BY <1>14, <3>1
  <2>2. CASE i > k
    <3> DEFINE j == i - 1
    <3>1. j \in 1..n - 1 /\ ~(j < k) /\ j + 1 = i
      BY <1>3, <2>2
    <3> HIDE DEF j
    <3>2. bells'[j] = bells[i] /\ T[j] = S[i]
      BY <1>6, <1>12, <3>1
    <3> QED
      BY <1>14, <3>1, <3>2
  <2> QED
    BY <1>3, <1>15, <2>1, <2>2
<1> HIDE DEF L, M
<1>16. ASSUME NEW b \in Bells
       PROVE  M[b] = IF b = bell THEN 0 ELSE L[b]
  <2>1. CASE b = bell
    BY <1>7, <1>14, <2>1
  <2>2. CASE b # bell /\ b \notin ToSet(bells)
    BY <1>7, <1>13, <1>14, <2>2
  <2>3. CASE b # bell /\ b \in ToSet(bells)
    <3>1. PICK i \in 1..n : bells[i] = b
      BY <1>3, <2>3 DEF ToSet
    <3> QED
      BY <1>4, <1>13, <1>15, <2>3, <3>1
  <2> QED
    BY <2>1, <2>2, <2>3
<1>17. M = [L EXCEPT ![bell] = 0]
  BY <1>13, <1>14, <1>16
<1>18. ASSUME bells' # << >>
       PROVE  m_value'[Head(bells')] > 0
  <2>1. 1 \in 1..n - 1 /\ m_value'[Head(bells')] = T[1]
    BY <1>5, <1>6, <1>11, <1>18, FirstSum
  <2>2. bells # << >> /\ 1 \in 1..n /\ 2 \in 1..n
    BY <1>3, <2>1
  <2>3. m_value[Head(bells)] = S[1] /\ m_value[Head(bells)] > 0
    BY <1>1, <1>2, <2>2, FirstSum DEF BInv
  <2>4. S[1] <= S[2]
    BY <1>1, <1>2, <2>2, SumsGrow
  <2>5. T[1] = S[1] \/ T[1] = S[2]
    BY <1>12, <2>1
  <2>6. S[1] \in Nat /\ S[2] \in Nat
    BY <1>8, <2>2
  <2> QED
    BY <2>1, <2>3, <2>4, <2>5, <2>6
<1> QED
  BY <1>1, <1>5, <1>6, <1>7, <1>17, <1>18, OfTheList DEF BInv, L, M

\* While the first bell has not run down, no other has.
LEMMA PendingHaveTime ==
    ASSUME BInv, bells # << >> => m_value[Head(bells)] > 0
    PROVE  /\ TicksLeft \in [Bells -> Nat]
           /\ \A b \in Linked : b \in Bells /\ TicksLeft[b] > 0
           /\ \A b \in Bells \ Linked : TicksLeft[b] = 0
<1> DEFINE S == Sums(bells, m_value)
           n == Len(bells)
<1>1. bells \in Seq(Bells) /\ IsInjective(bells) /\ m_value \in [Bells -> Nat]
  BY DEF BInv
<1>2. AddsUp(S, bells, m_value)
  BY <1>1, SumsAddUp
<1> HIDE DEF S
<1>3. n \in Nat /\ DOMAIN bells = 1..n
  BY <1>1, LenProperties
<1>4. \A k \in 0..n : S[k] \in Nat
  BY <1>2 DEF AddsUp
<1>5. /\ TicksLeft \in [Bells -> Nat]
      /\ \A k \in 1..n : bells[k] \in Bells /\ TicksLeft[bells[k]] = S[k]
      /\ \A b \in Bells \ Linked : TicksLeft[b] = 0
  BY <1>1, <1>2, OfTheList, LeftAt DEF Linked
<1>6. ASSUME NEW k \in 1..n
      PROVE  S[k] > 0
  <2>1. bells # << >> /\ 1 \in 0..n /\ k \in 0..n /\ 1 <= k
    BY <1>3
  <2>2. m_value[Head(bells)] = S[1]
    BY <1>1, <1>2, <2>1, FirstSum
  <2>3. S[1] <= S[k]
    BY <1>1, <1>2, <2>1, SumsGrow
  <2>4. S[1] \in Nat /\ S[k] \in Nat /\ S[1] > 0
    BY <1>4, <2>1, <2>2
  <2> QED
    BY <2>3, <2>4
<1>7. \A b \in Linked : \E k \in 1..n : bells[k] = b
  BY <1>3 DEF Linked, ToSet
<1> QED
  BY <1>5, <1>6, <1>7

\* check() begins: one tick less for every pending bell.
LEMMA CheckFirstStep ==
    ASSUME BInv, CheckFirst
    PROVE  /\ BInv'
           /\ TicksLeft' = [b \in Bells |-> IF TicksLeft[b] = 0 THEN 0 ELSE TicksLeft[b] - 1]
           /\ {b \in Linked' : TicksLeft'[b] = 0} = {b \in Bells : TicksLeft[b] = 1}
<1> DEFINE S == Sums(bells, m_value)
           n == Len(bells)
           first == Head(bells)
<1>1. /\ bells \in Seq(Bells) /\ IsInjective(bells) /\ m_value \in [Bells -> Nat]
      /\ bells # << >> /\ m_value[first] > 0
      /\ checking' = TRUE /\ bells' = bells
  BY DEF BInv, CheckFirst
<1>2. AddsUp(S, bells, m_value)
  BY <1>1, SumsAddUp
<1> HIDE DEF S
<1>3. /\ n \in Nat /\ DOMAIN bells = 1..n /\ \A k \in 1..n : bells[k] \in Bells
      /\ \A i, j \in 1..n : bells[i] = bells[j] => i = j
  BY <1>1, LenProperties DEF IsInjective
<1>4. 1 \in 1..n /\ first = bells[1] /\ m_value[first] = S[1]
  BY <1>1, <1>2, FirstSum
<1> HIDE DEF first
<1>5. m_value[first] \in Nat /\ first \in Bells
  BY <1>1, <1>3, <1>4
<1>6. m_value' = [m_value EXCEPT ![first] = @ - 1]
  <2>1. m_value' = [m_value EXCEPT ![first] = IF @ = 0 THEN 0 ELSE @ - 1]
    BY DEF CheckFirst, first
  <2>2. m_value[first] # 0
    BY <1>1, <1>5
  <2> QED
    BY <2>1, <2>2
<1>7. /\ m_value' \in [Bells -> Nat] /\ m_value'[first] = m_value[first] - 1
      /\ \A b \in Bells : b # first => m_value'[b] = m_value[b]
  BY <1>1, <1>5, <1>6
<1>8. /\ TicksLeft \in [Bells -> Nat]
      /\ \A b \in Linked : b \in Bells /\ TicksLeft[b] > 0
      /\ \A b \in Bells \ Linked : TicksLeft[b] = 0
  BY <1>1, PendingHaveTime DEF first
<1>9. \A k \in 1..n : TicksLeft[bells[k]] = S[k] /\ bells[k] \in Linked
  <2>1. \A k \in 1..n : Left(bells, m_value)[bells[k]] = S[k]
    BY <1>1, <1>2, LeftAt
  <2> QED
    BY <1>3, <2>1, OfTheList DEF Linked, ToSet
<1>10. \A k \in 1..n : S[k] > 0 /\ S[k] \in Nat
  BY <1>8, <1>9
<1> DEFINE T == [k \in 0..n |-> IF k = 0 THEN 0 ELSE S[k] - 1]
<1>11. T \in [0..n -> Nat]
  <2>1. \A k \in 0..n : k # 0 => k \in 1..n
    BY <1>3
  <2>2. \A k \in 1..n : S[k] - 1 \in Nat
    BY <1>10
  <2> QED
    BY <2>1, <2>2
<1>12. T[0] = 0
  BY <1>3
<1>13. ASSUME NEW k \in 1..n
       PROVE  T[k] = T[k - 1] + m_value'[bells[k]]
  <2>1. /\ k \in 0..n /\ k # 0 /\ k - 1 \in 0..n
        /\ m_value[bells[k]] \in Nat /\ S[k] = S[k - 1] + m_value[bells[k]]
    BY <1>1, <1>2, <1>3 DEF AddsUp
  <2>2. T[k] = S[k] - 1
    BY <2>1
  <2>3. CASE k = 1
    <3>1. T[k - 1] = 0 /\ S[k - 1] = 0
      BY <1>2, <2>1, <2>3 DEF AddsUp
    <3>2. m_value'[bells[k]] = m_value[bells[k]] - 1
      BY <1>4, <1>7, <2>3
    <3> QED
      BY <1>5, <2>1, <2>2, <2>3, <3>1, <3>2, <1>4
  <2>4. CASE k # 1
    <3>1. k - 1 \in 1..n /\ k - 1 # 0
      BY <2>1, <2>4
    <3>2. T[k - 1] = S[k - 1] - 1 /\ S[k - 1] \in Nat
      BY <1>10, <2>1, <3>1
    <3>3. m_value'[bells[k]] = m_value[bells[k]]
      BY <1>3, <1>4, <1>7, <2>4
    <3> HIDE DEF T
    <3> QED
      BY <2>1, <2>2, <3>2, <3>3
  <2> QED
    BY <2>3, <2>4
<1>14. AddsUp(T, bells, m_value')
  <2> HIDE DEF T
  <2> QED
    BY <1>11, <1>12, <1>13 DEF AddsUp
<1>15. \A k \in 1..n : T[k] = S[k] - 1
  BY <1>3
<1> HIDE DEF T
<1> DEFINE M == Left(bells, m_value')
<1>16. /\ M \in [Bells -> Nat]
       /\ \A k \in 1..n : M[bells[k]] = T[k]
       /\ \A b \in Bells \ Linked : M[b] = 0
  <2>1. bells \in Seq(Bells) /\ IsInjective(bells) /\ m_value' \in [Bells -> Nat]
    BY <1>1, <1>7
  <2> QED
    BY <1>14, <2>1, LeftAt DEF Linked
<1>17. TicksLeft' = M /\ Linked' = Linked
  BY <1>1, OfTheList DEF Linked
<1> HIDE DEF M
<1>18. \A b \in Linked : \E k \in 1..n : bells[k] = b
  BY <1>3 DEF Linked, ToSet
<1>19. \A b \in Linked : M[b] = TicksLeft[b] - 1
  BY <1>9, <1>15, <1>16, <1>18
<1>20. \A b \in Bells : M[b] = IF TicksLeft[b] = 0 THEN 0 ELSE TicksLeft[b] - 1
  BY <1>8, <1>16, <1>19
<1>21. {b \in Linked : M[b] = 0} = {b \in Bells : TicksLeft[b] = 1}
  <2>1. \A b \in Bells : TicksLeft[b] \in Nat
    BY <1>8
  <2>2. \A b \in Linked : M[b] = 0 <=> TicksLeft[b] = 1
    BY <1>8, <1>19, <2>1
  <2>3. \A b \in Bells : TicksLeft[b] = 1 => b \in Linked
    BY <1>8
  <2> QED
    BY <1>8, <2>2, <2>3
<1> QED
  BY <1>1, <1>7, <1>16, <1>17, <1>20, <1>21 DEF BInv

\* A bell that has run down leaves the list and rings; the others keep their times.
LEMMA RingFirstStep ==
    ASSUME BInv, RingFirst
    PROVE  /\ BInv' /\ checking /\ checking'
           /\ TicksLeft' = TicksLeft
           /\ Head(bells) \in {b \in Linked : TicksLeft[b] = 0}
           /\ {b \in Linked' : TicksLeft'[b] = 0}
                = {b \in Linked : TicksLeft[b] = 0} \ {Head(bells)}
<1> DEFINE S == Sums(bells, m_value)
           n == Len(bells)
           first == Head(bells)
<1>1. /\ bells \in Seq(Bells) /\ IsInjective(bells) /\ m_value \in [Bells -> Nat]
      /\ bells # << >> /\ m_value[first] = 0
      /\ bells' = Tail(bells) /\ m_value' = m_value /\ checking /\ checking' = checking
  BY DEF BInv, RingFirst, RunDown
<1>2. AddsUp(S, bells, m_value)
  BY <1>1, SumsAddUp
<1> HIDE DEF S
<1>3. n \in Nat /\ DOMAIN bells = 1..n /\ \A k \in 1..n : bells[k] \in Bells
  BY <1>1, LenProperties
<1>4. 1 \in 1..n /\ first = bells[1] /\ S[1] = 0
  BY <1>1, <1>2, FirstSum
<1> DEFINE q == Tail(bells)
<1>5. /\ q \in Seq(Bells) /\ Len(q) = n - 1
      /\ \A k \in 1..n - 1 : q[k] = bells[k + 1]
  BY <1>1, HeadTailProperties
<1>6. IsInjective(q) /\ ToSet(q) = ToSet(bells) \ {first}
  BY <1>1, TailOnce
<1> HIDE DEF q, first
<1> DEFINE T == [k \in 0..n - 1 |-> S[k + 1]]
<1>7. AddsUp(T, q, m_value)
  <2>1. \A k \in 0..n - 1 : k + 1 \in 0..n /\ k + 1 \in 1..n /\ k + 1 - 1 = k
    BY <1>3
  <2>2. T \in [0..n - 1 -> Nat]
    BY <1>2, <2>1 DEF AddsUp
  <2>3. 0 \in 0..n - 1 /\ T[0] = 0
    BY <1>3, <1>4
  <2>4. ASSUME NEW k \in 1..n - 1
        PROVE  T[k] = T[k - 1] + m_value[q[k]]
    <3> DEFINE i == k + 1
    <3>1. i \in 1..n /\ i - 1 = k /\ k \in 0..n - 1 /\ k - 1 \in 0..n - 1 /\ k - 1 + 1 = k
      BY <1>3
    <3>2. q[k] = bells[i]
      BY <1>5
    <3>3. T[k] = S[i] /\ T[k - 1] = S[k]
      BY <3>1
    <3> HIDE DEF i, T
    <3>4. S[i] = S[k] + m_value[bells[i]]
      BY <1>2, <3>1 DEF AddsUp
    <3> QED
      BY <3>2, <3>3, <3>4
  <2> HIDE DEF T
  <2> QED
    BY <1>5, <2>2, <2>3, <2>4 DEF AddsUp
<1>8. \A k \in 1..n - 1 : T[k] = S[k + 1]
  BY <1>3
<1> HIDE DEF T
<1> DEFINE L == Left(bells, m_value)
           M == Left(q, m_value)
<1>9. /\ L \in [Bells -> Nat]
      /\ \A k \in 1..n : bells[k] \in Bells /\ L[bells[k]] = S[k]
      /\ \A b \in Bells \ ToSet(bells) : L[b] = 0
  BY <1>1, <1>2, LeftAt
<1>10. /\ M \in [Bells -> Nat]
       /\ \A k \in 1..n - 1 : M[q[k]] = T[k]
       /\ \A b \in Bells \ ToSet(q) : M[b] = 0
  <2>1. m_value \in [Bells -> Nat]
    BY <1>1
  <2> QED
    BY <1>5, <1>6, <1>7, <2>1, LeftAt
<1> HIDE DEF L, M
<1>11. ASSUME NEW b \in Bells
       PROVE  M[b] = L[b]
  <2>1. CASE b = first
    BY <1>4, <1>6, <1>9, <1>10, <2>1
  <2>2. CASE b \notin ToSet(bells)
    BY <1>6, <1>9, <1>10, <2>2
  <2>3. CASE b \in ToSet(bells) /\ b # first
    <3>1. PICK i \in 1..n : bells[i] = b
      BY <1>3, <2>3 DEF ToSet
    <3> DEFINE k == i - 1
    <3>2. i # 1
      BY <1>4, <2>3, <3>1
    <3>3. k \in 1..n - 1 /\ k + 1 = i
      BY <1>3, <3>2
    <3> HIDE DEF k
    <3> QED
      BY <1>5, <1>8, <1>9, <1>10, <3>1, <3>3
  <2> QED
    BY <2>1, <2>2, <2>3
<1>12. M = L
  BY <1>9, <1>10, <1>11
<1>13. TicksLeft = L /\ TicksLeft' = M
  BY <1>1, OfTheList DEF L, M, q
<1>14. Linked = ToSet(bells) /\ Linked' = Linked \ {first}
  BY <1>1, <1>6 DEF Linked, q
<1>15. first \in Linked /\ L[first] = 0
  BY <1>3, <1>4, <1>9 DEF Linked, ToSet
<1>16. first = Head(bells)
  BY DEF first
<1>17. BInv'
  BY <1>1, <1>5, <1>6 DEF BInv, q
<1> QED
  BY <1>1, <1>12, <1>13, <1>14, <1>15, <1>16, <1>17

(***************************************************************************)
(* The refinement.                                                         *)
(***************************************************************************)

\* The bells that are ringing, as AlarmClock sees them.
Ringing == IF checking THEN {b \in Linked : TicksLeft[b] = 0} ELSE {}

LEMMA InitClock == Init => BInv /\ Clock!Init
<1> SUFFICES ASSUME Init
             PROVE  BInv /\ Clock!Init
  OBVIOUS
<1>1. bells = << >> /\ m_value = [b \in Bells |-> 0] /\ checking = FALSE
  BY DEF Init
<1>2. BInv
  <2>1. bells \in Seq(Bells) /\ IsInjective(bells)
    BY <1>1 DEF IsInjective
  <2>2. m_value \in [Bells -> Nat]
    BY <1>1
  <2> QED
    BY <1>1, <2>1, <2>2 DEF BInv
<1>3. TicksLeft = [b \in Bells |-> 0]
  BY <1>1 DEF TicksLeft, Linked, ToSet
<1> QED
  BY <1>1, <1>2, <1>3 DEF Clock!Init

\* Each step of the Bellringer is the step of AlarmClock of the same name.
LEMMA SleepIsSet ==
    ASSUME BInv, NEW bell \in Bells, NEW ticks \in 1..MaxTicks, Sleep(bell, ticks)
    PROVE  BInv' /\ Clock!Set(bell, ticks)
<1>1. ~checking /\ bell \notin ToSet(bells) /\ Job(bell, ticks) /\ checking' = checking
  BY DEF Sleep, Linked, Job
<1>2. ticks \in Nat \ {0}
  BY BellAssumption
<1>3. BInv' /\ TicksLeft[bell] = 0 /\ TicksLeft' = [TicksLeft EXCEPT ![bell] = ticks]
  BY <1>1, <1>2, JobStep
<1> QED
  BY <1>1, <1>3 DEF Clock!Set

LEMMA CancelIsCancel ==
    ASSUME BInv, NEW bell \in Bells, Cancel(bell)
    PROVE  BInv' /\ Clock!Cancel(bell)
<1>1. ~checking /\ checking' = checking
  BY DEF Cancel
<1>2. BInv' /\ TicksLeft' = [TicksLeft EXCEPT ![bell] = 0]
  BY CancelStep
<1> QED
  BY <1>1, <1>2 DEF Clock!Cancel

LEMMA CheckFirstIsTick ==
    ASSUME BInv, CheckFirst
    PROVE  BInv' /\ Clock!Tick
<1>1. ~checking /\ checking'
  BY DEF CheckFirst
<1> QED
  BY <1>1, CheckFirstStep DEF Clock!Tick

LEMMA RingFirstIsRing ==
    ASSUME BInv, RingFirst
    PROVE  BInv' /\ Head(bells) \in Bells /\ Clock!Ring(Head(bells))
<1>1. Head(bells) \in Bells
  BY HeadTailProperties DEF BInv, RingFirst, RunDown
<1> QED
  BY <1>1, RingFirstStep DEF Clock!Ring

\* check() ends: no bell is left to ring.
LEMMA CheckDoneIsNothing ==
    ASSUME BInv, CheckDone
    PROVE  BInv' /\ TicksLeft' = TicksLeft /\ Ringing' = Ringing
<1>1. /\ checking /\ checking' = FALSE /\ bells' = bells /\ m_value' = m_value
      /\ bells # << >> => m_value[Head(bells)] # 0
  BY DEF CheckDone, RunDown
<1>2. bells # << >> => m_value[Head(bells)] > 0
  BY <1>1, HeadTailProperties DEF BInv
<1>3. TicksLeft' = TicksLeft
  BY <1>1, OfTheList
<1>4. Ringing = {} /\ Ringing' = {}
  BY <1>1, <1>2, PendingHaveTime DEF Ringing
<1> QED
  BY <1>1, <1>2, <1>3, <1>4 DEF BInv

LEMMA NothingHappens ==
    ASSUME BInv, UNCHANGED vars
    PROVE  BInv' /\ TicksLeft' = TicksLeft /\ Ringing' = Ringing
<1>1. bells' = bells /\ m_value' = m_value /\ checking' = checking
  BY DEF vars
<1>2. TicksLeft' = TicksLeft /\ Linked' = Linked
  BY <1>1, OfTheList DEF Linked
<1> QED
  BY <1>1, <1>2 DEF BInv, Ringing

LEMMA StepClock ==
    ASSUME BInv, [Next]_vars
    PROVE  /\ BInv'
           /\ [Clock!Next]_<<TicksLeft, Ringing>>
           /\ CallsKeepTime
<1>1. CallsKeepTime
  BY SleepIsSet, CancelIsCancel, CheckFirstIsTick, RingFirstIsRing DEF CallsKeepTime
<1>2. ASSUME NEW b \in Bells, NEW n \in 1..MaxTicks, Sleep(b, n)
      PROVE  BInv' /\ Clock!Next
  BY <1>2, SleepIsSet DEF Clock!Next
<1>3. ASSUME NEW b \in Bells, Cancel(b)
      PROVE  BInv' /\ Clock!Next
  BY <1>3, CancelIsCancel DEF Clock!Next
<1>4. CASE CheckFirst
  BY <1>1, <1>4, CheckFirstIsTick DEF Clock!Next
<1>5. CASE RingFirst
  <2>1. BInv' /\ Head(bells) \in Bells /\ Clock!Ring(Head(bells))
    BY <1>5, RingFirstIsRing
  <2>2. \E b \in Bells : Clock!Ring(b)
    BY <2>1 DEF Clock!Ring
  <2>3. Clock!Next
    BY <2>2 DEF Clock!Next
  <2> QED
    BY <1>1, <2>1, <2>3
<1>6. CASE CheckDone
  BY <1>1, <1>6, CheckDoneIsNothing
<1>7. CASE UNCHANGED vars
  BY <1>1, <1>7, NothingHappens
<1> QED
  BY <1>1, <1>2, <1>3, <1>4, <1>5, <1>6, <1>7 DEF Next

\* Every bell rings at its tick, for any bells and any times: the delta list of
\* the Bellringer implements AlarmClock, and each call has its effect there.
THEOREM BellsOnTime == Spec => RingsOnTime
<1>1. Init => BInv /\ Clock!Init
  BY InitClock
<1>2. BInv /\ [Next]_vars => BInv'
  BY StepClock
<1>3. BInv /\ [Next]_vars => [Clock!Next]_<<TicksLeft, Ringing>>
  BY StepClock
<1>4. BInv /\ [Next]_vars => [CallsKeepTime]_vars
  BY StepClock
<1> QED
  BY <1>1, <1>2, <1>3, <1>4, PTL DEF Spec, RingsOnTime, Clock!Spec, Ringing

=============================================================================
