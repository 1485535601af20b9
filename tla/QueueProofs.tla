---------------------------- MODULE QueueProofs ----------------------------
(***************************************************************************)
(* Proof that the pointers of Queue behave as the sequence of Fifo, for    *)
(* any items, any number of them linked, and any history of calls.         *)
(***************************************************************************)
EXTENDS Queue, SequenceLemmas

(***************************************************************************)
(* The lists whose links form a chain.                                     *)
(***************************************************************************)

Lists == [head : Items \union {NULL},
          tail : Items \union {NULL},
          next : [Items -> Items \union {NULL}]]

\* The links of l lead through c, in order and once each, and end there.
Chains(l, c) ==
    /\ l \in Lists
    /\ c \in Seq(Items)
    /\ IsInjective(c)
    /\ l.head = IF c = << >> THEN NULL ELSE c[1]
    /\ \A k \in 1..Len(c) :
         l.next[c[k]] = IF k = Len(c) THEN NULL ELSE c[k + 1]

\* A chain is no longer than there are items.
LEMMA ChainFits ==
    ASSUME NEW c \in Seq(Items), IsInjective(c)
    PROVE  Len(c) \in Nat /\ Cardinality(Items) \in Nat /\ Len(c) <= Cardinality(Items)
<1>1. Len(c) \in Nat /\ DOMAIN c = 1..Len(c) /\ c \in [1..Len(c) -> Items]
  BY LenProperties
<1>2. IsFiniteSet(Items) /\ Cardinality(Items) \in Nat
  BY ItemsAssumption, FS_CardinalityType
<1>3. c \in Injection(1..Len(c), Items)
  BY <1>1 DEF Injection, IsInjective
<1>4. Cardinality(1..Len(c)) <= Cardinality(Items)
  BY <1>2, <1>3, FS_Injection
<1>5. Cardinality(1..Len(c)) = Len(c)
  <2>1. 1 \in Int /\ Len(c) \in Int
    BY <1>1
  <2>2. Cardinality(1..Len(c)) = IF 1 > Len(c) THEN 0 ELSE Len(c) - 1 + 1
    BY <2>1, FS_Interval
  <2> QED
    BY <1>1, <2>2
<1> QED
  BY <1>1, <1>2, <1>4, <1>5

\* Following the links visits the chain and ends at NULL.
LEMMA NthOfChain ==
    ASSUME NEW l, NEW c, Chains(l, c)
    PROVE  Nth(l) = [k \in 0..Cardinality(Items) |-> IF k < Len(c) THEN c[k + 1] ELSE NULL]
<1> DEFINE n == Cardinality(Items)
           Follow == [i \in Items \union {NULL} |-> IF i = NULL THEN NULL ELSE l.next[i]]
           Rec(f) == [k \in 0..n |-> IF k = 0 THEN l.head ELSE Follow[f[k - 1]]]
           g == [k \in 0..n |-> IF k < Len(c) THEN c[k + 1] ELSE NULL]
<1>1. /\ Len(c) \in Nat /\ n \in Nat /\ Len(c) <= n
      /\ \A k \in 1..Len(c) : c[k] \in Items /\ c[k] # NULL
  BY ChainFits, LenProperties, ItemsAssumption DEF Chains
<1>2. g[0] = l.head
  <2>1. c = << >> <=> Len(c) = 0
    BY EmptySeq DEF Chains
  <2>2. 0 \in 0..n /\ 0 + 1 = 1
    BY <1>1
  <2> QED
    BY <1>1, <2>1, <2>2 DEF Chains
<1>3. ASSUME NEW k \in 1..n
      PROVE  g[k] = Follow[g[k - 1]]
  <2>1. k \in 0..n /\ k - 1 \in 0..n /\ k - 1 + 1 = k
    BY <1>1
  <2>2. CASE k < Len(c)
    <3>1. k \in 1..Len(c) /\ k - 1 < Len(c) /\ k # Len(c)
      BY <1>1, <2>1, <2>2
    <3>2. g[k] = c[k + 1] /\ g[k - 1] = c[k]
      BY <2>1, <2>2, <3>1
    <3>3. Follow[c[k]] = l.next[c[k]]
      BY <1>1, <3>1
    <3> HIDE DEF g, Follow
    <3> QED
      BY <3>1, <3>2, <3>3 DEF Chains
  <2>3. CASE k = Len(c)
    <3>1. k \in 1..Len(c) /\ k - 1 < Len(c) /\ ~(k < Len(c))
      BY <1>1, <2>1, <2>3
    <3>2. g[k] = NULL /\ g[k - 1] = c[k]
      BY <2>1, <3>1
    <3>3. Follow[c[k]] = l.next[c[k]]
      BY <1>1, <3>1
    <3> HIDE DEF g, Follow
    <3> QED
      BY <2>3, <3>1, <3>2, <3>3 DEF Chains
  <2>4. CASE k > Len(c)
    <3>1. ~(k < Len(c)) /\ ~(k - 1 < Len(c))
      BY <1>1, <2>1, <2>4
    <3>2. g[k] = NULL /\ g[k - 1] = NULL
      BY <2>1, <3>1
    <3> QED
      BY <3>2
  <2> QED
    BY <1>1, <2>1, <2>2, <2>3, <2>4
<1> DEFINE e == CHOOSE f : f = Rec(f)
<1>4. g = Rec(g)
  <2>1. \A k \in 0..n : k = 0 \/ k \in 1..n
    BY <1>1
  <2>2. \A k \in 0..n : g[k] = Rec(g)[k]
    <3> HIDE DEF g, Follow
    <3> QED
      BY <1>2, <1>3, <2>1
  <2> QED
    BY <2>2
<1>5. e = Rec(e)
  <2> HIDE DEF g
  <2> QED
    BY <1>4
<1>6. Nth(l) = [k \in 0..n |-> e[k]]
  BY DEF Nth
<1> HIDE DEF e
<1>7. e = [k \in 0..n |-> e[k]] /\ g = [k \in 0..n |-> g[k]]
  BY <1>5
<1>8. e[0] = l.head /\ \A k \in 1..n : e[k] = Follow[e[k - 1]]
  <2> HIDE DEF Follow
  <2> QED
    BY <1>1, <1>5
<1> DEFINE H == [k \in 1..n |-> Follow]
<1> HIDE DEF g, Follow, n
<1>9. Iterates(e, l.head, n, H) /\ Iterates(g, l.head, n, H)
  BY <1>2, <1>3, <1>7, <1>8 DEF Iterates
<1>10. e = g
  <2> HIDE DEF H
  <2> QED
    BY <1>1, <1>9, IterationUnique
<1> QED
  BY <1>6, <1>7, <1>10 DEF g, n

\* What the links lead through is what the list holds.
LEMMA ContentsOfChain ==
    ASSUME NEW l, NEW c, Chains(l, c)
    PROVE  Contents(l) = c /\ IsAcyclic(l) /\ Linked(l) = ToSet(c)
<1> DEFINE n == Cardinality(Items)
           g == Nth(l)
           U == {i \in DOMAIN g : g[i] # NULL}
<1>1. g = [k \in 0..n |-> IF k < Len(c) THEN c[k + 1] ELSE NULL]
  BY NthOfChain
<1>2. /\ Len(c) \in Nat /\ n \in Nat /\ Len(c) <= n
      /\ DOMAIN c = 1..Len(c) /\ c = [k \in 1..Len(c) |-> c[k]]
      /\ \A k \in 1..Len(c) : c[k] \in Items /\ c[k] # NULL
  BY ChainFits, LenProperties, ItemsAssumption DEF Chains
<1> HIDE DEF g
<1>3. \A k \in 0..n : g[k] = IF k < Len(c) THEN c[k + 1] ELSE NULL
  BY <1>1
<1>4. U = 0..Len(c) - 1
  <2>1. DOMAIN g = 0..n
    BY <1>1
  <2>2. \A k \in 0..n : k < Len(c) => k + 1 \in 1..Len(c) /\ c[k + 1] # NULL
    BY <1>2
  <2>3. \A k \in 0..n : g[k] # NULL <=> k < Len(c)
    BY <1>3, <2>2
  <2>4. \A k : k \in 0..Len(c) - 1 <=> k \in 0..n /\ k < Len(c)
    BY <1>2
  <2> QED
    BY <2>1, <2>3, <2>4
<1>5. Cardinality(U) = Len(c)
  <2>1. 0 \in Int /\ Len(c) - 1 \in Int
    BY <1>2
  <2>2. Cardinality(0..Len(c) - 1) = IF 0 > Len(c) - 1 THEN 0 ELSE Len(c) - 1 - 0 + 1
    BY <2>1, FS_Interval
  <2> HIDE DEF U
  <2> QED
    BY <1>2, <1>4, <2>2
<1>6. Contents(l) = [k \in 1..Len(c) |-> g[k - 1]]
  <2>1. Contents(l) = [k \in 1..Cardinality(U) |-> g[k - 1]]
    BY DEF Contents, g
  <2> HIDE DEF U
  <2> QED
    BY <1>5, <2>1
<1>7. \A k \in 1..Len(c) : g[k - 1] = c[k]
  <2> SUFFICES ASSUME NEW k \in 1..Len(c)
               PROVE  g[k - 1] = c[k]
    OBVIOUS
  <2>1. k - 1 \in 0..n /\ k - 1 < Len(c) /\ k - 1 + 1 = k
    BY <1>2
  <2> QED
    BY <1>3, <2>1
<1>8. Contents(l) = c
  BY <1>2, <1>6, <1>7
<1>9. IsAcyclic(l)
  <2>1. n \in 0..n /\ ~(n < Len(c))
    BY <1>2
  <2> QED
    BY <1>3, <2>1 DEF IsAcyclic, g
<1>10. Linked(l) = ToSet(c)
  BY <1>8 DEF Linked, ToSet
<1> QED
  BY <1>8, <1>9, <1>10

(***************************************************************************)
(* The methods.                                                            *)
(***************************************************************************)

\* The facts about a chain that the methods rest on.
LEMMA ChainFacts ==
    ASSUME NEW l, NEW c, Chains(l, c)
    PROVE  /\ Len(c) \in Nat /\ DOMAIN c = 1..Len(c) /\ (c = << >> <=> Len(c) = 0)
           /\ l.head \in Items \union {NULL} /\ l.tail \in Items \union {NULL}
           /\ l.next \in [Items -> Items \union {NULL}]
           /\ l = [head |-> l.head, tail |-> l.tail, next |-> l.next]
           /\ \A k \in 1..Len(c) : c[k] \in Items /\ c[k] # NULL
           /\ \A i, j \in 1..Len(c) : c[i] = c[j] => i = j
<1>1. c \in Seq(Items) /\ l \in Lists /\ IsInjective(c)
  BY DEF Chains
<1>2. Len(c) \in Nat /\ DOMAIN c = 1..Len(c) /\ \A k \in 1..Len(c) : c[k] \in Items
  BY <1>1, LenProperties
<1>3. c = << >> <=> Len(c) = 0
  BY <1>1, EmptySeq
<1>4. \A k \in 1..Len(c) : c[k] # NULL
  BY <1>2, ItemsAssumption
<1>5. \A i, j \in 1..Len(c) : c[i] = c[j] => i = j
  BY <1>1, <1>2 DEF IsInjective
<1> QED
  BY <1>1, <1>2, <1>3, <1>4, <1>5 DEF Lists

\* Queue::enqueue(), with the tail where it belongs.
LEMMA EnqueueChains ==
    ASSUME NEW l, NEW c, Chains(l, c), NEW i \in Items, i \notin ToSet(c),
           c = << >> => l.tail = NULL,
           c # << >> => l.tail = c[Len(c)]
    PROVE  Chains(Enqueue(l, i), Append(c, i)) /\ Enqueue(l, i).tail = i
<1> DEFINE n == Len(c)
           r == Enqueue(l, i)
           q == Append(c, i)
<1>1. /\ n \in Nat /\ DOMAIN c = 1..n /\ (c = << >> <=> n = 0)
      /\ l.head \in Items \union {NULL} /\ l.next \in [Items -> Items \union {NULL}]
      /\ \A k \in 1..n : c[k] \in Items /\ c[k] # NULL
      /\ \A a, b \in 1..n : c[a] = c[b] => a = b
  BY ChainFacts
<1>2. \A k \in 1..n : c[k] # i
  BY <1>1 DEF ToSet
<1>3. /\ q \in Seq(Items) /\ Len(q) = n + 1 /\ IsInjective(q)
      /\ \A k \in 1..n : q[k] = c[k]
      /\ q[n + 1] = i
  <2>1. c \in Seq(Items) /\ IsInjective(c)
    BY DEF Chains
  <2>2. IsInjective(q)
    BY <2>1, AppendOnce
  <2> QED
    BY <2>1, <2>2, AppendProperties
<1>4. q # << >> /\ q[1] = IF n = 0 THEN i ELSE c[1]
  BY <1>1, <1>3
<1>5. \A k \in 1..n : l.next[c[k]] = IF k = n THEN NULL ELSE c[k + 1]
  BY DEF Chains
<1>6. CASE n = 0
  <2>1. r = [head |-> i, tail |-> i, next |-> [l.next EXCEPT ![i] = NULL]]
    BY <1>1, <1>6 DEF Enqueue
  <2>2. r \in Lists /\ r.head = i /\ r.tail = i /\ r.next[i] = NULL
    BY <1>1, <2>1 DEF Lists
  <2> HIDE DEF r, q
  <2> QED
    BY <1>3, <1>4, <1>6, <2>2 DEF Chains, r, q
<1>7. CASE n # 0
  <2> DEFINE last == c[n]
  <2>1. n \in 1..n /\ last \in Items /\ last # NULL /\ last # i /\ l.tail = last
    BY <1>1, <1>2, <1>7
  <2>2. r = [head |-> l.head, tail |-> i,
             next |-> [[l.next EXCEPT ![i] = NULL] EXCEPT ![last] = i]]
    BY <2>1 DEF Enqueue
  <2> HIDE DEF last
  <2>3. r \in Lists /\ r.head = l.head /\ r.tail = i
    BY <1>1, <2>1, <2>2 DEF Lists
  <2>4. /\ r.next[i] = NULL /\ r.next[last] = i
        /\ \A x \in Items : x # i /\ x # last => r.next[x] = l.next[x]
    BY <1>1, <2>1, <2>2
  <2> HIDE DEF r, q
  <2>5. r.head = q[1]
    BY <1>1, <1>4, <1>7, <2>3 DEF Chains
  <2>0. n \in Nat
    BY <1>1
  <2>6. ASSUME NEW k \in 1..n + 1
        PROVE  r.next[q[k]] = IF k = n + 1 THEN NULL ELSE q[k + 1]
    <3>1. CASE k = n + 1
      BY <1>3, <2>4, <3>1
    <3>2. CASE k = n
      BY <1>1, <1>3, <2>1, <2>4, <3>2 DEF last
    <3>3. CASE k < n
      <4>1. k \in 1..n /\ k + 1 \in 1..n /\ k # n /\ k # n + 1
        BY <2>0, <3>3
      <4>2. c[k] # i /\ c[k] # last /\ c[k] \in Items
        BY <1>1, <1>2, <2>1, <4>1 DEF last
      <4>3. r.next[c[k]] = c[k + 1]
        BY <1>5, <2>4, <4>1, <4>2
      <4> QED
        BY <1>3, <4>1, <4>3
    <3> QED
      BY <2>0, <3>1, <3>2, <3>3
  <2>7. Chains(r, q)
    BY <1>3, <1>4, <2>3, <2>5, <2>6 DEF Chains
  <2> QED
    BY <2>3, <2>7 DEF r, q
<1> QED
  BY <1>6, <1>7

\* Queue::dequeue().
LEMMA DequeueChains ==
    ASSUME NEW l, NEW c, Chains(l, c), c # << >>
    PROVE  /\ Chains(Dequeue(l), Tail(c)) /\ l.head = Head(c)
           /\ Dequeue(l).tail = IF Tail(c) = << >> THEN NULL ELSE l.tail
<1> DEFINE n == Len(c)
           r == Dequeue(l)
           q == Tail(c)
           first == c[1]
<1>1. /\ n \in Nat /\ DOMAIN c = 1..n /\ n # 0
      /\ l.head \in Items \union {NULL} /\ l.tail \in Items \union {NULL}
      /\ l.next \in [Items -> Items \union {NULL}]
      /\ l = [head |-> l.head, tail |-> l.tail, next |-> l.next]
      /\ \A k \in 1..n : c[k] \in Items /\ c[k] # NULL
      /\ \A a, b \in 1..n : c[a] = c[b] => a = b
  BY ChainFacts
<1>2. /\ q \in Seq(Items) /\ Len(q) = n - 1 /\ IsInjective(q) /\ Head(c) = first
      /\ \A k \in 1..n - 1 : q[k] = c[k + 1]
  BY HeadTailProperties, TailOnce DEF Chains
<1>3. 1 \in 1..n /\ first \in Items /\ first # NULL /\ l.head = first
  BY <1>1 DEF Chains
<1>4. \A k \in 1..n : l.next[c[k]] = IF k = n THEN NULL ELSE c[k + 1]
  BY DEF Chains
<1>5. q = << >> <=> n = 1
  BY <1>1, <1>2, EmptySeq
<1>6. CASE n = 1
  <2>1. l.next[first] = NULL
    BY <1>3, <1>4, <1>6
  <2>2. r = [l EXCEPT !.head = NULL, !.tail = NULL]
    BY <1>3, <2>1 DEF Dequeue
  <2>3. r = [head |-> NULL, tail |-> NULL, next |-> l.next]
    BY <1>1, <2>2
  <2>4. r \in Lists
    BY <1>1, <2>3 DEF Lists
  <2> HIDE DEF r, q, first
  <2>5. Chains(r, q)
    BY <1>2, <1>5, <1>6, <2>3, <2>4 DEF Chains
  <2> QED
    BY <1>2, <1>3, <1>5, <1>6, <2>3, <2>5 DEF r, q
<1>7. CASE n # 1
  <2>1. 2 \in 1..n /\ l.next[first] = c[2] /\ c[2] \in Items /\ c[2] # NULL
    <3>1. 2 \in 1..n /\ 1 # n /\ 1 + 1 = 2
      BY <1>1, <1>7
    <3> QED
      BY <1>1, <1>3, <1>4, <3>1
  <2>2. r = [l EXCEPT !.head = l.next[first], !.next[first] = NULL]
    BY <1>3, <2>1 DEF Dequeue
  <2> HIDE DEF first
  <2>3. r = [head |-> c[2], tail |-> l.tail, next |-> [l.next EXCEPT ![first] = NULL]]
    BY <1>1, <2>1, <2>2
  <2>4. r \in Lists
    <3>1. [l.next EXCEPT ![first] = NULL] \in [Items -> Items \union {NULL}]
      BY <1>1
    <3>2. c[2] \in Items \union {NULL} /\ l.tail \in Items \union {NULL}
      BY <1>1, <2>1
    <3> QED
      BY <2>3, <3>1, <3>2 DEF Lists
  <2>5. \A x \in Items : x # first => r.next[x] = l.next[x]
    BY <1>1, <2>3
  <2>6. r.head = c[2] /\ r.tail = l.tail
    BY <2>3
  <2> HIDE DEF r, q
  <2>7. ASSUME NEW k \in 1..n - 1
        PROVE  r.next[q[k]] = IF k = n - 1 THEN NULL ELSE q[k + 1]
    <3> DEFINE j == k + 1
    <3>1. j \in 1..n /\ j # 1 /\ (k = n - 1 <=> j = n) /\ (k # n - 1 => j \in 1..n - 1)
      BY <1>1
    <3>2. q[k] = c[j]
      BY <1>2
    <3> HIDE DEF j
    <3>3. c[j] # first /\ c[j] \in Items
      BY <1>1, <1>3, <3>1 DEF first
    <3>4. r.next[q[k]] = IF j = n THEN NULL ELSE c[j + 1]
      BY <1>4, <2>5, <3>1, <3>2, <3>3
    <3>5. j \in 1..n - 1 => q[j] = c[j + 1]
      BY <1>2
    <3> QED
      BY <3>1, <3>4, <3>5 DEF j
  <2>8. r.head = q[1]
    <3>1. 1 \in 1..n - 1 /\ 1 + 1 = 2
      BY <1>1, <1>7
    <3> QED
      BY <1>2, <2>6, <3>1
  <2>9. Chains(r, q)
    BY <1>2, <1>5, <1>7, <2>4, <2>7, <2>8 DEF Chains
  <2> QED
    BY <1>2, <1>3, <1>5, <1>7, <2>6, <2>9 DEF r, q, first
<1> QED
  BY <1>6, <1>7

\* List::insert_first() into a list that holds something.
LEMMA InsertFirstChains ==
    ASSUME NEW l, NEW c, Chains(l, c), c # << >>, NEW i \in Items, i \notin ToSet(c)
    PROVE  Chains(InsertFirst(l, i), <<i>> \o c)
<1> DEFINE n == Len(c)
           r == InsertFirst(l, i)
           q == <<i>> \o c
<1>1. /\ n \in Nat /\ DOMAIN c = 1..n /\ n # 0
      /\ l.head \in Items \union {NULL} /\ l.tail \in Items \union {NULL}
      /\ l.next \in [Items -> Items \union {NULL}]
      /\ l = [head |-> l.head, tail |-> l.tail, next |-> l.next]
      /\ \A k \in 1..n : c[k] \in Items /\ c[k] # NULL
  BY ChainFacts
<1>2. \A k \in 1..n : c[k] # i
  BY <1>1 DEF ToSet
<1>3. /\ q \in Seq(Items) /\ Len(q) = n + 1 /\ IsInjective(q) /\ q[1] = i
      /\ \A k \in 1..n : q[k + 1] = c[k]
  <2> DEFINE one == <<i>>
  <2>1. /\ one \in Seq(Items) /\ Len(one) = 1 /\ one[1] = i /\ ToSet(one) = {i}
        /\ IsInjective(one)
    BY DEF ToSet, IsInjective
  <2> HIDE DEF one
  <2>2. c \in Seq(Items) /\ IsInjective(c)
    BY DEF Chains
  <2>3. /\ one \o c \in Seq(Items) /\ Len(one \o c) = Len(one) + n
        /\ \A k \in 1..Len(one) + n :
             (one \o c)[k] = IF k <= Len(one) THEN one[k] ELSE c[k - Len(one)]
    BY <2>1, <2>2, ConcatProperties
  <2>4. IsInjective(one \o c)
    BY <2>1, <2>2, ConcatOnce
  <2>5. q = one \o c
    BY DEF one
  <2> HIDE DEF q
  <2>6. n \in Nat
    BY <1>1
  <2>7. \A k \in 1..n + 1 : q[k] = IF k <= 1 THEN one[k] ELSE c[k - 1]
    BY <2>1, <2>3, <2>5, <2>6
  <2>8. ASSUME NEW k \in 1..n
        PROVE  q[k + 1] = c[k]
    <3> DEFINE j == k + 1
    <3>1. j \in 1..n + 1 /\ ~(j <= 1) /\ j - 1 = k
      BY <2>6
    <3> HIDE DEF j
    <3>2. q[j] = c[k]
      BY <2>7, <3>1
    <3> QED
      BY <3>2 DEF j
  <2>9. q[1] = i
    BY <2>1, <2>6, <2>7
  <2> QED
    BY <2>1, <2>3, <2>4, <2>5, <2>6, <2>8, <2>9
<1>4. r = [head |-> i, tail |-> l.tail, next |-> [l.next EXCEPT ![i] = l.head]]
  <2>1. l.head # NULL
    <3>1. 1 \in 1..n /\ l.head = c[1]
      BY <1>1 DEF Chains
    <3> QED
      BY <1>1, <3>1
  <2>2. r = [l EXCEPT !.head = i, !.next[i] = l.head]
    BY <2>1 DEF InsertFirst
  <2> QED
    BY <1>1, <2>2
<1>5. r \in Lists
  <2>1. [l.next EXCEPT ![i] = l.head] \in [Items -> Items \union {NULL}]
    BY <1>1
  <2> QED
    BY <1>1, <1>4, <2>1 DEF Lists
<1>6. /\ r.head = i /\ r.next[i] = l.head
      /\ \A x \in Items : x # i => r.next[x] = l.next[x]
  BY <1>1, <1>4
<1> HIDE DEF r, q
<1>7. n \in Nat /\ n # 0 /\ 1 \in 1..n
  BY <1>1
<1>8. ASSUME NEW k \in 1..n + 1
      PROVE  r.next[q[k]] = IF k = n + 1 THEN NULL ELSE q[k + 1]
  <2>1. CASE k = 1
    <3>1. r.next[q[k]] = c[1]
      BY <1>3, <1>6, <2>1 DEF Chains
    <3>2. k # n + 1 /\ q[k + 1] = c[1]
      BY <1>3, <1>7, <2>1
    <3> QED
      BY <3>1, <3>2
  <2>2. CASE k # 1
    <3> DEFINE j == k - 1
    <3>1. j \in 1..n /\ j + 1 = k /\ (j = n <=> k = n + 1) /\ (k # n + 1 => k \in 1..n)
      BY <1>7, <2>2
    <3> HIDE DEF j
    <3>2. q[k] = c[j] /\ c[j] \in Items /\ c[j] # i
      BY <1>1, <1>2, <1>3, <3>1
    <3>3. r.next[q[k]] = IF j = n THEN NULL ELSE c[j + 1]
      BY <1>6, <3>1, <3>2 DEF Chains
    <3>4. k # n + 1 => q[k + 1] = c[k]
      BY <1>3, <3>1
    <3> QED
      BY <3>1, <3>3, <3>4
  <2> QED
    BY <2>1, <2>2
<1>9. q # << >>
  BY <1>3, <1>7
<1>10. Chains(r, q)
  BY <1>3, <1>5, <1>6, <1>8, <1>9 DEF Chains
<1> QED
  BY <1>10 DEF r, q

\* List::insert_after().
LEMMA InsertAfterChains ==
    ASSUME NEW l, NEW c, Chains(l, c), NEW i \in Items, i \notin ToSet(c),
           NEW k \in 1..Len(c)
    PROVE  Chains(InsertAfter(l, c[k], i), InsertAt(c, k + 1, i))
<1> DEFINE n == Len(c)
           old == c[k]
           r == InsertAfter(l, old, i)
           at == k + 1
           q == InsertAt(c, at, i)
<1>1. /\ n \in Nat /\ DOMAIN c = 1..n /\ n # 0
      /\ l.head \in Items \union {NULL} /\ l.tail \in Items \union {NULL}
      /\ l.next \in [Items -> Items \union {NULL}]
      /\ l = [head |-> l.head, tail |-> l.tail, next |-> l.next]
      /\ \A j \in 1..n : c[j] \in Items /\ c[j] # NULL
      /\ \A a, b \in 1..n : c[a] = c[b] => a = b
  BY ChainFacts
<1>2. \A j \in 1..n : c[j] # i
  BY <1>1 DEF ToSet
<1>3. old \in Items /\ old # i
  BY <1>1, <1>2
<1>4. n \in Nat /\ n # 0 /\ 1 \in 1..n /\ at \in 1..n + 1
  BY <1>1
<1>5. r = [head |-> l.head, tail |-> l.tail,
           next |-> [[l.next EXCEPT ![i] = l.next[old]] EXCEPT ![old] = i]]
  <2> HIDE DEF old
  <2> QED
    BY <1>1, <1>3 DEF InsertAfter
<1> HIDE DEF old, at
<1>6. /\ q \in Seq(Items) /\ Len(q) = n + 1 /\ IsInjective(q)
      /\ \A j \in 1..n + 1 : q[j] = IF j < at THEN c[j] ELSE IF j = at THEN i ELSE c[j - 1]
  <2>1. c \in Seq(Items) /\ IsInjective(c)
    BY DEF Chains
  <2>2. IsInjective(q)
    BY <1>4, <2>1, InsertAtOnce
  <2> QED
    BY <1>4, <2>1, <2>2, InsertAtProperties
<1> HIDE DEF q
<1>7. r \in Lists
  <2>1. [[l.next EXCEPT ![i] = l.next[old]] EXCEPT ![old] = i]
          \in [Items -> Items \union {NULL}]
    BY <1>1, <1>3
  <2> QED
    BY <1>1, <1>5, <2>1 DEF Lists
<1>8. /\ r.head = l.head /\ r.next[i] = l.next[old] /\ r.next[old] = i
      /\ \A x \in Items : x # i /\ x # old => r.next[x] = l.next[x]
  BY <1>1, <1>3, <1>5
<1> HIDE DEF r
<1>9. \A j \in 1..n : l.next[c[j]] = IF j = n THEN NULL ELSE c[j + 1]
  BY DEF Chains
<1>10. at = k + 1 /\ k \in 1..n /\ old = c[k]
  BY DEF at, old
<1>11. ASSUME NEW j \in 1..n + 1
       PROVE  r.next[q[j]] = IF j = n + 1 THEN NULL ELSE q[j + 1]
  <2>1. CASE j < k
    <3>1. /\ j \in 1..n /\ j + 1 \in 1..n + 1 /\ j # n /\ j # n + 1
          /\ j < at /\ j + 1 < at /\ j # k
      BY <1>4, <1>10, <2>1
    <3>2. q[j] = c[j] /\ q[j + 1] = c[j + 1]
      BY <1>6, <3>1
    <3>3. c[j] # old /\ c[j] # i /\ c[j] \in Items
      BY <1>1, <1>2, <1>10, <3>1
    <3> QED
      BY <1>8, <1>9, <3>1, <3>2, <3>3
  <2>2. CASE j = k
    <3>1. j < at /\ j + 1 = at /\ j # n + 1
      BY <1>4, <1>10, <2>2
    <3>2. q[j] = old /\ q[j + 1] = i
      BY <1>4, <1>6, <1>10, <2>2, <3>1
    <3> QED
      BY <1>8, <3>1, <3>2
  <2>3. CASE j = at
    <3>1. q[j] = i /\ r.next[q[j]] = IF k = n THEN NULL ELSE c[k + 1]
      BY <1>4, <1>6, <1>8, <1>9, <1>10, <2>3
    <3>2. CASE k = n
      BY <1>10, <2>3, <3>1, <3>2
    <3>3. CASE k # n
      <4> DEFINE m == j + 1
      <4>1. m \in 1..n + 1 /\ ~(m < at) /\ m # at /\ m - 1 = k + 1 /\ j # n + 1
        BY <1>4, <1>10, <2>3, <3>3
      <4> HIDE DEF m
      <4>2. q[m] = c[k + 1]
        BY <1>6, <4>1
      <4> QED
        BY <3>1, <3>3, <4>1, <4>2 DEF m
    <3> QED
      BY <3>2, <3>3
  <2>4. CASE j > at
    <3> DEFINE m == j + 1
               h == j - 1
    <3>1. /\ h \in 1..n /\ h # k /\ h + 1 = j /\ (h = n <=> j = n + 1)
          /\ ~(j < at) /\ j # at
          /\ j # n + 1 => m \in 1..n + 1 /\ ~(m < at) /\ m # at /\ m - 1 = j
      BY <1>4, <1>10, <2>4
    <3>2. q[j] = c[h]
      BY <1>6, <3>1
    <3> HIDE DEF m, h
    <3>3. c[h] # old /\ c[h] # i /\ c[h] \in Items
      BY <1>1, <1>2, <1>10, <3>1
    <3>4. r.next[q[j]] = IF h = n THEN NULL ELSE c[j]
      BY <1>8, <1>9, <3>1, <3>2, <3>3
    <3>5. j # n + 1 => q[m] = c[j]
      BY <1>6, <3>1
    <3> QED
      BY <3>1, <3>4, <3>5 DEF m
  <2> QED
    BY <1>4, <1>10, <2>1, <2>2, <2>3, <2>4
<1>12. q # << >> /\ r.head = q[1]
  <2>1. 1 < at /\ 1 \in 1..n + 1
    BY <1>4, <1>10
  <2>2. q[1] = c[1]
    BY <1>6, <2>1
  <2>3. l.head = c[1]
    BY <1>1, ChainFacts DEF Chains
  <2> QED
    BY <1>4, <1>6, <1>8, <2>2, <2>3
<1>13. Chains(r, q)
  BY <1>6, <1>7, <1>11, <1>12 DEF Chains
<1> QED
  BY <1>13 DEF r, q, at, old

\* Queue::remove() of an item that is linked behind another one.
LEMMA UnlinkChains ==
    ASSUME NEW l, NEW c, Chains(l, c), NEW k \in 2..Len(c)
    PROVE  /\ Chains(UnlinkAfter(l, c[k - 1], c[k]), RemoveAt(c, k))
           /\ RemoveAt(c, k) # << >>
           /\ l.tail = c[Len(c)]
                => UnlinkAfter(l, c[k - 1], c[k]).tail = RemoveAt(c, k)[Len(c) - 1]
<1> DEFINE n == Len(c)
           h == k - 1
           item == c[k]
           cur == c[h]
           r == UnlinkAfter(l, cur, item)
           q == RemoveAt(c, k)
<1>1. /\ n \in Nat /\ DOMAIN c = 1..n
      /\ l.head \in Items \union {NULL} /\ l.tail \in Items \union {NULL}
      /\ l.next \in [Items -> Items \union {NULL}]
      /\ \A j \in 1..n : c[j] \in Items /\ c[j] # NULL
      /\ \A a, b \in 1..n : c[a] = c[b] => a = b
  BY ChainFacts
<1>2. /\ n \in Nat /\ k \in 1..n /\ h \in 1..n /\ h \in 1..n - 1 /\ h # k /\ h + 1 = k
      /\ 1 < k /\ 1 \in 1..n - 1
  BY <1>1
<1> HIDE DEF h
<1>3. item \in Items /\ cur \in Items /\ cur # item
  BY <1>1, <1>2
<1>4. l.next[cur] = item /\ l.next[item] = IF k = n THEN NULL ELSE c[k + 1]
  <2>1. h # n
    BY <1>2
  <2> QED
    BY <1>2, <2>1 DEF Chains
<1>5. r = [head |-> l.head,
           tail |-> IF l.next[item] = NULL THEN cur ELSE l.tail,
           next |-> [[l.next EXCEPT ![cur] = l.next[item]] EXCEPT ![item] = NULL]]
  <2> HIDE DEF item, cur
  <2> QED
    BY <1>1, <1>3 DEF UnlinkAfter
<1> HIDE DEF item, cur
<1>6. r \in Lists
  <2>1. [[l.next EXCEPT ![cur] = l.next[item]] EXCEPT ![item] = NULL]
          \in [Items -> Items \union {NULL}]
    BY <1>1, <1>3
  <2> QED
    BY <1>1, <1>3, <1>5, <2>1 DEF Lists
<1>7. /\ r.head = l.head /\ r.tail = IF l.next[item] = NULL THEN cur ELSE l.tail
      /\ r.next[item] = NULL /\ r.next[cur] = l.next[item]
      /\ \A x \in Items : x # item /\ x # cur => r.next[x] = l.next[x]
  BY <1>1, <1>3, <1>5
<1> HIDE DEF r
<1>8. /\ q \in Seq(Items) /\ Len(q) = n - 1 /\ IsInjective(q)
      /\ \A j \in 1..n - 1 : q[j] = IF j < k THEN c[j] ELSE c[j + 1]
  <2>1. c \in Seq(Items) /\ IsInjective(c)
    BY DEF Chains
  <2>2. IsInjective(q)
    BY <1>2, <2>1, RemoveAtOnce
  <2> QED
    BY <1>2, <2>1, <2>2, RemoveAtProperties
<1> HIDE DEF q
<1>9. \A j \in 1..n : l.next[c[j]] = IF j = n THEN NULL ELSE c[j + 1]
  BY DEF Chains
<1>10. item = c[k] /\ cur = c[h]
  BY DEF item, cur
<1>11. ASSUME NEW j \in 1..n - 1
       PROVE  r.next[q[j]] = IF j = n - 1 THEN NULL ELSE q[j + 1]
  <2>1. CASE j < h
    <3>1. /\ j \in 1..n /\ j < k /\ j + 1 < k /\ j # n /\ j # n - 1 /\ j # h /\ j # k
          /\ j + 1 \in 1..n - 1
      BY <1>2, <2>1
    <3>2. q[j] = c[j] /\ q[j + 1] = c[j + 1]
      BY <1>8, <3>1
    <3>3. c[j] # item /\ c[j] # cur /\ c[j] \in Items
      BY <1>1, <1>2, <1>10, <3>1
    <3> QED
      BY <1>7, <1>9, <3>1, <3>2, <3>3
  <2>2. CASE j = h
    <3>1. j < k /\ (k = n <=> j = n - 1) /\ j + 1 = k /\ (k # n => k \in 1..n - 1) /\ ~(k < k)
      BY <1>2, <2>2
    <3>2. q[j] = cur
      BY <1>8, <1>10, <2>2, <3>1
    <3>3. r.next[q[j]] = IF k = n THEN NULL ELSE c[k + 1]
      BY <1>4, <1>7, <3>2
    <3>4. k # n => q[k] = c[k + 1]
      BY <1>8, <3>1
    <3> QED
      BY <3>1, <3>3, <3>4
  <2>3. CASE j > h
    <3> DEFINE m == j + 1
    <3>1. /\ m \in 1..n /\ m # k /\ m # h /\ ~(j < k) /\ (j = n - 1 <=> m = n)
          /\ j # n - 1 => m \in 1..n - 1 /\ ~(m < k)
      BY <1>2, <2>3
    <3>2. q[j] = c[m]
      BY <1>8, <3>1
    <3> HIDE DEF m
    <3>3. c[m] # item /\ c[m] # cur /\ c[m] \in Items
      BY <1>1, <1>2, <1>10, <3>1
    <3>4. r.next[q[j]] = IF m = n THEN NULL ELSE c[m + 1]
      BY <1>7, <1>9, <3>1, <3>2, <3>3
    <3>5. j # n - 1 => q[m] = c[m + 1]
      BY <1>8, <3>1
    <3> QED
      BY <3>1, <3>4, <3>5 DEF m
  <2> QED
    BY <1>2, <2>1, <2>2, <2>3
<1>12. q # << >> /\ r.head = q[1]
  <2>1. q[1] = c[1]
    BY <1>2, <1>8
  <2>2. l.head = c[1]
    BY <1>1, <1>2, ChainFacts DEF Chains
  <2>3. q # << >>
    BY <1>2, <1>8
  <2> QED
    BY <1>7, <2>1, <2>2, <2>3
<1>13. Chains(r, q)
  BY <1>6, <1>8, <1>11, <1>12 DEF Chains
<1>14. ASSUME l.tail = c[n]
       PROVE  r.tail = q[n - 1]
  <2> DEFINE e == n - 1
  <2>1. CASE k = n
    <3>1. e \in 1..n - 1 /\ e < k /\ e = h
      BY <1>2, <2>1
    <3>2. q[e] = cur
      BY <1>8, <1>10, <3>1
    <3> QED
      BY <1>4, <1>7, <2>1, <3>2
  <2>2. CASE k # n
    <3>1. e \in 1..n - 1 /\ ~(e < k) /\ e + 1 = n /\ k + 1 \in 1..n
      BY <1>2, <2>2
    <3> HIDE DEF e
    <3>2. q[e] = c[n]
      BY <1>8, <3>1
    <3>3. l.next[item] # NULL
      BY <1>1, <1>4, <2>2, <3>1
    <3> QED
      BY <1>7, <1>14, <3>2, <3>3 DEF e
  <2> QED
    BY <2>1, <2>2
<1> QED
  BY <1>12, <1>13, <1>14 DEF r, q, h, item, cur

\* Removing the first element is taking the tail.
LEMMA RemoveAtOne ==
    ASSUME NEW c \in Seq(Items), c # << >>
    PROVE  1 \in 1..Len(c) /\ RemoveAt(c, 1) = Tail(c)
<1>1. Len(c) \in Nat /\ Len(c) # 0
  BY LenProperties, EmptySeq
<1>2. 1 \in 1..Len(c)
  BY <1>1
<1>3. /\ Tail(c) \in Seq(Items) /\ Len(Tail(c)) = Len(c) - 1
      /\ \A i \in 1..Len(c) - 1 : Tail(c)[i] = c[i + 1]
  BY HeadTailProperties
<1> DEFINE r == RemoveAt(c, 1)
<1>4. /\ r \in Seq(Items) /\ Len(r) = Len(c) - 1
      /\ \A i \in 1..Len(c) - 1 : r[i] = IF i < 1 THEN c[i] ELSE c[i + 1]
  BY <1>2, RemoveAtProperties
<1> HIDE DEF r
<1>5. \A i \in 1..Len(c) - 1 : r[i] = Tail(c)[i]
  BY <1>1, <1>3, <1>4
<1>6. r = Tail(c)
  BY <1>1, <1>3, <1>4, <1>5, SeqEqual
<1> QED
  BY <1>2, <1>6 DEF r

\* Fifo's operators on sequences are those of the lemmas.
LEMMA SameOperators ==
    /\ \A s : Abstract!ToSet(s) = ToSet(s)
    /\ \A s, k, x : Abstract!InsertAt(s, k, x) = InsertAt(s, k, x)
    /\ \A s, x : Abstract!RemoveFirst(s, x) = RemoveFirst(s, x)
<1>1. \A s : Abstract!ToSet(s) = ToSet(s)
  BY DEF Abstract!ToSet, ToSet
<1>2. \A s, k, x : Abstract!InsertAt(s, k, x) = InsertAt(s, k, x)
  BY DEF Abstract!InsertAt, InsertAt
<1>3. \A s, x : Abstract!RemoveFirst(s, x) = RemoveFirst(s, x)
  BY DEF Abstract!RemoveFirst, RemoveFirst, Abstract!RemoveAt, RemoveAt,
         Abstract!SelectInSeq, SelectInSeq, Abstract!Min, Min
<1> QED
  BY <1>1, <1>2, <1>3

(***************************************************************************)
(* The invariant, and the refinement.                                      *)
(***************************************************************************)

QInv ==
    /\ use \in {"ready queue", "bell list"}
    /\ Chains(queue, Contents(queue))
    /\ TailIsRight

\* A step that leaves a chain with its tail where it belongs keeps the invariant.
LEMMA Settled ==
    ASSUME use \in {"ready queue", "bell list"}, use' = use,
           NEW d, Chains(queue', d),
           d = << >> => queue'.tail = NULL,
           d # << >> /\ use = "ready queue" => queue'.tail = d[Len(d)]
    PROVE  QInv' /\ Contents(queue)' = d
<1>1. Contents(queue') = d /\ IsAcyclic(queue')
  BY ContentsOfChain
<1> QED
  BY <1>1 DEF QInv, TailIsRight

\* What the invariant says of the present state.
LEMMA QInvSays ==
    ASSUME QInv
    PROVE  LET c == Contents(queue)
           IN  /\ use \in {"ready queue", "bell list"}
               /\ Chains(queue, c) /\ Linked(queue) = ToSet(c)
               /\ c \in Seq(Items) /\ IsInjective(c)
               /\ c = << >> => queue.tail = NULL
               /\ c # << >> /\ use = "ready queue" => queue.tail = c[Len(c)]
               /\ queue.head = IF c = << >> THEN NULL ELSE c[1]
               /\ queue.head = NULL <=> c = << >>
<1> DEFINE c == Contents(queue)
<1>1. /\ use \in {"ready queue", "bell list"} /\ Chains(queue, c)
      /\ c = << >> => queue.tail = NULL
      /\ c # << >> /\ use = "ready queue" => queue.tail = c[Len(c)]
  BY DEF QInv, TailIsRight
<1> HIDE DEF c
<1>2. /\ c \in Seq(Items) /\ IsInjective(c)
      /\ queue.head = IF c = << >> THEN NULL ELSE c[1]
  BY <1>1 DEF Chains
<1>3. Linked(queue) = ToSet(c)
  BY <1>1, ContentsOfChain
<1>4. c # << >> => c[1] # NULL
  <2>1. c # << >> => 1 \in 1..Len(c)
    BY <1>2, RemoveAtOne
  <2> QED
    BY <1>1, <2>1, ChainFacts
<1> QED
  BY <1>1, <1>2, <1>3, <1>4 DEF c

LEMMA InitQueue == Init => QInv /\ Abstract!Init
<1> SUFFICES ASSUME Init
             PROVE  QInv /\ Abstract!Init
  OBVIOUS
<1>1. queue = EmptyList /\ out = NULL /\ use \in {"ready queue", "bell list"}
  BY DEF Init
<1>2. Chains(EmptyList, << >>) /\ EmptyList.tail = NULL
  BY DEF Chains, EmptyList, Lists, IsInjective
<1>3. Contents(EmptyList) = << >> /\ IsAcyclic(EmptyList)
  BY <1>2, ContentsOfChain
<1> QED
  BY <1>1, <1>2, <1>3 DEF QInv, TailIsRight, Abstract!Init

LEMMA EnqueueIsEnqueue ==
    ASSUME QInv, NEW i \in Items, EnqueueItem(i)
    PROVE  QInv' /\ Abstract!Enqueue(i)
<1> DEFINE c == Contents(queue)
<1>1. /\ use \in {"ready queue", "bell list"}
      /\ Chains(queue, c) /\ Linked(queue) = ToSet(c) /\ c \in Seq(Items)
      /\ c = << >> => queue.tail = NULL
      /\ c # << >> /\ use = "ready queue" => queue.tail = c[Len(c)]
      /\ queue.head = NULL <=> c = << >>
  BY QInvSays
<1>2. /\ i \notin Linked(queue) /\ (use = "bell list" => queue.head = NULL)
      /\ queue' = Enqueue(queue, i) /\ use' = use /\ out' = out
  BY DEF EnqueueItem
<1> HIDE DEF c
<1>3. Chains(queue', Append(c, i)) /\ queue'.tail = i
  BY <1>1, <1>2, EnqueueChains
<1>4. Append(c, i) # << >> /\ Append(c, i)[Len(Append(c, i))] = i
  <2>1. c \in Seq(Items)
    BY <1>1
  <2> QED
    BY <2>1, AppendProperties
<1>5. QInv' /\ Contents(queue)' = Append(c, i)
  BY <1>1, <1>2, <1>3, <1>4, Settled
<1> QED
  BY <1>1, <1>2, <1>5, SameOperators DEF Abstract!Enqueue, c

LEMMA InsertFirstIsInsertFirst ==
    ASSUME QInv, NEW i \in Items, InsertFirstItem(i)
    PROVE  QInv' /\ Abstract!InsertFirst(i)
<1> DEFINE c == Contents(queue)
<1>1. /\ use \in {"ready queue", "bell list"}
      /\ Chains(queue, c) /\ Linked(queue) = ToSet(c) /\ c \in Seq(Items)
      /\ c = << >> => queue.tail = NULL
      /\ queue.head = NULL <=> c = << >>
  BY QInvSays
<1>2. /\ i \notin Linked(queue) /\ use = "bell list"
      /\ queue' = InsertFirst(queue, i) /\ use' = use /\ out' = out
  BY DEF InsertFirstItem
<1> HIDE DEF c
<1>3. Chains(queue', <<i>> \o c)
  <2>1. CASE c = << >>
    <3>1. queue' = Enqueue(queue, i)
      BY <1>1, <1>2, <2>1 DEF InsertFirst
    <3>2. Chains(queue', Append(c, i))
      BY <1>1, <1>2, <2>1, <3>1, EnqueueChains
    <3>3. Append(c, i) = <<i>> \o c
      BY <2>1
    <3> QED
      BY <3>2, <3>3
  <2>2. CASE c # << >>
    BY <1>1, <1>2, <2>2, InsertFirstChains
  <2> QED
    BY <2>1, <2>2
<1>4. <<i>> \o c # << >>
  <2>1. <<i>> \in Seq(Items) /\ Len(<<i>>) = 1
    OBVIOUS
  <2>2. c \in Seq(Items)
    BY <1>1
  <2>3. Len(c) \in Nat
    BY <2>2, LenProperties
  <2>4. Len(<<i>> \o c) = 1 + Len(c)
    BY <2>1, <2>2, ConcatProperties
  <2> QED
    BY <2>3, <2>4
<1>5. QInv' /\ Contents(queue)' = <<i>> \o c
  BY <1>1, <1>2, <1>3, <1>4, Settled
<1> QED
  BY <1>1, <1>2, <1>5, SameOperators DEF Abstract!InsertFirst, c

LEMMA InsertAfterIsInsertAfter ==
    ASSUME QInv, NEW old \in Items, NEW i \in Items, InsertAfterItem(old, i)
    PROVE  QInv' /\ Abstract!InsertAfter(old, i)
<1> DEFINE c == Contents(queue)
<1>1. /\ use \in {"ready queue", "bell list"}
      /\ Chains(queue, c) /\ Linked(queue) = ToSet(c) /\ c \in Seq(Items)
  BY QInvSays
<1>2. /\ i \notin Linked(queue) /\ old \in Linked(queue) /\ use = "bell list"
      /\ queue' = InsertAfter(queue, old, i) /\ use' = use /\ out' = out
  BY DEF InsertAfterItem
<1> HIDE DEF c
<1>3. DOMAIN c = 1..Len(c) /\ Len(c) \in Nat
  BY <1>1, LenProperties
<1>4. PICK k \in 1..Len(c) : c[k] = old
  BY <1>1, <1>2, <1>3 DEF ToSet
<1>5. Chains(queue', InsertAt(c, k + 1, i))
  BY <1>1, <1>2, <1>4, InsertAfterChains
<1>6. InsertAt(c, k + 1, i) # << >>
  <2> DEFINE at == k + 1
  <2>0. c \in Seq(Items)
    BY <1>1
  <2>1. at \in 1..Len(c) + 1
    BY <1>3
  <2> HIDE DEF at
  <2>2. Len(InsertAt(c, at, i)) = Len(c) + 1
    BY <2>0, <2>1, InsertAtProperties
  <2>3. InsertAt(c, at, i) # << >>
    BY <1>3, <2>2
  <2> QED
    BY <2>3 DEF at
<1>7. QInv' /\ Contents(queue)' = InsertAt(c, k + 1, i)
  BY <1>1, <1>2, <1>5, <1>6, Settled
<1> QED
  BY <1>1, <1>2, <1>3, <1>4, <1>7, SameOperators DEF Abstract!InsertAfter, c

LEMMA DequeueIsDequeue ==
    ASSUME QInv, DequeueItem
    PROVE  QInv' /\ Abstract!Dequeue
<1> DEFINE c == Contents(queue)
<1>1. /\ use \in {"ready queue", "bell list"}
      /\ Chains(queue, c) /\ c \in Seq(Items)
      /\ c = << >> => queue.tail = NULL
      /\ c # << >> /\ use = "ready queue" => queue.tail = c[Len(c)]
      /\ queue.head = NULL <=> c = << >>
  BY QInvSays
<1>2. queue' = Dequeue(queue) /\ use' = use /\ out' = queue.head
  BY DEF DequeueItem
<1> HIDE DEF c
<1>3. CASE c = << >>
  <2>1. queue' = queue /\ queue.head = NULL
    BY <1>1, <1>2, <1>3 DEF Dequeue
  <2>2. QInv' /\ Contents(queue)' = c
    BY <1>1, <1>2, <1>3, <2>1, Settled
  <2> QED
    BY <1>2, <1>3, <2>1, <2>2 DEF Abstract!Dequeue, c
<1>4. CASE c # << >>
  <2>1. /\ Chains(queue', Tail(c)) /\ queue.head = Head(c)
        /\ queue'.tail = IF Tail(c) = << >> THEN NULL ELSE queue.tail
    BY <1>1, <1>2, <1>4, DequeueChains
  <2>2. Tail(c) # << >> => c[Len(c)] = Tail(c)[Len(Tail(c))]
    <3>1. /\ Len(c) \in Nat /\ Tail(c) \in Seq(Items) /\ Len(Tail(c)) = Len(c) - 1
          /\ \A i \in 1..Len(c) - 1 : Tail(c)[i] = c[i + 1]
      BY <1>1, <1>4, HeadTailProperties, LenProperties
    <3>2. Tail(c) # << >> => Len(c) - 1 # 0
      BY <3>1, EmptySeq
    <3> DEFINE e == Len(c) - 1
    <3>3. e # 0 => e \in 1..Len(c) - 1 /\ e + 1 = Len(c)
      <4>1. Len(c) - 1 \in Nat
        BY <3>1, LenProperties
      <4> QED
        BY <3>1, <4>1
    <3> HIDE DEF e
    <3>4. e # 0 => Tail(c)[e] = c[Len(c)]
      BY <3>1, <3>3
    <3> QED
      BY <3>1, <3>2, <3>4 DEF e
  <2>3. QInv' /\ Contents(queue)' = Tail(c)
    BY <1>1, <1>2, <1>4, <2>1, <2>2, Settled
  <2> QED
    BY <1>2, <1>4, <2>1, <2>3 DEF Abstract!Dequeue, c
<1> QED
  BY <1>3, <1>4

\* The tail of a sequence ends as the sequence does.
LEMMA TailEnds ==
    ASSUME NEW c \in Seq(Items), c # << >>, Tail(c) # << >>
    PROVE  Tail(c)[Len(Tail(c))] = c[Len(c)]
<1>1. /\ Len(c) \in Nat /\ Tail(c) \in Seq(Items) /\ Len(Tail(c)) = Len(c) - 1
      /\ \A i \in 1..Len(c) - 1 : Tail(c)[i] = c[i + 1]
  BY HeadTailProperties, LenProperties
<1>2. Len(Tail(c)) # 0 /\ Len(Tail(c)) \in Nat
  BY <1>1, EmptySeq, LenProperties
<1> DEFINE e == Len(c) - 1
<1>3. e \in 1..Len(c) - 1 /\ e + 1 = Len(c)
  BY <1>1, <1>2
<1> HIDE DEF e
<1>4. Tail(c)[e] = c[Len(c)]
  BY <1>1, <1>3
<1> QED
  BY <1>1, <1>4 DEF e

\* Queue::remove(), of an item that is linked or not.
LEMMA RemoveIsUnlink ==
    ASSUME QInv, NEW i \in Items, RemoveItem(i)
    PROVE  QInv' /\ Abstract!Unlink(i)
<1> DEFINE c == Contents(queue)
           n == Len(c)
<1>1. /\ use \in {"ready queue", "bell list"}
      /\ Chains(queue, c) /\ Linked(queue) = ToSet(c) /\ c \in Seq(Items)
      /\ IsInjective(c)
      /\ c = << >> => queue.tail = NULL
      /\ c # << >> /\ use = "ready queue" => queue.tail = c[n]
      /\ queue.head = IF c = << >> THEN NULL ELSE c[1]
  BY QInvSays
<1>2. queue' = QueueRemove(queue, i) /\ use' = use /\ out' = out
  BY DEF RemoveItem
<1> HIDE DEF c
<1>3. /\ n \in Nat /\ DOMAIN c = 1..n
      /\ \A k \in 1..n : c[k] \in Items /\ c[k] # NULL
      /\ \A a, b \in 1..n : c[a] = c[b] => a = b
  BY <1>1, ChainFacts
<1>4. \A k \in 1..n : queue.next[c[k]] = IF k = n THEN NULL ELSE c[k + 1]
  BY <1>1 DEF Chains
<1>5. i # NULL
  BY ItemsAssumption
<1>6. QInv' /\ Contents(queue)' = RemoveFirst(c, i)
  <2>1. CASE queue.head = i
    <3>1. c # << >> /\ c[1] = i
      BY <1>1, <1>5, <2>1
    <3>2. 1 \in 1..n /\ RemoveAt(c, 1) = Tail(c)
      BY <1>1, <3>1, RemoveAtOne
    <3>3. RemoveFirst(c, i) = Tail(c)
      BY <1>1, <3>1, <3>2, RemoveFirstIs
    <3>4. queue' = Dequeue(queue)
      BY <1>2, <2>1 DEF QueueRemove
    <3>5. /\ Chains(queue', Tail(c))
          /\ queue'.tail = IF Tail(c) = << >> THEN NULL ELSE queue.tail
      BY <1>1, <3>1, <3>4, DequeueChains
    <3>6. Tail(c) # << >> => Tail(c)[Len(Tail(c))] = c[n]
      BY <1>1, <3>1, TailEnds
    <3>7. QInv' /\ Contents(queue)' = Tail(c)
      BY <1>1, <1>2, <3>1, <3>5, <3>6, Settled
    <3> QED
      BY <3>3, <3>7
  <2>2. CASE queue.head # i /\ i \in ToSet(c)
    <3>1. PICK k \in 1..n : c[k] = i
      BY <1>3, <2>2 DEF ToSet
    <3>2. k # 1 /\ c # << >>
      <4>1. c # << >>
        BY <1>3, <2>2 DEF ToSet
      <4> QED
        BY <1>1, <2>2, <3>1, <4>1
    <3> DEFINE h == k - 1
    <3>3. k \in 2..n /\ h \in 1..n /\ h # n /\ h + 1 = k /\ n # 0
      BY <1>3, <3>2
    <3> HIDE DEF h
    <3>4. queue.next[c[h]] = i
      BY <1>4, <3>1, <3>3
    <3>5. ASSUME NEW cur \in ToSet(c), queue.next[cur] = i
          PROVE  cur = c[h]
      <4>1. PICK j \in 1..n : c[j] = cur
        BY <1>3 DEF ToSet
      <4>2. j # n /\ c[j + 1] = i
        BY <1>4, <1>5, <3>5, <4>1
      <4>3. j + 1 \in 1..n
        <5>1. n \in Nat /\ j # n
          BY <1>3, <4>2
        <5> HIDE DEF n
        <5> QED
          BY <5>1
      <4>4. j + 1 = k
        BY <1>3, <3>1, <4>2, <4>3
      <4> QED
        BY <3>3, <4>1, <4>4
    <3>6. c[h] \in ToSet(c)
      BY <1>3, <3>3 DEF ToSet
    <3>7. (CHOOSE cur \in ToSet(c) : queue.next[cur] = i) = c[h]
      BY <3>4, <3>5, <3>6
    <3>8. queue' = UnlinkAfter(queue, c[h], c[k])
      BY <1>1, <1>2, <2>2, <3>1, <3>4, <3>6, <3>7 DEF QueueRemove
    <3>9. /\ Chains(queue', RemoveAt(c, k)) /\ RemoveAt(c, k) # << >>
          /\ queue.tail = c[n] => queue'.tail = RemoveAt(c, k)[n - 1]
      BY <1>1, <3>3, <3>8, UnlinkChains DEF h
    <3>10. Len(RemoveAt(c, k)) = n - 1 /\ RemoveFirst(c, i) = RemoveAt(c, k)
      BY <1>1, <3>1, RemoveFirstIs, RemoveAtProperties
    <3>11. QInv' /\ Contents(queue)' = RemoveAt(c, k)
      BY <1>1, <1>2, <3>2, <3>9, <3>10, Settled
    <3> QED
      BY <3>10, <3>11
  <2>3. CASE queue.head # i /\ i \notin ToSet(c)
    <3>1. ASSUME NEW cur \in ToSet(c)
          PROVE  queue.next[cur] # i
      <4>1. PICK j \in 1..n : c[j] = cur
        BY <1>3 DEF ToSet
      <4>2. CASE j = n
        BY <1>4, <1>5, <4>1, <4>2
      <4>3. CASE j # n
        <5>0. queue.next[cur] = c[j + 1]
          BY <1>4, <4>1, <4>3
        <5>1. j + 1 \in 1..n
          <6>1. n \in Nat
            BY <1>3
          <6> HIDE DEF n
          <6> QED
            BY <4>3, <6>1
        <5> QED
          BY <1>3, <2>3, <5>0, <5>1 DEF ToSet
      <4> QED
        BY <4>2, <4>3
    <3>2. queue' = queue
      BY <1>1, <1>2, <2>3, <3>1 DEF QueueRemove
    <3>3. RemoveFirst(c, i) = c
      BY <1>1, <2>3, RemoveFirstIs
    <3>4. QInv' /\ Contents(queue)' = c
      BY <1>1, <1>2, <3>2, Settled
    <3> QED
      BY <3>3, <3>4
  <2> QED
    BY <2>1, <2>2, <2>3
<1> QED
  BY <1>2, <1>6, SameOperators DEF Abstract!Unlink, c

LEMMA StepQueue ==
    ASSUME QInv, [Next]_vars
    PROVE  /\ QInv'
           /\ [Abstract!Next]_<<Contents(queue), out>>
           /\ CallsAreFifo
<1>1. CallsAreFifo
  BY DequeueIsDequeue, EnqueueIsEnqueue, InsertFirstIsInsertFirst, RemoveIsUnlink,
     InsertAfterIsInsertAfter DEF CallsAreFifo
<1>2. CASE DequeueItem
  BY <1>1, <1>2, DequeueIsDequeue DEF Abstract!Next
<1>3. ASSUME NEW i \in Items, EnqueueItem(i)
      PROVE  QInv' /\ Abstract!Next
  BY <1>3, EnqueueIsEnqueue DEF Abstract!Next
<1>4. ASSUME NEW i \in Items, InsertFirstItem(i)
      PROVE  QInv' /\ Abstract!Next
  BY <1>4, InsertFirstIsInsertFirst DEF Abstract!Next
<1>5. ASSUME NEW i \in Items, RemoveItem(i)
      PROVE  QInv' /\ Abstract!Next
  BY <1>5, RemoveIsUnlink DEF Abstract!Next
<1>6. ASSUME NEW old \in Items, NEW i \in Items, InsertAfterItem(old, i)
      PROVE  QInv' /\ Abstract!Next
  BY <1>6, InsertAfterIsInsertAfter DEF Abstract!Next
<1>7. CASE UNCHANGED vars
  <2>1. queue' = queue /\ use' = use /\ out' = out
    BY <1>7 DEF vars
  <2>2. Contents(queue)' = Contents(queue) /\ TailIsRight' = TailIsRight
    BY <2>1 DEF TailIsRight
  <2> QED
    BY <1>1, <2>1, <2>2 DEF QInv
<1> QED
  BY <1>1, <1>2, <1>3, <1>4, <1>5, <1>6, <1>7 DEF Next

\* The pointers behave as a sequence, whatever the items and the calls: Queue and
\* List implement Fifo, each call has its effect, and the tail is right.
THEOREM QueueIsFifo == Spec => IsFifo
<1>1. Init => QInv /\ Abstract!Init
  BY InitQueue
<1>2. QInv /\ [Next]_vars => QInv'
  BY StepQueue
<1>3. QInv /\ [Next]_vars => [Abstract!Next]_<<Contents(queue), out>>
  BY StepQueue
<1>4. QInv /\ [Next]_vars => [CallsAreFifo /\ TailIsRight']_vars
  BY StepQueue DEF QInv
<1> QED
  BY <1>1, <1>2, <1>3, <1>4, PTL DEF Spec, IsFifo, Abstract!Spec

=============================================================================
