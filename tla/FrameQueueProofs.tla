-------------------------- MODULE FrameQueueProofs --------------------------
(***************************************************************************)
(* Proofs about FrameQueue, for any number of slots, any frames and any    *)
(* contexts: whatever the interrupt stores, casts out and finds full while *)
(* a frame is retrieved, no slot stays marked, no frame vanishes, and the  *)
(* stamps tell the frames' age.                                            *)
(***************************************************************************)
EXTENDS FrameQueue, SequenceLemmas

(***************************************************************************)
(* The slots.                                                              *)
(***************************************************************************)

FrameSet == [id : Nat, kind : FrameKinds]
SlotSet == [usage : {"available", "until_del", "transition"}, stamp : 0..SizeQ,
            frame : FrameSet \union {NoFrame}]
Queues == [Slots -> SlotSet]

LEMMA SlotsFinite ==
    ASSUME SizeAssumption, NEW S \in SUBSET Slots
    PROVE  /\ IsFiniteSet(S) /\ Cardinality(S) \in 0..SizeQ
           /\ S # Slots => Cardinality(S) < SizeQ
<1>1. SizeQ \in Nat /\ SizeQ >= 1
  BY DEF SizeAssumption
<1>2. IsFiniteSet(Slots) /\ Cardinality(Slots) = SizeQ
  BY <1>1, FS_Interval DEF Slots
<1>3. IsFiniteSet(S) /\ Cardinality(S) <= SizeQ /\ (Cardinality(Slots) = Cardinality(S) => Slots = S)
  BY <1>2, FS_Subset
<1>4. Cardinality(S) \in Nat
  BY <1>3, FS_CardinalityType
<1> QED
  BY <1>1, <1>2, <1>3, <1>4

LEMMA MaxIsIn ==
    ASSUME SizeAssumption, NEW S \in SUBSET Slots, S # {}
    PROVE  Max(S) \in S
<1>1. SizeQ \in Nat /\ \A s \in S : s \in Int /\ SizeQ - s \in Nat
  BY DEF SizeAssumption, Slots
<1> DEFINE T == {SizeQ - s : s \in S}
<1>2. T \in SUBSET Nat /\ T # {}
  BY <1>1
<1>3. PICK m \in T : \A k \in T : m <= k
  BY <1>2, LeastNumber
<1>4. PICK x \in S : m = SizeQ - x
  BY <1>3
<1>5. \A y \in S : x >= y
  <2> SUFFICES ASSUME NEW y \in S
               PROVE  x >= y
    OBVIOUS
  <2>1. m <= SizeQ - y
    BY <1>3
  <2> QED
    BY <1>1, <1>4, <2>1
<1> QED
  BY <1>5 DEF Max

LEMMA OldestIsIn ==
    ASSUME SizeAssumption, NEW q \in Queues, NEW S \in SUBSET Slots, S # {}
    PROVE  OldestOf(q, S) \in S
<1>1. \A s \in S : s \in Nat /\ q[s].stamp \in Nat
  BY DEF SizeAssumption, Slots, Queues, SlotSet
<1> DEFINE T == {q[s].stamp : s \in S}
<1>2. T \in SUBSET Nat /\ T # {}
  BY <1>1
<1>3. PICK m \in T : \A k \in T : m <= k
  BY <1>2, LeastNumber
<1> DEFINE U == {s \in S : q[s].stamp = m}
<1>4. U \in SUBSET Nat /\ U # {}
  BY <1>1, <1>3
<1>5. PICK x \in U : \A k \in U : x <= k
  BY <1>4, LeastNumber
<1>6. x \in S /\ q[x].stamp = m /\ x \in Nat
  BY <1>1, <1>5
<1>7. ASSUME NEW r \in S
      PROVE  \/ q[x].stamp < q[r].stamp
             \/ q[x].stamp = q[r].stamp /\ x <= r
  <2>1. m <= q[r].stamp /\ m \in Nat /\ q[r].stamp \in Nat
    BY <1>1, <1>3
  <2>2. q[r].stamp = m => x <= r
    BY <1>5
  <2> QED
    BY <1>6, <2>1, <2>2
<1> QED
  BY <1>6, <1>7 DEF OldestOf

\* nwk_QfindSlot never takes a slot that is being retrieved, and one in use only
\* if all are.
LEMMA SlotFoundProperties ==
    ASSUME SizeAssumption, NEW q \in Queues, SlotFound(q) # 0
    PROVE  /\ SlotFound(q) \in Slots
           /\ q[SlotFound(q)].usage # "transition"
           /\ SlotFound(q) \in InUse(q) => InUse(q) = Slots
<1>1. CASE InUse(q) # Slots
  <2>1. Slots \ InUse(q) \in SUBSET Slots /\ Slots \ InUse(q) # {}
    BY <1>1 DEF InUse
  <2>2. SlotFound(q) \in Slots \ InUse(q)
    BY <1>1, <2>1, MaxIsIn DEF SlotFound
  <2> QED
    BY <2>2 DEF InUse
<1>2. CASE InUse(q) = Slots
  <2>1. Castable(q) # {} /\ SlotFound(q) = OldestOf(q, Castable(q))
    BY <1>2 DEF SlotFound
  <2>2. Castable(q) \in SUBSET Slots
    BY DEF Castable, InUse
  <2>3. SlotFound(q) \in Castable(q)
    BY <2>1, <2>2, OldestIsIn
  <2> QED
    BY <1>2, <2>2, <2>3 DEF Castable
<1> QED
  BY <1>1, <1>2

\* nwk_QadjustOrder, slot by slot.
LEMMA AdjustedSlots ==
    ASSUME SizeAssumption, NEW q \in Queues, NEW stamp \in Nat, stamp >= 1
    PROVE  /\ AdjustOrder(q, stamp) \in Queues
           /\ \A s \in Slots :
                /\ AdjustOrder(q, stamp)[s].usage = q[s].usage
                /\ AdjustOrder(q, stamp)[s].frame = q[s].frame
                /\ AdjustOrder(q, stamp)[s].stamp =
                       IF s \in InUse(q) /\ q[s].stamp > stamp THEN q[s].stamp - 1
                       ELSE q[s].stamp
<1> DEFINE a == AdjustOrder(q, stamp)
<1>1. ASSUME NEW s \in Slots
      PROVE  /\ a[s] \in SlotSet
             /\ a[s].usage = q[s].usage /\ a[s].frame = q[s].frame
             /\ a[s].stamp = IF s \in InUse(q) /\ q[s].stamp > stamp THEN q[s].stamp - 1
                             ELSE q[s].stamp
  <2>1. q[s] \in SlotSet
    BY DEF Queues
  <2>2. a[s] = IF s \in InUse(q) /\ q[s].stamp > stamp
               THEN [q[s] EXCEPT !.stamp = q[s].stamp - 1] ELSE q[s]
    BY <2>1 DEF AdjustOrder, SlotSet
  <2>3. CASE s \in InUse(q) /\ q[s].stamp > stamp
    <3>1. q[s].stamp - 1 \in 0..SizeQ
      BY <2>1, <2>3 DEF SlotSet, SizeAssumption
    <3> QED
      BY <2>1, <2>2, <2>3, <3>1 DEF SlotSet
  <2>4. CASE ~(s \in InUse(q) /\ q[s].stamp > stamp)
    BY <2>1, <2>2, <2>4
  <2> QED
    BY <2>3, <2>4
<1>2. a = [s \in Slots |-> a[s]]
  BY DEF AdjustOrder
<1> QED
  BY <1>1, <1>2 DEF Queues

\* MRFI_RxCompleteISR stores frame f in slot s.
LEMMA StoredSlots ==
    ASSUME SizeAssumption, inq \in Queues, NEW s \in Slots, NEW f \in FrameSet, Store(f, s),
           \A r \in InUse(inq) : inq[r].stamp >= 1
    PROVE  /\ inq' \in Queues
           /\ inq'[s].frame = f /\ inq'[s].usage = Dispatched(f)
           /\ inq'[s].stamp = IF s \in InUse(inq) THEN SizeQ ELSE Cardinality(InUse(inq)) + 1
           /\ \A r \in Slots \ {s} :
                /\ inq'[r].frame = inq[r].frame /\ inq'[r].usage = inq[r].usage
                /\ inq'[r].stamp =
                       IF s \in InUse(inq) /\ r \in InUse(inq) /\ inq[r].stamp > inq[s].stamp
                       THEN inq[r].stamp - 1 ELSE inq[r].stamp
<1> DEFINE q == Stamped(inq, s)
           new == IF s \in InUse(inq) THEN SizeQ ELSE Cardinality(InUse(inq)) + 1
<1>1. new \in 0..SizeQ
  <2>1. InUse(inq) \in SUBSET Slots
    BY DEF InUse
  <2> QED
    BY <2>1, SlotsFinite DEF SizeAssumption
<1>2. /\ q \in Queues /\ q[s].stamp = new
      /\ \A r \in Slots \ {s} :
           /\ q[r].frame = inq[r].frame /\ q[r].usage = inq[r].usage
           /\ q[r].stamp =
                  IF s \in InUse(inq) /\ r \in InUse(inq) /\ inq[r].stamp > inq[s].stamp
                  THEN inq[r].stamp - 1 ELSE inq[r].stamp
  <2>1. CASE s \notin InUse(inq)
    <3>1. q = [inq EXCEPT ![s].stamp = new]
      BY <2>1 DEF Stamped
    <3>2. q \in Queues /\ q[s].stamp = new /\ \A r \in Slots \ {s} : q[r] = inq[r]
      <4> HIDE DEF new, q
      <4> DEFINE v == [inq[s] EXCEPT !.stamp = new]
      <4>1. v \in SlotSet /\ v.stamp = new
        BY <1>1 DEF Queues, SlotSet
      <4>2. q = [inq EXCEPT ![s] = v]
        BY <3>1
      <4> HIDE DEF v
      <4> QED
        BY <4>1, <4>2 DEF Queues
    <3> QED
      BY <2>1, <3>2
  <2>2. CASE s \in InUse(inq)
    <3> DEFINE a == AdjustOrder(inq, inq[s].stamp)
    <3>1. inq[s].stamp \in Nat /\ inq[s].stamp >= 1
      BY <2>2 DEF Queues, SlotSet, SizeAssumption
    <3>2. a \in Queues
      BY <3>1, AdjustedSlots
    <3>3. q = [a EXCEPT ![s].stamp = SizeQ]
      BY <2>2 DEF Stamped
    <3>4. \A r \in Slots :
            /\ a[r].usage = inq[r].usage /\ a[r].frame = inq[r].frame
            /\ a[r].stamp = IF r \in InUse(inq) /\ inq[r].stamp > inq[s].stamp
                           THEN inq[r].stamp - 1 ELSE inq[r].stamp
      BY <3>1, AdjustedSlots
    <3>5. q \in Queues /\ q[s].stamp = SizeQ /\ \A r \in Slots \ {s} : q[r] = a[r]
      <4> HIDE DEF a, q
      <4> DEFINE v == [a[s] EXCEPT !.stamp = SizeQ]
      <4>1. SizeQ \in 0..SizeQ
        BY DEF SizeAssumption
      <4>2. v \in SlotSet /\ v.stamp = SizeQ
        BY <3>2, <4>1 DEF Queues, SlotSet
      <4>3. q = [a EXCEPT ![s] = v]
        BY <3>3
      <4> HIDE DEF v
      <4> QED
        BY <3>2, <4>2, <4>3 DEF Queues
    <3> HIDE DEF a, q
    <3> QED
      BY <2>2, <3>4, <3>5
  <2> QED
    BY <2>1, <2>2
<1>3. inq' = [q EXCEPT ![s].frame = f, ![s].usage = Dispatched(f)]
  BY DEF Store
<1>4. Dispatched(f) \in {"available", "until_del"}
  BY DEF Dispatched
<1> DEFINE w == [usage |-> Dispatched(f), stamp |-> new, frame |-> f]
<1> HIDE DEF q, new
<1>5. /\ inq' \in Queues /\ inq'[s].frame = f /\ inq'[s].usage = Dispatched(f)
      /\ inq'[s].stamp = new /\ \A r \in Slots \ {s} : inq'[r] = q[r]
  <2>1. w \in SlotSet
    BY <1>1, <1>4 DEF SlotSet
  <2>2. [q[s] EXCEPT !.frame = f, !.usage = Dispatched(f)] = w
    <3>1. q[s] \in SlotSet /\ q[s].stamp = new
      BY <1>2 DEF Queues
    <3>2. [q[s] EXCEPT !.frame = f] = [usage |-> q[s].usage, stamp |-> new, frame |-> f]
      BY <3>1 DEF SlotSet
    <3>3. [[usage |-> q[s].usage, stamp |-> new, frame |-> f] EXCEPT !.usage = Dispatched(f)] = w
      OBVIOUS
    <3>4. [q[s] EXCEPT !.frame = f, !.usage = Dispatched(f)]
          = [[q[s] EXCEPT !.frame = f] EXCEPT !.usage = Dispatched(f)]
      OBVIOUS
    <3> QED
      BY <3>2, <3>3, <3>4
  <2>3. inq' = [q EXCEPT ![s] = w]
    BY <1>2, <1>3, <2>2 DEF Queues
  <2> HIDE DEF w
  <2>4. inq' \in Queues /\ inq'[s] = w /\ \A r \in Slots \ {s} : inq'[r] = q[r]
    BY <1>2, <2>1, <2>3 DEF Queues
  <2> QED
    BY <2>4 DEF w
<1> QED
  BY <1>2, <1>5 DEF new

(***************************************************************************)
(* The invariant.                                                          *)
(***************************************************************************)

Scanning == {"mark", "compare", "restore", "take"}
Labels == Scanning \union {"copy", "adjust", "free"}
ReaderSet == [pc : Labels, rcv : Contexts, i : Slots, cand : 0..SizeQ,
              oldest : 1..SizeQ + 1, stamp : 0..SizeQ]

Types ==
    /\ inq \in Queues
    /\ reader = Idle \/ reader \in ReaderSet
    /\ arrived \in Nat
    /\ kept \subseteq FrameSet
    /\ got \in Seq([rcv : Contexts, frame : FrameSet])
    /\ scanQuiet \in BOOLEAN /\ disturbed \in BOOLEAN

\* The candidate lies behind the scan, and it and the frame that replaces it are
\* asked for.
Reading ==
    reader # Idle =>
        /\ reader.pc \in Scanning => reader.cand < reader.i
        /\ reader.pc \notin Scanning => reader.cand # 0
        /\ reader.pc \in {"restore", "take"} => Wanted(reader.rcv, inq[reader.i].frame)
        /\ reader.cand # 0 /\ reader.pc # "take" =>
               Wanted(reader.rcv, inq[reader.cand].frame)

\* Frames that wait are kept, in one slot each, and neither cast out nor, but for
\* the one that is being released, retrieved.
Accounted ==
    /\ NoneVanishes
    /\ castOut \subseteq kept
    /\ \A f \in kept : f.id \in 1..arrived
    /\ \A s \in InUse(inq) : inq[s].frame \in kept /\ inq[s].frame \notin castOut
    /\ \A r, s \in InUse(inq) : inq[r].frame.id = inq[s].frame.id => r = s
    /\ \A s \in InUse(inq) : inq[s].frame \in Retrieved =>
           reader.pc \in {"adjust", "free"} /\ s = reader.cand
    /\ reader.pc \in {"adjust", "free"} => inq[reader.cand].frame \in Retrieved

\* The slots whose stamps count: not the one that nwk_QadjustOrder has passed over.
Counted == IF reader.pc = "free" THEN InUse(inq) \ {reader.cand} ELSE InUse(inq)

InOrderOfAge(S) ==
    \A r, s \in S : inq[r].stamp < inq[s].stamp <=> inq[r].frame.id < inq[s].frame.id

\* The stamps of n frames are among 1..n.
Stamps ==
    /\ \A s \in InUse(inq) : inq[s].stamp >= 1
    /\ reader.pc = "adjust" =>
           reader.stamp >= 1 /\ (~disturbed => reader.stamp = inq[reader.cand].stamp)
    /\ ~disturbed => /\ \A s \in Counted : inq[s].stamp <= Cardinality(Counted)
                     /\ InOrderOfAge(Counted)

\* What an undisturbed scan has seen so far.
Seen == IF reader.pc = "copy" THEN Slots ELSE 1..reader.i - 1

Scan ==
    scanQuiet /\ reader.pc \in Scanning \union {"copy"} =>
        /\ \A s \in Seen \intersect InUse(inq) :
               Wanted(reader.rcv, inq[s].frame) =>
                   reader.cand # 0 /\ inq[reader.cand].stamp <= inq[s].stamp
        /\ reader.pc # "copy" =>
               reader.oldest = IF reader.cand = 0 THEN SizeQ + 1 ELSE inq[reader.cand].stamp
        /\ reader.pc \in {"restore", "take"} => inq[reader.i].stamp < reader.oldest

FInv == Types /\ Reading /\ Accounted /\ MarkedIffHeld /\ Stamps /\ Scan

(***************************************************************************)
(* The scan.                                                               *)
(***************************************************************************)

\* Marks come and go on slots in use, and nothing else changes.
LEMMA MarksOnly ==
    ASSUME FInv, inq' \in Queues,
           \A s \in Slots : /\ inq'[s].frame = inq[s].frame /\ inq'[s].stamp = inq[s].stamp
                            /\ inq'[s].usage = "available" <=> inq[s].usage = "available",
           UNCHANGED <<arrived, kept, castOut, got, disturbed>>,
           reader.pc \notin {"adjust", "free"}, reader'.pc \notin {"adjust", "free"}
    PROVE  Accounted' /\ Stamps' /\ InUse(inq') = InUse(inq)
<1>1. InUse(inq') = InUse(inq)
  BY DEF InUse
<1>2. \A s \in InUse(inq) : inq'[s].frame = inq[s].frame /\ inq'[s].stamp = inq[s].stamp
  BY DEF InUse
<1>3. Queued' = Queued /\ Retrieved' = Retrieved
  BY <1>1, <1>2 DEF Queued, Retrieved
<1>4. Accounted'
  <2>1. NoneVanishes'
    BY <1>3 DEF FInv, Accounted, NoneVanishes
  <2> QED
    BY <1>1, <1>2, <1>3, <2>1 DEF FInv, Accounted
<1>5. Stamps'
  <2>1. Counted' = InUse(inq) /\ Counted = InUse(inq)
    BY <1>1 DEF Counted
  <2> QED
    BY <1>1, <1>2, <2>1 DEF FInv, Stamps, InOrderOfAge
<1> QED
  BY <1>1, <1>4, <1>5

\* The end of the loop's body.
LEMMA AdvanceProperties ==
    ASSUME SizeAssumption, NEW r \in ReaderSet, NEW c \in 0..SizeQ
    PROVE  LET a == Advance(r, c)
           IN  \/ /\ r.i < SizeQ /\ a \in ReaderSet /\ a.pc = "mark" /\ a.i = r.i + 1
                  /\ a.cand = c /\ a.rcv = r.rcv /\ a.oldest = r.oldest
               \/ r.i = SizeQ /\ c = 0 /\ a = Idle
               \/ /\ r.i = SizeQ /\ c # 0 /\ a \in ReaderSet /\ a.pc = "copy"
                  /\ a.cand = c /\ a.rcv = r.rcv
<1>1. r.i \in Nat /\ r.i >= 1 /\ r.i <= SizeQ /\ SizeQ \in Nat
  BY DEF ReaderSet, Slots, SizeAssumption
<1>2. CASE r.i < SizeQ
  <2>1. r.i + 1 \in Slots
    BY <1>1, <1>2 DEF Slots
  <2>2. Advance(r, c) = [pc |-> "mark", rcv |-> r.rcv, i |-> r.i + 1, cand |-> c,
                         oldest |-> r.oldest, stamp |-> r.stamp]
    BY <1>2 DEF Advance, ReaderSet
  <2> QED
    BY <1>2, <2>1, <2>2 DEF ReaderSet, Labels, Scanning
<1>3. CASE r.i = SizeQ /\ c = 0
  BY <1>1, <1>3 DEF Advance
<1>4. CASE r.i = SizeQ /\ c # 0
  <2> DEFINE b == [pc |-> "copy", rcv |-> r.rcv, i |-> r.i, cand |-> r.cand,
                   oldest |-> r.oldest, stamp |-> r.stamp]
  <2>1. [r EXCEPT !.pc = "copy"] = b
    BY DEF ReaderSet
  <2>2. [b EXCEPT !.cand = c] = [pc |-> "copy", rcv |-> r.rcv, i |-> r.i, cand |-> c,
                                 oldest |-> r.oldest, stamp |-> r.stamp]
    OBVIOUS
  <2>3. Advance(r, c) = [r EXCEPT !.pc = "copy", !.cand = c]
    BY <1>1, <1>4 DEF Advance
  <2>4. [r EXCEPT !.pc = "copy", !.cand = c] = [[r EXCEPT !.pc = "copy"] EXCEPT !.cand = c]
    OBVIOUS
  <2> QED
    BY <1>4, <2>1, <2>2, <2>3, <2>4 DEF ReaderSet, Labels, Scanning
<1> QED
  BY <1>1, <1>2, <1>3, <1>4

LEMMA AdvanceKeeps ==
    ASSUME SizeAssumption, NEW r \in ReaderSet, NEW c \in 0..SizeQ, c <= r.i,
           reader' = Advance(r, c), inq' \in Queues,
           {s \in Slots : inq'[s].usage = "transition"} = IF c = 0 THEN {} ELSE {c},
           c # 0 => Wanted(r.rcv, inq'[c].frame),
           scanQuiet' =>
               /\ \A s \in 1..r.i : s \in InUse(inq') /\ Wanted(r.rcv, inq'[s].frame) =>
                      c # 0 /\ inq'[c].stamp <= inq'[s].stamp
               /\ r.oldest = IF c = 0 THEN SizeQ + 1 ELSE inq'[c].stamp
    PROVE  /\ reader' = Idle \/ reader' \in ReaderSet
           /\ reader'.pc \notin {"adjust", "free"}
           /\ Reading' /\ MarkedIffHeld' /\ Scan'
<1>1. r.i \in Nat /\ c \in Nat /\ SizeQ \in Nat /\ Slots = 1..SizeQ
  BY DEF ReaderSet, Slots, SizeAssumption
<1>2. CASE /\ r.i < SizeQ /\ reader' \in ReaderSet /\ reader'.pc = "mark"
           /\ reader'.i = r.i + 1 /\ reader'.cand = c /\ reader'.rcv = r.rcv
           /\ reader'.oldest = r.oldest
  <2>1. Seen' = 1..r.i
    BY <1>1, <1>2 DEF Seen
  <2>2. Held' = IF c = 0 THEN {} ELSE {c}
    BY <1>2 DEF Held
  <2>3. Reading'
    BY <1>1, <1>2 DEF Reading, Scanning
  <2>4. Scan'
    BY <1>2, <2>1 DEF Scan
  <2> QED
    BY <1>2, <2>2, <2>3, <2>4 DEF MarkedIffHeld
<1>3. CASE r.i = SizeQ /\ c = 0 /\ reader' = Idle
  <2>1. reader'.pc = "idle"
    BY <1>3 DEF Idle
  <2> QED
    BY <1>3, <2>1 DEF Reading, MarkedIffHeld, Held, Scan, Scanning
<1>4. CASE /\ r.i = SizeQ /\ c # 0 /\ reader' \in ReaderSet /\ reader'.pc = "copy"
           /\ reader'.cand = c /\ reader'.rcv = r.rcv
  <2>1. Seen' = 1..r.i
    BY <1>1, <1>4 DEF Seen
  <2>2. Held' = {c}
    BY <1>4 DEF Held
  <2>3. Reading'
    BY <1>4 DEF Reading, Scanning
  <2>4. Scan'
    BY <1>4, <2>1 DEF Scan
  <2> QED
    BY <1>4, <2>2, <2>3, <2>4 DEF MarkedIffHeld
<1> QED
  BY <1>2, <1>3, <1>4, AdvanceProperties

LEMMA RetrieveKeepsFInv ==
    ASSUME SizeAssumption, FInv, NEW rcv \in Contexts, Retrieve(rcv)
    PROVE  FInv'
<1> DEFINE r == [pc |-> "mark", rcv |-> rcv, i |-> 1, cand |-> 0, oldest |-> SizeQ + 1,
                 stamp |-> 0]
<1>1. /\ reader = Idle /\ reader' = r /\ scanQuiet' = TRUE
      /\ UNCHANGED <<inq, arrived, kept, castOut, got, disturbed>>
  BY DEF Retrieve
<1>2. r \in ReaderSet
  BY DEF ReaderSet, Labels, Scanning, SizeAssumption, Slots
<1>3. reader.pc = "idle"
  BY <1>1 DEF Idle
<1>4. Types'
  BY <1>1, <1>2 DEF FInv, Types
<1>5. Accounted' /\ Stamps'
  BY <1>1, <1>3, <1>4, MarksOnly DEF Types
<1>6. Reading'
  BY <1>1 DEF Reading, Scanning
<1>7. MarkedIffHeld'
  BY <1>1, <1>3 DEF FInv, MarkedIffHeld, Held
<1>8. Scan'
  BY <1>1 DEF Scan, Seen
<1> QED
  BY <1>4, <1>5, <1>6, <1>7, <1>8 DEF FInv

\* What the invariant says of the reader that scans.
LEMMA Scanner ==
    ASSUME SizeAssumption, FInv, reader.pc \in Scanning
    PROVE  /\ reader # Idle /\ reader \in ReaderSet
           /\ reader.i \in Slots /\ reader.i \in Nat /\ reader.cand \in 0..SizeQ
           /\ reader.cand \in Nat /\ reader.cand < reader.i /\ SizeQ \in Nat
           /\ reader.cand # 0 => reader.cand \in Slots
           /\ reader.oldest \in Nat
           /\ \A s \in Slots : inq[s].stamp \in Nat /\ inq[s].stamp <= SizeQ
<1>1. reader # Idle /\ reader \in ReaderSet
  BY DEF Idle, Scanning, FInv, Types
<1>2. reader.cand < reader.i
  BY <1>1 DEF FInv, Reading
<1>3. \A s \in Slots : inq[s].stamp \in 0..SizeQ
  BY DEF FInv, Types, Queues, SlotSet
<1> QED
  BY <1>1, <1>2, <1>3 DEF ReaderSet, Slots, SizeAssumption

LEMMA MarkKeepsFInv ==
    ASSUME SizeAssumption, FInv, Mark
    PROVE  FInv'
<1> DEFINE i == reader.i
           c == reader.cand
<1>1. /\ reader.pc = "mark"
      /\ UNCHANGED <<arrived, kept, castOut, got, scanQuiet, disturbed>>
  BY DEF Mark
<1>2. /\ reader # Idle /\ reader \in ReaderSet /\ i \in Slots /\ i \in Nat /\ c \in 0..SizeQ
      /\ c \in Nat /\ c < i /\ SizeQ \in Nat /\ (c # 0 => c \in Slots)
      /\ Held = IF c = 0 THEN {} ELSE {c}
  BY <1>1, Scanner DEF Scanning, Held
<1>3. inq \in Queues /\ {s \in Slots : inq[s].usage = "transition"} = Held
  BY DEF FInv, Types, MarkedIffHeld
<1>4. CASE inq[i].usage = "until_del"
  <2>1. /\ inq' = [inq EXCEPT ![i].usage = "transition"]
        /\ reader' = [reader EXCEPT !.pc = "compare"]
    BY <1>4 DEF Mark
  <2>2. /\ inq' \in Queues /\ inq'[i].usage = "transition"
        /\ \A s \in Slots : /\ inq'[s].frame = inq[s].frame /\ inq'[s].stamp = inq[s].stamp
                            /\ s # i => inq'[s].usage = inq[s].usage
    BY <1>2, <1>3, <2>1 DEF Queues, SlotSet
  <2>3. /\ reader' \in ReaderSet /\ reader'.pc = "compare" /\ reader'.i = i
        /\ reader'.cand = c /\ reader'.rcv = reader.rcv /\ reader'.oldest = reader.oldest
        /\ reader' # Idle
    BY <1>2, <2>1 DEF ReaderSet, Labels, Scanning, Idle
  <2>4. Types'
    BY <1>1, <2>2, <2>3 DEF FInv, Types
  <2>5. Accounted' /\ Stamps' /\ InUse(inq') = InUse(inq)
    BY <1>1, <1>2, <1>4, <2>2, <2>3, MarksOnly
  <2>6. Reading'
    BY <1>1, <1>2, <2>2, <2>3 DEF FInv, Reading, Scanning
  <2>7. MarkedIffHeld'
    <3>1. Held' = Held \union {i}
      BY <1>2, <2>3 DEF Held
    <3>2. {s \in Slots : inq'[s].usage = "transition"} = Held \union {i}
      BY <1>2, <1>3, <2>2
    <3> QED
      BY <3>1, <3>2 DEF MarkedIffHeld
  <2>8. Scan'
    <3>1. Seen' = Seen /\ Seen = 1..i - 1 /\ Seen \subseteq Slots
      BY <1>1, <1>2, <2>3 DEF Seen, Slots
    <3> QED
      BY <1>1, <1>2, <2>2, <2>3, <2>5, <3>1 DEF FInv, Scan, Scanning
  <2> QED
    BY <2>4, <2>5, <2>6, <2>7, <2>8 DEF FInv
<1>5. CASE inq[i].usage # "until_del"
  <2>1. inq' = inq /\ reader' = Advance(reader, c)
    BY <1>5 DEF Mark
  <2>2. i \notin InUse(inq)
    <3>1. i \notin Held
      BY <1>2
    <3>2. inq[i].usage \in {"available", "until_del", "transition"}
      BY <1>2, <1>3 DEF Queues, SlotSet
    <3> QED
      BY <1>2, <1>3, <1>5, <3>1, <3>2 DEF InUse
  <2>3. scanQuiet =>
            /\ \A s \in 1..i : s \in InUse(inq) /\ Wanted(reader.rcv, inq[s].frame) =>
                   c # 0 /\ inq[c].stamp <= inq[s].stamp
            /\ reader.oldest = IF c = 0 THEN SizeQ + 1 ELSE inq[c].stamp
    <3>1. \A s \in 1..i : s # i => s \in Seen
      BY <1>1, <1>2 DEF Seen
    <3> QED
      BY <1>1, <1>2, <2>2, <3>1 DEF FInv, Scan, Scanning
  <2>4. c # 0 => Wanted(reader.rcv, inq[c].frame)
    BY <1>1, <1>2 DEF FInv, Reading
  <2>5. /\ reader' = Idle \/ reader' \in ReaderSet
        /\ reader'.pc \notin {"adjust", "free"}
        /\ Reading' /\ MarkedIffHeld' /\ Scan'
    BY <1>1, <1>2, <1>3, <2>1, <2>3, <2>4, AdvanceKeeps
  <2>6. Types'
    BY <1>1, <2>1, <2>5 DEF FInv, Types
  <2>7. Accounted' /\ Stamps'
    BY <1>1, <1>3, <2>1, <2>5, MarksOnly
  <2> QED
    BY <2>5, <2>6, <2>7 DEF FInv
<1> QED
  BY <1>4, <1>5

LEMMA CompareKeepsFInv ==
    ASSUME SizeAssumption, FInv, Compare
    PROVE  FInv'
<1> DEFINE i == reader.i
           c == reader.cand
           older == Wanted(reader.rcv, inq[i].frame) /\ inq[i].stamp < reader.oldest
<1>1. /\ reader.pc = "compare"
      /\ UNCHANGED <<arrived, kept, castOut, got, scanQuiet, disturbed>>
      /\ inq' = IF older THEN inq ELSE [inq EXCEPT ![i].usage = "until_del"]
      /\ reader' = IF older THEN [reader EXCEPT !.pc = "restore"] ELSE Advance(reader, c)
  BY DEF Compare
<1>2. /\ reader # Idle /\ reader \in ReaderSet /\ i \in Slots /\ i \in Nat /\ c \in 0..SizeQ
      /\ c \in Nat /\ c < i /\ SizeQ \in Nat /\ (c # 0 => c \in Slots)
      /\ reader.oldest \in Nat /\ \A s \in Slots : inq[s].stamp \in Nat /\ inq[s].stamp <= SizeQ
      /\ Held = (IF c = 0 THEN {} ELSE {c}) \union {i}
  BY <1>1, Scanner DEF Scanning, Held
<1>3. inq \in Queues /\ {s \in Slots : inq[s].usage = "transition"} = Held
  BY DEF FInv, Types, MarkedIffHeld
<1>4. CASE older
  <2>1. inq' = inq /\ reader' = [reader EXCEPT !.pc = "restore"]
    BY <1>1, <1>4
  <2>2. /\ reader' \in ReaderSet /\ reader'.pc = "restore" /\ reader'.i = i
        /\ reader'.cand = c /\ reader'.rcv = reader.rcv /\ reader'.oldest = reader.oldest
        /\ reader' # Idle
    BY <1>2, <2>1 DEF ReaderSet, Labels, Scanning, Idle
  <2>3. Types'
    BY <1>1, <2>1, <2>2 DEF FInv, Types
  <2>4. Accounted' /\ Stamps'
    BY <1>1, <1>3, <2>1, <2>2, MarksOnly
  <2>5. Reading'
    BY <1>1, <1>2, <1>4, <2>1, <2>2 DEF FInv, Reading, Scanning
  <2>6. MarkedIffHeld'
    BY <1>2, <1>3, <2>1, <2>2 DEF MarkedIffHeld, Held
  <2>7. Scan'
    <3>1. Seen' = Seen
      BY <1>1, <2>2 DEF Seen
    <3> QED
      BY <1>1, <1>4, <2>1, <2>2, <3>1 DEF FInv, Scan, Scanning
  <2> QED
    BY <2>3, <2>4, <2>5, <2>6, <2>7 DEF FInv
<1>5. CASE ~older
  <2>1. inq' = [inq EXCEPT ![i].usage = "until_del"] /\ reader' = Advance(reader, c)
    BY <1>1, <1>5
  <2>2. /\ inq' \in Queues /\ inq'[i].usage = "until_del"
        /\ \A s \in Slots : /\ inq'[s].frame = inq[s].frame /\ inq'[s].stamp = inq[s].stamp
                            /\ s # i => inq'[s].usage = inq[s].usage
    BY <1>2, <1>3, <2>1 DEF Queues, SlotSet
  <2>3. InUse(inq') = InUse(inq)
    BY <1>2, <1>3, <2>2 DEF InUse
  <2>4. {s \in Slots : inq'[s].usage = "transition"} = IF c = 0 THEN {} ELSE {c}
    BY <1>2, <1>3, <2>2
  <2>5. c # 0 => Wanted(reader.rcv, inq'[c].frame)
    BY <1>1, <1>2, <2>2 DEF FInv, Reading
  <2>6. scanQuiet =>
            /\ \A s \in 1..i : s \in InUse(inq') /\ Wanted(reader.rcv, inq'[s].frame) =>
                   c # 0 /\ inq'[c].stamp <= inq'[s].stamp
            /\ reader.oldest = IF c = 0 THEN SizeQ + 1 ELSE inq'[c].stamp
    <3> SUFFICES ASSUME scanQuiet
                 PROVE  /\ \A s \in 1..i : s \in InUse(inq') /\ Wanted(reader.rcv, inq'[s].frame) =>
                              c # 0 /\ inq'[c].stamp <= inq'[s].stamp
                        /\ reader.oldest = IF c = 0 THEN SizeQ + 1 ELSE inq'[c].stamp
      OBVIOUS
    <3>1. reader.oldest = IF c = 0 THEN SizeQ + 1 ELSE inq[c].stamp
      BY <1>1 DEF FInv, Scan, Scanning
    <3>2. \A s \in InUse(inq) : s \in 1..i - 1 /\ Wanted(reader.rcv, inq[s].frame) =>
              c # 0 /\ inq[c].stamp <= inq[s].stamp
      BY <1>1 DEF FInv, Scan, Scanning, Seen
    <3>3. Wanted(reader.rcv, inq[i].frame) => c # 0 /\ inq[c].stamp <= inq[i].stamp
      BY <1>2, <1>5, <3>1
    <3>4. \A s \in 1..i : s = i \/ s \in 1..i - 1
      BY <1>2
    <3>5. \A s \in InUse(inq) : s \in Slots
      BY DEF InUse
    <3> QED
      BY <1>2, <2>2, <2>3, <3>1, <3>2, <3>3, <3>4, <3>5
  <2>7. /\ reader' = Idle \/ reader' \in ReaderSet
        /\ reader'.pc \notin {"adjust", "free"}
        /\ Reading' /\ MarkedIffHeld' /\ Scan'
    <3>1. c <= i
      BY <1>2
    <3> HIDE DEF i, c
    <3> QED
      BY <1>1, <1>2, <2>1, <2>2, <2>4, <2>5, <2>6, <3>1, AdvanceKeeps DEF i, c
  <2>8. Types'
    BY <1>1, <2>2, <2>7 DEF FInv, Types
  <2>9. Accounted' /\ Stamps'
    BY <1>1, <1>2, <1>3, <2>2, <2>7, MarksOnly
  <2> QED
    BY <2>7, <2>8, <2>9 DEF FInv
<1> QED
  BY <1>4, <1>5

LEMMA RestoreKeepsFInv ==
    ASSUME SizeAssumption, FInv, Restore
    PROVE  FInv'
<1> DEFINE i == reader.i
           c == reader.cand
<1>1. /\ reader.pc = "restore" /\ reader' = [reader EXCEPT !.pc = "take"]
      /\ inq' = IF c = 0 THEN inq ELSE [inq EXCEPT ![c].usage = "until_del"]
      /\ UNCHANGED <<arrived, kept, castOut, got, scanQuiet, disturbed>>
  BY DEF Restore
<1>2. /\ reader # Idle /\ reader \in ReaderSet /\ i \in Slots /\ i \in Nat /\ c \in 0..SizeQ
      /\ c \in Nat /\ c < i /\ SizeQ \in Nat /\ (c # 0 => c \in Slots)
      /\ Held = (IF c = 0 THEN {} ELSE {c}) \union {i}
  BY <1>1, Scanner DEF Scanning, Held
<1>3. inq \in Queues /\ {s \in Slots : inq[s].usage = "transition"} = Held
  BY DEF FInv, Types, MarkedIffHeld
<1>4. /\ inq' \in Queues /\ (c # 0 => inq'[c].usage = "until_del")
      /\ \A s \in Slots : /\ inq'[s].frame = inq[s].frame /\ inq'[s].stamp = inq[s].stamp
                          /\ s # c => inq'[s].usage = inq[s].usage
  BY <1>1, <1>2, <1>3 DEF Queues, SlotSet
<1>5. /\ reader' \in ReaderSet /\ reader'.pc = "take" /\ reader'.i = i
      /\ reader'.cand = c /\ reader'.rcv = reader.rcv /\ reader'.oldest = reader.oldest
      /\ reader' # Idle
  BY <1>1, <1>2 DEF ReaderSet, Labels, Scanning, Idle
<1>6. Types'
  BY <1>1, <1>4, <1>5 DEF FInv, Types
<1>7. Accounted' /\ Stamps' /\ InUse(inq') = InUse(inq)
  BY <1>1, <1>2, <1>3, <1>4, <1>5, MarksOnly
<1>8. Reading'
  BY <1>1, <1>2, <1>4, <1>5 DEF FInv, Reading, Scanning
<1>9. MarkedIffHeld'
  <2>1. Held' = {i}
    BY <1>5 DEF Held
  <2>2. \A s \in Slots : inq[s].usage = "transition" <=> s = c \/ s = i
    BY <1>2, <1>3 DEF Slots
  <2>3. \A s \in Slots : inq'[s].usage = "transition" <=> s = i
    BY <1>2, <1>4, <2>2 DEF Slots
  <2>4. {s \in Slots : inq'[s].usage = "transition"} = {i}
    BY <1>2, <2>3
  <2> QED
    BY <2>1, <2>4 DEF MarkedIffHeld
<1>10. Scan'
  <2>1. Seen' = Seen /\ Seen = 1..i - 1
    BY <1>1, <1>5 DEF Seen
  <2>2. \A s \in InUse(inq) : s \in Slots
    BY DEF InUse
  <2> QED
    BY <1>1, <1>2, <1>4, <1>5, <1>7, <2>1, <2>2 DEF FInv, Scan, Scanning
<1> QED
  BY <1>6, <1>7, <1>8, <1>9, <1>10 DEF FInv

LEMMA TakeKeepsFInv ==
    ASSUME SizeAssumption, FInv, Take
    PROVE  FInv'
<1> DEFINE i == reader.i
           c == reader.cand
           r == [reader EXCEPT !.oldest = inq[i].stamp]
<1>1. /\ reader.pc = "take" /\ reader' = Advance(r, i)
      /\ UNCHANGED <<inq, arrived, kept, castOut, got, scanQuiet, disturbed>>
  BY DEF Take
<1>2. /\ reader # Idle /\ reader \in ReaderSet /\ i \in Slots /\ i \in Nat /\ c \in 0..SizeQ
      /\ c \in Nat /\ c < i /\ SizeQ \in Nat /\ (c # 0 => c \in Slots)
      /\ reader.oldest \in Nat /\ \A s \in Slots : inq[s].stamp \in Nat /\ inq[s].stamp <= SizeQ
      /\ Held = {i}
  BY <1>1, Scanner DEF Scanning, Held
<1>3. inq \in Queues /\ {s \in Slots : inq[s].usage = "transition"} = {i}
  BY <1>2 DEF FInv, Types, MarkedIffHeld
<1>4. inq[i].stamp \in 1..SizeQ + 1
  <2>1. i \in InUse(inq)
    BY <1>2, <1>3 DEF InUse
  <2>2. inq[i].stamp >= 1
    BY <2>1 DEF FInv, Stamps
  <2> QED
    BY <1>2, <2>2
<1>5. /\ r \in ReaderSet /\ r.i = i /\ r.rcv = reader.rcv /\ r.oldest = inq[i].stamp
  BY <1>2, <1>4 DEF ReaderSet
<1>6. i # 0 => Wanted(r.rcv, inq[i].frame)
  BY <1>1, <1>2, <1>5 DEF FInv, Reading
<1>7. scanQuiet =>
        \A s \in 1..i : s \in InUse(inq) /\ Wanted(r.rcv, inq[s].frame) =>
            i # 0 /\ inq[i].stamp <= inq[s].stamp
  <2> SUFFICES ASSUME scanQuiet, NEW s \in 1..i, s \in InUse(inq), Wanted(reader.rcv, inq[s].frame)
               PROVE  inq[i].stamp <= inq[s].stamp
    BY <1>2, <1>5 DEF Slots
  <2>1. /\ reader.oldest = IF c = 0 THEN SizeQ + 1 ELSE inq[c].stamp
        /\ inq[i].stamp < reader.oldest
    BY <1>1 DEF FInv, Scan, Scanning
  <2>2. s \in 1..i - 1 => c # 0 /\ inq[c].stamp <= inq[s].stamp
    BY <1>1 DEF FInv, Scan, Scanning, Seen
  <2>3. s = i \/ s \in 1..i - 1
    BY <1>2
  <2>4. inq[i].stamp \in Nat /\ inq[s].stamp \in Nat /\ (c # 0 => inq[c].stamp \in Nat)
    BY <1>2 DEF InUse
  <2> QED
    BY <2>1, <2>2, <2>3, <2>4
<1>8. /\ reader' = Idle \/ reader' \in ReaderSet
      /\ reader'.pc \notin {"adjust", "free"}
      /\ Reading' /\ MarkedIffHeld' /\ Scan'
  <2> HIDE DEF r
  <2>1. i \in 0..SizeQ /\ i # 0 /\ i <= r.i
    BY <1>2, <1>5 DEF Slots
  <2> HIDE DEF i, c
  <2> QED
    BY <1>1, <1>3, <1>5, <1>6, <1>7, <2>1, AdvanceKeeps
<1>9. Types'
  BY <1>1, <1>8 DEF FInv, Types
<1>10. Accounted' /\ Stamps'
  BY <1>1, <1>3, <1>8, MarksOnly
<1> QED
  BY <1>8, <1>9, <1>10 DEF FInv

(***************************************************************************)
(* The frame that is taken.                                                *)
(***************************************************************************)

LEMMA Holder ==
    ASSUME SizeAssumption, FInv, reader.pc \in {"copy", "adjust", "free"}
    PROVE  /\ reader # Idle /\ reader \in ReaderSet /\ Held = {reader.cand}
           /\ reader.cand \in InUse(inq) /\ reader.cand \in Slots
           /\ Wanted(reader.rcv, inq[reader.cand].frame)
           /\ \A s \in InUse(inq) :
                /\ s \in Slots /\ inq[s].frame \in FrameSet
                /\ inq[s].frame.id \in Nat /\ inq[s].stamp \in Nat
<1>1. reader # Idle /\ reader \in ReaderSet /\ inq \in Queues /\ kept \subseteq FrameSet
  BY DEF Idle, FInv, Types
<1>2. reader.cand # 0 /\ Wanted(reader.rcv, inq[reader.cand].frame)
  BY <1>1 DEF FInv, Reading, Scanning
<1>3. Held = {reader.cand}
  BY <1>2 DEF Held
<1>4. reader.cand \in InUse(inq)
  BY <1>3 DEF FInv, MarkedIffHeld, InUse
<1>5. \A s \in InUse(inq) : s \in Slots /\ inq[s].frame \in FrameSet /\ inq[s].stamp \in Nat
  BY <1>1 DEF FInv, Accounted, InUse, Queues, SlotSet, SizeAssumption
<1>6. \A f \in FrameSet : f.id \in Nat
  BY DEF FrameSet
<1> QED
  BY <1>1, <1>2, <1>3, <1>4, <1>5, <1>6

\* Closing the gap that slot k leaves keeps the others in order.
LEMMA GapCloses ==
    ASSUME SizeAssumption, NEW T \in SUBSET Slots, NEW k \in T,
           \A r \in T : /\ inq[r].stamp \in Nat /\ inq[r].stamp >= 1
                        /\ inq[r].stamp <= Cardinality(T) /\ inq[r].frame.id \in Nat,
           \A r, s \in T : inq[r].frame.id = inq[s].frame.id => r = s,
           InOrderOfAge(T),
           \A r \in T \ {k} :
                /\ inq'[r].frame = inq[r].frame
                /\ inq'[r].stamp = IF inq[r].stamp > inq[k].stamp THEN inq[r].stamp - 1
                                   ELSE inq[r].stamp
    PROVE  /\ Cardinality(T \ {k}) = Cardinality(T) - 1
           /\ \A r \in T \ {k} : inq'[r].stamp <= Cardinality(T) - 1
           /\ \A r, s \in T \ {k} : inq'[r].stamp < inq'[s].stamp
                                    <=> inq'[r].frame.id < inq'[s].frame.id
<1>1. Cardinality(T) \in Nat /\ Cardinality(T \ {k}) = Cardinality(T) - 1
  BY SlotsFinite, FS_RemoveElement DEF SizeAssumption
<1>2. \A r \in T \ {k} : inq[r].stamp # inq[k].stamp
  BY DEF InOrderOfAge
<1>3. ASSUME NEW r \in T \ {k}
      PROVE  inq'[r].stamp <= Cardinality(T) - 1
  BY <1>1, <1>2
<1>4. ASSUME NEW r \in T \ {k}, NEW s \in T \ {k}
      PROVE  inq'[r].stamp < inq'[s].stamp <=> inq'[r].frame.id < inq'[s].frame.id
  <2>1. inq[r].stamp < inq[s].stamp <=> inq[r].frame.id < inq[s].frame.id
    BY DEF InOrderOfAge
  <2>2. inq'[r].stamp < inq'[s].stamp <=> inq[r].stamp < inq[s].stamp
    BY <1>2
  <2> QED
    BY <2>1, <2>2
<1> QED
  BY <1>1, <1>3, <1>4

LEMMA CopyKeepsFInv ==
    ASSUME SizeAssumption, FInv, Copy
    PROVE  FInv'
<1> DEFINE c == reader.cand
           f == inq[c].frame
           g == [rcv |-> reader.rcv, frame |-> f]
<1>1. /\ reader.pc = "copy" /\ got' = Append(got, g)
      /\ reader' = [reader EXCEPT !.pc = "adjust", !.stamp = inq[c].stamp]
      /\ UNCHANGED <<inq, arrived, kept, castOut, scanQuiet, disturbed>>
  BY DEF Copy
<1>2. /\ reader # Idle /\ reader \in ReaderSet /\ Held = {c} /\ c \in InUse(inq) /\ c \in Slots
      /\ Wanted(reader.rcv, f) /\ f \in FrameSet
  BY <1>1, Holder
<1>3. inq[c].stamp \in 0..SizeQ
  BY <1>2 DEF FInv, Types, Queues, SlotSet
<1>4. /\ reader' \in ReaderSet /\ reader'.pc = "adjust" /\ reader'.cand = c
      /\ reader'.rcv = reader.rcv /\ reader'.stamp = inq[c].stamp /\ reader' # Idle
  <2> DEFINE x == [pc |-> "adjust", rcv |-> reader.rcv, i |-> reader.i, cand |-> c,
                   oldest |-> reader.oldest, stamp |-> reader.stamp]
  <2>1. [reader EXCEPT !.pc = "adjust"] = x
    BY <1>2 DEF ReaderSet
  <2>2. [x EXCEPT !.stamp = inq[c].stamp]
        = [pc |-> "adjust", rcv |-> reader.rcv, i |-> reader.i, cand |-> c,
           oldest |-> reader.oldest, stamp |-> inq[c].stamp]
    OBVIOUS
  <2>3. [reader EXCEPT !.pc = "adjust", !.stamp = inq[c].stamp]
        = [[reader EXCEPT !.pc = "adjust"] EXCEPT !.stamp = inq[c].stamp]
    OBVIOUS
  <2> QED
    BY <1>1, <1>2, <1>3, <2>1, <2>2, <2>3 DEF ReaderSet, Labels, Scanning, Idle
<1>5. /\ got \in Seq([rcv : Contexts, frame : FrameSet]) /\ g \in [rcv : Contexts, frame : FrameSet]
      /\ g.rcv = reader.rcv /\ g.frame = f
  BY <1>2 DEF FInv, Types, ReaderSet
<1> HIDE DEF g
<1>6. /\ got' \in Seq([rcv : Contexts, frame : FrameSet]) /\ DOMAIN got = 1..Len(got)
      /\ Len(got) \in Nat /\ DOMAIN got' = 1..Len(got) + 1
      /\ got'[Len(got) + 1] = g /\ \A n \in 1..Len(got) : got'[n] = got[n]
  BY <1>1, <1>5, AppendProperties, LenProperties
<1>7. Types'
  BY <1>1, <1>4, <1>6 DEF FInv, Types
<1>8. Retrieved' = Retrieved \union {f} /\ Queued' = Queued
  <2>1. Retrieved' = {got'[n].frame : n \in 1..Len(got) + 1}
    BY <1>6 DEF Retrieved
  <2>2. Retrieved = {got[n].frame : n \in 1..Len(got)}
    BY <1>6 DEF Retrieved
  <2>3. \A n \in 1..Len(got) + 1 : n = Len(got) + 1 \/ n \in 1..Len(got)
    BY <1>6
  <2>4. \A n \in 1..Len(got) : n \in 1..Len(got) + 1
    BY <1>6
  <2>5. Len(got) + 1 \in 1..Len(got) + 1
    BY <1>6
  <2>6. Retrieved' \subseteq Retrieved \union {f}
    BY <1>5, <1>6, <2>1, <2>2, <2>3
  <2>7. Retrieved \union {f} \subseteq Retrieved'
    BY <1>5, <1>6, <2>1, <2>2, <2>4, <2>5
  <2> QED
    BY <1>1, <2>6, <2>7 DEF Queued
<1>9. f \in kept /\ f \notin castOut /\ f \notin Retrieved /\ f \in Queued
  BY <1>1, <1>2 DEF FInv, Accounted, Queued
<1>10. Accounted'
  <2>1. kept' = Queued' \union Retrieved' \union castOut' /\ Retrieved' \intersect castOut' = {}
    BY <1>1, <1>8, <1>9 DEF FInv, Accounted, NoneVanishes
  <2>2. \A n \in DOMAIN got' : Wanted(got'[n].rcv, got'[n].frame)
    <3>1. \A n \in 1..Len(got) : Wanted(got[n].rcv, got[n].frame)
      BY <1>6 DEF FInv, Accounted, NoneVanishes
    <3>2. \A n \in 1..Len(got) + 1 : n = Len(got) + 1 \/ n \in 1..Len(got)
      BY <1>6
    <3> QED
      BY <1>2, <1>5, <1>6, <3>1, <3>2
  <2>3. ASSUME NEW m \in DOMAIN got', NEW n \in DOMAIN got', got'[m].frame = got'[n].frame
        PROVE  m = n
    <3>1. \A k \in 1..Len(got) : got[k].frame # f
      BY <1>6, <1>9 DEF Retrieved
    <3>2. \A k, l \in 1..Len(got) : got[k].frame = got[l].frame => k = l
      BY <1>6 DEF FInv, Accounted, NoneVanishes
    <3>3. (m = Len(got) + 1 \/ m \in 1..Len(got)) /\ (n = Len(got) + 1 \/ n \in 1..Len(got))
      BY <1>6
    <3> QED
      BY <1>5, <1>6, <2>3, <3>1, <3>2, <3>3
  <2>4. NoneVanishes'
    BY <2>1, <2>2, <2>3 DEF NoneVanishes
  <2>5. \A s \in InUse(inq) : inq[s].frame \in Retrieved \union {f} => s = c
    BY <1>1, <1>2 DEF FInv, Accounted
  <2> QED
    BY <1>1, <1>4, <1>8, <2>4, <2>5 DEF FInv, Accounted
<1>11. Stamps'
  <2>1. Counted' = InUse(inq) /\ Counted = InUse(inq)
    BY <1>1, <1>4 DEF Counted
  <2> QED
    BY <1>1, <1>2, <1>4, <2>1 DEF FInv, Stamps, InOrderOfAge
<1>12. Reading'
  BY <1>1, <1>2, <1>4 DEF FInv, Reading, Scanning
<1>13. MarkedIffHeld'
  <2>1. Held' = {c}
    BY <1>2, <1>4 DEF Held, Slots
  <2> QED
    BY <1>1, <1>2, <2>1 DEF FInv, MarkedIffHeld
<1>14. Scan'
  BY <1>4 DEF Scan, Scanning
<1> QED
  BY <1>7, <1>10, <1>11, <1>12, <1>13, <1>14 DEF FInv

LEMMA AdjustKeepsFInv ==
    ASSUME SizeAssumption, FInv, Adjust
    PROVE  FInv'
<1> DEFINE c == reader.cand
           k == reader.stamp
<1>1. /\ reader.pc = "adjust" /\ inq' = AdjustOrder(inq, k)
      /\ reader' = [reader EXCEPT !.pc = "free"]
      /\ UNCHANGED <<arrived, kept, castOut, got, scanQuiet, disturbed>>
  BY DEF Adjust
<1>2. /\ reader # Idle /\ reader \in ReaderSet /\ Held = {c} /\ c \in InUse(inq) /\ c \in Slots
      /\ Wanted(reader.rcv, inq[c].frame)
      /\ \A s \in InUse(inq) : s \in Slots /\ inq[s].frame.id \in Nat /\ inq[s].stamp \in Nat
  BY <1>1, Holder
<1>3. /\ k \in Nat /\ k >= 1 /\ (~disturbed => k = inq[c].stamp)
      /\ \A s \in InUse(inq) : inq[s].stamp >= 1
      /\ ~disturbed => /\ \A s \in InUse(inq) : inq[s].stamp <= Cardinality(InUse(inq))
                       /\ InOrderOfAge(InUse(inq))
  BY <1>1, <1>2 DEF FInv, Stamps, Counted, ReaderSet, SizeAssumption
<1>4. /\ inq' \in Queues
      /\ \A s \in Slots :
           /\ inq'[s].usage = inq[s].usage /\ inq'[s].frame = inq[s].frame
           /\ inq'[s].stamp = IF s \in InUse(inq) /\ inq[s].stamp > k THEN inq[s].stamp - 1
                              ELSE inq[s].stamp
  <2>1. inq \in Queues
    BY DEF FInv, Types
  <2> HIDE DEF k
  <2> QED
    BY <1>1, <1>3, <2>1, AdjustedSlots
<1>5. /\ reader' \in ReaderSet /\ reader'.pc = "free" /\ reader'.cand = c
      /\ reader'.rcv = reader.rcv /\ reader' # Idle
  BY <1>1, <1>2 DEF ReaderSet, Labels, Scanning, Idle
<1>6. InUse(inq') = InUse(inq)
  BY <1>4 DEF InUse
<1>7. Types'
  BY <1>1, <1>4, <1>5 DEF FInv, Types
<1>8. Accounted'
  <2>1. Queued' = Queued /\ Retrieved' = Retrieved
    BY <1>1, <1>2, <1>4, <1>6 DEF Queued, Retrieved
  <2>2. NoneVanishes'
    BY <1>1, <2>1 DEF FInv, Accounted, NoneVanishes
  <2> QED
    BY <1>1, <1>2, <1>4, <1>5, <1>6, <2>1, <2>2 DEF FInv, Accounted
<1>9. Stamps'
  <2>1. Counted' = InUse(inq) \ {c}
    BY <1>5, <1>6 DEF Counted
  <2>2. \A s \in InUse(inq) : inq'[s].stamp >= 1
    BY <1>2, <1>3, <1>4
  <2>3. ASSUME ~disturbed
        PROVE  /\ Cardinality(InUse(inq) \ {c}) = Cardinality(InUse(inq)) - 1
               /\ \A s \in InUse(inq) \ {c} : inq'[s].stamp <= Cardinality(InUse(inq)) - 1
               /\ \A r, s \in InUse(inq) \ {c} : inq'[r].stamp < inq'[s].stamp
                                              <=> inq'[r].frame.id < inq'[s].frame.id
    <3> DEFINE T == InUse(inq)
    <3>1. \A r, s \in T : inq[r].frame.id = inq[s].frame.id => r = s
      BY DEF FInv, Accounted
    <3>2. \A r \in T \ {c} :
            /\ inq'[r].frame = inq[r].frame
            /\ inq'[r].stamp = IF inq[r].stamp > inq[c].stamp THEN inq[r].stamp - 1
                               ELSE inq[r].stamp
      BY <1>2, <1>3, <1>4, <2>3
    <3>3. T \in SUBSET Slots /\ c \in T
      BY <1>2
    <3>4. \A r \in T : /\ inq[r].stamp \in Nat /\ inq[r].stamp >= 1
                       /\ inq[r].stamp <= Cardinality(T) /\ inq[r].frame.id \in Nat
      BY <1>2, <1>3, <2>3
    <3>5. InOrderOfAge(T)
      BY <1>3, <2>3
    <3> HIDE DEF T, c
    <3>6. /\ Cardinality(T \ {c}) = Cardinality(T) - 1
          /\ \A r \in T \ {c} : inq'[r].stamp <= Cardinality(T) - 1
          /\ \A r, s \in T \ {c} : inq'[r].stamp < inq'[s].stamp
                                   <=> inq'[r].frame.id < inq'[s].frame.id
      BY <3>1, <3>2, <3>3, <3>4, <3>5, GapCloses
    <3> QED
      BY <3>6 DEF T, c
  <2> QED
    BY <1>1, <1>5, <1>6, <2>1, <2>2, <2>3 DEF Stamps, InOrderOfAge
<1>10. Reading'
  BY <1>2, <1>4, <1>5 DEF Reading, Scanning, Slots
<1>11. MarkedIffHeld'
  <2>1. Held' = {c}
    BY <1>2, <1>5 DEF Held, Slots
  <2> QED
    BY <1>2, <1>4, <2>1 DEF FInv, MarkedIffHeld
<1>12. Scan'
  BY <1>5 DEF Scan, Scanning
<1> QED
  BY <1>7, <1>8, <1>9, <1>10, <1>11, <1>12 DEF FInv

LEMMA FreeKeepsFInv ==
    ASSUME SizeAssumption, FInv, Free
    PROVE  FInv'
<1> DEFINE c == reader.cand
<1>1. /\ reader.pc = "free" /\ reader' = Idle
      /\ inq' = [inq EXCEPT ![c].usage = "available"]
      /\ disturbed' = (disturbed /\ InUse(inq) # {c})
      /\ UNCHANGED <<arrived, kept, castOut, got, scanQuiet>>
  BY DEF Free
<1>2. /\ reader # Idle /\ reader \in ReaderSet /\ Held = {c} /\ c \in InUse(inq) /\ c \in Slots
      /\ \A s \in InUse(inq) : s \in Slots
  BY <1>1, Holder
<1>3. inq \in Queues /\ {s \in Slots : inq[s].usage = "transition"} = {c}
  BY <1>2 DEF FInv, Types, MarkedIffHeld
<1>4. /\ inq' \in Queues /\ inq'[c].usage = "available"
      /\ \A s \in Slots : /\ inq'[s].frame = inq[s].frame /\ inq'[s].stamp = inq[s].stamp
                          /\ s # c => inq'[s].usage = inq[s].usage
  BY <1>1, <1>2, <1>3 DEF Queues, SlotSet
<1>5. reader'.pc = "idle"
  BY <1>1 DEF Idle
<1>6. InUse(inq') = InUse(inq) \ {c}
  BY <1>2, <1>4 DEF InUse
<1>7. Types'
  BY <1>1, <1>4 DEF FInv, Types
<1>8. Accounted'
  <2>1. inq[c].frame \in Retrieved /\ Retrieved' = Retrieved
    BY <1>1 DEF FInv, Accounted, Retrieved
  <2>2. Queued' = {inq[s].frame : s \in InUse(inq) \ {c}}
    BY <1>2, <1>4, <1>6 DEF Queued
  <2>3. Queued' \union {inq[c].frame} = Queued
    BY <1>2, <2>2 DEF Queued
  <2>4. NoneVanishes'
    <3>1. kept' = Queued' \union Retrieved' \union castOut'
      BY <1>1, <2>1, <2>3 DEF FInv, Accounted, NoneVanishes
    <3> QED
      BY <1>1, <2>1, <3>1 DEF FInv, Accounted, NoneVanishes
  <2>5. \A s \in InUse(inq') :
          /\ s \in InUse(inq) /\ s # c /\ inq'[s].frame = inq[s].frame
    BY <1>2, <1>4, <1>6
  <2>6. \A s \in InUse(inq') : inq'[s].frame \notin Retrieved'
    BY <2>1, <2>5 DEF FInv, Accounted
  <2>7. /\ \A s \in InUse(inq') : inq'[s].frame \in kept' /\ inq'[s].frame \notin castOut'
        /\ \A r, s \in InUse(inq') : inq'[r].frame.id = inq'[s].frame.id => r = s
    <3>1. /\ \A s \in InUse(inq) : inq[s].frame \in kept /\ inq[s].frame \notin castOut
          /\ \A r, s \in InUse(inq) : inq[r].frame.id = inq[s].frame.id => r = s
      BY DEF FInv, Accounted
    <3>2. kept' = kept /\ castOut' = castOut
      BY <1>1
    <3> QED
      BY <2>5, <3>1, <3>2
  <2>8. castOut' \subseteq kept' /\ \A f \in kept' : f.id \in 1..arrived'
    BY <1>1 DEF FInv, Accounted
  <2> QED
    BY <1>5, <2>4, <2>6, <2>7, <2>8 DEF Accounted
<1>9. Stamps'
  <2>1. Counted' = InUse(inq) \ {c} /\ Counted = InUse(inq) \ {c}
    BY <1>1, <1>5, <1>6 DEF Counted
  <2>2. \A s \in InUse(inq) \ {c} : inq'[s].stamp = inq[s].stamp /\ inq'[s].frame = inq[s].frame
    BY <1>2, <1>4
  <2>3. \A s \in InUse(inq') : inq'[s].stamp >= 1
    BY <1>6, <2>2 DEF FInv, Stamps
  <2>4. CASE ~disturbed
    BY <1>5, <2>1, <2>2, <2>3, <2>4 DEF FInv, Stamps, InOrderOfAge
  <2>5. CASE InUse(inq) = {c}
    BY <1>5, <2>1, <2>3, <2>5 DEF Stamps, InOrderOfAge
  <2>6. CASE disturbed /\ InUse(inq) # {c}
    BY <1>1, <1>5, <2>3, <2>6 DEF Stamps
  <2> QED
    BY <2>4, <2>5, <2>6
<1>10. Reading' /\ Scan'
  BY <1>1, <1>5 DEF Reading, Scan, Scanning
<1>11. MarkedIffHeld'
  <2>1. \A s \in Slots : inq'[s].usage # "transition"
    BY <1>3, <1>4
  <2> QED
    BY <1>5, <2>1 DEF MarkedIffHeld, Held
<1> QED
  BY <1>7, <1>8, <1>9, <1>10, <1>11 DEF FInv

(***************************************************************************)
(* The interrupt.                                                          *)
(***************************************************************************)

\* What MRFI_RxCompleteISR leaves behind when it stores a frame.
LEMMA StoreLeaves ==
    ASSUME SizeAssumption, FInv, NEW kind \in FrameKinds, RxComplete(kind),
           NEW f, f = [id |-> arrived + 1, kind |-> kind],
           NEW s, s = SlotFound(inq), s # 0
    PROVE  /\ f \in FrameSet /\ f.id = arrived + 1 /\ arrived \in Nat
           /\ s \in Slots /\ s \notin Held
           /\ s \in InUse(inq) => InUse(inq) = Slots
           /\ kept' = IF Dispatched(f) = "until_del" THEN kept \union {f} ELSE kept
           /\ castOut' = IF s \in InUse(inq) THEN castOut \union {inq[s].frame} ELSE castOut
           /\ inq' \in Queues
           /\ InUse(inq') = IF Dispatched(f) = "until_del" THEN InUse(inq) \union {s}
                            ELSE InUse(inq) \ {s}
           /\ inq'[s].frame = f /\ inq'[s].usage # "transition"
           /\ inq'[s].stamp = IF s \in InUse(inq) THEN SizeQ ELSE Cardinality(InUse(inq)) + 1
           /\ \A r \in Slots \ {s} :
                /\ inq'[r].frame = inq[r].frame /\ inq'[r].usage = inq[r].usage
                /\ inq'[r].stamp =
                       IF s \in InUse(inq) /\ r \in InUse(inq) /\ inq[r].stamp > inq[s].stamp
                       THEN inq[r].stamp - 1 ELSE inq[r].stamp
<1>1. arrived \in Nat /\ inq \in Queues
  BY DEF FInv, Types
<1>2. f \in FrameSet /\ f.id = arrived + 1
  BY <1>1 DEF FrameSet
<1>3. s \in Slots /\ inq[s].usage # "transition" /\ (s \in InUse(inq) => InUse(inq) = Slots)
  BY <1>1, SlotFoundProperties
<1>4. s \notin Held
  BY <1>3 DEF FInv, MarkedIffHeld
<1>5. Store(f, s)
  BY DEF RxComplete
<1>6. \A r \in InUse(inq) : inq[r].stamp >= 1
  BY DEF FInv, Stamps
<1>7. /\ inq' \in Queues
      /\ inq'[s].frame = f /\ inq'[s].usage = Dispatched(f)
      /\ inq'[s].stamp = IF s \in InUse(inq) THEN SizeQ ELSE Cardinality(InUse(inq)) + 1
      /\ \A r \in Slots \ {s} :
           /\ inq'[r].frame = inq[r].frame /\ inq'[r].usage = inq[r].usage
           /\ inq'[r].stamp =
                  IF s \in InUse(inq) /\ r \in InUse(inq) /\ inq[r].stamp > inq[s].stamp
                  THEN inq[r].stamp - 1 ELSE inq[r].stamp
  BY <1>1, <1>2, <1>3, <1>5, <1>6, StoredSlots
<1>8. Dispatched(f) \in {"available", "until_del"}
  BY DEF Dispatched
<1>9. InUse(inq') = IF Dispatched(f) = "until_del" THEN InUse(inq) \union {s}
                    ELSE InUse(inq) \ {s}
  <2>1. \A r \in Slots : r # s => (r \in InUse(inq') <=> r \in InUse(inq))
    BY <1>7 DEF InUse
  <2>2. s \in InUse(inq') <=> Dispatched(f) = "until_del"
    BY <1>3, <1>7, <1>8 DEF InUse
  <2>3. InUse(inq) \subseteq Slots /\ InUse(inq') \subseteq Slots
    BY DEF InUse
  <2> QED
    BY <1>3, <2>1, <2>2, <2>3
<1>10. /\ kept' = IF Dispatched(f) = "until_del" THEN kept \union {f} ELSE kept
       /\ castOut' = IF s \in InUse(inq) THEN castOut \union {inq[s].frame} ELSE castOut
  BY <1>5 DEF Store
<1> QED
  BY <1>1, <1>2, <1>3, <1>4, <1>7, <1>8, <1>9, <1>10

LEMMA StoreAccounted ==
    ASSUME SizeAssumption, FInv, NEW kind \in FrameKinds, RxComplete(kind), SlotFound(inq) # 0
    PROVE  Accounted'
<1> DEFINE f == [id |-> arrived + 1, kind |-> kind]
           s == SlotFound(inq)
           U == InUse(inq)
           keep == Dispatched(f) = "until_del"
<1>1. /\ f.id = arrived + 1 /\ arrived \in Nat /\ s \in Slots /\ s \notin Held
      /\ kept' = IF keep THEN kept \union {f} ELSE kept
      /\ castOut' = IF s \in U THEN castOut \union {inq[s].frame} ELSE castOut
      /\ InUse(inq') = IF keep THEN U \union {s} ELSE U \ {s}
      /\ inq'[s].frame = f /\ \A r \in Slots \ {s} : inq'[r].frame = inq[r].frame
  <2> HIDE DEF f, s
  <2> QED
    BY StoreLeaves DEF f, s
<1>2. /\ arrived' = arrived + 1 /\ reader' = reader /\ got' = got
      /\ U \subseteq Slots
  BY DEF RxComplete, InUse
<1>3. /\ kept = Queued \union Retrieved \union castOut
      /\ castOut \subseteq kept /\ Retrieved \intersect castOut = {}
      /\ \A g \in kept : g.id \in 1..arrived
      /\ \A r \in U : inq[r].frame \in kept /\ inq[r].frame \notin castOut
      /\ \A q, r \in U : inq[q].frame.id = inq[r].frame.id => q = r
      /\ \A r \in U : inq[r].frame \in Retrieved =>
             reader.pc \in {"adjust", "free"} /\ r = reader.cand
      /\ reader.pc \in {"adjust", "free"} => inq[reader.cand].frame \in Retrieved
  BY DEF FInv, Accounted, NoneVanishes
<1>4. f \notin kept
  BY <1>1, <1>3
<1>5. reader.pc \in {"adjust", "free"} => reader.cand \in Slots \ {s}
  BY <1>1, Holder
<1>6. s \in U => inq[s].frame \notin Retrieved
  BY <1>3, <1>5
<1> HIDE DEF f, s, keep
<1>7. Retrieved' = Retrieved
  BY <1>2 DEF Retrieved
<1>8. Queued' = {inq[r].frame : r \in U \ {s}} \union (IF keep THEN {f} ELSE {})
  <2>1. \A r \in U \ {s} : r \in InUse(inq') /\ inq'[r].frame = inq[r].frame
    BY <1>1, <1>2
  <2>2. \A r \in InUse(inq') : r \in U \ {s} \/ (keep /\ r = s)
    BY <1>1
  <2>3. keep => s \in InUse(inq')
    BY <1>1
  <2> QED
    BY <1>1, <2>1, <2>2, <2>3 DEF Queued
<1>9. Queued = {inq[r].frame : r \in U \ {s}} \union (IF s \in U THEN {inq[s].frame} ELSE {})
  BY DEF Queued
<1>10. NoneVanishes'
  <2>1. kept' = Queued' \union Retrieved' \union castOut'
    BY <1>1, <1>3, <1>7, <1>8, <1>9
  <2>2. Retrieved' \intersect castOut' = {}
    BY <1>1, <1>3, <1>6, <1>7
  <2> QED
    BY <1>2, <2>1, <2>2 DEF FInv, Accounted, NoneVanishes
<1>11. castOut' \subseteq kept' /\ \A g \in kept' : g.id \in 1..arrived'
  BY <1>1, <1>2, <1>3
<1>12. ASSUME NEW r \in InUse(inq')
       PROVE  /\ inq'[r].frame \in kept' /\ inq'[r].frame \notin castOut'
              /\ inq'[r].frame \in Retrieved =>
                     reader.pc \in {"adjust", "free"} /\ r = reader.cand
  <2>1. CASE r = s
    BY <1>1, <1>3, <1>4, <2>1
  <2>2. CASE r # s
    <3>1. r \in U /\ inq'[r].frame = inq[r].frame
      BY <1>1, <1>2, <2>2
    <3>2. s \in U => inq[s].frame # inq[r].frame
      BY <1>3, <2>2, <3>1
    <3> QED
      BY <1>1, <1>3, <3>1, <3>2
  <2> QED
    BY <2>1, <2>2
<1>13. ASSUME NEW q \in InUse(inq'), NEW r \in InUse(inq'), inq'[q].frame.id = inq'[r].frame.id
       PROVE  q = r
  <2>1. \A t \in InUse(inq') : t # s => t \in U /\ inq'[t].frame = inq[t].frame
    BY <1>1, <1>2
  <2>2. \A t \in U : inq[t].frame.id # arrived + 1
    BY <1>1, <1>3
  <2> QED
    BY <1>1, <1>3, <1>13, <2>1, <2>2
<1>14. reader.pc \in {"adjust", "free"} => inq'[reader.cand].frame \in Retrieved
  BY <1>1, <1>3, <1>5
<1> QED
  BY <1>2, <1>7, <1>10, <1>11, <1>12, <1>13, <1>14 DEF Accounted

LEMMA StoreStamps ==
    ASSUME SizeAssumption, FInv, NEW kind \in FrameKinds, RxComplete(kind), SlotFound(inq) # 0
    PROVE  Stamps'
<1> DEFINE f == [id |-> arrived + 1, kind |-> kind]
           s == SlotFound(inq)
           U == InUse(inq)
           keep == Dispatched(f) = "until_del"
<1>1. /\ f.id = arrived + 1 /\ arrived \in Nat /\ s \in Slots
      /\ s \in U => U = Slots
      /\ InUse(inq') = IF keep THEN U \union {s} ELSE U \ {s}
      /\ inq'[s].frame = f
      /\ inq'[s].stamp = IF s \in U THEN SizeQ ELSE Cardinality(U) + 1
      /\ \A r \in Slots \ {s} :
           /\ inq'[r].frame = inq[r].frame
           /\ inq'[r].stamp = IF s \in U /\ r \in U /\ inq[r].stamp > inq[s].stamp
                              THEN inq[r].stamp - 1 ELSE inq[r].stamp
  <2> HIDE DEF f, s
  <2> QED
    BY StoreLeaves DEF f, s
<1>2. /\ reader' = reader /\ U \subseteq Slots
      /\ disturbed' = (disturbed \/ reader.pc \in {"adjust", "free"})
  BY DEF RxComplete, InUse
<1>3. Cardinality(U) \in Nat /\ SizeQ \in Nat /\ SizeQ >= 1 /\ Cardinality(Slots) = SizeQ
      /\ IsFiniteSet(U)
  BY <1>2, SlotsFinite, FS_Interval DEF SizeAssumption, Slots
<1>4. \A r \in U : inq[r].stamp \in Nat /\ inq[r].stamp >= 1
  BY DEF FInv, Types, Stamps, Queues, SlotSet, InUse, SizeAssumption
<1>5. \A r \in U : inq[r].frame.id \in 1..arrived
  BY DEF FInv, Accounted
<1> HIDE DEF f, s, keep, U
<1>6. \A r \in InUse(inq') : inq'[r].stamp >= 1
  <2>1. \A r \in InUse(inq') : r = s \/ (r \in U /\ r \in Slots \ {s})
    BY <1>1, <1>2
  <2> QED
    BY <1>1, <1>3, <1>4, <2>1
<1>7. reader.pc = "adjust" => reader.stamp >= 1 /\ disturbed'
  BY <1>2 DEF FInv, Stamps
<1>8. ASSUME ~disturbed'
      PROVE  /\ \A r \in InUse(inq') : inq'[r].stamp <= Cardinality(InUse(inq'))
             /\ \A q, r \in InUse(inq') :
                    inq'[q].stamp < inq'[r].stamp <=> inq'[q].frame.id < inq'[r].frame.id
  <2>1. Counted = U /\ ~disturbed
    BY <1>2, <1>8 DEF Counted, U
  <2>2. InOrderOfAge(U) /\ \A r \in U : inq[r].stamp <= Cardinality(U)
    BY <2>1 DEF FInv, Stamps
  <2>3. CASE s \notin U
    <3>1. \A r \in U : inq'[r].stamp = inq[r].stamp /\ inq'[r].frame = inq[r].frame
      BY <1>1, <1>2, <2>3
    <3>2. CASE keep
      <4>1. Cardinality(InUse(inq')) = Cardinality(U) + 1
        BY <1>1, <1>3, <2>3, <3>2, FS_AddElement
      <4>2. /\ \A r \in U : inq'[r].stamp < inq'[s].stamp /\ inq'[r].frame.id < inq'[s].frame.id
            /\ \A r \in U : inq'[r].stamp \in Nat /\ inq'[r].frame.id \in Nat
            /\ inq'[s].stamp = Cardinality(U) + 1 /\ inq'[s].frame.id = arrived + 1
        BY <1>1, <1>3, <1>4, <1>5, <2>2, <2>3, <3>1
      <4>3. \A r \in InUse(inq') : r = s \/ r \in U
        BY <1>1
      <4>4. \A q, r \in U : inq'[q].stamp < inq'[r].stamp <=> inq'[q].frame.id < inq'[r].frame.id
        BY <2>2, <3>1 DEF InOrderOfAge
      <4>5. \A r \in InUse(inq') : inq'[r].stamp <= Cardinality(U) + 1
        BY <1>3, <4>2, <4>3
      <4>6. ASSUME NEW q \in InUse(inq'), NEW r \in InUse(inq')
            PROVE  inq'[q].stamp < inq'[r].stamp <=> inq'[q].frame.id < inq'[r].frame.id
        BY <1>1, <1>3, <4>2, <4>3, <4>4
      <4> QED
        BY <4>1, <4>5, <4>6
    <3>3. CASE ~keep
      <4>1. InUse(inq') = U
        BY <1>1, <2>3, <3>3
      <4> QED
        BY <2>2, <3>1, <4>1 DEF InOrderOfAge
    <3> QED
      BY <3>2, <3>3
  <2>4. CASE s \in U
    <3>1. /\ Cardinality(U \ {s}) = Cardinality(U) - 1
          /\ \A r \in U \ {s} : inq'[r].stamp <= Cardinality(U) - 1
          /\ \A q, r \in U \ {s} : inq'[q].stamp < inq'[r].stamp
                                   <=> inq'[q].frame.id < inq'[r].frame.id
      <4>1. \A q, r \in U : inq[q].frame.id = inq[r].frame.id => q = r
        BY DEF FInv, Accounted, U
      <4>2. \A r \in U \ {s} :
              /\ inq'[r].frame = inq[r].frame
              /\ inq'[r].stamp = IF inq[r].stamp > inq[s].stamp THEN inq[r].stamp - 1
                                 ELSE inq[r].stamp
        BY <1>1, <1>2, <2>4
      <4>3. \A r \in U : /\ inq[r].stamp \in Nat /\ inq[r].stamp >= 1
                         /\ inq[r].stamp <= Cardinality(U) /\ inq[r].frame.id \in Nat
        BY <1>4, <1>5, <2>2
      <4> QED
        BY <1>2, <2>2, <2>4, <4>1, <4>2, <4>3, GapCloses
    <3>2. Cardinality(U) = SizeQ
      BY <1>1, <1>3, <2>4
    <3>3. CASE keep
      <4>1. InUse(inq') = U /\ inq'[s].stamp = SizeQ /\ inq'[s].frame.id = arrived + 1
        BY <1>1, <2>4, <3>3
      <4>2. \A r \in U \ {s} : inq'[r].frame.id \in 1..arrived /\ inq'[r].stamp \in Nat
        BY <1>1, <1>2, <1>4, <1>5
      <4>3. \A r \in U \ {s} : inq'[r].stamp < inq'[s].stamp /\ inq'[r].frame.id < inq'[s].frame.id
        BY <1>1, <1>3, <3>1, <3>2, <4>1, <4>2
      <4>4. ASSUME NEW q \in U, NEW r \in U
            PROVE  inq'[q].stamp < inq'[r].stamp <=> inq'[q].frame.id < inq'[r].frame.id
        BY <1>1, <1>3, <3>1, <4>1, <4>2, <4>3
      <4>5. \A r \in U \ {s} : inq'[r].stamp <= SizeQ
        BY <1>3, <3>1, <3>2, <4>2
      <4>6. \A r \in U : inq'[r].stamp <= SizeQ
        BY <1>3, <4>1, <4>5
      <4> QED
        BY <3>2, <4>1, <4>4, <4>6
    <3>4. CASE ~keep
      <4>1. InUse(inq') = U \ {s}
        BY <1>1, <3>4
      <4> QED
        BY <3>1, <4>1
    <3> QED
      BY <3>3, <3>4
  <2> QED
    BY <2>3, <2>4
<1>9. ~disturbed' => Counted' = InUse(inq')
  BY <1>2 DEF Counted
<1> QED
  BY <1>2, <1>6, <1>7, <1>8, <1>9 DEF Stamps, InOrderOfAge

LEMMA RxCompleteKeepsFInv ==
    ASSUME SizeAssumption, FInv, NEW kind \in FrameKinds, RxComplete(kind)
    PROVE  FInv'
<1> DEFINE f == [id |-> arrived + 1, kind |-> kind]
           s == SlotFound(inq)
<1>1. /\ arrived' = arrived + 1 /\ scanQuiet' = FALSE /\ reader' = reader /\ got' = got
      /\ disturbed' = (disturbed \/ reader.pc \in {"adjust", "free"})
  BY DEF RxComplete
<1>2. arrived \in Nat /\ inq \in Queues
  BY DEF FInv, Types
<1>3. Scan' /\ scanQuiet' \in BOOLEAN /\ disturbed' \in BOOLEAN
  BY <1>1, Zenon DEF Scan
<1>4. CASE s = 0
  <2>1. UNCHANGED <<inq, kept, castOut>>
    BY <1>4 DEF RxComplete
  <2>2. Types'
    BY <1>1, <1>2, <1>3, <2>1 DEF FInv, Types
  <2>3. Reading' /\ MarkedIffHeld'
    BY <1>1, <2>1 DEF FInv, Reading, MarkedIffHeld, Held
  <2>4. Accounted'
    <3>1. NoneVanishes' /\ Retrieved' = Retrieved
      BY <1>1, <2>1 DEF FInv, Accounted, NoneVanishes, Queued, Retrieved
    <3>2. \A n \in 1..arrived : n \in 1..arrived'
      BY <1>1, <1>2
    <3> QED
      BY <1>1, <2>1, <3>1, <3>2 DEF FInv, Accounted
  <2>5. Stamps'
    <3>1. Counted' = Counted
      BY <1>1, <2>1 DEF Counted
    <3> QED
      BY <1>1, <2>1, <3>1 DEF FInv, Stamps, InOrderOfAge
  <2> QED
    BY <1>3, <2>2, <2>3, <2>4, <2>5 DEF FInv
<1>5. CASE s # 0
  <2>1. /\ f \in FrameSet /\ s \in Slots /\ s \notin Held
        /\ kept' = IF Dispatched(f) = "until_del" THEN kept \union {f} ELSE kept
        /\ inq' \in Queues /\ inq'[s].usage # "transition"
        /\ \A r \in Slots \ {s} : inq'[r].frame = inq[r].frame /\ inq'[r].usage = inq[r].usage
    <3> HIDE DEF f, s
    <3> QED
      BY <1>5, StoreLeaves DEF f, s
  <2>2. {t \in Slots : inq[t].usage = "transition"} = Held
    BY DEF FInv, MarkedIffHeld
  <2> HIDE DEF f, s
  <2>3. Types'
    BY <1>1, <1>2, <1>3, <2>1 DEF FInv, Types
  <2>4. Reading'
    <3>1. \A r \in Held : inq'[r].frame = inq[r].frame
      BY <2>1, <2>2
    <3>2. /\ reader # Idle /\ reader.pc \in {"restore", "take"} => reader.i \in Held
          /\ reader # Idle /\ reader.cand # 0 /\ reader.pc # "take" => reader.cand \in Held
      <4>1. reader # Idle => reader.pc # "idle"
        BY DEF FInv, Types, ReaderSet, Labels, Scanning
      <4> QED
        BY <4>1 DEF Held
    <3> QED
      BY <1>1, <3>1, <3>2 DEF FInv, Reading
  <2>5. MarkedIffHeld'
    <3>1. Held' = Held
      BY <1>1 DEF Held
    <3>2. \A t \in Slots : inq'[t].usage = "transition" <=> inq[t].usage = "transition"
      BY <2>1, <2>2
    <3> QED
      BY <2>2, <3>1, <3>2 DEF MarkedIffHeld
  <2>6. Accounted' /\ Stamps'
    BY <1>5, StoreAccounted, StoreStamps DEF s
  <2> QED
    BY <1>3, <2>3, <2>4, <2>5, <2>6 DEF FInv
<1> QED
  BY <1>4, <1>5

(***************************************************************************)
(* The theorems.                                                           *)
(***************************************************************************)

LEMMA InitFInv ==
    ASSUME SizeAssumption, Init
    PROVE  FInv
<1>1. InUse(inq) = {} /\ reader = Idle /\ reader.pc = "idle"
  BY DEF Init, QInit, Slot, InUse, Idle
<1>2. Types
  <2>1. inq \in Queues
    BY DEF Init, QInit, Slot, Queues, SlotSet, SizeAssumption
  <2>2. got \in Seq([rcv : Contexts, frame : FrameSet])
    BY EmptySeq DEF Init
  <2> QED
    BY <1>1, <2>1, <2>2 DEF Init, Types
<1>3. Reading /\ Scan
  BY <1>1 DEF Reading, Scan, Scanning
<1>4. MarkedIffHeld
  BY <1>1 DEF MarkedIffHeld, Held, InUse
<1>5. Accounted
  <2>1. got = <<>> /\ kept = {} /\ castOut = {} /\ Queued = {} /\ Retrieved = {} /\ DOMAIN got = {}
    BY <1>1 DEF Init, Queued, Retrieved
  <2> QED
    BY <1>1, <2>1 DEF Accounted, NoneVanishes
<1>6. Stamps
  BY <1>1 DEF Stamps, Counted, InOrderOfAge
<1> QED
  BY <1>2, <1>3, <1>4, <1>5, <1>6 DEF FInv

LEMMA NextFInv ==
    ASSUME SizeAssumption, FInv, [Next]_vars
    PROVE  FInv'
<1>1. CASE \E kind \in FrameKinds : RxComplete(kind)
  BY <1>1, RxCompleteKeepsFInv
<1>2. CASE \E rcv \in Contexts : Retrieve(rcv)
  BY <1>2, RetrieveKeepsFInv
<1>3. CASE Mark
  BY <1>3, MarkKeepsFInv
<1>4. CASE Compare
  BY <1>4, CompareKeepsFInv
<1>5. CASE Restore
  BY <1>5, RestoreKeepsFInv
<1>6. CASE Take
  BY <1>6, TakeKeepsFInv
<1>7. CASE Copy
  BY <1>7, CopyKeepsFInv
<1>8. CASE Adjust
  BY <1>8, AdjustKeepsFInv
<1>9. CASE Free
  BY <1>9, FreeKeepsFInv
<1>10. CASE UNCHANGED vars
  <2>1. UNCHANGED <<inq, reader, arrived, kept, castOut, got, scanQuiet, disturbed>>
    BY <1>10 DEF vars
  <2>2. Types' /\ Reading' /\ MarkedIffHeld'
    BY <2>1 DEF FInv, Types, Reading, MarkedIffHeld, Held
  <2>3. Accounted'
    BY <2>1 DEF FInv, Accounted, NoneVanishes, Queued, Retrieved
  <2>4. Stamps' /\ Scan'
    BY <2>1 DEF FInv, Stamps, Counted, InOrderOfAge, Scan, Seen
  <2> QED
    BY <2>2, <2>3, <2>4 DEF FInv
<1> QED
  BY <1>1, <1>2, <1>3, <1>4, <1>5, <1>6, <1>7, <1>8, <1>9, <1>10 DEF Next

LEMMA SpecFInv ==
    ASSUME SizeAssumption
    PROVE  Spec => []FInv
<1>1. Init => FInv
  BY InitFInv
<1>2. FInv /\ [Next]_vars => FInv'
  BY NextFInv
<1> QED
  BY <1>1, <1>2, PTL DEF Spec

\* Between any steps of nwk_QfindOldest and nwk_retrieveFrame, exactly the slots
\* that the reader works on are in transition.
THEOREM ExactlyHeldMarked ==
    ASSUME SizeAssumption
    PROVE  Spec => []MarkedIffHeld
<1>1. FInv => MarkedIffHeld
  BY DEF FInv
<1> QED
  BY <1>1, SpecFInv, PTL

\* Of the frames that dispatchFrame kept, none vanishes and none is retrieved
\* twice or by a context it was not for.
THEOREM FramesAccounted ==
    ASSUME SizeAssumption
    PROVE  Spec => []NoneVanishes
<1>1. FInv => NoneVanishes
  BY DEF FInv, Accounted
<1> QED
  BY <1>1, SpecFInv, PTL

\* The order stamps that nwk_QfindSlot gives and nwk_QadjustOrder closes up order
\* the frames by age, unless the interrupt came between the latter and the release.
THEOREM StampsAreAges ==
    ASSUME SizeAssumption
    PROVE  Spec => []StampsTellAge
<1>1. FInv => StampsTellAge
  BY DEF FInv, Stamps, Counted, InOrderOfAge, StampsTellAge
<1> QED
  BY <1>1, SpecFInv, PTL

LEMMA StepHolds ==
    ASSUME SizeAssumption, FInv, Next
    PROVE  HeldStay
<1>1. inq \in Queues /\ Held \subseteq Slots
  BY DEF FInv, Types, MarkedIffHeld
<1>2. ASSUME NEW kind \in FrameKinds, RxComplete(kind)
      PROVE  HeldStay
  <2> DEFINE f == [id |-> arrived + 1, kind |-> kind]
             s == SlotFound(inq)
  <2>1. CASE s = 0
    BY <1>2, <2>1 DEF RxComplete, HeldStay
  <2>2. CASE s # 0
    <3> HIDE DEF f, s
    <3>1. s \notin Held /\ \A r \in Slots \ {s} : inq'[r].frame = inq[r].frame
      BY <1>2, <2>2, StoreLeaves DEF f, s
    <3> QED
      BY <1>1, <3>1 DEF HeldStay
  <2> QED
    BY <2>1, <2>2
<1>3. CASE (\E rcv \in Contexts : Retrieve(rcv)) \/ Take \/ Copy
  BY <1>3 DEF Retrieve, Take, Copy, HeldStay
<1>4. ASSUME NEW s, NEW u, inq' = [inq EXCEPT ![s].usage = u]
      PROVE  HeldStay
  <2>1. \A r \in Slots : inq'[r].frame = inq[r].frame
    BY <1>1, <1>4 DEF Queues, SlotSet
  <2> QED
    BY <1>1, <2>1 DEF HeldStay
<1>5. inq' = inq => HeldStay
  BY DEF HeldStay
<1>6. CASE Mark \/ Compare \/ Restore \/ Free
  BY <1>4, <1>5, <1>6 DEF Mark, Compare, Restore, Free
<1>7. CASE Adjust
  <2>1. inq' = AdjustOrder(inq, reader.stamp)
    BY <1>7 DEF Adjust
  <2>2. \A r \in Slots : inq'[r].frame = inq[r].frame
    BY <1>1, <2>1 DEF AdjustOrder, Queues, SlotSet
  <2> QED
    BY <1>1, <2>2 DEF HeldStay
<1> QED
  BY <1>2, <1>3, <1>6, <1>7 DEF Next

\* The interrupt never changes a frame while it is compared or copied, however
\* full the queue.
THEOREM HeldFramesSafe ==
    ASSUME SizeAssumption
    PROVE  Spec => HeldFrameStays
<1>1. FInv /\ [Next]_vars => [HeldStay]_vars
  BY StepHolds
<1> QED
  BY <1>1, SpecFInv, PTL DEF Spec, HeldFrameStays

LEMMA StepTakesOldest ==
    ASSUME SizeAssumption, FInv, Next
    PROVE  OldestIfQuiet
<1>1. CASE Copy
  <2> SUFFICES ASSUME scanQuiet, ~disturbed, NEW s \in InUse(inq),
                      Wanted(reader.rcv, inq[s].frame)
               PROVE  inq[reader.cand].frame.id <= inq[s].frame.id
    BY DEF OldestIfQuiet, TakesOldest
  <2> DEFINE c == reader.cand
  <2>1. reader.pc = "copy"
    BY <1>1 DEF Copy
  <2>2. /\ c \in InUse(inq)
        /\ \A r \in InUse(inq) : /\ r \in Slots /\ inq[r].frame.id \in Nat
                                 /\ inq[r].stamp \in Nat
    BY <2>1, Holder
  <2>3. inq[c].stamp <= inq[s].stamp
    BY <2>1, <2>2 DEF FInv, Scan, Seen
  <2>4. inq[s].stamp < inq[c].stamp <=> inq[s].frame.id < inq[c].frame.id
    BY <2>1, <2>2 DEF FInv, Stamps, Counted, InOrderOfAge
  <2> QED
    BY <2>2, <2>3, <2>4
<1>2. CASE ~Copy
  <2>1. got' = got
    BY <1>2 DEF Next, RxComplete, Retrieve, Mark, Compare, Restore, Take, Adjust, Free
  <2> QED
    BY <2>1 DEF OldestIfQuiet
<1> QED
  BY <1>1, <1>2

\* A retrieval that no interrupt disturbs gets the oldest frame it asks for.
THEOREM QuietTakesOldest ==
    ASSUME SizeAssumption
    PROVE  Spec => OldestFirst
<1>1. FInv /\ [Next]_vars => [OldestIfQuiet]_vars
  BY StepTakesOldest
<1> QED
  BY <1>1, SpecFInv, PTL DEF Spec, OldestFirst
=============================================================================
