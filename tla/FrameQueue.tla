---------------------------- MODULE FrameQueue ----------------------------
(***************************************************************************)
(* The input queue of an end device.  The receive interrupt                *)
(* (MRFI_RxCompleteISR) stores and dispatches a frame in one step: it runs *)
(* with interrupts disabled.  A thread retrieves the oldest frame of a     *)
(* link or of a network port (nwk_QfindOldest, nwk_retrieveFrame); only a  *)
(* few of its steps are critical sections, and the interrupt may come      *)
(* between any two.  There is one reader: it holds the guard.              *)
(***************************************************************************)
EXTENDS FrameSlots, Sequences, SequencesExt

CONSTANTS
    FrameKinds,   \* the frames that may arrive: [src, encrypted, port, ok]
    Contexts,     \* what is retrieved: [type, port, peer], see Wanted
    NwkPorts,     \* ports of the network applications
    UserPorts,    \* ports of links
    Me,           \* this device's address
    MaxFrames     \* bound on the frames that arrive

VARIABLES
    inq,        \* sInFrameQ
    reader,     \* the thread in nwk_retrieveFrame
    arrived,    \* number of frames received
    kept,       \* those that dispatchFrame kept
    castOut,    \* those that were overwritten, or found no slot
    got,        \* what was retrieved, in order: [rcv, frame]
    scanQuiet,  \* no interrupt came since the retrieval began
    disturbed   \* an interrupt came between nwk_QadjustOrder's argument and the
                \* release of the slot, and the queue was never empty since

vars == <<inq, reader, arrived, kept, castOut, got, scanQuiet, disturbed>>

Idle == [pc |-> "idle"]

Init ==
    /\ inq = QInit
    /\ reader = Idle
    /\ arrived = 0
    /\ kept = {}
    /\ castOut = {}
    /\ got = <<>>
    /\ scanQuiet = TRUE
    /\ disturbed = FALSE

-----------------------------------------------------------------------------
\* The receive interrupt.

\* dispatchFrame of an end device: what becomes of the frame.  "ok" is the
\* verdict of the network application's handler (FHS_KEEP), or of
\* nwk_isConnectionValid and the callback for a link's port.
Dispatched(f) ==
    IF /\ f.kind.src # Me
       /\ ~f.kind.encrypted
       /\ f.kind.port \in NwkPorts \cup UserPorts
       /\ f.kind.ok
    THEN "until_del" ELSE "available"

Store(f, s) ==
    /\ inq' = [Stamped(inq, s) EXCEPT ![s].frame = f, ![s].usage = Dispatched(f)]
    /\ kept' = IF Dispatched(f) = "until_del" THEN kept \cup {f} ELSE kept
    /\ castOut' = IF s \in InUse(inq) THEN castOut \cup {inq[s].frame} ELSE castOut

\* MRFI_RxCompleteISR.
RxComplete(kind) ==
    LET f == [id |-> arrived + 1, kind |-> kind]
        s == SlotFound(inq)
    IN  /\ arrived < MaxFrames
        /\ arrived' = arrived + 1
        /\ IF s = 0 THEN UNCHANGED <<inq, kept, castOut>> ELSE Store(f, s)
        /\ scanQuiet' = FALSE
        /\ disturbed' = (disturbed \/ reader.pc \in {"adjust", "free"})
        /\ UNCHANGED <<reader, got>>

-----------------------------------------------------------------------------
\* The reader.

\* The frames that a receive context asks for.
Wanted(rcv, f) ==
    /\ f.kind.port = rcv.port
    /\ rcv.type = "link" => f.kind.src = rcv.peer

Retrieve(rcv) ==
    /\ reader = Idle
    /\ reader' = [pc |-> "mark", rcv |-> rcv, i |-> 1, cand |-> 0,
                  oldest |-> SizeQ + 1, stamp |-> 0]
    /\ scanQuiet' = TRUE
    /\ UNCHANGED <<inq, arrived, kept, castOut, got, disturbed>>

\* The loop's end: the next slot, or the candidate is copied, or there is none.
Advance(r, cand) ==
    IF r.i < SizeQ THEN [r EXCEPT !.pc = "mark", !.i = @ + 1, !.cand = cand]
    ELSE IF cand = 0 THEN Idle ELSE [r EXCEPT !.pc = "copy", !.cand = cand]

\* Critical section: a frame that may be asked for is protected.
Mark ==
    /\ reader.pc = "mark"
    /\ IF inq[reader.i].usage = "until_del"
       THEN /\ inq' = [inq EXCEPT ![reader.i].usage = "transition"]
            /\ reader' = [reader EXCEPT !.pc = "compare"]
       ELSE /\ reader' = Advance(reader, reader.cand)
            /\ UNCHANGED inq
    /\ UNCHANGED <<arrived, kept, castOut, got, scanQuiet, disturbed>>

\* The frame is not asked for, or an older one is: its usage is restored.
Compare ==
    LET slot == inq[reader.i]
        older == Wanted(reader.rcv, slot.frame) /\ slot.stamp < reader.oldest
    IN  /\ reader.pc = "compare"
        /\ inq' = IF older THEN inq
                  ELSE [inq EXCEPT ![reader.i].usage = "until_del"]
        /\ reader' = IF older THEN [reader EXCEPT !.pc = "restore"]
                     ELSE Advance(reader, reader.cand)
        /\ UNCHANGED <<arrived, kept, castOut, got, scanQuiet, disturbed>>

\* The previous candidate may be cast out again.
\* Mutant: it stays marked.
RestoreNothing ==
    /\ reader.pc = "restore"
    /\ reader' = [reader EXCEPT !.pc = "take"]
    /\ UNCHANGED <<inq, arrived, kept, castOut, got, scanQuiet, disturbed>>
Restore ==
    /\ reader.pc = "restore"
    /\ inq' = IF reader.cand = 0 THEN inq
              ELSE [inq EXCEPT ![reader.cand].usage = "until_del"]
    /\ reader' = [reader EXCEPT !.pc = "take"]
    /\ UNCHANGED <<arrived, kept, castOut, got, scanQuiet, disturbed>>

\* The stamp is read again.
Take ==
    /\ reader.pc = "take"
    /\ reader' = Advance([reader EXCEPT !.oldest = inq[reader.i].stamp], reader.i)
    /\ UNCHANGED <<inq, arrived, kept, castOut, got, scanQuiet, disturbed>>

\* nwk_retrieveFrame: payload and header go to the caller, and the stamp is
\* read as the argument of nwk_QadjustOrder.
Copy ==
    /\ reader.pc = "copy"
    /\ got' = Append(got, [rcv |-> reader.rcv, frame |-> inq[reader.cand].frame])
    /\ reader' = [reader EXCEPT !.pc = "adjust", !.stamp = inq[reader.cand].stamp]
    /\ UNCHANGED <<inq, arrived, kept, castOut, scanQuiet, disturbed>>

\* Critical section of nwk_QadjustOrder.
Adjust ==
    /\ reader.pc = "adjust"
    /\ inq' = AdjustOrder(inq, reader.stamp)
    /\ reader' = [reader EXCEPT !.pc = "free"]
    /\ UNCHANGED <<arrived, kept, castOut, got, scanQuiet, disturbed>>

Free ==
    /\ reader.pc = "free"
    /\ inq' = [inq EXCEPT ![reader.cand].usage = "available"]
    /\ disturbed' = (disturbed /\ InUse(inq) # {reader.cand})
    /\ reader' = Idle
    /\ UNCHANGED <<arrived, kept, castOut, got, scanQuiet>>

Next ==
    \/ \E kind \in FrameKinds : RxComplete(kind)
    \/ \E rcv \in Contexts : Retrieve(rcv)
    \/ Mark \/ Compare \/ Restore \/ Take
    \/ Copy \/ Adjust \/ Free

Spec == Init /\ [][Next]_vars

-----------------------------------------------------------------------------
Frames == [id : 1..MaxFrames, kind : FrameKinds]

TypeOK ==
    /\ inq \in [Slots -> [usage : Usages \ {"until_fwd"}, stamp : 0..SizeQ,
                          frame : Frames \cup {NoFrame}]]
    /\ reader = Idle \/
       /\ reader.pc \in {"mark", "compare", "restore", "take", "copy", "adjust", "free"}
       /\ reader.rcv \in Contexts
       /\ reader.i \in Slots
       /\ reader.cand \in 0..SizeQ
       /\ reader.oldest \in 1..SizeQ + 1
       /\ reader.pc \in {"copy", "adjust", "free"} => reader.cand # 0
    /\ arrived \in 0..MaxFrames
    /\ kept \subseteq Frames
    /\ castOut \subseteq kept

Queued == {inq[s].frame : s \in InUse(inq)}
Retrieved == {got[n].frame : n \in DOMAIN got}

\* The slots the reader has taken out of the interrupt's reach.
Held ==
    IF reader.pc = "idle" THEN {}
    ELSE (IF reader.cand = 0 \/ reader.pc = "take" THEN {} ELSE {reader.cand})
         \cup (IF reader.pc \in {"compare", "restore", "take"} THEN {reader.i} ELSE {})

\* Exactly the slots that the reader works on are marked: nothing stays in
\* transition, which would take a slot away from the queue for ever.
MarkedIffHeld == {s \in Slots : inq[s].usage = "transition"} = Held

\* The interrupt never changes a frame while it is compared or copied, however
\* full the queue.
HeldStay == \A s \in Held : inq'[s].frame = inq[s].frame
HeldFrameStays == [][HeldStay]_vars

\* A frame that was kept waits, or was retrieved, or was cast out by a later
\* one: none vanishes.  None is retrieved twice or by a context it was not for.
NoneVanishes ==
    /\ kept = Queued \cup Retrieved \cup castOut
    /\ \A n \in DOMAIN got : Wanted(got[n].rcv, got[n].frame)
    /\ \A m, n \in DOMAIN got : got[m].frame = got[n].frame => m = n
    /\ Retrieved \cap castOut = {}

\* The stamps order the frames by age, unless the interrupt came between
\* nwk_QadjustOrder and the release of the slot; an interrupt during the scan
\* does them no harm, and the damage is repaired when the queue runs empty.
StampsTellAge ==
    disturbed \/ reader.pc = "free" \/
    \A r, s \in InUse(inq) :
        inq[r].stamp < inq[s].stamp <=> inq[r].frame.id < inq[s].frame.id

\* A retrieval that no interrupt disturbs gets the oldest frame it asks for,
\* whatever has been retrieved and cast out before.
TakesOldest ==
    \A s \in InUse(inq) :
        Wanted(reader.rcv, inq[s].frame) => inq[reader.cand].frame.id <= inq[s].frame.id
OldestIfQuiet == got' # got /\ scanQuiet /\ ~disturbed => TakesOldest
OldestFirst == [][OldestIfQuiet]_vars

\* "Pointer to frame that is the oldsest on the requested port"
\* (nwk_QMgmt.c:265), for a retrieval that no interrupt disturbs.
\* The code breaks it: README, section 5.
OldestOnPort == [][got' # got /\ scanQuiet => TakesOldest]_vars
=============================================================================
