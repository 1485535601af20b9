----------------------------- MODULE SecureLink -----------------------------
(***************************************************************************)
(* One direction of a link in the SMPL_SECURE build: messages are          *)
(* enciphered when they are sent and deciphered when the application       *)
(* retrieves them (nwk_retrieveFrame).  The air loses, reorders and        *)
(* repeats them, and a full input queue casts out the oldest.              *)
(***************************************************************************)
EXTENDS SecureCounter, Sequences

CONSTANTS
    SizeQ,          \* SIZE_INFRAME_Q
    FirstCounters,  \* random counters that a link starts with
    Blocks,         \* cipher blocks that a message may take
    MaxSends        \* bound on the messages

LinkAssumption ==
    /\ FirstCounters \subseteq Counters
    /\ Blocks \subseteq Nat \ {0} /\ MaxSends \in Nat

\* No counter comes within a window of one that was used before.
CountersLast == \A b \in Blocks : MaxSends * b <= CounterSize - HintSize

VARIABLES
    tx, rx,     \* connTxCTR of the sender, connRxCTR of the receiver
    air,
    inq,        \* the receiver's queue in the order of the stamps
    stuck,      \* slots left in transition by messages that did not open
    sent,       \* history: number of messages, and the blocks in them
    opened      \* history: the messages received, in order

vars == <<tx, rx, air, inq, stuck, sent, opened>>

Init ==
    /\ tx \in FirstCounters /\ rx = tx
    /\ air = {} /\ inq = <<>> /\ stuck = 0
    /\ sent = [n |-> 0, blocks |-> 0]
    /\ opened = <<>>

\* nwk_setSecureFrame.
Send(blocks) ==
    /\ sent.n < MaxSends
    /\ sent' = [n |-> sent.n + 1, blocks |-> sent.blocks + blocks]
    /\ air' = air \cup {[id |-> sent'.n, ctr |-> tx, blocks |-> blocks, before |-> sent.blocks]}
    /\ tx' = Advance(tx, blocks)
    /\ UNCHANGED <<rx, inq, stuck, opened>>

\* MRFI_RxCompleteISR: the message finds a slot, or the oldest that is not in
\* transition is cast out, or all are.
Receive(m) ==
    LET full == Len(inq) + stuck = SizeQ
    IN  /\ inq' = IF ~full THEN Append(inq, m)
                  ELSE IF inq # <<>> THEN Append(Tail(inq), m) ELSE inq
        /\ \E again \in BOOLEAN : air' = IF again THEN air ELSE air \ {m}
        /\ UNCHANGED <<tx, rx, stuck, sent, opened>>

Lose(m) ==
    /\ air' = air \ {m}
    /\ UNCHANGED <<tx, rx, inq, stuck, sent, opened>>

\* nwk_retrieveFrame takes the oldest message: it opens and moves the counter
\* on, or its slot stays in transition while the next is looked at.
\* Mutant: the counter moves on with any message.
RetrieveMoved ==
    LET m == Head(inq)
    IN  /\ inq # <<>>
        /\ inq' = Tail(inq)
        /\ rx' = IF Guess(rx, Hint(m.ctr)) = -1 THEN rx
                 ELSE Advance(Guess(rx, Hint(m.ctr)), m.blocks)
        /\ IF Opens(rx, m.ctr)
           THEN opened' = Append(opened, m) /\ UNCHANGED stuck
           ELSE stuck' = stuck + 1 /\ UNCHANGED opened
        /\ UNCHANGED <<tx, air, sent>>
Retrieve ==
    LET m == Head(inq)
    IN  /\ inq # <<>>
        /\ inq' = Tail(inq)
        /\ IF Opens(rx, m.ctr)
           THEN /\ rx' = Advance(m.ctr, m.blocks)
                /\ opened' = Append(opened, m)
                /\ UNCHANGED stuck
           ELSE /\ stuck' = stuck + 1
                /\ UNCHANGED <<rx, opened>>
        /\ UNCHANGED <<tx, air, sent>>

Next ==
    \/ \E blocks \in Blocks : Send(blocks)
    \/ \E m \in air : Receive(m) \/ Lose(m)
    \/ Retrieve

Spec == Init /\ [][Next]_vars

-----------------------------------------------------------------------------
InQueue == {inq[i] : i \in DOMAIN inq}

TypeOK ==
    /\ tx \in Counters /\ rx \in Counters
    /\ \A m \in air \cup InQueue :
        m.id \in 1..MaxSends /\ m.ctr \in Counters /\ m.blocks \in Blocks
    /\ Len(inq) + stuck <= SizeQ

\* Messages are received in the order in which they were sent, none twice,
\* however late and often they come.
OpenedInOrder ==
    \A i \in 1..Len(opened) - 1 : opened[i].id < opened[i + 1].id

\* Where the receiver stands, in blocks sent since the link was made.
Position ==
    IF opened = <<>> THEN 0
    ELSE opened[Len(opened)].before + opened[Len(opened)].blocks

\* A message opens if the receiver has missed no more blocks than the window
\* has, also when the byte of the hint or the whole counter has wrapped.
MissedOpens ==
    \A m \in air \cup InQueue :
        m.before \in Position..Position + CtrWindow => Opens(rx, m.ctr)

\* "being retrieved. do not delete in Rx ISR thread." (nwk_frame.h:113): when
\* nobody retrieves, no slot is in transition.
\* The code breaks it: README, section 5.
TransitionOnlyInRetrieve == stuck = 0
=============================================================================
