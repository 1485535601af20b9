----------------------------- MODULE RingBuffer -----------------------------
(***************************************************************************)
(* The transmit buffer of the UART (machine/uart.cc, with                  *)
(* CONFIG_UART_CAN_DEADLOCK as in uart.h): putc() of a thread fills it, the *)
(* prologue of the transmit interrupt drains it, the interrupt itself is   *)
(* switched by both.  A step is one access to what they share.             *)
(***************************************************************************)
EXTENDS Naturals, Sequences, FiniteSets

CONSTANTS
    Writers,    \* the threads that print; the class has no lock of its own
    Size,       \* sizeof(txbuf), a power of two
    Newline, Return, Letter,   \* '\n', '\r', any other character
    MaxBytes    \* bound on the characters printed

RingAssumption ==
    /\ Size \in Nat \ {0} /\ MaxBytes \in Nat
    /\ "none" \notin {Newline, Return, Letter}

None == "none"
Bytes == {Newline, Return, Letter}
Indices == 0..(Size - 1)

VARIABLES
    txbuf, readIdx, writeIdx,
    txie,       \* UCTXIE
    txreg,      \* the transmit register: None while UCTXIFG is set
    pc, t, c,   \* of each writer: where it is in putc() or flush(), its t and c
    put, sent   \* history: what was printed, what left through the wire

ring == <<txbuf, readIdx, writeIdx>>
vars == <<ring, txie, txreg, pc, t, c, put, sent>>

Init ==
    /\ txbuf = [i \in Indices |-> None]
    /\ readIdx = 0 /\ writeIdx = 0
    /\ txie = FALSE
    /\ txreg = None
    /\ pc = [p \in Writers |-> "idle"]
    /\ t = [p \in Writers |-> 0]
    /\ c = [p \in Writers |-> None]
    /\ put = <<>> /\ sent = <<>>

After(i) == (i + 1) % Size

\* What is in the buffer, oldest first.
Buffered ==
    [k \in 1..((writeIdx + Size - readIdx) % Size) |-> txbuf[(readIdx + k - 1) % Size]]

Goto(p, l) == pc' = [pc EXCEPT ![p] = l]

-----------------------------------------------------------------------------
\* putc(ch) begins.
Putc(p, ch) ==
    /\ pc[p] = "idle"
    /\ Len(put) < MaxBytes
    /\ t' = [t EXCEPT ![p] = After(writeIdx)]
    /\ c' = [c EXCEPT ![p] = ch]
    /\ put' = Append(put, ch)
    /\ Goto(p, "wait")
    /\ UNCHANGED <<ring, txie, txreg, sent>>

HasRoom(p) == t[p] # readIdx

Wait(p) ==
    /\ pc[p] = "wait"
    /\ HasRoom(p)
    /\ Goto(p, "off")
    /\ UNCHANGED <<ring, txie, txreg, t, c, put, sent>>

SwitchOff(p) ==
    /\ pc[p] = "off"
    /\ txie' = FALSE
    /\ Goto(p, "test")
    /\ UNCHANGED <<ring, txreg, t, c, put, sent>>

\* Mutant: only the register is looked at.
MaySendRegister == txreg = None
MaySend == readIdx = writeIdx /\ txreg = None

Test(p) ==
    /\ pc[p] = "test"
    /\ Goto(p, IF MaySend THEN "send" ELSE "store")
    /\ UNCHANGED <<ring, txie, txreg, t, c, put, sent>>

\* The end of putc(): a line feed is followed by a carriage return, which begins
\* as every putc() does.
Printed(p) ==
    IF c[p] = Newline
    THEN /\ t' = [t EXCEPT ![p] = After(writeIdx')]
         /\ c' = [c EXCEPT ![p] = Return]
         /\ put' = Append(put, Return)
         /\ Goto(p, "wait")
    ELSE /\ Goto(p, "idle")
         /\ UNCHANGED <<t, c, put>>

Send(p) ==
    /\ pc[p] = "send"
    /\ txreg' = c[p]
    /\ UNCHANGED <<ring, txie, sent>>
    /\ Printed(p)

Store(p) ==
    /\ pc[p] = "store"
    /\ txbuf' = [txbuf EXCEPT ![writeIdx] = c[p]]
    /\ Goto(p, "advance")
    /\ UNCHANGED <<readIdx, writeIdx, txie, txreg, t, c, put, sent>>

Advance(p) ==
    /\ pc[p] = "advance"
    /\ writeIdx' = t[p]
    /\ Goto(p, "on")
    /\ UNCHANGED <<txbuf, readIdx, txie, txreg, t, c, put, sent>>

SwitchOn(p) ==
    /\ pc[p] = "on"
    /\ txie' = TRUE
    /\ UNCHANGED <<ring, txreg, sent>>
    /\ Printed(p)

\* flush() waits until the buffer is empty.
Flush(p) ==
    /\ pc[p] = "idle"
    /\ Goto(p, "flush")
    /\ UNCHANGED <<ring, txie, txreg, t, c, put, sent>>

Flushed(p) ==
    /\ pc[p] = "flush"
    /\ readIdx = writeIdx
    /\ Goto(p, "idle")
    /\ UNCHANGED <<ring, txie, txreg, t, c, put, sent>>

-----------------------------------------------------------------------------
\* The interrupt: the next byte, or none; it switches itself off behind the last.
\* Mutant: it does so one byte too early.
LastByteEarly == After(After(readIdx)) = writeIdx \/ After(readIdx) = writeIdx
LastByte == After(readIdx) = writeIdx

Prologue ==
    /\ txie /\ txreg = None
    /\ IF readIdx = writeIdx
       THEN /\ txie' = FALSE
            /\ UNCHANGED <<ring, txreg>>
       ELSE /\ txreg' = txbuf[readIdx]
            /\ readIdx' = After(readIdx)
            /\ txie' = ~LastByte
            /\ UNCHANGED <<txbuf, writeIdx>>
    /\ UNCHANGED <<pc, t, c, put, sent>>

\* The hardware takes the byte out of the register.
Shift ==
    /\ txreg # None
    /\ sent' = Append(sent, txreg)
    /\ txreg' = None
    /\ UNCHANGED <<ring, txie, pc, t, c, put>>

InPutc(p) ==
    Wait(p) \/ SwitchOff(p) \/ Test(p) \/ Send(p) \/ Store(p) \/ Advance(p) \/ SwitchOn(p)

Next ==
    \/ \E p \in Writers :
          \/ \E ch \in {Letter, Newline} : Putc(p, ch)
          \/ InPutc(p) \/ Flush(p) \/ Flushed(p)
    \/ Prologue \/ Shift

\* The interrupt is served and the wire sends; a thread inside a call goes on.
Spec ==
    /\ Init /\ [][Next]_vars
    /\ WF_vars(Prologue) /\ WF_vars(Shift)
    /\ \A p \in Writers : WF_vars(InPutc(p)) /\ WF_vars(Flushed(p))

-----------------------------------------------------------------------------
TypeOK ==
    /\ txbuf \in [Indices -> Bytes \cup {None}]
    /\ readIdx \in Indices /\ writeIdx \in Indices
    /\ txie \in BOOLEAN /\ txreg \in Bytes \cup {None}
    /\ t \in [Writers -> Indices] /\ c \in [Writers -> Bytes \cup {None}]

InHand(p) ==
    IF pc[p] \in {"wait", "off", "test", "send", "store", "advance"} THEN <<c[p]>> ELSE <<>>
InRegister == IF txreg = None THEN <<>> ELSE <<txreg>>

\* With one writer: what was sent, what waits in the register and in the buffer
\* and what putc() holds is what was printed, in its order: the direct way does
\* not overtake the buffer and a full buffer is not written over.
InOrder ==
    \A p \in Writers : sent \o InRegister \o Buffered \o InHand(p) = put

\* However many write: every character is in one of these places.
\* The code breaks it: README, section 5.
NoneLost ==
    Len(put) = Len(sent) + Len(InRegister) + Len(Buffered)
               + Cardinality({p \in Writers : InHand(p) # <<>>})

\* What is printed leaves: the interrupt is never left off with bytes in the
\* buffer.  As the printing is bounded, all of it leaves in the end.
AllSent == []<>(Len(sent) = Len(put))

\* flush() returns, though the buffer may be filled up to its last place.
FlushReturns == \A p \in Writers : (pc[p] = "flush") ~> (pc[p] = "idle")
=============================================================================
