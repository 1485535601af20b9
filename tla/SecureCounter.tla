--------------------------- MODULE SecureCounter ---------------------------
(***************************************************************************)
(* The counter of encrypted messages (nwk_security.c).  Each message       *)
(* carries the last byte of its sender's counter; the receiver completes   *)
(* it from its own counter, and a wrong guess garbles the message, which   *)
(* its authentication code then tells.                                     *)
(***************************************************************************)
EXTENDS Integers

CONSTANTS
    HintSize,     \* 256
    CounterSize   \* 2^32

ASSUME CounterAssumption ==
    /\ HintSize \in Nat \ {0}
    /\ CounterSize \in Nat /\ CounterSize > HintSize /\ CounterSize % HintSize = 0

CtrWindow == HintSize - 1
Counters == 0..CounterSize - 1

\* The counter is one word and wraps.
Advance(ctr, n) == (ctr + n) % CounterSize
Hint(ctr) == ctr % HintSize

\* The counter that nwk_getSecureFrame deciphers with; it gives up, -1, when
\* that is too far ahead.  The arithmetic is unsigned.
WithinWindow(frameCnt, locCnt) == (frameCnt - CtrWindow) % CounterSize <= locCnt

Guess(locCnt, hint) ==
    LET frameCnt == (locCnt - (locCnt % HintSize)) + hint
        next == Advance(frameCnt, HintSize)
    IN  IF frameCnt = locCnt THEN locCnt
        ELSE IF frameCnt > locCnt
             THEN IF WithinWindow(frameCnt, locCnt) \/ frameCnt < CtrWindow THEN frameCnt ELSE -1
             ELSE IF WithinWindow(next, locCnt) THEN next ELSE -1

Opens(locCnt, ctr) == Guess(locCnt, Hint(ctr)) = ctr
=============================================================================
