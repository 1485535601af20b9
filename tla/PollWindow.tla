----------------------------- MODULE PollWindow -----------------------------
(***************************************************************************)
(* nwk_checkAppMsgTID: is a message new, judged by its transaction id and  *)
(* that of the message before?  The id is a byte that wraps round.         *)
(***************************************************************************)
EXTENDS Integers

CONSTANTS
    MaxTid,    \* MAX_APT
    Window     \* TID_VALID_WINDOW

ASSUME WindowAssumption ==
    /\ MaxTid \in Nat /\ Window \in Nat
    /\ MaxTid >= 3 * Window + 2

Tids == 0..MaxTid

\* CHECK_TID_WRAP, DUP_TID_AFTER_WRAP.
CheckTidWrap(last, new) == last >= MaxTid - Window /\ new <= Window
DupTidAfterWrap(last, new) == new >= MaxTid - Window /\ last <= Window

CheckTid(last, new) ==
    \/ new > last /\ ~DupTidAfterWrap(last, new)
    \/ new < last /\ CheckTidWrap(last, new)

\* The id k messages after, or before, tid.
After(tid, k) == IF tid + k > MaxTid THEN tid + k - (MaxTid + 1) ELSE tid + k
Before(tid, k) == IF tid - k < 0 THEN tid - k + (MaxTid + 1) ELSE tid - k
=============================================================================
