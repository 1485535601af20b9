----------------------------- MODULE RadioDriver -----------------------------
(***************************************************************************)
(* The states of the radio: class Radio with its flags sleeping and        *)
(* rx_enabled (machine/radio.cc), the SimpliciTI calls it makes            *)
(* (nwk_ioctl.c, nwk_api.c, nwk_link.c, nwk_join.c) and the driver's       *)
(* mrfiRadioState, whose assertions stop the watch for good.  The guard    *)
(* keeps the calls apart; packets arrive at every step of one.             *)
(***************************************************************************)
EXTENDS Naturals, Sequences

CONSTANTS
    Careful,     \* callers switch reception off before sleep() and do not link asleep
    MaxPackets   \* bound on the packets not taken yet

PacketAssumption == MaxPackets \in Nat

VARIABLES
    chip,        \* mrfiRadioState
    sleeping, rxEnabled,
    op, todo,    \* the call and the driver calls it still has to make
    frames,      \* packets waiting in the input queue
    hung,        \* an assertion of the driver has failed
    before       \* history: chip when the call began

vars == <<chip, sleeping, rxEnabled, op, todo, frames, hung, before>>

\* Radio::plugin, after MRFI_Init: wake up, ask to join, listen for the reply, and sleep.
Init ==
    /\ chip = "off"
    /\ sleeping = FALSE /\ rxEnabled = FALSE
    /\ op = "plugin"
    /\ todo = <<"wakeup", "transmit", "rxon", "wait", "rxidle", "rxidle", "sleep">>
    /\ frames = 0
    /\ hung = FALSE
    /\ before = "off"

-----------------------------------------------------------------------------
\* NWK_CHECK_FOR_SETRX and NWK_CHECK_FOR_RESTORE_STATE around a wait for packets.
\* Mutant: the radio is left idle whatever it was.
ListeningIdles(s) == <<"wakeup", "rxon", "wait", "rxidle">>
Listening(s) ==
    CASE s = "rx"   -> <<"wait">>
      [] s = "idle" -> <<"rxon", "wait", "rxidle">>
      [] s = "off"  -> <<"wakeup", "rxon", "wait", "sleep">>

Call(name, steps) ==
    /\ todo = <<>>
    /\ ~hung
    /\ op' = name
    /\ todo' = steps
    /\ before' = chip
    /\ UNCHANGED <<chip, frames, hung>>

Awake == IF sleeping THEN <<"wakeup">> ELSE <<>>

EnableRx ==
    /\ Call("enable_rx", Append(Awake, "rxon"))
    /\ sleeping' = FALSE
    /\ rxEnabled' = TRUE

DisableRx ==
    /\ ~Careful \/ ~sleeping
    /\ rxEnabled
    /\ Call("disable_rx", <<"rxidle">>)
    /\ rxEnabled' = FALSE
    /\ UNCHANGED sleeping

\* SMPL_SendOpt may refuse the message before it reaches the driver.
Send ==
    \E sent \in {<<>>, <<"transmit">>} :
        /\ Call("send", Awake \o sent \o (IF sleeping THEN <<"rxidle", "sleep">> ELSE <<>>))
        /\ UNCHANGED <<sleeping, rxEnabled>>

\* SMPL_Link does not wake the radio before it sends; if the channel is busy it
\* does not listen either.
Link ==
    /\ ~Careful \/ ~sleeping
    /\ \E answer \in {<<>>, Listening(chip)} : Call("link", <<"transmit">> \o answer)
    /\ UNCHANGED <<sleeping, rxEnabled>>

LinkListen ==
    /\ Call("link_listen", Listening(chip))
    /\ UNCHANGED <<sleeping, rxEnabled>>

Sleep ==
    /\ ~sleeping
    /\ ~Careful \/ ~rxEnabled
    /\ Call("sleep", <<"rxidle", "sleep">>)
    /\ sleeping' = TRUE
    /\ UNCHANGED rxEnabled

WakeUp ==
    /\ Call("awake", <<"wakeup">>)
    /\ sleeping' = FALSE
    /\ UNCHANGED rxEnabled

\* SMPL_Receive does not touch the radio (no RX_POLLS).
\* Mutant: an empty queue is not noticed.
ReceiveNone ==
    /\ todo = <<>> /\ ~hung
    /\ frames' = frames - 1
    /\ UNCHANGED <<chip, sleeping, rxEnabled, op, todo, hung, before>>
Receive ==
    /\ todo = <<>> /\ ~hung
    /\ frames > 0
    /\ frames' = frames - 1
    /\ UNCHANGED <<chip, sleeping, rxEnabled, op, todo, hung, before>>

-----------------------------------------------------------------------------
\* One call of the driver.  WakeUp and Sleep do nothing if there is nothing to
\* do; the others assert that the radio is not off.
Chip(step) ==
    CASE step = "wakeup" -> IF chip = "off" THEN "idle" ELSE chip
      [] step = "rxon"   -> "rx"
      [] step = "rxidle" -> "idle"
      [] step = "sleep"  -> "off"
      [] OTHER           -> chip

Asserted(step) == step \in {"rxon", "rxidle", "transmit"}

Step ==
    /\ todo # <<>>
    /\ ~hung
    /\ IF Asserted(Head(todo)) /\ chip = "off"
       THEN hung' = TRUE /\ UNCHANGED <<chip, todo>>
       ELSE chip' = Chip(Head(todo)) /\ todo' = Tail(todo) /\ UNCHANGED hung
    /\ sleeping' = IF op = "plugin" /\ Tail(todo) = <<>> THEN TRUE ELSE sleeping
    /\ UNCHANGED <<rxEnabled, op, frames, before>>

\* Radio::prologue, while the driver receives and its interrupt is on.
Packet ==
    /\ chip = "rx"
    /\ ~hung
    /\ frames < MaxPackets
    /\ frames' = frames + 1
    /\ UNCHANGED <<chip, sleeping, rxEnabled, op, todo, hung, before>>

Next ==
    \/ EnableRx \/ DisableRx \/ Send \/ Link \/ LinkListen \/ Sleep \/ WakeUp
    \/ Receive \/ Step \/ Packet

Spec == Init /\ [][Next]_vars

-----------------------------------------------------------------------------
TypeOK ==
    /\ chip \in {"off", "idle", "rx"}
    /\ sleeping \in BOOLEAN /\ rxEnabled \in BOOLEAN /\ hung \in BOOLEAN
    /\ frames \in 0 .. MaxPackets

Between == todo = <<>> /\ ~hung

\* No call runs into an assertion of the driver (mrfi_radio.ci: the radio must
\* be awake to transmit, to receive and to idle).
NeverHangs == ~hung

\* Between calls the radio is off exactly when the flag says so.
FlagTellsSleep == Between => (sleeping <=> chip = "off")

\* Between calls, unless asleep, it receives exactly when reception is enabled.
ReceivesIffEnabled == (Between /\ ~sleeping) => (rxEnabled <=> chip = "rx")

\* Calls that send or listen leave the radio as they found it.
ModeRestored == (Between /\ op \in {"send", "link", "link_listen"}) => chip = before

\* disable_rx() never idles a radio that does not receive (radio.cc: done more
\* than once, the hardware freezes).
IdlesReceiving == todo = <<>> /\ op' = "disable_rx" /\ todo' # <<>> => chip = "rx"
IdlesOnlyReception == [][IdlesReceiving]_vars
=============================================================================
