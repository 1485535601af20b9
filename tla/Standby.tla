------------------------------ MODULE Standby ------------------------------
(***************************************************************************)
(* The light button and the life of the watch: it sleeps in LPM4 after a   *)
(* reset (StandbyMode::activate), a press starts the application, the next *)
(* press, or the watchdog, leads through a reset into the boot loader.     *)
(* The button's interrupt is the falling edge, its handler the prologue;   *)
(* the panic loop calls the prologue by itself.                            *)
(***************************************************************************)
EXTENDS Naturals

CONSTANTS
    EarlyPress,   \* the button may be used, or held, before the watch sleeps
    LateBounce,   \* the contact may bounce after it was released
    MaxPresses,   \* bound on the presses between two resets
    MaxResets     \* bound on the resets

StandbyAssumption == MaxPresses \in Nat /\ MaxResets \in Nat

VARIABLES
    pc,        \* of the main program, see Labels
    handler,   \* of the prologue: "none", "wait" for the release, "act"
    gie,       \* interrupts enabled
    lpm,       \* LPM4: the CPU is off until the next interrupt
    ie, ifg,   \* the bits LIGHT of P2IE and P2IFG
    running,   \* StandbyMode::running
    watchdog,  \* it will reset the watch
    byWatchdog,\* SYSRSTIV
    pressed, bounces,   \* the button
    presses, resets,    \* history: since the last reset; in all
    hung       \* history: the application hung

cpu == <<pc, handler, gie, lpm>>
button == <<pressed, bounces>>
vars == <<cpu, ie, ifg, running, watchdog, byWatchdog, button, presses, resets, hung>>

\* reset: the start-up code; pins .. asleep and clear, enable: activate();
\* main: system_init(), guard, timer; bsl: in the ROM's boot loader.
Labels == {"reset", "pins", "display", "loop", "halt", "asleep", "clear", "enable",
           "main", "app", "panic", "hung", "bslcall", "bsl"}

Init ==
    /\ pc = "reset"
    /\ handler = "none"
    /\ gie = FALSE /\ lpm = FALSE
    /\ ie = FALSE /\ ifg = FALSE
    /\ running = FALSE
    /\ watchdog = FALSE /\ byWatchdog = FALSE
    /\ pressed = FALSE /\ bounces = FALSE
    /\ presses = 0 /\ resets = 0
    /\ hung = FALSE

\* A step of the main program, when no handler has the CPU.
Main(from, to) ==
    /\ pc = from
    /\ handler = "none"
    /\ pc' = to
    /\ UNCHANGED <<button, presses, resets>>

-----------------------------------------------------------------------------
\* The start-up code: a reset by the watchdog goes on in the boot loader.
CheckWdtReset ==
    /\ Main("reset", IF byWatchdog THEN "bsl" ELSE "pins")
    /\ byWatchdog' = FALSE
    /\ UNCHANGED <<handler, gie, lpm, ie, ifg, running, watchdog, hung>>

\* activate(): the pin, `running`, and the watchdog off.
Pins ==
    /\ Main("pins", "display")
    /\ ifg' = FALSE /\ ie' = TRUE
    /\ running' = FALSE
    /\ watchdog' = FALSE
    /\ UNCHANGED <<handler, gie, lpm, byWatchdog, hung>>

Display ==
    /\ Main("display", "loop")
    /\ UNCHANGED <<handler, gie, lpm, ie, ifg, running, watchdog, byWatchdog, hung>>

Loop ==
    /\ Main("loop", IF running THEN "clear" ELSE "halt")
    /\ gie' = (gie \/ ~running)     \* the EINT of halt()
    /\ UNCHANGED <<handler, lpm, ie, ifg, running, watchdog, byWatchdog, hung>>

\* A pending interrupt is taken between EINT and LPM4.
Pending == gie /\ ie /\ ifg

Halt ==
    /\ ~Pending
    /\ Main("halt", "asleep")
    /\ lpm' = TRUE
    /\ UNCHANGED <<handler, gie, ie, ifg, running, watchdog, byWatchdog, hung>>

\* Woken: the loop again.
Woken ==
    /\ ~lpm
    /\ Main("asleep", "loop")
    /\ UNCHANGED <<handler, gie, lpm, ie, ifg, running, watchdog, byWatchdog, hung>>

Clear ==
    /\ Main("clear", "enable")
    /\ gie' = FALSE
    /\ UNCHANGED <<handler, lpm, ie, ifg, running, watchdog, byWatchdog, hung>>

\* Mutant: the interrupt stays off.
EnableNot ==
    /\ Main("enable", "main")
    /\ ifg' = FALSE
    /\ UNCHANGED <<handler, gie, lpm, ie, running, watchdog, byWatchdog, hung>>
Enable ==
    /\ Main("enable", "main")
    /\ ifg' = FALSE /\ ie' = TRUE
    /\ UNCHANGED <<handler, gie, lpm, running, watchdog, byWatchdog, hung>>

\* system_init() and the rest of main(), up to enable_int().
Start ==
    /\ Main("main", "app")
    /\ gie' = TRUE
    /\ UNCHANGED <<handler, lpm, ie, ifg, running, watchdog, byWatchdog, hung>>

\* The application hangs, with interrupts off, and is not heard of any more
\* until the watchdog strikes; or it panics.
Hang ==
    /\ Main("app", "hung")
    /\ gie' = FALSE
    /\ hung' = TRUE
    /\ watchdog' = TRUE
    /\ UNCHANGED <<handler, lpm, ie, ifg, running, byWatchdog>>

PanicHook ==
    /\ Main("app", "panic")
    /\ gie' = FALSE
    /\ UNCHANGED <<handler, lpm, ie, ifg, running, watchdog, byWatchdog, hung>>

-----------------------------------------------------------------------------
\* The prologue, by the interrupt or by the loop of panic_hook().
Enter ==
    /\ handler = "none"
    /\ \/ Pending
       \/ pc = "panic" /\ ifg
    /\ handler' = "wait"
    /\ gie' = FALSE
    /\ UNCHANGED <<pc, lpm, ie, ifg, running, watchdog, byWatchdog, button, presses, resets, hung>>

\* Mutant: the release is not waited for.
ReleasedAlways == TRUE
Released == ~pressed

WaitRelease ==
    /\ handler = "wait"
    /\ Released
    /\ handler' = "act"
    /\ UNCHANGED <<pc, gie, lpm, ie, ifg, running, watchdog, byWatchdog, button, presses, resets, hung>>

\* system_call_bsl(), or `running` and the return, which also wakes the CPU.
Act ==
    /\ handler = "act"
    /\ ie' = FALSE /\ ifg' = FALSE
    /\ handler' = "none"
    /\ IF running
       THEN /\ pc' = "bslcall"
            /\ watchdog' = TRUE
            /\ UNCHANGED <<gie, lpm, running>>
       ELSE /\ running' = TRUE
            /\ lpm' = FALSE
            /\ gie' = (pc # "panic")
            /\ UNCHANGED <<pc, watchdog>>
    /\ UNCHANGED <<byWatchdog, button, presses, resets, hung>>

\* The hardware: the watchdog resets the watch; whoever uses the loader, too.
Reset(cause) ==
    /\ resets < MaxResets
    /\ resets' = resets + 1
    /\ pc' = "reset"
    /\ handler' = "none"
    /\ gie' = FALSE /\ lpm' = FALSE /\ ie' = FALSE /\ ifg' = FALSE /\ running' = FALSE
    /\ watchdog' = FALSE
    /\ byWatchdog' = cause
    /\ UNCHANGED button

WatchdogStrikes ==
    /\ watchdog
    /\ Reset(TRUE)
    /\ UNCHANGED <<presses, hung>>

LoaderDone ==
    /\ pc = "bsl"
    /\ EarlyPress \/ (~pressed /\ ~bounces)
    /\ Reset(FALSE)
    /\ presses' = 0
    /\ hung' = FALSE

-----------------------------------------------------------------------------
Usable == EarlyPress \/ pc \in {"asleep", "app", "panic"}

Press ==
    /\ Usable
    /\ ~pressed /\ ~bounces
    /\ presses < MaxPresses
    /\ pressed' = TRUE
    /\ bounces' = TRUE
    /\ presses' = presses + 1
    /\ UNCHANGED <<cpu, ie, ifg, running, watchdog, byWatchdog, resets, hung>>

Bounce ==
    /\ bounces
    /\ ifg' = TRUE
    /\ UNCHANGED <<cpu, ie, running, watchdog, byWatchdog, button, presses, resets, hung>>

Settle ==
    /\ bounces
    /\ bounces' = FALSE
    /\ UNCHANGED <<cpu, ie, ifg, running, watchdog, byWatchdog, pressed, presses, resets, hung>>

\* The falling edge.
Release ==
    /\ pressed /\ ~bounces
    /\ pressed' = FALSE
    /\ bounces' = LateBounce
    /\ ifg' = TRUE
    /\ UNCHANGED <<cpu, ie, running, watchdog, byWatchdog, presses, resets, hung>>

Program ==
    \/ CheckWdtReset \/ Pins \/ Display \/ Loop \/ Halt \/ Woken
    \/ Clear \/ Enable \/ Start

Next ==
    \/ Program \/ Hang \/ PanicHook
    \/ Enter \/ WaitRelease \/ Act
    \/ WatchdogStrikes \/ LoaderDone
    \/ Press \/ Bounce \/ Settle \/ Release

\* The program goes on, interrupts are taken, the contact settles and no finger
\* stays on the button.
Spec ==
    /\ Init /\ [][Next]_vars
    /\ WF_vars(Program) /\ WF_vars(Enter) /\ WF_vars(WaitRelease) /\ WF_vars(Act)
    /\ WF_vars(WatchdogStrikes) /\ WF_vars(Settle) /\ WF_vars(Release)

-----------------------------------------------------------------------------
TypeOK ==
    /\ pc \in Labels /\ handler \in {"none", "wait", "act"}
    /\ presses \in 0..MaxPresses /\ resets \in 0..MaxResets
    /\ lpm => pc = "asleep" /\ ~watchdog

\* The watch that sleeps can be woken: its interrupt is on, and it waits for one.
WakesOnPress == (lpm /\ handler = "none") => (gie /\ ie /\ ~running)

\* One press has one effect: the loader is entered after a second one, or because
\* the application hung.
OnePressOneEffect == pc = "bsl" => (presses >= 2 \/ hung)

\* A press that wakes the watch starts the application, and one that the
\* application, running or in panic, sees leads to the loader.
PressStarts == (lpm /\ ifg) ~> (pc \in {"app", "hung", "panic", "bsl"})
PressLoads ==
    (pc \in {"app", "panic"} /\ ifg /\ resets < MaxResets) ~> (pc \in {"bsl", "hung"})
=============================================================================
