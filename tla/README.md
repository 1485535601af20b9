# A TLA+ verification of SE4ES

The repository is a small operating system for the TI eZ430-Chronos watch
(MSP430): coroutines and a round-robin scheduler, a guard that synchronises
system calls with interrupts by prologues and epilogues, semaphores, timed
sleep, drivers, a few application threads, and SimpliciTI, the radio network
stack it links with.  This directory holds TLA+ modules translated from its
source, TLC configurations that check them, and proofs checked by TLAPS.

Run everything from this directory:

    tlc -workers 2 -config MCKernel_safety.cfg MCKernel
    tlc -workers 2 -config Devices.cfg MCDevices
    tlc -workers 2 -config Network.cfg MCNetwork
    tlapm KernelProofs.tla

## 1. The system

There is one CPU, and no parallelism; everything hard comes from interrupts and
from context switches inside system calls, epilogues and interrupt handlers.

| Part | State it keeps | Operations | What makes it correct |
| --- | --- | --- | --- |
| `object/` Queue, List, Chain | head, tail cell, next fields | enqueue, dequeue, remove, insert_first, insert_after | behaves as a sequence; tail is never stale when it is used |
| `guard/` Guard, Locker, Secure, guardian | the lock, the epilogue queue, a queued flag per gate | enter, leave, relay | one activity in the kernel at a time; an epilogue asked for is run; no lock is taken or freed twice |
| `thread/` Scheduler, Dispatcher, Coroutine | ready queue, running coroutine, `idling` | ready, schedule, exit, kill, resume, dispatch | no thread is lost or listed twice; it idles exactly when nothing can run; every ready thread runs |
| `thread/` Organizer, Customer | the room a thread waits in | block, wakeup, kill | myroom tells where a thread is linked |
| `meeting/` Waitingroom, Semaphore, Buzzer | queue of waiters, counter, bell | p, v, set, sleep, ring, remove | no thread waits at a free semaphore; a sleeper has an alarm |
| `meeting/` Bell, Bellringer | delta list of bells | job, cancel, check | each bell rings at its tick |
| `device/` Watch, `machine/` Timer | tick counter, cycle counter | windup, epilogue, start, stop | time goes on; sleeps end |
| `device/` Plugbox, Panic | vector table | assign, report | every slot has a gate |
| `machine/` Radio | packet_received, sleeping, rx_enabled | prologue, epilogue, send, receive, ... | one signal per packet; the chip is idled once |
| `machine/` CPU, toc | interrupt flag, power mode, registers | enable, disable, idle; switch | no wake-up is slept through |
| `machine/` StandbyMode | `running` | activate, prologue | the start button starts the program |
| `machine/` UART | ring buffer | putc, flush, prologue | bytes leave in order, none overwritten |
| `machine/` LCD, Buttons, RTC, Beeper, sensors, buses | registers | reads and writes | (the chip's manuals) |
| `syscall/` | none | each wrapper: enter, one operation, leave | the whole operation is under the guard |
| `user/` threads, FixedPoint | their own | action() | PAST's speed stays in its range; button presses are not lost |
| `main.cc` | none | start-up | the guard is held before the timer starts |
| SimpliciTI, frame queues | slots with a usage mark and an age stamp | find a slot, find the oldest, adjust | no frame under the reader is overwritten; the oldest goes first |
| SimpliciTI, connections and link | connection table, ports, link ids, requests served | link, listen, unlink | frames are told apart; both ends agree; no connection is forgotten |
| SimpliciTI, sending | output slot, transaction ids | send, acknowledge | what is acknowledged was received |
| SimpliciTI, store and forward | clients, marks of their polls, waiting frames | join, poll, forward | to each client its own frames, in order, once for a poll |
| SimpliciTI, security | message counters | encipher, decipher | in order, once, and again in step after losses |
| SimpliciTI, channels and ping | channel, replies | move, scan, ping | a client that lost its access point finds it |
| SimpliciTI, radio driver | state of the transceiver | transmit, receive on, idle, sleep | no call meets an assertion |
| `scripts/`, `meta/`, Makefile | host tools | | outside this project |

How they interact: an interrupt enters `guardian()`, which asks its gate's
prologue and, if it wants its epilogue, `Guard::relay()`.  Relay runs the
epilogue at once if the lock is free, otherwise queues the gate; whoever holds
the lock runs it in `Guard::leave()`.  A system call takes the lock with a
`Secure` object.  Operations under the lock may switch coroutines, and the lock
then changes hands: the next coroutine is itself in a `leave()` (it has been
switched out under the guard, or starts in `kickoff()`), which frees it.  The
Watch's epilogue rings bells, which wake threads, and then preempts; so a switch
may happen inside an interrupt handler, whose frame stays on the stack of the
preempted thread.  There is no idle thread: the last thread that blocks leaves
the guard, loops with the CPU asleep, and re-enters the guard when it finds
something to run.

The network stack has no thread of its own.  A thread calls it with the guard
held, so there is one caller at a time; but its receive interrupt runs at every
point of such a call, unless the code is in one of its critical sections, and
stores frames, answers links, polls and pings and obeys orders in the same
queues and tables.  The drivers of the sensors are called with the guard held
too, and wait for their chips; UART, light button and buttons have interrupts or
threads of their own that share variables with their callers.

The hazards of this code, each at its line, are listed in `PROJECT.json`.

## 2. The modules

| Module | Models | Extends |
| --- | --- | --- |
| `Guard` | guard/, interrupts, stacks of coroutines | |
| `Scheduler` | thread/scheduler.cc, dispatch.cc, the idle loop | `Guard` |
| `Meeting` | organizer.cc, customer.h, semaphore.cc, buzzer.cc | `Scheduler` |
| `Kernel` | syscall/, epilogues, main(); the specification and its properties | `Meeting` |
| `MCKernel` | names for TLC's instances of `Kernel` | `Kernel` |
| `RadioPackets` | `Kernel` with a history of received packets | `Kernel` |
| `KernelProofs` | theorems about `Kernel`: types, guard, stacks; then its queues and lists | `Kernel` |
| `Chain`, `Queue`, `Fifo` | object/ at the level of pointers, what a queue promises | |
| `QueueProofs` | the pointers of `Queue` implement `Fifo` | `Queue` |
| `Bellringer`, `AlarmClock` | the delta list of bells, what it promises | |
| `BellringerProofs` | the delta list implements `AlarmClock` | `Bellringer` |
| `SequenceLemmas` | lemmas on sequences and iteration for the proofs | |
| `FrameSlots` | nwk_QMgmt.c: the slots of a frame queue | |
| `FrameQueue` | a retrieval and the receive interrupt on the input queue | `FrameSlots` |
| `FrameQueueProofs` | theorems about `FrameQueue` | `FrameQueue` |
| `Connections` | nwk.c: the connection table | |
| `ConnectionTable` | one device's table under every sequence of operations | `Connections` |
| `Link` | nwk_link.c, SMPL_Link, SMPL_LinkListen, SMPL_Unlink on several devices | `Connections` |
| `AckedSend` | SMPL_SendOpt, the output slot, acknowledgements | |
| `ConnectionProofs` | theorems about `AckedSend`, `ConnectionTable`, `SecureLink` and `PollWindow` | `AckedSend`, `SecureCounter` |
| `PollWindow` | the marks of polls: nwk_checkAppMsgTID and its neighbours | |
| `StoreAndForward` | nwk_join.c, nwk_mgmt.c, the forwarding of an access point | `FrameSlots`, `PollWindow` |
| `SecureCounter` | nwk_getSecureFrame: the counter from its lowest byte | |
| `SecureLink` | one direction of an enciphered link | `SecureCounter` |
| `Channels` | nwk_freq.c: orders to move, scans | |
| `Ping` | nwk_ping.c | |
| `RadioDriver` | class Radio, the calls below it and the driver's states | |
| `RingBuffer` | machine/uart.cc | |
| `Standby` | machine/standby.cc with resets, LPM4 and the boot loader | |
| `PressureBus` | machine/ps.cc pin by pin | |
| `PressureSensor` | tp_sensor.cc, bmp085.cc, scp1000.cc, access by access | |
| `AccelSensor` | bma250.cc, cma3000.cc, accel_spi.cc | |
| `IdleTime` | Timer::start, stop, getcycles around the idle loop | |
| `PastThread` | user/pastthread.cc on 32-bit words | |
| `ButtonService` | buttonservice.cc, buttons.cc and a client thread | |
| `MCNetwork`, `MCDevices`, `MCChannels` | TLC's instances of the modules above | |
| `NetworkProofs` | the network's theorems at the instances of `MCNetwork` | `MCNetwork` |
| `DeviceProofs` | theorems about the devices, at any parameters of `MCDevices` | `MCDevices` |

`MCNetwork` and `MCDevices` collect small instances of components that share no
state in one run each.  The variable `instance` is chosen in `Init` and never
changes; the variables of all other instances stay at 0, and the properties of a
component are stated as `Is("x") => X!Property`.  A behaviour of such a run is
therefore a behaviour of one instance, and each behaviour of each instance is
one of the run.

### Guard, Scheduler, Meeting, Kernel

Interrupts are taken only between two steps, so every stretch that the code
executes with interrupts disabled is one step.  Entering the guard and the body
of the operation are one step too: while the lock is taken an interrupt can only
queue its gate or find it queued, which touches nothing the body reads or
writes, so it commutes with the body.  `leave()` is one step per iteration of
its loop, because there it does matter when an interrupt comes.

A stack is abstracted to three functions on coroutines: `pc`, where the
innermost activity stands; `depth`, the number of interrupt frames; and `base`,
the task-level place below the outermost frame.  The handlers of the code all
end the same way (`leave()`, then RETI), so a count is enough.  The context
switch `toc_switch` is the assignment of `life`: a coroutine that does not run
keeps its `pc`.  `asleep` is LPM2; every interrupt handler clears it
(`__attribute__((wakeup))` in machine/wrapper.c).

| Code | TLA+ |
| --- | --- |
| Locker::free, Guard::epilogqueue, Gate::is_queued | `free`, `epilogqueue`, `queued` |
| Dispatcher::life (NULL before schedule()) | `life` |
| Scheduler::processqueue, Scheduler::idling | `processqueue`, `idling` |
| Customer::myroom, the Waitingrooms' queues | `myroom`, `waiters` |
| Semaphore::counter | `counter` |
| a Buzzer's pending bell in the Bellringer | `due` (the abstraction of `AlarmClock`) |
| leave(): an iteration, the end | `StartEpilogue`, `LeaveGuard` |
| relay(): its branches | `RelayNow`, `RelayLater`, `RelayDropped` |
| the idle loop in Scheduler::exit() | `EndIdling`, `PrepareSleep`, `SleepNow` |
| Guarded_Semaphore::p, v; UserThread::sleep | `P`, `V`, `Sleep` |
| Guarded_Organizer::resume, exit, kill, ready | `Yield`, `Exit`, `Kill`, `Ready` |
| the other Guarded_ wrappers | `DeviceCall` |
| Watch::epilogue, Radio::epilogue | `WatchEpilogue`, `RadioEpilogue` |
| interrupts without an epilogue (UART, light button) | `OtherInterrupt` |

Threads may make any call at any time, which covers every application.  Choices
made: `UserThread::sleep()` is two sections under the guard, `set` and `sleep`,
but the buzzer is the thread's own and nobody reads `buzzticks` between the two,
so `Sleep` is one step (the first section alone is a `DeviceCall`).  Threads
woken by one tick are appended in any order, of which the order of the bell list
is one.  `Ready` is for threads that are dead or running: readying one that is
queued or waits would link it twice, and no code in the tree does it.  Semaphores
start at 0, as the only one in the tree does, and a `V` may raise any other one
before it is used.  The radio's gate is assigned by its first user, so it does
not interrupt main(). `alive` is a history variable, not state of the program.

### Chain, Queue, Fifo

`Chain` translates the pointer code: `tail` is the item whose next field the tail
pointer points to, or NULL for `&head`.  `List::insert_after()` does not move
`tail`.  `Queue` calls the operations in the two ways the kernel does: the
ready-queue way (any enqueue, dequeue, remove) and the Bellringer's way (insertions,
and an enqueue only into an empty list).  In both it implements `Fifo`,
which includes that no call goes by without its effect (`CallsAreFifo`).

### Bellringer, AlarmClock

`Bellringer` has the list as a sequence and each bell's `m_value`; `job`, `cancel`
and the iterations of `check` are its actions.  `AlarmClock` holds the time left
to each bell; `TicksLeft`, the sum of the values up to a bell, is the refinement
mapping.  `Kernel` uses the abstraction, so the three levels fit together: a list
of pointers is a sequence (`Queue`), the sequence of deltas is an alarm clock
(`Bellringer`), and the alarm clock wakes threads (`Kernel`).

### The network

`FrameSlots` has the queue as a function from slots to records of usage, stamp and
frame; `Stamped`, `AdjustOrder` and `Castable` are what the three loops of
nwk_QMgmt.c do.  In `FrameQueue` the receive interrupt `Store` is one step
(interrupts are off in it), a retrieval has a step for every stretch between two
critical sections: it marks a slot `TRANSITION`, compares, unmarks, and the interrupt
may come in between and cast out whatever is not marked.

`Connections` is pure: a table is a record of the connections, the next link id and
the two ends of the port range, and each function of nwk.c is an operator on it.
`ConnectionTable` calls them in any order, `Link` from the two ends of a link, each with
a thread and a receive interrupt and the air between them, which loses, delays
and (with `Duplicates`) repeats.  The watch of `Link` may restart with an empty
table.

`AckedSend` builds a message in the output slot field by field, because the
interrupt builds its link replies in the same slot.  `StoreAndForward` is what the
access point does in its interrupt, the devices' side of a poll, and their
restarts.  In `SecureLink` a message is its counter and the number of blocks
sent before it; the cipher is whatever opens under its own counter only.  `Channels`
has the scan of a client step by step and the orders that change the channel
under it.

### Devices

Each module has the calls of a class as actions with a program counter, one step for
each access to what an interrupt, a chip or another thread sees, and the chip as an
external part with nondeterministic answers.  `RadioDriver` expands each call of Radio
into the driver calls it makes.  `RingBuffer` has a step per access to the indices and
the interrupt enable bit.  `Standby` follows the program from reset to LPM4, the
application, the watchdog reset and the boot loader.  `PressureBus` translates a call
into the sequence of pin operations it makes and lets the sensor follow the edges.
`PressureSensor`, `AccelSensor` let any access be refused or time out. `IdleTime`
counts in timer counts beside the real time.  `PastThread` has 32-bit arithmetic on
pairs of 16-bit halves, because TLC's integers are too small. In `ButtonService` time
passes while both threads sleep, and contacts bounce.

### The build

The modules of the network follow the watch's build, an end device with two
connections and two slots to a queue, but for code that other builds have: `AckedSend`
needs APP_AUTO_ACK, `SecureLink` SMPL_SECURE, `Channels` FREQUENCY_AGILITY, the Unlink
actions of `Link` EXTENDED_API, and `StoreAndForward` is the access point that such
watches talk to.  They model the library in those configurations, which radioconfig.h
and the Makefile do not select.  Assertions (BSP_ASSERT) are on. Sizes and widths
(bits of a byte, ids, counters, the buffer) are CONSTANTS.

## 3. The runs

| Run | Instance | Shows |
| --- | --- | --- |
| `kernel_safety` | 3 threads, all readied by main(), 2 semaphores, both gates, 2 nested frames, sleeps of 1 or 2 ticks, counters to 2, threads symmetric; 406 thousand states | the eight invariants of `Kernel` |
| `kernel_live` | 3 threads, timer only, 1 frame; 70 thousand states | `ReadyRuns`, `SleeperRuns` |
| `queue` | 4 items, both uses | `IsFifo`: the refinement of `Fifo`, and with it `TailIsRight` in every state |
| `bellringer` | 4 buzzers, up to 4 ticks | `RingsOnTime` (refinement of `AlarmClock`) |
| `devices` | nine instances, 736 thousand states | 13 properties of the devices |
| `network` | eleven instances, 1.6 million states | 13 properties of the network |
| `channels` | access point, range extender, end device out of its range, 2 moves, 1 loss; 178 thousand states | `ScanFindsAP`, `Reunited` |
| `kernel_sleep` | 2 threads, timer | violates `SleepsOnlyWhenIdle` |
| `radio_packets` | 1 thread, 2 packets | violates `EveryPacketSignalled` |
| `beeper` | 2 buzzers, the beeper | violates `RingsOnTime` |
| `link_race` | 2 linking devices, one that listens | violates `NoneForgotten` |
| `past_freq` | idle times around the thresholds | violates `FrequencyIsSpeed` |

**Bounds.** `MaxDepth` bounds nested interrupt frames, `MaxTicks` the length of a
sleep, `MaxCount` the counters.  Three threads are needed for one to run, one to be
queued and one to wait, and for two to share a room.  Two frames are needed for a
handler interrupted before its RETI, and for a thread preempted inside a handler that
interrupted another one.  A longer sleep only adds ticks that change nothing; two
lengths are enough for simultaneous and for different alarms, and the delta list is
checked for longer ones in its own module, where four bells give positions before,
between and behind others with ties.  Counters to 2 give a second p() that takes what
is left and a third that waits; beyond, only more p() are needed.  Threads are
symmetric: the modules name none, and main() readies all of them, in any order.  Four
items in `Queue` allow first, middle and last ones to be removed and inserted around.

**Bounds of `devices`** (the bus's stand in `MCDevices`, the others in `Devices.cfg`). The bus has two bits to the byte and two registers: a first,
a last and no other bit, which is where the loops of ps.cc differ; two calls, one byte
refused, so that a call follows one that was cut off anywhere. The sensors make four
calls with two failures: plug in, enable, read, and one more after an error. The timer
turns at 4, with up to three turns and interrupts in any place.  The governor runs 12
intervals, in which the excess reaches the wrap of a word.  Two buttons of which one
is held, released and pressed again.  The UART's buffer has four places and seven
characters fill it nearly twice.  `Sleep` has three resets: into sleep, into the
loader, and one by the watchdog.

**Bounds of `network`** (pings, polls and the store in `Network.cfg`, the others in `MCNetwork`). Two or three slots, as in the watch: the third frame casts
one out and the fourth meets the slot of the second.  The table has two connections,
four ids and three ports, so that ids wrap and port ranges meet.  Two links are
concluded, given up and made again, with a restart between.  The secure link starts at
counters that put three messages of one to three blocks across every boundary of the
hint (4) and the counter (16).  Poll ids are 0 to 7 with a window of 1, from every
first id, so that restarts fall before, within and behind the window and across the
wrap; the theorems of section 4 hold for every size.  Pings use three ids for four
calls, so that an id is used again.

**Properties.** Those of `Kernel` fall in three groups.  The guard: `GuardInv` (the
lock is free exactly when the running code is outside the kernel, and everyone else
is inside `leave()`), `FrameInv`, `NoPanic`, `GatesQueuedOnce`.  The lists, `ListsInv`:
`OneChain`, `RoomsAgree`, `NoZombie`, `NoLostThread`.  The meaning of the flags:
`FlagsInv` (`IdlesIffBlocked`, `SleeperHasAlarm`) and `NoneWaitsInVain`.

A property of `devices` and `network` says of one instance what its component
promises; most are conjunctions of properties that the component's module states:

| Run's property | Conjuncts in the component's module | What it says |
| --- | --- | --- |
| `BusTrue` | `BytesTrue`, `WriteArrives`, `FailsOnlyIfRefused`, `CleanEdges`, `LineFree` | what a call returns is true, also after one that was cut off; the sensor sees no condition that was not sent |
| `AccelTrue` | `TwoBytes`, `EnableWhole`, `FreshSample`, `PluginRecovers` | a timeout tears no later transfer; an enabled sensor is wholly set up; a sample is of now |
| `PressureTrue`, `Returns` | `OneBoard`, `MeasuredNow` | one board whatever was refused; no wait is for ever |
| `WithinTwoTurns` | the same | the idle measurement does not run away |
| `FullSpeed` | `FullSpeedIfBusy`, `NothingOver` | a busy watch runs at full speed, and nothing is left over |
| `PressesTold` | `PressSeen`, `RepeatsSlowly`, `TakenOnce` | no press too many, none missed by the service, none returned twice |
| `RadioKept` | `NeverHangs`, `FlagTellsSleep`, `ReceivesIffEnabled`, `ModeRestored`, `IdlesReceiving` | no call order meets an assertion; flags and chip agree |
| `InOrder`, `AllLeaves` | the UART's `InOrder` | nothing overtaken, overwritten or left behind; flush() returns |
| `OnePressOneEffect`, `PressActs` | `WakesOnPress`, `OnePressOneEffect` | no press is slept through, none counts twice; a press starts the watch or its loader |
| `QueueSound`, `OldestFirst` | `MarkedIffHeld`, `NoneVanishes`, `StampsTellAge`; `HeldStay`, `OldestIfQuiet` | the reader's frame is left alone, every kept frame accounted for, the oldest is read first |
| `TableSound` | `IdsIdentify`, `FramesIdentify`, `AskedPortsApart`, `MarkersInBounds` | ids and ports tell connections apart |
| `EndsAgree`, `NoneForgottenQuietly` | `LinksAgree`, `PeerKnows`; `ListensOnlyInCall` | both ends agree; every connection has an owner |
| `AcksTrue` | `AckMeansReceived`, `DeliveredAsBuilt` | no mixture is delivered; an acknowledgement can be trusted |
| `PollsOnce`, `OwnFramesOnly`, `WaitingInOrder` | `AcceptsExactlyNew`, `AnsweredOnce`; `OwnFramesOnly`; `WaitingStored`, `ForwardsOldest` | a poll is answered once, with the oldest frame of the one who polls |
| `SecureInOrder` | `OpenedInOrder`, `MissedOpens` | in order and once; in step again after losses within the window |
| `PingTrue`, `Followed` | `AnsweredHere`, `FailsOnlyIfAway`; `Followed` | a ping tells the truth; a device in reach follows the access point |

`channels` checks the rest of the last line in a wider instance: a scan in which
nothing is missed and nobody moves reports the access point's channel and no other
(`ScanFindsAP`), and a client that lost its access point meets it again (`Reunited`).

Each property has a mutant in `PROJECT.json`: an operator beside the original that
changes it as a slip in the code would, with which TLC finds the property violated.

**What an instance assumes.** Where the code breaks a property under circumstances a
reader may want to exclude, the instance excludes them by a CONSTANT, and section 5
says what happens without.  `Radio` has callers that disable reception before sleep()
and do not link asleep (`Careful`).  `Sleep` has no press before the watch is asleep
(`EarlyPress`) and no bounce after a release (`LateBounce`).  `Uart` has one printing
thread.  `Bus` has pins on which a low level wins (`MasterWins` is FALSE).  In
`Links`, `Late` and `Pings` no frame comes twice (`Duplicates`).  `Ports` has clients
with different ports.  In `Polls` joins are not repeated.

**Fairness** (`kernel_live`).  The CPU executes what it stands at: weak fairness of
`KernelStep`.  The timer ticks again and again, whatever else happens: strong fairness
of its interrupt (strong, because the interrupt is disabled at times by the bound on
frames).  The idle loop is a few instructions and an interrupt returns to it: strong
fairness of `IdleStep`.  `TasksGetTime` says that the CPU gets out of the guard and of
all handlers again and again: a tick comes every 10 ms and an epilogue takes
microseconds; without it TLC rightly shows an endless series of interrupts.  Sections
of `DeviceCall` are assumed to end; `PressureSensor` shows it of the calls that wait
longest.  No fairness is assumed of system calls: threads may compute for ever, and
the liveness comes from the preemption alone.

In `devices`: the UART shifts a byte out (hardware), its prologue runs when enabled,
and a call of putc() goes on, each under weak fairness; that a thread prints is not
assumed. `Sleep`: the CPU executes the program and the handler, a button that is down
is released, a contact settles; that it is pressed is not assumed.  `Pressure`: the
driver goes on, and a measurement that was started ends.

In `channels`: what is in the air for a device arrives or is missed (weak fairness for
each receiver and type of frame), the thread of a client goes on with its scan, and a
client that has lost the access point scans again, as an application that wants to be
in touch must. The access point's move after an order is strongly fair: its 250 ms end
even if frames of others keep interrupting them (strong, because the model lets frames
in the air go first).

**The violations** (five runs; section 5 lists the disagreements that have none).

* `SleepsOnlyWhenIdle`. `CPU::idle()` enables interrupts and enters LPM2 two
  instructions later.  A tick in between may wake the idling thread itself and reset
  `idling`; the CPU stops nevertheless and looks at the flag after the next
  interrupt.  The comment in `Scheduler::exit()` says that it idles until the flag
  is reset or a thread is in the queue.  With the timer running the delay is one
  tick at most, so `SleeperRuns` holds.
* `EveryPacketSignalled`. `Guard::relay()` ignores a gate that is queued, and
  `Radio::epilogue()` signals once.  machine/radio.h promises a signal for every
  packet received.
* `RingsOnTime` with a beeper.  `Guarded_Beeper::beep()` tests `run_down()`, which
  is true of a linked bell with a delta of 0, i.e. one that rings together with the bell
  before it; it hands the linked bell to `job()` again.
* `NoneForgotten`. nwk_getLocalLinkID() takes the first link request in several
  steps, of which only the first is a critical section: a second request in between is
  stored over it, and a connection is never handed out.
* `FrequencyIsSpeed`. PASTThread multiplies 27 000 000 by up to 1000 in 32 bits: at
  full speed it sets 1.23 MHz.

## 4. The proofs

Each theorem holds for every value of the constants that its assumptions allow: any
finite set of threads, any semaphores, bells and items, any widths of ids and counters,
any bounds.

| Theorem | Module | Statement |
| --- | --- | --- |
| `Invariance` | `KernelProofs` | `Spec => []IInv` |
| `TypeCorrect` | | `Spec => []TypeOK` |
| `GuardHeld` | | `Spec => []GuardInv` |
| `FramesNested` | | `Spec => []FrameInv` |
| `NeverPanics` | | `Spec => []NoPanic` |
| `GatesInStep` | | `Spec => []GatesQueuedOnce` |
| `NoneInVain` | | `Spec => []NoneWaitsInVain` |
| `ListsAgree` | | `Spec => []ListsInv` |
| `FlagsTrue` | | `Spec => []FlagsInv` |
| `QueueIsFifo` | `QueueProofs` | `Spec => IsFifo`: the pointers implement the sequence |
| `BellsOnTime` | `BellringerProofs` | `Spec => RingsOnTime`: the delta list implements the alarm clock |
| `ExactlyHeldMarked` | `FrameQueueProofs` | `Spec => []MarkedIffHeld` |
| `FramesAccounted` | | `Spec => []NoneVanishes` |
| `StampsAreAges` | | `Spec => []StampsTellAge` |
| `HeldFramesSafe` | | `Spec => HeldFrameStays`, an action property |
| `QuietTakesOldest` | | `Spec => OldestFirst`, an action property |
| `OnlyBuiltDelivered` | `ConnectionProofs` | `Spec => []DeliveredAsBuilt` |
| `AcksTrusted` | | `Spec => []AckMeansReceived`, until the ids have gone round |
| `TableKept` | | `Table!Spec => []` of `IdsIdentify`, `FramesIdentify`, `AskedPortsApart`, `MarkersInBounds` |
| `NextAccepted` | | after at most `Window` messages lost in a row the next is accepted, across the wrap |
| `LateRefused` | | a message repeated, or overtaken by at most `Window` + 1 later ones, is refused |
| `GuessesAhead` | | a message at most a window ahead is deciphered with the right counter |
| `OldNeverOpens` | | `Secure!Spec => []OpenedInOrder`, for less than a round of the counter |
| `MissedRecovered` | | `Secure!Spec => []MissedOpens`, likewise |
| `QueueProved`, `OldestProved` | `NetworkProofs` | `Spec => []QueueSound`, `Spec => OldestFirst`: what `network` checks |
| `TableProved`, `AcksProved`, `SecureProved` | | `Spec => []TableSound`, `Spec => []AcksTrue`, `Spec => []SecureInOrder`, likewise |
| `PingProved` | | `Spec => []PingTrue` |
| `PollsProved` | | `Spec => []PollsOnce` |
| `OwnFramesProved` | | `Spec => []OwnFramesOnly` |
| `WaitingProved` | | `Spec => WaitingInOrder`, a state property and one of steps |
| `AccelProved` | `DeviceProofs` | `Spec => []AccelTrue` |
| `PressureProved` | | `Spec => []PressureTrue` |
| `IdleTimeProved` | | `Spec => []WithinTwoTurns` |
| `PressesProved` | | `Spec => []PressesTold` |
| `PrintProved` | | `Spec => []InOrder` |
| `StandbyProved` | | `Spec => []OnePressOneEffect` |
| `FullSpeedProved` | | `Spec => FullSpeed`, a state property and one of steps |
| `RadioProved` | | `Spec => RadioKept`, likewise |

**Assumptions.** Those on the constants of the kernel are `ThreadsAssumption`,
`GatesAssumption`, `MaxDepthAssumption`, `BootAssumption`, `RoomsAssumption`,
`RadioAssumption`, `BoundsAssumption`; `Queue` and `Bellringer` have their own; TLC
evaluates each of them in a run of the module.  `WindowAssumption` and
`CounterAssumption` are on the sizes. `SizeAssumption` says that
the input queue has a slot. `AckAssumption` and `LinkAssumption` say what the
constants of `AckedSend` and `SecureLink` are, and `IdsLast` and `CountersLast` that
neither the transaction ids (255) nor the counter (2^32) goes round within a behaviour.
The latter two are limits of the code and not of the proof: an id that is used again is
acknowledged by an ack that was on its way all the time.  `TableAssumption` says that a
device does not ask the peers for links that ask it (section 6), and that there are
at least 2n - 1 ports for n connections; the program has 2 connections and 30 ports.
`ASSUME Instances` in `MCNetwork` has TLC evaluate these six for its instances.

The theorems on pings, polls and stored frames hold for all values of the CONSTANTS of
`MCNetwork`: any clients, senders, channels, sizes of queues and tables, and bounds, with
`PingAssumption`, `StoreAssumption` and `WindowAssumption`, which say what they are.
`Ports` has the two clients and the access point that `Port` names.  The switches of "What an
instance assumes" (section 3) keep the values they have there, and so they do for the
devices.  The theorems about the devices hold for all values of the CONSTANTS of `MCDevices` that
its `Instances` allows, which TLC evaluates too: `AccelAssumption`, `PressureAssumption`,
`IdleAssumption`, `PastAssumption`, `ButtonAssumption`, `PacketAssumption`,
`RingAssumption` and `StandbyAssumption`.  Three of them say more than what the constants
are.  `Negatable`: the sensor never puts out 128, whose negation is no byte (bma250.cc:96,
section 5).  `IdleAssumption`: the register is wide enough for the whole behaviour, and
the processor is never awake for a whole turn.  `PastAssumption`: an idle time has less than
2^15 ms, the range of the `int` that it is added up in (scheduler.cc:58).

**The guard.** `IInv` is `GuardPart` (types of the guard's variables, `FrameInv`,
`GuardInv`, `NoPanic`) and `DataPart` (types of the rest).  None of the four is inductive
alone. That an interrupt finds a well-formed stack below it needs `FrameInv`; `FrameInv`
at the end of `leave()` needs the types; that a switch hands the lock to a thread in
`leave()` needs the second conjunct of `GuardInv`; and that `Head(processqueue)` is a
thread needs the types of the queue, hence the lemmas on what `Readied`, `Unlink`,
`Resume` and `SwitchAway` return.  The lemma `SyscallKeepsGuard` is the core of the
argument for system calls: whatever the body did, the thread that runs afterwards
stands in `leave()` with the lock held.  `EpilogueKeepsGuard` is its counterpart
for epilogues.  Each action has a lemma; `NextIInv` joins them.

**The lists.** The second half of `KernelProofs` adds invariants that are inductive
beside `IInv`.
`GatesQueuedOnce`: only `RelayLater` appends to the epilogue queue, and only a gate
that is not flagged; only `StartEpilogue` takes from it, and clears the flag of the
head, which occurs nowhere else.  `NoneWaitsInVain`: `p` appends a waiter only at a
counter of 0, `v` raises a counter only if nobody waits, and whatever else takes threads
out of rooms (`kill`, the alarms) only shortens queues.  That a sleeping thread does not
count as a waiter needs `RoomsAssumption`: a buzzer's room is not a semaphore.

`ListsInv` and `FlagsInv` are not inductive.  A system call must not come from a thread
that is in a room: it may not, because `idling` is set only while the thread that waits
is in the idle loop (`IdlesInLoop`), so that whoever runs thread code is linked nowhere
(`CallerIsFree`).  That neither the tick nor `kill()` leaves a sleeper without an alarm
needs that a buzzer belongs to one thread (`BuzzersOwn`).  The invariant `LInv` is their
conjunction.  The code changes the lists in two ways only, which have a lemma each: the
running thread gives up the CPU (`GivesUp`), or threads are readied, with or without a
preemption (`Readies`); each call and epilogue is an instance of one of them.

**Refinements.** The mapping of `Queue` to `Fifo` follows pointers, that of `Bellringer`
to `AlarmClock` adds up differences: both are recursive functions on `0..n`, and the
library's induction theorems are second-order, which the provers cannot instantiate.
`SequenceLemmas` therefore proves by the least counterexample (`LeastNumber`) that an
iteration exists and is unique (`IterationExists`, `IterationUnique`); a method is then
followed by naming the sums, or the chain, before and after it, and checking that they
step as the definition says.  `QInv` says that the links of the queue lead through its
items once each (`Chains`), and that the tail is the last one's.  `BInv` says that
outside `check()` no bell of the list has run down: a tick takes one off the first
difference only, and that is one off every pending bell only if the first is the first
to ring.

**The input queue.** `FInv` joins parts that need each other.  That a slot is marked for one
reason only needs that the candidate lies behind the scan (`Reading`); that the interrupt
leaves marked slots alone is the lemma `SlotFoundProperties`.
`Accounted` adds to `NoneVanishes` that each waiting frame is in one slot, and that a
frame in a slot is retrieved already only between the copy and the release.  `Stamps`
says that n frames have stamps among 1 to n: hence the stamp of a new frame, n + 1 or
the size of the queue, is larger than all others.  Its core is `GapCloses`: to take one
frame out and number those behind it down keeps the order, whether the interrupt casts
the frame out or the reader has retrieved it.  Behind nwk_QadjustOrder the frame that is
about to be released does not count (`Counted`), and an interrupt there sets `disturbed`,
after which nothing is claimed: that is the window `OldestOnPort` falls into.  `Scan`
says what a scan without interrupts has seen: the candidate has the least stamp of the
slots passed that fit.

**Acknowledged messages.** `SendInv` needs no bound: a frame that is still the
application's, which its port shows, has the fields that are written already
(`Building`). `AckInv` adds where the ids are.  `Budget` is how often the counter may yet
be moved on; no id that is in the air is nearer before the counter than that (`Fresh`),
so `IdsLast`, through the budget at the start, means that an id is never given out
while it is in use.  The id that a sender waits for is then its message's, and each ack
with that id in the air is an ack of that message, which has arrived (`Awaited`).

**The connection table.** `TableInv` says where the ports lie: those of links that were
asked for at the top of the range, above `nextLinkPort`, those of accepted links at the
bottom, below it (`PortRanges`).  A port for a request is then none that was asked with
before, since all of those are marked (`SendPort`), and above those that were accepted
with.  The one case in which the ranges touch, the last port of the upper range and the
last of the lower, cannot be: to get there, all other connections must have been asked
for (`RoomToMeet`, by the pigeonhole principle). With one port less it can be (section 5).
That the loop for the next link id ends, with an id that is free, is the pigeonhole
principle again (`IdIsFresh`).

**Counters.** The wrap is split into the case before and the case behind it, and each
comparison of the code is decided in each case. The theorems hold for the real sizes
(255 and 5, 256 and 2^32), which TLC's instances only sample.  `GuessesAhead` needs that
the counter's size is a multiple of the hint's, without which the wrap of the counter
would lose the hint.  Its converse, `OpensOnlyAhead`, says that nothing but the counters
of one window opens.  `LinkInv` places each message, the sender and the receiver in the
stream of blocks since the link was made; an old message that opened would be almost
a round of the counter behind (`OpensAhead`), and `CountersLast` leaves no room for it.

**The instances.** `NetworkProofs` takes the invariants of the components to the
instances in `MCNetwork` (each proof module is instantiated as the component is, and
the two copies of each definition are shown equal; `ConnectionProofs` covers the
secure link too): the properties of the run `network`
that name several invariants at once follow from the components' theorems.  Pings and
the store have their invariants there.

**Pings.** `PingInv` follows the one frame there can be: the ping on its way, its reply, or
the peer's number in the queue, on the channel of the access point and while the caller
waits there (`PingCourse`).  As long as nothing was lost and the access point stays, its
channel is still to be scanned, or the caller is on it and the frame exists (`PingMissed`).

**Polls.** `Course` says for each client how far its id is from each id of its that is in
the air or in the access point's table: as far as the polls' numbers, but for rounds
(`InStep`).  `TellsPolls` turns that into what nwk_checkAppMsgTID decides.  A restart, after
which the id is any, makes the distance meaningless; that does no harm because the device
joins before it polls again, and the join resets the marker.

**Stored frames.** For any number of slots, `TakenSlot` says what the queue is when a frame
has come in, `ServedSlots` and `AdjustedServed` when it has been dealt with.  That a poll
finds no other client's message rests on the ports that go with each message and poll
(`PortData`, `PortPoll`).  For the order, `Positions` says that the stamps of the slots in
use are the positions of their messages in the order of coming.  It is kept when the
oldest is cast out or one is forwarded, and the stamps behind it close up
(`PositionsLess`), and when one comes to the end (`PositionsMore`); a message that is
forwarded and others of its link are then in the order of their stamps, and
nwk_QfindOldest takes the least (`ForwardOrder`).

**The devices.** `DeviceProofs` has an inductive invariant for each instance of
`MCDevices` but the bus; `Apart` says that a step is one of the instance that runs or
leaves its variables alone, so that the properties of the run follow.

* `RingInv`: the bytes that were printed are those sent, then register, buffer and the
  caller's hand.  The buffer's occupied slots are one sequence, from which the interrupt
  takes the first and to which `putc()` appends, across the end of the array
  (`UartCount`).  It needs what the writer knows at each of its places, above all that
  the slot behind `writeIdx` is free once it has been waited for (`UartPlaces`).
* `IdleInv`: the register has come round w times since start() and n turns were counted,
  each as `Top` counts, which is one too few; n and w differ by a turn that is pending, or
  was pending before start(), and by one more behind stop() (`IdleMeasuring`, `IdleEnded`).
  That a second one cannot be needs that the register has just come round (`IdleFallen`).
* `AccelInv`: what is left of a call is the tail of its accesses, and those before it
  were made (`Made`) unless one failed, of which the flag tells (`Transfer`).
* `PressureInv`: board and sensor are told apart by one identification (`OneChip`); at
  each wait the conversion in the chip is of a pressure the air has had since the call
  began (`Awaited`).
* `ButtonInv`: each published repetition has been waited for (`WaitedLong`); after a
  release no wait outlasts a pause, so that a press behind the pause is seen at once
  (`PausedLong`).
* `PastInv`: multiplication and addition of words by halves, with their carries, are those
  of numbers modulo 2^32.  What is left over is never negative as a signed word, and one
  busy interval leaves something over, which the next one turns into full speed.
* `SleepInv`: where the button may have been touched.  Before the watch sleeps it is not;
  from the first press on, whatever brings the program to the loader is a second one or
  the watchdog (`SleepTouches`); and the handler only runs where interrupts are enabled
  (`SleepPlaces`).
* `RadioInv`: for each call of Radio, the driver calls that are left together with the
  chip's state before the first of them; the flags are what they were before the call
  (`FlagsKept`).

**Only model-checked**: the bus (`BusTrue`); of the network `EndsAgree`,
`NoneForgottenQuietly` and `Followed`, in which several devices with a program each and
the air take part; `Channels`; the types of
`MCDevices` and `MCNetwork`; and all liveness, `ReadyRuns`, `SleeperRuns`, `AllLeaves`,
`PressActs`, `Returns` and `Reunited` (fairness and ENABLED are out of the prover's
reach).

## 5. Where the code and its words disagree

Five disagreements have runs (section 3).  TLC finds the following ones with the
module and constants named here; the definitions are in the modules.  Each contradicts
a comment at the place that is quoted.

| Module, property, constants | What happens |
| --- | --- |
| `FrameQueue` `OldestOnPort` | An interrupt between nwk_QadjustOrder and the release of the slot (nwk_frame.c:396) leaves two frames with one stamp; a later, undisturbed retrieval returns the younger one (nwk_QMgmt.c:265: "the oldsest"). |
| `Link` `LinksAgree`, `Duplicates` | A reply repeated by a range extender concludes the next call, with the wrong port (nwk_link.c:403: "guard against duplicates"). |
| `ConnectionTable` `AskedPortsApart`, 3 connections, ports 1 to 4, a listener, a linker with 3 ports | A link is asked for with a port that an accepted link has: the test for overlap lets the ranges share one port (nwk.c:749; 127: "Overlapping assignments are rejected"). Not with the program's 2 connections and 30 ports (`TableKept`). |
| `AckedSend` `SentAsBuilt` | nwk_QfindSlot does not mark the output slot: the interrupt's link reply is built into a message (radioconfig.h:69: "Tx is done synchronously"). `DeliveredAsBuilt` holds, since the mixture goes astray. |
| `StoreAndForward` `OwnFramesOnly`, equal ports | A poll compares port and sender, not the destination: a frame for another client is forwarded and lost (nwk_QMgmt.c:360; nwk_frame.c:804). |
| `StoreAndForward` `RefusedIsStored`, full queue | The slot cast out keeps its usage; the new frame is found equal to itself and refused (nwk_frame.c:930; 912). |
| `StoreAndForward` `AdjustmentSafe`, `OwnSends` | A frame of the output queue, whose stamp is 0, has the input queue adjusted: two stamps become one (nwk_mgmt.c:263; 258). |
| `StoreAndForward` `AnsweredOnce`, "join" in `Repeated` | A repeated join resets the mark, and a repeated poll is answered twice (nwk_join.c:307; 305). |
| `SecureLink` `TransitionOnlyInRetrieve` | A message that does not open keeps its slot for ever (nwk_frame.c:363; nwk_frame.h:113). |
| `Channels` `Followed`, a client behind an extender | The extender has moved when the second copy comes: one loss is enough to stay behind (nwk_freq.c:187; 577). |
| `Channels` `OrderKept`, with `Scanners` | A scan restores its first channel over an order obeyed meanwhile (nwk_freq.c:491; 189). |
| `Channels` `ListIsTrue`, two repliers | The second reply is read on the next channel, which is listed too (nwk_freq.c:470; 414). |
| `Ping` `PeerAnswered`, two unfiltered devices | A ping is answered by whoever hears it (nwk_ping.c:280; 279). |
| `Ping` `AnsweredHere`, `Duplicates` | The second copy of a reply answers the next ping (nwk_ping.c:194; 198). |
| `RadioDriver` `NeverHangs`, not `Careful` | link() right after plugin() transmits with the radio asleep: the assertion stops the watch (radio.cc:116; mrfi_radio.ci:552). |
| `RadioDriver` `ReceivesIffEnabled`, not `Careful` | sleep() ends reception, awake() does not resume it (radio.cc:132; radio.h:63). |
| `RadioDriver` `IdlesOnlyReception`, not `Careful` | After sleep() disable_rx() idles a radio that is off (radio.cc:126; 75). |
| `RingBuffer` `NoneLost`, two `Writers` | Preempted in putc(), a thread overwrites another's character (uart.cc:55; 54). |
| `Standby` `WakesOnPress`, `EarlyPress` | The interrupt is taken between the test of `running` and LPM4: the watch sleeps for good (cpu.h:63; main.cc:40). |
| `Standby` `OnePressOneEffect`, `LateBounce` | A bounce of the release counts as the second press (standby.cc:21; 17). |
| `PressureBus` `CleanEdges`, `MasterWins` | SDA rises while the clock is high, before the acknowledge: a stop condition (ps.cc:210; 212). |
| `PressureBus` `ContentReturned`, registers with the highest bit | Bytes are widened with their sign (ps.cc:295; 266). |
| `AccelSensor` `RateAsAsked` | CMA3000, 2g, LOW measures at 100 Hz (cma3000.cc:39; accel_sensor.h:15). |
| `AccelSensor` `FreshSample`, 128 in `Outputs` | The negation of -128 is -128 (bma250.cc:96; 71). |
| `PressureSensor` `ErrorShown` | Refused accesses read as 0 and are computed with (bmp085.cc:143; 135). |
| `PressureSensor` `LastMeasured` | The SCP1000 is read in two accesses while it measures (scp1000.cc:160; scp1000.h:56). |
| `PressureSensor` `InPascal`, a pressure whose lower word is 0 | 0 is taken for an error: the watch reads 0 (scp1000.cc:157; tp_sensor.h:26). |
| `IdleTime` `CountsIdle` | A turn that is pending at start() or falls behind stop() is counted (timer.cc:85; timer.h:35). `WithinTwoTurns` bounds the error. |
| `ButtonService` `Debounced` | No debounce time follows a release (buttonservice.cc:20; buttonservice.h:35). |
| `ButtonService` `NoneLost` | A press published inside get_buttons() is cleared unseen (buttonservice.cc:32). |

## 6. Not modelled

* Destructors and `Waitingroom::clear()`: all objects are static and
  object/cpp_helpers.cc has an empty `atexit`.
* Jobs of 0 ticks, `ready()` of a linked thread, two threads on one buzzer: no caller.
* Stack sizes: the program does not bound the nesting of handlers.
* The display, the real-time clock, the set-up of clocks and voltage, the board
  aspects: sequences of register writes without a protocol.
* FixedPoint and the altitude of Pressure2Altitude: pure arithmetic on 32 bits, which
  exceeds TLC's integers; the tick counter's comparisons, for which the same holds.
* Compensation arithmetic of the pressure sensors: abstracted to what it depends on.
* The replay of frames by range extenders and access points (nwk_frame.c) but as
  frames that are repeated; clear-channel assessment and the back-off of the radio
  driver.
* Non-volatile storage, the restart of an access point, RX_POLLS: not built.
* Ioctls that store or return a value.
* `LockerCheckingBeforeMain`, `Panic`'s display, host tools.

Further hazards that no property covers: putc() in a context with interrupts off never
returns once the buffer is full (uart.h allows it by name); the access point's own
messages are looked for by slot and not by age (a TODO in nwk_frame.c:835); a
connection whose request found the channel busy is not freed (nwk_link.c:334); after
more than 255 blocks lost in a row every message is deciphered with a counter 256 too
small (nwk_security.c:520); `marker[]` is written beyond its end when a peer this
device linked with asks for a link itself (nwk.c:699, excluded from `ConnectionTable`
by different sets of peers); nested handlers without bound (guard.cc:37).

## 7. The plan

Done, in this order: the kernel (`Guard`, `Scheduler`, `Meeting`, `Kernel`), its lists
and clock with their abstract specifications, its proofs; the frame queue,
connections, link, sending, store and forward, security, channels and ping of
SimpliciTI; the radio driver, UART, standby, sensors and their buses, idle time,
governor, buttons; the theorems about poll ids and counters; the lists of the kernel as
one inductive invariant; the theorems about acknowledged and enciphered messages and
about the input queue and the connection table, for all constants and at the instances
TLC runs; the theorems about the devices.  To come:

1. Proofs about the bus and about polls, pings and the ends of a link.
2. Abstract specifications of a semaphore and of an ordered channel, implemented by `Kernel`
   and `SecureLink`.
