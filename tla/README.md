# RobotOS: verification project

TLA+ models of the RobotOS sources under `src/RobotOS_v1.0`, the TLC runs that
check them on small instances, and TLAPS proofs of what matters most for every
instance. Paths below are relative to `src/RobotOS_v1.0`.

Contents: [1 The system](#1-the-system), [2 Modules](#2-modules-and-how-they-follow-the-code),
[3 Runs](#3-runs), [4 Fairness](#4-fairness), [5 Proofs](#5-proofs),
[6 Disagreements](#6-where-code-and-documentation-disagree),
[7 Not modelled](#7-what-is-not-modelled), [8 Plan](#8-plan).

How to use it, in this directory:

    tlc -workers 2 -config CorePosts.cfg RobotCore      # any pair of the table in section 3
    tlapm RobotCore_proofs.tla                          # any of the eight *_proofs modules

## 1. The system

The repository holds two architectures side by side.

**Architecture A (built and released).** A single-threaded event core with
interrupt producers, a table-driven state machine framework above it, a small
application harness (the probe translator), and the devkit firmware that runs
all of it on a board: the main thread calls `robotos_core_tick` every 500 ms,
which takes at most one event (`ROBOTOS_CORE_MAX_EVENTS_PER_TICK` = 1) from a
queue of 16 and calls its handler; button and UART interrupts and a timer
producer post the events.

| Component | Source | State it keeps | Operations |
|---|---|---|---|
| core event queue | `core/robotos_event_queue.c` | ring buffer, head, tail, count, dropped counter | init, push, pop, peek, clear |
| event dispatcher | `core/robotos_event_dispatcher.c` | queue pointer, handler, two counters | init, dispatch_one, dispatch_all |
| event core | `core/robotos_core.c` | lifecycle, handler table (8), queue, eight counters | init, tick, post, try_post, dispatch_events, register, unregister |
| retry advice, inspection | `core/robotos_core.c` | none | retry_decision_for_status, status_is_retryable; snapshot, getters |
| platform layer | `platform/`, `platform/zephyr/` | interrupt lock | critical sections, time, log, fault records |
| FSM framework | `framework/robotos_fw_fsm.c` | current state, six diagnostic fields | init, dispatch, reset, get_state, snapshot |
| event bridge | `framework/robotos_fw_event_bridge.c` | mapping, counters | init, dispatch, reset, snapshot |
| probe translator | `app/probe_translator/` | one machine and one bridge | init, dispatch_adapter_event, reset, snapshot |
| devkit application | `devkit/src/devkit_app_state.c`, `devkit_probe_adapter.c` | IDLE/ARMED/ACTIVE, counters, probe | on_button, on_uart_byte, forwarding |
| devkit producers | `devkit/src/devkit_{button,uart,timer}_producer.c` | statistics, debounce window, cadence | interrupt callbacks, handlers, on_tick |
| devkit runtime | `devkit/src/devkit_runtime.c` | loop counter, burst statics | init, run |

**Architecture B (legacy, frozen).** `src/adapter` (queues, pools, threads,
pins, log, deadlines, timers for host and Zephyr), `src/framework` (steppers,
endstops, encoder, sensors, control), `src/app` (machine lifecycle, G-code
parser, planner, three threads). `src/README_LEGACY_SCAFFOLD.md` and
`src/framework/DEPRECATED.md` freeze it: none of it is linked into the devkit,
and part of it no longer compiles against its own headers. It is modelled as
written, because the repository keeps it as the starting point of the motion work.

| Component | Source | State it keeps | Operations |
|---|---|---|---|
| devkit observability | `devkit/src/devkit_observability.c`, the producers' getters | none | the report of the main loop |
| memory pool | `src/adapter/zephyr/ro_pool.c` | bitmap, counters, lock | alloc, free, interrupt variants |
| log, deadlines, queue, thread slots, pins | `src/adapter/zephyr/ro_{log,deadline,queue,thread,gpio}.c` | ring; table of brackets; cached level; slots; slots and callback chain | log, flush; begin, end, reset; send, recv, reset; create, destroy; get, set_isr, put |
| step pulse driver | `src/framework/drivers/stepper_drv.c` | one segment | load, tick |
| stepper | `src/framework/stepper.c` | profile of one move, timer | get, move, move_to, stop, emergency_stop, put, pulse interrupt |
| robot state machine | `src/framework/robot_sm.c` | state, fault reason | dispatch, clear_fault |
| endstops, encoder | `src/framework/{endstop,encoder}.c`, `drivers/endstop_drv.c` | debounce, callback; counts | register, set_callback; reset, velocity |
| control | `src/framework/{limiter,pid,filter}.c` | last outputs, integral, window | update, reset |
| motion pipeline | `src/app/*` | two queues, parser mode, lifecycle | lines or shell commands, planner and pulse threads |

How components interact. Producers call `post_event` from interrupt context; the
core's state is shared with them under `irq_lock` critical sections, never
across one. The thread alone calls handlers, between critical sections, with an
event and a handler pointer copied earlier. Handlers call the application state,
which calls the probe adapter, which calls the bridge, which dispatches to the
machine, all synchronously. The report reads everybody's counters, the
interrupts' ones field by field. In architecture B, threads share two bounded
queues, the parser's mode and the lifecycle machine; only the queues are locked.
Its drivers share their structures with interrupts and take no lock.

What is hard, and what correctness means for each part:

* *event core*: interrupts between the four critical sections and the unlocked
  counting of one dispatch; a table that changes between lookup and call; a core
  that is READY before its queue is. No accepted event is lost, duplicated or
  overtaken; counters tell the truth; no NULL handler is called; an accepted
  event is eventually finished under any rate of interrupts.
* *retry advice*: a producer that follows it must neither lose a request nor post
  it twice, and must come to an end although others compete for the same room.
* *queue, dispatcher*: three indices that move separately and wrap; handlers
  that push and dispatch again. One FIFO window; honest results; every call ends.
* *FSM framework*: callbacks that call the machine while a dispatch is half
  done, guards that refuse, actions that fail after the state moved. Entry and
  exit stay paired, first match wins, each dispatch has one outcome.
* *devkit*: producers compete for one queue; initialisation fails in between;
  counters are written apart from the posts they count, and read while they
  count. Inputs reach the application once and in order, counters agree, what a
  report prints adds up, the backlog drains.
* *pool*: preemption inside a read-modify-write. A block is in one place.
* *adapter, devices*: interrupts inside calls that take no lock. What they do is
  neither lost nor mixed up, but for overlaps the properties name one by one.
* *pulses, motion*: rounding over long sequences, lost segments, a mode read at
  the wrong time. Position and pulses agree.
* *control*: braking distance, windup and a running sum over long sequences.

`PROJECT.json` lists all of this as hazards, at the lines where they bite, with
the properties that watch them. Where the code does go wrong in a window, the
properties except it by name and section 6 tells it; the hazard's note says so.

## 2. Modules, and how they follow the code

A step of a model is a stretch of code nothing else can cut: a critical section,
an interrupt callback, the code between two calls of foreign functions, or one
access to an unlocked variable. Operators marked `Slip:` are plausible mistakes
in the definition they precede; no specification uses them. They record what
each property is able to notice.

| Module | Code | Remarks |
|---|---|---|
| `BoundedFifo` | abstract | what a bounded queue promises |
| `EventQueue` | `robotos_event_queue.c` | implements `BoundedFifo` |
| `EventDispatcher` | `robotos_event_dispatcher.c` | composes `EventQueue`; call frames on a stack |
| `EventDelivery` | abstract | what the core promises producers |
| `RobotCore` | `robotos_core.c` | on `BoundedFifo`; implements `EventDelivery` |
| `FwMachine` | abstract | a machine that decides each event at once |
| `FwFsm` | `robotos_fw_fsm.c` | implements `FwMachine` |
| `ProbeTranslator` | `probe_translator.c`, `robotos_fw_event_bridge.c` | the machine has no callbacks here: one step a call |
| `DevkitApp` | `devkit_app_state.c`, `devkit_probe_adapter.c`, answers of `devkit_uart_producer.c` | composes `ProbeTranslator` |
| `ButtonProducer` | `devkit_button_producer.c` | clock wraps |
| `UartResponse` | `devkit_uart_producer.c`, transmitting half | lengths and printed numbers |
| `Devkit` | `devkit_runtime.c`, `devkit_{timer,uart}_producer.c` | composes `BoundedFifo`, `ButtonProducer`, `DevkitApp` |
| `Observability` | `devkit_observability.c`, getters of the producers | on `Devkit`; one copied field a step |
| `CoreInspection` | getters, snapshot and retry advice of `robotos_core.c` | operators on `RobotCore` |
| `RetryProducer` | none: producers that follow the advice | composes `RobotCore`, `CoreInspection` |
| `RoPool` | `src/adapter/zephyr/ro_pool.c` | every access a step, three lock modes |
| `RoLog`, `RoDeadline`, `RoQueue`, `RoThread`, `RoGpio` | `src/adapter/zephyr/ro_*.c` | each split where another context may come between |
| `StepperDrv` | `src/framework/drivers/stepper_drv.c` | position in pulses as history |
| `Stepper` | `src/framework/stepper.c` | thread, pulse interrupt, emergency stop |
| `RobotSm` | `src/framework/robot_sm.c` | lookup, store and report are steps |
| `EndstopDrv`, `Endstop`, `Encoder` | `src/framework/` | each against its interrupt |
| `Control` | `limiter.c`, `pid.c`, moving average of `filter.c` | exact numbers |
| `AppSm` | `src/app/app_sm.c` | lookup and store are two steps |
| `MotionPipeline` | `app_main.c`, `app_glue_{robotos,zephyr}.c`, `motion_planner.c`, `gcode_parser.c`, `kinematics_cartesian.c`, host `ro_queue.c` | composes `AppSm`; host or Zephyr |
| `ProbedApp` | `devkit_app_state.c`, `devkit_probe_adapter.c` | the application and the probe behind it, as one specification |
| `MCAdapter`, `MCDevices`, `MCDevkitApp` | | benches: one component a behaviour |
| `MCFwFsm`, `MCMotionPipeline` | | the small instances that need more than a cfg |
| `RobotCore_proofs`, `EventDispatcher_proofs`, `FwFsm_proofs`, `Devkit_proofs`, `DevkitApp_proofs`, `Adapter_proofs`, `Devices_proofs` | | theorems |
| `Arithmetic_proofs` | | lemmas about counters that wrap, least numbers |

*Benches.* Parts that do not interact are checked in one run: the MC module's
variable `bench` says which one a behaviour exercises, the others stand still,
and a property of one part is stated of its bench.

*Exceptions.* Much of architecture B takes no lock, and some overlaps of calls do
go wrong as written. The properties of those parts say what holds without them,
and history variables (`raced`, `overtaken`, `overlapped`, `outdated`, `replaced`,
`dangling`, `excuses`) record exactly the overlaps that are excepted. Each
exception is needed: without it TLC finds the behaviour, which section 6 lists.

**EventQueue, EventDispatcher.** Variables are the fields of the C structures;
`out` and `ret` are the caller's event and the status. `dispatch_all` is split
at the handler call (`CallHandler`, `HandlerOk`, `HandlerFails`); between, the
handler may use any queue operation and dispatch again. The dispatcher may be
re-initialised any time. Counters wrap at `CounterWidth`.

**RobotCore.** `pc` names the critical section the thread is at: `pop`,
`lookup`, `invoke`, `handler`, `account` inside one iteration of
`s_core_dispatch_one_safe`; `init_queue`, `init_dispatcher` inside the first
init. Between any two of these, `Post` may happen (an interrupt) and, when
`AsyncTable`, a registration by another context. The header permits
registrations from the core's own thread only; the run grants more. Refused
calls that change nothing are not steps. `seq` numbers accepted events for the
properties; the code has no such field.

**FwFsm.** A stack of calls in progress; each frame stands at the scan of the
table or at a callback. `nested` fixes, per behaviour, what callbacks call.
`FwMachine`'s variable `pending` holds the event a call in progress may still
decide, a tuple of at most one: the abstract machine decides it, or a new one, in
a step.

**ProbeTranslator, DevkitApp.** Tables are those of the source. Letters come in
either case; a failed probe initialisation leaves the adapter unready for good.

**Devkit.** `pc` walks through `devkit_runtime_init` and the loop. Every driver
call of an init may fail; the program logs it and goes on, except for the LED.
The burst of build option `DEVKIT_PHASE6I_STARTUP_BURST_ENABLED` posts from a
timer; `Attempts` = 0 compiles it out, and as its timer owes no tick, the runs
with the burst contain those in which it never fires. The loop counter is
incremented inside a log call, as in the code. `RobotCore`'s inside is not
repeated here: the core is the FIFO, the set of registered types and the
counters. `arrived` and `seen` are history, the inputs the core accepted and
those the application was given; `InputsArriveInOrder` says that the inputs the
core still holds stand between the two: the one of rank r among them is the r-th
after those seen.

**Observability.** While the thread stands at a line of the report, presses and
bytes go on. The core's line is one snapshot and so one step; the button's and the
UART's fields are copied in the order of the getters. `Lead` compares counters
modulo their width.

**CoreInspection, RetryProducer.** A snapshot is an operator, true of a state at
any step because the code takes it in one critical section. No program of the
repository retries: the header leaves the scheduling to producers, so
`RetryProducer` is an assumption about them. Each uses one entry point, makes one
request at a time and does what the decision says. Every one of its posts is a
step of `RobotCore`.

**UartResponse.** A response is the sum of the lengths of its parts, where a
counter has 1 to 10 digits; the version line is as long as the board's name and
the tick of 500 ms of the shipped build make it. `Scale` stands for the million
that `sensor_value.val2` counts to.

**RoPool.** Threads interleave at every access to bitmap, counters and lock; an
interrupt runs to its end. Which contexts use which mode follows `ro_pool.h`.

**RoLog ... RoGpio.** Kernel objects (the message queue, threads, the port's list
of callbacks) are modelled from how the adapter uses them. A callback is known by
the argument that belongs to it, a thread by the entry it was made for.

**StepperDrv.** A load fills the structure and sets `active` last; a tick that
finds it false does nothing, so a load is one step. This assumes the stores
happen in program order, and |steps| at most (2^31-1)/3 so that the tick's sums
fit (`StepperAssumption`).

**Stepper.** `at` is how far the thread's call is; `PulseEnds` and `PulseSteps`
are the timer's callback, `EmergencyStop` an interrupt's call. Words are `Word`
values wide, so that the profile's products wrap. `goal` is where the last move
should end. `stepper_stop` reads the steps done and the speed in separate accesses
(`stepper.c:240-242`), between which the interrupt may change both: `StopReads`,
`StopDecel`, `StopReadsSteps`, `StopReadsSpeed`, `StopTarget`, with what was read in
`seen`. The compiler chooses the order of the two reads and whether the steps are
read again, and so does the model.

**RobotSm, EndstopDrv, Endstop, Encoder.** The level of a pin may change again
before the interrupt of an edge reads it, and edges meanwhile are one interrupt.
An entry may be registered again while it is in use, its interrupt live.
An encoder's slot remembers in `attached` the pins whose interrupts were
registered with it, which `encoder_put` does not undo.

**Control.** Inputs are any sequence. The limiters are called at a fixed rate,
whose `dt` is their unit of time; the controller has its `SampleTime`. Its gain is
any integer, zero and negative ones included, and may be set at any time.

**MotionPipeline.** Main or the shell, planner and pulse threads as separate
processes; `board` is fixed per behaviour. A queue call with a timeout either
finds room at some point or gives up. On Zephyr giving up is RO_EAGAIN
(`ro_queue.c:95`), which `planner_entry` takes for a queue without commands, so that
it looks at the state (`AfterTimeout`). The planner timer is initialised and never
started, so the planner polls. Positions are integers in fractions of a step.
`done`, `origin` and `moves` are history: steps asked of the driver (the code logs
a segment where the driver is meant to be called), the step position that stands
for the last G28, and the segments since. Its specification is `PipelineSpec`,
because the module with its proofs extends another specification too.

## 3. Runs

States are distinct states on the instance of the cfg.

| Run | cfg, module | States | Shows |
|---|---|---|---|
| event_queue | `EventDispatcher.cfg`, `EventDispatcher` | 450,000 | `EveryEventCounted` (head, tail, count one window; events whose handlers dispatch again are counted once), `ImplementsFifo`, `ResultsHonest`, `CallsReturn` |
| core_posts | `CorePosts.cfg`, `RobotCore` | 790,000 | `EventConservation` (with the order of delivery and the high-water mark), `HandlersSafe` (table sound, no NULL call), `CountersNeverDecrease`, `OkMeansDrained`, `ImplementsDelivery` |
| retry | `RetryProducer.cfg`, `RetryProducer` | 190,000 | `ThrottleKeepsRoom` (try_post alone never fills the queue), `SnapshotCoherent`, `RequestsAccounted`, `RequestsSettle`, `ImplementsFairDelivery` |
| core_errors | `CoreErrors.cfg`, `RobotCore` | violation | `HandlerErrorsPropagate`: see section 6 |
| fsm | `Fsm.cfg`, `MCFwFsm` | 24,000 | `EveryDispatchAccounted`, `EntryExitPaired`, `ImplementsMachine`, `CallsReturn` |
| devkit_app | `DevkitApp.cfg`, `MCDevkitApp` | 50,000 | `ProbeFollowsApp` (how far the probe drifts from the application), `BridgeAndFsmAgree`, `ResponseFaithful`, `AnswersMatchCounters`, `FaultLatched`, `DebounceExact` (passes are apart, only bounces are filtered) |
| reports | `Observability.cfg`, `Observability` | 370,000 | `ReportAddsUp` |
| devkit | `Devkit.cfg`, `Devkit` | 280,000 | `InputsArriveInOrder`, `CountersAgree`, `BacklogKeepsDraining`, `BurstReported` |
| adapter | `Adapter.cfg`, `MCAdapter` | 440,000 | `BlocksConserved`, `PoolTellsTruth` (statistics exact, no refusal but when full), `RecordsExact` (log, deadlines, queue), `SlotsKeepTheirOwners` (threads, pins) |
| pool_atomic | `PoolAtomic.cfg`, `RoPool` | violation | `ThreadAndIsrSafe`: see section 6 |
| devices | `Devices.cfg`, `MCDevices` | 1,860,000 | `PulsesExact`, `StepperSound`, `FaultHeldAndHeard`, `SignalsSound` (pin, endstop, encoder, control) |
| motion | `MotionPipeline.cfg`, `MCMotionPipeline` | 300,000 | `PulsesFollowPlan`, `ReadyOnlyWhenDrained`, `Settles` |

Bounds, and why they are enough:

* *event_queue*: three slots so that the window can wrap with one, two and three
  events in it; two events tell order apart; batches of two and two calls deep
  are the shortest that show a handler's own dispatch ending before and after
  the outer one's bound. The drop counter saturates at 1 (its only use is
  whether it grew) and dispatch counters wrap at 3, so they are compared modulo.
* *core_posts*: capacity 3 with budget 1 leaves room for throttled, accepted and
  dropped posts; four counted posts fill the queue once and overflow it. Types 1
  and 99 are an admissible event and one of the reserved range; two slots and
  two types cover replace, free and reuse of slots. With as many slots as types
  the table cannot be full with an unknown type, so that guard is exercised by
  the proof `HandlerTableSafe`, which holds for every size, rather than by the run.
* *retry*: two producers, each of either kind, with two requests; type 0 is
  inadmissible, budget 1 is the code's, capacity 3 the smallest with room beyond
  the throttle's limit. The bound on posts is never reached by producers that wait.
* *core_errors, pool_atomic*: the smallest instances that show the behaviour.
* *fsm*: a table with a guarded row and its fallback, a shadowed row, a guarded
  loop and a missing pair; two calls deep and four dispatches allow a nested
  dispatch before, after and between callbacks. Events are numbered from 0, which
  is also what `last_event_id` holds before the first. `MaxStarts` is 2; a second
  init while a state is entered runs no on_exit (`robotos_fw_fsm.h:247-250`
  documents on_entry only), so pairing is claimed of behaviours with one.
* *devkit_app*: five inputs reach every state of both machines from every other.
  A clock of 7 and a window of 3 wrap twice within 18 ticks of uptime. Counters
  have every length up to the ten digits of 32 bits, against the buffer's 96
  bytes; values between -3 and 3 in quarters cross zero with either sign.
* *reports*: one report of every second tick, three inputs, queue of 2, so that
  inputs of a kind fall before, within and after the copying of their counters.
* *devkit*: queue of 2 (16), period 2 (2), counters modulo 4 (a multiple of the
  period, like 2^32); two inputs and three burst posts compete with a timer that
  posts for ever, so full, empty and mixed queues all recur. The probe's failing
  initialisation is left to devkit_app, where what follows from it is visible.
* *adapter*: three blocks in words of two bits make the scan cross words with the
  last word partly used; three threads, so that one waits while one owns and one
  is between lock and free. A ring of three holds two entries and wraps; three
  deadline ids for two slots and a budget of one tick; a queue of two and three
  tasks, so that one waits while two others are between change and store; two
  creators for two slots; three pins, so that a chain can lose its middle. Five
  ticks let one deadline overrun twice, before and after a reset.
* *devices*: segments of up to three steps on three axes, all directions; the sum
  never drifts because `PulsesExact` compares with all segments made so far.
  Words of 32 with speeds 2 and 8, an acceleration of 2 and a deceleration of 1 or
  0 (which stands for the acceleration) make short and long ramps, profiles
  without a plateau, and a square (64) that wraps; moves of up to 4
  pulses start, cruise, brake and are stopped in each phase. The debounce window
  of 2 within 7 ticks filters, accepts and hides a level. Speeds up to 3 at an
  acceleration of 2, which does not divide it, overshoot by as much as the bound
  allows; an integral limit of 5 is crossed both ways in steps of 2, 4 and 8 (gains
  -1, 0 and 2, a sample time of 2); a window of 3 wraps.
* *motion*: queues of 2 and 1 overflow; a unit of 4 to a step and words -3, 5, 6
  round down, up and from a half; four lines make mode switch, homing and lost
  segments meet, on either board. The machine's start is interleaved with the planner.

Every property has a mutant in `PROJECT.json`: a slip of one definition that
the same run finds.

Deadlock is checked except where the system may rest: `Fsm` and `DevkitApp` are
driven by calls the bounds use up, and `MotionPipeline`'s main may exit.

## 4. Fairness

* *RobotCore, Devkit*: weak fairness of the thread. `devkit_runtime_run` never
  ends and its sleep is bounded; handlers are short functions that return. Producers, drivers, clock and burst
  timer owe nothing: all liveness is proved against interrupts that stop, go on
  for ever within the bounds, or never come.
* *EventDispatcher*: weak fairness of the loop, and strong fairness of a handler's
  return at each depth, because a handler may use the queue in between.
* *FwFsm*: callbacks return (`robotos_fw_fsm.h:110` forbids them to block).
* *RetryProducer*: weak fairness of the calls in progress and of each producer's
  attempts, strong fairness of the tick: the main loop ticks for ever, but other
  calls of the thread may stand between two ticks, so that a tick is enabled
  again and again rather than always. Nobody has to make requests. One producer
  may starve another, hence `RequestsSettle` says that some request is settled.
* *MotionPipeline*: the scheduler runs each thread; nobody has to type or quit.
* *MCAdapter, MCDevices, Observability, ProbeTranslator, DevkitApp,
  ButtonProducer*: safety only.

## 5. Proofs

`tlapm` checks every leaf. The theorems hold for every value of the constants
that satisfies the named assumptions of the modules.

**RobotCore_proofs.** `HandlerTableSafe` is proved first, from its own inductive
invariant `TableInv` (types of the table and `HandlerTableConsistent`): the
separate `s_handler_count` equals the number of slots in use, one slot a type,
no NULL handler in use. The rest goes through

    IInv == TypeOK /\ CallInv /\ StartupInv /\ EventConservation
            /\ InOrderExactlyOnce /\ PeakTracksDepth
            /\ UnhandledWithinDispatched /\ NeverCallsNull

None of the stated invariants is inductive alone. Conservation needs order
(`AcceptPost` numbers the event by the accepted counter), both need `StartupInv`:
an event stored between READY and the initialisation of the queue would be wiped
by it, and only "READY and closed exactly when the thread is at init_queue" and
"closed means nothing accepted" exclude it. `CallInv` says what the thread's
locals hold at each critical section: without `Holding => ev \in Events` the
accounting could be of no event. The step lemmas go by what a step touches:
`QuietSteps`, `InitSteps`, `PushSteps`, `PopSteps`, `RouteSteps`, `AccountSteps`,
combined in `IInvStep`. From `Invariance` follow `TypeCorrect`, `Conservation`,
`InOrder`, `HandlerSafety`, `DiagnosticsConsistent`.

Two action properties rest on less. `CountersGrow`: no diagnostic counter ever
goes back, from `TicksInv`, that nothing has been counted before the first init.
`DrainIsHonest`: a drain that returns OK has handled what it was asked for or has
found the queue empty, provided no handler returns ERR_EMPTY; run core_errors
shows that the proviso is needed.

The module also holds what is proved of `RetryProducer`. `RetriesAreCoreSteps`:
whatever retrying producers do, the core takes one of its own steps or none, so
that every theorem of the core holds with them. `ThrottleRoom`: with
`Capacity > Budget + 1`, producers that only use try_post never fill the queue,
however many they are. `RequestBooks`: what the core accepted and rejected is what
the producers have settled, for any finite set of producers; the invariant is
`RequestsInv == RequestsAccounted /\ BooksOpen`. `Snapshots`: any snapshot, at any
step, adds up; `SnapInv` adds to `IInv` what it says nothing of (no ticks or inits
before the core is READY, throttles only above the budget). `CoreDelivers`: the
core implements `EventDelivery`'s safety part for every capacity, budget and
table. The initial states map, and each step is a step of the abstract service or
a stutter: a post is `Accept` or `Refuse`, the pop `Start`, the accounting
`Finish`; the proof needs `IInv` for the order of the queue.

**EventDispatcher_proofs.** For every capacity, every batch size and any depth of
dispatches within handlers. `EventsCounted`: head, tail and count always describe
one window of the ring, and what was counted, plus the events whose handlers still
run, is what was taken. The invariant is `DInv == EveryEventCounted /\ FramesOK`:
a call is within its batch, and every call but the innermost waits for its
handler, so that the number of events in handlers is the number of frames or one
less (`HandlersInProgress`). What an operation of the queue does to the ring is
proved once (`SlotFacts`, `RingStep`), and so is what it does to the window
(`FifoStep`), of which `QueueIsFifo` is made: the ring implements `BoundedFifo`.
`InnermostFrame` and `InnermostStaysOK` carry a call over what its handler does to
the queue. `ResultsAreHonest` is the action property about OK and EMPTY.

**FwFsm_proofs.** For every table, every set of callbacks and any depth. The
invariant

    IInv == TypeOK /\ StackOK /\ StartOK /\ PlaceOK /\ PairOK /\ Counted

says of the stack that only its bottom may be an init or a reset, and that every
call but the innermost stands at a callback; of each frame, that its row is one
that matches its event, from the state it found (`StackOK`, of `FrameOK`); and of
the state entered last, at which callbacks it is still, or not yet, inside
(`PlaceOK`, `PairOK`). `DispatchesAccounted` is stated of behaviours whose callbacks
do not reset (section 6 shows it false of the others). `EntriesAndExitsPair` and
`MachineImplemented` are about behaviours whose callbacks do not call the machine
(`nested = {}`), as the properties themselves are: with such calls neither claim
is made. `MachineImplemented`: each step is a step of `FwMachine` or a stutter; the proof needs `PlaceOK`, since only
a frame that still knows from where and along which row it goes makes a move of
the table.

**Devkit_proofs.** From the inside outwards. `BridgeAgrees` and `FaultIsLatched`:
bridge and machine of the probe, under any calls: FAULT is left by a reset only,
and ACTIVE entered from READY by a start only. `ProbeFollows` and
`AnswersAgree`: the application and the probe behind it, under any presses and
bytes (`AppInv`). Then the whole program, whatever interrupts, drivers and the
burst's timer do, for every queue, period, number of inputs and width of the
counters, from

    IInv == AppInv /\ Types2 /\ Places /\ AllRegistered /\ BurstAdds /\ InputsAdd
            /\ InputsArriveInOrder /\ Counts

`Places` says where the thread may be with an event in its hands, and that no
interrupt is enabled before its handler is registered; hence `AllRegistered`, that
every event waiting has a handler, without which an input could be dropped as
unhandled and order would be lost. The order of inputs is a matter of ranks in a
sequence: `PlacesOfAppend`, `PlacesOfTail`, `OrderAfterPut` and `OrderAfterHandled`
say what putting an event behind and taking one from the front do to them,
whatever else is in the queue.
`Counts` compares unbounded sums with counters that wrap, by `Arithmetic_proofs`;
`InputsAdd` and `BurstAdds` relate attempts to outcomes. From it follow
`ProgramTypes`, `InputsInOrder`, `CountersAlwaysAgree`, `NothingUnhandled` and
`ProbeFollowsInProgram`.

`ReportsAddUp` is about the report while interrupts count on. Its invariant
`RInv` adds to `IInv` what holds between two copied fields (`Printing`): a total is
at most what its parts show, where a part not yet copied shows its present value,
and the core's line lags behind what the producers show by no more than what was
counted since (`LeadShown`). That the total is copied first, and the core's line before the
producers', is what makes it inductive. It is stated of a program without the
startup burst (`ReportSpec`), whose posts the report does not print.

**Arithmetic_proofs.** What sums and differences do to a remainder, for every
width: adding one to a wrapped counter is wrapping the sum, two counters that
agree go on agreeing, a wrapped difference is the difference's wrap. `LeastNumber`,
that a set of naturals has a least element, stands in for induction.

**DevkitApp_proofs.** `DebounceIsExact`: for every window and every width of the
clock, presses that pass are a full window apart, and only bounces are filtered,
or presses an exact turn of the clock later. `WindowMeasures` is the lemma about
the subtraction of two wrapped times. `ResponsesFaithful`: a command is left
without an answer only where `ResponseFaithful` says, and sensor values read back as
they were, for every buffer that fits all but the longest line; 96 bytes do for
counters of ten digits (`OnlyLongestMisses`, `ValuesReadBack`).

**Adapter_proofs.** `PoolSafe`: if no pool is created in ATOMIC mode, every block
is in exactly one place, for any number of threads, blocks and bits a word.
`PoolInv` adds to `BlocksConserved` what makes it inductive: only one context is
inside (`InsideHolds`, `OnlyUsersCall`) and what it has read is still true
(`CallKnows`). The assumption is needed: run pool_atomic shows the theorem false
without it. `PoolHonest` is the action property about statistics and refusals, from
`PoolInv /\ StatsInv`: what a call that has changed a bit has not yet counted, and
that a scan has seen no free block in the words behind it.

`RecordsAreExact` and `SlotsAreKept` are about the other five parts, each with its
own invariant, put together as the benches are. `LogInv`: the ring holds the
entries between the last printed and the last accepted. `DeadlineInv`: a table's
records are those of the history, id by id. `QueueInv`: the cached level is right
or the caller that makes it right is known. `ThreadInv`: a creator between search
and start still owns its slot (`MakerKnows`). `GpioInv`: the port's chain has no
callback twice; cutting one out and linking one in are lemmas about sequences
(`Unlinking`, `Linking`).

The last part is about the motion program on top of the adapter, for queues of any
length, any lines and either board. `PipelineFollowsPlan`, from `PlanInv`: a
segment about to be queued is the rounded way to its target, and pulses and plan
(`Apart`) differ by half a step per segment at most. The steps on the way are the
sum of a queue, whose behaviour under `Append` and `Tail` is proved first
(`TotalOfAppend`, `TotalOfTail`, `TotalFrom`), again by a minimal counterexample.
`RunningEndsDrained`, from `MachineInv`: on the host, the place of main tells the
state of the machine until the planner sees it RUNNING, and then main dispatches no
more, so that lookup and store of the two threads never overlap; between the look
at the segments and the store only the pulse thread touches them, and it adds none.
On Zephyr the machine never leaves BOOT, IDLE and HOMING, whatever the shell
dispatches. This is why the machine's missing lock does no harm in these programs.

**Devices_proofs.** One invariant a device, from the assumption `DevicesAssumption`
of `MCDevices`; `DevicesInvariance` puts the benches together. The assumption is
what the code's types and guards give: words of an even number of values, as
unsigned integers have; moves and differences of positions that fit into them; no
acceleration for which the profile divides by zero (section 7); limits that are
positive, as the limiters demand.

* *Step pulses* (`StepInv`): `Arrives` (exact position between segments) and
  `Straight` (within half a step of the line, no overflow), for any number of axes
  and segment length; `Exact` states both as `PulsesExact`, and `PulsesOnTheBench`
  the same of the run's specification. `StepInv` relates each axis's error term to
  its deviation from the line; `NoMultiple` is the number-theoretic end: an error
  smaller than one step that is a multiple of the major axis is zero.
* *Stepper* (`SteppersSound`): `MotorInv` says what holds however calls and
  interrupts race (`MotorTypes`, `InUseFits`, `TimerFits`), and, excuse by excuse,
  what holds of a move nothing has disturbed: the timer runs exactly when the
  state says so (`Unraced`), position and steps to come add up to the goal
  (`OnCourse`), the ramp down begins after the speed is reached (`OnRamp`). The
  hard part is a stop (`Stopping`): the brake it computes from the speed it has read
  must not be longer than the steps that were left when it read it, and steps read
  no later than the speed keep it before the goal. While decelerating, the speed is the share
  of the configured speed that the steps left have in the full ramp, rounded down;
  `SlowEnough` shows that braking from such a share takes no more than these
  steps, in words that wrap.
* *Robot state machine* (`FaultsHeldAndHeard`), *endstop pin, endstop, encoder*
  (`SignalsAreSound`): `RobotInv`, `PinInv`, `LimitInv`, `ShaftInv` say what a call
  holds between two of its accesses.
* *Limiters*: `Brakes(x, v)`: with speed v at distance x beyond the farthest target,
  any number of calls that brake stays within the full brake. It is kept by a call
  towards any target (`BrakesKept`), because the way of n calls from full speed is
  longest for the n that leave some speed (`FullBrakeIsLongest`).
* *Controller* (`PidInv`): the integral has left the limit by at least one for each
  update since the error changed its sign.
* *Average* (`AverageInv`): the sum is `Total`, the sum of the newest inputs, a
  recursive function. That the function exists, is unique and shifts as the ring
  does (`SumsExist`, `SumsUnique`, `ShiftedSum`) is induction over the window, done
  as a minimal counterexample (`LeastNumber`), because the induction theorems of
  the library cannot be instantiated.

**What proving changed in the model.** The overshoot of the acceleration limiter
was first bounded as if the acceleration divided the speed; it need not. A stop
was thought never to lengthen a move outside the acceleration; it does when the
square of the speed wraps and when pulses overtake the stop, both beyond the
run's former bounds. The history of missed deadlines forgot a reset, hidden by a
clock that ended too early. The runs' bounds now reach all three.

**Only model-checked.** Liveness and everything under fairness
(`ImplementsFairDelivery`, `RequestsSettle`, `CallsReturn`,
`BacklogKeepsDraining`, `BurstReported`, `Settles`) is out of the prover's reach, as
is ENABLED. Every other property of a passing run is stated by a theorem.

## 6. Where code and documentation disagree

Shown by a run:

* **core_errors**: `robotos_core.c:268` takes every `ERR_EMPTY` for an empty
  queue; a handler that returns `ERR_EMPTY` has its failure reported as OK.
  `robotos_core.h:163`: "Handler errors propagate".
* **pool_atomic**: in ATOMIC mode nothing protects the bitmap between a thread
  and an interrupt; `ro_pool.h:38`: "CAS-based (ISR-safe + thread-safe)".

Found while modelling, without a run:

* `robotos_fw_fsm.c:174`: a callback that calls reset makes the outer dispatch
  count a transition after the counters were zeroed; `robotos_fw_fsm.h:185`
  promises at most one per dispatch. (Set `Callbacks = {{"reset"}}` in
  `Fsm.cfg` and `EveryDispatchAccounted` fails.)
* `robotos_fw_fsm.h:194` says "initialized until reset"; reset leaves it true.
* `devkit_button_producer.c:112`: a press in the first 30 ms after boot is
  filtered although nothing preceded it, and so is one an exact wrap after the
  last; `:64-65` speaks of the last accepted press only.
* `robotos_core.h:113` counts failed events as dispatched; `robotos_core.c:168`
  counts them in `handler_error_count` only.
* `robotos_core.h:102` calls the snapshot not thread-safe; the code locks.
* `devkit_app_state.h:63` documents `ignored_count` as unknown bytes; redundant
  commands count too (`devkit_app_state.c:165`, `178`, `191`).
* `devkit_runtime.c:21-27`, `92-95`: the burst's expected numbers (16 accepted, 8
  full) hold only if no tick takes an event meanwhile and nobody else posts. A
  burst with fewer than 16 accepted never logs its summary, which is why
  `BurstReported` speaks of bursts that had as many.
* `ro_pool.h` calls the statistics a thread-safe snapshot; they are copied
  without the lock.
* `src/adapter/host/ro_pool.c` has no lock at all, its header comment mentions one.

Overlaps of architecture B, each found by TLC when its exception is dropped from
the property (the variable in parentheses records it):

* log: a call interrupted by another one loses a message uncounted or prints an
  old one again (`ro_log.c:84-108`), an interrupted drop count loses a drop
  (`:86`) (`raced`).
* deadlines: a reset inside an end is undone by its increment (`ro_deadline.c:82`;
  `ro_deadline.h` calls it an atomic increment) (`overtaken`); a bracket that
  begins at time 0 is not seen (`:79`).
* queue: the cached level stays wrong when another context changes the queue
  between a call's change and its store, or within a reset (`ro_queue.c:64-69`,
  `92`) (`outdated`). A timeout returns RO_EAGAIN, never RO_ETIMEDOUT (`:95`).
* thread slots: creations whose searches overlap share a slot, and one that
  overlaps the clearing of a slot loses its entry (`ro_thread.c:53-54`, `63`)
  (`overlapped`).
* pins: putting a pin without clearing its interrupt cuts the port's chain of
  callbacks there (`ro_gpio.c:79`) (`dangling`); setting a callback over another
  one lets an interrupt mix the two, and an invalid mode is refused after it was
  stored (`:142`, `153`) (`replaced`). `endstop.c` does the same with its callback.
* stepper: a stop during the acceleration carries the motor past its target
  (`stepper.c:241-243`), and so does one at a configured speed whose square wraps
  (65536 steps a second and more) (`wraps`), one whose store of the brake's
  beginning the pulses overtake (`:239-240`), or one that reads the steps a pulse
  after the speed (`:241-242`) (both `overtaken`); a last pulse inside `stepper_stop` leaves
  DECELERATING with the timer stopped (`:244`), and an emergency stop between
  `stepper_move`'s check and its start of the timer is overwritten (`:197-213`)
  (`raced`); a pulse between `stepper_move_to`'s difference and its move leaves the
  motor beside the target (`:220`) (`stale`).
* robot state machine: a fault between lookup and store of a dispatch is
  overwritten (`robot_sm.c:95-103`) (`raced`).
* endstop pin: a bounce that ends a press can hide the level until the next edge
  (`endstop_drv.c:35-41`, `63`).
* encoder: `encoder_put` leaves its interrupt registered, which then counts for
  the slot's next owner (`encoder.c:70-75`) (`attached`).
* acceleration limiter: it does not brake in time and passes its target
  (`limiter.c:37-56`); `OvershootBounded` says by how much at most.

Behaviours of the legacy motion program the model keeps as they are: a queued
move is planned in the mode the parser is in by then; a G91 whose line found no
room still switches the mode; the machine may report READY before the first
line, and no later motion makes it RUNNING again; the planner plans in every
lifecycle state; quitting loses queued moves; nothing sets the feed hold. A G28
sets the position without waiting for queued segments, hence `origin`. On Zephyr
nobody dispatches HOMING_DONE, so that "run" is refused for ever
(`app_glue_zephyr.c:73-95`) and moves are made in IDLE or HOMING.

## 7. What is not modelled

* *Platform layer*: the critical section is the atomicity of the steps, time an
  input; log and fault records are output. Fault registers, LED and build info
  keep no state another part reads.
* *Text* of answers and reports beyond lengths, printed numbers and counters.
* *Feed rates, peripherals, second and third axis, axes without a word*, and the
  feed hold, which no code sets, in the motion pipeline.
* *Exponential and notch filters*, whose coefficients are no fractions, and the
  rounding of `float` in planner and control, which are exact here.
* *Accelerations of the stepper* for which its profile divides by zero (0, or a
  double that wraps to 0).
* *`dcmotor.c`, `servo.c`*: they pass a configuration where `ro_pwm.h` wants a
  handle, and too few arguments; as they stand there is no program to model.
  *`sensor.c`* stores a time under a lock.
* *Host stubs; Zephyr's mutexes, timers, time, PWM and buses*: wrappers whose
  state is the kernel's. Configuration profiles are constants.
* *Tests and tools*: read as documentation.

## 8. Plan

1. Core: `EventQueue`, `EventDispatcher`, `RobotCore`, abstract `BoundedFifo`,
   `EventDelivery`; theorems of the core. *Done*, with the refinement proved.
2. Inspection, retry advice, producers that follow it. *Done*, with proofs.
3. Framework and devkit: `FwFsm` over `FwMachine`, `ProbeTranslator`,
   `DevkitApp`, `ButtonProducer`, `UartResponse`, `Devkit`, `Observability`.
   *Done*, with proofs of every safety property the runs check.
4. Legacy: `RoPool`, `StepperDrv` with proofs; the adapter's own state; stepper,
   robot state machine, endstops, encoder, control; `AppSm`, `MotionPipeline`
   on both boards. *Done*, with proofs of every safety property the runs check.
5. Open models: a reset of `FwFsm` from inside a callback (`robotos_fw_fsm.c:217`,
   the one hazard without a property, since `EveryDispatchAccounted` is false of
   it), second and third axis of the pipeline.
