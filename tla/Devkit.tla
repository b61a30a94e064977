-------------------------------- MODULE Devkit --------------------------------
(***************************************************************************)
(* devkit/src/devkit_runtime.c: the devkit program.  The main thread       *)
(* initialises the core, the application and the producers and then loops: *)
(* one core tick (which dispatches at most one event), the timer producer, *)
(* a sleep.  The button and the UART interrupt it anywhere and post their  *)
(* inputs.  RobotCore models the core in detail; here it is the queue it   *)
(* promises, the set of registered types and the counters.                 *)
(***************************************************************************)
EXTENDS Integers, Sequences, FiniteSets, ProbedApp

CONSTANTS
  Capacity,      \* ROBOTOS_EVENT_QUEUE_CAPACITY
  TickPeriod,    \* DEVKIT_TIMER_PRODUCER_TICK_PERIOD
  CounterWidth,  \* counters that never stop wrap here (2^32)
  Debounce, ClockWidth,
  Attempts,      \* DEVKIT_PHASE6I_ATTEMPT_COUNT; 0 when the burst is compiled out
  DriversFail    \* TRUE when a driver call of an init may fail

ASSUME DevkitAssumption ==
  /\ Capacity \in Nat \ {0} /\ TickPeriod \in Nat \ {0}
  /\ CounterWidth \in Nat /\ CounterWidth > Capacity /\ CounterWidth % TickPeriod = 0
  /\ Debounce \in Nat \ {0} /\ ClockWidth \in Nat /\ Debounce < ClockWidth
  /\ MaxInputs \in Nat /\ Attempts \in Nat /\ DriversFail \in BOOLEAN /\ ProbeFails \in BOOLEAN

VARIABLES
  pc,          \* where the main thread is
  tick_count,  \* local of devkit_runtime_run
  queue, dropped_count, core_ready, ev,  \* the core's queue and the event taken from it
  registered,  \* the types with a handler
  accepted_count, unhandled_count,
  enabled,     \* the interrupts whose callback is installed
  clock, btn,  \* the button producer
  uart,        \* the UART producer's statics
  tmr,         \* the timer producer's statics
  posted,      \* what the timer's post returned, while not counted
  burst,       \* the startup burst's statics
  arrived,     \* history: the inputs the core accepted, in order
  seen         \* history: the inputs the application was given, in order

coreVars == <<queue, dropped_count, core_ready, ev, registered, accepted_count, unhandled_count>>
history  == <<arrived, seen>>
vars == <<pc, tick_count, coreVars, enabled, clock, btn, uart, tmr, posted, burst, appVars, history>>

Inputs == {"press"} \cup Bytes
Types  == {"button", "uart", "timer", "burst"}
Items  == [type : Types, input : Inputs \cup {"beat"}]
NoItem == [type |-> "none", input |-> "none"]

InputTypes == {"button", "uart"}   \* what carries a press or a byte

Queue  == INSTANCE BoundedFifo WITH fifo <- queue, lost <- dropped_count,
                                    open <- core_ready, out <- ev
Button == INSTANCE ButtonProducer
            WITH uptime <- clock, pending <- 0, accepted_at <- 0,
                 MaxUptime <- ClockWidth, MaxPresses <- MaxInputs

Init ==
  /\ pc = "core" /\ tick_count = 0
  /\ queue = <<>> /\ dropped_count = 0 /\ core_ready = FALSE /\ ev = NoItem
  /\ registered = {} /\ accepted_count = 0 /\ unhandled_count = 0
  /\ enabled = {}
  /\ clock = 0 /\ btn = Button!FreshButton
  /\ uart = [rx |-> 0, ok |-> 0, full |-> 0, handled |-> 0]
  /\ tmr = [attempted |-> 0, ok |-> 0, dropped |-> 0, init_done |-> FALSE]
  /\ posted = "none"
  /\ burst = [started |-> FALSE, seq |-> 1, ok |-> 0, full |-> 0, handled |-> 0, logged |-> FALSE]
  /\ App!Init
  /\ arrived = <<>> /\ seen = <<>>

Goes(from, to) == pc = from /\ pc' = to

-----------------------------------------------------------------------------
(* devkit_runtime_init *)

CoreInit == /\ Goes("core", "app")
            /\ core_ready' = TRUE
            /\ UNCHANGED <<tick_count, queue, dropped_count, ev, registered, accepted_count,
                           unhandled_count, enabled, clock, btn, uart, tmr, posted, burst, appVars, history>>

AppInit == /\ Goes("app", IF Attempts > 0 THEN "burst" ELSE "led")
           /\ App!Start
           /\ UNCHANGED <<tick_count, coreVars, enabled, clock, btn, uart, tmr, posted, burst, history>>

\* The burst of build option DEVKIT_PHASE6I_STARTUP_BURST_ENABLED: its handler
\* is registered, then its timer started.
StartBurst == /\ Goes("burst", "led")
              /\ registered' = registered \cup {"burst"}
              /\ burst' = [burst EXCEPT !.started = TRUE]
              /\ UNCHANGED <<tick_count, queue, dropped_count, core_ready, ev, accepted_count,
                             unhandled_count, enabled, clock, btn, uart, tmr, posted, appVars, history>>

\* Without its LED the program ends.
LedInit == /\ Goes("led", "timer") \/ (DriversFail /\ Goes("led", "stopped"))
           /\ UNCHANGED <<tick_count, coreVars, enabled, clock, btn, uart, tmr, posted, burst, appVars, history>>

Register(type) == registered' = registered \cup {type}

registerOnly == <<tick_count, queue, dropped_count, core_ready, ev, accepted_count,
                  unhandled_count, clock, btn, uart, posted, burst, appVars, history>>

TimerInit == /\ Goes("timer", "button")
             /\ Register("timer")
             /\ tmr' = [tmr EXCEPT !.init_done = TRUE]
             /\ UNCHANGED <<registerOnly, enabled>>

\* Slip: the interrupt is enabled before the handler is registered, and an init
\* that fails in between leaves it enabled.
EnableFirst(type, irq, next) ==
  /\ \/ Goes(type, irq) /\ enabled' = enabled \cup {type} /\ UNCHANGED registered
     \/ Goes(irq, next) /\ Register(type) /\ UNCHANGED enabled
     \/ DriversFail /\ (Goes(type, next) \/ Goes(irq, next)) /\ UNCHANGED <<registered, enabled>>
  /\ UNCHANGED <<registerOnly, tmr>>

\* The handler is registered, then the interrupt callback installed; a driver
\* that fails before or in between is logged and the program goes on.
InputInit(type, irq, next) ==
  /\ \/ Goes(type, irq) /\ Register(type) /\ UNCHANGED enabled
     \/ Goes(irq, next) /\ enabled' = enabled \cup {type} /\ UNCHANGED registered
     \/ DriversFail /\ (Goes(type, next) \/ Goes(irq, next)) /\ UNCHANGED <<registered, enabled>>
  /\ UNCHANGED <<registerOnly, tmr>>

ButtonInit == InputInit("button", "button irq", "uart")
UartInit   == InputInit("uart", "uart irq", "loop")

-----------------------------------------------------------------------------
(* Interrupts.  Each runs to its end before the thread goes on.             *)

PostResult == IF Len(queue) < Capacity THEN "OK" ELSE "FULL"

\* The core's part of a post; an accepted input is remembered.
Post(item) ==
  /\ Queue!Put(item) \/ Queue!Lose
  /\ accepted_count' = (accepted_count + (IF PostResult = "OK" THEN 1 ELSE 0)) % CounterWidth
  /\ arrived' = IF PostResult = "OK" /\ item.type \in InputTypes THEN Append(arrived, item.input)
                                                               ELSE arrived
  /\ UNCHANGED <<registered, unhandled_count>>

MoreInputs == btn.attempted + uart.rx < MaxInputs

PressFiltered ==
  /\ "button" \in enabled
  /\ MoreInputs
  /\ Button!Filter
  /\ UNCHANGED <<pc, tick_count, coreVars, enabled, clock, uart, tmr, posted, burst, appVars, history>>

PressPosted ==
  /\ "button" \in enabled
  /\ MoreInputs
  /\ Button!Pass(PostResult)
  /\ Post([type |-> "button", input |-> "press"])
  /\ UNCHANGED <<pc, tick_count, enabled, clock, uart, tmr, posted, burst, appVars, seen>>

\* Slip: a byte that finds the queue full is still counted as posted.
ByteArrivesOk(b) ==
  /\ "uart" \in enabled
  /\ MoreInputs
  /\ uart' = [uart EXCEPT !.rx = @ + 1, !.ok = @ + 1]
  /\ Post([type |-> "uart", input |-> b])
  /\ UNCHANGED <<pc, tick_count, enabled, clock, btn, tmr, posted, burst, appVars, seen>>

\* One byte of the receive loop.
ByteArrives(b) ==
  /\ "uart" \in enabled
  /\ MoreInputs
  /\ uart' = [uart EXCEPT !.rx = @ + 1,
                          ![IF PostResult = "OK" THEN "ok" ELSE "full"] = @ + 1]
  /\ Post([type |-> "uart", input |-> b])
  /\ UNCHANGED <<pc, tick_count, enabled, clock, btn, tmr, posted, burst, appVars, seen>>

\* Slip: one attempt too many.
BurstGoesTooFar == burst.started /\ burst.seq <= Attempts + 1

BurstGoesOn == burst.started /\ burst.seq <= Attempts

\* The burst's timer expires: one post, whatever its result, until the last one
\* stops the timer.
BurstPosts ==
  /\ BurstGoesOn
  /\ burst' = [burst EXCEPT !.seq = @ + 1,
                            ![IF PostResult = "OK" THEN "ok" ELSE "full"] = @ + 1]
  /\ Post([type |-> "burst", input |-> "beat"])
  /\ UNCHANGED <<pc, tick_count, enabled, clock, btn, uart, tmr, posted, appVars, seen>>

Elapses == /\ clock' = (clock + 1) % ClockWidth
           /\ UNCHANGED <<pc, tick_count, coreVars, enabled, btn, uart, tmr, posted, burst, appVars, history>>

-----------------------------------------------------------------------------
(* devkit_runtime_run *)

\* Slip: the loop's counter is incremented in a log call that is compiled out.
StartTickUncounted ==
  /\ Goes("loop", "tick")
  /\ UNCHANGED <<tick_count, coreVars, enabled, clock, btn, uart, tmr, posted, burst, appVars, history>>

\* The counter is incremented inside the log call.
StartTick ==
  /\ Goes("loop", "tick")
  /\ tick_count' = (tick_count + 1) % CounterWidth
  /\ UNCHANGED <<coreVars, enabled, clock, btn, uart, tmr, posted, burst, appVars, history>>

\* robotos_core_tick with its budget of one event.
TickEmpty ==
  /\ queue = <<>>
  /\ Goes("tick", "timer post")
  /\ UNCHANGED <<tick_count, coreVars, enabled, clock, btn, uart, tmr, posted, burst, appVars, history>>

TickTakes ==
  /\ Goes("tick", "handle")
  /\ Queue!Take
  /\ UNCHANGED <<tick_count, registered, accepted_count, unhandled_count, enabled, clock, btn,
                 uart, tmr, posted, burst, appVars, history>>

\* The registered handler runs: button and UART give the input to the
\* application, the timer's only checks its marker.
HandlePress ==
  /\ ev.type = "button"
  /\ Button!Handle
  /\ App!OnButton
  /\ seen' = Append(seen, ev.input)
  /\ UNCHANGED <<uart, burst>>

HandleByte ==
  /\ ev.type = "uart"
  /\ uart' = [uart EXCEPT !.handled = @ + 1]
  /\ App!OnUartByte(ev.input)
  /\ seen' = Append(seen, ev.input)
  /\ UNCHANGED <<btn, burst>>

HandleBeat == ev.type = "timer" /\ UNCHANGED <<btn, uart, burst, appVars, seen>>

HandleBurst == /\ ev.type = "burst"
               /\ burst' = [burst EXCEPT !.handled = @ + 1]
               /\ UNCHANGED <<btn, uart, appVars, seen>>

Handle ==
  /\ Goes("handle", "timer post")
  /\ IF ev.type \in registered
       THEN (HandlePress \/ HandleByte \/ HandleBeat \/ HandleBurst) /\ UNCHANGED unhandled_count
       ELSE /\ unhandled_count' = unhandled_count + 1
            /\ UNCHANGED <<btn, uart, burst, appVars, seen>>
  /\ ev' = NoItem
  /\ UNCHANGED <<tick_count, queue, dropped_count, core_ready, registered, accepted_count, enabled,
                 clock, tmr, posted, arrived>>

ShouldPost == tmr.init_done /\ tick_count % TickPeriod = 0

\* Slip: the summary waits for one event more than the queue holds.
ReportLate == burst' = [burst EXCEPT !.logged = @ \/ (Attempts > 0 /\ burst.handled > Capacity)]

\* The iteration ends.  The burst's summary is logged once, when all it expects
\* to be accepted (DEVKIT_PHASE6I_EXPECTED_OK, the capacity) has been handled.
Report == burst' = [burst EXCEPT !.logged = @ \/ (Attempts > 0 /\ burst.handled >= Capacity)]

TimerSkips ==
  /\ ~ShouldPost
  /\ Goes("timer post", "loop")
  /\ Report
  /\ UNCHANGED <<tick_count, coreVars, enabled, clock, btn, uart, tmr, posted, appVars, history>>

TimerPosts ==
  /\ ShouldPost
  /\ Goes("timer post", "timer count")
  /\ tmr' = [tmr EXCEPT !.attempted = (@ + 1) % CounterWidth]
  /\ posted' = PostResult
  /\ Post([type |-> "timer", input |-> "beat"])
  /\ UNCHANGED <<tick_count, enabled, clock, btn, uart, burst, appVars, seen>>

\* The result is counted after the post, when interrupts may have come between.
TimerCounts ==
  /\ Goes("timer count", "loop")
  /\ Report
  /\ tmr' = [tmr EXCEPT ![IF posted = "OK" THEN "ok" ELSE "dropped"] = (@ + 1) % CounterWidth]
  /\ posted' = "none"
  /\ UNCHANGED <<tick_count, coreVars, enabled, clock, btn, uart, appVars, history>>

-----------------------------------------------------------------------------
ThreadStep == \/ CoreInit \/ AppInit \/ StartBurst \/ LedInit \/ TimerInit
              \/ ButtonInit \/ UartInit
              \/ StartTick \/ TickEmpty \/ TickTakes \/ Handle
              \/ TimerSkips \/ TimerPosts \/ TimerCounts

Next == ThreadStep \/ PressFiltered \/ PressPosted \/ BurstPosts \/ Elapses \/ \E b \in Bytes : ByteArrives(b)

\* The main loop never ends and sleeps for a bounded time; drivers, producers
\* and the clock owe nothing.
Spec == Init /\ [][Next]_vars /\ WF_vars(ThreadStep)

-----------------------------------------------------------------------------
\* Every variable keeps its type, those of the parts included.
TypeOK ==
  /\ tick_count \in 0 .. CounterWidth - 1
  /\ queue \in Seq(Items) /\ Len(queue) <= Capacity
  /\ ev \in Items \cup {NoItem}
  /\ registered \subseteq Types /\ enabled \subseteq {"button", "uart"}
  /\ accepted_count \in 0 .. CounterWidth - 1
  /\ uart \in [rx : Nat, ok : Nat, full : Nat, handled : Nat]
  /\ tmr \in [attempted : 0 .. CounterWidth - 1, ok : 0 .. CounterWidth - 1,
              dropped : 0 .. CounterWidth - 1, init_done : BOOLEAN]
  /\ burst.seq \in 1 .. Attempts + 1 /\ burst.handled \in 0 .. Attempts
  /\ App!TypeOK

\* The events on their way to a handler, the one being handled first.
Waiting == (IF ev = NoItem THEN <<>> ELSE <<ev>>) \o queue

\* Where the events of these types are in a sequence of events, and how many of
\* them come up to place i.
Of(types, s) == {i \in 1 .. Len(s) : s[i].type \in types}
Rank(types, s, i) == Cardinality({j \in Of(types, s) : j <= i})

\* From the interrupt to the application: what the core accepted is what the
\* application has seen, is being given, and will see, in this order.  It needs
\* every input's handler to be registered before its first interrupt.
InputsArriveInOrder ==
  LET coming == Of(InputTypes, Waiting)
  IN /\ Len(arrived) = Len(seen) + Cardinality(coming)
     /\ \A i \in 1 .. Len(seen) : arrived[i] = seen[i]
     /\ \A i \in coming :
          arrived[Len(seen) + Rank(InputTypes, Waiting, i)] = Waiting[i].input

\* The producers' counters and the core's tell the same, modulo their width,
\* although the timer counts its post only after interrupts may have posted;
\* and each counter keeps its type.
CountersAgree ==
  /\ TypeOK
  /\ (btn.ok + uart.ok + tmr.ok + burst.ok + (IF posted = "OK" THEN 1 ELSE 0)) % CounterWidth = accepted_count
  /\ (btn.full + uart.full + tmr.dropped + burst.full + (IF posted = "FULL" THEN 1 ELSE 0)) % CounterWidth
        = dropped_count % CounterWidth
  /\ btn.ok + uart.ok = Len(arrived)
  /\ btn.handled + uart.handled = Len(seen)

\* One event per tick is enough: once inputs and burst pause, the backlog is
\* worked off although the timer producer goes on posting; with the order of
\* InputsArriveInOrder, every accepted input reaches the application.  Only a
\* program that stopped without its LED leaves a burst in the queue.
BacklogKeepsDraining == []<>(queue = <<>> \/ pc = "stopped")

\* A burst that had as many posts accepted as the queue holds is reported, though
\* the summary waits for the handler's count and each is dispatched by a tick.
BurstReported == (burst.ok >= Capacity) ~> (burst.logged \/ pc = "stopped")
=============================================================================
