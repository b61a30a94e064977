------------------------------ MODULE MCAdapter ------------------------------
(* Six benches of the legacy Zephyr adapter, one behaviour on one of them: a  *)
(* pool whose bitmap has two words, the second one only partly used; the log  *)
(* ring; the deadlines; the queue; the thread slots; the pins.                *)
EXTENDS RoPool

CONSTANTS RingCount, Messages, NoMessage, MaxDropped,
          Ids, Budget, MaxIds, MaxTime, MaxMisses,
          Tasks, Capacity,
          NumSlots, Creators, Null,
          NumPins, Callbacks

ASSUME AdapterAssumption == RingCount \in Nat \ {0} /\ NumSlots \in Nat /\ NumPins \in Nat

VARIABLES bench,
  ring, head, tail, dropped, logging, printing, expected, refused, raced,
  slots, start_us, miss_count, clock, ending, began, overruns, overtaken,
  msgs, count, calls, levels, outdated,
  in_use, entry, making, freeing, meant, runs, holders, overlapped,
  pin_in_use, isr_cb, isr_user, chain, doing, attached, last, replaced, dangling

Log      == INSTANCE RoLog
Deadline == INSTANCE RoDeadline
Queue    == INSTANCE RoQueue
Thread   == INSTANCE RoThread
Gpio     == INSTANCE RoGpio WITH in_use <- pin_in_use

logVars      == <<ring, head, tail, dropped, logging, printing, expected, refused, raced>>
deadlineVars == <<slots, start_us, miss_count, clock, ending, began, overruns, overtaken>>
queueVars    == <<msgs, count, calls, levels, outdated>>
threadVars   == <<in_use, entry, making, freeing, meant, runs, holders, overlapped>>
gpioVars     == <<pin_in_use, isr_cb, isr_user, chain, doing, attached, last, replaced, dangling>>
adapterVars  == <<vars, bench, logVars, deadlineVars, queueVars, threadVars, gpioVars>>

MCInit == /\ bench \in {"pool", "log", "deadline", "queue", "thread", "gpio"}
          /\ Init /\ Log!Init /\ Deadline!Init /\ Queue!Init /\ Thread!Init /\ Gpio!Init
          /\ bench # "pool" => mode = "MUTEX"

PoolStep     == /\ bench = "pool" /\ Next
                /\ UNCHANGED <<logVars, deadlineVars, queueVars, threadVars, gpioVars>>
LogStep      == /\ bench = "log" /\ Log!Next
                /\ UNCHANGED <<vars, deadlineVars, queueVars, threadVars, gpioVars>>
DeadlineStep == /\ bench = "deadline" /\ Deadline!Next
                /\ UNCHANGED <<vars, logVars, queueVars, threadVars, gpioVars>>
QueueStep    == /\ bench = "queue" /\ Queue!Next
                /\ UNCHANGED <<vars, logVars, deadlineVars, threadVars, gpioVars>>
ThreadStep   == /\ bench = "thread" /\ Thread!Next
                /\ UNCHANGED <<vars, logVars, deadlineVars, queueVars, gpioVars>>
GpioStep     == /\ bench = "gpio" /\ Gpio!Next
                /\ UNCHANGED <<vars, logVars, deadlineVars, queueVars, threadVars>>

MCSpec == /\ MCInit
          /\ [][/\ UNCHANGED bench
                /\ \/ PoolStep \/ LogStep \/ DeadlineStep
                   \/ QueueStep \/ ThreadStep \/ GpioStep]_adapterVars

\* What the adapter keeps about others is exact - log entries and drops, missed
\* deadlines, the cached level of a queue - but for the calls that preempt each
\* other where the properties say so.
RecordsExact == Log!LogExact /\ Deadline!MissesExact /\ Queue!CacheExact

\* Threads and callbacks find what their own creator stored in their slot, and
\* no slot is shared or cut off, with the same kind of exception.
SlotsKeepTheirOwners == Thread!SlotsOwned /\ Gpio!CallbacksReached
=============================================================================
