------------------------------ MODULE RobotCore ------------------------------
(***************************************************************************)
(* core/robotos_core.c: the event core.  Producers post events from        *)
(* interrupt context, one thread (the devkit main loop) initialises the    *)
(* core, ticks it or drains it, and registered handlers run in that        *)
(* thread.  Every region between robotos_platform_critical_enter and _exit *)
(* is one step; interrupts take their steps between those regions, so the  *)
(* thread's calls are split at each of them (variable pc).                 *)
(***************************************************************************)
EXTENDS Naturals, Sequences, FiniteSets

CONSTANTS
  Types,          \* the event types callers use (numbers, as in the enum)
  Handlers,       \* the handler functions callers register
  NoHandler,      \* a NULL handler pointer
  NoEvent,        \* an event variable nobody has written yet
  HandlerResults, \* what handlers may return
  PostKinds,      \* which entry points producers use: "post", "try_post"
  AsyncTable,     \* TRUE when another context may change the handler table
  Capacity,       \* ROBOTOS_EVENT_QUEUE_CAPACITY
  Budget,         \* ROBOTOS_CORE_MAX_EVENTS_PER_TICK
  MaxHandlers,    \* ROBOTOS_CORE_MAX_EVENT_HANDLERS
  MaxDrain,       \* largest max_events passed to robotos_core_dispatch_events
  TickWidth,      \* tick_count wraps here (2^32 in the code)
  MaxPosts,       \* bound on the posts that change a counter
  MaxInits        \* bound on core_init_count

NONE == 0
CORE_TICK == 1
USER == 100

Statuses == {"OK", "INVALID_STATE", "NULL", "FULL", "EMPTY", "INVALID_ARG",
             "THROTTLED"}

ASSUME CoreAssumption ==
  /\ Types \subseteq Nat
  /\ NoHandler \notin Handlers
  /\ NoEvent \notin [type : Types, seq : Nat \ {0}]
  /\ HandlerResults \subseteq Statuses
  /\ PostKinds \subseteq {"post", "try_post"}
  /\ AsyncTable \in BOOLEAN
  /\ Capacity \in Nat \ {0}
  /\ Budget \in Nat \ {0}
  /\ MaxHandlers \in Nat \ {0}
  /\ MaxDrain \in Nat
  /\ TickWidth \in Nat \ {0}
  /\ MaxPosts \in Nat
  /\ MaxInits \in Nat \ {0}

VARIABLES
  core_state, tick_count, init_count,
  queue, queue_open, dropped_count,      \* s_core_event_queue
  table, handler_count,                  \* s_handler_table, s_handler_count
  unhandled_count, accepted_count, rejected_count, throttled_count, peak_depth,
  dispatched_count, handler_error_count, \* s_core_dispatcher
  pc,      \* where the thread is: "idle" between calls, else its next region
  call,    \* the call in progress: "tick", "drain" or "none"
  left,    \* iterations the call's loop has left
  taken,   \* events the call has dispatched without an error
  ev,      \* the event popped in this iteration
  fn,      \* the handler copied from the table
  result,  \* what the handler (or the missing handler) returned
  ret      \* what the thread's last call returned

lifecycle  == <<core_state, tick_count, init_count>>
handlerTab == <<table, handler_count>>
postCounts == <<accepted_count, rejected_count, throttled_count, peak_depth>>
dispCounts == <<dispatched_count, handler_error_count>>
locals     == <<call, left, taken, fn, result>>
thread     == <<pc, locals, ev, ret>>
vars == <<lifecycle, queue, queue_open, dropped_count, handlerTab,
          unhandled_count, postCounts, dispCounts, thread>>

Slots  == 1 .. MaxHandlers
Events == [type : Types, seq : Nat \ {0}]

\* The core-owned queue, with the promise that EventQueue is shown to keep.
Queue == INSTANCE BoundedFifo
           WITH Items <- Events, fifo <- queue, lost <- dropped_count,
                open <- queue_open, out <- ev

\* Static storage before any call.
Init ==
  /\ core_state = "UNINITIALIZED" /\ tick_count = 0 /\ init_count = 0
  /\ queue = <<>> /\ queue_open = FALSE /\ dropped_count = 0
  /\ table = [i \in Slots |-> [type |-> NONE, handler |-> NoHandler, in_use |-> FALSE]]
  /\ handler_count = 0
  /\ unhandled_count = 0 /\ accepted_count = 0 /\ rejected_count = 0
  /\ throttled_count = 0 /\ peak_depth = 0
  /\ dispatched_count = 0 /\ handler_error_count = 0
  /\ pc = "idle" /\ call = "none" /\ left = 0 /\ taken = 0
  /\ ev = NoEvent /\ fn = NoHandler /\ result = "OK" /\ ret = "OK"

\* The thread's call ends; its locals go out of scope.
Return(status) == /\ pc' = "idle" /\ call' = "none" /\ left' = 0 /\ taken' = 0
                  /\ ev' = NoEvent /\ fn' = NoHandler /\ result' = "OK"
                  /\ ret' = status

Ready == core_state = "READY"

-----------------------------------------------------------------------------
(* robotos_core_init *)

\* First call: state, counters and handler table under the lock.
FirstInit ==
  /\ pc = "idle"
  /\ ~Ready
  /\ tick_count' = 0
  /\ init_count' = 1
  /\ core_state' = "READY"
  /\ table' = [i \in Slots |-> [table[i] EXCEPT !.handler = NoHandler, !.in_use = FALSE]]
  /\ handler_count' = 0
  /\ unhandled_count' = 0
  /\ pc' = "init_queue"
  /\ UNCHANGED <<queue, queue_open, dropped_count, postCounts, dispCounts, locals, ev, ret>>

\* The queue is initialised after the lock was released with the core READY.
InitQueue ==
  /\ pc = "init_queue"
  /\ Queue!Open
  /\ pc' = "init_dispatcher"
  /\ UNCHANGED <<lifecycle, handlerTab, unhandled_count, postCounts, dispCounts, locals, ret>>

InitDispatcher ==
  /\ pc = "init_dispatcher"
  /\ dispatched_count' = 0
  /\ handler_error_count' = 0
  /\ Return("OK")
  /\ UNCHANGED <<lifecycle, queue, queue_open, dropped_count, handlerTab,
                 unhandled_count, postCounts>>

\* Slip: a repeated init runs the whole first-call path.
InitAgainResets ==
  /\ pc = "idle"
  /\ Ready
  /\ init_count < MaxInits
  /\ init_count' = init_count + 1
  /\ pc' = "init_queue"
  /\ UNCHANGED <<core_state, tick_count, queue, queue_open, dropped_count, handlerTab,
                 unhandled_count, postCounts, dispCounts, locals, ev, ret>>

\* Later calls only count themselves.
InitAgain ==
  /\ pc = "idle"
  /\ Ready
  /\ init_count < MaxInits
  /\ init_count' = init_count + 1
  /\ ret' = "OK"
  /\ UNCHANGED <<core_state, tick_count, queue, queue_open, dropped_count, handlerTab,
                 unhandled_count, postCounts, dispCounts, pc, locals, ev>>

-----------------------------------------------------------------------------
(* robotos_core_post_event and robotos_core_try_post_event: any context *)

\* NONE and the reserved range are refused.
Admissible(t) == t = CORE_TICK \/ t >= USER

MorePosts == accepted_count + rejected_count + throttled_count + dropped_count < MaxPosts

RejectPost(t) ==
  /\ Ready
  /\ ~Admissible(t)
  /\ MorePosts
  /\ rejected_count' = rejected_count + 1
  /\ UNCHANGED <<lifecycle, queue, queue_open, dropped_count, handlerTab, unhandled_count,
                 accepted_count, throttled_count, peak_depth, dispCounts, thread>>

\* Slip: the budget is compared one event too late.
OverBudgetLate == Len(queue) < Capacity /\ Len(queue) > Budget + 1

\* Slip: a backlog of exactly one tick's budget is refused already.
OverBudgetEarly == Len(queue) < Capacity /\ Len(queue) >= Budget

\* try_post_event refuses when the backlog exceeds one tick's budget, except
\* that a full queue is left to the push, so that the drop is counted.
OverBudget == Len(queue) < Capacity /\ Len(queue) > Budget

ThrottlePost(t) ==
  /\ Ready
  /\ Admissible(t)
  /\ "try_post" \in PostKinds
  /\ OverBudget
  /\ MorePosts
  /\ throttled_count' = throttled_count + 1
  /\ UNCHANGED <<lifecycle, queue, queue_open, dropped_count, handlerTab, unhandled_count,
                 accepted_count, rejected_count, peak_depth, dispCounts, thread>>

\* The queue of a core that is READY but whose queue is not initialised yet
\* refuses the push (ERR_INVALID_STATE), which changes nothing.
PushAllowed(t) == /\ Ready
                  /\ Admissible(t)
                  /\ "post" \in PostKinds \/ ~OverBudget
                  /\ MorePosts

\* Slip: the peak is read before the push.
PeakBeforePush(t) ==
  /\ PushAllowed(t)
  /\ Queue!Put([type |-> t, seq |-> accepted_count + 1])
  /\ accepted_count' = accepted_count + 1
  /\ peak_depth' = IF Len(queue) > peak_depth THEN Len(queue) ELSE peak_depth
  /\ UNCHANGED <<lifecycle, handlerTab, unhandled_count, rejected_count, throttled_count,
                 dispCounts, pc, locals, ret>>

\* seq numbers the accepted events; it is not in the code and only lets the
\* properties tell two events of one type apart.
AcceptPost(t) ==
  /\ PushAllowed(t)
  /\ Queue!Put([type |-> t, seq |-> accepted_count + 1])
  /\ accepted_count' = accepted_count + 1
  /\ peak_depth' = IF Len(queue') > peak_depth THEN Len(queue') ELSE peak_depth
  /\ UNCHANGED <<lifecycle, handlerTab, unhandled_count, rejected_count, throttled_count,
                 dispCounts, pc, locals, ret>>

\* Slip: the acceptance is counted although the push failed.
DropCountsAccepted(t) ==
  /\ PushAllowed(t)
  /\ Queue!Lose
  /\ accepted_count' = accepted_count + 1
  /\ UNCHANGED <<lifecycle, handlerTab, unhandled_count, rejected_count, throttled_count,
                 peak_depth, dispCounts, pc, locals, ret>>

\* Slip: a full queue makes room by discarding its oldest event.
DropOldest(t) ==
  /\ PushAllowed(t)
  /\ Len(queue) = Capacity
  /\ queue' = Append(Tail(queue), [type |-> t, seq |-> accepted_count + 1])
  /\ dropped_count' = dropped_count + 1
  /\ accepted_count' = accepted_count + 1
  /\ UNCHANGED <<lifecycle, queue_open, handlerTab, unhandled_count, rejected_count,
                 throttled_count, peak_depth, dispCounts, thread>>

DropPost(t) ==
  /\ PushAllowed(t)
  /\ Queue!Lose
  /\ UNCHANGED <<lifecycle, handlerTab, unhandled_count, postCounts, dispCounts, pc, locals, ret>>

Post(t) == RejectPost(t) \/ ThrottlePost(t) \/ AcceptPost(t) \/ DropPost(t)

-----------------------------------------------------------------------------
(* The handler table.  Calls that are refused (core not READY, type NONE,   *)
(* table full, nothing registered) change nothing and are not steps.        *)

\* The header allows these calls from the core's own thread only: between
\* calls of the core, or inside a handler.
MayChangeTable == AsyncTable \/ pc \in {"idle", "handler"}

\* Slip: the search compares types only, although unregistering keeps them.
MatchingIgnoresUse(t) == {i \in Slots : table[i].type = t}

Matching(t) == {i \in Slots : table[i].in_use /\ table[i].type = t}
Free == {i \in Slots : ~table[i].in_use}
First(S) == CHOOSE i \in S : \A j \in S : i <= j

tableOnly == <<lifecycle, queue, queue_open, dropped_count, unhandled_count, postCounts,
               dispCounts, thread>>

ReplaceHandler(t, h) ==
  /\ MayChangeTable
  /\ Ready
  /\ t # NONE
  /\ Matching(t) # {}
  /\ table' = [table EXCEPT ![First(Matching(t))].handler = h]
  /\ UNCHANGED <<handler_count, tableOnly>>

\* Slip: a second registration of a type takes a new slot.
AddDuplicate(t, h) ==
  /\ MayChangeTable
  /\ Ready
  /\ t # NONE
  /\ handler_count < MaxHandlers
  /\ table' = [table EXCEPT ![First(Free)] = [type |-> t, handler |-> h, in_use |-> TRUE]]
  /\ handler_count' = handler_count + 1
  /\ UNCHANGED tableOnly

AddHandler(t, h) ==
  /\ MayChangeTable
  /\ Ready
  /\ t # NONE
  /\ Matching(t) = {}
  /\ handler_count < MaxHandlers
  /\ Free # {}
  /\ table' = [table EXCEPT ![First(Free)] = [type |-> t, handler |-> h, in_use |-> TRUE]]
  /\ handler_count' = handler_count + 1
  /\ UNCHANGED tableOnly

Unregister(t) ==
  /\ MayChangeTable
  /\ Ready
  /\ t # NONE
  /\ Matching(t) # {}
  /\ table' = [table EXCEPT ![First(Matching(t))].in_use  = FALSE,
                            ![First(Matching(t))].handler = NoHandler]
  /\ handler_count' = handler_count - 1
  /\ UNCHANGED tableOnly

-----------------------------------------------------------------------------
(* robotos_core_tick, robotos_core_dispatch_events, s_core_dispatch_one_safe *)

coreOnly == <<core_state, init_count, handlerTab, unhandled_count, postCounts>>

CallTooEarly ==
  /\ pc = "idle"
  /\ ~Ready
  /\ ret' = "INVALID_STATE"
  /\ UNCHANGED <<lifecycle, queue, queue_open, dropped_count, handlerTab, unhandled_count,
                 postCounts, dispCounts, pc, locals, ev>>

StartCall(c, n) ==
  /\ pc = "idle"
  /\ Ready
  /\ pc' = "pop" /\ call' = c /\ left' = n /\ taken' = 0
  /\ UNCHANGED <<coreOnly, queue, queue_open, dropped_count, dispCounts, ev, fn, result, ret>>

\* Slip: a tick with nothing to dispatch returns before it is counted.
TickOnlyBusy == /\ queue # <<>>
                /\ StartCall("tick", Budget)
                /\ tick_count' = (tick_count + 1) % TickWidth

Tick == /\ StartCall("tick", Budget)
        /\ tick_count' = (tick_count + 1) % TickWidth

\* dispatch_events(0) returns OK at once and is not a step.
DispatchEvents(n) == n > 0 /\ StartCall("drain", n) /\ UNCHANGED tick_count

\* Slip: any failure after some progress is reported as success.
CallStatusLenient(status) ==
  IF taken > 0 \/ (call = "tick" /\ status = "EMPTY") THEN "OK" ELSE status

\* What tick and dispatch_events make of a status other than OK: ERR_EMPTY
\* ends the loop quietly, whoever returned it.
CallStatus(status) ==
  IF status # "EMPTY" THEN status
  ELSE IF call = "tick" \/ taken > 0 THEN "OK" ELSE "EMPTY"

PopEmpty ==
  /\ pc = "pop"
  /\ queue = <<>>
  /\ Return(CallStatus(IF queue_open THEN "EMPTY" ELSE "INVALID_STATE"))
  /\ UNCHANGED <<coreOnly, tick_count, queue, queue_open, dropped_count, dispCounts>>

PopEvent ==
  /\ pc = "pop"
  /\ Queue!Take
  /\ pc' = "lookup"
  /\ UNCHANGED <<coreOnly, tick_count, dispCounts, locals, ret>>

LookupFound ==
  /\ pc = "lookup"
  /\ Matching(ev.type) # {}
  /\ fn' = table[First(Matching(ev.type))].handler
  /\ pc' = "invoke"
  /\ UNCHANGED <<coreOnly, tick_count, queue, queue_open, dropped_count, dispCounts,
                 call, left, taken, result, ev, ret>>

LookupMissing ==
  /\ pc = "lookup"
  /\ Matching(ev.type) = {}
  /\ unhandled_count' = unhandled_count + 1
  /\ pc' = "account"
  /\ UNCHANGED <<lifecycle, queue, queue_open, dropped_count, handlerTab, postCounts,
                 dispCounts, locals, ev, ret>>

\* The copied pointer is called, whatever the table holds by now.
Invoke ==
  /\ pc = "invoke"
  /\ pc' = "handler"
  /\ UNCHANGED <<coreOnly, tick_count, queue, queue_open, dropped_count, dispCounts,
                 locals, ev, ret>>

\* Slip: the handler waits for the next event, which only its own thread takes.
HandlerAwaitsNext(status) ==
  /\ pc = "handler"
  /\ queue # <<>>
  /\ result' = status
  /\ pc' = "account"
  /\ UNCHANGED <<coreOnly, tick_count, queue, queue_open, dropped_count, dispCounts,
                 call, left, taken, fn, ev, ret>>

HandlerReturns(status) ==
  /\ pc = "handler"
  /\ result' = status
  /\ pc' = "account"
  /\ UNCHANGED <<coreOnly, tick_count, queue, queue_open, dropped_count, dispCounts,
                 call, left, taken, fn, ev, ret>>

\* Counted without the lock; then the loop goes on or the call returns.
AccountOk ==
  /\ pc = "account"
  /\ result = "OK"
  /\ dispatched_count' = dispatched_count + 1
  /\ IF left = 1
       THEN Return("OK")
       ELSE /\ pc' = "pop" /\ left' = left - 1 /\ taken' = taken + 1
            /\ ev' = NoEvent /\ fn' = NoHandler
            /\ UNCHANGED <<call, result, ret>>
  /\ UNCHANGED <<coreOnly, tick_count, queue, queue_open, dropped_count, handler_error_count>>

\* Slip: a failed event is put back to be tried again.
AccountErrorRequeues ==
  /\ pc = "account"
  /\ result # "OK"
  /\ handler_error_count' = handler_error_count + 1
  /\ queue' = <<ev>> \o queue
  /\ Return(CallStatus(result))
  /\ UNCHANGED <<coreOnly, tick_count, queue_open, dropped_count, dispatched_count>>

AccountError ==
  /\ pc = "account"
  /\ result # "OK"
  /\ handler_error_count' = handler_error_count + 1
  /\ Return(CallStatus(result))
  /\ UNCHANGED <<coreOnly, tick_count, queue, queue_open, dropped_count, dispatched_count>>

-----------------------------------------------------------------------------
\* The steps a call of the core takes by itself once it is begun.
CallStep == \/ InitQueue \/ InitDispatcher
            \/ PopEmpty \/ PopEvent
            \/ LookupFound \/ LookupMissing
            \/ Invoke
            \/ \E s \in HandlerResults : HandlerReturns(s)
            \/ AccountOk \/ AccountError

TableStep == \E t \in Types : \/ \E h \in Handlers : ReplaceHandler(t, h) \/ AddHandler(t, h)
                              \/ Unregister(t)

Next == \/ FirstInit \/ InitAgain
        \/ CallTooEarly
        \/ Tick
        \/ \E n \in 1 .. MaxDrain : DispatchEvents(n)
        \/ CallStep
        \/ TableStep
        \/ \E t \in Types : Post(t)

Spec == Init /\ [][Next]_vars

\* devkit_runtime_init initialises the core and devkit_runtime_run ticks it
\* for ever; handlers are required to return.  Producers owe nothing.
Fairness == WF_vars(FirstInit) /\ WF_vars(Tick) /\ WF_vars(CallStep)

FairSpec == Spec /\ Fairness

-----------------------------------------------------------------------------
TableTypeOK ==
  /\ table \in [Slots -> [type : Types \cup {NONE}, handler : Handlers \cup {NoHandler},
                          in_use : BOOLEAN]]
  /\ handler_count \in 0 .. MaxHandlers

LifecycleTypeOK == /\ core_state \in {"UNINITIALIZED", "READY"}
                   /\ tick_count \in 0 .. TickWidth - 1
                   /\ init_count \in 0 .. MaxInits

QueueTypeOK == /\ queue \in Seq(Events)
               /\ Len(queue) <= Capacity
               /\ queue_open \in BOOLEAN
               /\ dropped_count \in Nat

CountersTypeOK ==
  /\ unhandled_count \in Nat /\ accepted_count \in Nat /\ rejected_count \in Nat
  /\ throttled_count \in Nat /\ peak_depth \in Nat
  /\ dispatched_count \in Nat /\ handler_error_count \in Nat

ThreadTypeOK ==
  /\ pc \in {"idle", "init_queue", "init_dispatcher", "pop", "lookup", "invoke",
             "handler", "account"}
  /\ call \in {"none", "tick", "drain"}
  /\ left \in Nat
  /\ taken \in Nat
  /\ ev \in Events \cup {NoEvent}
  /\ fn \in Handlers \cup {NoHandler}
  /\ result \in HandlerResults \cup {"OK"}
  /\ ret \in Statuses

\* Every variable keeps its type; in particular the queue never holds more
\* than its capacity, and the repeated init never runs past its bound.
TypeOK == LifecycleTypeOK /\ QueueTypeOK /\ TableTypeOK /\ CountersTypeOK /\ ThreadTypeOK

\* The thread holds an event that is in neither the queue nor a counter.
Holding == pc \in {"lookup", "invoke", "handler", "account"}
InFlight == IF Holding THEN 1 ELSE 0
Consumed == dispatched_count + handler_error_count

\* No event is lost or counted twice between the producers and the counters,
\* although three critical sections and an unlocked update separate the pop
\* from the count and interrupts post in between (also while init runs).
EventConservation == accepted_count = Len(queue) + InFlight + Consumed

\* Events are delivered in the order of acceptance, each once: the event in
\* the thread's hands is the one after those already counted, and the queue
\* holds exactly its successors.
InOrderExactlyOnce ==
  /\ Holding => ev.seq = Consumed + 1
  /\ \A i \in 1 .. Len(queue) : queue[i].seq = Consumed + InFlight + i

\* At most one slot serves a type, no slot in use has a NULL handler, and the
\* separate count agrees with the slots after any register/unregister sequence.
HandlerTableConsistent ==
  /\ \A i, j \in Slots :
       (table[i].in_use /\ table[j].in_use /\ table[i].type = table[j].type) => i = j
  /\ \A i \in Slots : table[i].in_use <=> table[i].handler # NoHandler
  /\ handler_count = Cardinality({i \in Slots : table[i].in_use})

\* A handler call never goes through a NULL pointer, even when the handler is
\* unregistered by another context between lookup and call (the stale copy
\* robotos_core.c:37-39 speaks of).
NeverCallsNull == pc \in {"invoke", "handler"} => fn # NoHandler

\* Both: whatever the other context registers and unregisters while an event is
\* being dispatched, the table stays sound and so does the pointer copied from it.
HandlersSafe == HandlerTableConsistent /\ NeverCallsNull

\* The peak covers the present depth, was reached by accepted events, and a
\* drop can only have happened with the queue at its capacity.
PeakTracksDepth == /\ Len(queue) <= peak_depth
                   /\ peak_depth <= Capacity
                   /\ peak_depth <= accepted_count
                   /\ dropped_count > 0 => peak_depth = Capacity

\* The event in the thread's hands had no handler and is not counted yet.
Unrouted == pc = "account" /\ fn = NoHandler
InDoubt == IF Unrouted THEN 1 ELSE 0

\* Unhandled events are among the dispatched ones.  A snapshot taken by an
\* interrupt between the lookup and the unlocked count may see one too many,
\* never more than one, and never because of an event whose handler failed.
UnhandledWithinDispatched == unhandled_count <= dispatched_count + InDoubt

\* What holds inside a call, and makes the invariants above inductive.
CallInv ==
  /\ pc \in {"pop", "lookup", "invoke", "handler", "account"} => left > 0
  /\ Holding => ev \in Events
  /\ pc \notin {"invoke", "handler", "account"} => fn = NoHandler
  /\ pc # "account" \/ Unrouted => result = "OK"

\* What holds while the core starts: before the queue is open nothing has
\* been accepted, and only the thread inside init can see it READY but closed.
StartupInv ==
  /\ ~Ready => pc = "idle" /\ ~queue_open
  /\ (Ready /\ ~queue_open) <=> pc = "init_queue"
  /\ ~queue_open => queue = <<>> /\ accepted_count = 0 /\ dropped_count = 0
  /\ ~queue_open \/ pc = "init_dispatcher" => Consumed = 0 /\ unhandled_count = 0

\* The inductive invariant of RobotCore_proofs.
IInv == /\ TypeOK /\ CallInv /\ StartupInv
        /\ EventConservation /\ InOrderExactlyOnce
        /\ PeakTracksDepth /\ UnhandledWithinDispatched /\ NeverCallsNull

\* No diagnostic counter ever goes back, in particular not when init is
\* called again (robotos_core.h:154, 324, 336).
CountersNeverDecrease ==
  [][/\ tick_count' # tick_count => tick_count' = (tick_count + 1) % TickWidth
     /\ accepted_count' >= accepted_count
     /\ rejected_count' >= rejected_count
     /\ throttled_count' >= throttled_count
     /\ dropped_count' >= dropped_count
     /\ unhandled_count' >= unhandled_count
     /\ peak_depth' >= peak_depth
     /\ dispatched_count' >= dispatched_count
     /\ handler_error_count' >= handler_error_count]_vars

\* A drain that reports success either handled all it was asked for or found
\* the queue empty at its last pop.
OkMeansDrained ==
  [][(call = "drain" /\ pc' = "idle" /\ ret' \in {"OK", "EMPTY"})
       => (pc = "account" /\ result = "OK" /\ left = 1) \/ queue = <<>>]_vars

\* robotos_core.h:163: handler errors propagate to the caller of tick.
HandlerErrorsPropagate ==
  [][(pc = "account" /\ pc' # "account" /\ result # "OK") => ret' = result]_vars

\* The core implements the delivery promised to producers.
Delivery == INSTANCE EventDelivery
  WITH waiting  <- [i \in 1 .. Len(queue) |-> queue[i].seq],
       current  <- IF Holding THEN ev.seq ELSE 0,
       finished <- Consumed,
       refused  <- dropped_count

ImplementsDelivery == Delivery!Spec
ImplementsFairDelivery == Delivery!FairSpec
=============================================================================
