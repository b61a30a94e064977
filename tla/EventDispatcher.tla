--------------------------- MODULE EventDispatcher ---------------------------
(***************************************************************************)
(* core/robotos_event_dispatcher.c: a dispatcher that drains the queue to  *)
(* one handler.  Everything runs on one thread, but the handler may push,  *)
(* clear or re-initialise the queue and may dispatch again, so a call is   *)
(* split at every handler invocation.  dispatch_one is dispatch_all with a *)
(* batch of one: the two return the same and count the same.               *)
(***************************************************************************)
EXTENDS EventQueue, FiniteSets

CONSTANTS
  MaxBatch,      \* the largest max_events passed to dispatch_all
  Depth,         \* bound on dispatches nested in handlers
  Results,       \* what handlers return
  CounterWidth   \* the counters wrap here (2^32)

ASSUME DispatcherAssumption == /\ MaxBatch \in Nat /\ Depth \in Nat
                               /\ CounterWidth \in Nat /\ CounterWidth > Depth

VARIABLES
  dispatcher,    \* the struct's fields that change
  frames,        \* the calls in progress, innermost first
  result,        \* what the last dispatcher call returned
  taken          \* history: events popped for the handler since init

dvars == <<dispatcher, frames, result, taken>>
dispatcherVars == <<vars, dvars>>

Frames == [max_events : 1 .. MaxBatch, dispatched : 0 .. MaxBatch, at : {"loop", "handler"}]

DInit == /\ Init
         /\ dispatcher = [initialized |-> FALSE, dispatched_count |-> 0, handler_error_count |-> 0]
         /\ frames = <<>> /\ result = "none" /\ taken = 0

At(place) == frames # <<>> /\ Head(frames).at = place

\* The program runs between the calls, and the handler inside one.
AppRuns == frames = <<>> \/ At("handler")

QueueUse == AppRuns /\ Next /\ UNCHANGED dvars

\* A handler that re-initialised its own dispatcher would lose its event's count;
\* none does, so this is a call of the program alone.
DispatcherInit ==
  /\ frames = <<>>
  /\ IF initialized
       THEN /\ dispatcher' = [initialized |-> TRUE, dispatched_count |-> 0, handler_error_count |-> 0]
            /\ result' = "OK" /\ taken' = 0
       ELSE result' = "INVALID_STATE" /\ UNCHANGED <<dispatcher, taken>>
  /\ UNCHANGED <<vars, frames>>

\* A call that returns at once: too early, or nothing asked for.
Refuse(max_events) ==
  /\ AppRuns
  /\ ~dispatcher.initialized \/ max_events = 0
  /\ result' = IF dispatcher.initialized THEN "OK" ELSE "INVALID_STATE"
  /\ UNCHANGED <<vars, dispatcher, frames, taken>>

DispatchAll(max_events) ==
  /\ AppRuns
  /\ Len(frames) < Depth
  /\ dispatcher.initialized /\ max_events # 0
  /\ frames' = <<[max_events |-> max_events, dispatched |-> 0, at |-> "loop"]>> \o frames
  /\ UNCHANGED <<vars, dispatcher, result, taken>>

Return(status) == result' = status /\ frames' = Tail(frames)

\* The loop has done its batch.
BatchDone ==
  /\ At("loop")
  /\ Head(frames).dispatched = Head(frames).max_events
  /\ Return("OK")
  /\ UNCHANGED <<vars, dispatcher, taken>>

Continues == At("loop") /\ Head(frames).dispatched < Head(frames).max_events

\* Slip: a drain that finds the queue empty always reports success.
RunsDryOk ==
  /\ Continues
  /\ Empty
  /\ Return("OK")
  /\ UNCHANGED <<dispatcher, taken>>

RunsDry ==
  /\ Continues
  /\ Empty
  /\ Return(IF Head(frames).dispatched > 0 THEN "OK" ELSE "EMPTY")
  /\ UNCHANGED <<dispatcher, taken>>

\* The event is consumed before the handler sees it.
CallHandler ==
  /\ Continues
  /\ Pop
  /\ frames' = [frames EXCEPT ![1].at = "handler"]
  /\ taken' = (taken + 1) % CounterWidth
  /\ UNCHANGED <<dispatcher, result>>

\* Slip: the batch is not counted, only the emptied queue ends it.
HandlerOkUnbounded ==
  /\ At("handler")
  /\ frames' = [frames EXCEPT ![1].at = "loop"]
  /\ dispatcher' = [dispatcher EXCEPT !.dispatched_count = (@ + 1) % CounterWidth]
  /\ UNCHANGED <<vars, result, taken>>

HandlerOk ==
  /\ At("handler")
  /\ frames' = [frames EXCEPT ![1].at = "loop", ![1].dispatched = @ + 1]
  /\ dispatcher' = [dispatcher EXCEPT !.dispatched_count = (@ + 1) % CounterWidth]
  /\ UNCHANGED <<vars, result, taken>>

\* Slip: a failed event is not counted.
HandlerFailsUncounted(status) ==
  /\ At("handler")
  /\ Return(status)
  /\ UNCHANGED <<vars, dispatcher, taken>>

\* The handler's failure ends the batch.
HandlerFails(status) ==
  /\ At("handler")
  /\ Return(status)
  /\ dispatcher' = [dispatcher EXCEPT !.handler_error_count = (@ + 1) % CounterWidth]
  /\ UNCHANGED <<vars, taken>>

LoopStep == BatchDone \/ RunsDry \/ CallHandler
HandlerReturns == HandlerOk \/ \E status \in Results \ {"OK"} : HandlerFails(status)

DNext == \/ QueueUse \/ DispatcherInit \/ LoopStep \/ HandlerReturns
         \/ \E max_events \in 0 .. MaxBatch : Refuse(max_events) \/ DispatchAll(max_events)

\* The dispatcher goes on, and a handler returns although it may use the queue
\* and dispatch in between.
DSpec == /\ DInit /\ [][DNext]_dispatcherVars
         /\ WF_dispatcherVars(LoopStep)
         /\ \A d \in 1 .. Depth : SF_dispatcherVars(Len(frames) = d /\ HandlerReturns)

-----------------------------------------------------------------------------
\* Every variable of the dispatcher keeps its type.
DTypeOK == /\ dispatcher \in [initialized : BOOLEAN, dispatched_count : 0 .. CounterWidth - 1,
                              handler_error_count : 0 .. CounterWidth - 1]
           /\ frames \in Seq(Frames) /\ Len(frames) <= Depth
           /\ result \in Results \cup {"none", "OK", "EMPTY", "INVALID_STATE"}
           /\ taken \in 0 .. CounterWidth - 1

\* The calls whose handler has an event and has not returned.
InHandler == {i \in 1 .. Len(frames) : frames[i].at = "handler"}

\* Every event taken from the queue is counted once, as dispatched or as failed,
\* when its handler returns, although handlers dispatch again in between and
\* use the ring buffer, whose head, tail and count stay one window.
EveryEventCounted ==
  /\ DTypeOK /\ RingConsistent
  /\ (dispatcher.dispatched_count + dispatcher.handler_error_count
        + Cardinality(InHandler)) % CounterWidth = taken

\* robotos_event_dispatcher.h: a batch that reports success either handled all
\* it was asked for or left the queue empty; one that reports ERR_EMPTY without
\* a handler saying so handled nothing.
ResultsHonest ==
  [][At("loop") /\ Len(frames') < Len(frames) =>
       /\ result' = "OK" => Head(frames).dispatched > 0
       /\ result' = "EMPTY" => Head(frames).dispatched = 0
       /\ Head(frames).dispatched < Head(frames).max_events => count' = 0]_dispatcherVars

\* Every call returns, although a handler may push an event for each it handles:
\* max_events bounds the batch (robotos_event_dispatcher.c:95).
CallsReturn == []<>(frames = <<>>)
=============================================================================
