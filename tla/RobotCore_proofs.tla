-------------------------- MODULE RobotCore_proofs --------------------------
(***************************************************************************)
(* Proofs about RobotCore, for every queue capacity, budget, table size,   *)
(* set of event types and of handlers; and about producers that retry, for *)
(* any number of them.                                                     *)
(*                                                                         *)
(* The handler table is independent of everything else and comes first     *)
(* (TableInv); its type is then a fact in the proof of IInv.  Retrying     *)
(* producers drive the core through its own steps, so everything proved of *)
(* it holds of them; the throttle keeps room in the queue; their books     *)
(* agree with the core's; snapshots are coherent; and the core implements  *)
(* EventDelivery.                                                          *)
(***************************************************************************)
EXTENDS RetryProducer, Arithmetic_proofs, FiniteSetTheorems, SequenceTheorems

-----------------------------------------------------------------------------
(* The handler table *)

\* First picks an element of a non-empty set of slots.
LEMMA FirstInSet ==
  ASSUME NEW S \in SUBSET Slots, S # {}
  PROVE  First(S) \in S
<1>1. S \subseteq Nat
  BY CoreAssumption DEF Slots
<1>2. \E i \in S : \A j \in S : i <= j
  BY <1>1, LeastNumber
<1>3. QED
  BY <1>2 DEF First

InUse == {i \in Slots : table[i].in_use}

\* The slots form a finite set, so every set of slots has a cardinality.
LEMMA SlotsFinite ==
  ASSUME NEW S \in SUBSET Slots
  PROVE  IsFiniteSet(S) /\ Cardinality(S) \in 0 .. MaxHandlers
<1>1. IsFiniteSet(Slots) /\ Cardinality(Slots) = MaxHandlers
  BY FS_Interval, CoreAssumption DEF Slots
<1>2. IsFiniteSet(S) /\ Cardinality(S) <= MaxHandlers
  BY <1>1, FS_Subset
<1>3. QED
  BY <1>2, FS_CardinalityType, CoreAssumption

TableInv == TableTypeOK /\ HandlerTableConsistent

\* The table stays consistent under every step, whoever changes it.
LEMMA TableInvStep ==
  ASSUME TableInv, [Next]_vars
  PROVE  TableInv'
<1> USE DEF TableInv
<1>1. CASE UNCHANGED handlerTab
  BY <1>1 DEF handlerTab, TableTypeOK, HandlerTableConsistent
<1>2. CASE FirstInit
  <2>1. TableTypeOK'
    <3>1. \A i \in Slots :
            [table[i] EXCEPT !.handler = NoHandler, !.in_use = FALSE]
              \in [type : Types \cup {NONE}, handler : Handlers \cup {NoHandler},
                  in_use : BOOLEAN]
      BY DEF TableTypeOK
    <3>2. table' \in [Slots -> [type : Types \cup {NONE}, handler : Handlers \cup {NoHandler},
                                 in_use : BOOLEAN]]
      BY <1>2, <3>1, Zenon DEF FirstInit
    <3>3. handler_count' = 0
      BY <1>2 DEF FirstInit
    <3>4. 0 \in 0 .. MaxHandlers
      BY CoreAssumption
    <3>5. QED
      BY <3>2, <3>3, <3>4 DEF TableTypeOK
  <2>2. \A i \in Slots : ~table'[i].in_use /\ table'[i].handler = NoHandler
    BY <1>2 DEF FirstInit, TableTypeOK
  <2>3. {i \in Slots : table'[i].in_use} = {}
    BY <2>2
  <2>4. handler_count' = 0
    BY <1>2 DEF FirstInit
  <2>5. QED
    BY <2>1, <2>2, <2>3, <2>4, FS_EmptySet DEF HandlerTableConsistent
<1>3. ASSUME NEW t \in Types, NEW h \in Handlers, ReplaceHandler(t, h)
      PROVE  TableInv'
  <2> DEFINE k == First(Matching(t))
  <2>1. k \in Slots /\ table[k].in_use
    BY <1>3, FirstInSet DEF ReplaceHandler, Matching
  <2>2. /\ handler_count' = handler_count
        /\ table' = [table EXCEPT ![k].handler = h]
    BY <1>3 DEF ReplaceHandler
  <2>3. TableTypeOK'
    BY <2>1, <2>2 DEF TableTypeOK
  <2>4. \A i \in Slots : /\ table'[i].in_use = table[i].in_use
                         /\ table'[i].type = table[i].type
                         /\ table'[i].handler = IF i = k THEN h ELSE table[i].handler
    BY <2>1, <2>2 DEF TableTypeOK
  <2>5. {i \in Slots : table'[i].in_use} = {i \in Slots : table[i].in_use}
    BY <2>4
  <2>6. \A i, j \in Slots :
          (table'[i].in_use /\ table'[j].in_use /\ table'[i].type = table'[j].type) => i = j
    BY <2>4 DEF HandlerTableConsistent
  <2>7. \A i \in Slots : table'[i].in_use <=> table'[i].handler # NoHandler
    BY <2>1, <2>4, CoreAssumption DEF HandlerTableConsistent
  <2>8. handler_count' = Cardinality({i \in Slots : table'[i].in_use})
    BY <2>2, <2>5 DEF HandlerTableConsistent
  <2>9. QED
    BY <2>3, <2>6, <2>7, <2>8, Zenon DEF HandlerTableConsistent
<1>4. ASSUME NEW t \in Types, NEW h \in Handlers, AddHandler(t, h)
      PROVE  TableInv'
  <2> DEFINE k == First(Free)
  <2>1. k \in Slots /\ ~table[k].in_use
    BY <1>4, FirstInSet DEF AddHandler, Free
  <2>2. /\ handler_count' = handler_count + 1
        /\ handler_count < MaxHandlers
        /\ Matching(t) = {}
        /\ table' = [table EXCEPT ![k] = [type |-> t, handler |-> h, in_use |-> TRUE]]
    BY <1>4 DEF AddHandler
  <2>3. TableTypeOK'
    BY <2>1, <2>2, CoreAssumption DEF TableTypeOK
  <2>4. \A i \in Slots :
          table'[i] = IF i = k THEN [type |-> t, handler |-> h, in_use |-> TRUE] ELSE table[i]
    BY <2>1, <2>2 DEF TableTypeOK
  <2>5. {i \in Slots : table'[i].in_use} = {i \in Slots : table[i].in_use} \cup {k}
    BY <2>1, <2>4
  <2>6. Cardinality({i \in Slots : table'[i].in_use}) = handler_count + 1
    <3>1. IsFiniteSet(InUse) /\ k \notin InUse
      BY SlotsFinite, <2>1 DEF InUse
    <3>2. Cardinality(InUse \cup {k}) = Cardinality(InUse) + 1
      BY <3>1, FS_AddElement
    <3>3. QED
      BY <3>2, <2>5 DEF InUse, HandlerTableConsistent
  <2>7. \A i \in Slots : table[i].in_use => table[i].type # t
    BY <2>2 DEF Matching
  <2>8. \A i, j \in Slots :
          (table'[i].in_use /\ table'[j].in_use /\ table'[i].type = table'[j].type) => i = j
    BY <2>4, <2>7 DEF HandlerTableConsistent
  <2>9. \A i \in Slots : table'[i].in_use <=> table'[i].handler # NoHandler
    BY <2>4, CoreAssumption DEF HandlerTableConsistent
  <2>10. QED
    BY <2>2, <2>3, <2>6, <2>8, <2>9 DEF HandlerTableConsistent
<1>5. ASSUME NEW t \in Types, Unregister(t)
      PROVE  TableInv'
  <2> DEFINE k == First(Matching(t))
  <2>1. k \in Slots /\ table[k].in_use
    BY <1>5, FirstInSet DEF Unregister, Matching
  <2>2. /\ handler_count' = handler_count - 1
        /\ table' = [table EXCEPT ![k].in_use = FALSE, ![k].handler = NoHandler]
    BY <1>5 DEF Unregister
  <2>4. \A i \in Slots : /\ table'[i].in_use = IF i = k THEN FALSE ELSE table[i].in_use
                         /\ table'[i].type = table[i].type
                         /\ table'[i].handler = IF i = k THEN NoHandler ELSE table[i].handler
    BY <2>1, <2>2 DEF TableTypeOK
  <2>5. {i \in Slots : table'[i].in_use} = {i \in Slots : table[i].in_use} \ {k}
    BY <2>1, <2>4
  <2>6. Cardinality({i \in Slots : table'[i].in_use}) = handler_count - 1
    <3>1. IsFiniteSet(InUse) /\ k \in InUse
      BY SlotsFinite, <2>1 DEF InUse
    <3>2. Cardinality(InUse \ {k}) = Cardinality(InUse) - 1
      BY <3>1, FS_RemoveElement
    <3>3. QED
      BY <3>2, <2>5 DEF InUse, HandlerTableConsistent
  <2>7. handler_count' \in 0 .. MaxHandlers
    BY <2>2, <2>6, SlotsFinite
  <2>3. TableTypeOK'
    BY <2>1, <2>2, <2>7 DEF TableTypeOK
  <2>8. \A i, j \in Slots :
          (table'[i].in_use /\ table'[j].in_use /\ table'[i].type = table'[j].type) => i = j
    BY <2>4 DEF HandlerTableConsistent
  <2>9. \A i \in Slots : table'[i].in_use <=> table'[i].handler # NoHandler
    BY <2>4 DEF HandlerTableConsistent
  <2>10. QED
    BY <2>2, <2>3, <2>6, <2>8, <2>9, Zenon DEF HandlerTableConsistent
<1>6. UNCHANGED vars => UNCHANGED handlerTab
  BY DEF vars
<1>7. \/ FirstInit
      \/ TableStep
      \/ UNCHANGED handlerTab
  BY DEF Next, vars, handlerTab, coreOnly, InitAgain, CallTooEarly, Tick, DispatchEvents,
         StartCall, CallStep, InitQueue, InitDispatcher, PopEmpty, PopEvent, LookupFound,
         LookupMissing, Invoke, HandlerReturns, AccountOk, AccountError, Post, RejectPost,
         ThrottlePost, AcceptPost, DropPost
<1>8. QED
  BY <1>1, <1>2, <1>3, <1>4, <1>5, <1>7 DEF TableStep

\* The handler table and its count stay consistent: one slot per type, no
\* NULL handler in use, for every table size and every interleaving of
\* registrations with the rest of the core.
THEOREM HandlerTableSafe == Spec => [](TableTypeOK /\ HandlerTableConsistent)
<1>1. Init => TableInv
  <2> SUFFICES ASSUME Init PROVE TableInv
    OBVIOUS
  <2>1. \A i \in Slots : ~table[i].in_use /\ table[i].handler = NoHandler
    BY DEF Init
  <2>2. {i \in Slots : table[i].in_use} = {}
    BY <2>1
  <2>3. TableTypeOK
    BY CoreAssumption DEF Init, TableTypeOK, NONE, Slots
  <2>4. QED
    BY <2>1, <2>2, <2>3, FS_EmptySet DEF Init, TableInv, HandlerTableConsistent
<1>2. TableInv /\ [Next]_vars => TableInv'
  BY TableInvStep
<1>3. QED
  BY <1>1, <1>2, PTL DEF Spec, TableInv

-----------------------------------------------------------------------------
(* The inductive invariant *)

LEMMA InitIInv == Init => IInv
<1> SUFFICES ASSUME Init PROVE IInv
  OBVIOUS
<1> USE CoreAssumption DEF Init
<1>1. queue \in Seq(Events) /\ Len(queue) = 0
  BY EmptySeq
<1>2. TableTypeOK
  BY DEF TableTypeOK, NONE
<1>3. TypeOK
  <2>1. LifecycleTypeOK
    BY DEF LifecycleTypeOK
  <2>2. queue_open \in BOOLEAN
    BY Zenon
  <2>7. Len(queue) <= Capacity /\ dropped_count \in Nat
    BY <1>1
  <2>6. QueueTypeOK
    BY <1>1, <2>2, <2>7, Zenon DEF QueueTypeOK
  <2>3. CountersTypeOK
    BY DEF CountersTypeOK
  <2>4. ThreadTypeOK
    BY DEF ThreadTypeOK, Statuses
  <2>5. QED
    BY <1>2, <2>1, <2>6, <2>3, <2>4, Zenon DEF TypeOK
<1>4. CallInv /\ StartupInv /\ NeverCallsNull
  BY DEF CallInv, StartupInv, NeverCallsNull, Holding, Unrouted, Ready, Consumed
<1>5. EventConservation /\ InOrderExactlyOnce
  BY <1>1 DEF EventConservation, InOrderExactlyOnce, Holding, InFlight, Consumed
<1>6. PeakTracksDepth /\ UnhandledWithinDispatched
  BY <1>1 DEF PeakTracksDepth, UnhandledWithinDispatched, Unrouted, InDoubt
<1>7. QED
  BY <1>3, <1>4, <1>5, <1>6 DEF IInv

\* What the steps that leave the event path alone have in common.
Quiet ==
  /\ UNCHANGED <<core_state, queue, queue_open, dropped_count, unhandled_count,
                 accepted_count, peak_depth, dispatched_count, handler_error_count,
                 pc, call, left, taken, ev, fn, result, tick_count>>
  /\ init_count' \in 0 .. MaxInits
  /\ rejected_count' \in Nat /\ throttled_count' \in Nat
  /\ ret' \in Statuses

\* Repeated init, calls before init, changes of the handler table and refused
\* posts preserve the invariant.
LEMMA QuietSteps ==
  ASSUME IInv, TableTypeOK',
         \/ InitAgain \/ CallTooEarly \/ TableStep
         \/ (\E t \in Types : RejectPost(t) \/ ThrottlePost(t))
         \/ UNCHANGED vars
  PROVE  IInv'
<1> USE CoreAssumption
<1>1. Quiet
  <2> USE DEF IInv, TypeOK, LifecycleTypeOK, QueueTypeOK, CountersTypeOK, ThreadTypeOK,
              Quiet, tableOnly, lifecycle, postCounts, dispCounts, thread, locals, handlerTab
  <2>1. CASE InitAgain
    BY <2>1 DEF InitAgain, Statuses
  <2>2. CASE CallTooEarly
    BY <2>2 DEF CallTooEarly, Statuses
  <2>3. CASE TableStep
    <3>1. UNCHANGED tableOnly
      BY <2>3 DEF TableStep, ReplaceHandler, AddHandler, Unregister
    <3>2. QED
      BY <3>1
  <2>4. ASSUME NEW t \in Types, RejectPost(t)
        PROVE  Quiet
    BY <2>4 DEF RejectPost
  <2>5. ASSUME NEW t \in Types, ThrottlePost(t)
        PROVE  Quiet
    BY <2>5 DEF ThrottlePost
  <2>6. CASE UNCHANGED vars
    BY <2>6 DEF vars
  <2>7. QED
    BY <2>1, <2>2, <2>3, <2>4, <2>5, <2>6
<1>2. TypeOK'
  <2> USE DEF IInv, TypeOK, Quiet
  <2>1. LifecycleTypeOK' /\ QueueTypeOK'
    BY <1>1 DEF LifecycleTypeOK, QueueTypeOK
  <2>2. CountersTypeOK'
    BY <1>1 DEF CountersTypeOK
  <2>3. ThreadTypeOK'
    BY <1>1 DEF ThreadTypeOK
  <2>4. QED
    BY <2>1, <2>2, <2>3, Zenon
<1>3. (CallInv /\ StartupInv /\ EventConservation /\ InOrderExactlyOnce
       /\ PeakTracksDepth /\ UnhandledWithinDispatched /\ NeverCallsNull)'
  BY <1>1 DEF IInv, CallInv, StartupInv, EventConservation, InOrderExactlyOnce,
              PeakTracksDepth, UnhandledWithinDispatched, NeverCallsNull, Holding,
              InFlight, Consumed, Unrouted, InDoubt, Ready, Quiet
<1>4. QED
  BY <1>2, <1>3 DEF IInv

\* The three regions of robotos_core_init.
LEMMA InitSteps ==
  ASSUME IInv, TableTypeOK', FirstInit \/ InitQueue \/ InitDispatcher
  PROVE  IInv'
<1> USE CoreAssumption DEF IInv, TypeOK, lifecycle, postCounts, dispCounts, locals, handlerTab
<1>1. CASE FirstInit
  <2>0. /\ pc = "idle" /\ ~Ready /\ pc' = "init_queue" /\ core_state' = "READY"
        /\ tick_count' = 0 /\ init_count' = 1 /\ unhandled_count' = 0
        /\ UNCHANGED <<queue, queue_open, dropped_count, accepted_count, rejected_count,
                       throttled_count, peak_depth, dispatched_count, handler_error_count,
                       call, left, taken, fn, result, ev, ret>>
    BY <1>1 DEF FirstInit
  <2> USE <2>0
  <2>1. TypeOK'
    <3>1. LifecycleTypeOK'
      BY DEF LifecycleTypeOK
    <3>2. QueueTypeOK'
      BY DEF QueueTypeOK
    <3>3. CountersTypeOK' /\ ThreadTypeOK'
      BY DEF CountersTypeOK, ThreadTypeOK
    <3>4. QED
      BY <3>1, <3>2, <3>3, Zenon
  <2>2. (CallInv /\ StartupInv /\ NeverCallsNull)'
    BY DEF QueueTypeOK, CallInv, StartupInv, NeverCallsNull, Holding, Unrouted, Ready, Consumed
  <2>3. (EventConservation /\ InOrderExactlyOnce)'
    BY DEF EventConservation, InOrderExactlyOnce, Holding, InFlight, Consumed
  <2>4. (PeakTracksDepth /\ UnhandledWithinDispatched)'
    BY DEF CountersTypeOK, PeakTracksDepth, UnhandledWithinDispatched, Unrouted, InDoubt
  <2>5. QED
    BY <2>1, <2>2, <2>3, <2>4
<1>2. CASE InitQueue
  <2> USE <1>2 DEF InitQueue, Queue!Open
  <2>0. /\ ~queue_open /\ Len(queue) = 0 /\ dropped_count = 0
        /\ queue' \in Seq(Events) /\ Len(queue') = 0
    BY EmptySeq DEF StartupInv, ThreadTypeOK
  <2>1. TypeOK'
    <3>1. LifecycleTypeOK' /\ QueueTypeOK'
      BY <2>0 DEF LifecycleTypeOK, QueueTypeOK
    <3>2. CountersTypeOK' /\ ThreadTypeOK'
      BY DEF CountersTypeOK, ThreadTypeOK
    <3>3. QED
      BY <3>1, <3>2, Zenon
  <2>2. (CallInv /\ StartupInv /\ NeverCallsNull)'
    BY DEF CallInv, StartupInv, NeverCallsNull, Holding, Unrouted, Ready, Consumed
  <2>3. (EventConservation /\ InOrderExactlyOnce)'
    BY <2>0 DEF EventConservation, InOrderExactlyOnce, Holding, InFlight, Consumed
  <2>4. PeakTracksDepth'
    BY <2>0 DEF CountersTypeOK, PeakTracksDepth
  <2>5. UnhandledWithinDispatched'
    BY DEF UnhandledWithinDispatched, Unrouted, InDoubt
  <2>6. QED
    BY <2>1, <2>2, <2>3, <2>4, <2>5
<1>3. CASE InitDispatcher
  <2> USE <1>3 DEF InitDispatcher, Return
  <2>0. dispatched_count = 0 /\ handler_error_count = 0 /\ unhandled_count = 0
    BY DEF CountersTypeOK, StartupInv, Consumed
  <2>1. TypeOK'
    <3>1. LifecycleTypeOK' /\ QueueTypeOK'
      BY DEF LifecycleTypeOK, QueueTypeOK
    <3>2. CountersTypeOK' /\ ThreadTypeOK'
      BY DEF CountersTypeOK, ThreadTypeOK, Statuses
    <3>3. QED
      BY <3>1, <3>2, Zenon
  <2>2. (CallInv /\ StartupInv /\ NeverCallsNull)'
    BY <2>0 DEF CallInv, StartupInv, NeverCallsNull, Holding, Unrouted, Ready, Consumed
  <2>3. (EventConservation /\ InOrderExactlyOnce)'
    BY <2>0 DEF EventConservation, InOrderExactlyOnce, Holding, InFlight, Consumed
  <2>4. PeakTracksDepth'
    BY DEF PeakTracksDepth
  <2>5. UnhandledWithinDispatched'
    BY <2>0 DEF UnhandledWithinDispatched, Unrouted, InDoubt
  <2>6. QED
    BY <2>1, <2>2, <2>3, <2>4, <2>5
<1>4. QED
  BY <1>1, <1>2, <1>3

\* The pushes of the post calls, from whatever context.
LEMMA PushSteps ==
  ASSUME IInv, TableTypeOK', NEW t \in Types, AcceptPost(t) \/ DropPost(t)
  PROVE  IInv'
<1> USE CoreAssumption DEF IInv, TypeOK
<1>1. CASE AcceptPost(t)
  <2> DEFINE e == [type |-> t, seq |-> accepted_count + 1]
  <2>0. /\ queue_open /\ Ready /\ Len(queue) < Capacity /\ queue' = Append(queue, e)
        /\ accepted_count' = accepted_count + 1
        /\ peak_depth' = IF Len(queue') > peak_depth THEN Len(queue') ELSE peak_depth
        /\ UNCHANGED <<core_state, tick_count, init_count, queue_open, dropped_count,
                       unhandled_count, rejected_count, throttled_count, dispatched_count,
                       handler_error_count, pc, call, left, taken, fn, result, ev, ret>>
    BY <1>1 DEF AcceptPost, PushAllowed, Queue!Put, lifecycle, dispCounts, locals
  <2>1. e \in Events
    BY DEF CountersTypeOK, Events
  <2>2. /\ queue' \in Seq(Events) /\ Len(queue') = Len(queue) + 1
        /\ \A i \in 1 .. Len(queue) : queue'[i] = queue[i]
        /\ queue'[Len(queue) + 1] = e
    BY <2>0, <2>1, AppendProperties DEF QueueTypeOK
  <2>3. Len(queue) \in Nat
    BY LenProperties DEF QueueTypeOK
  <2> HIDE DEF e
  <2>4. TypeOK'
    <3>1. LifecycleTypeOK' /\ ThreadTypeOK'
      BY <2>0 DEF LifecycleTypeOK, ThreadTypeOK
    <3>2. QueueTypeOK'
      BY <2>0, <2>2, <2>3 DEF QueueTypeOK
    <3>3. CountersTypeOK'
      BY <2>0, <2>2, <2>3 DEF CountersTypeOK
    <3>4. QED
      BY <3>1, <3>2, <3>3, Zenon
  <2>5. (CallInv /\ StartupInv /\ NeverCallsNull)'
    BY <2>0 DEF CallInv, StartupInv, NeverCallsNull, Holding, Unrouted, Ready, Consumed
  <2>11. /\ Consumed \in Nat /\ Consumed' = Consumed
         /\ InFlight \in Nat /\ InFlight' = InFlight
    BY <2>0 DEF Consumed, InFlight, Holding, CountersTypeOK
  <2>6. EventConservation'
    BY <2>0, <2>2, <2>3, <2>11 DEF EventConservation
  <2>7. InOrderExactlyOnce'
    <3>1. (Holding => ev.seq = Consumed + 1)'
      BY <2>0 DEF InOrderExactlyOnce, Holding, Consumed
    <3>2. ASSUME NEW i \in 1 .. Len(queue')
          PROVE  queue'[i].seq = Consumed' + InFlight' + i
      <4>2. CASE i \in 1 .. Len(queue)
        BY <2>11, <4>2, <2>2 DEF InOrderExactlyOnce
      <4>3. CASE i = Len(queue) + 1
        <5>1. queue'[i].seq = accepted_count + 1
          BY <4>3, <2>2 DEF e
        <5>2. QED
          BY <2>11, <4>3, <5>1, <2>3 DEF EventConservation
      <4>4. QED
        BY <4>2, <4>3, <2>2, <2>3
    <3>3. QED
      BY <3>1, <3>2 DEF InOrderExactlyOnce
  <2>8. PeakTracksDepth'
    <3>1. Len(queue) <= accepted_count
      BY <2>3, <2>11 DEF EventConservation
    <3>2. /\ peak_depth \in Nat /\ accepted_count \in Nat /\ dropped_count' = dropped_count
          /\ dropped_count \in Nat
      BY <2>0 DEF CountersTypeOK, QueueTypeOK
    <3>3. QED
      BY <2>0, <2>2, <2>3, <3>1, <3>2 DEF PeakTracksDepth
  <2>9. UnhandledWithinDispatched'
    BY <2>0 DEF UnhandledWithinDispatched, Unrouted, InDoubt
  <2>10. QED
    BY <2>4, <2>5, <2>6, <2>7, <2>8, <2>9
<1>2. CASE DropPost(t)
  <2>0. /\ queue_open /\ Ready /\ Len(queue) = Capacity /\ dropped_count' = dropped_count + 1
        /\ UNCHANGED <<core_state, tick_count, init_count, queue, queue_open,
                       unhandled_count, accepted_count, rejected_count, throttled_count,
                       peak_depth, dispatched_count, handler_error_count,
                       pc, call, left, taken, fn, result, ev, ret>>
    BY <1>2 DEF DropPost, PushAllowed, Queue!Lose, lifecycle, dispCounts, postCounts, locals
  <2>1. TypeOK'
    <3>1. LifecycleTypeOK' /\ ThreadTypeOK'
      BY <2>0 DEF LifecycleTypeOK, ThreadTypeOK
    <3>2. QueueTypeOK' /\ CountersTypeOK'
      BY <2>0 DEF QueueTypeOK, CountersTypeOK
    <3>3. QED
      BY <3>1, <3>2, Zenon
  <2>2. (CallInv /\ StartupInv /\ NeverCallsNull /\ EventConservation /\ InOrderExactlyOnce)'
    BY <2>0 DEF CallInv, StartupInv, NeverCallsNull, EventConservation, InOrderExactlyOnce,
                Holding, InFlight, Unrouted, Ready, Consumed
  <2>3. (PeakTracksDepth /\ UnhandledWithinDispatched)'
    BY <2>0 DEF PeakTracksDepth, UnhandledWithinDispatched, Unrouted, InDoubt, QueueTypeOK, CountersTypeOK
  <2>4. QED
    BY <2>1, <2>2, <2>3
<1>3. QED
  BY <1>1, <1>2

\* The pop of an event and the start of a call.
LEMMA PopSteps ==
  ASSUME IInv, TableTypeOK',
         Tick \/ (\E n \in 1 .. MaxDrain : DispatchEvents(n)) \/ PopEvent
  PROVE  IInv'
<1> USE CoreAssumption DEF IInv, TypeOK
<1>1. ASSUME NEW c \in {"tick", "drain"}, NEW n \in Nat \ {0}, StartCall(c, n),
             tick_count' \in 0 .. TickWidth - 1
      PROVE  IInv'
  <2>0. /\ pc = "idle" /\ Ready /\ pc' = "pop" /\ call' = c /\ left' = n /\ taken' = 0
        /\ UNCHANGED <<core_state, init_count, queue, queue_open, dropped_count,
                       unhandled_count, accepted_count, rejected_count, throttled_count,
                       peak_depth, dispatched_count, handler_error_count, ev, fn, result, ret>>
    BY <1>1 DEF StartCall, coreOnly, dispCounts, postCounts
  <2>1. TypeOK'
    <3>1. LifecycleTypeOK' /\ QueueTypeOK' /\ CountersTypeOK'
      BY <2>0, <1>1 DEF LifecycleTypeOK, QueueTypeOK, CountersTypeOK
    <3>2. ThreadTypeOK'
      BY <2>0 DEF ThreadTypeOK
    <3>3. QED
      BY <3>1, <3>2, Zenon
  <2>2. fn = NoHandler /\ result = "OK"
    BY <2>0 DEF CallInv
  <2>3. (CallInv /\ StartupInv /\ NeverCallsNull)'
    BY <2>0, <2>2 DEF CallInv, StartupInv, NeverCallsNull, Holding, Unrouted, Ready, Consumed
  <2>4. (EventConservation /\ InOrderExactlyOnce)'
    BY <2>0 DEF EventConservation, InOrderExactlyOnce, Holding, InFlight, Consumed
  <2>5. (PeakTracksDepth /\ UnhandledWithinDispatched)'
    BY <2>0 DEF PeakTracksDepth, UnhandledWithinDispatched, Unrouted, InDoubt
  <2>6. QED
    BY <2>1, <2>3, <2>4, <2>5
<1>2. CASE Tick
  <2>1. (tick_count + 1) % TickWidth \in 0 .. TickWidth - 1
    BY DEF LifecycleTypeOK
  <2>2. QED
    BY <1>1, <1>2, <2>1 DEF Tick
<1>3. ASSUME NEW n \in 1 .. MaxDrain, DispatchEvents(n)
      PROVE  IInv'
  BY <1>1, <1>3 DEF DispatchEvents, LifecycleTypeOK
<1>4. CASE PopEvent
  <2>0. /\ pc = "pop" /\ queue # <<>> /\ queue_open /\ pc' = "lookup"
        /\ ev' = Head(queue) /\ queue' = Tail(queue)
        /\ UNCHANGED <<core_state, tick_count, init_count, queue_open, dropped_count,
                       unhandled_count, accepted_count, rejected_count, throttled_count,
                       peak_depth, dispatched_count, handler_error_count,
                       call, left, taken, fn, result, ret>>
    BY <1>4 DEF PopEvent, Queue!Take, coreOnly, dispCounts, postCounts, locals
  <2>1. /\ Len(queue) \in Nat /\ Len(queue) > 0
        /\ ev' = queue[1] /\ ev' \in Events
        /\ queue' \in Seq(Events) /\ Len(queue') = Len(queue) - 1
        /\ \A i \in 1 .. Len(queue') : queue'[i] = queue[i + 1]
    BY <2>0, HeadTailProperties, EmptySeq, LenProperties DEF QueueTypeOK
  <2>2. TypeOK'
    <3>1. LifecycleTypeOK' /\ CountersTypeOK'
      BY <2>0 DEF LifecycleTypeOK, CountersTypeOK
    <3>2. QueueTypeOK'
      BY <2>0, <2>1 DEF QueueTypeOK
    <3>3. ThreadTypeOK'
      BY <2>0, <2>1 DEF ThreadTypeOK
    <3>4. QED
      BY <3>1, <3>2, <3>3, Zenon
  <2>3. (CallInv /\ StartupInv /\ NeverCallsNull)'
    BY <2>0, <2>1 DEF CallInv, StartupInv, NeverCallsNull, Holding, Unrouted, Ready, Consumed
  <2>4. EventConservation'
    BY <2>0, <2>1 DEF EventConservation, Holding, InFlight, Consumed, CountersTypeOK
  <2>5. InOrderExactlyOnce'
    <3>1. Consumed \in Nat /\ Consumed' = Consumed /\ InFlight = 0 /\ InFlight' = 1
      BY <2>0 DEF Consumed, InFlight, Holding, CountersTypeOK
    <3>2. \A i \in 1 .. Len(queue) : queue[i].seq = Consumed + i
      BY <3>1 DEF InOrderExactlyOnce
    <3>3. ev'.seq = Consumed' + 1
      BY <2>1, <3>1, <3>2
    <3>4. ASSUME NEW i \in 1 .. Len(queue')
          PROVE  queue'[i].seq = Consumed' + InFlight' + i
      <4>1. i + 1 \in 1 .. Len(queue) /\ queue'[i] = queue[i + 1]
        BY <2>1
      <4>2. queue[i + 1].seq = Consumed + (i + 1)
        BY <3>2, <4>1
      <4>3. QED
        BY <3>1, <4>1, <4>2
    <3>5. QED
      BY <3>3, <3>4 DEF InOrderExactlyOnce
  <2>6. PeakTracksDepth'
    BY <2>0, <2>1 DEF PeakTracksDepth, CountersTypeOK
  <2>7. UnhandledWithinDispatched'
    BY <2>0 DEF UnhandledWithinDispatched, Unrouted, InDoubt
  <2>8. QED
    BY <2>2, <2>3, <2>4, <2>5, <2>6, <2>7
<1>5. QED
  BY <1>2, <1>3, <1>4

\* What every step between the pop and the count leaves alone.
PathFrame ==
  UNCHANGED <<core_state, tick_count, init_count, queue, queue_open, dropped_count,
              accepted_count, rejected_count, throttled_count, peak_depth,
              dispatched_count, handler_error_count, call, left, taken, ev, ret>>

\* Lookup, call and return of the handler.  The table invariant is what keeps
\* the copied pointer from being NULL.
LEMMA RouteSteps ==
  ASSUME IInv, TableInv, TableTypeOK',
         \/ LookupFound \/ LookupMissing \/ Invoke
         \/ (\E s \in HandlerResults : HandlerReturns(s))
  PROVE  IInv'
<1> USE CoreAssumption DEF IInv, TypeOK
<1> DEFINE Routed ==
      /\ PathFrame
      /\ pc \in {"lookup", "invoke", "handler"}
      /\ pc' \in {"invoke", "handler", "account"}
      /\ fn' \in Handlers \cup {NoHandler}
      /\ result' \in HandlerResults \cup {"OK"}
      /\ unhandled_count' \in Nat
      /\ pc' \in {"invoke", "handler"} => fn' # NoHandler
      /\ pc' # "account" \/ (pc' = "account" /\ fn' = NoHandler) => result' = "OK"
      /\ unhandled_count' <=
           unhandled_count + (IF pc' = "account" /\ fn' = NoHandler THEN 1 ELSE 0)
<1>1. Routed
  <2> USE DEF PathFrame, coreOnly, dispCounts, postCounts, locals, lifecycle, ThreadTypeOK,
              CountersTypeOK, CallInv
  <2>1. CASE LookupFound
    <3> DEFINE k == First(Matching(ev.type))
    <3>1. k \in Slots /\ table[k].in_use
      BY <2>1, FirstInSet DEF LookupFound, Matching
    <3>2. table[k].handler \in Handlers
      BY <3>1 DEF TableInv, TableTypeOK, HandlerTableConsistent
    <3>3. fn' = table[k].handler /\ pc = "lookup" /\ pc' = "invoke" /\ result' = result
          /\ unhandled_count' = unhandled_count
      BY <2>1 DEF LookupFound
    <3>4. PathFrame
      BY <2>1 DEF LookupFound
    <3> HIDE DEF k
    <3>5. QED
      BY <3>2, <3>3, <3>4
  <2>2. CASE LookupMissing
    <3>1. /\ pc = "lookup" /\ pc' = "account" /\ unhandled_count' = unhandled_count + 1
          /\ fn' = fn /\ result' = result /\ PathFrame
      BY <2>2 DEF LookupMissing
    <3>2. QED
      BY <3>1
  <2>3. CASE Invoke
    <3>1. /\ pc = "invoke" /\ pc' = "handler" /\ unhandled_count' = unhandled_count
          /\ fn' = fn /\ result' = result /\ PathFrame
      BY <2>3 DEF Invoke
    <3>2. QED
      BY <3>1 DEF NeverCallsNull, Unrouted
  <2>4. ASSUME NEW s \in HandlerResults, HandlerReturns(s)
        PROVE  Routed
    <3>1. /\ pc = "handler" /\ pc' = "account" /\ unhandled_count' = unhandled_count
          /\ fn' = fn /\ result' = s /\ PathFrame
      BY <2>4 DEF HandlerReturns
    <3>2. QED
      BY <3>1 DEF NeverCallsNull
  <2>5. QED
    BY <2>1, <2>2, <2>3, <2>4
<1> USE <1>1 DEF PathFrame
<1>2. TypeOK'
  <2>1. LifecycleTypeOK' /\ QueueTypeOK' /\ CountersTypeOK'
    BY DEF LifecycleTypeOK, QueueTypeOK, CountersTypeOK
  <2>2. ThreadTypeOK'
    BY DEF ThreadTypeOK
  <2>3. QED
    BY <2>1, <2>2, Zenon
<1>3. (CallInv /\ StartupInv /\ NeverCallsNull)'
  BY DEF CallInv, StartupInv, NeverCallsNull, Holding, Unrouted, Ready, Consumed
<1>4. (EventConservation /\ InOrderExactlyOnce)'
  BY DEF EventConservation, InOrderExactlyOnce, Holding, InFlight, Consumed
<1>5. PeakTracksDepth'
  BY DEF PeakTracksDepth
<1>6. UnhandledWithinDispatched'
  BY DEF UnhandledWithinDispatched, Unrouted, InDoubt, CountersTypeOK
<1>7. QED
  BY <1>2, <1>3, <1>4, <1>5, <1>6

\* The loop's last steps: nothing to pop, or the event is counted.
LEMMA AccountSteps ==
  ASSUME IInv, TableTypeOK', PopEmpty \/ AccountOk \/ AccountError
  PROVE  IInv'
<1> USE CoreAssumption DEF IInv, TypeOK
<1> DEFINE one == IF pc = "account" THEN 1 ELSE 0
<1>1. /\ UNCHANGED <<core_state, tick_count, init_count, queue, queue_open, dropped_count,
                     unhandled_count, accepted_count, rejected_count, throttled_count,
                     peak_depth>>
      /\ pc \in {"pop", "account"}
      /\ pc' \in {"idle", "pop"} /\ (pc' = "pop" => left' > 0)
      /\ call' \in {"none", "tick", "drain"} /\ left' \in Nat /\ taken' \in Nat
      /\ ev' \in Events \cup {NoEvent} /\ fn' = NoHandler /\ result' = "OK"
      /\ ret' \in Statuses
      /\ dispatched_count' \in Nat /\ handler_error_count' \in Nat
      /\ Consumed' = Consumed + one
      /\ \/ dispatched_count' = dispatched_count + 1
         \/ dispatched_count' = dispatched_count /\ ~Unrouted
  <2> USE DEF coreOnly, dispCounts, postCounts, lifecycle, ThreadTypeOK, CountersTypeOK,
              CallInv, Consumed, Unrouted
  <2>1. CASE PopEmpty
    <3>1. CallStatus(IF queue_open THEN "EMPTY" ELSE "INVALID_STATE") \in Statuses
      BY DEF CallStatus, Statuses
    <3> HIDE DEF CallStatus
    <3>2. QED
      BY <2>1, <3>1 DEF PopEmpty, Return
  <2>2. CASE AccountOk
    <3>1. CASE left = 1
      BY <2>2, <3>1 DEF AccountOk, Return, Statuses
    <3>2. CASE left # 1
      BY <2>2, <3>2 DEF AccountOk, locals
    <3>3. QED
      BY <3>1, <3>2
  <2>3. CASE AccountError
    <3>1. CallStatus(result) \in Statuses
      BY DEF CallStatus, Statuses
    <3> HIDE DEF CallStatus
    <3>2. QED
      BY <2>3, <3>1 DEF AccountError, Return
  <2>4. QED
    BY <2>1, <2>2, <2>3
<1>2. Consumed \in Nat /\ InFlight = one /\ InFlight' = 0
  BY <1>1 DEF Consumed, InFlight, Holding, CountersTypeOK
<1> HIDE DEF one
<1>3. TypeOK'
  <2>1. LifecycleTypeOK' /\ QueueTypeOK' /\ CountersTypeOK'
    BY <1>1 DEF LifecycleTypeOK, QueueTypeOK, CountersTypeOK
  <2>2. ThreadTypeOK'
    BY <1>1 DEF ThreadTypeOK
  <2>3. QED
    BY <2>1, <2>2, Zenon
<1>4. (CallInv /\ NeverCallsNull)'
  BY <1>1 DEF CallInv, NeverCallsNull, Holding, Unrouted
<1>5. StartupInv'
  <2>1. queue_open /\ Ready
    BY <1>1 DEF StartupInv
  <2>2. QED
    BY <1>1, <2>1 DEF StartupInv, Ready
<1>6. EventConservation' /\ InOrderExactlyOnce'
  <2>1. one \in Nat /\ Consumed' + InFlight' = Consumed + InFlight
    BY <1>1, <1>2 DEF one
  <2>2. EventConservation'
    BY <1>1, <1>2, <2>1 DEF EventConservation, QueueTypeOK
  <2>3. ~Holding'
    BY <1>1 DEF Holding
  <2>4. \A i \in 1 .. Len(queue) : queue[i].seq = Consumed' + InFlight' + i
    BY <2>1 DEF InOrderExactlyOnce
  <2>5. QED
    BY <1>1, <2>2, <2>3, <2>4 DEF InOrderExactlyOnce
<1>7. PeakTracksDepth'
  BY <1>1 DEF PeakTracksDepth
<1>8. UnhandledWithinDispatched'
  <2>1. unhandled_count \in Nat /\ dispatched_count \in Nat
    BY DEF CountersTypeOK
  <2>2. unhandled_count' = unhandled_count /\ InDoubt' = 0
    BY <1>1 DEF InDoubt, Unrouted
  <2>3. CASE dispatched_count' = dispatched_count + 1
    BY <2>1, <2>2, <2>3 DEF UnhandledWithinDispatched, InDoubt
  <2>4. CASE dispatched_count' = dispatched_count /\ ~Unrouted
    BY <2>1, <2>2, <2>4 DEF UnhandledWithinDispatched, InDoubt
  <2>5. QED
    BY <1>1, <2>3, <2>4
<1>9. QED
  BY <1>3, <1>4, <1>5, <1>6, <1>7, <1>8

\* Every step of every context preserves the invariant.
LEMMA IInvStep ==
  ASSUME IInv, TableInv, TableInv', [Next]_vars
  PROVE  IInv'
<1>1. TableTypeOK'
  BY DEF TableInv
<1>2. CASE \E t \in Types : Post(t)
  BY <1>1, <1>2, QuietSteps, PushSteps DEF Post
<1>3. CASE CallStep
  BY <1>1, <1>3, InitSteps, PopSteps, RouteSteps, AccountSteps DEF CallStep
<1>4. CASE \/ Tick \/ \E n \in 1 .. MaxDrain : DispatchEvents(n)
  BY <1>1, <1>4, PopSteps
<1>5. CASE FirstInit \/ InitAgain \/ CallTooEarly \/ TableStep \/ UNCHANGED vars
  BY <1>1, <1>5, InitSteps, QuietSteps
<1>6. QED
  BY <1>2, <1>3, <1>4, <1>5 DEF Next

\* The inductive invariant holds, and with it every safety property of the
\* event path below.
THEOREM Invariance == Spec => []IInv
<1>1. Init => IInv
  BY InitIInv
<1>2. IInv /\ TableInv /\ TableInv' /\ [Next]_vars => IInv'
  BY IInvStep
<1>3. Spec => []TableInv
  BY HandlerTableSafe DEF TableInv
<1>4. QED
  BY <1>1, <1>2, <1>3, PTL DEF Spec

\* Every variable keeps its type: the queue never exceeds its capacity.
THEOREM TypeCorrect == Spec => []TypeOK
<1>1. IInv => TypeOK
  BY DEF IInv
<1>2. QED
  BY <1>1, Invariance, PTL

\* No accepted event is lost or counted twice, whatever interrupts post
\* between the regions of a call.
THEOREM Conservation == Spec => []EventConservation
<1>1. IInv => EventConservation
  BY DEF IInv
<1>2. QED
  BY <1>1, Invariance, PTL

\* Events are delivered exactly once, in the order in which they were accepted.
THEOREM InOrder == Spec => []InOrderExactlyOnce
<1>1. IInv => InOrderExactlyOnce
  BY DEF IInv
<1>2. QED
  BY <1>1, Invariance, PTL

\* The dispatcher never calls a NULL handler, even when another context
\* unregisters between the lookup and the call.
THEOREM NoNullCall == Spec => []NeverCallsNull
<1>1. IInv => NeverCallsNull
  BY DEF IInv
<1>2. QED
  BY <1>1, Invariance, PTL

\* The table and the copied pointer are safe together.
THEOREM HandlerSafety == Spec => []HandlersSafe
<1>1. TableTypeOK /\ HandlerTableConsistent /\ NeverCallsNull => HandlersSafe
  BY DEF HandlersSafe
<1>2. QED
  BY <1>1, HandlerTableSafe, NoNullCall, PTL

\* The counters that diagnostics publish are related as documented.
THEOREM DiagnosticsConsistent == Spec => [](PeakTracksDepth /\ UnhandledWithinDispatched)
<1>1. IInv => PeakTracksDepth /\ UnhandledWithinDispatched
  BY DEF IInv
<1>2. QED
  BY <1>1, Invariance, PTL

-----------------------------------------------------------------------------
(* Two action properties of the core *)

\* No tick is counted before the core is READY.
TicksInv == tick_count \in 0 .. TickWidth - 1 /\ (~ Ready => tick_count = 0)

\* What CountersNeverDecrease says of a step.
Growing ==
  /\ tick_count' # tick_count => tick_count' = (tick_count + 1) % TickWidth
  /\ accepted_count' >= accepted_count
  /\ rejected_count' >= rejected_count
  /\ throttled_count' >= throttled_count
  /\ dropped_count' >= dropped_count
  /\ unhandled_count' >= unhandled_count
  /\ peak_depth' >= peak_depth
  /\ dispatched_count' >= dispatched_count
  /\ handler_error_count' >= handler_error_count

\* Only the first init sets counters back, to the values they still have.
LEMMA GrowingStep ==
  ASSUME IInv, TicksInv, Next
  PROVE  Growing /\ TicksInv'
<1>1. /\ accepted_count \in Nat /\ rejected_count \in Nat /\ throttled_count \in Nat
      /\ dropped_count \in Nat /\ unhandled_count \in Nat /\ peak_depth \in Nat
      /\ dispatched_count \in Nat /\ handler_error_count \in Nat /\ tick_count \in Nat
      /\ Len(queue) \in Nat
  BY DEF IInv, TypeOK, QueueTypeOK, CountersTypeOK, TicksInv
<1>2. CASE FirstInit
  <2>1. unhandled_count = 0 /\ tick_count = 0
    BY <1>2 DEF FirstInit, IInv, StartupInv, TicksInv
  <2>2. /\ unhandled_count' = 0 /\ tick_count' = 0 /\ Ready'
        /\ UNCHANGED <<dropped_count, postCounts, dispCounts>>
    BY <1>2 DEF FirstInit, Ready
  <2>3. QED
    BY <1>1, <2>1, <2>2, CoreAssumption DEF Growing, TicksInv, postCounts, dispCounts
<1>3. CASE InitQueue
  <2>1. dropped_count = 0 /\ dropped_count' = 0
    BY <1>3 DEF InitQueue, Queue!Open, IInv, StartupInv
  <2>2. UNCHANGED <<lifecycle, unhandled_count, postCounts, dispCounts>>
    BY <1>3 DEF InitQueue
  <2>3. QED
    BY <1>1, <2>1, <2>2 DEF Growing, TicksInv, Ready, lifecycle, postCounts, dispCounts
<1>4. CASE InitDispatcher
  <2>1. dispatched_count = 0 /\ handler_error_count = 0
    <3>1. dispatched_count + handler_error_count = 0
      BY <1>4 DEF InitDispatcher, IInv, StartupInv, Consumed
    <3>2. QED
      BY <1>1, <3>1
  <2>2. dispatched_count' = 0 /\ handler_error_count' = 0
    BY <1>4 DEF InitDispatcher
  <2>3. UNCHANGED <<lifecycle, unhandled_count, dropped_count, postCounts>>
    BY <1>4 DEF InitDispatcher
  <2>4. QED
    BY <1>1, <2>1, <2>2, <2>3 DEF Growing, TicksInv, Ready, lifecycle, postCounts
<1>5. CASE Tick
  <2>1. /\ tick_count' = (tick_count + 1) % TickWidth /\ Ready /\ core_state' = core_state
        /\ UNCHANGED <<unhandled_count, dropped_count, postCounts, dispCounts>>
    BY <1>5 DEF Tick, StartCall, coreOnly
  <2>2. (tick_count + 1) % TickWidth \in 0 .. TickWidth - 1
    BY <1>1, CoreAssumption
  <2>3. QED
    BY <1>1, <2>1, <2>2 DEF Growing, TicksInv, Ready, postCounts, dispCounts
<1>6. ASSUME NEW t \in Types, Post(t)
      PROVE  Growing /\ TicksInv'
  <2>1. UNCHANGED <<lifecycle, unhandled_count, dispCounts>>
    BY <1>6 DEF Post, RejectPost, ThrottlePost, AcceptPost, DropPost
  <2>2. CASE RejectPost(t) \/ ThrottlePost(t)
    BY <1>1, <2>1, <2>2 DEF RejectPost, ThrottlePost, Growing, TicksInv, Ready, lifecycle, dispCounts
  <2>3. CASE AcceptPost(t)
    <3>1. /\ accepted_count' = accepted_count + 1
          /\ UNCHANGED <<rejected_count, throttled_count, dropped_count>>
      BY <2>3 DEF AcceptPost, Queue!Put
    <3>2. peak_depth' >= peak_depth
      <4>1. queue' \in Seq(Events)
        <5> DEFINE e == [type |-> t, seq |-> accepted_count + 1]
        <5>1. e \in Events
          BY <1>1 DEF Events
        <5>2. queue' = Append(queue, e) /\ queue \in Seq(Events)
          BY <2>3 DEF AcceptPost, Queue!Put, IInv, TypeOK, QueueTypeOK
        <5> HIDE DEF e
        <5>3. QED
          BY <5>1, <5>2
      <4>2. Len(queue') \in Nat
        BY <4>1
      <4>3. QED
        BY <1>1, <2>3, <4>2 DEF AcceptPost
    <3>3. QED
      BY <1>1, <2>1, <3>1, <3>2 DEF Growing, TicksInv, Ready, lifecycle, dispCounts
  <2>4. CASE DropPost(t)
    <3>1. dropped_count' = dropped_count + 1 /\ UNCHANGED postCounts
      BY <2>4 DEF DropPost, Queue!Lose
    <3>2. QED
      BY <1>1, <2>1, <3>1 DEF Growing, TicksInv, Ready, lifecycle, dispCounts, postCounts
  <2>5. QED
    BY <1>6, <2>2, <2>3, <2>4 DEF Post
<1>7. CASE LookupMissing \/ AccountOk \/ AccountError
  <2>1. /\ UNCHANGED <<core_state, tick_count, postCounts, dropped_count>>
        /\ unhandled_count' \in {unhandled_count, unhandled_count + 1}
        /\ dispatched_count' \in {dispatched_count, dispatched_count + 1}
        /\ handler_error_count' \in {handler_error_count, handler_error_count + 1}
    BY <1>7 DEF LookupMissing, AccountOk, AccountError, lifecycle, dispCounts, coreOnly
  <2>2. QED
    BY <1>1, <2>1 DEF Growing, TicksInv, Ready, postCounts
<1>8. CASE InitAgain \/ CallTooEarly \/ TableStep \/ \E n \in 1 .. MaxDrain : DispatchEvents(n)
  <2>1. /\ UNCHANGED <<core_state, tick_count, postCounts, dropped_count>>
        /\ UNCHANGED <<unhandled_count, dispCounts>>
    BY <1>8 DEF InitAgain, CallTooEarly, TableStep, ReplaceHandler, AddHandler, Unregister, tableOnly,
                DispatchEvents, StartCall, coreOnly, lifecycle
  <2>2. QED
    BY <1>1, <2>1 DEF Growing, TicksInv, Ready, postCounts, dispCounts
<1>9. CASE PopEmpty \/ PopEvent \/ LookupFound \/ Invoke \/ \E s \in HandlerResults : HandlerReturns(s)
  <2>1. /\ UNCHANGED <<core_state, tick_count, postCounts, dropped_count>>
        /\ UNCHANGED <<unhandled_count, dispCounts>>
    BY <1>9 DEF PopEmpty, PopEvent, LookupFound, Invoke, HandlerReturns, coreOnly, Queue!Take
  <2>2. QED
    BY <1>1, <2>1 DEF Growing, TicksInv, Ready, postCounts, dispCounts
<1>10. QED
  BY <1>2, <1>3, <1>4, <1>5, <1>6, <1>7, <1>8, <1>9 DEF Next, CallStep

\* No diagnostic counter ever goes back, whatever inits, posts and calls come.
THEOREM CountersGrow == Spec => CountersNeverDecrease
<1>1. Init => TicksInv
  BY CoreAssumption DEF Init, TicksInv, Ready
<1>2. IInv /\ TicksInv /\ [Next]_vars => TicksInv' /\ [Growing]_vars
  <2>1. TicksInv /\ UNCHANGED vars => TicksInv'
    BY DEF vars, lifecycle, TicksInv, Ready
  <2>2. QED
    BY <2>1, GrowingStep
<1>3. QED
  BY <1>1, <1>2, Invariance, PTL DEF Spec, CountersNeverDecrease, Growing

\* Outside its calls the thread has none in progress.
IdleInv == pc \in {"idle", "init_queue", "init_dispatcher"} => call = "none"

\* What OkMeansDrained says of a step.
Drained == (call = "drain" /\ pc' = "idle" /\ ret' \in {"OK", "EMPTY"})
             => (pc = "account" /\ result = "OK" /\ left = 1) \/ queue = <<>>

\* A call ends at an empty queue, at its bound, or with a handler's failure,
\* whose status it returns unless that is ERR_EMPTY.
LEMMA DrainStep ==
  ASSUME IInv, IdleInv, Next, "EMPTY" \notin HandlerResults
  PROVE  IdleInv' /\ Drained
<1>1. result \in HandlerResults \cup {"OK"}
  BY DEF IInv, TypeOK, ThreadTypeOK
<1>2. CASE FirstInit \/ InitAgain \/ CallTooEarly \/ TableStep \/ \E t \in Types : Post(t)
  <2>1. call' = call /\ (pc' = pc \/ pc = "idle")
    BY <1>2 DEF FirstInit, InitAgain, CallTooEarly, TableStep, ReplaceHandler, AddHandler, Unregister,
                tableOnly, Post, RejectPost, ThrottlePost, AcceptPost, DropPost, thread, locals
  <2>2. QED
    BY <2>1 DEF IdleInv, Drained
<1>3. CASE Tick \/ \E n \in 1 .. MaxDrain : DispatchEvents(n)
  BY <1>3 DEF Tick, DispatchEvents, StartCall, IdleInv, Drained
<1>4. CASE InitQueue \/ InitDispatcher
  BY <1>4 DEF InitQueue, InitDispatcher, Return, locals, IdleInv, Drained
<1>5. CASE PopEmpty
  BY <1>5 DEF PopEmpty, Return, IdleInv, Drained
<1>6. CASE PopEvent \/ LookupFound \/ LookupMissing \/ Invoke
           \/ \E s \in HandlerResults : HandlerReturns(s)
  BY <1>6 DEF PopEvent, LookupFound, LookupMissing, Invoke, HandlerReturns, IdleInv, Drained
<1>7. CASE AccountOk
  BY <1>7 DEF AccountOk, Return, IdleInv, Drained
<1>8. CASE AccountError
  BY <1>1, <1>8 DEF AccountError, Return, CallStatus, IdleInv, Drained
<1>9. QED
  BY <1>2, <1>3, <1>4, <1>5, <1>6, <1>7, <1>8 DEF Next, CallStep

\* A drain that reports success has handled all it was asked for or found the
\* queue empty, unless a handler itself returns ERR_EMPTY.
THEOREM DrainIsHonest ==
  ASSUME "EMPTY" \notin HandlerResults
  PROVE  Spec => OkMeansDrained
<1>1. Init => IdleInv
  BY DEF Init, IdleInv
<1>2. IInv /\ IdleInv /\ [Next]_vars => IdleInv' /\ [Drained]_vars
  <2>1. IdleInv /\ UNCHANGED vars => IdleInv'
    BY DEF vars, thread, locals, IdleInv
  <2>2. QED
    BY <2>1, DrainStep
<1>3. QED
  BY <1>1, <1>2, Invariance, PTL DEF Spec, OkMeansDrained, Drained

-----------------------------------------------------------------------------
(* Retrying producers take the core's own steps. *)

\* Whatever a retrying producer does, the core takes one of its own steps or
\* none, so that every theorem about RobotCore!Spec applies.
THEOREM RetriesAreCoreSteps == RetrySpec => Spec
<1>1. RetryInit => Init
  BY DEF RetryInit
<1>2. [RetryNext]_retryVars => [Next]_vars
  <2> SUFFICES ASSUME [RetryNext]_retryVars PROVE [Next]_vars
    OBVIOUS
  <2>1. CASE CoreStep
    BY <2>1 DEF CoreStep, Next
  <2>2. CASE TickPasses
    BY <2>2 DEF TickPasses, Next
  <2>3. ASSUME NEW p \in Producers, NEW t \in Types, Request(p, t)
        PROVE  [Next]_vars
    BY <2>3 DEF Request, vars
  <2>4. ASSUME NEW p \in Producers, Attempt(p)
        PROVE  [Next]_vars
    <3>1. CASE TryTooEarly(p)
      BY <3>1 DEF TryTooEarly, vars
    <3>2. CASE TryRejected(p) \/ TryThrottled(p) \/ TryAccepted(p) \/ TryDropped(p)
      <4>1. want[p] \in Types /\ Post(want[p])
        BY <3>2 DEF TryRejected, TryThrottled, TryAccepted, TryDropped, Reaches, MayTry, Post
      <4>2. QED
        BY <4>1 DEF Next
    <3>3. QED
      BY <2>4, <3>1, <3>2 DEF Attempt
  <2>5. CASE UNCHANGED retryVars
    BY <2>5 DEF retryVars, vars
  <2>6. QED
    BY <2>1, <2>2, <2>3, <2>4, <2>5 DEF RetryNext
<1>3. QED
  BY <1>1, <1>2, PTL DEF RetrySpec, Spec

\* The core's inductive invariant, carried over to retrying producers.
THEOREM RetryInvariance == RetrySpec => []IInv
  BY RetriesAreCoreSteps, Invariance, PTL

-----------------------------------------------------------------------------
(* The throttle *)

\* The queue changes only when it is opened, popped, or posted to.
LEMMA QueueMoves ==
  ASSUME FirstInit \/ InitAgain \/ CallTooEarly \/ Tick \/ CallStep \/ TableStep
         \/ \E n \in 1 .. MaxDrain : DispatchEvents(n)
  PROVE  UNCHANGED <<queue, dropped_count>> \/ InitQueue \/ PopEvent
<1>1. CASE FirstInit \/ InitAgain \/ CallTooEarly
  BY <1>1 DEF FirstInit, InitAgain, CallTooEarly
<1>2. CASE Tick \/ \E n \in 1 .. MaxDrain : DispatchEvents(n)
  BY <1>2 DEF Tick, DispatchEvents, StartCall
<1>3. CASE CallStep
  BY <1>3 DEF CallStep, InitDispatcher, PopEmpty, LookupFound, LookupMissing, Invoke,
              HandlerReturns, AccountOk, AccountError
<1>4. CASE TableStep
  BY <1>4 DEF TableStep, ReplaceHandler, AddHandler, Unregister, tableOnly
<1>5. QED
  BY <1>1, <1>2, <1>3, <1>4

\* Opening and popping leave no more in the queue than there was, and count no drop.
LEMMA QueueShrinks ==
  ASSUME IInv, InitQueue \/ PopEvent
  PROVE  Len(queue') \in Nat /\ Len(queue') <= Len(queue) /\ dropped_count' \in {0, dropped_count}
<1>1. queue \in Seq(Events)
  BY DEF IInv, TypeOK, QueueTypeOK
<1>2. CASE InitQueue
  BY <1>1, <1>2 DEF InitQueue, Queue!Open
<1>3. CASE PopEvent
  BY <1>1, <1>3, HeadTailProperties DEF PopEvent, Queue!Take
<1>4. QED
  BY <1>2, <1>3

\* ThrottleKeepsRoom is inductive given the types: an event is added only
\* when the backlog is within the budget, and then the queue is never full.
THEOREM ThrottleRoom == RetrySpec => []ThrottleKeepsRoom
<1>1. RetryInit => ThrottleKeepsRoom
  BY CoreAssumption DEF RetryInit, Init, ThrottleKeepsRoom
<1>2. ASSUME IInv, ThrottleKeepsRoom, [RetryNext]_retryVars
      PROVE  ThrottleKeepsRoom'
  <2> USE CoreAssumption DEF ThrottleKeepsRoom
  <2>1. queue \in Seq(Events) /\ Len(queue) \in Nat /\ dropped_count \in Nat
    BY <1>2 DEF IInv, TypeOK, QueueTypeOK
  <2>2. UNCHANGED kind
    BY <1>2 DEF RetryNext, CoreStep, TickPasses, Request, Attempt, Follow, TryTooEarly,
                TryRejected, TryThrottled, TryAccepted, TryDropped, requests, retryVars
  <2>3. CASE UNCHANGED <<queue, dropped_count>>
    BY <1>2, <2>2, <2>3
  <2>4. CASE InitQueue \/ PopEvent
    BY <1>2, <2>1, <2>2, <2>4, QueueShrinks
  <2>5. ASSUME NEW p \in Producers, Attempt(p)
        PROVE  ThrottleKeepsRoom'
    <3>1. CASE TryTooEarly(p) \/ TryRejected(p) \/ TryThrottled(p)
      BY <3>1, <2>3 DEF TryTooEarly, TryRejected, TryThrottled, RejectPost, ThrottlePost, vars
    <3>2. CASE TryAccepted(p)
      <4>1. /\ Len(queue) < Capacity /\ UNCHANGED dropped_count
            /\ Len(queue') = Len(queue) + 1
            /\ kind[p] = "try_post" => ~OverBudget
        BY <2>1, <3>2 DEF TryAccepted, Reaches, AcceptPost, Queue!Put
      <4>2. QED
        BY <1>2, <2>1, <2>2, <4>1 DEF OverBudget
    <3>3. CASE TryDropped(p)
      <4>1. Len(queue) = Capacity /\ UNCHANGED queue
        BY <3>3 DEF TryDropped, DropPost, Queue!Lose
      <4>2. QED
        BY <1>2, <2>1, <2>2, <4>1
    <3>4. QED
      BY <2>5, <3>1, <3>2, <3>3 DEF Attempt
  <2>6. CASE CoreStep \/ TickPasses
    BY <2>3, <2>4, <2>6, QueueMoves DEF CoreStep, TickPasses
  <2>7. CASE \E p \in Producers, t \in Types : Request(p, t)
    BY <2>3, <2>7 DEF Request, vars
  <2>8. CASE UNCHANGED retryVars
    BY <2>3, <2>8 DEF retryVars, vars
  <2>9. QED
    BY <1>2, <2>5, <2>6, <2>7, <2>8 DEF RetryNext
<1>3. QED
  BY <1>1, <1>2, RetryInvariance, PTL DEF RetrySpec

-----------------------------------------------------------------------------
(* The books of retrying producers *)

\* The requests that Total counts.
Counted(f) == {r \in Producers \X (1 .. MaxRequests) : r[2] <= f[r[1]]}

\* They are finitely many, whatever is counted.
LEMMA CountedFinite ==
  ASSUME NEW f
  PROVE  IsFiniteSet(Counted(f)) /\ Cardinality(Counted(f)) \in Nat
<1>1. IsFiniteSet(1 .. MaxRequests) /\ IsFiniteSet(Producers)
  BY FS_Interval, ProducersAssumption
<1>2. IsFiniteSet(Producers \X (1 .. MaxRequests))
  BY <1>1, FS_Product
<1>3. IsFiniteSet(Counted(f))
  BY <1>2, FS_Subset DEF Counted
<1>4. QED
  BY <1>3, FS_CardinalityType

\* Counting one more request of one producer raises the total by one.
LEMMA TotalRises ==
  ASSUME NEW f \in [Producers -> Nat], NEW p \in Producers, f[p] < MaxRequests
  PROVE  Total([f EXCEPT ![p] = @ + 1]) = Total(f) + 1
<1> DEFINE g == [f EXCEPT ![p] = @ + 1]
           n == f[p] + 1
<1>1. n \in 1 .. MaxRequests /\ g[p] = n /\ \A q \in Producers : q # p => g[q] = f[q]
  BY ProducersAssumption
<1>2. \A r \in Producers \X (1 .. MaxRequests) : r[1] \in Producers /\ r[2] \in Nat
  OBVIOUS
<1>3. \A q \in Producers : f[q] \in Nat
  OBVIOUS
<1>4. ASSUME NEW r \in Producers \X (1 .. MaxRequests)
      PROVE  r[2] <= g[r[1]] <=> r[2] <= f[r[1]] \/ r = <<p, n>>
  <2>1. PICK q \in Producers, k \in 1 .. MaxRequests : r = <<q, k>>
    OBVIOUS
  <2>2. r[1] = q /\ r[2] = k /\ k \in Nat /\ f[q] \in Nat /\ f[p] \in Nat
    BY <2>1
  <2>3. r = <<p, n>> <=> q = p /\ k = n
    BY <2>1
  <2>4. CASE q = p
    BY <1>1, <2>2, <2>3, <2>4
  <2>5. CASE q # p
    BY <1>1, <2>2, <2>3, <2>5
  <2>6. QED
    BY <2>4, <2>5
<1>5. <<p, n>> \in Producers \X (1 .. MaxRequests)
  BY <1>1
<1>6. Counted(g) = Counted(f) \cup {<<p, n>>}
  <2> HIDE DEF g, n
  <2>1. QED
    BY <1>4, <1>5 DEF Counted
<1>7. <<p, n>> \notin Counted(f)
  BY <1>3 DEF Counted
<1>8. Cardinality(Counted(g)) = Cardinality(Counted(f)) + 1
  <2> HIDE DEF g, n
  <2>1. QED
    BY <1>6, <1>7, CountedFinite, FS_AddElement
<1>9. QED
  BY <1>8 DEF Total, Counted

\* A producer settles no more than it may, and less while it wants one more.
BooksOpen ==
  \A p \in Producers :
     /\ done[p] + given_up[p] <= MaxRequests
     /\ want[p] # NoEvent => done[p] + given_up[p] < MaxRequests

\* RequestsAccounted with what makes it inductive.
RequestsInv == RequestsAccounted /\ BooksOpen

\* A step of the thread posts nothing and keeps the core READY.
LEMMA ThreadPostsNothing ==
  ASSUME CoreStep \/ TickPasses
  PROVE  UNCHANGED <<accepted_count, rejected_count>> /\ (Ready => Ready')
<1>1. CASE FirstInit \/ InitAgain \/ CallTooEarly \/ TableStep
  BY <1>1 DEF FirstInit, InitAgain, CallTooEarly, TableStep, ReplaceHandler, AddHandler, Unregister,
              tableOnly, postCounts, lifecycle, Ready
<1>2. CASE Tick \/ \E n \in 1 .. MaxDrain : DispatchEvents(n)
  BY <1>2 DEF Tick, DispatchEvents, StartCall, coreOnly, postCounts, Ready
<1>3. CASE CallStep
  BY <1>3 DEF CallStep, InitQueue, InitDispatcher, PopEmpty, PopEvent, LookupFound, LookupMissing,
              Invoke, HandlerReturns, AccountOk, AccountError, coreOnly, lifecycle, postCounts, Ready
<1>4. QED
  BY <1>1, <1>2, <1>3 DEF CoreStep, TickPasses

\* An attempt that is refused for now leaves the books alone.
LEMMA RefusalKeepsBooks ==
  ASSUME RequestsInv, NEW p \in Producers, MayTry(p), NEW s \in {"INVALID_STATE", "FULL", "THROTTLED"},
         Follow(p, s),
         UNCHANGED <<accepted_count, rejected_count>>, Ready => Ready',
         s # "INVALID_STATE" => Ready' /\ accepted_count > 0
  PROVE  RequestsInv'
<1> USE ProducersAssumption DEF RequestsInv, RequestsAccounted, RequestsTypeOK, AdviceFollowed
<1>1. /\ UNCHANGED <<want, done, given_up, kind>>
      /\ answer' = [answer EXCEPT ![p] = s]
      /\ wait' = [wait EXCEPT ![p] = IF s = "INVALID_STATE" THEN 0 ELSE 1]
  BY DEF Follow, RetryDecision, Advice
<1>2. RequestsTypeOK'
  BY <1>1 DEF Statuses
<1>3. AdviceFollowed'
  BY <1>1 DEF MayTry, IsRetryable
<1>4. BooksOpen'
  BY <1>1 DEF BooksOpen
<1>5. (Total(done) = accepted_count /\ Total(given_up) = rejected_count)'
  BY <1>1 DEF Total
<1>6. QED
  BY <1>2, <1>3, <1>4, <1>5

\* An attempt that settles its request counts it once, in one of the books.
LEMMA SettlingCounts ==
  ASSUME RequestsInv, NEW p \in Producers, MayTry(p), Ready => Ready',
         accepted_count \in Nat, rejected_count \in Nat,
         \/ /\ Follow(p, "OK") /\ accepted_count' = accepted_count + 1
            /\ UNCHANGED rejected_count
         \/ /\ Follow(p, "INVALID_ARG") /\ rejected_count' = rejected_count + 1
            /\ UNCHANGED accepted_count /\ ~Admissible(want[p])
  PROVE  RequestsInv'
<1> USE ProducersAssumption DEF RequestsInv, RequestsAccounted, RequestsTypeOK, AdviceFollowed
<1>1. /\ done[p] \in Nat /\ given_up[p] \in Nat /\ done[p] + given_up[p] < MaxRequests
      /\ want[p] \in Types
  BY DEF MayTry, BooksOpen
<1>2. /\ want' = [want EXCEPT ![p] = NoEvent] /\ wait' = [wait EXCEPT ![p] = 0]
      /\ UNCHANGED kind
      /\ \/ /\ answer' = [answer EXCEPT ![p] = "OK"]
            /\ done' = [done EXCEPT ![p] = @ + 1] /\ given_up' = given_up
            /\ accepted_count' = accepted_count + 1 /\ rejected_count' = rejected_count
         \/ /\ answer' = [answer EXCEPT ![p] = "INVALID_ARG"]
            /\ given_up' = [given_up EXCEPT ![p] = @ + 1] /\ done' = done
            /\ rejected_count' = rejected_count + 1 /\ accepted_count' = accepted_count
            /\ ~Admissible(want[p])
  BY DEF Follow, RetryDecision, Advice
<1>3. RequestsTypeOK'
  BY <1>2 DEF Statuses
<1>4. AdviceFollowed'
  <2>1. \A q \in Producers : IsRetryable(answer'[q]) => want'[q] # NoEvent
    BY <1>2 DEF IsRetryable
  <2>2. \A q \in Producers : wait'[q] > 0 => /\ answer'[q] \in {"FULL", "THROTTLED"}
                                             /\ Ready' /\ accepted_count' > 0
    BY <1>2
  <2>3. \A q \in Producers : given_up'[q] > 0 => \E t \in Types : ~Admissible(t)
    BY <1>1, <1>2
  <2>4. QED
    BY <2>1, <2>2, <2>3
<1>5. BooksOpen'
  BY <1>1, <1>2 DEF BooksOpen
<1>6. (Total(done) = accepted_count /\ Total(given_up) = rejected_count)'
  <2>1. /\ done \in [Producers -> Nat] /\ given_up \in [Producers -> Nat]
        /\ done[p] < MaxRequests /\ given_up[p] < MaxRequests
    BY <1>1
  <2>2. Total([done EXCEPT ![p] = @ + 1]) = Total(done) + 1
    BY ONLY <2>1, TotalRises, p \in Producers
  <2>3. Total([given_up EXCEPT ![p] = @ + 1]) = Total(given_up) + 1
    BY ONLY <2>1, TotalRises, p \in Producers
  <2>4. Total(done)' = Total(done') /\ Total(given_up)' = Total(given_up')
    BY DEF Total
  <2>5. QED
    BY <1>2, <2>2, <2>3, <2>4
<1>7. QED
  BY <1>3, <1>4, <1>5, <1>6

\* Every step of the core, of the tick and of a producer keeps the books.
LEMMA RequestsInvStep ==
  ASSUME IInv, RequestsInv, [RetryNext]_retryVars
  PROVE  RequestsInv'
<1>1. /\ accepted_count \in Nat /\ rejected_count \in Nat /\ Len(queue) \in Nat
      /\ Capacity \in Nat \ {0} /\ Budget \in Nat \ {0}
      /\ Len(queue) > 0 => accepted_count > 0
  <2>1. /\ accepted_count \in Nat /\ rejected_count \in Nat /\ Len(queue) \in Nat
        /\ dispatched_count \in Nat /\ handler_error_count \in Nat
    BY DEF IInv, TypeOK, QueueTypeOK, CountersTypeOK
  <2>2. accepted_count = Len(queue) + InFlight + Consumed /\ Consumed \in Nat /\ InFlight \in Nat
    BY <2>1 DEF IInv, EventConservation, Consumed, InFlight
  <2>3. QED
    BY <2>1, <2>2, CoreAssumption
<1>2. ASSUME UNCHANGED <<kind, want, answer, done, given_up, accepted_count, rejected_count>>,
             Ready => Ready',
             wait' = wait \/ wait' = [p \in Producers |-> IF wait[p] > 0 THEN wait[p] - 1 ELSE 0]
      PROVE  RequestsInv'
  <2> USE <1>2 DEF RequestsInv, RequestsAccounted, RequestsTypeOK, AdviceFollowed
  <2>1. wait' \in [Producers -> 0 .. 1] /\ \A p \in Producers : wait'[p] > 0 => wait[p] > 0
    OBVIOUS
  <2>2. RequestsTypeOK' /\ AdviceFollowed'
    BY <2>1
  <2>3. BooksOpen' /\ (Total(done) = accepted_count /\ Total(given_up) = rejected_count)'
    BY DEF BooksOpen, Total
  <2>4. QED
    BY <2>2, <2>3
<1>3. CASE CoreStep \/ TickPasses
  <2>1. UNCHANGED <<accepted_count, rejected_count>> /\ (Ready => Ready')
    BY <1>3, ThreadPostsNothing
  <2>2. /\ UNCHANGED <<kind, want, answer, done, given_up>>
        /\ wait' = wait \/ wait' = [p \in Producers |-> IF wait[p] > 0 THEN wait[p] - 1 ELSE 0]
    BY <1>3 DEF CoreStep, TickPasses, requests
  <2>3. QED
    BY <1>2, <2>1, <2>2
<1>4. CASE UNCHANGED retryVars
  BY <1>2, <1>4 DEF retryVars, requests, vars, postCounts, lifecycle, Ready
<1>5. ASSUME NEW p \in Producers, NEW t \in Types, Request(p, t)
      PROVE  RequestsInv'
  <2> USE <1>5 DEF RequestsInv, RequestsAccounted, RequestsTypeOK, AdviceFollowed
  <2>1. /\ UNCHANGED <<kind, wait, answer, done, given_up, accepted_count, rejected_count, core_state>>
        /\ want' = [want EXCEPT ![p] = t] /\ done[p] + given_up[p] < MaxRequests
    BY DEF Request, vars, postCounts, lifecycle
  <2>2. RequestsTypeOK' /\ AdviceFollowed'
    BY <2>1, ProducersAssumption DEF Ready
  <2>3. BooksOpen' /\ (Total(done) = accepted_count /\ Total(given_up) = rejected_count)'
    BY <2>1 DEF BooksOpen, Total
  <2>4. QED
    BY <2>2, <2>3
<1>6. ASSUME NEW p \in Producers, Attempt(p)
      PROVE  RequestsInv'
  <2>1. MayTry(p)
    BY <1>6 DEF Attempt, TryTooEarly, TryRejected, TryThrottled, TryAccepted, TryDropped, Reaches
  <2>2. CASE TryTooEarly(p)
    <3>1. /\ Follow(p, "INVALID_STATE") /\ UNCHANGED <<accepted_count, rejected_count, core_state>>
      BY <2>2 DEF TryTooEarly, vars, postCounts, lifecycle
    <3>2. QED
      BY <2>1, <3>1, RefusalKeepsBooks DEF Ready
  <2>3. CASE TryRejected(p)
    <3>1. /\ Follow(p, "INVALID_ARG") /\ ~Admissible(want[p]) /\ UNCHANGED core_state
          /\ rejected_count' = rejected_count + 1 /\ UNCHANGED accepted_count
      BY <2>3 DEF TryRejected, RejectPost, lifecycle
    <3>2. QED
      BY <1>1, <2>1, <3>1, SettlingCounts DEF Ready
  <2>4. CASE TryThrottled(p)
    <3>1. /\ Follow(p, "THROTTLED") /\ UNCHANGED <<accepted_count, rejected_count, core_state>>
          /\ Ready /\ Len(queue) > Budget
      BY <2>4 DEF TryThrottled, ThrottlePost, OverBudget, lifecycle
    <3>2. Ready' /\ accepted_count > 0
      BY <1>1, <3>1 DEF Ready
    <3>3. QED
      BY <2>1, <3>1, <3>2, RefusalKeepsBooks
  <2>5. CASE TryAccepted(p)
    <3>1. /\ Follow(p, "OK") /\ UNCHANGED <<core_state, rejected_count>>
          /\ accepted_count' = accepted_count + 1
      BY <2>5 DEF TryAccepted, AcceptPost, lifecycle
    <3>2. QED
      BY <1>1, <2>1, <3>1, SettlingCounts DEF Ready
  <2>6. CASE TryDropped(p)
    <3>1. /\ Follow(p, "FULL") /\ UNCHANGED <<accepted_count, rejected_count, core_state>>
          /\ Ready /\ Len(queue) = Capacity
      BY <2>6 DEF TryDropped, DropPost, PushAllowed, Queue!Lose, lifecycle, postCounts
    <3>2. Ready' /\ accepted_count > 0
      BY <1>1, <3>1 DEF Ready
    <3>3. QED
      BY <2>1, <3>1, <3>2, RefusalKeepsBooks
  <2>7. QED
    BY <1>6, <2>2, <2>3, <2>4, <2>5, <2>6 DEF Attempt
<1>7. QED
  BY <1>3, <1>4, <1>5, <1>6 DEF RetryNext

\* For any number of producers and of requests, however often each is tried:
\* what the core has accepted and rejected is what the producers have settled.
THEOREM RequestBooks == RetrySpec => []RequestsAccounted
<1>1. RetryInit => RequestsInv
  <2> SUFFICES ASSUME RetryInit PROVE RequestsInv
    OBVIOUS
  <2>1. /\ kind \in [Producers -> PostKinds] /\ want = [p \in Producers |-> NoEvent]
        /\ wait = [p \in Producers |-> 0] /\ answer = [p \in Producers |-> "OK"]
        /\ done = [p \in Producers |-> 0] /\ given_up = [p \in Producers |-> 0]
        /\ accepted_count = 0 /\ rejected_count = 0
    BY DEF RetryInit, Init
  <2>2. RequestsTypeOK /\ AdviceFollowed /\ BooksOpen
    BY <2>1, ProducersAssumption
       DEF RequestsTypeOK, AdviceFollowed, BooksOpen, IsRetryable, Statuses
  <2>3. Total([p \in Producers |-> 0]) = 0
    <3>1. {r \in Producers \X (1 .. MaxRequests) : r[2] <= [p \in Producers |-> 0][r[1]]} = {}
      OBVIOUS
    <3>2. QED
      BY <3>1, FS_EmptySet DEF Total
  <2>4. QED
    BY <2>1, <2>2, <2>3 DEF RequestsInv, RequestsAccounted
<1>2. IInv /\ RequestsInv /\ [RetryNext]_retryVars => RequestsInv'
  BY RequestsInvStep
<1>3. RequestsInv => RequestsAccounted
  BY DEF RequestsInv
<1>4. QED
  BY <1>1, <1>2, <1>3, RetryInvariance, PTL DEF RetrySpec

-----------------------------------------------------------------------------
(* Snapshots *)

\* What SnapshotCoherent adds to the core's inductive invariant: before the
\* first init nothing is counted, and a throttle needs a backlog, which the
\* peak remembers.
SnapInv == /\ ~Ready => tick_count = 0 /\ init_count = 0
           /\ throttled_count > 0 => peak_depth > Budget

LEMMA SnapshotFollows ==
  ASSUME IInv, SnapInv
  PROVE  SnapshotCoherent
<1> DEFINE seen == Len(queue) + dispatched_count + handler_error_count
<1>1. /\ Len(queue) \in Nat /\ dropped_count \in Nat /\ accepted_count \in Nat
      /\ dispatched_count \in Nat /\ handler_error_count \in Nat /\ peak_depth \in Nat
      /\ unhandled_count \in Nat /\ Capacity \in Nat
  BY CoreAssumption DEF IInv, TypeOK, QueueTypeOK, CountersTypeOK
<1>2. InDoubt <= InFlight /\ InFlight \in {0, 1} /\ InDoubt \in {0, 1}
  BY DEF InDoubt, InFlight, Unrouted, Holding
<1>3. accepted_count = seen + InFlight
  BY <1>1, <1>2 DEF IInv, EventConservation, Consumed
<1>4. unhandled_count <= dispatched_count + (accepted_count - seen)
  BY <1>1, <1>2, <1>3 DEF IInv, UnhandledWithinDispatched
<1>5. ~Ready => accepted_count + tick_count + init_count = 0
  BY DEF IInv, StartupInv, SnapInv
<1>6. core_state = "UNINITIALIZED" => ~Ready
  BY DEF Ready
<1>7. accepted_count \in {seen, seen + 1}
  BY <1>1, <1>2, <1>3
<1>8. /\ Len(queue) <= peak_depth /\ peak_depth <= Capacity
      /\ dropped_count > 0 => peak_depth = Capacity
      /\ throttled_count > 0 => peak_depth > Budget
  BY DEF IInv, PeakTracksDepth, SnapInv
<1>9. QED
  BY <1>4, <1>5, <1>6, <1>7, <1>8
     DEF SnapshotCoherent, CoreSnapshot, LifeReadings, QueueReadings, TableReadings,
         AdmissionReadings, PressureReadings

LEMMA SnapInvStep ==
  ASSUME IInv, SnapInv, [Next]_vars
  PROVE  SnapInv'
<1> USE CoreAssumption DEF SnapInv
<1>1. /\ Len(queue) \in Nat /\ peak_depth \in Nat /\ throttled_count \in Nat
      /\ Len(queue) <= peak_depth /\ queue \in Seq(Events)
  BY DEF IInv, TypeOK, QueueTypeOK, CountersTypeOK, PeakTracksDepth
<1>2. CASE UNCHANGED <<lifecycle, postCounts>>
  BY <1>2 DEF lifecycle, postCounts, Ready
<1>3. CASE FirstInit \/ InitAgain \/ Tick
  BY <1>3 DEF FirstInit, InitAgain, Tick, StartCall, coreOnly, postCounts, Ready
<1>4. ASSUME NEW t \in Types, Post(t)
      PROVE  SnapInv'
  <2>1. CASE RejectPost(t)
    BY <2>1 DEF RejectPost, lifecycle, Ready
  <2>2. CASE ThrottlePost(t)
    BY <1>1, <2>2 DEF ThrottlePost, OverBudget, lifecycle, Ready
  <2>3. CASE AcceptPost(t)
    <3>1. peak_depth' >= peak_depth /\ peak_depth' \in Nat
      BY <1>1, <2>3 DEF AcceptPost, Queue!Put
    <3>2. QED
      BY <1>1, <2>3, <3>1 DEF AcceptPost, lifecycle, Ready
  <2>4. CASE DropPost(t)
    BY <1>2, <2>4 DEF DropPost
  <2>5. QED
    BY <1>4, <2>1, <2>2, <2>3, <2>4 DEF Post
<1>5. CASE CallStep
  BY <1>2, <1>5 DEF CallStep, InitQueue, InitDispatcher, PopEmpty, PopEvent, LookupFound,
                    LookupMissing, Invoke, HandlerReturns, AccountOk, AccountError,
                    coreOnly, lifecycle, postCounts
<1>6. CASE CallTooEarly \/ TableStep \/ \E n \in 1 .. MaxDrain : DispatchEvents(n)
  BY <1>2, <1>6 DEF CallTooEarly, TableStep, ReplaceHandler, AddHandler, Unregister, tableOnly,
                    DispatchEvents, StartCall, coreOnly, lifecycle, postCounts
<1>7. CASE UNCHANGED vars
  BY <1>2, <1>7 DEF vars
<1>8. QED
  BY <1>3, <1>4, <1>5, <1>6, <1>7 DEF Next

\* A snapshot read at any step of the core, by whomever, is coherent.
THEOREM Snapshots == Spec => []SnapshotCoherent
<1>1. Init => SnapInv
  BY CoreAssumption DEF Init, SnapInv, Ready
<1>2. IInv /\ SnapInv /\ [Next]_vars => SnapInv'
  BY SnapInvStep
<1>3. IInv /\ SnapInv => SnapshotCoherent
  BY SnapshotFollows
<1>4. QED
  BY <1>1, <1>2, <1>3, Invariance, PTL DEF Spec

-----------------------------------------------------------------------------
(* The core implements EventDelivery *)

\* The refinement mapping's sequence of event numbers.
Numbers(s) == [i \in 1 .. Len(s) |-> s[i].seq]
Current == IF Holding THEN ev.seq ELSE 0

\* Numbering the events commutes with adding and taking one.
LEMMA NumbersMove ==
  ASSUME NEW s \in Seq(Events)
  PROVE  /\ Numbers(s) \in Seq(Nat) /\ Len(Numbers(s)) = Len(s)
         /\ \A e \in Events : Numbers(Append(s, e)) = Append(Numbers(s), e.seq)
         /\ s # <<>> => /\ Head(Numbers(s)) = Head(s).seq
                        /\ Numbers(Tail(s)) = Tail(Numbers(s))
                        /\ Numbers(s) # <<>>
         /\ Numbers(<<>>) = <<>>
<1>1. \A e \in Events : e.seq \in Nat
  BY DEF Events
<1>2. Len(s) \in Nat /\ \A i \in 1 .. Len(s) : s[i] \in Events
  OBVIOUS
<1>3. Numbers(s) \in Seq(Nat) /\ Len(Numbers(s)) = Len(s)
  BY <1>1, <1>2 DEF Numbers
<1>4. ASSUME NEW e \in Events
      PROVE  Numbers(Append(s, e)) = Append(Numbers(s), e.seq)
  <2>1. Append(s, e) \in Seq(Events) /\ Len(Append(s, e)) = Len(s) + 1
    OBVIOUS
  <2>2. Numbers(Append(s, e)) \in Seq(Nat) /\ Len(Numbers(Append(s, e))) = Len(s) + 1
    BY <1>1, <2>1 DEF Numbers
  <2>3. /\ Append(Numbers(s), e.seq) \in Seq(Nat)
        /\ Len(Append(Numbers(s), e.seq)) = Len(s) + 1
    BY <1>1, <1>3
  <2>4. \A i \in 1 .. Len(s) + 1 : Numbers(Append(s, e))[i] = Append(Numbers(s), e.seq)[i]
    BY <1>2, <1>3, <2>1 DEF Numbers
  <2>5. QED
    BY <2>2, <2>3, <2>4, SeqEqual
<1>5. ASSUME s # <<>>
      PROVE  /\ Head(Numbers(s)) = Head(s).seq
             /\ Numbers(Tail(s)) = Tail(Numbers(s))
             /\ Numbers(s) # <<>>
  <2>1. /\ Tail(s) \in Seq(Events) /\ Len(Tail(s)) = Len(s) - 1 /\ Len(s) > 0
        /\ \A i \in 1 .. Len(s) - 1 : Tail(s)[i] = s[i + 1]
    BY <1>5, HeadTailProperties, EmptySeq
  <2>2. Numbers(s) # <<>> /\ Head(Numbers(s)) = Head(s).seq
    BY <1>2, <1>3, <2>1 DEF Numbers
  <2>3. Numbers(Tail(s)) \in Seq(Nat) /\ Len(Numbers(Tail(s))) = Len(s) - 1
    BY <1>1, <2>1 DEF Numbers
  <2>4. /\ Tail(Numbers(s)) \in Seq(Nat) /\ Len(Tail(Numbers(s))) = Len(s) - 1
        /\ \A i \in 1 .. Len(s) - 1 : Tail(Numbers(s))[i] = Numbers(s)[i + 1]
    BY <1>3, <2>2, HeadTailProperties
  <2>5. \A i \in 1 .. Len(s) - 1 : Numbers(Tail(s))[i] = Tail(Numbers(s))[i]
    BY <1>2, <2>1, <2>4 DEF Numbers
  <2>6. QED
    BY <2>2, <2>3, <2>4, <2>5, SeqEqual
<1>6. Numbers(<<>>) = <<>>
  BY DEF Numbers
<1>7. QED
  BY <1>3, <1>4, <1>5, <1>6

\* What the steps of the delivery mean for the core's variables.
LEMMA DeliveryStep ==
  ASSUME IInv, [Next]_vars
  PROVE  [Delivery!Next]_(Delivery!deliveryVars)
<1> USE CoreAssumption
<1> DEFINE moved == <<Numbers(queue), Current, Consumed, dropped_count>>
<1>1. /\ queue \in Seq(Events) /\ Len(queue) \in Nat /\ dropped_count \in Nat
      /\ dispatched_count \in Nat /\ handler_error_count \in Nat /\ accepted_count \in Nat
      /\ Consumed \in Nat /\ InFlight \in {0, 1}
      /\ Holding => ev \in Events /\ ev.seq = Consumed + 1
      /\ accepted_count = Len(queue) + InFlight + Consumed
  <2>1. /\ queue \in Seq(Events) /\ Len(queue) \in Nat /\ dropped_count \in Nat
        /\ dispatched_count \in Nat /\ handler_error_count \in Nat /\ accepted_count \in Nat
    BY DEF IInv, TypeOK, QueueTypeOK, CountersTypeOK
  <2>2. Consumed \in Nat /\ InFlight \in {0, 1}
    BY <2>1 DEF Consumed, InFlight
  <2>3. Holding => ev \in Events /\ ev.seq = Consumed + 1
    BY DEF IInv, CallInv, InOrderExactlyOnce
  <2>4. accepted_count = Len(queue) + InFlight + Consumed
    BY DEF IInv, EventConservation
  <2>5. QED
    BY <2>1, <2>2, <2>3, <2>4
<1>2. CASE UNCHANGED moved
  BY <1>2 DEF Delivery!deliveryVars, Numbers, Current
<1>3. ASSUME NEW t \in Types, AcceptPost(t)
      PROVE  Delivery!Next
  <2>1. /\ Len(queue) < Capacity /\ queue' = Append(queue, [type |-> t, seq |-> accepted_count + 1])
        /\ [type |-> t, seq |-> accepted_count + 1] \in Events
        /\ UNCHANGED <<Current, Consumed, dropped_count>>
    BY <1>1, <1>3 DEF AcceptPost, Queue!Put, dispCounts, Current, Consumed, Holding, Events
  <2>2. Delivery!Accepted = accepted_count
    <3>1. Len(Numbers(queue)) = Len(queue)
      BY <1>1, NumbersMove
    <3>2. (Current = 0) <=> ~Holding
      BY <1>1 DEF Current
    <3>3. QED
      BY <1>1, <3>1, <3>2 DEF Delivery!Accepted, InFlight, Numbers, Current
  <2>3. /\ Numbers(queue') = Append(Numbers(queue), accepted_count + 1)
        /\ Len(Numbers(queue)) < Capacity
    BY <1>1, <2>1, NumbersMove
  <2>4. Delivery!Accept
    BY <2>1, <2>2, <2>3 DEF Delivery!Accept, Numbers, Current
  <2>5. QED
    BY <2>4 DEF Delivery!Next
<1>4. ASSUME NEW t \in Types, DropPost(t)
      PROVE  Delivery!Next
  <2>1. /\ Len(Numbers(queue)) = Capacity
        /\ dropped_count' = dropped_count + 1
        /\ UNCHANGED <<Numbers(queue), Current, Consumed>>
    BY <1>1, <1>4, NumbersMove
       DEF DropPost, Queue!Lose, dispCounts, Current, Consumed, Holding, Numbers
  <2>2. QED
    BY <2>1 DEF Delivery!Next, Delivery!Refuse, Numbers, Current
<1>5. CASE PopEvent
  <2>1. /\ Current = 0 /\ queue # <<>> /\ queue' = Tail(queue) /\ Current' = Head(queue).seq
        /\ UNCHANGED <<Consumed, dropped_count>>
    BY <1>5 DEF PopEvent, Queue!Take, Current, Holding, Consumed, dispCounts
  <2>2. /\ Numbers(queue) # <<>> /\ Numbers(queue') = Tail(Numbers(queue))
        /\ Current' = Head(Numbers(queue))
    BY <1>1, <2>1, NumbersMove
  <2>3. QED
    BY <2>1, <2>2 DEF Delivery!Next, Delivery!Start, Numbers, Current
<1>6. CASE AccountOk \/ AccountError
  <2>1. /\ Current = Consumed + 1 /\ Consumed' = Consumed + 1 /\ Current' = 0
        /\ UNCHANGED <<queue, dropped_count>>
    BY <1>1, <1>6 DEF AccountOk, AccountError, Return, Current, Consumed, Holding
  <2>2. QED
    BY <2>1 DEF Delivery!Next, Delivery!Finish, Numbers, Current
<1>7. CASE FirstInit \/ InitAgain \/ CallTooEarly \/ UNCHANGED vars
  BY <1>2, <1>7 DEF FirstInit, InitAgain, CallTooEarly, vars, thread, dispCounts, locals,
                    Current, Holding, Consumed, Numbers
<1>8. CASE InitQueue \/ InitDispatcher
  <2>1. /\ pc = "init_queue" => queue = <<>> /\ dropped_count = 0
        /\ pc = "init_dispatcher" => Consumed = 0
    BY DEF IInv, StartupInv
  <2>2. QED
    BY <1>2, <1>8, <2>1 DEF InitQueue, InitDispatcher, Return, Queue!Open, Current, Holding,
                            Consumed, dispCounts, Numbers
<1>9. CASE Tick \/ TableStep \/ \E n \in 1 .. MaxDrain : DispatchEvents(n)
  BY <1>2, <1>9 DEF Tick, DispatchEvents, StartCall, TableStep, ReplaceHandler, AddHandler,
                    Unregister, tableOnly, coreOnly, thread, dispCounts, Current, Holding,
                    Consumed, Numbers
<1>10. CASE PopEmpty \/ LookupFound \/ LookupMissing \/ Invoke
            \/ \E s \in HandlerResults : HandlerReturns(s)
  BY <1>2, <1>10 DEF PopEmpty, Return, LookupFound, LookupMissing, Invoke, HandlerReturns,
                     coreOnly, dispCounts, locals, Current, Holding, Consumed, Numbers
<1>11. ASSUME NEW t \in Types, RejectPost(t) \/ ThrottlePost(t)
       PROVE  UNCHANGED moved
  BY <1>11 DEF RejectPost, ThrottlePost, thread, dispCounts, Current, Holding, Consumed, Numbers
<1>12. QED
  BY <1>2, <1>3, <1>4, <1>5, <1>6, <1>7, <1>8, <1>9, <1>10, <1>11 DEF Next, Post, CallStep

\* For every capacity and budget, and with retrying producers too, the core
\* delivers what was accepted, once each, in order, one at a time, and
\* refuses for lack of room only when the queue is full.
THEOREM CoreDelivers == Spec => ImplementsDelivery
<1>1. Init => Delivery!Init
  BY DEF Init, Delivery!Init, Holding, Consumed
<1>2. IInv /\ [Next]_vars => [Delivery!Next]_(Delivery!deliveryVars)
  BY DeliveryStep
<1>3. QED
  BY <1>1, <1>2, Invariance, PTL DEF Spec, ImplementsDelivery, Delivery!Spec
=============================================================================
