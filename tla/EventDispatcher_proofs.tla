----------------------- MODULE EventDispatcher_proofs -----------------------
(***************************************************************************)
(* Proofs about the event queue and its dispatcher, for every capacity,    *)
(* batch size, nesting depth and counter width: the ring buffer is one     *)
(* window and implements BoundedFifo; every event a handler was given is   *)
(* counted once; what a dispatch reports is what it did.                   *)
(***************************************************************************)
EXTENDS EventDispatcher, Arithmetic_proofs, SequenceTheorems, FiniteSetTheorems

-----------------------------------------------------------------------------
(* The ring buffer *)

\* The slots from any index on, for one turn: they stay in the buffer, the
\* first is the index itself, no two coincide, and starting one later shifts them.
LEMMA SlotFacts ==
  ASSUME NEW h \in Slots
  PROVE  /\ h % Capacity = h
         /\ \A i \in Nat : (h + i) % Capacity \in Slots
         /\ \A i \in Nat : (((h + i) % Capacity) + 1) % Capacity = (h + (i + 1)) % Capacity
         /\ \A i \in Nat : (((h + 1) % Capacity) + i) % Capacity = (h + (i + 1)) % Capacity
         /\ \A i, j \in 0 .. Capacity - 1 : i # j => (h + i) % Capacity # (h + j) % Capacity
<1> USE QueueAssumption
<1>1. h \in Nat /\ h < Capacity
  BY DEF Slots
<1>2. h % Capacity = h
  BY <1>1
<1>3. ASSUME NEW i \in Nat
      PROVE  /\ (h + i) % Capacity \in Slots
             /\ (((h + i) % Capacity) + 1) % Capacity = (h + (i + 1)) % Capacity
             /\ (((h + 1) % Capacity) + i) % Capacity = (h + (i + 1)) % Capacity
  <2>1. (h + i) % Capacity \in Slots
    BY <1>1, Division DEF Slots
  <2>2. h + i \in Int /\ h + 1 \in Int /\ 1 \in Int /\ i \in Int /\ Capacity \in Nat \ {0}
    BY <1>1
  <2>3. /\ (((h + i) % Capacity) + 1) % Capacity = ((h + i) + 1) % Capacity
        /\ (((h + 1) % Capacity) + i) % Capacity = ((h + 1) + i) % Capacity
    BY ONLY <2>2, RemainderOfSum
  <2>4. (h + i) + 1 = h + (i + 1) /\ (h + 1) + i = h + (i + 1)
    BY <1>1
  <2>5. QED
    BY <2>1, <2>3, <2>4
<1>4. ASSUME NEW i \in 0 .. Capacity - 1, NEW j \in 0 .. Capacity - 1, i # j
      PROVE  (h + i) % Capacity # (h + j) % Capacity
  <2>1. h + i \in 0 .. 2 * Capacity - 1 /\ h + j \in 0 .. 2 * Capacity - 1
    BY <1>1
  <2>2. (h + i) % Capacity = IF h + i < Capacity THEN h + i ELSE (h + i) - Capacity
    BY ONLY <2>1, WrapsOnce, QueueAssumption
  <2>3. (h + j) % Capacity = IF h + j < Capacity THEN h + j ELSE (h + j) - Capacity
    BY ONLY <2>1, WrapsOnce, QueueAssumption
  <2>4. QED
    BY <1>1, <1>4, <2>2, <2>3
<1>5. QED
  BY <1>2, <1>3, <1>4

\* RingConsistent is inductive: every operation keeps tail count slots after head.
LEMMA RingStep ==
  ASSUME RingConsistent, [Next]_vars
  PROVE  RingConsistent'
<1> USE QueueAssumption
<1>1. /\ head \in Slots /\ tail \in Slots /\ count \in 0 .. Capacity /\ 0 \in Slots
      /\ tail = (head + count) % Capacity
  BY DEF RingConsistent, TypeOK, SlotOf, Slots
<1>2. CASE UNCHANGED vars
  BY <1>2 DEF RingConsistent, TypeOK, SlotOf, vars
<1>3. CASE QueueInit \/ Clear
  <2>1. head' = 0 /\ tail' = 0 /\ count' = 0 /\ (0 + 0) % Capacity = 0
    BY <1>1, <1>3, SlotFacts DEF QueueInit, Clear
  <2>2. tail' = SlotOf(count)'
    BY <2>1 DEF SlotOf
  <2>3. TypeOK'
    <3>1. CASE QueueInit
      BY <1>1, <2>1, <3>1 DEF QueueInit, RingConsistent, TypeOK, Statuses
    <3>2. CASE Clear
      BY <1>1, <2>1, <3>2 DEF Clear, RingConsistent, TypeOK, Statuses
    <3>3. QED
      BY <1>3, <3>1, <3>2
  <2>4. QED
    BY <2>2, <2>3 DEF RingConsistent
<1>4. CASE Uninitialized \/ Empty \/ PushFull
  BY <1>4 DEF Uninitialized, Empty, PushFull, RingConsistent, TypeOK, SlotOf, Statuses, ring
<1>5. ASSUME NEW e \in Events, PushStore(e)
      PROVE  RingConsistent'
  <2>1. count' \in 0 .. Capacity /\ count' = count + 1 /\ head' = head
    BY <1>1, <1>5 DEF PushStore
  <2>2. tail' = (head + (count + 1)) % Capacity /\ tail' \in Slots
    <3>1. count \in Nat /\ count + 1 \in Nat /\ tail' = (tail + 1) % Capacity
      BY <1>1, <1>5 DEF PushStore
    <3>2. QED
      BY <1>1, <3>1, SlotFacts
  <2>3. QED
    BY <1>5, <2>1, <2>2 DEF PushStore, RingConsistent, TypeOK, SlotOf, Statuses
<1>6. CASE Pop
  <2>1. count' \in 0 .. Capacity /\ count' = count - 1 /\ count' \in Nat
    BY <1>1, <1>6 DEF Pop
  <2>2. head' \in Slots /\ tail' = (head' + count') % Capacity
    <3>1. /\ head' = (head + 1) % Capacity /\ tail' = (head + (count' + 1)) % Capacity
      BY <1>1, <1>6, <2>1 DEF Pop
    <3>2. (head + 1) % Capacity \in Slots
      BY <1>1, SlotFacts
    <3>3. (((head + 1) % Capacity) + count') % Capacity = (head + (count' + 1)) % Capacity
      BY <1>1, <2>1, SlotFacts
    <3>4. QED
      BY <3>1, <3>2, <3>3
  <2>3. QED
    BY <1>1, <1>6, <2>1, <2>2 DEF Pop, RingConsistent, TypeOK, SlotOf, Statuses
<1>7. CASE Peek
  BY <1>1, <1>7 DEF Peek, RingConsistent, TypeOK, SlotOf, Statuses, ring
<1>8. QED
  BY <1>2, <1>3, <1>4, <1>5, <1>6, <1>7 DEF Next, Push

-----------------------------------------------------------------------------
(* The ring buffer is a bounded FIFO *)

\* The events in the ring, oldest first: what Fifo sees of it.
Window == [i \in 1 .. count |-> buffer[SlotOf(i - 1)]]

\* Every operation of the ring is an operation of the FIFO on its window, or
\* leaves the FIFO alone.
LEMMA FifoStep ==
  ASSUME RingConsistent, [Next]_vars
  PROVE  [Fifo!Next]_(Fifo!fifoVars)
<1> USE QueueAssumption
<1>1. /\ buffer \in [Slots -> Events \cup {Zero}] /\ head \in Slots /\ count \in 0 .. Capacity
      /\ tail = (head + count) % Capacity
  BY DEF RingConsistent, TypeOK, SlotOf
<1>2. /\ Window \in Seq(Events \cup {Zero}) /\ Len(Window) = count
      /\ \A i \in 1 .. count : Window[i] = buffer[(head + (i - 1)) % Capacity]
  BY <1>1, SlotFacts DEF Window, SlotOf
<1>3. CASE UNCHANGED <<ring, dropped_count, initialized, out>>
  BY <1>3 DEF ring, Fifo!fifoVars, SlotOf
<1>4. CASE QueueInit \/ Clear
  <2>1. Window' = <<>>
    BY <1>4 DEF Window, QueueInit, Clear
  <2>2. CASE QueueInit
    BY <2>1, <2>2 DEF QueueInit, Window, Fifo!Open, Fifo!Next
  <2>3. CASE Clear
    BY <2>1, <2>3 DEF Clear, Window, Fifo!Flush, Fifo!Next
  <2>4. QED
    BY <1>4, <2>2, <2>3
<1>5. CASE PushFull
  <2>1. count = Capacity /\ Window' = Window
    BY <1>1, <1>5 DEF PushFull, ring, Window, SlotOf
  <2>2. QED
    BY <1>2, <1>5, <2>1 DEF PushFull, Window, Fifo!Lose, Fifo!Next
<1>6. ASSUME NEW e \in Events, PushStore(e)
      PROVE  Fifo!Next
  <2>1. /\ count < Capacity /\ count' = count + 1 /\ head' = head
        /\ buffer' = [buffer EXCEPT ![tail] = e]
        /\ initialized /\ UNCHANGED <<dropped_count, initialized, out>>
    BY <1>6 DEF PushStore
  <2>2. tail \in Slots /\ \A i \in 0 .. count - 1 : (head + i) % Capacity # tail
    BY <1>1, <2>1, SlotFacts
  <2>3. ASSUME NEW i \in 1 .. count + 1
        PROVE  Window'[i] = Append(Window, e)[i]
    <3>1. Window'[i] = buffer'[(head + (i - 1)) % Capacity]
      BY <2>1 DEF Window, SlotOf
    <3>2. (head + (i - 1)) % Capacity \in Slots
      BY <1>1, SlotFacts
    <3>3. CASE i = count + 1
      <4>1. (head + (i - 1)) % Capacity = tail
        BY <1>1, <3>3
      <4>2. QED
        BY <1>1, <1>2, <2>1, <2>2, <3>1, <3>3, <4>1
    <3>4. CASE i # count + 1
      <4>1. i \in 1 .. count /\ i - 1 \in 0 .. count - 1
        BY <1>1, <3>4
      <4>2. Append(Window, e)[i] = buffer[(head + (i - 1)) % Capacity]
        BY <1>2, <4>1
      <4>3. (head + (i - 1)) % Capacity # tail
        BY <2>2, <4>1
      <4>4. QED
        BY <1>1, <2>1, <3>1, <3>2, <4>2, <4>3
    <3>5. QED
      BY <3>3, <3>4
  <2>4. Window' = Append(Window, e)
    <3>1. Append(Window, e) \in Seq(Events \cup {Zero}) /\ Len(Append(Window, e)) = count + 1
      BY <1>2, AppendProperties
    <3>2. Window' \in Seq(Events \cup {Zero}) /\ Len(Window') = count + 1
      <4>1. \A i \in 1 .. count + 1 : Window'[i] \in Events \cup {Zero}
        BY <2>3, <3>1
      <4>2. Window' = [i \in 1 .. count + 1 |-> Window'[i]] /\ count + 1 \in Nat
        BY <1>1, <2>1 DEF Window
      <4>3. QED
        BY <4>1, <4>2
    <3>3. QED
      BY <2>3, <3>1, <3>2, SeqEqual
  <2>5. Fifo!Put(e)
    BY <1>2, <2>1, <2>4 DEF Window, Fifo!Put
  <2>6. QED
    BY <2>5 DEF Fifo!Next
<1>7. ASSUME count # 0
      PROVE  /\ Window # <<>> /\ Head(Window) = buffer[head]
  <2>1. 1 \in 1 .. count /\ head \in Int
    BY <1>1, <1>7 DEF Slots
  <2>2. Window[1] = buffer[head]
    <3>1. (head + (1 - 1)) % Capacity = head
      BY <1>1, <2>1, SlotFacts
    <3>2. QED
      BY <1>2, <2>1, <3>1
  <2>3. QED
    BY <1>1, <1>2, <1>7, <2>1, <2>2
<1>8. CASE Pop
  <2>1. /\ initialized /\ count # 0 /\ out' = buffer[head] /\ head' = (head + 1) % Capacity
        /\ count' = count - 1 /\ UNCHANGED <<buffer, dropped_count, initialized>>
    BY <1>8 DEF Pop
  <2>2. /\ Tail(Window) \in Seq(Events \cup {Zero}) /\ Len(Tail(Window)) = count - 1
        /\ \A i \in 1 .. count - 1 : Tail(Window)[i] = Window[i + 1]
    BY <1>2, <1>7, <2>1, HeadTailProperties
  <2>3. ASSUME NEW i \in 1 .. count - 1
        PROVE  Window'[i] = Tail(Window)[i]
    <3>1. Window'[i] = buffer[(((head + 1) % Capacity) + (i - 1)) % Capacity]
      BY <2>1 DEF Window, SlotOf
    <3>2. i - 1 \in Nat /\ i + 1 \in 1 .. count /\ (i - 1) + 1 = (i + 1) - 1
      BY <1>1
    <3>3. (((head + 1) % Capacity) + (i - 1)) % Capacity = (head + ((i - 1) + 1)) % Capacity
      BY <1>1, <3>2, SlotFacts
    <3>4. Tail(Window)[i] = buffer[(head + ((i + 1) - 1)) % Capacity]
      BY <1>2, <2>2, <3>2
    <3>5. QED
      BY <3>1, <3>2, <3>3, <3>4
  <2>4. Window' = Tail(Window)
    <3>1. Window' \in Seq(Events \cup {Zero}) /\ Len(Window') = count - 1
      <4>1. \A i \in 1 .. count - 1 : Window'[i] \in Events \cup {Zero}
        BY <2>2, <2>3
      <4>2. Window' = [i \in 1 .. count - 1 |-> Window'[i]] /\ count - 1 \in Nat
        BY <1>1, <2>1 DEF Window
      <4>3. QED
        BY <4>1, <4>2
    <3>2. QED
      BY <2>2, <2>3, <3>1, SeqEqual
  <2>5. Fifo!Take
    BY <1>7, <2>1, <2>4 DEF Window, Fifo!Take
  <2>6. QED
    BY <2>5 DEF Fifo!Next
<1>9. CASE Peek
  <2>1. Window' = Window
    BY <1>9 DEF Peek, ring, Window, SlotOf
  <2>2. Fifo!Look
    BY <1>7, <1>9, <2>1 DEF Peek, Window, Fifo!Look
  <2>3. QED
    BY <2>2 DEF Fifo!Next
<1>10. QED
  BY <1>3, <1>4, <1>5, <1>6, <1>8, <1>9 DEF Next, Push, Uninitialized, Empty, vars, ring

-----------------------------------------------------------------------------
(* The dispatcher *)

\* Each frame is inside its batch; only the innermost call can be in its loop,
\* every call around it waits for its handler.
InBatch(f) == /\ f.dispatched <= f.max_events
              /\ f.at = "handler" => f.dispatched < f.max_events
FramesOK ==
  /\ \A i \in 1 .. Len(frames) : InBatch(frames[i])
  /\ \A i \in 2 .. Len(frames) : frames[i].at = "handler"

\* The inductive invariant: the counters agree with taken because the frames say
\* which handlers still have an event.
DInv == EveryEventCounted /\ FramesOK

\* How many handlers have an event: all calls but the one in its loop.
LEMMA HandlersInProgress ==
  ASSUME NEW s \in Seq(Frames), \A i \in 2 .. Len(s) : s[i].at = "handler"
  PROVE  Cardinality({i \in 1 .. Len(s) : s[i].at = "handler"})
           = IF s # <<>> /\ Head(s).at = "loop" THEN Len(s) - 1 ELSE Len(s)
<1> DEFINE H == {i \in 1 .. Len(s) : s[i].at = "handler"}
<1>1. Len(s) \in Nat /\ \A i \in 1 .. Len(s) : s[i] \in Frames
  OBVIOUS
<1>2. CASE s # <<>> /\ Head(s).at = "loop"
  <2>1. H = 2 .. Len(s)
    BY <1>1, <1>2
  <2> HIDE DEF H
  <2>2. 2 \in Int /\ Len(s) \in Int /\ Len(s) >= 1
    BY <1>1, <1>2
  <2>3. Cardinality(2 .. Len(s)) = IF 2 > Len(s) THEN 0 ELSE Len(s) - 2 + 1
    BY <2>2, FS_Interval
  <2>4. Cardinality(H) = Len(s) - 1
    BY <2>1, <2>2, <2>3
  <2>5. QED
    BY <1>2, <2>4 DEF H
<1>3. CASE ~ (s # <<>> /\ Head(s).at = "loop")
  <2>1. H = 1 .. Len(s)
    BY <1>1, <1>3 DEF Frames
  <2> HIDE DEF H
  <2>2. 1 \in Int /\ Len(s) \in Int /\ Len(s) >= 0
    BY <1>1
  <2>3. Cardinality(1 .. Len(s)) = IF 1 > Len(s) THEN 0 ELSE Len(s) - 1 + 1
    BY <2>2, FS_Interval
  <2>4. Cardinality(H) = Len(s)
    BY <2>1, <2>2, <2>3
  <2>5. QED
    BY <1>3, <2>4 DEF H
<1>4. QED
  BY <1>2, <1>3

\* Changing the innermost frame changes no other.
LEMMA InnermostFrame ==
  ASSUME NEW s \in Seq(Frames), s # <<>>, NEW f \in Frames, NEW t, t = [s EXCEPT ![1] = f]
  PROVE  /\ t \in Seq(Frames) /\ Len(t) = Len(s) /\ t # <<>> /\ t[1] = f /\ Head(t) = f
         /\ \A i \in 2 .. Len(t) : t[i] = s[i]
<1>1. Len(s) \in Nat /\ 1 \in 1 .. Len(s)
  OBVIOUS
<1>2. t \in Seq(Frames) /\ Len(t) = Len(s) /\ \A i \in 1 .. Len(s) : t[i] = IF i = 1 THEN f ELSE s[i]
  BY <1>1, ExceptSeq
<1>3. QED
  BY <1>1, <1>2

\* A step that changes the innermost frame only, within its batch, keeps FramesOK.
LEMMA InnermostStaysOK ==
  ASSUME FramesOK, Len(frames) \in Nat, Len(frames') = Len(frames),
         \A i \in 2 .. Len(frames) : frames'[i] = frames[i], InBatch(frames'[1])
  PROVE  FramesOK'
<1>1. ASSUME NEW i \in 1 .. Len(frames)
      PROVE  InBatch(frames'[i])
  <2>1. CASE i = 1
    BY <2>1
  <2>2. CASE i # 1
    <3>1. i \in 2 .. Len(frames)
      BY <2>2
    <3>2. InBatch(frames[i]) /\ frames'[i] = frames[i]
      BY <3>1 DEF FramesOK
    <3>3. QED
      BY <3>2
  <2>3. QED
    BY <2>1, <2>2
<1>2. \A i \in 2 .. Len(frames) : frames'[i].at = "handler"
  BY DEF FramesOK
<1>3. QED
  BY <1>1, <1>2 DEF FramesOK, InBatch

\* Every step of the dispatcher preserves the invariant.
LEMMA DispatcherStep ==
  ASSUME DInv, [DNext]_dispatcherVars
  PROVE  DInv'
<1> USE QueueAssumption, DispatcherAssumption
<1> DEFINE W == CounterWidth
           dc == dispatcher.dispatched_count
           hc == dispatcher.handler_error_count
           n == Cardinality(InHandler)
<1>1. /\ dispatcher \in [initialized : BOOLEAN, dispatched_count : 0 .. W - 1,
                         handler_error_count : 0 .. W - 1]
      /\ frames \in Seq(Frames) /\ Len(frames) \in Nat /\ Len(frames) <= Depth
      /\ result \in Results \cup {"none", "OK", "EMPTY", "INVALID_STATE"}
      /\ taken \in 0 .. W - 1 /\ W \in Nat \ {0} /\ 0 \in 0 .. W - 1
      /\ (dc + hc + n) % W = taken /\ RingConsistent
      /\ dc \in 0 .. W - 1 /\ hc \in 0 .. W - 1
  BY DEF DInv, EveryEventCounted, DTypeOK
<1>2. n = IF At("loop") THEN Len(frames) - 1 ELSE Len(frames)
  BY <1>1, HandlersInProgress DEF DInv, FramesOK, InHandler, At
<1>3. ASSUME RingConsistent', UNCHANGED dvars
      PROVE  DInv'
  BY <1>1, <1>3 DEF DInv, EveryEventCounted, DTypeOK, FramesOK, InHandler, dvars
<1>4. RingConsistent'
  <2>1. [Next]_vars
    BY DEF DNext, QueueUse, DispatcherInit, LoopStep, HandlerReturns, BatchDone, RunsDry,
           CallHandler, HandlerOk, HandlerFails, Refuse, DispatchAll, Next, dispatcherVars
  <2>2. QED
    BY <1>1, <2>1, RingStep
<1>5. CASE QueueUse \/ UNCHANGED dispatcherVars
  BY <1>3, <1>4, <1>5 DEF QueueUse, dispatcherVars, dvars
\* What is left is to count: the frames' shape gives the handlers in progress.
<1>6. ASSUME frames' \in Seq(Frames), Len(frames') <= Depth, FramesOK',
             result' \in Results \cup {"none", "OK", "EMPTY", "INVALID_STATE"},
             dispatcher' \in [initialized : BOOLEAN, dispatched_count : 0 .. W - 1,
                              handler_error_count : 0 .. W - 1],
             taken' \in 0 .. W - 1,
             (dc' + hc' + (IF At("loop")' THEN Len(frames') - 1 ELSE Len(frames'))) % W = taken'
      PROVE  DInv'
  <2>1. n' = IF At("loop")' THEN Len(frames') - 1 ELSE Len(frames')
    BY <1>6, HandlersInProgress DEF FramesOK, InHandler, At
  <2>2. QED
    BY <1>4, <1>6, <2>1 DEF DInv, EveryEventCounted, DTypeOK
<1>7. CASE DispatcherInit
  <2>1. 0 % W = 0
    BY <1>1, WrapsOnce
  <2>2. UNCHANGED frames /\ frames = <<>> /\ FramesOK'
    BY <1>7 DEF DispatcherInit, FramesOK
  <2>3. CASE initialized
    <3>1. /\ dispatcher' = [initialized |-> TRUE, dispatched_count |-> 0, handler_error_count |-> 0]
          /\ result' = "OK" /\ taken' = 0 /\ frames' = <<>> /\ ~ At("loop")'
      BY <1>7, <2>2, <2>3 DEF DispatcherInit, At
    <3>2. dc' = 0 /\ hc' = 0 /\ Len(frames') = 0 /\ frames' \in Seq(Frames)
      BY <3>1
    <3>3. QED
      BY <1>1, <1>6, <2>1, <2>2, <3>1, <3>2
  <2>4. CASE ~ initialized
    BY <1>1, <1>2, <1>6, <1>7, <2>2, <2>4 DEF DispatcherInit, At
  <2>5. QED
    BY <2>3, <2>4
<1>8. ASSUME NEW max_events \in 0 .. MaxBatch, Refuse(max_events)
      PROVE  DInv'
  BY <1>1, <1>2, <1>6, <1>8 DEF Refuse, At, DInv, FramesOK
<1>9. ASSUME NEW max_events \in 0 .. MaxBatch, DispatchAll(max_events)
      PROVE  DInv'
  <2> DEFINE f == [max_events |-> max_events, dispatched |-> 0, at |-> "loop"]
  <2>1. f \in Frames
    BY <1>9 DEF DispatchAll, Frames
  <2>2. /\ frames' = <<f>> \o frames /\ frames' \in Seq(Frames)
        /\ Len(frames') = Len(frames) + 1 /\ frames'[1] = f /\ frames' # <<>>
        /\ \A i \in 1 .. Len(frames) : frames'[i + 1] = frames[i]
    BY <1>1, <1>9, <2>1 DEF DispatchAll
  <2>3. At("loop")' /\ ~ At("loop")
    BY <1>9, <2>2 DEF At, DispatchAll, AppRuns
  <2>4. \A i \in 1 .. Len(frames) : frames[i].at = "handler"
    BY <1>1, <1>9, <2>3 DEF At, DispatchAll, AppRuns, DInv, FramesOK
  <2>5. FramesOK'
    <3>1. \A i \in 2 .. Len(frames') : i - 1 \in 1 .. Len(frames) /\ frames'[i] = frames[i - 1]
      BY <1>1, <2>2
    <3>2. \A i \in 2 .. Len(frames') : frames'[i].at = "handler"
      BY <2>4, <3>1
    <3>3. \A i \in 1 .. Len(frames') : InBatch(frames'[i])
      <4>1. InBatch(f)
        BY <1>9 DEF InBatch, DispatchAll
      <4>2. ASSUME NEW i \in 1 .. Len(frames')
            PROVE  InBatch(frames'[i])
        <5>1. CASE i = 1
          BY <2>2, <4>1, <5>1
        <5>2. CASE i # 1
          <6>1. i - 1 \in 1 .. Len(frames) /\ frames'[i] = frames[i - 1]
            BY <1>1, <2>2, <3>1, <5>2
          <6>2. QED
            BY <6>1 DEF DInv, FramesOK
        <5>3. QED
          BY <5>1, <5>2
      <4>3. QED
        BY <4>2
    <3>4. QED
      BY <3>2, <3>3 DEF FramesOK, InBatch
  <2>6. QED
    BY <1>1, <1>2, <1>6, <1>9, <2>2, <2>3, <2>5 DEF DispatchAll
\* A call that returns leaves its caller in its handler.
<1>10. ASSUME frames # <<>>, frames' = Tail(frames)
       PROVE  /\ frames' \in Seq(Frames) /\ Len(frames') = Len(frames) - 1
              /\ FramesOK' /\ ~ At("loop")'
  <2>1. /\ frames' \in Seq(Frames) /\ Len(frames') = Len(frames) - 1
        /\ \A i \in 1 .. Len(frames') : frames'[i] = frames[i + 1]
    BY <1>1, <1>10, HeadTailProperties
  <2>2. \A i \in 1 .. Len(frames') : i + 1 \in 2 .. Len(frames) /\ frames'[i].at = "handler"
    BY <1>1, <2>1 DEF DInv, FramesOK
  <2>3. FramesOK'
    <3>1. \A i \in 1 .. Len(frames') : i + 1 \in 1 .. Len(frames) /\ InBatch(frames'[i])
      BY <1>1, <2>1 DEF DInv, FramesOK
    <3>2. \A i \in 2 .. Len(frames') : frames'[i].at = "handler"
      BY <2>2
    <3>3. QED
      BY <3>1, <3>2 DEF FramesOK, InBatch
  <2>4. ~ At("loop")'
    BY <2>1, <2>2 DEF At
  <2>5. QED
    BY <2>1, <2>3, <2>4
<1>11. CASE BatchDone \/ RunsDry
  <2>1. /\ frames # <<>> /\ frames' = Tail(frames) /\ At("loop") /\ UNCHANGED <<dispatcher, taken>>
        /\ result' \in {"OK", "EMPTY"}
    BY <1>11 DEF BatchDone, RunsDry, Continues, Return, At
  <2>2. QED
    BY <1>1, <1>2, <1>6, <1>10, <2>1
<1>12. CASE CallHandler
  <2>1. /\ At("loop") /\ Head(frames).dispatched < Head(frames).max_events
        /\ frames' = [frames EXCEPT ![1].at = "handler"]
        /\ taken' = (taken + 1) % W /\ UNCHANGED <<dispatcher, result>>
    BY <1>12 DEF CallHandler, Continues
  <2>2. /\ frames' \in Seq(Frames) /\ Len(frames') = Len(frames) /\ ~ At("loop")' /\ FramesOK'
    <3> DEFINE f == [frames[1] EXCEPT !.at = "handler"]
    <3>0. /\ frames # <<>> /\ 1 \in 1 .. Len(frames) /\ Head(frames) = frames[1]
          /\ frames[1] \in Frames
      BY <1>1, <2>1 DEF At
    <3>1. /\ f \in Frames /\ f.at = "handler"
          /\ f.dispatched = frames[1].dispatched /\ f.max_events = frames[1].max_events
      BY <3>0 DEF Frames
    <3>2. frames' = [frames EXCEPT ![1] = f]
      BY <2>1
    <3> HIDE DEF f
    <3>3. /\ frames' \in Seq(Frames) /\ Len(frames') = Len(frames) /\ frames'[1] = f
          /\ Head(frames') = f /\ \A i \in 2 .. Len(frames) : frames'[i] = frames[i]
      BY <1>1, <3>0, <3>1, <3>2, InnermostFrame
    <3>4. ~ At("loop")'
      BY <3>1, <3>3 DEF At
    <3>5. InBatch(f)
      BY <2>1, <3>0, <3>1 DEF DInv, FramesOK, InBatch
    <3>6. FramesOK'
      BY <1>1, <3>3, <3>5, InnermostStaysOK DEF DInv
    <3>7. QED
      BY <3>3, <3>4, <3>6
  <2>3. (dc + hc + Len(frames)) % W = (taken + 1) % W
    <3>1. dc + hc + (Len(frames) - 1) \in Int /\ (dc + hc + (Len(frames) - 1)) + 1 = dc + hc + Len(frames)
      BY <1>1
    <3> DEFINE x == dc + hc + (Len(frames) - 1)
    <3>1a. x \in Int
      BY <3>1
    <3> HIDE DEF x
    <3>2. ((x % W) + 1) % W = (x + 1) % W
      <4>1. W \in Nat \ {0} /\ 1 \in Int
        BY <1>1
      <4>2. QED
        BY ONLY <3>1a, <4>1, RemainderOfSum
    <3>3. x % W = taken
      BY <1>1, <1>2, <2>1 DEF x
    <3>4. QED
      BY <3>1, <3>2, <3>3 DEF x
  <2>4. taken' \in 0 .. W - 1
    BY <1>1, <2>1, Division
  <2>5. QED
    BY <1>1, <1>6, <2>1, <2>2, <2>3, <2>4
<1>13. CASE HandlerOk
  <2>1. /\ At("handler") /\ frames' = [frames EXCEPT ![1].at = "loop", ![1].dispatched = @ + 1]
        /\ dispatcher' = [dispatcher EXCEPT !.dispatched_count = (dc + 1) % W]
        /\ UNCHANGED <<result, taken>>
    BY <1>1, <1>13 DEF HandlerOk
  <2>2. /\ frames' \in Seq(Frames) /\ Len(frames') = Len(frames) /\ At("loop")' /\ FramesOK'
    <3> DEFINE f == [frames[1] EXCEPT !.at = "loop", !.dispatched = @ + 1]
    <3>1. /\ frames # <<>> /\ 1 \in 1 .. Len(frames) /\ Head(frames) = frames[1]
          /\ frames[1] \in Frames /\ frames[1].at = "handler"
      BY <1>1, <2>1 DEF At
    <3>2. /\ frames[1].dispatched < frames[1].max_events
          /\ frames[1].dispatched + 1 \in 0 .. MaxBatch
      BY <3>1 DEF DInv, FramesOK, InBatch, Frames
    <3>3. /\ f \in Frames /\ f.at = "loop" /\ f.dispatched = frames[1].dispatched + 1
          /\ f.max_events = frames[1].max_events
      BY <3>1, <3>2 DEF Frames
    <3>4. frames' = [frames EXCEPT ![1] = f]
      BY <1>1, <2>1, <3>1
    <3> HIDE DEF f
    <3>5. /\ frames' \in Seq(Frames) /\ Len(frames') = Len(frames) /\ frames' # <<>>
          /\ frames'[1] = f /\ Head(frames') = f
          /\ \A i \in 2 .. Len(frames) : frames'[i] = frames[i]
      BY <1>1, <3>1, <3>3, <3>4, InnermostFrame
    <3>6. At("loop")'
      BY <3>3, <3>5 DEF At
    <3>7. FramesOK'
      <4>1. InBatch(f)
        BY <3>1, <3>2, <3>3 DEF InBatch, Frames
      <4>2. QED
        BY <1>1, <3>5, <4>1, InnermostStaysOK DEF DInv
    <3>8. QED
      BY <3>5, <3>6, <3>7
  <2>3. ~ At("loop")
    BY <2>1 DEF At
  <2>4. dc' = (dc + 1) % W /\ hc' = hc
    BY <1>1, <2>1
  <2> HIDE DEF dc, hc
  <2>5. /\ (dc + 1) % W \in 0 .. W - 1
        /\ (((dc + 1) % W) + hc + (Len(frames) - 1)) % W = taken
    <3>1. dc \in Int /\ hc \in Int /\ Len(frames) \in Int /\ hc + (Len(frames) - 1) \in Int
      BY <1>1
    <3>2. /\ (dc + 1) % W \in 0 .. W - 1
          /\ (((dc + 1) % W) + (hc + (Len(frames) - 1))) % W = (dc + (hc + (Len(frames) - 1)) + 1) % W
      BY <1>1, <3>1, CountOne
    <3> DEFINE q == (dc + 1) % W
    <3> HIDE DEF q
    <3>3. q \in Int /\ q + (hc + (Len(frames) - 1)) = q + hc + (Len(frames) - 1)
      BY <1>1, <3>1, <3>2 DEF q
    <3>4. dc + (hc + (Len(frames) - 1)) + 1 = dc + hc + Len(frames)
      BY <3>1
    <3>5. QED
      BY <1>1, <1>2, <2>3, <3>2, <3>3, <3>4 DEF q
  <2>6. dispatcher' \in [initialized : BOOLEAN, dispatched_count : 0 .. W - 1,
                         handler_error_count : 0 .. W - 1]
    BY <1>1, <2>1, <2>5
  <2>7. QED
    BY <1>1, <1>6, <2>1, <2>2, <2>4, <2>5, <2>6
<1>14. ASSUME NEW status \in Results \ {"OK"}, HandlerFails(status)
       PROVE  DInv'
  <2>1. /\ At("handler") /\ frames # <<>> /\ frames' = Tail(frames)
        /\ dispatcher' = [dispatcher EXCEPT !.handler_error_count = (hc + 1) % W]
        /\ result' = status /\ UNCHANGED taken
    BY <1>1, <1>14 DEF HandlerFails, Return, At
  <2>2. ~ At("loop")
    BY <2>1 DEF At
  <2>3. dc' = dc /\ hc' = (hc + 1) % W
    BY <1>1, <2>1
  <2> HIDE DEF dc, hc
  <2>4. /\ (hc + 1) % W \in 0 .. W - 1
        /\ (dc + ((hc + 1) % W) + (Len(frames) - 1)) % W = taken
    <3>1. dc \in Int /\ hc \in Int /\ Len(frames) \in Int /\ dc + (Len(frames) - 1) \in Int
      BY <1>1
    <3>2. /\ (hc + 1) % W \in 0 .. W - 1
          /\ (((hc + 1) % W) + (dc + (Len(frames) - 1))) % W = (hc + (dc + (Len(frames) - 1)) + 1) % W
      BY <1>1, <3>1, CountOne
    <3> DEFINE q == (hc + 1) % W
    <3> HIDE DEF q
    <3>3. q \in Int /\ q + (dc + (Len(frames) - 1)) = dc + q + (Len(frames) - 1)
      BY <1>1, <3>1, <3>2 DEF q
    <3>4. hc + (dc + (Len(frames) - 1)) + 1 = dc + hc + Len(frames)
      BY <3>1
    <3>5. QED
      BY <1>1, <1>2, <2>2, <3>2, <3>3, <3>4 DEF q
  <2>5. dispatcher' \in [initialized : BOOLEAN, dispatched_count : 0 .. W - 1,
                         handler_error_count : 0 .. W - 1]
    BY <1>1, <2>1, <2>4
  <2>6. result' \in Results \cup {"none", "OK", "EMPTY", "INVALID_STATE"}
    BY <2>1
  <2>7. Len(frames') <= Depth
    BY <1>1, <1>10, <2>1
  <2>8. QED
    BY <1>1, <1>6, <1>10, <2>1, <2>3, <2>4, <2>5, <2>6, <2>7
<1>15. QED
  BY <1>5, <1>7, <1>8, <1>9, <1>11, <1>12, <1>13, <1>14 DEF DNext, LoopStep, HandlerReturns

\* The invariant holds of every behaviour.
THEOREM DispatcherInvariance == DSpec => []DInv
<1>1. DInit => DInv
  <2> SUFFICES ASSUME DInit PROVE DInv
    OBVIOUS
  <2> USE QueueAssumption, DispatcherAssumption DEF DInit
  <2>1. 0 % Capacity = 0 /\ 0 % CounterWidth = 0
    BY WrapsOnce
  <2>2. RingConsistent
    BY <2>1 DEF Init, RingConsistent, TypeOK, SlotOf, Slots, Statuses
  <2>3. InHandler = {} /\ Cardinality(InHandler) = 0
    BY FS_EmptySet DEF InHandler
  <2>4. frames \in Seq(Frames) /\ Len(frames) = 0
    OBVIOUS
  <2>5. QED
    BY <2>1, <2>2, <2>3, <2>4 DEF DInv, EveryEventCounted, DTypeOK, FramesOK
<1>2. DInv /\ [DNext]_dispatcherVars => DInv'
  BY DispatcherStep
<1>3. QED
  BY <1>1, <1>2, PTL DEF DSpec

\* Every event taken from the queue is counted once, as dispatched or as failed,
\* when its handler returns, however deep handlers dispatch.
THEOREM EventsCounted == DSpec => []EveryEventCounted
  BY DispatcherInvariance, PTL DEF DInv

\* Under the dispatcher too, the ring buffer hands events out in the order they
\* came, loses only what finds it full, and counts each loss.
THEOREM QueueIsFifo == DSpec => ImplementsFifo
<1>1. DInit => Fifo!Init
  <2> SUFFICES ASSUME DInit PROVE Fifo!Init
    OBVIOUS
  <2>1. count = 0 /\ dropped_count = 0 /\ initialized = FALSE
    BY DEF DInit, Init
  <2>2. [i \in 1 .. count |-> buffer[SlotOf(i - 1)]] = <<>>
    BY <2>1
  <2>3. QED
    BY <2>1, <2>2 DEF Fifo!Init
<1>2. DInv /\ [DNext]_dispatcherVars => [Fifo!Next]_(Fifo!fifoVars)
  <2>1. [DNext]_dispatcherVars => [Next]_vars
    BY DEF DNext, QueueUse, DispatcherInit, LoopStep, HandlerReturns, BatchDone, RunsDry,
           CallHandler, HandlerOk, HandlerFails, Refuse, DispatchAll, Next, dispatcherVars
  <2>2. QED
    BY <2>1, FifoStep DEF DInv, EveryEventCounted
<1>3. QED
  BY <1>1, <1>2, DispatcherInvariance, PTL DEF DSpec, ImplementsFifo, Fifo!Spec

\* A batch that reports success handled all it was asked for or emptied the
\* queue; one that reports ERR_EMPTY of its own accord handled nothing.
THEOREM ResultsAreHonest == DSpec => ResultsHonest
<1> DEFINE Honest == At("loop") /\ Len(frames') < Len(frames) =>
                       /\ result' = "OK" => Head(frames).dispatched > 0
                       /\ result' = "EMPTY" => Head(frames).dispatched = 0
                       /\ Head(frames).dispatched < Head(frames).max_events => count' = 0
<1>1. DInv /\ [DNext]_dispatcherVars => [Honest]_dispatcherVars
  <2> SUFFICES ASSUME DInv, DNext, At("loop"), Len(frames') < Len(frames)
               PROVE  Honest
    OBVIOUS
  <2>1. frames \in Seq(Frames) /\ frames # <<>> /\ Head(frames) \in Frames
    BY DEF DInv, EveryEventCounted, DTypeOK, At
  <2>2. CASE BatchDone
    BY <2>1, <2>2 DEF BatchDone, Return, Frames
  <2>3. CASE RunsDry
    BY <2>1, <2>3 DEF RunsDry, Continues, Return, Frames, Empty, ring
  <2>4. CASE CallHandler
    BY <2>1, <2>4 DEF CallHandler
  <2>5. CASE HandlerReturns \/ DispatcherInit \/ QueueUse
    BY <2>1, <2>5 DEF HandlerReturns, HandlerOk, HandlerFails, DispatcherInit, QueueUse, dvars, At
  <2>6. ASSUME NEW max_events \in 0 .. MaxBatch, Refuse(max_events) \/ DispatchAll(max_events)
        PROVE  FALSE
    BY <2>1, <2>6 DEF Refuse, DispatchAll, AppRuns, At
  <2>7. QED
    BY <2>2, <2>3, <2>4, <2>5, <2>6 DEF DNext, LoopStep
<1>2. QED
  BY <1>1, DispatcherInvariance, PTL DEF DSpec, ResultsHonest
=============================================================================
