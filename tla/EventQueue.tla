----------------------------- MODULE EventQueue -----------------------------
(***************************************************************************)
(* core/robotos_event_queue.c: the fixed-capacity ring buffer of core      *)
(* events.  One caller at a time runs an operation (the core holds its     *)
(* critical section around each of them), so an operation is one step.     *)
(***************************************************************************)
EXTENDS Naturals, Sequences

CONSTANTS Events,      \* the events callers may push
          Zero,        \* a slot that memset has zeroed; not an event anyone pushed
          Capacity,    \* ROBOTOS_EVENT_QUEUE_CAPACITY
          MaxDropped   \* bound on dropped_count (a uint32_t in the code)

ASSUME QueueAssumption == /\ Capacity \in Nat \ {0}
                          /\ MaxDropped \in Nat
                          /\ Zero \notin Events

VARIABLES buffer, head, tail, count, dropped_count, initialized,
          out,         \* what the last successful pop or peek copied to *out
          ret          \* what the last operation returned

vars == <<buffer, head, tail, count, dropped_count, initialized, out, ret>>
ring == <<buffer, head, tail, count>>

Slots == 0 .. Capacity - 1
Statuses == {"OK", "INVALID_STATE", "FULL", "EMPTY"}

\* A queue with static storage before robotos_event_queue_init.
Init == /\ buffer = [i \in Slots |-> Zero]
        /\ head = 0 /\ tail = 0 /\ count = 0
        /\ dropped_count = 0
        /\ initialized = FALSE
        /\ out = Zero
        /\ ret = "OK"

QueueInit == /\ buffer' = [i \in Slots |-> Zero]
             /\ head' = 0 /\ tail' = 0 /\ count' = 0
             /\ dropped_count' = 0
             /\ initialized' = TRUE
             /\ ret' = "OK"
             /\ UNCHANGED out

\* Every operation but init refuses a queue that is not initialised.
Uninitialized == /\ ~initialized
                 /\ ret' = "INVALID_STATE"
                 /\ UNCHANGED <<ring, dropped_count, initialized, out>>

\* Slip: a full queue overwrites its oldest event instead of refusing the new one.
FullOverwrites == /\ initialized
                  /\ count >= Capacity
                  /\ dropped_count < MaxDropped
                  /\ head' = (head + 1) % Capacity
                  /\ tail' = (tail + 1) % Capacity
                  /\ dropped_count' = dropped_count + 1
                  /\ ret' = "FULL"
                  /\ UNCHANGED <<buffer, count, initialized, out>>

PushFull == /\ initialized
            /\ count >= Capacity
            /\ dropped_count < MaxDropped
            /\ dropped_count' = dropped_count + 1
            /\ ret' = "FULL"
            /\ UNCHANGED <<ring, initialized, out>>

PushStore(e) == /\ initialized
                /\ count < Capacity
                /\ buffer' = [buffer EXCEPT ![tail] = e]
                /\ tail' = (tail + 1) % Capacity
                /\ count' = count + 1
                /\ ret' = "OK"
                /\ UNCHANGED <<head, dropped_count, initialized, out>>

Push(e) == PushFull \/ PushStore(e)

\* pop and peek find nothing.
Empty == /\ initialized
         /\ count = 0
         /\ ret' = "EMPTY"
         /\ UNCHANGED <<ring, dropped_count, initialized, out>>

Pop == /\ initialized
       /\ count # 0
       /\ out' = buffer[head]
       /\ head' = (head + 1) % Capacity
       /\ count' = count - 1
       /\ ret' = "OK"
       /\ UNCHANGED <<buffer, tail, dropped_count, initialized>>

Peek == /\ initialized
        /\ count # 0
        /\ out' = buffer[head]
        /\ ret' = "OK"
        /\ UNCHANGED <<ring, dropped_count, initialized>>

\* The slots keep their old contents and dropped_count its history.
Clear == /\ initialized
         /\ head' = 0 /\ tail' = 0 /\ count' = 0
         /\ ret' = "OK"
         /\ UNCHANGED <<buffer, dropped_count, initialized, out>>

Next == \/ QueueInit
        \/ Uninitialized
        \/ \E e \in Events : Push(e)
        \/ Empty
        \/ Pop
        \/ Peek
        \/ Clear

Spec == Init /\ [][Next]_vars

----------------------------------------------------------------------------
\* Every variable keeps its type: in particular both indices stay inside the
\* buffer and count never exceeds the capacity (robotos_event_queue.c:92-94,
\* 112-114 index the buffer without a check).
TypeOK == /\ buffer \in [Slots -> Events \cup {Zero}]
          /\ head \in Slots
          /\ tail \in Slots
          /\ count \in 0 .. Capacity
          /\ dropped_count \in 0 .. MaxDropped
          /\ initialized \in BOOLEAN
          /\ out \in Events \cup {Zero}
          /\ ret \in Statuses

\* The slot that holds the i-th oldest event (i = 0 is the next to pop).
SlotOf(i) == (head + i) % Capacity

\* head, tail and count are three views of one window.
RingConsistent == TypeOK /\ tail = SlotOf(count)

\* The ring buffer is a bounded FIFO: events come out in the order they went
\* in, a full queue loses exactly the event that was pushed and counts it.
Fifo == INSTANCE BoundedFifo
          WITH Items <- Events,
               fifo  <- [i \in 1 .. count |-> buffer[SlotOf(i - 1)]],
               lost  <- dropped_count,
               open  <- initialized

ImplementsFifo == Fifo!Spec
=============================================================================
