-------------------------------- MODULE RoLog --------------------------------
(***************************************************************************)
(* src/adapter/zephyr/ro_log.c: the log ring.  A thread's call is split    *)
(* where an interrupt can log in between; the flusher is another thread.   *)
(***************************************************************************)
EXTENDS Integers, Sequences

CONSTANTS RingCount,  \* LOG_RING_COUNT
          Messages,
          NoMessage,
          MaxDropped  \* bound on the drops

VARIABLES
  ring, head, tail, dropped,  \* s_ring, s_head, s_tail, ro_log_drop_count
  logging,   \* the thread's call: where it is, its message and the value it read
  printing,  \* what the flusher has read at the tail, or NoMessage
  expected,  \* history: the messages logged and not flushed, until a race
  refused,   \* history: the messages refused since the last reset
  raced      \* history: another context wrote what a call had read

logVars == <<ring, head, tail, dropped, logging, printing, expected, refused, raced>>

NotLogging == [at |-> "idle", message |-> NoMessage, read |-> 0]
After(i) == (i + 1) % RingCount
Expects(m) == expected' = IF raced' THEN <<>> ELSE Append(expected, m)

Init == /\ ring = [i \in 0 .. RingCount - 1 |-> NoMessage]
        /\ head = 0 /\ tail = 0 /\ dropped = 0
        /\ logging = NotLogging /\ printing = NoMessage
        /\ expected = <<>> /\ refused = 0 /\ raced = FALSE

\* Slip: a full ring is overwritten.
FullNever == FALSE

\* One entry stays empty.
Full == After(head) = tail

\* The thread computes the next head, or reads the drop count ...
Log(m) ==
  /\ logging.at = "idle"
  /\ logging' = IF Full THEN [at |-> "drop", message |-> m, read |-> dropped]
                ELSE [at |-> "write", message |-> m, read |-> After(head)]
  /\ UNCHANGED <<ring, head, tail, dropped, printing, expected, refused, raced>>

Drop ==
  /\ logging.at = "drop" /\ logging.read < MaxDropped /\ refused < MaxDropped
  /\ dropped' = logging.read + 1 /\ refused' = refused + 1
  /\ logging' = NotLogging
  /\ UNCHANGED <<ring, head, tail, printing, expected, raced>>

\* ... reads the head again for the place of its entry ...
Write ==
  /\ logging.at = "write"
  /\ ring' = [ring EXCEPT ![head] = logging.message]
  /\ logging' = [logging EXCEPT !.at = "publish"]
  /\ UNCHANGED <<head, tail, dropped, printing, expected, refused, raced>>

\* ... and stores the next head.
Publish ==
  /\ logging.at = "publish"
  /\ head' = logging.read
  /\ logging' = NotLogging
  /\ UNCHANGED raced /\ Expects(logging.message)
  /\ UNCHANGED <<ring, tail, dropped, printing, refused>>

\* An interrupt logs to the end of its call.
InterruptLogs(m) ==
  /\ ~Full
  /\ ring' = [ring EXCEPT ![head] = m] /\ head' = After(head)
  /\ raced' = (raced \/ logging.at \in {"write", "publish"})
  /\ Expects(m)
  /\ UNCHANGED <<tail, dropped, logging, printing, refused>>

InterruptDrops ==
  /\ Full /\ dropped < MaxDropped /\ refused < MaxDropped
  /\ dropped' = dropped + 1 /\ refused' = refused + 1
  /\ raced' = (raced \/ logging.at = "drop")
  /\ UNCHANGED <<ring, head, tail, logging, printing, expected>>

FlushPrints ==
  /\ printing = NoMessage /\ tail # head
  /\ printing' = ring[tail]
  /\ UNCHANGED <<ring, head, tail, dropped, logging, expected, refused, raced>>

FlushAdvances ==
  /\ printing # NoMessage
  /\ tail' = After(tail) /\ printing' = NoMessage
  /\ expected' = IF expected = <<>> THEN <<>> ELSE Tail(expected)
  /\ UNCHANGED <<ring, head, dropped, logging, refused, raced>>

DropCountReset ==
  /\ dropped' = 0 /\ refused' = 0
  /\ raced' = (raced \/ logging.at = "drop")
  /\ UNCHANGED <<ring, head, tail, logging, printing, expected>>

Next == \/ \E m \in Messages : Log(m) \/ InterruptLogs(m)
        \/ Drop \/ Write \/ Publish \/ InterruptDrops
        \/ FlushPrints \/ FlushAdvances \/ DropCountReset

-----------------------------------------------------------------------------
Pending == [i \in 1 .. (head - tail) % RingCount |-> ring[(tail + i - 1) % RingCount]]

\* Every message logged is printed once and in order and every one refused is
\* counted, as long as no context logs within the call of another one.
LogExact ==
  ~raced => /\ Pending = expected
            /\ printing # NoMessage => printing = Head(expected)
            /\ dropped = refused
=============================================================================
