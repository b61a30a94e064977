--------------------------- MODULE CoreInspection ---------------------------
(***************************************************************************)
(* What any context can read of the event core: robotos_core_snapshot,     *)
(* which reads all fields under one critical section, and the getters,     *)
(* which take one section each.  Also the advice core/robotos_core.c       *)
(* derives from the status of a post (its "Phase 4L").                     *)
(***************************************************************************)
EXTENDS RobotCore

-----------------------------------------------------------------------------
(* The getters *)

LifeReadings == [state |-> core_state, ticks |-> tick_count]

QueueReadings == [pending    |-> Len(queue),
                  dropped    |-> dropped_count,
                  dispatched |-> dispatched_count,
                  errors     |-> handler_error_count]

HasHandler(t) == Ready /\ Matching(t) # {}

TableReadings == [registered |-> handler_count, unhandled |-> unhandled_count]

AdmissionReadings == [accepted |-> accepted_count, rejected |-> rejected_count]

PressureReadings == [throttled |-> throttled_count, peak |-> peak_depth]

Full == Len(queue) = Capacity
Backpressure == Len(queue) > Budget \/ Full
ThrottleActive == ~Full /\ Len(queue) > Budget

-----------------------------------------------------------------------------
\* robotos_core_snapshot: every field of one state.
CoreSnapshot ==
  [life |-> LifeReadings, inits |-> init_count, queue |-> QueueReadings,
   handlers |-> TableReadings, posts |-> AdmissionReadings, pressure |-> PressureReadings,
   backpressure |-> Backpressure, throttle |-> ThrottleActive]

\* What a snapshot taken at any moment, by an interrupt in the middle of a
\* tick too, tells its reader: at most one accepted event is in nobody's
\* count, unhandled events exceed the dispatched by that event at most, and
\* each counter of refusals is backed by a depth the queue really reached.
SnapshotCoherent ==
  LET s    == CoreSnapshot
      seen == s.queue.pending + s.queue.dispatched + s.queue.errors
  IN /\ s.posts.accepted \in {seen, seen + 1}
     /\ s.handlers.unhandled <= s.queue.dispatched + (s.posts.accepted - seen)
     /\ s.queue.pending <= s.pressure.peak /\ s.pressure.peak <= Capacity
     /\ s.queue.dropped > 0 => s.pressure.peak = Capacity
     /\ s.pressure.throttled > 0 => s.pressure.peak > Budget
     /\ s.life.state = "UNINITIALIZED" => s.posts.accepted + s.life.ticks + s.inits = 0

-----------------------------------------------------------------------------
(* robotos_core_retry_decision_for_status, robotos_core_status_is_retryable *)

Advice(action, wait, give_up) ==
  [action |-> action, wait |-> wait, drop |-> give_up, report |-> give_up]

\* Slip: a throttled producer is told to drop its event.
ThrottledGivesUp(status) ==
  CASE status = "FULL"                      -> Advice("AFTER_TICK", 1, FALSE)
    [] status = "INVALID_STATE"             -> Advice("SOON", 0, FALSE)
    [] status \in {"INVALID_ARG", "NULL", "THROTTLED"} -> Advice("NEVER", 0, TRUE)
    [] OTHER                                -> Advice("NONE", 0, FALSE)

RetryDecision(status) ==
  CASE status \in {"FULL", "THROTTLED"}     -> Advice("AFTER_TICK", 1, FALSE)
    [] status = "INVALID_STATE"             -> Advice("SOON", 0, FALSE)
    [] status \in {"INVALID_ARG", "NULL"}   -> Advice("NEVER", 0, TRUE)
    [] OTHER                                -> Advice("NONE", 0, FALSE)

IsRetryable(status) == status \in {"FULL", "THROTTLED", "INVALID_STATE"}
=============================================================================
