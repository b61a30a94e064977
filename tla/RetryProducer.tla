---------------------------- MODULE RetryProducer ----------------------------
(***************************************************************************)
(* The event core with producers that follow its retry advice.             *)
(* core/robotos_core.h leaves the scheduling to the producer ("The         *)
(* producer owns all scheduling decisions"), so the producer here is an    *)
(* assumption: it makes one request at a time, waits as many ticks as the  *)
(* decision suggests, tries again when the decision says so, and reports a *)
(* request it is told to drop.  Its attempts are the posts of RobotCore.   *)
(***************************************************************************)
EXTENDS CoreInspection

CONSTANTS Producers,
          MaxRequests    \* bound on the requests each producer settles

ASSUME ProducersAssumption == /\ IsFiniteSet(Producers)
                              /\ MaxRequests \in Nat
                              /\ NoEvent \notin Types

VARIABLES
  kind,      \* the entry point each producer uses
  want,      \* the type it is trying to post, or NoEvent
  wait,      \* the ticks it still lets pass
  answer,    \* the status of its last attempt
  done,      \* how many of its requests were accepted
  given_up   \* how many it dropped and reported

requests == <<kind, want, wait, answer, done, given_up>>
retryVars == <<vars, requests>>

RetryInit ==
  /\ Init
  /\ kind \in [Producers -> PostKinds]
  /\ want = [p \in Producers |-> NoEvent]
  /\ wait = [p \in Producers |-> 0]
  /\ answer = [p \in Producers |-> "OK"]
  /\ done = [p \in Producers |-> 0]
  /\ given_up = [p \in Producers |-> 0]

Request(p, t) ==
  /\ want[p] = NoEvent
  /\ done[p] + given_up[p] < MaxRequests
  /\ want' = [want EXCEPT ![p] = t]
  /\ UNCHANGED <<vars, kind, wait, answer, done, given_up>>

\* The post returned status; the producer does what the core advises.
Follow(p, status) ==
  LET advice == RetryDecision(status) IN
  /\ answer' = [answer EXCEPT ![p] = status]
  /\ wait' = [wait EXCEPT ![p] = advice.wait]
  /\ want' = IF advice.action \in {"SOON", "AFTER_TICK"} THEN want
             ELSE [want EXCEPT ![p] = NoEvent]
  /\ given_up' = IF advice.drop THEN [given_up EXCEPT ![p] = @ + 1] ELSE given_up
  /\ done' = IF advice.action = "NONE" THEN [done EXCEPT ![p] = @ + 1] ELSE done
  /\ UNCHANGED kind

\* One call of robotos_core_post_event or robotos_core_try_post_event.
MayTry(p) == want[p] \in Types /\ wait[p] = 0

\* The core is not READY, or its queue is not open yet.
TryTooEarly(p) ==
  /\ MayTry(p)
  /\ ~Ready \/ (Admissible(want[p]) /\ ~queue_open)
  /\ Follow(p, "INVALID_STATE")
  /\ UNCHANGED vars

TryRejected(p) == MayTry(p) /\ RejectPost(want[p]) /\ Follow(p, "INVALID_ARG")

TryThrottled(p) == /\ MayTry(p) /\ kind[p] = "try_post"
                   /\ ThrottlePost(want[p])
                   /\ Follow(p, "THROTTLED")

Reaches(p) == MayTry(p) /\ (kind[p] = "post" \/ ~OverBudget)

TryAccepted(p) == Reaches(p) /\ AcceptPost(want[p]) /\ Follow(p, "OK")

TryDropped(p) == Reaches(p) /\ DropPost(want[p]) /\ Follow(p, "FULL")

Attempt(p) == \/ TryTooEarly(p) \/ TryRejected(p) \/ TryThrottled(p)
              \/ TryAccepted(p) \/ TryDropped(p)

TickPasses == /\ Tick
              /\ wait' = [p \in Producers |-> IF wait[p] > 0 THEN wait[p] - 1 ELSE 0]
              /\ UNCHANGED <<kind, want, answer, done, given_up>>

CoreStep == /\ \/ FirstInit \/ InitAgain \/ CallTooEarly
               \/ \E n \in 1 .. MaxDrain : DispatchEvents(n)
               \/ CallStep \/ TableStep
            /\ UNCHANGED requests

RetryNext == \/ CoreStep
             \/ TickPasses
             \/ \E p \in Producers : Attempt(p) \/ \E t \in Types : Request(p, t)

RetrySpec == RetryInit /\ [][RetryNext]_retryVars

\* The main loop of devkit_runtime_run ticks for ever, whatever else the
\* thread does between two ticks (hence SF), calls of the core go on, and a
\* producer with a request goes on trying.  Nobody has to make requests.
RetryFairSpec ==
  /\ RetrySpec
  /\ WF_retryVars(FirstInit /\ UNCHANGED requests)
  /\ SF_retryVars(TickPasses)
  /\ WF_retryVars(CallStep /\ UNCHANGED requests)
  /\ \A p \in Producers : WF_retryVars(Attempt(p))

-----------------------------------------------------------------------------
RequestsTypeOK ==
  /\ kind \in [Producers -> PostKinds]
  /\ want \in [Producers -> Types \cup {NoEvent}]
  /\ wait \in [Producers -> 0 .. 1]
  /\ answer \in [Producers -> Statuses]
  /\ done \in [Producers -> Nat]
  /\ given_up \in [Producers -> Nat]

\* Producers that only use try_post_event can neither fill the queue nor lose
\* an event, if it has room for one tick's budget and one more.
ThrottleKeepsRoom ==
  (Capacity > Budget + 1 /\ \A p \in Producers : kind[p] = "try_post")
     => Len(queue) <= Budget + 1 /\ dropped_count = 0

\* A request is kept exactly as long as its last status is one that
\* robotos_core_status_is_retryable names, so the two mappings of the code
\* agree; a wait is only ever for a queue without room; and what was given
\* up was given up for its type.
AdviceFollowed ==
  \A p \in Producers :
     /\ IsRetryable(answer[p]) => want[p] # NoEvent
     /\ wait[p] > 0 => answer[p] \in {"FULL", "THROTTLED"}
     /\ given_up[p] > 0 => \E t \in Types : ~Admissible(t)
     /\ wait[p] > 0 => Ready /\ accepted_count > 0

\* What all producers together have counted: each the first so many of the
\* requests it may settle.
Total(f) == Cardinality({r \in Producers \X (1 .. MaxRequests) : r[2] <= f[r[1]]})

\* The producers' books and the core's agree, however often a request was
\* tried: each accepted event is one request, each rejection one request
\* given up, and a drop or a throttle is a refusal that loses nothing.
RequestsAccounted ==
  /\ Total(done) = accepted_count
  /\ Total(given_up) = rejected_count
  /\ RequestsTypeOK /\ AdviceFollowed

Settled == Total(done) + Total(given_up)
Wanting == {p \in Producers : want[p] # NoEvent}

\* While a request is wanted, some request is settled: retrying producers
\* never block each other for ever (one of them may well starve another).
RequestsSettle ==
  \A k \in 0 .. Cardinality(Producers) * MaxRequests :
     (Settled = k /\ Wanting # {}) ~> Settled > k
=============================================================================
