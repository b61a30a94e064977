---------------------------- MODULE ButtonProducer ----------------------------
(***************************************************************************)
(* devkit/src/devkit_button_producer.c: the GPIO interrupt that debounces  *)
(* presses by a wrapping millisecond clock and posts the others, and the   *)
(* handler the core calls for them.  What the post returns is given by the *)
(* core; on its own this module lets it return anything the core may.      *)
(***************************************************************************)
EXTENDS Integers

CONSTANTS Debounce,    \* DEVKIT_BUTTON_DEBOUNCE_MS
          ClockWidth,  \* k_uptime_get_32 wraps here (2^32 ms)
          MaxUptime,   \* bound on the uptime
          MaxPresses   \* bound on the presses

ASSUME ButtonAssumption ==
  /\ Debounce \in Nat \ {0} /\ ClockWidth \in Nat \ {0} /\ Debounce < ClockWidth
  /\ MaxUptime \in Nat /\ MaxPresses \in Nat

VARIABLES
  uptime,     \* real milliseconds since boot
  btn,        \* the module's statics
  pending,    \* events posted and not handled yet
  accepted_at \* the uptimes of the last two presses that passed the guard, or -1

buttonVars == <<uptime, btn, pending, accepted_at>>

Clock == uptime % ClockWidth

\* Static storage; seq numbers the interrupts.
FreshButton == [attempted |-> 0, ok |-> 0, full |-> 0, debounce |-> 0, other |-> 0,
                last_accepted_ms |-> 0, seq |-> 1, handled |-> 0]

Init == /\ uptime = 0
        /\ btn = FreshButton
        /\ pending = 0
        /\ accepted_at = [previous |-> -1, last |-> -1]

Elapses == /\ uptime < MaxUptime
           /\ uptime' = uptime + 1
           /\ UNCHANGED <<btn, pending, accepted_at>>

\* Slip: the difference is not taken modulo the clock.
TooSoonNoWrap == Clock - btn.last_accepted_ms < Debounce

\* Unsigned subtraction.
TooSoon == (Clock - btn.last_accepted_ms) % ClockWidth < Debounce

Filter ==
  /\ TooSoon
  /\ btn' = [btn EXCEPT !.attempted = @ + 1, !.debounce = @ + 1, !.seq = @ + 1]

Count(r) == CASE r = "OK" -> "ok" [] r = "FULL" -> "full" [] OTHER -> "other"

\* Slip: only a press the core took starts the window.
PassWindowIfOk(r) ==
  /\ ~TooSoon
  /\ btn' = [btn EXCEPT !.attempted = @ + 1, !.seq = @ + 1,
                        !.last_accepted_ms = IF r = "OK" THEN Clock ELSE @, ![Count(r)] = @ + 1]

\* The window starts before the post, whatever the post returns.
Pass(r) ==
  /\ ~TooSoon
  /\ btn' = [btn EXCEPT !.attempted = @ + 1, !.seq = @ + 1, !.last_accepted_ms = Clock,
                        ![Count(r)] = @ + 1]

Handle == btn' = [btn EXCEPT !.handled = @ + 1]

-----------------------------------------------------------------------------
(* The module on its own, against a core that may refuse any post.          *)

Bounces == /\ btn.attempted < MaxPresses
           /\ Filter
           /\ UNCHANGED <<uptime, pending, accepted_at>>

Passes(r) == /\ btn.attempted < MaxPresses
             /\ Pass(r)
             /\ pending' = pending + (IF r = "OK" THEN 1 ELSE 0)
             /\ accepted_at' = [previous |-> accepted_at.last, last |-> uptime]
             /\ UNCHANGED uptime

Handled == /\ pending > 0
           /\ pending' = pending - 1
           /\ Handle
           /\ UNCHANGED <<uptime, accepted_at>>

Next == \/ Elapses
        \/ Bounces
        \/ \E r \in {"OK", "FULL", "INVALID_STATE"} : Passes(r)
        \/ Handled

Spec == Init /\ [][Next]_buttonVars

-----------------------------------------------------------------------------
\* Every field keeps its type; the stored time is one the clock can show.
TypeOK ==
  /\ uptime \in 0 .. MaxUptime
  /\ btn \in [attempted : 0 .. MaxPresses, ok : Nat, full : Nat, debounce : Nat, other : Nat,
              last_accepted_ms : 0 .. ClockWidth - 1, seq : 1 .. MaxPresses + 1, handled : Nat]
  /\ pending \in Nat
  /\ accepted_at \in [previous : -1 .. MaxUptime, last : -1 .. MaxUptime]

\* Presses that pass are a full window of real time apart, also when the clock
\* wraps between them and when the uptime is far past its width.
PassesAreApart ==
  accepted_at.previous >= 0 => accepted_at.last - accepted_at.previous >= Debounce

\* The guard hides no deliberate press: an edge a full window after the last
\* one that passed is filtered only if the clock came around to it again.  The
\* very first press has no predecessor: its window is measured from uptime 0.
FilterOnlyBounces ==
  btn'.debounce > btn.debounce /\ accepted_at.last >= 0 =>
     \/ uptime - accepted_at.last < Debounce
     \/ uptime - accepted_at.last >= ClockWidth

\* The debounce keeps every bounce out and lets every press in.
DebounceExact == [][PassesAreApart' /\ FilterOnlyBounces]_buttonVars
=============================================================================
