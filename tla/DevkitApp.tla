------------------------------ MODULE DevkitApp ------------------------------
(***************************************************************************)
(* devkit/src/devkit_app_state.c with devkit_probe_adapter.c behind it:    *)
(* button presses and UART bytes drive the application state, and every    *)
(* change of it is forwarded to the probe translator, which follows its    *)
(* own table.  Both run in the thread of the core, one call at a time.     *)
(* The answers of devkit_uart_producer.c are formed from the application's *)
(* state before and after a byte.                                          *)
(***************************************************************************)
EXTENDS Naturals

CONSTANTS Bytes,      \* the bytes the host sends
          MaxInputs,  \* bound on the presses and bytes
          ProbeFails  \* TRUE when the probe adapter's init may fail

VARIABLES
  up,             \* whether devkit_runtime_init has come past this module
  app,            \* the statics of devkit_app_state.c
  probe_ready,    \* s_initialized of devkit_probe_adapter.c
  fsm, bridge,    \* s_probe_translator
  answer          \* the kind of the last UART response

appVars == <<up, app, probe_ready, fsm, bridge, answer>>

Probe == INSTANCE ProbeTranslator WITH MaxAdapterEvents <- MaxInputs

FreshApp == [state |-> "IDLE", transitions |-> 0, button_count |-> 0,
             uart_count |-> 0, ignored_count |-> 0]

\* Static storage; the enum's zero is IDLE.
Init == /\ up = FALSE
        /\ app = FreshApp
        /\ probe_ready = FALSE
        /\ Probe!Init
        /\ answer = "none"

\* devkit_app_state_init and devkit_probe_adapter_init, one after the other in
\* devkit_runtime_init; a probe that fails is logged and stays unavailable.
Start == /\ ~up
         /\ up' = TRUE
         /\ app' = FreshApp
         /\ \/ Probe!PtInit /\ probe_ready' = TRUE
            \/ ProbeFails /\ probe_ready' = FALSE /\ UNCHANGED <<fsm, bridge>>
         /\ UNCHANGED answer

\* Slip: the application's reset is not forwarded.
ForwardNoReset(type, arg0) ==
  IF probe_ready /\ arg0 # "RESET" THEN Probe!DispatchAdapterEvent(type, arg0)
                                   ELSE UNCHANGED <<fsm, bridge>>

\* devkit_probe_adapter_dispatch; its status is ignored by the callers.
Forward(type, arg0) ==
  IF probe_ready THEN Probe!DispatchAdapterEvent(type, arg0) ELSE UNCHANGED <<fsm, bridge>>

\* What a transition into each state tells the probe.
Notify(next) ==
  CASE next = "ARMED"  -> Forward("CONFIG", "NONE")
    [] next = "ACTIVE" -> Forward("COMMAND", "START")
    [] next = "IDLE"   -> Forward("COMMAND", "RESET")
    [] OTHER           -> UNCHANGED <<fsm, bridge>>

Transition(a, next) == [a EXCEPT !.state = next, !.transitions = @ + 1]

NextByButton == [IDLE |-> "ARMED", ARMED |-> "ACTIVE", ACTIVE |-> "IDLE"]

OnButton ==
  /\ up
  /\ app' = [Transition(app, NextByButton[app.state]) EXCEPT !.button_count = @ + 1]
  /\ Notify(NextByButton[app.state])
  /\ UNCHANGED <<up, probe_ready, answer>>

\* Letters are taken in either case.
Capitals == [A |-> "a", S |-> "s", R |-> "r", D |-> "d", V |-> "v", L |-> "l", T |-> "t"]
Command(b) == IF b \in DOMAIN Capitals THEN Capitals[b] ELSE b

Target == [a |-> "ARMED", s |-> "ACTIVE", r |-> "IDLE"]
Queries == {"?", "v", "l", "t"}

\* Whether a command changes the state; 'd' disarms and does nothing else.
Moves(c) == \/ c \in DOMAIN Target /\ app.state # Target[c]
            \/ c = "d" /\ app.state = "ARMED"
Goal(c) == IF c = "d" THEN "IDLE" ELSE Target[c]

\* Slip: a redundant command is answered but not counted.
IgnoresUnknownOnly(c) == c \notin DOMAIN Target \cup Queries \cup {"d"}

\* A redundant command and a byte that is no command are counted as ignored.
Ignores(c) == \/ c \in DOMAIN Target /\ app.state = Target[c]
              \/ c \notin DOMAIN Target \cup Queries \cup {"d"}

\* devkit_uart_emit_tx_response, from the transitions before and after.
Answer(c, changed) ==
  CASE c \in DOMAIN Target -> IF changed THEN "OK" ELSE "OK unchanged"
    [] c = "d" -> IF changed THEN "OK disarm" ELSE "OK no-op"
    [] c \in Queries -> "REPORT"
    [] OTHER -> "ERR ignored"

\* The UART handler: snapshot, application, snapshot, response.
OnUartByte(b) ==
  LET c == Command(b)
  IN /\ up
     /\ app' = [(IF Moves(c) THEN Transition(app, Goal(c)) ELSE app)
                  EXCEPT !.uart_count = @ + 1,
                         !.ignored_count = IF Ignores(c) THEN @ + 1 ELSE @]
     /\ IF Moves(c) THEN Notify(Goal(c)) ELSE UNCHANGED <<fsm, bridge>>
     /\ answer' = Answer(c, app'.transitions # app.transitions)
     /\ UNCHANGED <<up, probe_ready>>

Next == \/ Start
        \/ app.button_count + app.uart_count < MaxInputs
             /\ (OnButton \/ \E b \in Bytes : OnUartByte(b))

Spec == Init /\ [][Next]_appVars

-----------------------------------------------------------------------------
AppStates == {"IDLE", "ARMED", "ACTIVE"}
Answers == {"none", "OK", "OK unchanged", "OK disarm", "OK no-op", "REPORT", "ERR ignored"}

\* Every variable keeps its type, and the probe's stay those of its own module.
TypeOK ==
  /\ up \in BOOLEAN /\ probe_ready \in BOOLEAN
  /\ app \in [state : AppStates, transitions : Nat, button_count : Nat,
              uart_count : Nat, ignored_count : Nat]
  /\ answer \in Answers
  /\ Probe!TypeOK

\* The two machines follow different tables, and how far they may drift apart
\* is bounded: IDLE brings both together, and in the other states the probe is
\* at most ahead (ACTIVE when re-armed) or left behind (IDLE when started
\* without being armed first).
ProbeFollowsApp ==
  probe_ready => /\ app.state = "IDLE"   => fsm.current_state = "IDLE"
                 /\ app.state = "ARMED"  => fsm.current_state \in {"READY", "ACTIVE"}
                 /\ app.state = "ACTIVE" => fsm.current_state \in {"ACTIVE", "IDLE"}

\* The host is told "unchanged" or "ignored" exactly when the application
\* counted the byte as ignored, although the two decide it separately.
AnswersMatchCounters ==
  [][app'.uart_count > app.uart_count =>
       (answer' \in {"OK unchanged", "ERR ignored"}
          <=> app'.ignored_count = app.ignored_count + 1)]_appVars
=============================================================================
