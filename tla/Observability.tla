---------------------------- MODULE Observability ----------------------------
(***************************************************************************)
(* The report of devkit/src/devkit_observability.c and its neighbours: the *)
(* main loop prints one line for each part of the program.  The core's     *)
(* line is one snapshot; the button's and the UART's counters are copied   *)
(* field by field while their interrupts count on; the other lines are of  *)
(* data only the printing thread changes.                                  *)
(***************************************************************************)
EXTENDS Devkit

CONSTANT LogInterval   \* DEVKIT_OBSERVABILITY_LOG_INTERVAL_TICKS

ASSUME ReportAssumption == LogInterval \in Nat \ {0} /\ CounterWidth % LogInterval = 0

VARIABLES at,      \* the line being printed, "none" between reports
          copied,  \* how many fields of that line have been copied
          line     \* what has been printed in this report

reportVars == <<at, copied, line>>

\* robotos_core_snapshot, as far as Devkit has its fields.
CoreLine == [accepted |-> accepted_count, dropped |-> dropped_count % CounterWidth,
             pending |-> Len(queue), unhandled |-> unhandled_count]

TimerLine == [ok |-> tmr.ok, dropped |-> tmr.dropped]

\* Slip: the total is copied after the outcomes it is the sum of.
ButtonOrderTotalLast == <<"ok", "full", "debounce", "other", "handled", "attempted">>

\* The order of the assignments in devkit_button_producer_get_stats.
ButtonOrder == <<"attempted", "ok", "full", "debounce", "other", "handled">>

\* And in devkit_uart_producer_get_stats.
UartOrder == <<"rx", "ok", "full", "handled">>

AppLine == [button |-> app.button_count, uart |-> app.uart_count]

FsmReadings == [events |-> fsm.event_count, stays |-> fsm.no_transition_count]

BridgeReadings == [mapped |-> bridge.mapped_count, unmapped |-> bridge.unmapped_count]

NoProbe == [fsm    |-> [events |-> 0, stays |-> 0],
            bridge |-> [mapped |-> 0, unmapped |-> 0]]

ProbeLine == IF probe_ready THEN [fsm |-> FsmReadings, bridge |-> BridgeReadings] ELSE NoProbe

Blank == [core    |-> [accepted |-> 0, dropped |-> 0, pending |-> 0, unhandled |-> 0],
          timer   |-> [ok |-> 0, dropped |-> 0],
          button  |-> [f \in {ButtonOrder[i] : i \in 1 .. Len(ButtonOrder)} |-> 0],
          uart    |-> [f \in {UartOrder[i] : i \in 1 .. Len(UartOrder)} |-> 0],
          app     |-> [button |-> 0, uart |-> 0],
          probe   |-> NoProbe]

ReportInit == Init /\ at = "none" /\ copied = 0 /\ line = Blank

-----------------------------------------------------------------------------
\* Due at the end of every LogInterval-th iteration, and once before the first.
ReportDue == at = "none" /\ pc = "loop" /\ tick_count % LogInterval = 0

LogCore == /\ ReportDue
           /\ line' = [line EXCEPT !.core = CoreLine]
           /\ at' = "timer"
           /\ UNCHANGED <<copied, vars>>

LogTimer == /\ at = "timer"
            /\ line' = [line EXCEPT !.timer = TimerLine]
            /\ at' = "button"
            /\ UNCHANGED <<copied, vars>>

\* One assignment of a get_stats; the last one goes on to the next line.
Copy(order, next) ==
  /\ copied' = IF copied + 1 = Len(order) THEN 0 ELSE copied + 1
  /\ at' = IF copied + 1 = Len(order) THEN next ELSE at
  /\ UNCHANGED vars

CopyButton == /\ at = "button"
              /\ LET f == ButtonOrder[copied + 1] IN line' = [line EXCEPT !.button[f] = btn[f]]
              /\ Copy(ButtonOrder, "uart")

CopyUart == /\ at = "uart"
            /\ LET f == UartOrder[copied + 1] IN line' = [line EXCEPT !.uart[f] = uart[f]]
            /\ Copy(UartOrder, "app")

LogAppAndProbe == /\ at = "app"
                  /\ line' = [line EXCEPT !.app = AppLine, !.probe = ProbeLine]
                  /\ at' = "done"
                  /\ UNCHANGED <<copied, vars>>

LogReport == LogCore \/ LogTimer \/ CopyButton \/ CopyUart \/ LogAppAndProbe

\* The thread goes on when it has printed what was due.
GoesOn == /\ at = "done" \/ (at = "none" /\ ~ReportDue)
          /\ ThreadStep
          /\ at' = "none" /\ line' = Blank /\ UNCHANGED copied

Interrupt == /\ PressFiltered \/ PressPosted \/ Elapses \/ \E b \in Bytes : ByteArrives(b)
             /\ UNCHANGED reportVars

ReportNext == LogReport \/ GoesOn \/ Interrupt

ReportSpec == ReportInit /\ [][ReportNext]_<<vars, reportVars>>

-----------------------------------------------------------------------------
\* How much later one counter of the report is than another, modulo their width.
Lead(later, earlier) == (later - earlier) % CounterWidth

\* A reader may add up a printed report although interrupts count on while it
\* is copied: no line shows an attempt without its outcome, the outcomes the
\* producers show cover what the core's line had accepted and dropped and
\* exceed it at most by the inputs of that time, and the handled inputs are
\* those the application shows.  It holds because totals are copied before
\* their parts and the core's line comes first.
ReportAddsUp ==
  at = "done" =>
    LET b == line.button  u == line.uart  t == line.timer  c == line.core IN
    /\ b.attempted <= b.ok + b.full + b.debounce + b.other
    /\ u.rx <= u.ok + u.full
    /\ Lead(t.ok + b.ok + u.ok, c.accepted) <= MaxInputs
    /\ Lead(t.dropped + b.full + u.full, c.dropped) <= MaxInputs
    /\ b.handled = line.app.button /\ u.handled = line.app.uart
    /\ b.handled + u.handled <= b.ok + u.ok
    /\ line.probe.bridge.mapped = line.probe.fsm.events
=============================================================================
