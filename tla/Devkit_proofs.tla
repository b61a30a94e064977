---------------------------- MODULE Devkit_proofs ----------------------------
(***************************************************************************)
(* Proofs about the devkit program and about the report it prints, for     *)
(* every capacity, period, width and number of inputs.                     *)
(***************************************************************************)
EXTENDS Observability, Arithmetic_proofs, SequenceTheorems, FiniteSetTheorems

-----------------------------------------------------------------------------
(* The application and the probe translator behind it. *)

\* The first of a set of places is one of them.
LEMMA FirstIsOne ==
  ASSUME NEW S \in SUBSET Nat, S # {}
  PROVE  App!Probe!FirstOf(S) \in S
<1>1. \E i \in S : \A j \in S : i <= j
  BY LeastNumber
<1>2. QED
  BY <1>1 DEF App!Probe!FirstOf

Table == {<<"IDLE", "CONFIGURED", "READY">>, <<"READY", "START", "ACTIVE">>,
          <<"ACTIVE", "STOP", "READY">>, <<"READY", "RESET", "IDLE">>,
          <<"ACTIVE", "RESET", "IDLE">>, <<"IDLE", "RESET", "IDLE">>,
          <<"IDLE", "FAULT", "FAULT">>, <<"READY", "FAULT", "FAULT">>,
          <<"ACTIVE", "FAULT", "FAULT">>, <<"FAULT", "RESET", "IDLE">>}

\* The table of the probe's machine, row by row.
LEMMA TableRows ==
  /\ DOMAIN App!Probe!Transitions = 1 .. 10
  /\ \A i \in 1 .. 10 : LET t == App!Probe!Transitions[i] IN
       <<t.from, t.event, t.to>> \in Table
  /\ \A r \in Table : \E i \in 1 .. 10 : LET t == App!Probe!Transitions[i] IN
       r = <<t.from, t.event, t.to>>
<1> DEFINE T == App!Probe!Transitions
<1>1. DOMAIN T = 1 .. 10
  BY DEF App!Probe!Transitions
<1>2. \A i \in 1 .. 10 : \/ i = 1 \/ i = 2 \/ i = 3 \/ i = 4 \/ i = 5
                         \/ i = 6 \/ i = 7 \/ i = 8 \/ i = 9 \/ i = 10
  OBVIOUS
<1>3. \A i \in 1 .. 10 : <<T[i].from, T[i].event, T[i].to>> \in Table
  BY <1>2 DEF App!Probe!Transitions, App!Probe!Transition, Table
<1>4. \A r \in Table : \E i \in 1 .. 10 : r = <<T[i].from, T[i].event, T[i].to>>
  BY DEF App!Probe!Transitions, App!Probe!Transition, Table
<1>5. QED
  BY <1>1, <1>3, <1>4

Machines == [initialized : BOOLEAN, current_state : App!Probe!States \cup {"UNINIT"},
             event_count : Nat, transition_count : Nat, no_transition_count : Nat,
             last_event_id : App!Probe!FwEvents \cup {"NONE"}]

\* A dispatch follows the table, and stays where the table has no row.
LEMMA DispatchFollowsTable ==
  ASSUME fsm \in Machines, NEW e \in App!Probe!FwEvents
  PROVE  LET after == App!Probe!AfterDispatch(e) IN
         /\ after \in Machines /\ after.initialized = fsm.initialized
         /\ after.event_count = fsm.event_count + 1 /\ after.last_event_id = e
         /\ \/ /\ <<fsm.current_state, e, after.current_state>> \in Table
               /\ after.transition_count = fsm.transition_count + 1
               /\ after.no_transition_count = fsm.no_transition_count
            \/ /\ \A to : <<fsm.current_state, e, to>> \notin Table
               /\ after.current_state = fsm.current_state
               /\ after.transition_count = fsm.transition_count
               /\ after.no_transition_count = fsm.no_transition_count + 1
<1> DEFINE T == App!Probe!Transitions
           s == fsm.current_state
           rows == {i \in DOMAIN T : T[i].from = s /\ T[i].event = e}
           after == App!Probe!AfterDispatch(e)
           moved == [fsm EXCEPT !.event_count = @ + 1, !.last_event_id = e]
<1>1. App!Probe!Fired(e) = IF rows = {} THEN {} ELSE {T[App!Probe!FirstOf(rows)]}
  BY DEF App!Probe!Fired
<1>2. CASE rows = {}
  <2>1. \A to : <<s, e, to>> \notin Table
    BY <1>2, TableRows
  <2>2. App!Probe!Fired(e) = {}
    BY <1>1, <1>2
  <2>3. after = [moved EXCEPT !.no_transition_count = @ + 1]
    BY <2>2 DEF App!Probe!AfterDispatch
  <2> HIDE DEF after, T
  <2>4. after = [initialized |-> fsm.initialized, current_state |-> s,
                 event_count |-> fsm.event_count + 1, transition_count |-> fsm.transition_count,
                 no_transition_count |-> fsm.no_transition_count + 1, last_event_id |-> e]
    BY <2>3 DEF Machines
  <2>5. QED
    BY <2>1, <2>4 DEF Machines, after
<1>3. CASE rows # {}
  <2> DEFINE k == App!Probe!FirstOf(rows)
  <2>1. rows \subseteq Nat
    BY TableRows
  <2>2. k \in rows
    BY <1>3, <2>1, FirstIsOne
  <2> HIDE DEF k
  <2>3. k \in 1 .. 10 /\ T[k].from = s /\ T[k].event = e
    BY <2>2, TableRows
  <2>4. <<s, e, T[k].to>> \in Table
    BY <2>3, TableRows
  <2>5. T[k].to \in App!Probe!States
    BY <2>4 DEF Table, App!Probe!States
  <2>6. App!Probe!Fired(e) = {T[k]}
    BY <1>1, <1>3 DEF k
  <2>7. (CHOOSE t \in App!Probe!Fired(e) : TRUE) = T[k]
    BY <2>6
  <2>8. after = [moved EXCEPT !.transition_count = @ + 1, !.current_state = T[k].to]
    BY <2>6, <2>7 DEF App!Probe!AfterDispatch
  <2> HIDE DEF after, T
  <2>9. after = [initialized |-> fsm.initialized, current_state |-> T[k].to,
                 event_count |-> fsm.event_count + 1,
                 transition_count |-> fsm.transition_count + 1,
                 no_transition_count |-> fsm.no_transition_count, last_event_id |-> e]
    BY <2>8 DEF Machines
  <2> DEFINE to == T[k].to
  <2>10. <<s, e, to>> \in Table /\ to \in App!Probe!States
    BY <2>4, <2>5
  <2> HIDE DEF to
  <2>11. QED
    BY <2>9, <2>10 DEF Machines, after, to
<1>4. QED
  BY <1>2, <1>3

Bridges == [initialized : BOOLEAN, event_count : Nat, mapped_count : Nat, unmapped_count : Nat,
            last_fw_event_id : App!Probe!FwEvents \cup {"NONE"}]

ProbeInv == App!Probe!TypeOK /\ App!Probe!BridgeAndFsmAgree

\* One event through the machine: along a row, or nowhere.
Follows(e) == \/ <<fsm.current_state, e, fsm'.current_state>> \in Table
              \/ /\ \A to : <<fsm.current_state, e, to>> \notin Table
                 /\ fsm'.current_state = fsm.current_state

\* Which rows of the bridge's table are there, and for which event the first one
\* that matches stands.
LEMMA MappingRows ==
  /\ DOMAIN App!Probe!Mapping = 1 .. 5
  /\ \A i \in 1 .. 5 : App!Probe!Mapping[i].event \in App!Probe!FwEvents
  /\ App!Probe!MatchingRows("CONFIG", "NONE") = {1} /\ App!Probe!Mapping[1].event = "CONFIGURED"
  /\ App!Probe!MatchingRows("COMMAND", "START") = {2} /\ App!Probe!Mapping[2].event = "START"
  /\ App!Probe!MatchingRows("COMMAND", "RESET") = {4} /\ App!Probe!Mapping[4].event = "RESET"
<1> DEFINE M == App!Probe!Mapping
<1>1. DOMAIN M = 1 .. 5
  BY DEF App!Probe!Mapping
<1>2. \A i \in 1 .. 5 : M[i].event \in App!Probe!FwEvents
  BY <1>1 DEF App!Probe!FwEvents
<1>3. \A i \in 1 .. 5 : i = 1 \/ i = 2 \/ i = 3 \/ i = 4 \/ i = 5
  OBVIOUS
<1>4. /\ App!Probe!MatchingRows("CONFIG", "NONE") = {1} /\ M[1].event = "CONFIGURED"
      /\ App!Probe!MatchingRows("COMMAND", "START") = {2} /\ M[2].event = "START"
      /\ App!Probe!MatchingRows("COMMAND", "RESET") = {4} /\ M[4].event = "RESET"
  BY <1>1, <1>3 DEF App!Probe!MatchingRows, App!Probe!Mapping
<1>5. QED
  BY <1>1, <1>2, <1>4

\* An adapter event that has a row, or has none, leaves the two in agreement.
LEMMA AdapterEventKeeps ==
  ASSUME ProbeInv, NEW type, NEW arg0, App!Probe!DispatchAdapterEvent(type, arg0)
  PROVE  /\ ProbeInv' /\ bridge.initialized /\ bridge'.initialized
         /\ \/ App!Probe!MatchingRows(type, arg0) = {} /\ fsm' = fsm
            \/ \E i \in App!Probe!MatchingRows(type, arg0) :
                 LET e == App!Probe!Mapping[i].event IN
                 e \in App!Probe!FwEvents /\ fsm'.last_event_id = e /\ Follows(e)
<1>1. fsm \in Machines /\ bridge \in Bridges
  BY DEF ProbeInv, App!Probe!TypeOK, Machines, Bridges
<1>b. /\ bridge.event_count \in Nat /\ bridge.mapped_count \in Nat /\ bridge.unmapped_count \in Nat
      /\ bridge.event_count = bridge.mapped_count + bridge.unmapped_count
  BY <1>1 DEF ProbeInv, App!Probe!BridgeAndFsmAgree, Bridges
<1>f. /\ fsm.event_count \in Nat /\ fsm.transition_count \in Nat /\ fsm.no_transition_count \in Nat
      /\ fsm.event_count = fsm.transition_count + fsm.no_transition_count
  BY <1>1 DEF ProbeInv, App!Probe!BridgeAndFsmAgree, Machines
<1>a. fsm.event_count = bridge.mapped_count /\ fsm.last_event_id = bridge.last_fw_event_id
  BY DEF ProbeInv, App!Probe!BridgeAndFsmAgree
<1>2. CASE App!Probe!Mapped(type, arg0)
  <2> DEFINE rows == App!Probe!MatchingRows(type, arg0)
             i == App!Probe!FirstOf(rows)
             e == App!Probe!Mapping[i].event
  <2>1. rows \in SUBSET (1 .. 5) /\ rows # {} /\ rows \in SUBSET Nat
    BY <1>2, MappingRows DEF App!Probe!Mapped, App!Probe!MatchingRows
  <2>2. i \in rows /\ i \in 1 .. 5
    BY <2>1, FirstIsOne
  <2>3. e \in App!Probe!FwEvents
    BY <2>2, MappingRows
  <2>4. /\ bridge.initialized /\ fsm' = App!Probe!AfterDispatch(e)
        /\ bridge' = [bridge EXCEPT !.event_count = @ + 1, !.mapped_count = @ + 1,
                                    !.last_fw_event_id = e]
    BY <1>2 DEF App!Probe!Mapped
  <2> HIDE DEF rows, i, e
  <2>5. fsm' \in Machines /\ fsm'.event_count = fsm.event_count + 1 /\ fsm'.last_event_id = e
        /\ fsm'.transition_count + fsm'.no_transition_count
              = fsm.transition_count + fsm.no_transition_count + 1
        /\ Follows(e)
    BY <1>1, <2>3, <2>4, DispatchFollowsTable DEF Follows, Machines
  <2>6. bridge' = [initialized |-> TRUE, event_count |-> bridge.event_count + 1,
                   mapped_count |-> bridge.mapped_count + 1,
                   unmapped_count |-> bridge.unmapped_count, last_fw_event_id |-> e]
    BY <1>1, <2>4 DEF Bridges
  <2>7. bridge' \in Bridges
    BY <1>1, <2>3, <2>6 DEF Bridges
  <2>8. fsm'.current_state \in App!Probe!States
    <3>1. fsm.current_state \in App!Probe!States
      BY <2>4 DEF ProbeInv, App!Probe!TypeOK
    <3>2. QED
      BY <2>5, <3>1 DEF Follows, Table, App!Probe!States
  <2>9. App!Probe!TypeOK'
    BY <2>5, <2>7, <2>8 DEF App!Probe!TypeOK, Machines, Bridges
  <2>10. App!Probe!BridgeAndFsmAgree'
    <3>1. bridge'.event_count = bridge'.mapped_count + bridge'.unmapped_count
      BY <1>b, <2>6
    <3>2. fsm'.event_count = bridge'.mapped_count /\ fsm'.last_event_id = bridge'.last_fw_event_id
      BY <1>a, <2>5, <2>6
    <3>3. fsm'.event_count = fsm'.transition_count + fsm'.no_transition_count
      BY <1>f, <2>5
    <3>4. QED
      BY ONLY <3>1, <3>2, <3>3 DEF App!Probe!BridgeAndFsmAgree
  <2>11. QED
    BY <2>2, <2>3, <2>4, <2>5, <2>6, <2>9, <2>10 DEF ProbeInv, rows, e
<1>3. CASE App!Probe!Unmapped(type, arg0)
  <2>1. /\ bridge.initialized /\ fsm' = fsm /\ App!Probe!MatchingRows(type, arg0) = {}
        /\ bridge' = [bridge EXCEPT !.event_count = @ + 1, !.unmapped_count = @ + 1]
    BY <1>3 DEF App!Probe!Unmapped
  <2>2. bridge' = [initialized |-> TRUE, event_count |-> bridge.event_count + 1,
                   mapped_count |-> bridge.mapped_count,
                   unmapped_count |-> bridge.unmapped_count + 1,
                   last_fw_event_id |-> bridge.last_fw_event_id]
    BY <1>1, <2>1 DEF Bridges
  <2>3. bridge' \in Bridges
    BY <1>1, <2>2 DEF Bridges
  <2>4. App!Probe!TypeOK'
    BY <2>1, <2>3 DEF ProbeInv, App!Probe!TypeOK, Bridges
  <2>5. App!Probe!BridgeAndFsmAgree'
    <3>1. bridge'.event_count = bridge'.mapped_count + bridge'.unmapped_count
      BY <1>b, <2>2
    <3>2. fsm'.event_count = bridge'.mapped_count /\ fsm'.last_event_id = bridge'.last_fw_event_id
      BY <1>a, <2>1, <2>2
    <3>3. fsm'.event_count = fsm'.transition_count + fsm'.no_transition_count
      BY <1>f, <2>1
    <3>4. QED
      BY ONLY <3>1, <3>2, <3>3 DEF App!Probe!BridgeAndFsmAgree
  <2>6. QED
    BY <2>1, <2>2, <2>4, <2>5 DEF ProbeInv
<1>4. QED
  BY <1>2, <1>3 DEF App!Probe!DispatchAdapterEvent

\* An adapter event whose row is known.
LEMMA EventOf ==
  ASSUME ProbeInv, NEW type, NEW arg0, NEW i, App!Probe!MatchingRows(type, arg0) = {i},
         App!Probe!DispatchAdapterEvent(type, arg0)
  PROVE  ProbeInv' /\ bridge'.initialized /\ Follows(App!Probe!Mapping[i].event)
BY AdapterEventKeeps

\* Starting over, whichever of the two starts it.
LEMMA FreshProbe ==
  ASSUME fsm' = App!Probe!FreshFsm, bridge' = App!Probe!FreshBridge
  PROVE  ProbeInv' /\ bridge'.initialized
BY DEF ProbeInv, App!Probe!TypeOK, App!Probe!BridgeAndFsmAgree, App!Probe!FreshFsm,
       App!Probe!FreshBridge, App!Probe!States

Apps == [state : App!AppStates, transitions : Nat, button_count : Nat, uart_count : Nat,
         ignored_count : Nat]

\* The application and the probe behind it: what TypeOK says, that the two
\* halves of the probe agree, and how far it may be from the application.
AppInv ==
  /\ up \in BOOLEAN /\ probe_ready \in BOOLEAN
  /\ app \in Apps
  /\ answer \in App!Answers
  /\ ProbeInv /\ App!ProbeFollowsApp
  /\ probe_ready => bridge.initialized
  /\ ~up => app = App!FreshApp

\* What the application tells the probe about a change keeps the two in touch.
LEMMA NotifyKeeps ==
  ASSUME AppInv, NEW next \in App!AppStates, next # app.state,
         App!Notify(next), app'.state = next, probe_ready' = probe_ready
  PROVE  /\ ProbeInv' /\ App!ProbeFollowsApp' /\ (probe_ready' => bridge'.initialized)
<1> DEFINE P == fsm.current_state
<1>1. ProbeInv /\ App!ProbeFollowsApp /\ app.state \in App!AppStates
      /\ (probe_ready => bridge.initialized)
  BY DEF AppInv, Apps
<1>2. CASE ~probe_ready
  <2>1. UNCHANGED <<fsm, bridge>>
    BY <1>2 DEF App!Notify, App!Forward, App!AppStates
  <2>2. QED
    BY <1>1, <1>2, <2>1 DEF ProbeInv, App!Probe!TypeOK, App!Probe!BridgeAndFsmAgree,
                            App!ProbeFollowsApp
<1>3. CASE probe_ready
  <2>0. /\ app.state = "IDLE" => P = "IDLE"
        /\ app.state = "ARMED" => P \in {"READY", "ACTIVE"}
        /\ app.state = "ACTIVE" => P \in {"ACTIVE", "IDLE"}
    BY <1>1, <1>3, Zenon DEF App!ProbeFollowsApp
  <2>0a. app.state \in {"IDLE", "ARMED", "ACTIVE"}
    BY <1>1 DEF App!AppStates
  <2>1. CASE next = "ARMED"
    <3>1. App!Probe!DispatchAdapterEvent("CONFIG", "NONE")
      BY <1>3, <2>1 DEF App!Notify, App!Forward
    <3>2. ProbeInv' /\ bridge'.initialized /\ Follows("CONFIGURED")
      BY <1>1, <3>1, EventOf, MappingRows
    <3>3. P \in {"IDLE", "ACTIVE"}
      BY <2>0, <2>0a, <2>1
    <3>4. fsm'.current_state \in {"READY", "ACTIVE"}
      BY <3>2, <3>3 DEF Follows, Table
    <3>5. QED
      BY <1>3, <2>1, <3>2, <3>4 DEF App!ProbeFollowsApp
  <2>2. CASE next = "ACTIVE"
    <3>1. App!Probe!DispatchAdapterEvent("COMMAND", "START")
      BY <1>3, <2>2 DEF App!Notify, App!Forward
    <3>2. ProbeInv' /\ bridge'.initialized /\ Follows("START")
      BY <1>1, <3>1, EventOf, MappingRows
    <3>3. P \in {"IDLE", "READY", "ACTIVE"}
      BY <2>0, <2>0a, <2>2
    <3>4. fsm'.current_state \in {"ACTIVE", "IDLE"}
      BY <3>2, <3>3 DEF Follows, Table
    <3>5. QED
      BY <1>3, <2>2, <3>2, <3>4 DEF App!ProbeFollowsApp
  <2>3. CASE next = "IDLE"
    <3>1. App!Probe!DispatchAdapterEvent("COMMAND", "RESET")
      BY <1>3, <2>3 DEF App!Notify, App!Forward
    <3>2. ProbeInv' /\ bridge'.initialized /\ Follows("RESET")
      BY <1>1, <3>1, EventOf, MappingRows
    <3>3. P \in {"IDLE", "READY", "ACTIVE"}
      BY <2>0, <2>0a
    <3>4. fsm'.current_state = "IDLE"
      BY <3>2, <3>3 DEF Follows, Table
    <3>5. QED
      BY <1>3, <2>3, <3>2, <3>4 DEF App!ProbeFollowsApp
  <2>4. QED
    BY <2>1, <2>2, <2>3 DEF App!AppStates
<1>4. QED
  BY <1>2, <1>3

\* Initialising the application and its probe.
LEMMA StartKeeps ==
  ASSUME AppInv, App!Start
  PROVE  AppInv' /\ app' = App!FreshApp /\ app = App!FreshApp
<1>1. app' = App!FreshApp /\ up' = TRUE /\ answer' = answer /\ app = App!FreshApp
  BY DEF App!Start, AppInv
<1>2. app' \in Apps /\ app'.state = "IDLE"
  BY <1>1 DEF App!FreshApp, App!AppStates, Apps
<1>3. CASE App!Probe!PtInit /\ probe_ready' = TRUE
  <2>1. ProbeInv' /\ bridge'.initialized /\ fsm'.current_state = "IDLE"
    BY <1>3, FreshProbe DEF App!Probe!PtInit, App!Probe!FreshFsm
  <2>2. App!ProbeFollowsApp'
    BY <1>2, <2>1 DEF App!ProbeFollowsApp
  <2>3. QED
    BY <1>1, <1>2, <1>3, <2>1, <2>2 DEF AppInv
<1>4. CASE probe_ready' = FALSE /\ UNCHANGED <<fsm, bridge>>
  <2>1. ProbeInv'
    BY <1>4 DEF AppInv, ProbeInv, App!Probe!TypeOK, App!Probe!BridgeAndFsmAgree
  <2>2. QED
    BY <1>1, <1>2, <1>4, <2>1 DEF AppInv, App!ProbeFollowsApp
<1>5. QED
  BY <1>3, <1>4 DEF App!Start

\* A press.
LEMMA ButtonKeeps ==
  ASSUME AppInv, App!OnButton
  PROVE  /\ AppInv' /\ app'.button_count = app.button_count + 1
         /\ app'.uart_count = app.uart_count
<1> DEFINE next == App!NextByButton[app.state]
<1>1. next \in App!AppStates /\ next # app.state
  BY DEF AppInv, Apps, App!AppStates, App!NextByButton
<1>2. /\ up /\ app' = [App!Transition(app, next) EXCEPT !.button_count = @ + 1]
      /\ App!Notify(next) /\ UNCHANGED <<up, probe_ready, answer>>
  BY DEF App!OnButton
<1> HIDE DEF next
<1>0. app \in Apps
  BY DEF AppInv
<1>3. app' = [state |-> next, transitions |-> app.transitions + 1,
              button_count |-> app.button_count + 1, uart_count |-> app.uart_count,
              ignored_count |-> app.ignored_count]
  BY <1>0, <1>2 DEF App!Transition, Apps
<1>4. /\ app' \in Apps
      /\ app'.state = next /\ app'.button_count = app.button_count + 1
      /\ app'.uart_count = app.uart_count
  BY <1>0, <1>1, <1>3 DEF Apps
<1>5. ProbeInv' /\ App!ProbeFollowsApp' /\ (probe_ready' => bridge'.initialized)
  BY <1>1, <1>2, <1>4, NotifyKeeps
<1>6. QED
  BY <1>2, <1>4, <1>5 DEF AppInv

\* A byte, and what the host is answered.
LEMMA ByteKeeps ==
  ASSUME AppInv, NEW b, App!OnUartByte(b)
  PROVE  /\ AppInv' /\ app'.button_count = app.button_count
         /\ app'.uart_count = app.uart_count + 1
         /\ answer' \in {"OK unchanged", "ERR ignored"}
              <=> app'.ignored_count = app.ignored_count + 1
<1> DEFINE c == App!Command(b)
           next == App!Goal(c)
           moves == App!Moves(c)
           ignores == App!Ignores(c)
<1>1. /\ up /\ UNCHANGED <<up, probe_ready>>
      /\ app' = [(IF moves THEN App!Transition(app, next) ELSE app)
                    EXCEPT !.uart_count = @ + 1,
                           !.ignored_count = IF ignores THEN @ + 1 ELSE @]
      /\ IF moves THEN App!Notify(next) ELSE UNCHANGED <<fsm, bridge>>
      /\ answer' = App!Answer(c, app'.transitions # app.transitions)
  BY DEF App!OnUartByte
<1> HIDE DEF c
<1>2. moves => next \in App!AppStates /\ next # app.state
  BY DEF App!Moves, App!Goal, App!Target, App!AppStates
<1> HIDE DEF next
<1>0. app \in Apps
  BY DEF AppInv
<1>3. moves \in BOOLEAN /\ ignores \in BOOLEAN
  BY DEF App!Moves, App!Ignores
<1> HIDE DEF moves, ignores
<1>4. /\ app' \in Apps
      /\ app'.button_count = app.button_count /\ app'.uart_count = app.uart_count + 1
      /\ app'.state = (IF moves THEN next ELSE app.state)
      /\ app'.transitions = app.transitions + (IF moves THEN 1 ELSE 0)
      /\ app'.ignored_count = app.ignored_count + (IF ignores THEN 1 ELSE 0)
  <2>1. CASE moves
    <3>1. app' = [state |-> next, transitions |-> app.transitions + 1,
                  button_count |-> app.button_count, uart_count |-> app.uart_count + 1,
                  ignored_count |-> IF ignores THEN app.ignored_count + 1 ELSE app.ignored_count]
      BY <1>0, <1>1, <2>1 DEF App!Transition, Apps
    <3>2. QED
      BY <1>0, <1>2, <1>3, <2>1, <3>1 DEF Apps
  <2>2. CASE ~moves
    <3>1. app' = [state |-> app.state, transitions |-> app.transitions,
                  button_count |-> app.button_count, uart_count |-> app.uart_count + 1,
                  ignored_count |-> IF ignores THEN app.ignored_count + 1 ELSE app.ignored_count]
      BY <1>0, <1>1, <2>2 DEF Apps
    <3>2. QED
      BY <1>0, <1>3, <2>2, <3>1 DEF Apps
  <2>3. QED
    BY <2>1, <2>2
<1>5. ProbeInv' /\ App!ProbeFollowsApp' /\ (probe_ready' => bridge'.initialized)
  <2>1. CASE moves
    BY <1>1, <1>2, <1>4, <2>1, NotifyKeeps
  <2>2. CASE ~moves
    BY <1>1, <1>4, <2>2 DEF AppInv, ProbeInv, App!Probe!TypeOK, App!Probe!BridgeAndFsmAgree,
                            App!ProbeFollowsApp
  <2>3. QED
    BY <2>1, <2>2
<1>6. answer' = App!Answer(c, moves)
  <2>1. app.transitions \in Nat
    BY <1>0 DEF Apps
  <2>2. (app'.transitions # app.transitions) = moves
    BY <1>3, <1>4, <2>1
  <2>3. QED
    BY <1>1, <2>2
<1>7. /\ answer' \in App!Answers
      /\ answer' \in {"OK unchanged", "ERR ignored"} <=> ignores
  BY <1>6 DEF App!Answer, App!Answers, App!Moves, App!Ignores, App!Target, App!Queries,
              moves, ignores
<1>8. (app'.ignored_count = app.ignored_count + 1) <=> ignores
  <2>1. app.ignored_count \in Nat
    BY <1>0 DEF Apps
  <2>2. QED
    BY <1>3, <1>4, <2>1
<1>9. QED
  BY <1>1, <1>4, <1>5, <1>7, <1>8 DEF AppInv

-----------------------------------------------------------------------------
(* The probe translator on its own, and the application on its own. *)

\* Calls of the translator by anyone, in any order.
LEMMA ProbeStep ==
  ASSUME ProbeInv, [App!Probe!Next]_<<fsm, bridge>>
  PROVE  ProbeInv'
<1>1. CASE App!Probe!PtInit \/ App!Probe!PtReset
  BY <1>1, FreshProbe DEF App!Probe!PtInit, App!Probe!PtReset
<1>2. CASE \E t \in App!Probe!AdapterTypes, a \in App!Probe!AdapterArgs :
             App!Probe!DispatchAdapterEvent(t, a)
  BY <1>2, AdapterEventKeeps
<1>3. CASE UNCHANGED <<fsm, bridge>>
  BY <1>3 DEF ProbeInv, App!Probe!TypeOK, App!Probe!BridgeAndFsmAgree
<1>4. QED
  BY <1>1, <1>2, <1>3 DEF App!Probe!Next

\* The bridge and the machine agree on what came through, whoever calls them.
THEOREM BridgeAgrees == App!Probe!Spec => [](App!Probe!TypeOK /\ BridgeAndFsmAgree)
<1>1. App!Probe!Init => ProbeInv
  BY DEF App!Probe!Init, ProbeInv, App!Probe!TypeOK, App!Probe!BridgeAndFsmAgree
<1>2. ProbeInv /\ [App!Probe!Next]_<<fsm, bridge>> => ProbeInv'
  BY ProbeStep
<1>3. ProbeInv => App!Probe!TypeOK /\ BridgeAndFsmAgree
  BY DEF ProbeInv, BridgeAndFsmAgree
<1>4. QED
  BY <1>1, <1>2, <1>3, PTL DEF App!Probe!Spec

\* Only a reset leaves FAULT, and only a start from READY enters ACTIVE: in all
\* ten rows of the table, whatever adapter events come.
THEOREM FaultIsLatched == App!Probe!Spec => FaultLatched
<1> DEFINE from == fsm.current_state
           to == fsm'.current_state
           Latched == /\ (from = "FAULT" /\ to # "FAULT")
                           => to = "IDLE" /\ fsm'.last_event_id \in {"RESET", "NONE"}
                      /\ (from # "ACTIVE" /\ to = "ACTIVE")
                           => from = "READY" /\ fsm'.last_event_id = "START"
<1>1. App!Probe!Init => ProbeInv
  BY DEF App!Probe!Init, ProbeInv, App!Probe!TypeOK, App!Probe!BridgeAndFsmAgree
<1>2. ProbeInv /\ [App!Probe!Next]_<<fsm, bridge>> => ProbeInv'
  BY ProbeStep
<1>3. ProbeInv /\ [App!Probe!Next]_<<fsm, bridge>> => [Latched]_<<fsm, bridge>>
  <2> SUFFICES ASSUME ProbeInv, App!Probe!Next
               PROVE  Latched
    OBVIOUS
  <2>1. CASE App!Probe!PtInit \/ App!Probe!PtReset
    BY <2>1 DEF App!Probe!PtInit, App!Probe!PtReset, App!Probe!FreshFsm
  <2>2. CASE \E t \in App!Probe!AdapterTypes, a \in App!Probe!AdapterArgs :
               App!Probe!DispatchAdapterEvent(t, a)
    <3>1. \/ fsm' = fsm
          \/ \E e \in App!Probe!FwEvents : fsm'.last_event_id = e /\ Follows(e)
      BY <2>2, AdapterEventKeeps
    <3>2. CASE fsm' = fsm
      BY <3>2
    <3>3. CASE \E e \in App!Probe!FwEvents : fsm'.last_event_id = e /\ Follows(e)
      BY <3>3 DEF Follows, Table
    <3>4. QED
      BY <3>1, <3>2, <3>3
  <2>3. QED
    BY <2>1, <2>2 DEF App!Probe!Next
<1>4. QED
  BY <1>1, <1>2, <1>3, PTL DEF App!Probe!Spec, FaultLatched, App!Probe!FaultLatched

\* What the host is told of a byte, and what is counted.
Told == app'.uart_count > app.uart_count =>
          (answer' \in {"OK unchanged", "ERR ignored"}
             <=> app'.ignored_count = app.ignored_count + 1)

\* Presses and bytes in any order, and the application's start.
LEMMA AppStep ==
  ASSUME AppInv, [App!Next]_App!appVars
  PROVE  AppInv' /\ [Told]_App!appVars
<1>0. app.uart_count \in Nat
  BY DEF AppInv, Apps
<1>1. CASE App!Start
  <2>1. AppInv' /\ app' = app
    BY <1>1, StartKeeps
  <2>2. ~ (app'.uart_count > app.uart_count)
    BY <1>0, <2>1
  <2>3. QED
    BY <2>1, <2>2, Zenon DEF Told
<1>2. CASE App!OnButton
  <2>1. AppInv' /\ app'.uart_count = app.uart_count
    BY <1>2, ButtonKeeps
  <2>2. ~ (app'.uart_count > app.uart_count)
    BY <1>0, <2>1
  <2>3. QED
    BY <2>1, <2>2, Zenon DEF Told
<1>3. CASE \E b \in Bytes : App!OnUartByte(b)
  BY <1>3, ByteKeeps DEF Told
<1>4. CASE UNCHANGED App!appVars
  <2>1. AppInv'
    BY <1>4 DEF App!appVars, AppInv, ProbeInv, App!Probe!TypeOK, App!Probe!BridgeAndFsmAgree,
                App!ProbeFollowsApp, Apps
  <2>2. QED
    BY <1>4, <2>1
<1>5. QED
  BY <1>1, <1>2, <1>3, <1>4 DEF App!Next

\* The application before it is started.
LEMMA AppStarts ==
  App!Init => AppInv
<1> SUFFICES ASSUME App!Init
             PROVE  AppInv
  OBVIOUS
<1>1. app = App!FreshApp /\ App!FreshApp \in Apps
  BY DEF App!Init, Apps, App!FreshApp, App!AppStates
<1>2. ProbeInv
  BY DEF App!Init, App!Probe!Init, ProbeInv, App!Probe!TypeOK, App!Probe!BridgeAndFsmAgree
<1>3. QED
  BY <1>1, <1>2 DEF App!Init, AppInv, App!ProbeFollowsApp, App!Answers

\* How far the probe's state may drift from the application's, after any number
\* of presses and bytes.
THEOREM ProbeFollows == App!Spec => [](App!TypeOK /\ ProbeFollowsApp)
<1>1. AppInv => App!TypeOK /\ ProbeFollowsApp
  BY DEF AppInv, App!TypeOK, Apps, ProbeInv, ProbeFollowsApp
<1>2. AppInv /\ [App!Next]_App!appVars => AppInv'
  BY AppStep
<1>3. QED
  BY <1>1, <1>2, AppStarts, PTL DEF App!Spec

\* "unchanged" or "ignored" is answered exactly when the byte is counted so.
THEOREM AnswersAgree == App!Spec => AnswersMatchCounters
<1>1. AppInv /\ [App!Next]_App!appVars => AppInv' /\ [Told]_App!appVars
  BY AppStep
<1>2. QED
  BY <1>1, AppStarts, PTL DEF App!Spec, AnswersMatchCounters, App!AnswersMatchCounters, Told

-----------------------------------------------------------------------------
(* The inductive invariant of the program. *)

Payloads == Inputs \cup {"beat"}
Buttons  == [attempted : Nat, ok : Nat, full : Nat, debounce : Nat, other : {0},
             last_accepted_ms : 0 .. ClockWidth - 1, seq : Nat, handled : Nat]
Uarts    == [rx : Nat, ok : Nat, full : Nat, handled : Nat]
Timers   == [attempted : 0 .. CounterWidth - 1, ok : 0 .. CounterWidth - 1,
             dropped : 0 .. CounterWidth - 1, init_done : BOOLEAN]
Bursts   == [started : BOOLEAN, seq : 1 .. Attempts + 1, ok : Nat, full : Nat,
             handled : Nat, logged : BOOLEAN]

\* Every variable, those included that TypeOK leaves out.
Types2 ==
  /\ tick_count \in 0 .. CounterWidth - 1
  /\ queue \in Seq(Items) /\ Len(queue) <= Capacity
  /\ ev \in Items \cup {NoItem}
  /\ dropped_count \in Nat /\ unhandled_count = 0 /\ accepted_count \in 0 .. CounterWidth - 1
  /\ registered \subseteq Types /\ enabled \subseteq InputTypes
  /\ clock \in 0 .. ClockWidth - 1
  /\ btn \in Buttons /\ uart \in Uarts /\ tmr \in Timers /\ burst \in Bursts
  /\ posted \in {"none", "OK", "FULL"}
  /\ arrived \in Seq(Payloads) /\ seen \in Seq(Payloads)

\* An event is in the thread's hands only while its handler is called, and a
\* result only while it is not counted; an interrupt is about to be enabled only
\* with its handler in place.
Places ==
  /\ ev # NoItem <=> pc = "handle"
  /\ posted # "none" <=> pc = "timer count"
  /\ pc = "button irq" => "button" \in registered
  /\ pc = "uart irq" => "uart" \in registered

WaitingRegistered == \A i \in 1 .. Len(Waiting) : Waiting[i].type \in registered

\* No interrupt and no producer is started before its handler is there; so
\* whatever waits has one.
AllRegistered ==
  /\ enabled \subseteq registered
  /\ burst.started => "burst" \in registered
  /\ tmr.init_done => "timer" \in registered
  /\ WaitingRegistered

BurstWaiting == Cardinality(Of({"burst"}, Waiting))

\* The burst's events are handled or on their way.
BurstAdds ==
  /\ burst.handled + BurstWaiting = burst.ok
  /\ burst.ok + burst.full = burst.seq - 1

\* What was attempted has its outcome, and the application's counters are the
\* handlers'.
InputsAdd ==
  /\ btn.attempted = btn.ok + btn.full + btn.debounce
  /\ uart.rx = uart.ok + uart.full
  /\ btn.attempted + uart.rx <= MaxInputs
  /\ btn.handled = app.button_count /\ uart.handled = app.uart_count

\* How many posts were accepted, and how many refused, by the producers' counts.
Took    == btn.ok + uart.ok + tmr.ok + burst.ok + (IF posted = "OK" THEN 1 ELSE 0)
Refused == btn.full + uart.full + tmr.dropped + burst.full + (IF posted = "FULL" THEN 1 ELSE 0)

Counts ==
  /\ Took % CounterWidth = accepted_count
  /\ Refused % CounterWidth = dropped_count % CounterWidth
  /\ btn.ok + uart.ok = Len(arrived)
  /\ btn.handled + uart.handled = Len(seen)

IInv == /\ AppInv /\ Types2 /\ Places /\ AllRegistered /\ BurstAdds /\ InputsAdd
        /\ InputsArriveInOrder /\ Counts

-----------------------------------------------------------------------------
(* Places and ranks in a sequence of events. *)

\* The places are finitely many, and so are those up to one of them.
LEMMA PlacesFinite ==
  ASSUME NEW T, NEW s \in Seq(Items)
  PROVE  /\ Of(T, s) \subseteq 1 .. Len(s) /\ IsFiniteSet(Of(T, s))
         /\ Cardinality(Of(T, s)) \in Nat
         /\ \A i \in Of(T, s) : /\ i \in 1 .. Len(s) /\ Rank(T, s, i) \in Nat
                               /\ 1 <= Rank(T, s, i) /\ Rank(T, s, i) <= Cardinality(Of(T, s))
         /\ \A i \in Nat : /\ IsFiniteSet({j \in Of(T, s) : j <= i})
                           /\ Rank(T, s, i) \in Nat
                           /\ Rank(T, s, i) <= Cardinality(Of(T, s))
<1>1. IsFiniteSet(1 .. Len(s))
  BY FS_Interval
<1>2. Of(T, s) \subseteq 1 .. Len(s) /\ IsFiniteSet(Of(T, s))
  BY <1>1, FS_Subset DEF Of
<1>3. Cardinality(Of(T, s)) \in Nat
  BY <1>2, FS_CardinalityType
<1>4. ASSUME NEW i \in Nat
      PROVE  /\ IsFiniteSet({j \in Of(T, s) : j <= i}) /\ Rank(T, s, i) \in Nat
             /\ Rank(T, s, i) <= Cardinality(Of(T, s))
  <2>1. {j \in Of(T, s) : j <= i} \subseteq Of(T, s)
    OBVIOUS
  <2>2. QED
    BY <1>2, <2>1, FS_Subset, FS_CardinalityType DEF Rank
<1>5. ASSUME NEW i \in Of(T, s)
      PROVE  /\ i \in 1 .. Len(s) /\ Rank(T, s, i) \in Nat
             /\ 1 <= Rank(T, s, i) /\ Rank(T, s, i) <= Cardinality(Of(T, s))
  <2> DEFINE R == {j \in Of(T, s) : j <= i}
  <2>1. i \in Nat /\ i \in R
    BY <1>2
  <2>2. IsFiniteSet(R) /\ Cardinality(R) \in Nat
    BY <1>4, <2>1 DEF Rank
  <2>3. Cardinality(R) # 0
    BY ONLY <2>1, <2>2, FS_EmptySet
  <2>4. i \in 1 .. Len(s) /\ Rank(T, s, i) <= Cardinality(Of(T, s))
    BY <1>2, <1>4, <2>1
  <2>5. QED
    BY <2>2, <2>3, <2>4 DEF Rank
<1>6. QED
  BY <1>2, <1>3, <1>4, <1>5

\* An event put at the back has the last place and takes nobody's rank.
LEMMA PlacesOfAppend ==
  ASSUME NEW T, NEW s \in Seq(Items), NEW x \in Items
  PROVE  LET t == Append(s, x) IN
         /\ t \in Seq(Items) /\ Len(t) = Len(s) + 1 /\ t[Len(s) + 1] = x
         /\ \A i \in 1 .. Len(s) : t[i] = s[i]
         /\ \A i \in Of(T, s) : Rank(T, t, i) = Rank(T, s, i)
         /\ x.type \in T => /\ Of(T, t) = Of(T, s) \cup {Len(s) + 1}
                            /\ Cardinality(Of(T, t)) = Cardinality(Of(T, s)) + 1
                            /\ Rank(T, t, Len(s) + 1) = Cardinality(Of(T, s)) + 1
         /\ x.type \notin T => /\ Of(T, t) = Of(T, s)
                               /\ Cardinality(Of(T, t)) = Cardinality(Of(T, s))
<1> DEFINE t == Append(s, x)
<1>1. t \in Seq(Items) /\ Len(t) = Len(s) + 1 /\ t[Len(s) + 1] = x
      /\ \A i \in 1 .. Len(s) : t[i] = s[i]
  BY AppendProperties
<1>2. Len(s) \in Nat
  OBVIOUS
<1> HIDE DEF t
<1>3. Of(T, t) = Of(T, s) \cup (IF x.type \in T THEN {Len(s) + 1} ELSE {})
  BY <1>1, <1>2 DEF Of
<1>4. Of(T, s) \subseteq 1 .. Len(s) /\ IsFiniteSet(Of(T, s)) /\ Cardinality(Of(T, s)) \in Nat
  BY PlacesFinite
<1>5. Len(s) + 1 \notin Of(T, s)
  BY <1>2, <1>4
<1>6. Cardinality(Of(T, t)) = Cardinality(Of(T, s)) + (IF x.type \in T THEN 1 ELSE 0)
  <2>1. CASE x.type \in T
    BY <1>3, <1>4, <1>5, <2>1, FS_AddElement
  <2>2. CASE x.type \notin T
    BY <1>3, <1>4, <2>2
  <2>3. QED
    BY <2>1, <2>2
<1>7. ASSUME NEW i \in Of(T, s)
      PROVE  Rank(T, t, i) = Rank(T, s, i)
  <2>1. {j \in Of(T, t) : j <= i} = {j \in Of(T, s) : j <= i}
    BY <1>2, <1>3, <1>4
  <2>2. QED
    BY <2>1 DEF Rank
<1>8. ASSUME x.type \in T
      PROVE  Rank(T, t, Len(s) + 1) = Cardinality(Of(T, s)) + 1
  <2>1. {j \in Of(T, t) : j <= Len(s) + 1} = Of(T, t)
    BY <1>2, <1>3, <1>4
  <2>2. QED
    BY <1>6, <1>8, <2>1 DEF Rank
<1>9. QED
  BY <1>1, <1>3, <1>6, <1>7, <1>8 DEF t

\* The same numbers, one less each.
LEMMA ShiftedDown ==
  ASSUME NEW A, IsFiniteSet(A), A \subseteq Nat
  PROVE  LET B == {a - 1 : a \in A} IN IsFiniteSet(B) /\ Cardinality(B) = Cardinality(A)
<1> DEFINE B == {a - 1 : a \in A}
           f == [a \in A |-> a - 1]
<1>1. f \in [A -> B] /\ \A b \in B : \E a \in A : f[a] = b
  OBVIOUS
<1>2. \A a, c \in A : f[a] = f[c] => a = c
  OBVIOUS
<1>3. f \in Bijection(A, B)
  BY ONLY <1>1, <1>2 DEF Bijection, Injection, Surjection, IsInjective
<1>4. ExistsBijection(A, B)
  BY <1>3 DEF ExistsBijection
<1>5. QED
  BY ONLY <1>4, IsFiniteSet(A), FS_Bijection

\* When the first event is taken away, the others move up by one place, and by
\* one rank if it was one of them.
LEMMA PlacesOfTail ==
  ASSUME NEW T, NEW s \in Seq(Items), s # <<>>
  PROVE  LET t == Tail(s)
             gone == IF Head(s).type \in T THEN 1 ELSE 0 IN
         /\ t \in Seq(Items) /\ Len(t) = Len(s) - 1
         /\ \A i \in 1 .. Len(t) : t[i] = s[i + 1]
         /\ Cardinality(Of(T, t)) = Cardinality(Of(T, s)) - gone
         /\ \A i \in Of(T, t) : i + 1 \in Of(T, s) /\ Rank(T, t, i) = Rank(T, s, i + 1) - gone
<1> DEFINE t == Tail(s)
           gone == IF Head(s).type \in T THEN 1 ELSE 0
           Up(i) == {j \in Of(T, s) : j <= i}
           Down(i) == {j \in Of(T, t) : j <= i}
<1>1. t \in Seq(Items) /\ Len(t) = Len(s) - 1 /\ Head(s) = s[1] /\ Len(s) \in Nat \ {0}
      /\ \A i \in 1 .. Len(t) : t[i] = s[i + 1]
  BY HeadTailProperties, EmptySeq
<1> HIDE DEF t
<1>2. Of(T, s) \subseteq 1 .. Len(s) /\ Of(T, t) \subseteq 1 .. Len(t)
  BY <1>1, PlacesFinite
<1>3. ASSUME NEW i \in Nat
      PROVE  IsFiniteSet(Down(i)) /\ Cardinality(Down(i)) = Cardinality(Up(i + 1)) - gone
  <2>1. Down(i) = {a - 1 : a \in Up(i + 1) \ {1}}
    <3>1. ASSUME NEW j \in Down(i)
          PROVE  \E a \in Up(i + 1) \ {1} : j = a - 1
      <4>1. j + 1 \in Up(i + 1) \ {1} /\ j = (j + 1) - 1
        BY <1>1, <1>2 DEF Of
      <4>2. QED
        BY <4>1
    <3>2. ASSUME NEW a \in Up(i + 1) \ {1}
          PROVE  a - 1 \in Down(i)
      <4>1. a \in 2 .. Len(s) /\ a - 1 \in 1 .. Len(t) /\ (a - 1) + 1 = a /\ a - 1 <= i
        BY <1>1, <1>2
      <4>2. t[a - 1] = s[a]
        BY <1>1, <4>1
      <4>3. QED
        BY <4>1, <4>2 DEF Of
    <3>3. QED
      BY <3>1, <3>2
  <2>2. IsFiniteSet(Up(i + 1)) /\ Up(i + 1) \subseteq Nat
    <3>1. i + 1 \in Nat /\ Of(T, s) \subseteq Nat
      BY <1>2
    <3>2. QED
      BY <3>1, PlacesFinite
  <2>3. Cardinality(Up(i + 1)) \in Nat
    BY <2>2, FS_CardinalityType
  <2>4. gone = IF 1 \in Up(i + 1) THEN 1 ELSE 0
    BY <1>1 DEF Of
  <2>5. IsFiniteSet(Up(i + 1) \ {1})
        /\ Cardinality(Up(i + 1) \ {1}) = Cardinality(Up(i + 1)) - gone
    <3> DEFINE U == Up(i + 1)
               g == gone
    <3>1. IsFiniteSet(U) /\ Cardinality(U) \in Nat /\ g = IF 1 \in U THEN 1 ELSE 0
      BY <2>2, <2>3, <2>4
    <3> HIDE DEF U, g
    <3>2. IsFiniteSet(U \ {1}) /\ Cardinality(U \ {1}) = Cardinality(U) - g
      BY <3>1, FS_RemoveElement
    <3>3. QED
      BY <3>2 DEF U, g
  <2>6. QED
    BY ONLY <2>1, <2>2, <2>5, ShiftedDown
<1>4. Cardinality(Of(T, t)) = Cardinality(Of(T, s)) - gone
  <2>1. Down(Len(t)) = Of(T, t) /\ Up(Len(t) + 1) = Of(T, s) /\ Len(t) \in Nat
    BY <1>1, <1>2
  <2>2. QED
    BY <1>3, <2>1
<1>5. ASSUME NEW i \in Of(T, t)
      PROVE  i + 1 \in Of(T, s) /\ Rank(T, t, i) = Rank(T, s, i + 1) - gone
  <2>1. i \in Nat /\ i + 1 \in Of(T, s)
    BY <1>1, <1>2 DEF Of
  <2>2. QED
    BY <1>3, <2>1 DEF Rank
<1>6. QED
  BY <1>1, <1>4, <1>5 DEF t

-----------------------------------------------------------------------------
(* The order of the inputs. *)

\* InputsArriveInOrder, of any three sequences.
InOrder(a, s, w) ==
  /\ Len(a) = Len(s) + Cardinality(Of(InputTypes, w))
  /\ \A i \in 1 .. Len(s) : a[i] = s[i]
  /\ \A i \in Of(InputTypes, w) : a[Len(s) + Rank(InputTypes, w, i)] = w[i].input

\* An accepted input is the last to be seen.
LEMMA OrderAfterPut ==
  ASSUME NEW a \in Seq(Payloads), NEW s \in Seq(Payloads), NEW w \in Seq(Items),
         InOrder(a, s, w), NEW x \in Items
  PROVE  InOrder(IF x.type \in InputTypes THEN Append(a, x.input) ELSE a, s, Append(w, x))
<1> DEFINE n == Len(s)
           T == InputTypes
           C == Cardinality(Of(T, w))
           v == Append(w, x)
           b == IF x.type \in T THEN Append(a, x.input) ELSE a
<1>1. /\ n \in Nat /\ Len(a) \in Nat /\ Len(w) \in Nat /\ C \in Nat /\ Len(a) = n + C
      /\ \A i \in 1 .. n : a[i] = s[i]
      /\ \A i \in Of(T, w) : a[n + Rank(T, w, i)] = w[i].input
  BY PlacesFinite DEF InOrder
<1>2. \A i \in Of(T, w) : i \in 1 .. Len(w) /\ n + Rank(T, w, i) \in 1 .. Len(a)
  <2>1. \A i \in Of(T, w) : /\ i \in 1 .. Len(w) /\ Rank(T, w, i) \in Nat
                             /\ 1 <= Rank(T, w, i) /\ Rank(T, w, i) <= C
    BY PlacesFinite
  <2> HIDE DEF n, C
  <2>2. QED
    BY <1>1, <2>1
<1>3. x.input \in Payloads
  BY DEF Items, Payloads
<1>4. CASE x.type \in T
  <2>1. /\ b \in Seq(Payloads) /\ Len(b) = Len(a) + 1 /\ b[Len(a) + 1] = x.input
        /\ \A i \in 1 .. Len(a) : b[i] = a[i]
    BY <1>3, <1>4, AppendProperties
  <2>2. /\ Of(T, v) = Of(T, w) \cup {Len(w) + 1} /\ Cardinality(Of(T, v)) = C + 1
        /\ \A i \in Of(T, w) : Rank(T, v, i) = Rank(T, w, i) /\ v[i] = w[i]
        /\ Rank(T, v, Len(w) + 1) = C + 1 /\ v[Len(w) + 1] = x
    BY <1>2, <1>4, PlacesOfAppend
  <2> HIDE DEF b, v, n, C
  <2>3. Len(b) = n + Cardinality(Of(T, v))
    BY <1>1, <2>1, <2>2
  <2>4. \A i \in 1 .. n : b[i] = s[i]
    BY <1>1, <2>1
  <2>5. ASSUME NEW i \in Of(T, v)
        PROVE  b[n + Rank(T, v, i)] = v[i].input
    <3>1. CASE i \in Of(T, w)
      BY <1>1, <1>2, <2>1, <2>2, <3>1
    <3>2. CASE i = Len(w) + 1
      <4>1. n + (C + 1) = Len(a) + 1
        BY <1>1
      <4>2. QED
        BY <2>1, <2>2, <3>2, <4>1
    <3>3. QED
      BY <2>2, <3>1, <3>2
  <2>6. QED
    BY <2>3, <2>4, <2>5 DEF InOrder, b, v, n
<1>5. CASE x.type \notin T
  <2>1. /\ Of(T, v) = Of(T, w) /\ Cardinality(Of(T, v)) = C
        /\ \A i \in Of(T, w) : Rank(T, v, i) = Rank(T, w, i) /\ v[i] = w[i]
    <3>1. Of(T, v) = Of(T, w) /\ Cardinality(Of(T, v)) = C
      BY <1>5, PlacesOfAppend
    <3>2. \A i \in Of(T, w) : Rank(T, v, i) = Rank(T, w, i) /\ v[i] = w[i]
      BY <1>2, PlacesOfAppend
    <3>3. QED
      BY <1>1, <3>1, <3>2
  <2>2. QED
    BY <1>1, <1>5, <2>1 DEF InOrder
<1>6. QED
  BY <1>4, <1>5

\* The input that is handled is the next one seen.
LEMMA OrderAfterHandled ==
  ASSUME NEW a \in Seq(Payloads), NEW s \in Seq(Payloads), NEW w \in Seq(Items), w # <<>>,
         InOrder(a, s, w)
  PROVE  InOrder(a, IF Head(w).type \in InputTypes THEN Append(s, Head(w).input) ELSE s, Tail(w))
<1> DEFINE n == Len(s)
           T == InputTypes
           C == Cardinality(Of(T, w))
           t == Tail(w)
           r == IF Head(w).type \in T THEN Append(s, Head(w).input) ELSE s
<1>1. /\ n \in Nat /\ Len(a) \in Nat /\ C \in Nat /\ Len(a) = n + C
      /\ \A i \in 1 .. n : a[i] = s[i]
      /\ \A i \in Of(T, w) : a[n + Rank(T, w, i)] = w[i].input
  BY PlacesFinite DEF InOrder
<1>2. Head(w) = w[1] /\ Head(w) \in Items /\ 1 \in 1 .. Len(w) /\ Head(w).input \in Payloads
  <2>1. Head(w) = w[1] /\ Head(w) \in Items /\ 1 \in 1 .. Len(w)
    BY HeadTailProperties, EmptySeq
  <2>2. QED
    BY <2>1 DEF Items, Payloads
<1>3. CASE Head(w).type \in T
  <2>1. /\ r \in Seq(Payloads) /\ Len(r) = n + 1 /\ r[n + 1] = Head(w).input
        /\ \A i \in 1 .. n : r[i] = s[i]
    BY <1>2, <1>3, AppendProperties
  <2>2. /\ Cardinality(Of(T, t)) = C - 1 /\ \A i \in 1 .. Len(t) : t[i] = w[i + 1]
        /\ \A i \in Of(T, t) : i + 1 \in Of(T, w) /\ Rank(T, t, i) = Rank(T, w, i + 1) - 1
    BY <1>3, PlacesOfTail
  <2>3. 1 \in Of(T, w) /\ Rank(T, w, 1) = 1
    <3>1. 1 \in Of(T, w)
      BY <1>2, <1>3 DEF Of
    <3>2. {j \in Of(T, w) : j <= 1} = {1}
      BY <3>1, PlacesFinite
    <3>3. QED
      BY <3>1, <3>2, FS_Singleton DEF Rank
  <2>4. \A i \in Of(T, t) : i \in 1 .. Len(t) /\ Rank(T, t, i) \in Nat /\ Rank(T, w, i + 1) \in Nat
    <3>1. t \in Seq(Items)
      BY PlacesOfTail
    <3>2. \A i \in Of(T, t) : i \in 1 .. Len(t) /\ Rank(T, t, i) \in Nat
      BY <3>1, PlacesFinite
    <3>3. \A i \in Of(T, w) : Rank(T, w, i) \in Nat
      BY PlacesFinite
    <3>4. QED
      BY <2>2, <3>2, <3>3
  <2> HIDE DEF n, C, t, r
  <2>5. Len(a) = Len(r) + Cardinality(Of(T, t))
    BY <1>1, <2>1, <2>2
  <2>6. \A i \in 1 .. n + 1 : a[i] = r[i]
    BY <1>1, <1>2, <2>1, <2>3
  <2>7. ASSUME NEW i \in Of(T, t)
        PROVE  a[(n + 1) + Rank(T, t, i)] = t[i].input
    <3>1. (n + 1) + Rank(T, t, i) = n + Rank(T, w, i + 1)
      BY <1>1, <2>2, <2>4
    <3>2. QED
      BY <1>1, <2>2, <2>4, <3>1
  <2>8. QED
    BY <2>1, <2>5, <2>6, <2>7 DEF InOrder, n, t, r
<1>4. CASE Head(w).type \notin T
  <2>1. /\ Cardinality(Of(T, t)) = C /\ \A i \in 1 .. Len(t) : t[i] = w[i + 1]
        /\ \A i \in Of(T, t) : i + 1 \in Of(T, w) /\ Rank(T, t, i) = Rank(T, w, i + 1)
    <3>1. t \in Seq(Items)
      BY PlacesOfTail
    <3>2. \A i \in Of(T, t) : i + 1 \in Nat /\ i + 1 \in Of(T, w)
      BY <3>1, PlacesFinite, PlacesOfTail
    <3>3. \A i \in Of(T, t) : Rank(T, w, i + 1) \in Nat
      BY <3>2, PlacesFinite
    <3>4. QED
      BY <1>1, <1>4, <3>2, <3>3, PlacesOfTail
  <2>2. \A i \in Of(T, t) : i \in 1 .. Len(t)
    BY PlacesOfTail, PlacesFinite
  <2> HIDE DEF t
  <2>3. QED
    BY <1>1, <1>4, <2>1, <2>2 DEF InOrder, t
<1>5. QED
  BY <1>3, <1>4

-----------------------------------------------------------------------------
(* What waits, before and after a step. *)

\* The order of the inputs, of what waits now.
LEMMA WaitingIs ==
  ASSUME queue \in Seq(Items), ev \in Items \cup {NoItem}
  PROVE  Waiting \in Seq(Items) /\ InputsArriveInOrder = InOrder(arrived, seen, Waiting)
BY DEF Waiting, InputsArriveInOrder, InOrder

\* A post puts its event behind what waits, the event being handled included.
LEMMA PutWaits ==
  ASSUME queue \in Seq(Items), ev \in Items \cup {NoItem}, NEW x \in Items,
         queue' = Append(queue, x), ev' = ev
  PROVE  Waiting' = Append(Waiting, x)
<1>1. CASE ev = NoItem
  BY <1>1, ConcatEmptySeq DEF Waiting
<1>2. CASE ev # NoItem
  <2>1. <<ev>> \in Seq(Items) /\ <<x>> \in Seq(Items)
    BY <1>2
  <2>2. <<ev>> \o (queue \o <<x>>) = (<<ev>> \o queue) \o <<x>>
    BY <2>1, ConcatAssociative
  <2>3. (<<ev>> \o queue) \in Seq(Items)
    BY <2>1
  <2>4. QED
    BY <1>2, <2>2, <2>3, AppendIsConcat DEF Waiting
<1>3. QED
  BY <1>1, <1>2

\* Taking an event changes nothing of what waits: it is the first still.
LEMMA TakeWaits ==
  ASSUME queue \in Seq(Items), queue # <<>>, ev = NoItem,
         queue' = Tail(queue), ev' = Head(queue)
  PROVE  Waiting' = Waiting /\ ev' \in Items
<1>1. Head(queue) \in Items /\ Tail(queue) \in Seq(Items)
  BY HeadTailProperties
<1>2. NoItem \notin Items
  BY DEF NoItem, Items, Types
<1>3. <<Head(queue)>> \o Tail(queue) = queue
  BY <1>1
<1>4. QED
  BY <1>1, <1>2, <1>3, ConcatEmptySeq DEF Waiting

\* A handled event no longer waits.
LEMMA HandledWaits ==
  ASSUME queue \in Seq(Items), ev \in Items, ev' = NoItem, queue' = queue
  PROVE  Waiting # <<>> /\ Head(Waiting) = ev /\ Waiting' = Tail(Waiting)
<1>1. NoItem \notin Items
  BY DEF NoItem, Items, Types
<1>2. Waiting = <<ev>> \o queue /\ Waiting' = <<>> \o queue
  BY <1>1 DEF Waiting
<1>3. QED
  BY <1>2

-----------------------------------------------------------------------------
(* A post, whoever makes it. *)

\* The counters the sums are made of are numbers.
LEMMA CounterFacts ==
  ASSUME Types2
  PROVE  /\ CounterWidth \in Nat \ {0} /\ Took \in Nat /\ Refused \in Nat
         /\ btn.ok \in Nat /\ btn.full \in Nat /\ btn.handled \in Nat
         /\ uart.ok \in Nat /\ uart.full \in Nat /\ uart.handled \in Nat
         /\ burst.ok \in Nat /\ burst.full \in Nat /\ burst.handled \in Nat /\ burst.seq \in Nat
         /\ tmr.ok \in Nat /\ tmr.dropped \in Nat
<1>1. CounterWidth \in Nat \ {0}
  BY DevkitAssumption
<1>2. /\ btn.ok \in Nat /\ btn.full \in Nat /\ btn.handled \in Nat
      /\ uart.ok \in Nat /\ uart.full \in Nat /\ uart.handled \in Nat
  BY DEF Types2, Buttons, Uarts
<1>3. /\ burst.ok \in Nat /\ burst.full \in Nat /\ burst.handled \in Nat /\ burst.seq \in Nat
      /\ tmr.ok \in Nat /\ tmr.dropped \in Nat
  BY <1>1, DevkitAssumption DEF Types2, Bursts, Timers
<1>4. Took \in Nat /\ Refused \in Nat
  BY <1>2, <1>3 DEF Took, Refused
<1>5. QED
  BY <1>1, <1>2, <1>3, <1>4

\* An event whose handler is registered is posted: either it waits behind the
\* others and is counted as accepted, or it is counted as dropped.
LEMMA PostStep ==
  ASSUME IInv, NEW x \in Items, x.type \in registered, Post(x), seen' = seen
  PROVE  /\ queue' \in Seq(Items) /\ Len(queue') <= Capacity /\ ev' = ev
         /\ registered' = registered /\ unhandled_count' = unhandled_count
         /\ accepted_count' \in 0 .. CounterWidth - 1 /\ dropped_count' \in Nat
         /\ arrived' \in Seq(Payloads)
         /\ InputsArriveInOrder' /\ WaitingRegistered'
         /\ \/ /\ PostResult = "OK"
               /\ accepted_count' = (accepted_count + 1) % CounterWidth
               /\ dropped_count' = dropped_count
               /\ Len(arrived') = Len(arrived) + (IF x.type \in InputTypes THEN 1 ELSE 0)
               /\ BurstWaiting' = BurstWaiting + (IF x.type = "burst" THEN 1 ELSE 0)
            \/ /\ PostResult = "FULL"
               /\ accepted_count' = accepted_count
               /\ dropped_count' = dropped_count + 1
               /\ Len(arrived') = Len(arrived) /\ BurstWaiting' = BurstWaiting
<1> DEFINE W == CounterWidth
<1>1. /\ queue \in Seq(Items) /\ Len(queue) \in Nat /\ Len(queue) <= Capacity
      /\ ev \in Items \cup {NoItem} /\ accepted_count \in 0 .. W - 1 /\ dropped_count \in Nat
      /\ arrived \in Seq(Payloads) /\ seen \in Seq(Payloads)
      /\ Capacity \in Nat \ {0} /\ W \in Nat \ {0}
  BY DevkitAssumption DEF IInv, Types2
<1>2. Waiting \in Seq(Items) /\ InOrder(arrived, seen, Waiting)
  BY <1>1, WaitingIs DEF IInv
<1>3. registered' = registered /\ unhandled_count' = unhandled_count /\ ev' = ev
  BY DEF Post, Queue!Put, Queue!Lose
<1>4. x.input \in Payloads
  BY DEF Items, Payloads
<1>5. CASE Queue!Put(x)
  <2>1. /\ Len(queue) < Capacity /\ queue' = Append(queue, x) /\ dropped_count' = dropped_count
        /\ PostResult = "OK"
    BY <1>5 DEF Queue!Put, PostResult
  <2>2. /\ accepted_count' = (accepted_count + 1) % W
        /\ arrived' = IF x.type \in InputTypes THEN Append(arrived, x.input) ELSE arrived
    BY <2>1 DEF Post
  <2>3. queue' \in Seq(Items) /\ Len(queue') <= Capacity
    BY <1>1, <2>1, AppendProperties
  <2>4. Waiting' = Append(Waiting, x)
    BY <1>1, <1>3, <2>1, PutWaits
  <2>5. accepted_count' \in 0 .. W - 1
    <3>1. accepted_count + 1 \in Int
      BY <1>1
    <3>2. QED
      BY <1>1, <2>2, <3>1, Division
  <2>6. /\ arrived' \in Seq(Payloads)
        /\ Len(arrived') = Len(arrived) + (IF x.type \in InputTypes THEN 1 ELSE 0)
    <3>1. CASE x.type \in InputTypes
      BY <1>1, <1>4, <2>2, <3>1, AppendProperties
    <3>2. CASE x.type \notin InputTypes
      BY <1>1, <2>2, <3>2
    <3>3. QED
      BY <3>1, <3>2
  <2>7. InputsArriveInOrder'
    <3>1. InOrder(arrived', seen', Append(Waiting, x))
      BY <1>1, <1>2, <2>2, OrderAfterPut
    <3>2. QED
      BY <2>4, <3>1 DEF InputsArriveInOrder, InOrder
  <2>8. WaitingRegistered'
    BY <1>2, <1>3, <2>4, PlacesOfAppend DEF IInv, AllRegistered, WaitingRegistered
  <2>9. BurstWaiting' = BurstWaiting + (IF x.type = "burst" THEN 1 ELSE 0)
    <3>1. Cardinality(Of({"burst"}, Waiting)) \in Nat
      BY <1>2, PlacesFinite
    <3>2. CASE x.type \in {"burst"}
      BY <1>2, <2>4, <3>2, PlacesOfAppend DEF BurstWaiting
    <3>3. CASE x.type \notin {"burst"}
      BY <1>2, <2>4, <3>1, <3>3, PlacesOfAppend DEF BurstWaiting
    <3>4. QED
      BY <3>2, <3>3
  <2>10. QED
    BY <1>1, <1>3, <2>1, <2>2, <2>3, <2>5, <2>6, <2>7, <2>8, <2>9
<1>6. CASE Queue!Lose
  <2>1. /\ Len(queue) = Capacity /\ queue' = queue /\ dropped_count' = dropped_count + 1
        /\ PostResult = "FULL"
    BY <1>1, <1>6 DEF Queue!Lose, PostResult
  <2>2. accepted_count' = (accepted_count + 0) % W /\ arrived' = arrived
    BY <2>1 DEF Post
  <2>3. accepted_count' = accepted_count
    <3>1. accepted_count + 0 = accepted_count /\ accepted_count \in 0 .. 2 * W - 1
          /\ accepted_count < W
      BY <1>1
    <3>2. accepted_count % W = accepted_count
      BY <1>1, <3>1, WrapsOnce
    <3>3. QED
      BY <2>2, <3>1, <3>2
  <2>4. Waiting' = Waiting
    BY <1>3, <2>1 DEF Waiting
  <2>5. InputsArriveInOrder'
    BY <2>2, <2>4 DEF IInv, InputsArriveInOrder
  <2>6. WaitingRegistered' /\ BurstWaiting' = BurstWaiting
    BY <1>3, <2>4 DEF IInv, AllRegistered, WaitingRegistered, BurstWaiting
  <2>7. QED
    BY <1>1, <1>3, <2>1, <2>2, <2>3, <2>5, <2>6
<1>7. QED
  BY <1>5, <1>6 DEF Post

\* The counters agree after a post that its producer counts at once.
LEMMA CountsAfterPost ==
  ASSUME IInv, Types2',
         \/ /\ Took' = Took + 1 /\ Refused' = Refused
            /\ accepted_count' = (accepted_count + 1) % CounterWidth
            /\ dropped_count' = dropped_count
         \/ /\ Took' = Took /\ Refused' = Refused + 1
            /\ accepted_count' = accepted_count /\ dropped_count' = dropped_count + 1
  PROVE  /\ (Took % CounterWidth = accepted_count)'
         /\ (Refused % CounterWidth = dropped_count % CounterWidth)'
<1> DEFINE W == CounterWidth
<1>1. /\ W \in Nat \ {0} /\ Took \in Int /\ Refused \in Int
      /\ accepted_count \in 0 .. W - 1 /\ dropped_count \in Nat
      /\ Took % W = accepted_count /\ Refused % W = dropped_count % W
  BY CounterFacts DEF IInv, Types2, Counts
<1>2. CASE /\ Took' = Took + 1 /\ Refused' = Refused
           /\ accepted_count' = (accepted_count + 1) % W /\ dropped_count' = dropped_count
  <2>1. ((Took % W) + 1) % W = (Took + 1) % W
    BY ONLY <1>1, CountOn
  <2>2. QED
    BY <1>1, <1>2, <2>1
<1>3. CASE /\ Took' = Took /\ Refused' = Refused + 1
           /\ accepted_count' = accepted_count /\ dropped_count' = dropped_count + 1
  <2>1. (Refused + 1) % W = (dropped_count + 1) % W
    <3> DEFINE x == Refused
               y == dropped_count
    <3>1. W \in Nat \ {0} /\ x \in Int /\ y \in Int /\ x % W = y % W
      BY <1>1
    <3> HIDE DEF x, y
    <3>2. (x + 1) % W = (y + 1) % W
      BY <3>1, BothCount
    <3>3. QED
      BY <3>2 DEF x, y
  <2>2. QED
    BY <1>1, <1>3, <2>1
<1>4. QED
  BY <1>2, <1>3

-----------------------------------------------------------------------------
(* The steps. *)

\* What leaves the application alone leaves its invariant alone.
LEMMA AppStays ==
  ASSUME AppInv, UNCHANGED appVars
  PROVE  AppInv'
BY DEF appVars, AppInv, ProbeInv, App!Probe!TypeOK, App!Probe!BridgeAndFsmAgree,
       App!ProbeFollowsApp, Apps

\* The thread goes from one place to another with empty hands.
LEMMA EmptyHands ==
  ASSUME Places, pc \notin {"handle", "timer count"},
         pc' \notin {"handle", "timer count", "button irq", "uart irq"},
         ev' = ev, posted' = posted
  PROVE  Places'
BY DEF Places, NoItem

\* A step that posts nothing, handles nothing and counts no result.
LEMMA QuietStep ==
  ASSUME IInv, Types2', AppInv', Places', Waiting' = Waiting,
         registered \subseteq registered', enabled' \subseteq registered',
         burst'.started => "burst" \in registered', tmr'.init_done => "timer" \in registered',
         UNCHANGED <<arrived, seen, accepted_count, dropped_count, uart, posted>>,
         btn'.ok = btn.ok, btn'.full = btn.full, btn'.handled = btn.handled,
         btn'.attempted = btn'.ok + btn'.full + btn'.debounce,
         btn'.attempted + uart.rx <= MaxInputs,
         tmr'.ok = tmr.ok, tmr'.dropped = tmr.dropped,
         burst'.ok = burst.ok, burst'.full = burst.full, burst'.seq = burst.seq,
         burst'.handled = burst.handled,
         app'.button_count = app.button_count, app'.uart_count = app.uart_count
  PROVE  IInv'
<1>1. AllRegistered'
  <2>1. WaitingRegistered'
    BY DEF IInv, AllRegistered, WaitingRegistered
  <2>2. QED
    BY <2>1 DEF AllRegistered
<1>2. BurstAdds'
  <2>1. BurstWaiting' = BurstWaiting
    BY DEF BurstWaiting
  <2>2. QED
    BY <2>1 DEF IInv, BurstAdds
<1>3. InputsAdd'
  BY DEF IInv, InputsAdd
<1>4. InputsArriveInOrder'
  BY DEF IInv, InputsArriveInOrder
<1>5. Counts'
  <2>1. Took' = Took /\ Refused' = Refused
    BY DEF Took, Refused
  <2>2. QED
    BY <2>1 DEF IInv, Counts
<1>6. QED
  BY <1>1, <1>2, <1>3, <1>4, <1>5 DEF IInv

\* What QuietStep needs to know of the state.
LEMMA Now ==
  ASSUME IInv
  PROVE  /\ AppInv /\ Types2 /\ Places /\ InputsArriveInOrder /\ Counts
         /\ enabled \subseteq registered /\ WaitingRegistered
         /\ (burst.started => "burst" \in registered) /\ (tmr.init_done => "timer" \in registered)
         /\ burst.handled + BurstWaiting = burst.ok /\ burst.ok + burst.full = burst.seq - 1
         /\ btn.attempted = btn.ok + btn.full + btn.debounce
         /\ uart.rx = uart.ok + uart.full /\ btn.attempted + uart.rx <= MaxInputs
         /\ btn.handled = app.button_count /\ uart.handled = app.uart_count
BY DEF IInv, AllRegistered, BurstAdds, InputsAdd

\* Steps of the thread that only go on, or count the iteration.
LEMMA MovesKeep ==
  ASSUME IInv, CoreInit \/ LedInit \/ StartTick \/ TickEmpty
  PROVE  IInv'
<1>1. /\ UNCHANGED <<queue, dropped_count, ev, registered, accepted_count, unhandled_count,
                     enabled, clock, btn, uart, tmr, posted, burst, appVars, history>>
      /\ tick_count' \in {tick_count, (tick_count + 1) % CounterWidth}
      /\ pc \notin {"handle", "timer count"} /\ pc' \notin {"handle", "timer count", "button irq", "uart irq"}
  BY DEF CoreInit, LedInit, StartTick, TickEmpty, Goes, coreVars
<1>2. AppInv'
  BY <1>1, Now, AppStays
<1>3. Places'
  BY <1>1, Now, EmptyHands
<1>4. Types2'
  <2>1. tick_count' \in 0 .. CounterWidth - 1
    <3>1. CounterWidth \in Nat \ {0} /\ tick_count + 1 \in Int /\ tick_count \in 0 .. CounterWidth - 1
      BY Now, DevkitAssumption DEF Types2
    <3>2. (tick_count + 1) % CounterWidth \in 0 .. CounterWidth - 1
      BY <3>1, Division
    <3>3. QED
      BY <1>1, <3>1, <3>2
  <2>2. QED
    BY <1>1, <2>1, Now DEF Types2, history
<1>5. Waiting' = Waiting
  BY <1>1 DEF Waiting
<1>6. QED
  BY <1>1, <1>2, <1>3, <1>4, <1>5, Now, QuietStep DEF history, appVars

\* The application's init.
LEMMA AppInitKeeps ==
  ASSUME IInv, AppInit
  PROVE  IInv'
<1>1. /\ UNCHANGED <<tick_count, queue, dropped_count, ev, registered, accepted_count,
                     unhandled_count, enabled, clock, btn, uart, tmr, posted, burst, arrived, seen>>
      /\ pc \notin {"handle", "timer count"} /\ pc' \notin {"handle", "timer count", "button irq", "uart irq"}
      /\ App!Start
  BY DEF AppInit, Goes, coreVars, history
<1>2. AppInv' /\ app' = app
  BY <1>1, Now, StartKeeps
<1>3. Places'
  BY <1>1, Now, EmptyHands
<1>4. Types2'
  BY <1>1, Now DEF Types2
<1>5. Waiting' = Waiting
  BY <1>1 DEF Waiting
<1>6. QED
  BY <1>1, <1>2, <1>3, <1>4, <1>5, Now, QuietStep

\* A producer's init: its handler is registered before it is started.
LEMMA InitsKeep ==
  ASSUME IInv, StartBurst \/ TimerInit \/ ButtonInit \/ UartInit
  PROVE  IInv'
<1>1. /\ UNCHANGED <<tick_count, queue, dropped_count, ev, accepted_count, unhandled_count,
                     clock, btn, uart, posted, appVars, arrived, seen>>
      /\ pc \notin {"handle", "timer count"} /\ pc' \notin {"handle", "timer count"}
  BY DEF StartBurst, TimerInit, ButtonInit, UartInit, InputInit, Register, registerOnly, Goes, history
<1>2. Waiting' = Waiting /\ AppInv' /\ app' = app
  BY <1>1, Now, AppStays DEF Waiting, appVars
<1>3. ev' = NoItem /\ posted' = "none"
  BY <1>1, Now DEF Places
<1>4. CASE StartBurst
  <2>1. /\ registered' = registered \cup {"burst"} /\ burst' = [burst EXCEPT !.started = TRUE]
        /\ UNCHANGED <<enabled, tmr>> /\ pc' = "led"
    BY <1>4 DEF StartBurst, Goes
  <2>2. burst' \in Bursts /\ burst'.ok = burst.ok /\ burst'.full = burst.full
        /\ burst'.seq = burst.seq /\ burst'.handled = burst.handled
    BY <2>1, Now DEF Types2, Bursts
  <2>3. Types2'
    BY <1>1, <2>1, <2>2, Now DEF Types2, Types
  <2>4. Places'
    BY <1>3, <2>1 DEF Places
  <2>5. QED
    BY <1>1, <1>2, <2>1, <2>2, <2>3, <2>4, Now, QuietStep
<1>5. CASE TimerInit
  <2>1. /\ registered' = registered \cup {"timer"} /\ tmr' = [tmr EXCEPT !.init_done = TRUE]
        /\ UNCHANGED <<enabled, burst>> /\ pc' = "button"
    BY <1>5 DEF TimerInit, Goes, Register, registerOnly
  <2>2. tmr' \in Timers /\ tmr'.ok = tmr.ok /\ tmr'.dropped = tmr.dropped
    BY <2>1, Now DEF Types2, Timers
  <2>3. Types2'
    BY <1>1, <2>1, <2>2, Now DEF Types2, Types
  <2>4. Places'
    BY <1>3, <2>1 DEF Places
  <2>5. QED
    BY <1>1, <1>2, <2>1, <2>2, <2>3, <2>4, Now, QuietStep
<1>6. CASE ButtonInit \/ UartInit
  <2>1. /\ UNCHANGED <<tmr, burst>>
        /\ registered \subseteq registered' /\ registered' \subseteq registered \cup InputTypes
        /\ enabled' \subseteq registered' /\ enabled' \subseteq InputTypes
        /\ pc' = "button irq" => "button" \in registered'
        /\ pc' = "uart irq" => "uart" \in registered'
    <3>1. enabled \subseteq registered /\ enabled \subseteq InputTypes
          /\ (pc = "button irq" => "button" \in registered)
          /\ (pc = "uart irq" => "uart" \in registered)
      BY Now DEF Types2, Places
    <3>2. CASE ButtonInit
      BY <3>1, <3>2 DEF ButtonInit, InputInit, Register, registerOnly, Goes, InputTypes
    <3>3. CASE UartInit
      BY <3>1, <3>3 DEF UartInit, InputInit, Register, registerOnly, Goes, InputTypes
    <3>4. QED
      BY <1>6, <3>2, <3>3
  <2>2. Types2'
    BY <1>1, <2>1, Now DEF Types2, Types, InputTypes
  <2>3. Places'
    BY <1>1, <1>3, <2>1 DEF Places
  <2>4. QED
    BY <1>1, <1>2, <2>1, <2>2, <2>3, Now, QuietStep
<1>7. QED
  BY <1>4, <1>5, <1>6

\* The tick takes the oldest event.
LEMMA TakesKeeps ==
  ASSUME IInv, TickTakes
  PROVE  IInv'
<1>1. /\ UNCHANGED <<tick_count, dropped_count, registered, accepted_count, unhandled_count,
                     enabled, clock, btn, uart, tmr, posted, burst, appVars, arrived, seen>>
      /\ pc = "tick" /\ pc' = "handle"
      /\ queue # <<>> /\ queue' = Tail(queue) /\ ev' = Head(queue)
  BY DEF TickTakes, Goes, Queue!Take, history
<1>2. ev = NoItem /\ posted = "none" /\ queue \in Seq(Items) /\ Len(queue) <= Capacity
  BY <1>1, Now DEF Places, Types2
<1>3. Waiting' = Waiting /\ ev' \in Items
  BY <1>1, <1>2, TakeWaits
<1>4. queue' \in Seq(Items) /\ Len(queue') <= Capacity
  <2>1. Len(Tail(queue)) = Len(queue) - 1 /\ Tail(queue) \in Seq(Items) /\ Len(queue) \in Nat
    BY <1>1, <1>2
  <2>2. QED
    BY <1>1, <1>2, <2>1, DevkitAssumption
<1>5. Types2'
  BY <1>1, <1>3, <1>4, Now DEF Types2
<1>6. Places'
  <2>1. NoItem \notin Items
    BY DEF NoItem, Items, Types
  <2>2. QED
    BY <1>1, <1>2, <1>3, <2>1 DEF Places
<1>7. AppInv' /\ app' = app
  BY <1>1, Now, AppStays DEF appVars
<1>8. QED
  BY <1>1, <1>3, <1>5, <1>6, <1>7, Now, QuietStep

\* Time passes, or a press is filtered.
LEMMA ClockKeeps ==
  ASSUME IInv, Elapses \/ PressFiltered
  PROVE  IInv'
<1>1. UNCHANGED <<pc, tick_count, queue, dropped_count, ev, registered, accepted_count,
                  unhandled_count, enabled, uart, tmr, posted, burst, appVars, arrived, seen>>
  BY DEF Elapses, PressFiltered, coreVars, history
<1>2. Waiting' = Waiting /\ AppInv' /\ app' = app /\ Places'
  BY <1>1, Now, AppStays DEF Waiting, appVars, Places
<1>3. CASE Elapses
  <2>1. clock' = (clock + 1) % ClockWidth /\ btn' = btn
    BY <1>3 DEF Elapses
  <2>2. ClockWidth \in Nat \ {0} /\ clock + 1 \in Int
    BY DevkitAssumption, Now DEF Types2
  <2>3. clock' \in 0 .. ClockWidth - 1
    BY <2>1, <2>2, Division
  <2>4. Types2'
    BY <1>1, <2>1, <2>3, Now DEF Types2
  <2>5. QED
    BY <1>1, <1>2, <2>1, <2>4, Now, QuietStep
<1>4. CASE PressFiltered
  <2>1. /\ btn' = [btn EXCEPT !.attempted = @ + 1, !.debounce = @ + 1, !.seq = @ + 1]
        /\ btn.attempted + uart.rx < MaxInputs /\ clock' = clock
    BY <1>4 DEF PressFiltered, Button!Filter, MoreInputs
  <2>2. btn \in Buttons /\ uart \in Uarts /\ MaxInputs \in Nat
    BY Now, DevkitAssumption DEF Types2
  <2>3. btn' = [attempted |-> btn.attempted + 1, ok |-> btn.ok, full |-> btn.full,
                debounce |-> btn.debounce + 1, other |-> btn.other,
                last_accepted_ms |-> btn.last_accepted_ms, seq |-> btn.seq + 1,
                handled |-> btn.handled]
    BY <2>1, <2>2 DEF Buttons
  <2>4. btn' \in Buttons
    BY <2>2, <2>3 DEF Buttons
  <2>5. /\ btn'.ok = btn.ok /\ btn'.full = btn.full /\ btn'.handled = btn.handled
        /\ btn'.attempted = btn'.ok + btn'.full + btn'.debounce
        /\ btn'.attempted + uart.rx <= MaxInputs
    <3>1. /\ btn.attempted \in Nat /\ btn.ok \in Nat /\ btn.full \in Nat /\ btn.debounce \in Nat
          /\ uart.rx \in Nat
      BY <2>2 DEF Buttons, Uarts
    <3>2. btn.attempted = btn.ok + btn.full + btn.debounce
      BY Now
    <3>3. QED
      BY <2>1, <2>2, <2>3, <3>1, <3>2
  <2>6. Types2'
    BY <1>1, <2>1, <2>4, Now DEF Types2
  <2>7. QED
    BY <1>1, <1>2, <2>5, <2>6, Now, QuietStep
<1>5. QED
  BY <1>3, <1>4

\* The end of an iteration sets one flag of the burst.
LEMMA ReportFacts ==
  ASSUME burst \in Bursts, Report
  PROVE  /\ burst' \in Bursts /\ burst'.ok = burst.ok /\ burst'.full = burst.full
         /\ burst'.seq = burst.seq /\ burst'.handled = burst.handled
         /\ burst'.started = burst.started
<1> DEFINE done == burst.logged \/ (Attempts > 0 /\ burst.handled >= Capacity)
<1>1. burst' = [burst EXCEPT !.logged = done]
  BY DEF Report
<1>2. done \in BOOLEAN
  BY DEF Bursts
<1> HIDE DEF done
<1>3. QED
  BY <1>1, <1>2 DEF Bursts

\* The timer producer does not post.
LEMMA SkipsKeeps ==
  ASSUME IInv, TimerSkips
  PROVE  IInv'
<1>1. /\ UNCHANGED <<tick_count, queue, dropped_count, ev, registered, accepted_count,
                     unhandled_count, enabled, clock, btn, uart, tmr, posted, appVars, arrived, seen>>
      /\ pc = "timer post" /\ pc' = "loop" /\ Report
  BY DEF TimerSkips, Goes, coreVars, history
<1>2. Waiting' = Waiting /\ AppInv' /\ app' = app
  BY <1>1, Now, AppStays DEF Waiting, appVars
<1>3. Places'
  BY <1>1, Now, EmptyHands
<1>4. /\ burst' \in Bursts /\ burst'.ok = burst.ok /\ burst'.full = burst.full
      /\ burst'.seq = burst.seq /\ burst'.handled = burst.handled
      /\ burst'.started = burst.started
  BY <1>1, Now, ReportFacts DEF Types2
<1>5. Types2'
  BY <1>1, <1>4, Now DEF Types2
<1>6. QED
  BY <1>1, <1>2, <1>3, <1>4, <1>5, Now, QuietStep

\* The timer producer counts the result of its post.
LEMMA TimerCountsKeeps ==
  ASSUME IInv, TimerCounts
  PROVE  IInv'
<1> DEFINE W == CounterWidth
           f == IF posted = "OK" THEN "ok" ELSE "dropped"
<1>1. /\ UNCHANGED <<tick_count, queue, dropped_count, ev, registered, accepted_count,
                     unhandled_count, enabled, clock, btn, uart, appVars, arrived, seen>>
      /\ pc = "timer count" /\ pc' = "loop" /\ Report
      /\ tmr' = [tmr EXCEPT ![f] = (@ + 1) % W] /\ posted' = "none"
  BY DEF TimerCounts, Goes, coreVars, history
<1>2. Waiting' = Waiting /\ AppInv' /\ app' = app
  BY <1>1, Now, AppStays DEF Waiting, appVars
<1>3. ev' = NoItem /\ posted \in {"OK", "FULL"} /\ Places'
  BY <1>1, Now DEF Places, Types2
<1>4. /\ burst' \in Bursts /\ burst'.ok = burst.ok /\ burst'.full = burst.full
      /\ burst'.seq = burst.seq /\ burst'.handled = burst.handled
      /\ burst'.started = burst.started
  BY <1>1, Now, ReportFacts DEF Types2
<1>5. W \in Nat \ {0} /\ tmr \in Timers /\ tmr.ok \in Int /\ tmr.dropped \in Int
  <2>1. Types2
    BY Now
  <2>2. W \in Nat \ {0} /\ tmr \in Timers
    BY <2>1, CounterFacts DEF Types2
  <2>3. tmr.ok \in Nat /\ tmr.dropped \in Nat
    BY <2>1, CounterFacts
  <2>4. QED
    BY <2>2, <2>3
<1>6. /\ (tmr.ok + 1) % W \in 0 .. W - 1 /\ (tmr.dropped + 1) % W \in 0 .. W - 1
  <2>1. tmr.ok + 1 \in Int /\ tmr.dropped + 1 \in Int
    BY <1>5
  <2>2. QED
    BY <1>5, <2>1, Division
<1>7. /\ tmr' \in Timers /\ tmr'.init_done = tmr.init_done
      /\ posted = "OK" => tmr'.ok = (tmr.ok + 1) % W /\ tmr'.dropped = tmr.dropped
      /\ posted = "FULL" => tmr'.ok = tmr.ok /\ tmr'.dropped = (tmr.dropped + 1) % W
  <2>1. CASE posted = "OK"
    BY <1>1, <1>5, <1>6, <2>1 DEF Timers
  <2>2. CASE posted = "FULL"
    BY <1>1, <1>5, <1>6, <2>2 DEF Timers
  <2>3. QED
    BY <1>3, <2>1, <2>2
<1>8. Types2'
  BY <1>1, <1>4, <1>7, Now DEF Types2
<1>9. Counts'
  <2> DEFINE restOk == btn.ok + uart.ok + burst.ok
             restFull == btn.full + uart.full + burst.full
  <2>9. /\ btn.ok \in Nat /\ uart.ok \in Nat /\ burst.ok \in Nat /\ tmr.ok \in Nat
        /\ btn.full \in Nat /\ uart.full \in Nat /\ burst.full \in Nat /\ tmr.dropped \in Nat
    BY Now, CounterFacts
  <2>10. /\ btn' = btn /\ uart' = uart /\ posted' = "none"
         /\ burst'.ok = burst.ok /\ burst'.full = burst.full
    BY <1>1, <1>4
  <2>0. restOk \in Int /\ restFull \in Int
    BY <2>9
  <2>1. Took % W = accepted_count /\ Refused % W = dropped_count % W
    BY Now DEF Counts
  <2>2. CASE posted = "OK"
    <3>1. Took = tmr.ok + restOk + 1 /\ Took' = ((tmr.ok + 1) % W) + restOk
      <4>1. Took = tmr.ok + restOk + 1
        BY <2>0, <2>2, <2>9 DEF Took
      <4> DEFINE n == (tmr.ok + 1) % W
      <4>2. n \in Int /\ tmr'.ok = n
        BY <1>6, <1>7, <2>2
      <4> HIDE DEF n
      <4>3. Took' = n + restOk
        BY ONLY <2>9, <2>10, <4>2 DEF Took
      <4>4. QED
        BY <4>1, <4>3 DEF n
    <3>2. Refused' = Refused
      BY <1>1, <1>4, <1>7, <2>2 DEF Refused
    <3>3. (((tmr.ok + 1) % W) + restOk) % W = (tmr.ok + restOk + 1) % W
      <4> DEFINE x == tmr.ok
      <4>1. x \in Int
        BY <1>5
      <4> HIDE DEF x, restOk
      <4>2. (((x + 1) % W) + restOk) % W = (x + restOk + 1) % W
        BY <1>5, <2>0, <4>1, CountOne
      <4>3. QED
        BY <4>2 DEF x
    <3> HIDE DEF restOk
    <3>4. Took' % W = Took % W
      BY <3>1, <3>3
    <3>5. QED
      BY <1>1, <2>1, <3>2, <3>4, Now DEF Counts
  <2>3. CASE posted = "FULL"
    <3>1. Refused = tmr.dropped + restFull + 1 /\ Refused' = ((tmr.dropped + 1) % W) + restFull
      <4>1. Refused = tmr.dropped + restFull + 1
        BY <2>0, <2>3, <2>9 DEF Refused
      <4> DEFINE n == (tmr.dropped + 1) % W
      <4>2. n \in Int /\ tmr'.dropped = n
        BY <1>6, <1>7, <2>3
      <4> HIDE DEF n
      <4>3. Refused' = n + restFull
        BY ONLY <2>9, <2>10, <4>2 DEF Refused
      <4>4. QED
        BY <4>1, <4>3 DEF n
    <3>2. Took' = Took
      BY <1>1, <1>4, <1>7, <2>3 DEF Took
    <3>3. (((tmr.dropped + 1) % W) + restFull) % W = (tmr.dropped + restFull + 1) % W
      <4> DEFINE x == tmr.dropped
      <4>1. x \in Int
        BY <1>5
      <4> HIDE DEF x, restFull
      <4>2. (((x + 1) % W) + restFull) % W = (x + restFull + 1) % W
        BY <1>5, <2>0, <4>1, CountOne
      <4>3. QED
        BY <4>2 DEF x
    <3> HIDE DEF restFull
    <3>4. Refused' % W = Refused % W
      BY <3>1, <3>3
    <3>5. QED
      BY <1>1, <2>1, <3>2, <3>4, Now DEF Counts
  <2>4. QED
    BY <1>3, <2>2, <2>3
<1>10. AllRegistered'
  BY <1>1, <1>2, <1>4, <1>7, Now DEF AllRegistered, WaitingRegistered
<1>11. BurstAdds'
  BY <1>2, <1>4, Now DEF BurstAdds, BurstWaiting
<1>12. InputsAdd' /\ InputsArriveInOrder'
  BY <1>1, <1>2, Now DEF InputsAdd, InputsArriveInOrder
<1>13. QED
  BY <1>2, <1>3, <1>8, <1>9, <1>10, <1>11, <1>12 DEF IInv

\* The handler of the event in the thread's hands runs: there is one, and it
\* counts what it is given.
LEMMA HandleKeeps ==
  ASSUME IInv, Handle
  PROVE  IInv'
<1> DEFINE burstGone == IF ev.type = "burst" THEN 1 ELSE 0
           seenNow == IF ev.type \in InputTypes THEN Append(seen, ev.input) ELSE seen
<1>1. /\ pc = "handle" /\ pc' = "timer post" /\ ev' = NoItem
      /\ UNCHANGED <<tick_count, queue, dropped_count, registered, accepted_count, enabled,
                     clock, tmr, posted, arrived>>
  BY DEF Handle, Goes
<1>2. /\ ev \in Items /\ posted = "none" /\ queue \in Seq(Items)
      /\ arrived \in Seq(Payloads) /\ seen \in Seq(Payloads)
  BY <1>1, Now DEF Places, Types2
<1>3. /\ Waiting # <<>> /\ Head(Waiting) = ev /\ Waiting' = Tail(Waiting)
      /\ Waiting \in Seq(Items) /\ InOrder(arrived, seen, Waiting)
  BY <1>1, <1>2, Now, HandledWaits, WaitingIs
<1>4. ev.type \in registered
  <2>1. Waiting[1] = ev /\ 1 \in 1 .. Len(Waiting)
    BY <1>3, HeadTailProperties, EmptySeq
  <2>2. QED
    BY <2>1, Now DEF WaitingRegistered
<1>5. (HandlePress \/ HandleByte \/ HandleBeat \/ HandleBurst) /\ unhandled_count' = unhandled_count
  BY <1>4 DEF Handle
<1>6. InOrder(arrived, seenNow, Waiting')
  BY <1>2, <1>3, OrderAfterHandled
<1>7. Places'
  BY <1>1, <1>2, Now DEF Places
<1>8. WaitingRegistered'
  <2>1. /\ Len(Waiting') = Len(Waiting) - 1 /\ Len(Waiting) \in Nat
        /\ \A i \in 1 .. Len(Waiting') : Waiting'[i] = Waiting[i + 1]
    BY <1>3, PlacesOfTail
  <2>2. \A i \in 1 .. Len(Waiting') : i + 1 \in 1 .. Len(Waiting)
    BY <2>1
  <2>3. QED
    BY <1>1, <2>1, <2>2, Now DEF WaitingRegistered
<1>9. BurstWaiting' = BurstWaiting - burstGone /\ BurstWaiting \in Nat
  <2>1. BurstWaiting \in Nat
    BY <1>3, PlacesFinite DEF BurstWaiting
  <2>2. CASE ev.type = "burst"
    <3>1. ev.type \in {"burst"} /\ burstGone = 1
      BY <2>2
    <3>2. BurstWaiting' = BurstWaiting - 1
      BY <1>3, <3>1, PlacesOfTail DEF BurstWaiting
    <3>3. QED
      BY <2>1, <3>1, <3>2
  <2>3. CASE ev.type # "burst"
    <3>1. ev.type \notin {"burst"} /\ burstGone = 0
      BY <2>3
    <3>2. BurstWaiting' = BurstWaiting
      BY <1>3, <2>1, <3>1, PlacesOfTail DEF BurstWaiting
    <3>3. QED
      BY <2>1, <3>1, <3>2
  <2>4. QED
    BY <2>2, <2>3
<1>10. btn \in Buttons /\ uart \in Uarts /\ burst \in Bursts /\ AppInv
       /\ btn.handled = app.button_count /\ uart.handled = app.uart_count
       /\ btn.handled + uart.handled = Len(seen)
       /\ btn.handled \in Nat /\ uart.handled \in Nat /\ burst.handled \in Nat
  BY Now, CounterFacts DEF Types2, Counts
<1>11. /\ AppInv' /\ btn' \in Buttons /\ uart' \in Uarts /\ burst' \in Bursts
       /\ seen' = seenNow /\ seen' \in Seq(Payloads)
       /\ btn'.attempted = btn.attempted /\ btn'.ok = btn.ok /\ btn'.full = btn.full
       /\ btn'.debounce = btn.debounce
       /\ uart'.rx = uart.rx /\ uart'.ok = uart.ok /\ uart'.full = uart.full
       /\ burst'.started = burst.started /\ burst'.seq = burst.seq
       /\ burst'.ok = burst.ok /\ burst'.full = burst.full
       /\ burst'.handled = burst.handled + burstGone
       /\ btn'.handled = app'.button_count /\ uart'.handled = app'.uart_count
       /\ btn'.handled + uart'.handled = Len(seen')
  <2>0. /\ Append(seen, ev.input) \in Seq(Payloads)
        /\ Len(Append(seen, ev.input)) = Len(seen) + 1 /\ Len(seen) \in Nat
    <3>1. ev.input \in Payloads
      BY <1>2 DEF Items, Payloads
    <3>2. QED
      BY <1>2, <3>1, AppendProperties
  <2>1. CASE HandlePress
    <3>1. /\ ev.type = "button" /\ btn' = [btn EXCEPT !.handled = @ + 1] /\ App!OnButton
          /\ seen' = Append(seen, ev.input) /\ uart' = uart /\ burst' = burst
      BY <2>1 DEF HandlePress, Button!Handle
    <3>2. /\ AppInv' /\ app'.button_count = app.button_count + 1
          /\ app'.uart_count = app.uart_count
      BY <1>10, <3>1, ButtonKeeps
    <3>3. btn' = [attempted |-> btn.attempted, ok |-> btn.ok, full |-> btn.full,
                  debounce |-> btn.debounce, other |-> btn.other,
                  last_accepted_ms |-> btn.last_accepted_ms, seq |-> btn.seq,
                  handled |-> btn.handled + 1]
      BY <1>10, <3>1 DEF Buttons
    <3>4. btn' \in Buttons
      BY <1>10, <3>3 DEF Buttons
    <3>5. seen' = seenNow /\ burstGone = 0 /\ Len(seen') = Len(seen) + 1 /\ seen' \in Seq(Payloads)
      BY <2>0, <3>1 DEF InputTypes
    <3>6. btn'.handled = btn.handled + 1 /\ burst'.handled = burst.handled + burstGone
      BY <1>10, <3>1, <3>3, <3>5
    <3>7. btn'.handled + uart'.handled = Len(seen')
      <4>1. uart'.handled = uart.handled
        BY <3>1
      <4>2. btn'.handled = btn.handled + 1 /\ Len(seen') = Len(seen) + 1 /\ Len(seen) \in Nat
            /\ btn.handled + uart.handled = Len(seen)
            /\ btn.handled \in Nat /\ uart.handled \in Nat
        BY <1>10, <2>0, <3>5, <3>6
      <4>3. QED
        BY ONLY <4>1, <4>2
    <3>8. QED
      BY <1>10, <3>1, <3>2, <3>3, <3>4, <3>5, <3>6, <3>7
  <2>2. CASE HandleByte
    <3>1. /\ ev.type = "uart" /\ uart' = [uart EXCEPT !.handled = @ + 1] /\ App!OnUartByte(ev.input)
          /\ seen' = Append(seen, ev.input) /\ btn' = btn /\ burst' = burst
      BY <2>2 DEF HandleByte
    <3>2. /\ AppInv' /\ app'.button_count = app.button_count
          /\ app'.uart_count = app.uart_count + 1
      BY <1>10, <3>1, ByteKeeps
    <3>3. uart' = [rx |-> uart.rx, ok |-> uart.ok, full |-> uart.full,
                   handled |-> uart.handled + 1]
      BY <1>10, <3>1 DEF Uarts
    <3>4. uart' \in Uarts
      BY <1>10, <3>3 DEF Uarts
    <3>5. seen' = seenNow /\ burstGone = 0 /\ Len(seen') = Len(seen) + 1 /\ seen' \in Seq(Payloads)
      BY <2>0, <3>1 DEF InputTypes
    <3>6. uart'.handled = uart.handled + 1 /\ burst'.handled = burst.handled + burstGone
      BY <1>10, <3>1, <3>3, <3>5
    <3>7. btn'.handled + uart'.handled = Len(seen')
      <4>1. btn'.handled = btn.handled
        BY <3>1
      <4>2. uart'.handled = uart.handled + 1 /\ Len(seen') = Len(seen) + 1 /\ Len(seen) \in Nat
            /\ btn.handled + uart.handled = Len(seen)
            /\ btn.handled \in Nat /\ uart.handled \in Nat
        BY <1>10, <2>0, <3>5, <3>6
      <4>3. QED
        BY ONLY <4>1, <4>2
    <3>8. QED
      BY <1>10, <3>1, <3>2, <3>3, <3>4, <3>5, <3>6, <3>7
  <2>3. CASE HandleBeat
    <3>1. ev.type = "timer" /\ UNCHANGED <<btn, uart, burst, appVars, seen>>
      BY <2>3 DEF HandleBeat
    <3>2. AppInv' /\ app' = app
      BY <1>10, <3>1, AppStays DEF appVars
    <3>3. seen' = seenNow /\ burst'.handled = burst.handled + burstGone
      BY <1>10, <3>1 DEF InputTypes
    <3>4. QED
      BY <1>2, <1>10, <3>1, <3>2, <3>3
  <2>4. CASE HandleBurst
    <3>1. /\ ev.type = "burst" /\ burst' = [burst EXCEPT !.handled = @ + 1]
          /\ UNCHANGED <<btn, uart, appVars, seen>>
      BY <2>4 DEF HandleBurst
    <3>2. AppInv' /\ app' = app
      BY <1>10, <3>1, AppStays DEF appVars
    <3>3. burst' = [started |-> burst.started, seq |-> burst.seq, ok |-> burst.ok,
                    full |-> burst.full, handled |-> burst.handled + 1, logged |-> burst.logged]
      BY <1>10, <3>1 DEF Bursts
    <3>4. burst' \in Bursts
      BY <1>10, <3>3 DEF Bursts
    <3>5. seen' = seenNow /\ burst'.handled = burst.handled + burstGone
      BY <3>1, <3>3 DEF InputTypes
    <3>6. QED
      BY <1>2, <1>10, <3>1, <3>2, <3>3, <3>4, <3>5
  <2>5. QED
    BY <1>5, <2>1, <2>2, <2>3, <2>4
<1> HIDE DEF seenNow
<1>12. Types2'
  BY <1>1, <1>5, <1>11, Now DEF Types2
<1>13. AllRegistered'
  BY <1>1, <1>8, <1>11, Now DEF AllRegistered
<1>14. BurstAdds'
  <2>1. burst'.handled + BurstWaiting' = burst.handled + BurstWaiting
    BY <1>9, <1>10, <1>11
  <2>2. QED
    BY <1>11, <2>1, Now DEF BurstAdds
<1>15. InputsAdd'
  BY <1>11, Now DEF InputsAdd
<1>16. InputsArriveInOrder'
  BY <1>1, <1>6, <1>11 DEF InputsArriveInOrder, InOrder
<1>17. Counts'
  <2>1. Took' = Took /\ Refused' = Refused
    BY <1>1, <1>11 DEF Took, Refused
  <2>2. QED
    BY <1>1, <1>11, <2>1, Now DEF Counts
<1>18. QED
  BY <1>7, <1>11, <1>12, <1>13, <1>14, <1>15, <1>16, <1>17 DEF IInv

\* A post, and its producer's counting of what it returned.
LEMMA PostedKeeps ==
  ASSUME IInv, NEW x \in Items, x.type \in registered, Post(x), seen' = seen,
         Types2', AppInv', Places', enabled' = enabled,
         burst'.started = burst.started, tmr'.init_done = tmr.init_done,
         InputsAdd', burst'.handled = burst.handled,
         burst'.ok + burst'.full = burst'.seq - 1,
         btn'.handled = btn.handled, uart'.handled = uart.handled,
         PostResult = "OK" =>
            /\ Took' = Took + 1 /\ Refused' = Refused
            /\ btn'.ok + uart'.ok = btn.ok + uart.ok + (IF x.type \in InputTypes THEN 1 ELSE 0)
            /\ burst'.ok = burst.ok + (IF x.type = "burst" THEN 1 ELSE 0),
         PostResult = "FULL" =>
            /\ Took' = Took /\ Refused' = Refused + 1
            /\ btn'.ok + uart'.ok = btn.ok + uart.ok /\ burst'.ok = burst.ok
  PROVE  IInv'
<1> DEFINE i == IF x.type \in InputTypes THEN 1 ELSE 0
           b == IF x.type = "burst" THEN 1 ELSE 0
<1>1. /\ registered' = registered /\ InputsArriveInOrder' /\ WaitingRegistered'
      /\ \/ /\ PostResult = "OK"
            /\ accepted_count' = (accepted_count + 1) % CounterWidth
            /\ dropped_count' = dropped_count
            /\ Len(arrived') = Len(arrived) + i /\ BurstWaiting' = BurstWaiting + b
         \/ /\ PostResult = "FULL"
            /\ accepted_count' = accepted_count /\ dropped_count' = dropped_count + 1
            /\ Len(arrived') = Len(arrived) /\ BurstWaiting' = BurstWaiting
  BY PostStep
<1> HIDE DEF i, b
<1>2. /\ PostResult = "OK" => /\ Took' = Took + 1 /\ Refused' = Refused
                              /\ btn'.ok + uart'.ok = btn.ok + uart.ok + i
                              /\ burst'.ok = burst.ok + b
      /\ PostResult = "FULL" => /\ Took' = Took /\ Refused' = Refused + 1
                                /\ btn'.ok + uart'.ok = btn.ok + uart.ok /\ burst'.ok = burst.ok
  BY DEF i, b
<1>3. /\ (Took % CounterWidth = accepted_count)'
      /\ (Refused % CounterWidth = dropped_count % CounterWidth)'
  BY <1>1, <1>2, CountsAfterPost
<1>4. i \in Nat /\ b \in Nat /\ burst.handled \in Nat /\ BurstWaiting \in Nat
  <2>1. Waiting \in Seq(Items)
    BY Now, WaitingIs DEF Types2
  <2>2. BurstWaiting \in Nat
    BY <2>1, PlacesFinite DEF BurstWaiting
  <2>3. QED
    BY <2>2, Now, CounterFacts DEF i, b
<1>5. burst.handled + BurstWaiting = burst.ok /\ btn.ok + uart.ok = Len(arrived)
      /\ btn.handled + uart.handled = Len(seen)
  BY Now DEF Counts
<1>6. BurstAdds'
  <2>1. burst.handled + (BurstWaiting + b) = (burst.handled + BurstWaiting) + b
    BY <1>4
  <2>2. burst.handled + BurstWaiting' = burst'.ok
    BY <1>1, <1>2, <1>5, <2>1
  <2>3. QED
    BY <2>2 DEF BurstAdds
<1>7. Counts'
  <2>1. (btn.ok + uart.ok = Len(arrived))'
    BY <1>1, <1>2, <1>5
  <2>2. QED
    BY <1>3, <1>5, <2>1 DEF Counts
<1>8. AllRegistered'
  BY <1>1, Now DEF AllRegistered
<1>9. QED
  BY <1>1, <1>6, <1>7, <1>8 DEF IInv

\* The ok or the full counter of a producer, by what its post returned.
OneOf(r, c, n) == n = c + (IF PostResult = r THEN 1 ELSE 0)

\* What a press that passes the debounce does to the button's counters.
LEMMA PressCounts ==
  ASSUME btn \in Buttons, clock \in 0 .. ClockWidth - 1, Button!Pass(PostResult)
  PROVE  /\ btn' \in Buttons /\ PostResult \in {"OK", "FULL"}
         /\ btn'.attempted = btn.attempted + 1 /\ btn'.debounce = btn.debounce
         /\ OneOf("OK", btn.ok, btn'.ok) /\ OneOf("FULL", btn.full, btn'.full)
         /\ btn'.handled = btn.handled
<1>4. btn \in Buttons /\ clock \in 0 .. ClockWidth - 1 /\ ClockWidth \in Nat \ {0}
      /\ Button!Pass(PostResult)
  BY DevkitAssumption
<1>5. PostResult \in {"OK", "FULL"}
  BY DEF PostResult
<1> DEFINE now == clock % ClockWidth
<1>6. now \in 0 .. ClockWidth - 1
  <2>1. clock \in Int
    BY <1>4
  <2>2. QED
    BY <1>4, <2>1, Division
<1>7. btn' = [btn EXCEPT !.attempted = @ + 1, !.seq = @ + 1, !.last_accepted_ms = now,
                         ![IF PostResult = "OK" THEN "ok" ELSE "full"] = @ + 1]
  BY <1>4, <1>5 DEF Button!Pass, Button!Count, Button!Clock
<1> HIDE DEF now
<1>8. btn' = [attempted |-> btn.attempted + 1,
              ok |-> btn.ok + (IF PostResult = "OK" THEN 1 ELSE 0),
              full |-> btn.full + (IF PostResult = "FULL" THEN 1 ELSE 0),
              debounce |-> btn.debounce, other |-> btn.other, last_accepted_ms |-> now,
              seq |-> btn.seq + 1, handled |-> btn.handled]
  <2>0. btn.ok \in Nat /\ btn.full \in Nat
    BY <1>4 DEF Buttons
  <2>1. CASE PostResult = "OK"
    <3>1. btn' = [btn EXCEPT !.attempted = @ + 1, !.seq = @ + 1, !.last_accepted_ms = now,
                            !.ok = @ + 1]
      BY <1>7, <2>1
    <3>2. btn' = [attempted |-> btn.attempted + 1, ok |-> btn.ok + 1, full |-> btn.full,
                  debounce |-> btn.debounce, other |-> btn.other, last_accepted_ms |-> now,
                  seq |-> btn.seq + 1, handled |-> btn.handled]
      BY <1>4, <3>1 DEF Buttons
    <3>3. /\ btn.ok + (IF PostResult = "OK" THEN 1 ELSE 0) = btn.ok + 1
          /\ btn.full + (IF PostResult = "FULL" THEN 1 ELSE 0) = btn.full
      BY <2>0, <2>1
    <3>4. QED
      BY <3>2, <3>3
  <2>2. CASE PostResult = "FULL"
    <3>1. btn' = [btn EXCEPT !.attempted = @ + 1, !.seq = @ + 1, !.last_accepted_ms = now,
                            !.full = @ + 1]
      BY <1>7, <2>2
    <3>2. btn' = [attempted |-> btn.attempted + 1, ok |-> btn.ok, full |-> btn.full + 1,
                  debounce |-> btn.debounce, other |-> btn.other, last_accepted_ms |-> now,
                  seq |-> btn.seq + 1, handled |-> btn.handled]
      BY <1>4, <3>1 DEF Buttons
    <3>3. /\ btn.ok + (IF PostResult = "OK" THEN 1 ELSE 0) = btn.ok
          /\ btn.full + (IF PostResult = "FULL" THEN 1 ELSE 0) = btn.full + 1
      BY <2>0, <2>2
    <3>4. QED
      BY <3>2, <3>3
  <2>3. QED
    BY <1>5, <2>1, <2>2
<1>9. btn' \in Buttons
  BY <1>4, <1>6, <1>8 DEF Buttons
<1>11. /\ btn'.attempted = btn.attempted + 1 /\ btn'.debounce = btn.debounce
       /\ OneOf("OK", btn.ok, btn'.ok) /\ OneOf("FULL", btn.full, btn'.full)
       /\ btn'.handled = btn.handled
  BY <1>8 DEF OneOf
<1>12. QED
  BY <1>5, <1>9, <1>11

\* The button's interrupt posts a press.
LEMMA PressKeeps ==
  ASSUME IInv, PressPosted
  PROVE  IInv'
<1> DEFINE x == [type |-> "button", input |-> "press"]
<1>1. /\ UNCHANGED <<pc, tick_count, enabled, clock, uart, tmr, posted, burst, appVars, seen>>
      /\ "button" \in enabled /\ btn.attempted + uart.rx < MaxInputs /\ Post(x)
      /\ Button!Pass(PostResult)
  BY DEF PressPosted, MoreInputs
<1>2. x \in Items /\ x.type \in registered /\ x.type \in InputTypes /\ x.type # "burst"
  BY <1>1, Now DEF Items, Types, Inputs, InputTypes
<1> HIDE DEF x
<1>3. /\ queue' \in Seq(Items) /\ Len(queue') <= Capacity /\ ev' = ev
      /\ registered' = registered /\ unhandled_count' = unhandled_count
      /\ accepted_count' \in 0 .. CounterWidth - 1 /\ dropped_count' \in Nat
      /\ arrived' \in Seq(Payloads)
  BY <1>1, <1>2, PostStep
<1>4. btn \in Buttons /\ clock \in 0 .. ClockWidth - 1 /\ ClockWidth \in Nat \ {0}
      /\ uart \in Uarts /\ MaxInputs \in Nat
  BY Now, DevkitAssumption DEF Types2
<1>9. /\ btn' \in Buttons /\ PostResult \in {"OK", "FULL"}
      /\ btn'.attempted = btn.attempted + 1 /\ btn'.debounce = btn.debounce
      /\ OneOf("OK", btn.ok, btn'.ok) /\ OneOf("FULL", btn.full, btn'.full)
      /\ btn'.handled = btn.handled
  BY <1>1, <1>4, PressCounts
<1>10. /\ btn.attempted \in Nat /\ btn.ok \in Nat /\ btn.full \in Nat /\ btn.debounce \in Nat
       /\ uart.rx \in Nat /\ uart.ok \in Nat /\ uart.full \in Nat
  BY <1>4 DEF Buttons, Uarts
<1>12. AppInv' /\ app' = app
  BY <1>1, Now, AppStays DEF appVars
<1>13. Types2'
  BY <1>1, <1>3, <1>9, Now DEF Types2
<1>14. Places'
  BY <1>1, <1>3, Now DEF Places
<1>15. InputsAdd'
  <2>1. btn'.attempted = btn'.ok + btn'.full + btn'.debounce
    <3>1. btn.attempted = btn.ok + btn.full + btn.debounce
      BY Now
    <3>2. QED
      BY ONLY <1>9, <1>10, <3>1 DEF OneOf
  <2>2. btn'.attempted + uart.rx <= MaxInputs
    BY <1>1, <1>4, <1>9, <1>10
  <2>3. QED
    BY <1>1, <1>9, <1>12, <2>1, <2>2, Now DEF InputsAdd
<1>16. /\ PostResult = "OK" => btn'.ok = btn.ok + 1 /\ btn'.full = btn.full
       /\ PostResult = "FULL" => btn'.ok = btn.ok /\ btn'.full = btn.full + 1
  BY <1>9, <1>10 DEF OneOf
<1>17. /\ tmr.ok \in Nat /\ tmr.dropped \in Nat /\ burst.ok \in Nat /\ burst.full \in Nat
  BY Now, CounterFacts
<1>18. /\ PostResult = "OK" => /\ Took' = Took + 1 /\ Refused' = Refused
                               /\ btn'.ok + uart'.ok = btn.ok + uart.ok + 1
       /\ PostResult = "FULL" => /\ Took' = Took /\ Refused' = Refused + 1
                                 /\ btn'.ok + uart'.ok = btn.ok + uart.ok
  <2>1. posted' = posted /\ tmr' = tmr /\ burst' = burst /\ uart' = uart
    BY <1>1
  <2>2. QED
    BY ONLY <1>10, <1>16, <1>17, <2>1 DEF Took, Refused
<1>19. QED
  BY <1>1, <1>2, <1>9, <1>12, <1>13, <1>14, <1>15, <1>18, <1>17, Now, PostedKeeps

\* What a byte does to the UART's counters.
LEMMA ByteCounts ==
  ASSUME uart \in Uarts,
         uart' = [uart EXCEPT !.rx = @ + 1, ![IF PostResult = "OK" THEN "ok" ELSE "full"] = @ + 1]
  PROVE  /\ uart' \in Uarts /\ PostResult \in {"OK", "FULL"}
         /\ uart'.rx = uart.rx + 1
         /\ OneOf("OK", uart.ok, uart'.ok) /\ OneOf("FULL", uart.full, uart'.full)
         /\ uart'.handled = uart.handled
<1>4. /\ uart \in Uarts
      /\ uart' = [uart EXCEPT !.rx = @ + 1, ![IF PostResult = "OK" THEN "ok" ELSE "full"] = @ + 1]
  OBVIOUS
<1>5. PostResult \in {"OK", "FULL"}
  BY DEF PostResult
<1>8. uart' = [rx |-> uart.rx + 1,
               ok |-> uart.ok + (IF PostResult = "OK" THEN 1 ELSE 0),
               full |-> uart.full + (IF PostResult = "FULL" THEN 1 ELSE 0),
               handled |-> uart.handled]
  <2>0. uart.ok \in Nat /\ uart.full \in Nat
    BY <1>4 DEF Uarts
  <2>1. CASE PostResult = "OK"
    <3>1. uart' = [uart EXCEPT !.rx = @ + 1, !.ok = @ + 1]
      BY <1>4, <2>1
    <3>2. uart' = [rx |-> uart.rx + 1, ok |-> uart.ok + 1, full |-> uart.full, handled |-> uart.handled]
      BY <1>4, <3>1 DEF Uarts
    <3>3. /\ uart.ok + (IF PostResult = "OK" THEN 1 ELSE 0) = uart.ok + 1
          /\ uart.full + (IF PostResult = "FULL" THEN 1 ELSE 0) = uart.full
      BY <2>0, <2>1
    <3>4. QED
      BY <3>2, <3>3
  <2>2. CASE PostResult = "FULL"
    <3>1. uart' = [uart EXCEPT !.rx = @ + 1, !.full = @ + 1]
      BY <1>4, <2>2
    <3>2. uart' = [rx |-> uart.rx + 1, ok |-> uart.ok, full |-> uart.full + 1, handled |-> uart.handled]
      BY <1>4, <3>1 DEF Uarts
    <3>3. /\ uart.ok + (IF PostResult = "OK" THEN 1 ELSE 0) = uart.ok
          /\ uart.full + (IF PostResult = "FULL" THEN 1 ELSE 0) = uart.full + 1
      BY <2>0, <2>2
    <3>4. QED
      BY <3>2, <3>3
  <2>3. QED
    BY <1>5, <2>1, <2>2
<1>9. uart' \in Uarts
  BY <1>4, <1>8 DEF Uarts
<1>11. /\ uart'.rx = uart.rx + 1
       /\ OneOf("OK", uart.ok, uart'.ok) /\ OneOf("FULL", uart.full, uart'.full)
       /\ uart'.handled = uart.handled
  BY ONLY <1>8 DEF OneOf
<1>12. QED
  BY <1>5, <1>9, <1>11

\* The UART's interrupt posts a byte.
LEMMA ByteArrivesKeeps ==
  ASSUME IInv, NEW c \in Bytes, ByteArrives(c)
  PROVE  IInv'
<1> DEFINE x == [type |-> "uart", input |-> c]
<1>1. /\ UNCHANGED <<pc, tick_count, enabled, clock, btn, tmr, posted, burst, appVars, seen>>
      /\ "uart" \in enabled /\ btn.attempted + uart.rx < MaxInputs /\ Post(x)
      /\ uart' = [uart EXCEPT !.rx = @ + 1, ![IF PostResult = "OK" THEN "ok" ELSE "full"] = @ + 1]
  BY DEF ByteArrives, MoreInputs
<1>2. x \in Items /\ x.type \in registered /\ x.type \in InputTypes /\ x.type # "burst"
  BY <1>1, Now DEF Items, Types, Inputs, InputTypes
<1> HIDE DEF x
<1>3. /\ queue' \in Seq(Items) /\ Len(queue') <= Capacity /\ ev' = ev
      /\ registered' = registered /\ unhandled_count' = unhandled_count
      /\ accepted_count' \in 0 .. CounterWidth - 1 /\ dropped_count' \in Nat
      /\ arrived' \in Seq(Payloads)
  BY <1>1, <1>2, PostStep
<1>4. uart \in Uarts /\ btn \in Buttons /\ MaxInputs \in Nat
  BY Now, DevkitAssumption DEF Types2
<1>9. /\ uart' \in Uarts /\ PostResult \in {"OK", "FULL"}
      /\ uart'.rx = uart.rx + 1
      /\ OneOf("OK", uart.ok, uart'.ok) /\ OneOf("FULL", uart.full, uart'.full)
      /\ uart'.handled = uart.handled
  BY <1>1, <1>4, ByteCounts
<1>10. /\ btn.attempted \in Nat /\ btn.ok \in Nat /\ btn.full \in Nat
       /\ uart.rx \in Nat /\ uart.ok \in Nat /\ uart.full \in Nat
  BY <1>4 DEF Buttons, Uarts
<1>12. AppInv' /\ app' = app
  BY <1>1, Now, AppStays DEF appVars
<1>13. Types2'
  BY <1>1, <1>3, <1>9, Now DEF Types2
<1>14. Places'
  BY <1>1, <1>3, Now DEF Places
<1>15. InputsAdd'
  <2>1. uart'.rx = uart'.ok + uart'.full
    BY <1>9, <1>10, Now DEF OneOf
  <2>2. btn.attempted + uart'.rx <= MaxInputs
    BY <1>1, <1>4, <1>9, <1>10
  <2>3. QED
    BY <1>1, <1>9, <1>12, <2>1, <2>2, Now DEF InputsAdd
<1>16. /\ PostResult = "OK" => uart'.ok = uart.ok + 1 /\ uart'.full = uart.full
       /\ PostResult = "FULL" => uart'.ok = uart.ok /\ uart'.full = uart.full + 1
  BY <1>9, <1>10 DEF OneOf
<1>17. /\ tmr.ok \in Nat /\ tmr.dropped \in Nat /\ burst.ok \in Nat /\ burst.full \in Nat
  BY Now, CounterFacts
<1>18. /\ PostResult = "OK" => /\ Took' = Took + 1 /\ Refused' = Refused
                               /\ btn'.ok + uart'.ok = btn.ok + uart.ok + 1
       /\ PostResult = "FULL" => /\ Took' = Took /\ Refused' = Refused + 1
                                 /\ btn'.ok + uart'.ok = btn.ok + uart.ok
  <2>1. posted' = posted /\ tmr' = tmr /\ burst' = burst /\ btn' = btn
    BY <1>1
  <2>2. QED
    BY ONLY <1>10, <1>16, <1>17, <2>1 DEF Took, Refused
<1>19. QED
  BY <1>1, <1>2, <1>9, <1>12, <1>13, <1>14, <1>15, <1>18, <1>17, Now, PostedKeeps

\* The burst's timer posts.
LEMMA BurstKeeps ==
  ASSUME IInv, BurstPosts
  PROVE  IInv'
<1> DEFINE x == [type |-> "burst", input |-> "beat"]
<1>1. /\ UNCHANGED <<pc, tick_count, enabled, clock, btn, uart, tmr, posted, appVars, seen>>
      /\ burst.started /\ burst.seq <= Attempts /\ Post(x)
      /\ burst' = [burst EXCEPT !.seq = @ + 1,
                                ![IF PostResult = "OK" THEN "ok" ELSE "full"] = @ + 1]
  BY DEF BurstPosts, BurstGoesOn
<1>2. x \in Items /\ x.type \in registered /\ x.type \notin InputTypes /\ x.type = "burst"
  BY <1>1, Now DEF Items, Types, Inputs, InputTypes
<1> HIDE DEF x
<1>3. /\ queue' \in Seq(Items) /\ Len(queue') <= Capacity /\ ev' = ev
      /\ registered' = registered /\ unhandled_count' = unhandled_count
      /\ accepted_count' \in 0 .. CounterWidth - 1 /\ dropped_count' \in Nat
      /\ arrived' \in Seq(Payloads)
  BY <1>1, <1>2, PostStep
<1>4. burst \in Bursts /\ Attempts \in Nat
  BY Now, DevkitAssumption DEF Types2
<1>5. PostResult \in {"OK", "FULL"}
  BY DEF PostResult
<1>6. burst' = [started |-> burst.started, seq |-> burst.seq + 1,
                ok |-> burst.ok + (IF PostResult = "OK" THEN 1 ELSE 0),
                full |-> burst.full + (IF PostResult = "FULL" THEN 1 ELSE 0),
                handled |-> burst.handled, logged |-> burst.logged]
  <2>0. burst.ok \in Nat /\ burst.full \in Nat
    BY <1>4 DEF Bursts
  <2>1. CASE PostResult = "OK"
    <3>1. burst' = [burst EXCEPT !.seq = @ + 1, !.ok = @ + 1]
      BY <1>1, <2>1
    <3>2. burst' = [started |-> burst.started, seq |-> burst.seq + 1, ok |-> burst.ok + 1,
                    full |-> burst.full, handled |-> burst.handled, logged |-> burst.logged]
      BY <1>4, <3>1 DEF Bursts
    <3>3. /\ burst.ok + (IF PostResult = "OK" THEN 1 ELSE 0) = burst.ok + 1
          /\ burst.full + (IF PostResult = "FULL" THEN 1 ELSE 0) = burst.full
      BY <2>0, <2>1
    <3>4. QED
      BY <3>2, <3>3
  <2>2. CASE PostResult = "FULL"
    <3>1. burst' = [burst EXCEPT !.seq = @ + 1, !.full = @ + 1]
      BY <1>1, <2>2
    <3>2. burst' = [started |-> burst.started, seq |-> burst.seq + 1, ok |-> burst.ok,
                    full |-> burst.full + 1, handled |-> burst.handled, logged |-> burst.logged]
      BY <1>4, <3>1 DEF Bursts
    <3>3. /\ burst.ok + (IF PostResult = "OK" THEN 1 ELSE 0) = burst.ok
          /\ burst.full + (IF PostResult = "FULL" THEN 1 ELSE 0) = burst.full + 1
      BY <2>0, <2>2
    <3>4. QED
      BY <3>2, <3>3
  <2>3. QED
    BY <1>5, <2>1, <2>2
<1>7. burst' \in Bursts
  <2>1. burst.seq + 1 \in 1 .. Attempts + 1
    BY <1>1, <1>4 DEF Bursts
  <2>2. QED
    BY <1>4, <1>6, <2>1 DEF Bursts
<1>8. /\ burst.ok \in Nat /\ burst.full \in Nat /\ burst.seq \in Nat
      /\ btn.ok \in Nat /\ uart.ok \in Nat /\ tmr.ok \in Nat
      /\ btn.full \in Nat /\ uart.full \in Nat /\ tmr.dropped \in Nat
  BY Now, CounterFacts
<1>9. /\ burst'.started = burst.started /\ burst'.handled = burst.handled
      /\ burst'.seq = burst.seq + 1
      /\ OneOf("OK", burst.ok, burst'.ok) /\ OneOf("FULL", burst.full, burst'.full)
  BY <1>6 DEF OneOf
<1>10. /\ PostResult = "OK" => burst'.ok = burst.ok + 1 /\ burst'.full = burst.full
       /\ PostResult = "FULL" => burst'.ok = burst.ok /\ burst'.full = burst.full + 1
  BY <1>8, <1>9 DEF OneOf
<1>11. burst'.ok + burst'.full = burst'.seq - 1
  <2>1. burst.ok + burst.full = burst.seq - 1
    BY Now
  <2>2. QED
    BY ONLY <1>5, <1>8, <1>9, <1>10, <2>1
<1>12. AppInv' /\ app' = app
  BY <1>1, Now, AppStays DEF appVars
<1>13. Types2'
  BY <1>1, <1>3, <1>7, Now DEF Types2
<1>14. Places'
  BY <1>1, <1>3, Now DEF Places
<1>15. InputsAdd'
  BY <1>1, <1>12, Now DEF InputsAdd
<1>16. /\ PostResult = "OK" => Took' = Took + 1 /\ Refused' = Refused
       /\ PostResult = "FULL" => Took' = Took /\ Refused' = Refused + 1
  <2>1. posted' = posted /\ tmr' = tmr /\ btn' = btn /\ uart' = uart
    BY <1>1
  <2>2. QED
    BY ONLY <1>8, <1>10, <2>1 DEF Took, Refused
<1>17. btn'.ok + uart'.ok = btn.ok + uart.ok + 0 /\ btn'.ok + uart'.ok = btn.ok + uart.ok
  BY <1>1, <1>8
<1>18. QED
  BY <1>1, <1>2, <1>9, <1>10, <1>11, <1>12, <1>13, <1>14, <1>15, <1>16, <1>17, Now, PostedKeeps

\* The timer producer posts, and keeps the result to be counted.
LEMMA TimerKeeps ==
  ASSUME IInv, TimerPosts
  PROVE  IInv'
<1> DEFINE x == [type |-> "timer", input |-> "beat"]
           W == CounterWidth
<1>1. /\ UNCHANGED <<tick_count, enabled, clock, btn, uart, burst, appVars, seen>>
      /\ pc = "timer post" /\ pc' = "timer count" /\ tmr.init_done /\ Post(x)
      /\ tmr' = [tmr EXCEPT !.attempted = (@ + 1) % W] /\ posted' = PostResult
  BY DEF TimerPosts, ShouldPost, Goes
<1>2. x \in Items /\ x.type \in registered /\ x.type \notin InputTypes /\ x.type # "burst"
  BY <1>1, Now DEF Items, Types, Inputs, InputTypes
<1> HIDE DEF x
<1>3. /\ queue' \in Seq(Items) /\ Len(queue') <= Capacity /\ ev' = ev
      /\ registered' = registered /\ unhandled_count' = unhandled_count
      /\ accepted_count' \in 0 .. CounterWidth - 1 /\ dropped_count' \in Nat
      /\ arrived' \in Seq(Payloads)
  BY <1>1, <1>2, PostStep
<1>4. tmr \in Timers /\ W \in Nat \ {0}
  BY Now, DevkitAssumption DEF Types2
<1>5. posted = "none" /\ ev = NoItem
  BY <1>1, Now DEF Places
<1>6. PostResult \in {"OK", "FULL"}
  BY DEF PostResult
<1>7. (tmr.attempted + 1) % W \in 0 .. W - 1
  <2>1. tmr.attempted + 1 \in Int
    BY <1>4 DEF Timers
  <2>2. QED
    BY <1>4, <2>1, Division
<1>8. /\ tmr' \in Timers /\ tmr'.ok = tmr.ok /\ tmr'.dropped = tmr.dropped
      /\ tmr'.init_done = tmr.init_done
  <2> DEFINE n == (tmr.attempted + 1) % W
  <2>1. n \in 0 .. W - 1 /\ tmr' = [tmr EXCEPT !.attempted = n]
    BY <1>1, <1>7
  <2> HIDE DEF n
  <2>2. QED
    BY <1>4, <2>1 DEF Timers
<1>9. /\ burst.ok \in Nat /\ burst.full \in Nat
      /\ btn.ok \in Nat /\ uart.ok \in Nat /\ tmr.ok \in Nat
      /\ btn.full \in Nat /\ uart.full \in Nat /\ tmr.dropped \in Nat
  BY Now, CounterFacts
<1>10. AppInv' /\ app' = app
  BY <1>1, Now, AppStays DEF appVars
<1>11. Types2'
  BY <1>1, <1>3, <1>6, <1>8, Now DEF Types2
<1>12. Places'
  BY <1>1, <1>3, <1>5, <1>6 DEF Places
<1>13. InputsAdd'
  BY <1>1, <1>10, Now DEF InputsAdd
<1>14. /\ PostResult = "OK" => Took' = Took + 1 /\ Refused' = Refused
       /\ PostResult = "FULL" => Took' = Took /\ Refused' = Refused + 1
  <2>1. /\ burst' = burst /\ btn' = btn /\ uart' = uart
        /\ tmr'.ok = tmr.ok /\ tmr'.dropped = tmr.dropped
        /\ posted = "none" /\ posted' = PostResult
    BY <1>1, <1>5, <1>8
  <2>2. Took = btn.ok + uart.ok + tmr.ok + burst.ok
        /\ Refused = btn.full + uart.full + tmr.dropped + burst.full
    BY ONLY <1>9, <2>1 DEF Took, Refused
  <2>3. /\ Took' = btn.ok + uart.ok + tmr.ok + burst.ok + (IF PostResult = "OK" THEN 1 ELSE 0)
        /\ Refused' = btn.full + uart.full + tmr.dropped + burst.full
                        + (IF PostResult = "FULL" THEN 1 ELSE 0)
    BY ONLY <2>1 DEF Took, Refused
  <2>4. QED
    BY ONLY <1>9, <2>2, <2>3
<1>15. /\ btn'.ok + uart'.ok = btn.ok + uart.ok + 0 /\ btn'.ok + uart'.ok = btn.ok + uart.ok
       /\ burst'.ok = burst.ok + 0 /\ burst'.ok = burst.ok
       /\ burst'.ok + burst'.full = burst'.seq - 1
  <2>1. btn' = btn /\ uart' = uart /\ burst' = burst
    BY <1>1
  <2>2. burst.ok + burst.full = burst.seq - 1
    BY Now
  <2>3. QED
    BY ONLY <1>9, <2>1, <2>2
<1>16. QED
  BY <1>1, <1>2, <1>8, <1>10, <1>11, <1>12, <1>13, <1>14, <1>15, Now, PostedKeeps

-----------------------------------------------------------------------------
(* The theorems of the program. *)

\* A program that has not started keeps the invariant.
LEMMA ProgramInit ==
  Init => IInv
<1> SUFFICES ASSUME Init
             PROVE  IInv
  OBVIOUS
<1>1. AppInv
  BY AppStarts DEF Init
<1>2. Types2
  <2>1. btn \in Buttons
    BY DevkitAssumption DEF Init, Button!FreshButton, Buttons
  <2>2. uart \in Uarts /\ tmr \in Timers /\ burst \in Bursts
    BY DevkitAssumption DEF Init, Uarts, Timers, Bursts
  <2>3. QED
    BY <2>1, <2>2, DevkitAssumption DEF Init, Types2
<1>3. Waiting = <<>>
  BY DEF Init, Waiting
<1>4. \A T : Of(T, Waiting) = {} /\ Cardinality(Of(T, Waiting)) = 0
  <2>1. ASSUME NEW T
        PROVE  Of(T, Waiting) = {}
    BY <1>3 DEF Of
  <2>2. Cardinality({}) = 0
    BY FS_EmptySet
  <2>3. QED
    BY <2>1, <2>2
<1>5. Places /\ AllRegistered
  BY <1>3 DEF Init, Places, AllRegistered, WaitingRegistered
<1>6. BurstAdds
  BY <1>4 DEF Init, BurstAdds, BurstWaiting
<1>7. InputsAdd
  BY DevkitAssumption DEF Init, InputsAdd, Button!FreshButton, App!Init, App!FreshApp
<1>8. InputsArriveInOrder
  BY <1>4 DEF Init, InputsArriveInOrder
<1>9. Counts
  <2>1. Took = 0 /\ Refused = 0 /\ dropped_count = 0 /\ accepted_count = 0
    BY DEF Init, Took, Refused, Button!FreshButton
  <2>2. 0 % CounterWidth = 0
    <3>1. CounterWidth \in Nat \ {0} /\ 0 \in 0 .. 2 * CounterWidth - 1 /\ 0 < CounterWidth
      BY DevkitAssumption
    <3>2. QED
      BY <3>1, WrapsOnce
  <2>3. QED
    BY <2>1, <2>2 DEF Init, Counts, Button!FreshButton
<1>10. QED
  BY <1>1, <1>2, <1>5, <1>6, <1>7, <1>8, <1>9 DEF IInv

\* And keeps it with every step.
LEMMA ProgramStep ==
  IInv /\ [Next]_vars => IInv'
<1> SUFFICES ASSUME IInv, [Next]_vars
             PROVE  IInv'
  OBVIOUS
<1>1. CASE CoreInit \/ LedInit \/ StartTick \/ TickEmpty
  BY <1>1, MovesKeep
<1>2. CASE AppInit
  BY <1>2, AppInitKeeps
<1>3. CASE StartBurst \/ TimerInit \/ ButtonInit \/ UartInit
  BY <1>3, InitsKeep
<1>4. CASE TickTakes
  BY <1>4, TakesKeeps
<1>5. CASE Handle
  BY <1>5, HandleKeeps
<1>6. CASE TimerSkips
  BY <1>6, SkipsKeeps
<1>7. CASE TimerPosts
  BY <1>7, TimerKeeps
<1>8. CASE TimerCounts
  BY <1>8, TimerCountsKeeps
<1>9. CASE PressFiltered \/ Elapses
  BY <1>9, ClockKeeps
<1>10. CASE PressPosted
  BY <1>10, PressKeeps
<1>11. CASE BurstPosts
  BY <1>11, BurstKeeps
<1>12. CASE \E b \in Bytes : ByteArrives(b)
  BY <1>12, ByteArrivesKeeps
<1>13. CASE UNCHANGED vars
  <2>1. UNCHANGED <<pc, tick_count, queue, dropped_count, ev, registered, accepted_count,
                    unhandled_count, enabled, clock, btn, uart, tmr, posted, burst,
                    appVars, arrived, seen>>
    BY <1>13 DEF vars, coreVars, history
  <2>2. AppInv' /\ app' = app /\ Waiting' = Waiting /\ Places'
    BY <2>1, Now, AppStays DEF appVars, Waiting, Places
  <2>3. Types2'
    BY <2>1, Now DEF Types2
  <2>4. QED
    BY <2>1, <2>2, <2>3, Now, QuietStep
<1>14. QED
  BY <1>1, <1>2, <1>3, <1>4, <1>5, <1>6, <1>7, <1>8, <1>9, <1>10, <1>11, <1>12, <1>13
     DEF Next, ThreadStep

\* The inductive invariant: types, the hands of the thread, handlers before
\* interrupts, the sums of the counters, and the order of the inputs.
THEOREM ProgramInvariance == Spec => []IInv
<1>1. QED
  BY ProgramInit, ProgramStep, PTL DEF Spec

\* From the interrupt to the application: for every queue capacity and any
\* number of inputs, what the core accepted reaches the application in order,
\* nothing is lost behind the core and nothing is handled twice.
THEOREM InputsInOrder == Spec => []InputsArriveInOrder
<1>1. IInv => InputsArriveInOrder
  BY DEF IInv
<1>2. QED
  BY <1>1, ProgramInvariance, PTL

\* TypeOK, with the bounds of the burst's counters, follows.
LEMMA TypesHold ==
  IInv => TypeOK
<1> SUFFICES ASSUME IInv
             PROVE  TypeOK
  OBVIOUS
<1>1. burst.handled \in 0 .. Attempts
  <2>1. /\ burst.handled \in Nat /\ burst.ok \in Nat /\ burst.full \in Nat /\ burst.seq \in Nat
        /\ burst.handled + BurstWaiting = burst.ok /\ burst.ok + burst.full = burst.seq - 1
    BY Now, CounterFacts
  <2>2. BurstWaiting \in Nat
    <3>1. Waiting \in Seq(Items)
      BY Now, WaitingIs DEF Types2
    <3>2. QED
      BY <3>1, PlacesFinite DEF BurstWaiting
  <2>3. burst.seq <= Attempts + 1 /\ Attempts \in Nat
    BY Now, DevkitAssumption DEF Types2, Bursts
  <2>4. QED
    BY ONLY <2>1, <2>2, <2>3
<1>2. App!TypeOK
  BY Now DEF AppInv, App!TypeOK, Apps, ProbeInv
<1>3. burst.seq \in 1 .. Attempts + 1 /\ tmr \in Timers /\ uart \in Uarts
  BY Now DEF Types2, Bursts
<1>4. QED
  BY <1>1, <1>2, <1>3, Now DEF TypeOK, Types2, Timers, Uarts, InputTypes

\* Every variable of the program keeps its type.
THEOREM ProgramTypes == Spec => []TypeOK
<1>1. QED
  BY TypesHold, ProgramInvariance, PTL

\* The producers' counters and the core's tell the same, for every width of the
\* counters and whatever interrupts come between the timer's post and its
\* counting of the result.
THEOREM CountersAlwaysAgree == Spec => []CountersAgree
<1>1. IInv => CountersAgree
  BY TypesHold DEF IInv, Counts, Took, Refused, CountersAgree
<1>2. QED
  BY <1>1, ProgramInvariance, PTL

\* No event is ever dispatched without a handler.
THEOREM NothingUnhandled == Spec => [](unhandled_count = 0 /\ WaitingRegistered)
<1>1. IInv => unhandled_count = 0 /\ WaitingRegistered
  BY DEF IInv, Types2, AllRegistered
<1>2. QED
  BY <1>1, ProgramInvariance, PTL

\* In the whole program, too, the probe follows the application as far as its
\* own table lets it, and its two halves agree.
THEOREM ProbeFollowsInProgram ==
  Spec => [](ProbeFollowsApp /\ BridgeAndFsmAgree)
<1>1. IInv => ProbeFollowsApp /\ BridgeAndFsmAgree
  BY DEF IInv, AppInv, ProbeInv, ProbeFollowsApp, BridgeAndFsmAgree
<1>2. QED
  BY <1>1, ProgramInvariance, PTL

-----------------------------------------------------------------------------
(* The report. *)

ButtonFields == {"attempted", "ok", "full", "debounce", "other", "handled"}
UartFields   == {"rx", "ok", "full", "handled"}
Widths       == 0 .. CounterWidth - 1

Lines == [core   : [accepted : Widths, dropped : Widths, pending : Nat, unhandled : Nat],
          timer  : [ok : Widths, dropped : Widths],
          button : [ButtonFields -> Nat],
          uart   : [UartFields -> Nat],
          app    : [button : Nat, uart : Nat],
          probe  : [fsm    : [events : Nat, stays : Nat],
                    bridge : [mapped : Nat, unmapped : Nat]]]

Where ==
  /\ at \in {"none", "timer", "button", "uart", "app", "done"} /\ copied \in Nat
  /\ at \notin {"button", "uart"} => copied = 0
  /\ at = "button" => copied <= 5
  /\ at = "uart" => copied <= 3

\* Whether the k-th field of the button's or the UART's line has been copied,
\* and what the line shows of a field, or would show of it were it copied now.
ButtonPast(k) == at \in {"uart", "app", "done"} \/ (at = "button" /\ copied >= k)
UartPast(k)   == at \in {"app", "done"} \/ (at = "uart" /\ copied >= k)
ButtonShows(k, f) == IF ButtonPast(k) THEN line.button[f] ELSE btn[f]
UartShows(k, f)   == IF UartPast(k) THEN line.uart[f] ELSE uart[f]

ShownOk   == ButtonShows(2, "ok") + UartShows(2, "ok")
ShownFull == ButtonShows(3, "full") + UartShows(3, "full")

\* While a report is printed: the thread is here, so that only interrupts count;
\* totals are at most what their parts show; and the core's line is the
\* producers' by as much earlier as they have counted since.
Printing ==
  /\ pc = "loop"
  /\ at # "timer" => line.timer.ok = tmr.ok /\ line.timer.dropped = tmr.dropped
  /\ ButtonPast(1) => line.button["attempted"] <= ButtonShows(2, "ok") + ButtonShows(3, "full")
                                     + ButtonShows(4, "debounce") + ButtonShows(5, "other")
  /\ UartPast(1) => line.uart["rx"] <= UartShows(2, "ok") + UartShows(3, "full")
  /\ ButtonShows(2, "ok") <= btn.ok /\ ButtonShows(3, "full") <= btn.full
  /\ UartShows(2, "ok") <= uart.ok /\ UartShows(3, "full") <= uart.full
  /\ \E d \in 0 .. ShownOk : line.core.accepted = (tmr.ok + (ShownOk - d)) % CounterWidth
  /\ \E d \in 0 .. ShownFull : line.core.dropped = (tmr.dropped + (ShownFull - d)) % CounterWidth
  /\ Len(seen) <= ShownOk
  /\ ButtonPast(6) => line.button["handled"] = btn.handled
  /\ UartPast(4) => line.uart["handled"] = uart.handled
  /\ at = "done" => /\ line.app.button = app.button_count /\ line.app.uart = app.uart_count
                    /\ line.probe.bridge.mapped = line.probe.fsm.events

\* The report is that of a program without the startup burst.
NoBurst == burst.ok = 0 /\ burst.full = 0

RInv == /\ IInv /\ NoBurst /\ line \in Lines /\ Where
        /\ at # "none" => Printing

\* The fields are copied one by one, each once.
LEMMA Orders ==
  /\ Len(ButtonOrder) = 6 /\ Len(UartOrder) = 4
  /\ \A j \in 1 .. 6 : ButtonOrder[j] \in ButtonFields
  /\ \A j, k \in 1 .. 6 : j # k => ButtonOrder[j] # ButtonOrder[k]
  /\ \A j \in 1 .. 4 : UartOrder[j] \in UartFields
  /\ \A j, k \in 1 .. 4 : j # k => UartOrder[j] # UartOrder[k]
  /\ ButtonOrder[1] = "attempted" /\ ButtonOrder[2] = "ok" /\ ButtonOrder[3] = "full"
  /\ ButtonOrder[4] = "debounce" /\ ButtonOrder[5] = "other" /\ ButtonOrder[6] = "handled"
  /\ UartOrder[1] = "rx" /\ UartOrder[2] = "ok" /\ UartOrder[3] = "full"
  /\ UartOrder[4] = "handled"
<1>1. \A j \in 1 .. 6 : j = 1 \/ j = 2 \/ j = 3 \/ j = 4 \/ j = 5 \/ j = 6
  OBVIOUS
<1>2. \A j \in 1 .. 4 : j = 1 \/ j = 2 \/ j = 3 \/ j = 4
  OBVIOUS
<1>3. /\ Len(ButtonOrder) = 6
      /\ ButtonOrder[1] = "attempted" /\ ButtonOrder[2] = "ok" /\ ButtonOrder[3] = "full"
      /\ ButtonOrder[4] = "debounce" /\ ButtonOrder[5] = "other" /\ ButtonOrder[6] = "handled"
  BY DEF ButtonOrder
<1>4. /\ Len(UartOrder) = 4
      /\ UartOrder[1] = "rx" /\ UartOrder[2] = "ok" /\ UartOrder[3] = "full"
      /\ UartOrder[4] = "handled"
  BY DEF UartOrder
<1>5. /\ \A j \in 1 .. 6 : ButtonOrder[j] \in ButtonFields
      /\ \A j, k \in 1 .. 6 : j # k => ButtonOrder[j] # ButtonOrder[k]
  BY <1>1, <1>3 DEF ButtonFields
<1>6. /\ \A j \in 1 .. 4 : UartOrder[j] \in UartFields
      /\ \A j, k \in 1 .. 4 : j # k => UartOrder[j] # UartOrder[k]
  BY <1>2, <1>4 DEF UartFields
<1>7. QED
  BY <1>3, <1>4, <1>5, <1>6

\* The counters a line shows, or would show.
LEMMA Shown ==
  ASSUME IInv, line \in Lines
  PROVE  /\ \A f \in ButtonFields : btn[f] \in Nat /\ line.button[f] \in Nat
         /\ \A f \in UartFields : uart[f] \in Nat /\ line.uart[f] \in Nat
         /\ \A k : \A f \in ButtonFields : ButtonShows(k, f) \in Nat
         /\ \A k : \A f \in UartFields : UartShows(k, f) \in Nat
         /\ ShownOk \in Nat /\ ShownFull \in Nat
<1>1. btn \in Buttons /\ uart \in Uarts
  BY Now DEF Types2
<1>2. \A f \in ButtonFields : btn[f] \in Nat
  BY <1>1 DEF Buttons, ButtonFields
<1>3. \A f \in UartFields : uart[f] \in Nat
  BY <1>1 DEF Uarts, UartFields
<1>4. line.button \in [ButtonFields -> Nat] /\ line.uart \in [UartFields -> Nat]
  BY DEF Lines
<1>5. /\ \A f \in ButtonFields : line.button[f] \in Nat
      /\ \A f \in UartFields : line.uart[f] \in Nat
  BY <1>4
<1>6. /\ \A k : \A f \in ButtonFields : ButtonShows(k, f) \in Nat
      /\ \A k : \A f \in UartFields : UartShows(k, f) \in Nat
  BY <1>2, <1>3, <1>5 DEF ButtonShows, UartShows
<1>7. "ok" \in ButtonFields /\ "ok" \in UartFields /\ "full" \in ButtonFields /\ "full" \in UartFields
  BY DEF ButtonFields, UartFields
<1>8. ShownOk \in Nat /\ ShownFull \in Nat
  BY <1>6, <1>7 DEF ShownOk, ShownFull
<1>9. QED
  BY <1>2, <1>3, <1>5, <1>6, <1>8

\* Before the first report nothing is printed.
LEMMA ReportStarts ==
  ReportInit => RInv
<1> SUFFICES ASSUME ReportInit
             PROVE  RInv
  OBVIOUS
<1>1. IInv /\ NoBurst
  BY ProgramInit DEF ReportInit, Init, NoBurst
<1>2. /\ {ButtonOrder[i] : i \in 1 .. Len(ButtonOrder)} = ButtonFields
      /\ {UartOrder[i] : i \in 1 .. Len(UartOrder)} = UartFields
  BY Orders DEF ButtonFields, UartFields
<1>3. 0 \in Widths
  BY DevkitAssumption DEF Widths
<1>4. Blank \in Lines
  BY <1>2, <1>3 DEF Blank, Lines, NoProbe
<1>5. QED
  BY <1>1, <1>4 DEF ReportInit, RInv, Where

\* A step of the thread posts nothing for the burst.
LEMMA ThreadPostsNoBurst ==
  ASSUME IInv, ThreadStep
  PROVE  burst'.ok = burst.ok /\ burst'.full = burst.full
<1>1. burst \in Bursts
  BY Now DEF Types2
<1>2. CASE UNCHANGED burst
  BY <1>2
<1>3. CASE StartBurst
  BY <1>1, <1>3 DEF StartBurst, Bursts
<1>4. CASE Report
  BY <1>1, <1>4, ReportFacts
<1>5. CASE HandleBurst
  BY <1>1, <1>5 DEF HandleBurst, Bursts
<1>6. QED
  <2>1. CASE CoreInit \/ AppInit \/ LedInit \/ TimerInit \/ ButtonInit \/ UartInit
    BY <1>2, <2>1 DEF CoreInit, AppInit, LedInit, TimerInit, ButtonInit, UartInit, InputInit,
                      registerOnly
  <2>2. CASE StartTick \/ TickEmpty \/ TickTakes
    BY <1>2, <2>2 DEF StartTick, TickEmpty, TickTakes
  <2>3. CASE Handle
    BY <1>2, <1>5, <2>3 DEF Handle, HandlePress, HandleByte, HandleBeat
  <2>4. CASE TimerSkips \/ TimerPosts \/ TimerCounts
    BY <1>2, <1>4, <2>4 DEF TimerSkips, TimerPosts, TimerCounts
  <2>5. QED
    BY <1>3, <2>1, <2>2, <2>3, <2>4 DEF ThreadStep

\* The thread's own steps come when nothing is being printed, and blank the line.
LEMMA GoesOnKeeps ==
  ASSUME RInv, GoesOn
  PROVE  RInv'
<1>1. /\ ThreadStep /\ at' = "none" /\ line' = Blank /\ copied' = copied
      /\ at \in {"done", "none"} /\ IInv /\ NoBurst /\ Where
  BY DEF RInv, GoesOn
<1>2. IInv' /\ NoBurst'
  BY <1>1, ProgramStep, ThreadPostsNoBurst DEF Next, NoBurst
<1>3. /\ {ButtonOrder[i] : i \in 1 .. Len(ButtonOrder)} = ButtonFields
      /\ {UartOrder[i] : i \in 1 .. Len(UartOrder)} = UartFields
  BY Orders DEF ButtonFields, UartFields
<1>4. 0 \in Widths
  BY DevkitAssumption DEF Widths
<1>5. Blank \in Lines
  BY <1>3, <1>4 DEF Blank, Lines, NoProbe
<1>6. Where'
  BY <1>1 DEF Where
<1>7. QED
  BY <1>1, <1>2, <1>5, <1>6 DEF RInv

\* An interrupt counts on and touches nothing else that is printed.
LEMMA InterruptGrows ==
  ASSUME IInv, Interrupt
  PROVE  /\ IInv' /\ UNCHANGED <<pc, tmr, posted, burst, app, fsm, bridge, seen, at, copied, line>>
         /\ btn'.handled = btn.handled /\ uart'.handled = uart.handled
         /\ \A f \in ButtonFields : btn'[f] \in Nat /\ btn[f] <= btn'[f]
         /\ \A f \in UartFields : uart'[f] \in Nat /\ uart[f] <= uart'[f]
<1>1. /\ PressFiltered \/ PressPosted \/ Elapses \/ \E b \in Bytes : ByteArrives(b)
      /\ UNCHANGED <<at, copied, line>>
  BY DEF Interrupt, reportVars
<1>2. IInv'
  BY <1>1, ProgramStep DEF Next
<1>3. UNCHANGED <<pc, tmr, posted, burst, app, fsm, bridge, seen>>
  BY <1>1 DEF PressFiltered, PressPosted, Elapses, ByteArrives, appVars, history
<1>4. btn \in Buttons /\ uart \in Uarts /\ btn' \in Buttons /\ uart' \in Uarts
      /\ clock \in 0 .. ClockWidth - 1
  BY <1>2, Now DEF IInv, Types2
<1>5. /\ btn.attempted \in Nat /\ btn.ok \in Nat /\ btn.full \in Nat /\ btn.debounce \in Nat
      /\ btn.other = 0 /\ btn.handled \in Nat /\ btn'.other = 0
      /\ uart.rx \in Nat /\ uart.ok \in Nat /\ uart.full \in Nat /\ uart.handled \in Nat
  BY <1>4 DEF Buttons, Uarts
<1>6. /\ btn.attempted <= btn'.attempted /\ btn.ok <= btn'.ok /\ btn.full <= btn'.full
      /\ btn.debounce <= btn'.debounce /\ btn'.handled = btn.handled
  <2>1. CASE PressFiltered
    <3>1. btn' = [btn EXCEPT !.attempted = @ + 1, !.debounce = @ + 1, !.seq = @ + 1]
      BY <2>1 DEF PressFiltered, Button!Filter
    <3>2. btn' = [attempted |-> btn.attempted + 1, ok |-> btn.ok, full |-> btn.full,
                  debounce |-> btn.debounce + 1, other |-> btn.other,
                  last_accepted_ms |-> btn.last_accepted_ms, seq |-> btn.seq + 1,
                  handled |-> btn.handled]
      BY <1>4, <3>1 DEF Buttons
    <3>3. QED
      BY <1>5, <3>2
  <2>2. CASE PressPosted
    <3>1. Button!Pass(PostResult)
      BY <2>2 DEF PressPosted
    <3>2. /\ btn'.attempted = btn.attempted + 1 /\ btn'.debounce = btn.debounce
          /\ OneOf("OK", btn.ok, btn'.ok) /\ OneOf("FULL", btn.full, btn'.full)
          /\ btn'.handled = btn.handled
      BY <1>4, <3>1, PressCounts
    <3>3. QED
      BY <1>5, <3>2 DEF OneOf
  <2>3. CASE Elapses \/ \E b \in Bytes : ByteArrives(b)
    <3>1. btn' = btn
      BY <2>3 DEF Elapses, ByteArrives
    <3>2. QED
      BY <1>5, <3>1
  <2>4. QED
    BY <1>1, <2>1, <2>2, <2>3
<1>7. uart.rx <= uart'.rx /\ uart.ok <= uart'.ok /\ uart.full <= uart'.full
      /\ uart'.handled = uart.handled
  <2>1. CASE \E b \in Bytes : ByteArrives(b)
    <3>1. uart' = [uart EXCEPT !.rx = @ + 1, ![IF PostResult = "OK" THEN "ok" ELSE "full"] = @ + 1]
      BY <2>1 DEF ByteArrives
    <3>2. /\ uart'.rx = uart.rx + 1
          /\ OneOf("OK", uart.ok, uart'.ok) /\ OneOf("FULL", uart.full, uart'.full)
          /\ uart'.handled = uart.handled
      BY <1>4, <3>1, ByteCounts
    <3>3. QED
      BY <1>5, <3>2 DEF OneOf
  <2>2. CASE PressFiltered \/ PressPosted \/ Elapses
    <3>1. uart' = uart
      BY <2>2 DEF PressFiltered, PressPosted, Elapses
    <3>2. QED
      BY <1>5, <3>1
  <2>3. QED
    BY <1>1, <2>1, <2>2
<1>8. \A f \in ButtonFields : btn'[f] \in Nat /\ btn[f] <= btn'[f]
  <2>1. \A f \in ButtonFields : btn'[f] \in Nat
    BY <1>4 DEF Buttons, ButtonFields
  <2>2. btn.other <= btn'.other /\ btn.handled <= btn'.handled
    BY <1>5, <1>6
  <2>3. QED
    BY <1>6, <2>1, <2>2 DEF ButtonFields
<1>9. \A f \in UartFields : uart'[f] \in Nat /\ uart[f] <= uart'[f]
  <2>1. \A f \in UartFields : uart'[f] \in Nat
    BY <1>4 DEF Uarts, UartFields
  <2>2. uart.handled <= uart'.handled
    BY <1>5, <1>7
  <2>3. QED
    BY <1>7, <2>1, <2>2 DEF UartFields
<1>10. QED
  BY <1>1, <1>2, <1>3, <1>6, <1>7, <1>8, <1>9

\* What was counted since grows with the sum.
LEMMA LeadGrows ==
  ASSUME NEW m \in Nat, NEW n \in Nat, m <= n, NEW d \in 0 .. m
  PROVE  d + (n - m) \in 0 .. n /\ n - (d + (n - m)) = m - d
OBVIOUS

\* Interrupts while a report is printed.
LEMMA InterruptKeeps ==
  ASSUME RInv, Interrupt
  PROVE  RInv'
<1>1. IInv /\ NoBurst /\ line \in Lines /\ Where
  BY DEF RInv
<1>2. /\ IInv' /\ UNCHANGED <<pc, tmr, posted, burst, app, fsm, bridge, seen, at, copied, line>>
      /\ btn'.handled = btn.handled /\ uart'.handled = uart.handled
      /\ \A f \in ButtonFields : btn'[f] \in Nat /\ btn[f] <= btn'[f]
      /\ \A f \in UartFields : uart'[f] \in Nat /\ uart[f] <= uart'[f]
  BY <1>1, InterruptGrows
<1>3. NoBurst' /\ line' \in Lines /\ Where'
  BY <1>1, <1>2 DEF NoBurst, Where, Lines, Widths
<1>4. ASSUME at # "none"
      PROVE  Printing'
  <2>1. Printing
    BY <1>4 DEF RInv
  <2>2. \A k : ButtonPast(k)' = ButtonPast(k) /\ UartPast(k)' = UartPast(k)
    BY <1>2 DEF ButtonPast, UartPast
  <2>3. ASSUME NEW k, NEW f \in ButtonFields
        PROVE  /\ ButtonShows(k, f) <= ButtonShows(k, f)' /\ ButtonShows(k, f)' \in Nat
               /\ ButtonShows(k, f) \in Nat
               /\ ButtonShows(k, f) <= btn[f] => ButtonShows(k, f)' <= btn'[f]
    <3>1. btn[f] \in Nat /\ line.button[f] \in Nat /\ btn'[f] \in Nat /\ btn[f] <= btn'[f]
      BY <1>1, <1>2, Shown
    <3>2. CASE ButtonPast(k)
      BY <1>2, <2>2, <3>1, <3>2 DEF ButtonShows
    <3>3. CASE ~ ButtonPast(k)
      BY <2>2, <3>1, <3>3 DEF ButtonShows
    <3>4. QED
      BY <3>2, <3>3
  <2>4. ASSUME NEW k, NEW f \in UartFields
        PROVE  /\ UartShows(k, f) <= UartShows(k, f)' /\ UartShows(k, f)' \in Nat
               /\ UartShows(k, f) \in Nat
               /\ UartShows(k, f) <= uart[f] => UartShows(k, f)' <= uart'[f]
    <3>1. uart[f] \in Nat /\ line.uart[f] \in Nat /\ uart'[f] \in Nat /\ uart[f] <= uart'[f]
      BY <1>1, <1>2, Shown
    <3>2. CASE UartPast(k)
      BY <1>2, <2>2, <3>1, <3>2 DEF UartShows
    <3>3. CASE ~ UartPast(k)
      BY <2>2, <3>1, <3>3 DEF UartShows
    <3>4. QED
      BY <3>2, <3>3
  <2> DEFINE bo == ButtonShows(2, "ok")  bf == ButtonShows(3, "full")
             bd == ButtonShows(4, "debounce")  bt == ButtonShows(5, "other")
             uo == UartShows(2, "ok")  uf == UartShows(3, "full")
             bo2 == ButtonShows(2, "ok")'  bf2 == ButtonShows(3, "full")'
             bd2 == ButtonShows(4, "debounce")'  bt2 == ButtonShows(5, "other")'
             uo2 == UartShows(2, "ok")'  uf2 == UartShows(3, "full")'
  <2>5. /\ bo \in Nat /\ bo2 \in Nat /\ bo <= bo2 /\ bf \in Nat /\ bf2 \in Nat /\ bf <= bf2
        /\ bd \in Nat /\ bd2 \in Nat /\ bd <= bd2 /\ bt \in Nat /\ bt2 \in Nat /\ bt <= bt2
        /\ (bo <= btn.ok => bo2 <= btn'.ok) /\ (bf <= btn.full => bf2 <= btn'.full)
    BY <2>3 DEF ButtonFields
  <2>6. /\ uo \in Nat /\ uo2 \in Nat /\ uo <= uo2 /\ uf \in Nat /\ uf2 \in Nat /\ uf <= uf2
        /\ (uo <= uart.ok => uo2 <= uart'.ok) /\ (uf <= uart.full => uf2 <= uart'.full)
    BY <2>4 DEF UartFields
  <2>7. /\ ShownOk <= ShownOk' /\ ShownOk \in Nat /\ ShownOk' \in Nat
        /\ ShownFull <= ShownFull' /\ ShownFull \in Nat /\ ShownFull' \in Nat
    <3>1. /\ ShownOk = bo + uo /\ ShownOk' = bo2 + uo2
          /\ ShownFull = bf + uf /\ ShownFull' = bf2 + uf2
      BY DEF ShownOk, ShownFull
    <3> HIDE DEF bo, bf, uo, uf, bo2, bf2, uo2, uf2
    <3>2. bo \in Nat /\ bo2 \in Nat /\ bo <= bo2 /\ uo \in Nat /\ uo2 \in Nat /\ uo <= uo2
      BY <2>5, <2>6
    <3>3. bf \in Nat /\ bf2 \in Nat /\ bf <= bf2 /\ uf \in Nat /\ uf2 \in Nat /\ uf <= uf2
      BY <2>5, <2>6
    <3>4. bo + uo <= bo2 + uo2 /\ bo + uo \in Nat /\ bo2 + uo2 \in Nat
      BY ONLY <3>2
    <3>5. bf + uf <= bf2 + uf2 /\ bf + uf \in Nat /\ bf2 + uf2 \in Nat
      BY ONLY <3>3
    <3>6. QED
      BY <3>1, <3>4, <3>5
  <2>8. bo <= btn.ok /\ bf <= btn.full /\ uo <= uart.ok /\ uf <= uart.full
    BY <2>1 DEF Printing
  <2>9. tmr.ok \in Nat /\ tmr.dropped \in Nat /\ Len(seen) \in Nat
    BY <1>1, Now, CounterFacts DEF Types2
  <2>10. /\ ButtonPast(1) => line.button["attempted"] <= bo + bf + bd + bt
         /\ UartPast(1) => line.uart["rx"] <= uo + uf
         /\ line.button["attempted"] \in Nat /\ line.uart["rx"] \in Nat
    BY <1>1, <2>1, Shown DEF Printing, ButtonFields, UartFields
  <2>11. PICK d \in 0 .. ShownOk : line.core.accepted = (tmr.ok + (ShownOk - d)) % CounterWidth
    BY <2>1 DEF Printing
  <2>12. PICK e \in 0 .. ShownFull :
                line.core.dropped = (tmr.dropped + (ShownFull - e)) % CounterWidth
    BY <2>1 DEF Printing
  <2>13. Len(seen) <= ShownOk
    BY <2>1 DEF Printing
  <2> HIDE DEF bo, bf, bd, bt, uo, uf, bo2, bf2, bd2, bt2, uo2, uf2
  <2>14. /\ ButtonPast(1)' => line'.button["attempted"] <= bo2 + bf2 + bd2 + bt2
         /\ UartPast(1)' => line'.uart["rx"] <= uo2 + uf2
    <3>1. /\ bo \in Nat /\ bo2 \in Nat /\ bo <= bo2 /\ bf \in Nat /\ bf2 \in Nat /\ bf <= bf2
          /\ bd \in Nat /\ bd2 \in Nat /\ bd <= bd2 /\ bt \in Nat /\ bt2 \in Nat /\ bt <= bt2
      BY <2>5
    <3>2. uo \in Nat /\ uo2 \in Nat /\ uo <= uo2 /\ uf \in Nat /\ uf2 \in Nat /\ uf <= uf2
      BY <2>6
    <3>3. /\ bo + bf + bd + bt <= bo2 + bf2 + bd2 + bt2
          /\ bo + bf + bd + bt \in Nat /\ bo2 + bf2 + bd2 + bt2 \in Nat
      BY ONLY <3>1
    <3>4. uo + uf <= uo2 + uf2 /\ uo + uf \in Nat /\ uo2 + uf2 \in Nat
      BY ONLY <3>2
    <3>5. line' = line
      BY <1>2
    <3>6. QED
      BY <2>2, <2>10, <3>3, <3>4, <3>5
  <2>15. \E g \in 0 .. ShownOk' :
            line'.core.accepted = (tmr'.ok + (ShownOk' - g)) % CounterWidth
    <3> DEFINE g == d + (ShownOk' - ShownOk)
    <3>1. g \in 0 .. ShownOk' /\ ShownOk' - g = ShownOk - d
      BY <2>7, LeadGrows
    <3>2. line'.core.accepted = (tmr'.ok + (ShownOk - d)) % CounterWidth
      BY <1>2, <2>11
    <3>3. QED
      BY <3>1, <3>2
  <2>16. \E g \in 0 .. ShownFull' :
            line'.core.dropped = (tmr'.dropped + (ShownFull' - g)) % CounterWidth
    <3> DEFINE g == e + (ShownFull' - ShownFull)
    <3>1. g \in 0 .. ShownFull' /\ ShownFull' - g = ShownFull - e
      BY <2>7, LeadGrows
    <3>2. line'.core.dropped = (tmr'.dropped + (ShownFull - e)) % CounterWidth
      BY <1>2, <2>12
    <3>3. QED
      BY <3>1, <3>2
  <2>17. Len(seen') <= ShownOk'
    BY <1>2, <2>7, <2>9, <2>13
  <2>18. bo2 <= btn'.ok /\ bf2 <= btn'.full /\ uo2 <= uart'.ok /\ uf2 <= uart'.full
    BY <2>5, <2>6, <2>8
  <2>19. /\ pc' = "loop"
         /\ at' # "timer" => line'.timer.ok = tmr'.ok /\ line'.timer.dropped = tmr'.dropped
         /\ ButtonPast(6)' => line'.button["handled"] = btn'.handled
         /\ UartPast(4)' => line'.uart["handled"] = uart'.handled
         /\ at' = "done" => /\ line'.app.button = app'.button_count
                            /\ line'.app.uart = app'.uart_count
                            /\ line'.probe.bridge.mapped = line'.probe.fsm.events
    BY <1>2, <2>1, <2>2 DEF Printing
  <2>20. QED
    BY ONLY <2>14, <2>15, <2>16, <2>17, <2>18, <2>19 DEF Printing, bo, bf, bd, bt, uo, uf,
       bo2, bf2, bd2, bt2, uo2, uf2
<1>5. QED
  BY <1>2, <1>3, <1>4 DEF RInv

\* Printing changes nothing of the program.
LEMMA PrintingLeaves ==
  ASSUME RInv, UNCHANGED vars
  PROVE  /\ IInv' /\ NoBurst' /\ AppLine' = AppLine
         /\ UNCHANGED <<pc, btn, uart, tmr, seen, app, posted>>
<1>1. IInv /\ NoBurst
  BY DEF RInv
<1>2. IInv'
  BY <1>1, ProgramStep
<1>3. UNCHANGED <<pc, btn, uart, tmr, seen, app, posted, burst>>
  BY DEF vars, appVars, history
<1>4. QED
  BY <1>1, <1>2, <1>3 DEF NoBurst, AppLine

\* The core's line comes first: it and the producers agree now.
LEMMA LogCoreKeeps ==
  ASSUME RInv, LogCore
  PROVE  RInv'
<1>1. /\ at = "none" /\ pc = "loop" /\ at' = "timer" /\ copied' = copied
      /\ line' = [line EXCEPT !.core = CoreLine] /\ UNCHANGED vars
  BY DEF LogCore, ReportDue
<1>2. IInv /\ NoBurst /\ line \in Lines /\ Where
  BY DEF RInv
<1>3. /\ IInv' /\ NoBurst' /\ UNCHANGED <<pc, btn, uart, tmr, seen, app, posted>>
  BY <1>1, PrintingLeaves
<1>4. /\ accepted_count \in Widths /\ dropped_count \in Nat /\ unhandled_count \in Nat
      /\ Len(queue) \in Nat /\ posted = "none" /\ CounterWidth \in Nat \ {0}
      /\ Len(seen) \in Nat
  <2>1. Types2 /\ Places /\ CounterWidth \in Nat \ {0}
    BY <1>2, Now, DevkitAssumption
  <2>2. posted = "none"
    BY <1>1, <2>1 DEF Places
  <2>3. accepted_count \in Widths /\ dropped_count \in Nat /\ unhandled_count = 0
    BY <2>1 DEF Types2, Widths
  <2>4. Len(queue) \in Nat /\ Len(seen) \in Nat
    BY <2>1 DEF Types2
  <2>5. QED
    BY <2>1, <2>2, <2>3, <2>4
<1>5. CoreLine \in [accepted : Widths, dropped : Widths, pending : Nat, unhandled : Nat]
  <2>1. dropped_count \in Int
    BY <1>4
  <2>2. dropped_count % CounterWidth \in Widths
    BY <1>4, <2>1, Division DEF Widths
  <2>3. QED
    BY <1>4, <2>2 DEF CoreLine
<1> DEFINE c == CoreLine
<1>6. c.accepted = accepted_count /\ c.dropped = dropped_count % CounterWidth
  BY DEF CoreLine
<1> HIDE DEF c
<1>7. line' \in Lines /\ line'.core = c
  <2>1. line' = [line EXCEPT !.core = c] /\ c \in [accepted : Widths, dropped : Widths,
                                                    pending : Nat, unhandled : Nat]
    BY <1>1, <1>5 DEF c
  <2>2. QED
    BY <1>2, <2>1 DEF Lines
<1>8. Where'
  BY <1>1, <1>2 DEF Where
<1>9. \A k : ~ ButtonPast(k)' /\ ~ UartPast(k)'
  BY <1>1 DEF ButtonPast, UartPast
<1>10. \A k, f : ButtonShows(k, f)' = btn[f] /\ UartShows(k, f)' = uart[f]
  BY <1>3, <1>9 DEF ButtonShows, UartShows
<1>11. ShownOk' = btn.ok + uart.ok /\ ShownFull' = btn.full + uart.full
  BY <1>10 DEF ShownOk, ShownFull
<1>12. /\ btn.ok \in Nat /\ uart.ok \in Nat /\ tmr.ok \in Nat /\ tmr.dropped \in Nat
       /\ btn.full \in Nat /\ uart.full \in Nat /\ btn.handled \in Nat /\ uart.handled \in Nat
  BY <1>2, Now, CounterFacts
<1>13. /\ Took % CounterWidth = accepted_count
       /\ Refused % CounterWidth = dropped_count % CounterWidth
       /\ btn.ok + uart.ok = Len(arrived)
  BY <1>2, Now DEF Counts
<1>14. Took = tmr.ok + (btn.ok + uart.ok - 0) /\ Refused = tmr.dropped + (btn.full + uart.full - 0)
  BY <1>2, <1>4, <1>12 DEF Took, Refused, NoBurst
<1>15. Len(seen) <= btn.ok + uart.ok
  <2>1. Waiting \in Seq(Items)
    BY <1>2, Now, WaitingIs DEF Types2
  <2>2. Cardinality(Of(InputTypes, Waiting)) \in Nat
    BY <2>1, PlacesFinite
  <2>3. Len(arrived) = Len(seen) + Cardinality(Of(InputTypes, Waiting))
    BY <1>2, Now DEF InputsArriveInOrder
  <2>4. QED
    BY <1>4, <1>13, <2>2, <2>3
<1>16. Printing'
  <2>1. 0 \in 0 .. btn.ok + uart.ok /\ 0 \in 0 .. btn.full + uart.full
    BY <1>12
  <2>2. /\ c.accepted = (tmr.ok + (btn.ok + uart.ok - 0)) % CounterWidth
        /\ c.dropped = (tmr.dropped + (btn.full + uart.full - 0)) % CounterWidth
    BY <1>6, <1>13, <1>14
  <2>3. \E d \in 0 .. ShownOk' :
          line'.core.accepted = (tmr'.ok + (ShownOk' - d)) % CounterWidth
    <3>1. 0 \in 0 .. ShownOk'
      BY <1>11, <2>1
    <3>2. line'.core.accepted = (tmr'.ok + (ShownOk' - 0)) % CounterWidth
      <4> DEFINE n == ShownOk'
                 m == line'.core
      <4>1. m = c /\ tmr' = tmr /\ n = btn.ok + uart.ok
        BY <1>3, <1>7, <1>11
      <4> HIDE DEF m, n
      <4>2. m.accepted = (tmr'.ok + (n - 0)) % CounterWidth
        BY <1>4, <1>12, <2>2, <4>1
      <4>3. QED
        BY <4>2 DEF m, n
    <3>3. QED
      BY ONLY <3>1, <3>2
  <2>4. \E d \in 0 .. ShownFull' :
          line'.core.dropped = (tmr'.dropped + (ShownFull' - d)) % CounterWidth
    <3>1. 0 \in 0 .. ShownFull'
      BY <1>11, <2>1
    <3>2. line'.core.dropped = (tmr'.dropped + (ShownFull' - 0)) % CounterWidth
      <4> DEFINE n == ShownFull'
                 m == line'.core
      <4>1. m = c /\ tmr' = tmr /\ n = btn.full + uart.full
        BY <1>3, <1>7, <1>11
      <4> HIDE DEF m, n
      <4>2. m.dropped = (tmr'.dropped + (n - 0)) % CounterWidth
        BY <1>4, <1>12, <2>2, <4>1
      <4>3. QED
        BY <4>2 DEF m, n
    <3>3. QED
      BY ONLY <3>1, <3>2
  <2>5. /\ ButtonShows(2, "ok")' <= btn'.ok /\ ButtonShows(3, "full")' <= btn'.full
        /\ UartShows(2, "ok")' <= uart'.ok /\ UartShows(3, "full")' <= uart'.full
    BY <1>3, <1>10, <1>12
  <2>6. Len(seen') <= ShownOk' /\ pc' = "loop" /\ at' = "timer"
    BY <1>1, <1>3, <1>11, <1>15
  <2>7. QED
    BY ONLY <1>9, <2>3, <2>4, <2>5, <2>6 DEF Printing
<1>17. QED
  BY <1>3, <1>7, <1>8, <1>16 DEF RInv

\* A line of the timer's or of the application's counters, which only the
\* printing thread changes.
LEMMA LogLinesKeep ==
  ASSUME RInv, LogTimer \/ LogAppAndProbe
  PROVE  RInv'
<1>1. UNCHANGED vars /\ copied' = copied
  BY DEF LogTimer, LogAppAndProbe
<1>2. IInv /\ NoBurst /\ line \in Lines /\ Where
  BY DEF RInv
<1>3. /\ IInv' /\ NoBurst' /\ UNCHANGED <<pc, btn, uart, tmr, seen, app, posted>>
  BY <1>1, PrintingLeaves
<1>4. CASE LogTimer
  <2> DEFINE t == TimerLine
  <2>1. at = "timer" /\ at' = "button" /\ line' = [line EXCEPT !.timer = t] /\ copied = 0
    BY <1>2, <1>4 DEF LogTimer, Where
  <2>2. t \in [ok : Widths, dropped : Widths] /\ t.ok = tmr.ok /\ t.dropped = tmr.dropped
    <3>1. tmr \in Timers
      BY <1>2, Now DEF Types2
    <3>2. QED
      BY <3>1 DEF Timers, TimerLine, Widths
  <2> HIDE DEF t
  <2>3. /\ line' \in Lines /\ line'.timer = t /\ line'.core = line.core
        /\ line'.button = line.button /\ line'.uart = line.uart
    BY <1>2, <2>1, <2>2 DEF Lines
  <2>4. Where'
    BY <1>1, <2>1 DEF Where
  <2>5. Printing
    BY <2>1 DEF RInv
  <2>6. /\ \A k \in 1 .. 6 : ~ ButtonPast(k) /\ ~ ButtonPast(k)'
        /\ \A k : ~ UartPast(k) /\ ~ UartPast(k)'
    BY <1>1, <2>1 DEF ButtonPast, UartPast
  <2>7. /\ \A k \in 1 .. 6 : \A f : ButtonShows(k, f)' = ButtonShows(k, f)
        /\ \A k, f : UartShows(k, f)' = UartShows(k, f)
    BY <1>3, <2>6 DEF ButtonShows, UartShows
  <2>8. ShownOk' = ShownOk /\ ShownFull' = ShownFull
    BY <2>7 DEF ShownOk, ShownFull
  <2>9. Printing'
    BY <1>3, <2>1, <2>2, <2>3, <2>5, <2>6, <2>7, <2>8 DEF Printing
  <2>10. QED
    BY <1>3, <2>3, <2>4, <2>9 DEF RInv
<1>5. CASE LogAppAndProbe
  <2> DEFINE a == AppLine
             p == ProbeLine
  <2>1. at = "app" /\ at' = "done" /\ line' = [line EXCEPT !.app = a, !.probe = p]
    BY <1>5 DEF LogAppAndProbe
  <2>2. AppInv
    BY <1>2, Now
  <2>3. a \in [button : Nat, uart : Nat] /\ a.button = app.button_count /\ a.uart = app.uart_count
    BY <2>2 DEF AppInv, Apps, AppLine
  <2>4. /\ p \in [fsm : [events : Nat, stays : Nat], bridge : [mapped : Nat, unmapped : Nat]]
        /\ p.bridge.mapped = p.fsm.events
    <3>1. CASE probe_ready
      <4>1. fsm \in Machines /\ bridge \in Bridges /\ fsm.event_count = bridge.mapped_count
        BY <2>2 DEF AppInv, ProbeInv, App!Probe!TypeOK, App!Probe!BridgeAndFsmAgree, Machines,
                    Bridges
      <4>2. p = [fsm |-> FsmReadings, bridge |-> BridgeReadings]
        BY <3>1 DEF ProbeLine
      <4>3. QED
        BY <4>1, <4>2 DEF FsmReadings, BridgeReadings, Machines, Bridges
    <3>2. CASE ~ probe_ready
      BY <3>2 DEF ProbeLine, NoProbe
    <3>3. QED
      BY <3>1, <3>2
  <2> HIDE DEF a, p
  <2>5. /\ line' \in Lines /\ line'.app = a /\ line'.probe = p /\ line'.timer = line.timer
        /\ line'.core = line.core /\ line'.button = line.button /\ line'.uart = line.uart
    BY <1>2, <2>1, <2>3, <2>4 DEF Lines
  <2>6. Where'
    BY <1>1, <1>2, <2>1 DEF Where
  <2>7. Printing
    BY <2>1 DEF RInv
  <2>8. \A k : ButtonPast(k) /\ ButtonPast(k)' /\ UartPast(k) /\ UartPast(k)'
    BY <2>1 DEF ButtonPast, UartPast
  <2>9. \A k, f : ButtonShows(k, f)' = ButtonShows(k, f) /\ UartShows(k, f)' = UartShows(k, f)
    BY <2>5, <2>8 DEF ButtonShows, UartShows
  <2>10. ShownOk' = ShownOk /\ ShownFull' = ShownFull
    BY <2>9 DEF ShownOk, ShownFull
  <2>11. Printing'
    BY <1>3, <2>1, <2>3, <2>4, <2>5, <2>7, <2>8, <2>9, <2>10 DEF Printing
  <2>12. QED
    BY <1>3, <2>5, <2>6, <2>11 DEF RInv
<1>6. QED
  BY <1>4, <1>5

\* A field of the button's line is copied: the line shows of every field what
\* it would have shown before.
LEMMA CopyButtonKeeps ==
  ASSUME RInv, CopyButton
  PROVE  RInv'
<1> DEFINE k == copied + 1
           f == ButtonOrder[k]
           v == btn[f]
<1>1. IInv /\ NoBurst /\ line \in Lines /\ Where /\ at = "button" /\ Printing
  BY DEF RInv, CopyButton
<1>2. copied \in 0 .. 5 /\ k \in 1 .. 6
  BY <1>1 DEF Where
<1>3. f \in ButtonFields /\ v \in Nat
  BY <1>1, <1>2, Orders, Shown
<1>4. /\ line' = [line EXCEPT !.button[f] = v] /\ UNCHANGED vars
      /\ copied' = (IF k = 6 THEN 0 ELSE k) /\ at' = (IF k = 6 THEN "uart" ELSE "button")
  BY <1>1, Orders DEF CopyButton, Copy
<1>5. /\ IInv' /\ NoBurst' /\ UNCHANGED <<pc, btn, uart, tmr, seen, app, posted>>
  BY <1>4, PrintingLeaves
<1> HIDE DEF f, v
<1>6. /\ line' \in Lines /\ line'.button = [line.button EXCEPT ![f] = v]
      /\ line'.core = line.core /\ line'.timer = line.timer /\ line'.uart = line.uart
  <2> DEFINE b == [line.button EXCEPT ![f] = v]
  <2>1. line' = [line EXCEPT !.button = b]
    BY <1>4
  <2>2. line.button \in [ButtonFields -> Nat]
    BY <1>1 DEF Lines
  <2>3. b \in [ButtonFields -> Nat]
    BY <1>3, <2>2
  <2> HIDE DEF b
  <2>4. line' \in Lines /\ line'.button = b
        /\ line'.core = line.core /\ line'.timer = line.timer /\ line'.uart = line.uart
    BY <1>1, <2>1, <2>3 DEF Lines
  <2>5. QED
    BY <2>4 DEF b
<1>7. /\ line'.button[f] = v /\ \A g \in ButtonFields : g # f => line'.button[g] = line.button[g]
  <2>1. line.button \in [ButtonFields -> Nat]
    BY <1>1 DEF Lines
  <2>2. QED
    BY <1>3, <1>6, <2>1
<1>8. Where'
  BY <1>2, <1>4 DEF Where
<1>9. \A j \in 1 .. 6 : (ButtonPast(j) <=> j <= copied) /\ (ButtonPast(j)' <=> j <= k)
  BY <1>1, <1>2, <1>4 DEF ButtonPast
<1>10. \A j \in 1 .. 4 : ~ UartPast(j) /\ ~ UartPast(j)'
  BY <1>1, <1>2, <1>4 DEF UartPast
<1>11. ASSUME NEW j \in 1 .. 6
       PROVE  ButtonShows(j, ButtonOrder[j])' = ButtonShows(j, ButtonOrder[j])
  <2> DEFINE g == ButtonOrder[j]
  <2>1. g \in ButtonFields /\ ButtonOrder' = ButtonOrder
    BY Orders DEF ButtonOrder
  <2>2. CASE j = k
    <3>1. ~ ButtonPast(j) /\ ButtonPast(j)' /\ g = f
      BY <1>2, <1>9, <2>2 DEF f
    <3>2. QED
      BY <1>7, <2>1, <3>1 DEF ButtonShows, v
  <2>3. CASE j # k
    <3>1. g # f /\ (ButtonPast(j)' <=> ButtonPast(j))
      BY <1>2, <1>9, <2>3, Orders DEF f
    <3>2. line'.button[g] = line.button[g] /\ btn'[g] = btn[g]
      BY <1>5, <1>7, <2>1, <3>1
    <3>3. QED
      BY <2>1, <3>1, <3>2 DEF ButtonShows
  <2>4. QED
    BY <2>2, <2>3
<1>12. /\ ButtonShows(2, "ok")' = ButtonShows(2, "ok")
       /\ ButtonShows(3, "full")' = ButtonShows(3, "full")
       /\ ButtonShows(4, "debounce")' = ButtonShows(4, "debounce")
       /\ ButtonShows(5, "other")' = ButtonShows(5, "other")
  <2>1. 2 \in 1 .. 6 /\ 3 \in 1 .. 6 /\ 4 \in 1 .. 6 /\ 5 \in 1 .. 6
    OBVIOUS
  <2>2. /\ ButtonShows(2, ButtonOrder[2])' = ButtonShows(2, ButtonOrder[2])
        /\ ButtonShows(3, ButtonOrder[3])' = ButtonShows(3, ButtonOrder[3])
        /\ ButtonShows(4, ButtonOrder[4])' = ButtonShows(4, ButtonOrder[4])
        /\ ButtonShows(5, ButtonOrder[5])' = ButtonShows(5, ButtonOrder[5])
    BY <1>11, <2>1
  <2>3. QED
    BY <2>2 DEF ButtonOrder
<1>13. /\ UartShows(2, "ok")' = UartShows(2, "ok") /\ UartShows(3, "full")' = UartShows(3, "full")
  BY <1>5, <1>10 DEF UartShows
<1>14. ShownOk' = ShownOk /\ ShownFull' = ShownFull
  BY <1>12, <1>13 DEF ShownOk, ShownFull
<1>15. ButtonPast(1)' => line'.button["attempted"]
                            <= ButtonShows(2, "ok") + ButtonShows(3, "full")
                                 + ButtonShows(4, "debounce") + ButtonShows(5, "other")
  <2>1. CASE k = 1
    <3>1. ~ ButtonPast(2) /\ ~ ButtonPast(3) /\ ~ ButtonPast(4) /\ ~ ButtonPast(5)
      BY <1>2, <1>9, <2>1
    <3>2. /\ ButtonShows(2, "ok") = btn.ok /\ ButtonShows(3, "full") = btn.full
          /\ ButtonShows(4, "debounce") = btn.debounce /\ ButtonShows(5, "other") = btn.other
      BY <3>1 DEF ButtonShows
    <3>3. line'.button["attempted"] = btn.attempted
      BY <1>7, <2>1, Orders DEF f, v
    <3>4. btn \in Buttons /\ btn.attempted = btn.ok + btn.full + btn.debounce
      BY <1>1, Now DEF Types2
    <3>5. btn.ok \in Nat /\ btn.full \in Nat /\ btn.debounce \in Nat /\ btn.other = 0
      BY <3>4 DEF Buttons
    <3>6. QED
      BY ONLY <3>2, <3>3, <3>4, <3>5
  <2>2. CASE k # 1
    <3>1. ButtonPast(1) /\ f # "attempted"
      BY <1>2, <1>9, <2>2, Orders DEF f
    <3>2. line'.button["attempted"] = line.button["attempted"]
      BY <1>7, <3>1 DEF ButtonFields
    <3>3. QED
      BY <1>1, <3>1, <3>2 DEF Printing
  <2>3. QED
    BY <2>1, <2>2
<1>16. ButtonPast(6)' => line'.button["handled"] = btn'.handled
  <2>1. CASE k = 6
    BY <1>5, <1>7, <2>1, Orders DEF f, v
  <2>2. CASE k # 6
    BY <1>2, <1>9, <2>2
  <2>3. QED
    BY <2>1, <2>2
<1>17. Printing'
  BY <1>1, <1>4, <1>5, <1>6, <1>10, <1>12, <1>13, <1>14, <1>15, <1>16 DEF Printing
<1>18. QED
  BY <1>5, <1>6, <1>8, <1>17 DEF RInv

\* And so is a field of the UART's.
LEMMA CopyUartKeeps ==
  ASSUME RInv, CopyUart
  PROVE  RInv'
<1> DEFINE k == copied + 1
           f == UartOrder[k]
           v == uart[f]
<1>1. IInv /\ NoBurst /\ line \in Lines /\ Where /\ at = "uart" /\ Printing
  BY DEF RInv, CopyUart
<1>2. copied \in 0 .. 3 /\ k \in 1 .. 4
  BY <1>1 DEF Where
<1>3. f \in UartFields /\ v \in Nat
  BY <1>1, <1>2, Orders, Shown
<1>4. /\ line' = [line EXCEPT !.uart[f] = v] /\ UNCHANGED vars
      /\ copied' = (IF k = 4 THEN 0 ELSE k) /\ at' = (IF k = 4 THEN "app" ELSE "uart")
  BY <1>1, Orders DEF CopyUart, Copy
<1>5. /\ IInv' /\ NoBurst' /\ UNCHANGED <<pc, btn, uart, tmr, seen, app, posted>>
  BY <1>4, PrintingLeaves
<1> HIDE DEF f, v
<1>6. /\ line' \in Lines /\ line'.uart = [line.uart EXCEPT ![f] = v]
      /\ line'.core = line.core /\ line'.timer = line.timer /\ line'.button = line.button
  <2> DEFINE u == [line.uart EXCEPT ![f] = v]
  <2>1. line' = [line EXCEPT !.uart = u]
    BY <1>4
  <2>2. line.uart \in [UartFields -> Nat]
    BY <1>1 DEF Lines
  <2>3. u \in [UartFields -> Nat]
    BY <1>3, <2>2
  <2> HIDE DEF u
  <2>4. line' \in Lines /\ line'.uart = u
        /\ line'.core = line.core /\ line'.timer = line.timer /\ line'.button = line.button
    BY <1>1, <2>1, <2>3 DEF Lines
  <2>5. QED
    BY <2>4 DEF u
<1>7. /\ line'.uart[f] = v /\ \A g \in UartFields : g # f => line'.uart[g] = line.uart[g]
  <2>1. line.uart \in [UartFields -> Nat]
    BY <1>1 DEF Lines
  <2>2. QED
    BY <1>3, <1>6, <2>1
<1>8. Where'
  BY <1>2, <1>4 DEF Where
<1>9. \A j \in 1 .. 4 : (UartPast(j) <=> j <= copied) /\ (UartPast(j)' <=> j <= k)
  BY <1>1, <1>2, <1>4 DEF UartPast
<1>10. \A j : ButtonPast(j) /\ ButtonPast(j)'
  BY <1>1, <1>4 DEF ButtonPast
<1>11. ASSUME NEW j \in 1 .. 4
       PROVE  UartShows(j, UartOrder[j])' = UartShows(j, UartOrder[j])
  <2> DEFINE g == UartOrder[j]
  <2>1. g \in UartFields /\ UartOrder' = UartOrder
    BY Orders DEF UartOrder
  <2>2. CASE j = k
    <3>1. ~ UartPast(j) /\ UartPast(j)' /\ g = f
      BY <1>2, <1>9, <2>2 DEF f
    <3>2. QED
      BY <1>7, <2>1, <3>1 DEF UartShows, v
  <2>3. CASE j # k
    <3>1. g # f /\ (UartPast(j)' <=> UartPast(j))
      BY <1>2, <1>9, <2>3, Orders DEF f
    <3>2. line'.uart[g] = line.uart[g] /\ uart'[g] = uart[g]
      BY <1>5, <1>7, <2>1, <3>1
    <3>3. QED
      BY <2>1, <3>1, <3>2 DEF UartShows
  <2>4. QED
    BY <2>2, <2>3
<1>12. /\ UartShows(2, "ok")' = UartShows(2, "ok") /\ UartShows(3, "full")' = UartShows(3, "full")
  <2>1. 2 \in 1 .. 4 /\ 3 \in 1 .. 4
    OBVIOUS
  <2>2. /\ UartShows(2, UartOrder[2])' = UartShows(2, UartOrder[2])
        /\ UartShows(3, UartOrder[3])' = UartShows(3, UartOrder[3])
    BY <1>11, <2>1
  <2>3. QED
    BY <2>2 DEF UartOrder
<1>13. \A j, g : ButtonShows(j, g)' = ButtonShows(j, g)
  BY <1>6, <1>10 DEF ButtonShows
<1>14. ShownOk' = ShownOk /\ ShownFull' = ShownFull
  BY <1>12, <1>13 DEF ShownOk, ShownFull
<1>15. UartPast(1)' => line'.uart["rx"] <= UartShows(2, "ok") + UartShows(3, "full")
  <2>1. CASE k = 1
    <3>1. ~ UartPast(2) /\ ~ UartPast(3)
      BY <1>2, <1>9, <2>1
    <3>2. UartShows(2, "ok") = uart.ok /\ UartShows(3, "full") = uart.full
      BY <3>1 DEF UartShows
    <3>3. line'.uart["rx"] = uart.rx
      BY <1>7, <2>1, Orders DEF f, v
    <3>4. uart \in Uarts /\ uart.rx = uart.ok + uart.full
      BY <1>1, Now DEF Types2
    <3>5. uart.ok \in Nat /\ uart.full \in Nat
      BY <3>4 DEF Uarts
    <3>6. QED
      BY ONLY <3>2, <3>3, <3>4, <3>5
  <2>2. CASE k # 1
    <3>1. UartPast(1) /\ f # "rx"
      BY <1>2, <1>9, <2>2, Orders DEF f
    <3>2. line'.uart["rx"] = line.uart["rx"]
      BY <1>7, <3>1 DEF UartFields
    <3>3. QED
      BY <1>1, <3>1, <3>2 DEF Printing
  <2>3. QED
    BY <2>1, <2>2
<1>16. UartPast(4)' => line'.uart["handled"] = uart'.handled
  <2>1. CASE k = 4
    BY <1>5, <1>7, <2>1, Orders DEF f, v
  <2>2. CASE k # 4
    BY <1>2, <1>9, <2>2
  <2>3. QED
    BY <2>1, <2>2
<1>17. Printing'
  BY <1>1, <1>4, <1>5, <1>6, <1>10, <1>12, <1>13, <1>14, <1>15, <1>16 DEF Printing
<1>18. QED
  BY <1>5, <1>6, <1>8, <1>17 DEF RInv

\* Every step of the program and of its report.
LEMMA ReportStep ==
  RInv /\ [ReportNext]_<<vars, reportVars>> => RInv'
<1> SUFFICES ASSUME RInv, [ReportNext]_<<vars, reportVars>>
             PROVE  RInv'
  OBVIOUS
<1>1. CASE LogReport
  BY <1>1, LogCoreKeeps, LogLinesKeep, CopyButtonKeeps, CopyUartKeeps DEF LogReport
<1>2. CASE GoesOn
  BY <1>2, GoesOnKeeps
<1>3. CASE Interrupt
  BY <1>3, InterruptKeeps
<1>4. CASE UNCHANGED <<vars, reportVars>>
  <2>1. /\ IInv' /\ NoBurst' /\ AppLine' = AppLine
        /\ UNCHANGED <<pc, btn, uart, tmr, seen, app, posted>>
    BY <1>4, PrintingLeaves
  <2>2. UNCHANGED <<at, copied, line>>
    BY <1>4 DEF reportVars
  <2>3. line' \in Lines /\ Where'
    BY <2>2 DEF RInv, Where, Lines, Widths
  <2>4. \A k, f : ButtonShows(k, f)' = ButtonShows(k, f) /\ UartShows(k, f)' = UartShows(k, f)
    BY <2>1, <2>2 DEF ButtonShows, UartShows, ButtonPast, UartPast
  <2>5. ShownOk' = ShownOk /\ ShownFull' = ShownFull
    BY <2>4 DEF ShownOk, ShownFull
  <2>6. Printing => Printing'
    BY <2>1, <2>2, <2>4, <2>5 DEF Printing, ButtonPast, UartPast
  <2>7. QED
    BY <2>1, <2>2, <2>3, <2>6 DEF RInv
<1>5. QED
  BY <1>1, <1>2, <1>3, <1>4 DEF ReportNext

\* A sum of counters is ahead of an earlier one by no more than was counted.
LEMMA LeadIsBounded ==
  ASSUME NEW w \in Nat \ {0}, NEW t \in Nat, NEW n \in Nat, NEW d \in 0 .. n
  PROVE  (t + n - ((t + (n - d)) % w)) % w <= n
<1> DEFINE x == t + n
           y == t + (n - d)
<1>1. x \in Int /\ y \in Int /\ x - y = d /\ d \in Nat /\ d <= n
  OBVIOUS
<1> HIDE DEF x, y
<1>2. (x - (y % w)) % w = (x - y) % w
  BY <1>1, RemainderOfDifference
<1>3. d % w <= d
  BY <1>1, RemainderAtMost
<1>4. d % w \in 0 .. w - 1
  <2>1. d \in Int
    BY <1>1
  <2>2. QED
    BY <2>1, Division
<1> DEFINE e == d % w
<1>6. e \in Int /\ e <= d
  BY <1>3, <1>4
<1> HIDE DEF e
<1>7. e <= n
  BY <1>1, <1>6
<1>8. (x - (y % w)) % w = e
  BY <1>1, <1>2 DEF e
<1>9. (x - (y % w)) % w <= n
  BY <1>7, <1>8
<1>5. QED
  BY <1>9 DEF x, y

\* The lead of what two producers and the timer report over what the core
\* counted, of which up to d is newer than the copy.
LEMMA LeadShown ==
  ASSUME CounterWidth \in Nat \ {0}, NEW x \in Nat, NEW p \in Nat, NEW r \in Nat,
         NEW most \in Nat, p + r <= most, NEW d \in 0 .. p + r
  PROVE  Lead(x + p + r, (x + ((p + r) - d)) % CounterWidth) <= most
<1> DEFINE n == p + r
           sum == x + p + r
           q == (x + (n - d)) % CounterWidth
           z == (x + n - q) % CounterWidth
<1>1. n \in Nat /\ d \in 0 .. n /\ sum = x + n /\ n <= most
  OBVIOUS
<1> HIDE DEF n, sum
<1>2. z <= n
  BY <1>1, LeadIsBounded
<1>3. x + (n - d) \in Int
  BY <1>1
<1>4. q \in 0 .. CounterWidth - 1
  BY <1>3, Division
<1> HIDE DEF q
<1>5. x + n - q \in Int
  BY <1>1, <1>4
<1>6. z \in 0 .. CounterWidth - 1
  BY <1>5, Division
<1> HIDE DEF z
<1>7. z <= most
  BY <1>1, <1>2, <1>6
<1>8. Lead(sum, q) = z
  <2>1. sum - q = x + n - q
    BY <1>1, <1>4
  <2>2. QED
    BY <2>1, Zenon DEF Lead, z
<1>9. QED
  BY <1>7, <1>8 DEF q, n, sum

\* A printed report adds up, whatever interrupts counted while it was copied:
\* for every width of the counters and every number of inputs.
THEOREM ReportsAddUp == ReportSpec => []ReportAddsUp
<1>1. RInv => ReportAddsUp
  <2> SUFFICES ASSUME RInv, at = "done"
               PROVE  LET b == line.button  u == line.uart  t == line.timer  c == line.core IN
                      /\ b.attempted <= b.ok + b.full + b.debounce + b.other
                      /\ u.rx <= u.ok + u.full
                      /\ Lead(t.ok + b.ok + u.ok, c.accepted) <= MaxInputs
                      /\ Lead(t.dropped + b.full + u.full, c.dropped) <= MaxInputs
                      /\ b.handled = line.app.button /\ u.handled = line.app.uart
                      /\ b.handled + u.handled <= b.ok + u.ok
                      /\ line.probe.bridge.mapped = line.probe.fsm.events
    BY DEF ReportAddsUp
  <2> DEFINE b == line.button
             u == line.uart
             t == line.timer
             W == CounterWidth
  <2>1. IInv /\ line \in Lines /\ Printing
    BY DEF RInv
  <2>2. \A k : ButtonPast(k) /\ UartPast(k)
    BY DEF ButtonPast, UartPast
  <2>3. \A k, f : ButtonShows(k, f) = b[f] /\ UartShows(k, f) = u[f]
    BY <2>2 DEF ButtonShows, UartShows
  <2>4. ShownOk = b.ok + u.ok /\ ShownFull = b.full + u.full
    BY <2>3 DEF ShownOk, ShownFull
  <2>5. /\ t.ok = tmr.ok /\ t.dropped = tmr.dropped
        /\ b.attempted <= b.ok + b.full + b.debounce + b.other /\ u.rx <= u.ok + u.full
        /\ b.ok <= btn.ok /\ b.full <= btn.full /\ u.ok <= uart.ok /\ u.full <= uart.full
        /\ Len(seen) <= b.ok + u.ok
        /\ b.handled = btn.handled /\ u.handled = uart.handled
        /\ line.app.button = app.button_count /\ line.app.uart = app.uart_count
        /\ line.probe.bridge.mapped = line.probe.fsm.events
    BY <2>1, <2>2, <2>3, <2>4 DEF Printing
  <2>6. /\ b.ok \in Nat /\ b.full \in Nat /\ u.ok \in Nat /\ u.full \in Nat
        /\ tmr.ok \in Nat /\ tmr.dropped \in Nat /\ W \in Nat \ {0}
        /\ btn.ok \in Nat /\ btn.full \in Nat /\ uart.ok \in Nat /\ uart.full \in Nat
    BY <2>1, Now, Shown, CounterFacts DEF ButtonFields, UartFields
  <2>7. /\ b.ok + u.ok <= MaxInputs /\ b.full + u.full <= MaxInputs /\ MaxInputs \in Nat
    <3>1. /\ btn.attempted = btn.ok + btn.full + btn.debounce /\ uart.rx = uart.ok + uart.full
          /\ btn.attempted + uart.rx <= MaxInputs /\ btn.debounce \in Nat /\ MaxInputs \in Nat
      BY <2>1, Now, DevkitAssumption DEF Types2, Buttons
    <3>2. btn.ok + uart.ok <= MaxInputs /\ btn.full + uart.full <= MaxInputs
      BY ONLY <2>6, <3>1
    <3>3. b.ok <= btn.ok /\ b.full <= btn.full /\ u.ok <= uart.ok /\ u.full <= uart.full
      BY <2>5
    <3>4. b.ok + u.ok <= btn.ok + uart.ok
      <4> DEFINE p == b.ok
                 r == u.ok
      <4>1. p \in Nat /\ r \in Nat /\ p <= btn.ok /\ r <= uart.ok
        BY <2>6, <3>3
      <4> HIDE DEF p, r
      <4>2. p + r <= btn.ok + uart.ok
        BY <2>6, <4>1
      <4>3. QED
        BY <4>2 DEF p, r
    <3>5. b.full + u.full <= btn.full + uart.full
      <4> DEFINE p == b.full
                 r == u.full
      <4>1. p \in Nat /\ r \in Nat /\ p <= btn.full /\ r <= uart.full
        BY <2>6, <3>3
      <4> HIDE DEF p, r
      <4>2. p + r <= btn.full + uart.full
        BY <2>6, <4>1
      <4>3. QED
        BY <4>2 DEF p, r
    <3>6. QED
      BY ONLY <2>6, <3>1, <3>2, <3>4, <3>5
  <2>8. Lead(t.ok + b.ok + u.ok, line.core.accepted) <= MaxInputs
    <3>1. PICK d \in 0 .. (b.ok + u.ok) :
            line.core.accepted = (tmr.ok + ((b.ok + u.ok) - d)) % W
      BY <2>1, <2>4 DEF Printing
    <3>2. Lead(tmr.ok + b.ok + u.ok, line.core.accepted) <= MaxInputs
      <4> DEFINE p == b.ok
                 r == u.ok
                 x == tmr.ok
      <4>1. /\ p \in Nat /\ r \in Nat /\ x \in Nat /\ p + r <= MaxInputs
            /\ MaxInputs \in Nat /\ CounterWidth \in Nat \ {0} /\ d \in 0 .. p + r
            /\ line.core.accepted = (x + ((p + r) - d)) % CounterWidth
        BY <2>6, <2>7, <3>1
      <4> HIDE DEF p, r, x
      <4>2. Lead(x + p + r, line.core.accepted) <= MaxInputs
        BY <4>1, LeadShown
      <4>3. QED
        BY <4>2 DEF p, r, x
    <3>3. QED
      BY <2>5, <3>2
  <2>9. Lead(t.dropped + b.full + u.full, line.core.dropped) <= MaxInputs
    <3>1. PICK d \in 0 .. (b.full + u.full) :
            line.core.dropped = (tmr.dropped + ((b.full + u.full) - d)) % W
      BY <2>1, <2>4 DEF Printing
    <3>2. Lead(tmr.dropped + b.full + u.full, line.core.dropped) <= MaxInputs
      <4> DEFINE p == b.full
                 r == u.full
                 x == tmr.dropped
      <4>1. /\ p \in Nat /\ r \in Nat /\ x \in Nat /\ p + r <= MaxInputs
            /\ MaxInputs \in Nat /\ CounterWidth \in Nat \ {0} /\ d \in 0 .. p + r
            /\ line.core.dropped = (x + ((p + r) - d)) % CounterWidth
        BY <2>6, <2>7, <3>1
      <4> HIDE DEF p, r, x
      <4>2. Lead(x + p + r, line.core.dropped) <= MaxInputs
        BY <4>1, LeadShown
      <4>3. QED
        BY <4>2 DEF p, r, x
    <3>3. QED
      BY <2>5, <3>2
  <2>10. b.handled = line.app.button /\ u.handled = line.app.uart
         /\ b.handled + u.handled <= b.ok + u.ok
    <3>1. btn.handled = app.button_count /\ uart.handled = app.uart_count
          /\ btn.handled + uart.handled = Len(seen)
      BY <2>1, Now DEF Counts
    <3>2. QED
      BY <2>5, <3>1
  <2>11. QED
    BY <2>5, <2>8, <2>9, <2>10
<1>2. QED
  BY <1>1, ReportStarts, ReportStep, PTL DEF ReportSpec
====
