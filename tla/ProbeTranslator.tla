--------------------------- MODULE ProbeTranslator ---------------------------
(***************************************************************************)
(* app/probe_translator/probe_translator.c over the event bridge of        *)
(* framework/robotos_fw_event_bridge.c: adapter events (type, arg0) are    *)
(* mapped to events of a state machine without callbacks, so that every    *)
(* call is one step.  The machine is framework/robotos_fw_fsm.c on a table *)
(* without guards; FwFsm models it with callbacks.                         *)
(***************************************************************************)
EXTENDS Naturals, Sequences

CONSTANT MaxAdapterEvents   \* bound on bridge.event_count

VARIABLES
  fsm,    \* pt->fsm
  bridge  \* pt->bridge

Transition(from, event, to) == [from |-> from, event |-> event, to |-> to]

\* Slip: reconfiguring also clears a fault.
TransitionsConfigClears ==
  << Transition("IDLE",   "CONFIGURED", "READY"),
     Transition("READY",  "START",      "ACTIVE"),
     Transition("ACTIVE", "RESET",      "IDLE"),
     Transition("READY",  "FAULT",      "FAULT"),
     Transition("FAULT",  "CONFIGURED", "READY") >>

Transitions ==
  << Transition("IDLE",   "CONFIGURED", "READY"),
     Transition("READY",  "START",      "ACTIVE"),
     Transition("ACTIVE", "STOP",       "READY"),
     Transition("READY",  "RESET",      "IDLE"),
     Transition("ACTIVE", "RESET",      "IDLE"),
     Transition("IDLE",   "RESET",      "IDLE"),
     Transition("IDLE",   "FAULT",      "FAULT"),
     Transition("READY",  "FAULT",      "FAULT"),
     Transition("ACTIVE", "FAULT",      "FAULT"),
     Transition("FAULT",  "RESET",      "IDLE") >>

Mapping == << [type |-> "CONFIG",  exact |-> TRUE,  arg0 |-> "NONE",  event |-> "CONFIGURED"],
              [type |-> "COMMAND", exact |-> TRUE,  arg0 |-> "START", event |-> "START"],
              [type |-> "COMMAND", exact |-> TRUE,  arg0 |-> "STOP",  event |-> "STOP"],
              [type |-> "COMMAND", exact |-> TRUE,  arg0 |-> "RESET", event |-> "RESET"],
              [type |-> "FAULT",   exact |-> FALSE, arg0 |-> "ANY",   event |-> "FAULT"] >>

States == {"IDLE", "READY", "ACTIVE", "FAULT"}
FwEvents == {Mapping[i].event : i \in DOMAIN Mapping}
AdapterTypes == {"CONFIG", "COMMAND", "FAULT", "OTHER"}
AdapterArgs  == {"NONE", "START", "STOP", "RESET", "ANY"}

FirstOf(S) == CHOOSE i \in S : \A j \in S : i <= j

Init ==
  /\ fsm = [initialized |-> FALSE, current_state |-> "UNINIT", event_count |-> 0,
            transition_count |-> 0, no_transition_count |-> 0, last_event_id |-> "NONE"]
  /\ bridge = [initialized |-> FALSE, event_count |-> 0, mapped_count |-> 0,
               unmapped_count |-> 0, last_fw_event_id |-> "NONE"]

FreshFsm == [initialized |-> TRUE, current_state |-> "IDLE", event_count |-> 0,
             transition_count |-> 0, no_transition_count |-> 0, last_event_id |-> "NONE"]
FreshBridge == [initialized |-> TRUE, event_count |-> 0, mapped_count |-> 0,
                unmapped_count |-> 0, last_fw_event_id |-> "NONE"]

\* robotos_fw_fsm_dispatch without guards and callbacks.
Fired(e) == LET rows == {i \in DOMAIN Transitions : /\ Transitions[i].from = fsm.current_state
                                                    /\ Transitions[i].event = e}
            IN IF rows = {} THEN {} ELSE {Transitions[FirstOf(rows)]}

AfterDispatch(e) ==
  LET moved == [fsm EXCEPT !.event_count = @ + 1, !.last_event_id = e]
  IN IF Fired(e) = {}
       THEN [moved EXCEPT !.no_transition_count = @ + 1]
       ELSE [moved EXCEPT !.transition_count = @ + 1,
                          !.current_state = (CHOOSE t \in Fired(e) : TRUE).to]

MatchingRows(type, arg0) ==
  {i \in DOMAIN Mapping : /\ Mapping[i].type = type
                          /\ Mapping[i].exact => Mapping[i].arg0 = arg0}

\* Slip: init sets up the bridge and leaves the machine to the caller.
PtInitBridgeOnly == bridge' = FreshBridge /\ UNCHANGED fsm

PtInit == fsm' = FreshFsm /\ bridge' = FreshBridge

\* A row matches: the machine is called.  A bridge that is not initialised
\* refuses (ERR_INVALID_STATE), which is not a step.
Mapped(type, arg0) ==
  LET rows == MatchingRows(type, arg0)
  IN /\ bridge.initialized
     /\ rows # {}
     /\ fsm' = AfterDispatch(Mapping[FirstOf(rows)].event)
     /\ bridge' = [bridge EXCEPT !.event_count = @ + 1, !.mapped_count = @ + 1,
                                 !.last_fw_event_id = Mapping[FirstOf(rows)].event]

\* No row matches: counted, and the machine is left alone.
Unmapped(type, arg0) ==
  /\ bridge.initialized
  /\ MatchingRows(type, arg0) = {}
  /\ bridge' = [bridge EXCEPT !.event_count = @ + 1, !.unmapped_count = @ + 1]
  /\ UNCHANGED fsm

DispatchAdapterEvent(type, arg0) == Mapped(type, arg0) \/ Unmapped(type, arg0)

\* Slip: only the bridge's counters are reset.
PtResetBridgeOnly == bridge.initialized /\ bridge' = FreshBridge /\ UNCHANGED fsm

PtReset == bridge.initialized /\ bridge' = FreshBridge /\ fsm' = FreshFsm

Next == \/ PtInit
        \/ PtReset
        \/ bridge.event_count < MaxAdapterEvents
             /\ \E t \in AdapterTypes, a \in AdapterArgs : DispatchAdapterEvent(t, a)

Spec == Init /\ [][Next]_<<fsm, bridge>>

-----------------------------------------------------------------------------
\* Every field keeps its type, and no state outside the table is entered.
TypeOK ==
  /\ fsm \in [initialized : BOOLEAN, current_state : States \cup {"UNINIT"},
              event_count : Nat, transition_count : Nat, no_transition_count : Nat,
              last_event_id : FwEvents \cup {"NONE"}]
  /\ bridge \in [initialized : BOOLEAN, event_count : Nat, mapped_count : Nat,
                 unmapped_count : Nat, last_fw_event_id : FwEvents \cup {"NONE"}]
  /\ bridge.initialized => fsm.current_state \in States

\* The two components' counters stay in step through any mix of mapped and
\* unmapped events, resets and repeated inits: the machine saw exactly the
\* mapped events, and each either fired a row or did not
\* (robotos_fw_event_bridge.h:51).
BridgeAndFsmAgree ==
  /\ bridge.event_count = bridge.mapped_count + bridge.unmapped_count
  /\ fsm.event_count = bridge.mapped_count
  /\ fsm.event_count = fsm.transition_count + fsm.no_transition_count
  /\ fsm.last_event_id = bridge.last_fw_event_id

\* A fault is latched: only RESET, or starting over, leaves FAULT; and ACTIVE
\* is entered only from READY by START.
FaultLatched ==
  [][/\ (fsm.current_state = "FAULT" /\ fsm'.current_state # "FAULT")
          => fsm'.current_state = "IDLE" /\ fsm'.last_event_id \in {"RESET", "NONE"}
     /\ (fsm.current_state # "ACTIVE" /\ fsm'.current_state = "ACTIVE")
          => fsm.current_state = "READY" /\ fsm'.last_event_id = "START"]_<<fsm, bridge>>
=============================================================================
