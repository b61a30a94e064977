------------------------------ MODULE FwMachine ------------------------------
(***************************************************************************)
(* What a flat state machine promises the application, with every event    *)
(* decided in one step: the state moves along the first row of the table   *)
(* that is for the present state and event and whose guard agrees, and     *)
(* stays where it is when there is none.  FwFsm implements it.             *)
(***************************************************************************)
EXTENDS Naturals, Sequences

CONSTANTS Events,   \* the event IDs the application dispatches
          Rows,     \* the transition table, a sequence of rows
          Initial,  \* the configured initial state
          Uninit    \* ROBOTOS_FW_STATE_UNINIT

VARIABLES state,    \* what get_state reports
          pending   \* the event dispatched and not decided yet, in a tuple of at most one

machineVars == <<state, pending>>

RowsFor(s, e) == {i \in DOMAIN Rows : Rows[i].from = s /\ Rows[i].event = e}

\* A row can win only if every earlier row for the state and event is guarded.
MayFire(s, e) == {i \in RowsFor(s, e) : \A j \in RowsFor(s, e) : j < i => Rows[j].guarded}
MayIgnore(s, e) == \A i \in RowsFor(s, e) : Rows[i].guarded

Init == state = Uninit /\ pending = <<>>

\* init or reset
Start == pending = <<>> /\ state' = Initial /\ UNCHANGED pending

Offer(e) == /\ state # Uninit
            /\ pending = <<>>
            /\ pending' = <<e>>
            /\ UNCHANGED state

Decide == /\ pending # <<>>
          /\ pending' = <<>>
          /\ \/ \E i \in MayFire(state, pending[1]) : state' = Rows[i].to
             \/ MayIgnore(state, pending[1]) /\ UNCHANGED state

Next == Start \/ Decide \/ \E e \in Events : Offer(e)

Spec == Init /\ [][Next]_machineVars
=============================================================================
