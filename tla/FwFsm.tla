-------------------------------- MODULE FwFsm --------------------------------
(***************************************************************************)
(* framework/robotos_fw_fsm.c: the table-driven state machine.  A step is  *)
(* what happens between two application callbacks (guard, on_exit, action, *)
(* on_entry), because the callbacks may look at the machine and, as the    *)
(* header does not forbid it, call it again; calls in progress are kept on *)
(* a stack.  Interrupts only read (get_state, is_in_state).                *)
(***************************************************************************)
EXTENDS Naturals, Sequences, FiniteSets

CONSTANTS
  States,     \* the state IDs of the configuration
  Events,     \* the event IDs the application dispatches
  Uninit,     \* ROBOTOS_FW_STATE_UNINIT
  NoId,       \* the ID 0, which an event may have too
  Rows,       \* config->transitions: from, event, guarded, to
  Initial,    \* config->initial_state
  Results,    \* what actions may return
  Callbacks,  \* what callbacks may call, one set per kind of application
  Depth,      \* bound on the calls in progress
  MaxEvents,  \* bound on event_count
  MaxStarts   \* bound on the calls of init

ASSUME FsmAssumption ==
  /\ Uninit \notin States
  /\ Initial \in States
  /\ Rows \in Seq([from : States, event : Events, guarded : BOOLEAN, to : States])
  /\ Rows # <<>>
  /\ "OK" \in Results
  /\ Callbacks \subseteq SUBSET {"dispatch", "reset"}
  /\ Depth \in Nat \ {0} /\ MaxEvents \in Nat /\ MaxStarts \in Nat

VARIABLES
  initialized, current_state,
  transition_count, event_count, guard_rejected_count, no_transition_count,
  last_event_id, last_status,
  stack,    \* the calls in progress, the innermost first
  nested,   \* the calls this application's callbacks make
  entered,  \* the state whose on_entry ran last with no on_exit since
  unpaired, \* whether a callback ran that does not fit entered
  starts    \* how often init was called

counters == <<transition_count, event_count, guard_rejected_count, no_transition_count,
              last_event_id, last_status>>
history  == <<entered, unpaired>>
vars == <<initialized, current_state, counters, stack, nested, history, starts>>

Frames == [op : {"init", "dispatch", "reset"}, ev : Events \cup {NoId},
           from : States \cup {Uninit}, row : 1 .. Len(Rows) + 1,
           at : {"scan", "exit", "action", "entry"}, status : Results]

Top == stack[1]
At(place) == stack # <<>> /\ Top.at = place
Goto(frame) == stack' = <<frame>> \o Tail(stack)
Call(op, place, ev) == [op |-> op, ev |-> ev, from |-> current_state, row |-> 1,
                        at |-> place, status |-> "OK"]

Init ==
  /\ initialized = FALSE /\ current_state = Uninit
  /\ transition_count = 0 /\ event_count = 0
  /\ guard_rejected_count = 0 /\ no_transition_count = 0
  /\ last_event_id = NoId /\ last_status = "OK"
  /\ nested \in Callbacks
  /\ stack = <<>> /\ entered = Uninit /\ unpaired = FALSE /\ starts = 0

ResetCounters ==
  /\ transition_count' = 0 /\ event_count' = 0
  /\ guard_rejected_count' = 0 /\ no_transition_count' = 0
  /\ last_event_id' = NoId /\ last_status' = "OK"

\* on_exit(s) and on_entry(s) are called; only the history notices.
Exits(s)   == entered' = Uninit /\ unpaired' = (unpaired \/ entered # s)
Enters(s)  == entered' = s /\ unpaired' = (unpaired \/ entered # Uninit)

\* The application calls the machine from its thread, or from a callback that
\* may have effects (guards are pure predicates by contract).
MayCall(op) == stack # <<>> => op \in nested /\ Len(stack) < Depth /\ ~At("scan")

-----------------------------------------------------------------------------
\* robotos_fw_fsm_init, up to the return of on_entry(initial_state).
FsmInit ==
  /\ stack = <<>>
  /\ starts < MaxStarts
  /\ starts' = starts + 1
  /\ current_state' = Initial
  /\ ResetCounters
  /\ initialized' = TRUE
  /\ Enters(Initial)
  /\ stack' = <<Call("init", "entry", NoId)>>
  /\ UNCHANGED nested

\* robotos_fw_fsm_dispatch up to the scan.  An uninitialised machine refuses
\* (ERR_INVALID_STATE) and nothing changes.
Dispatch(e) ==
  /\ MayCall("dispatch")
  /\ initialized
  /\ event_count < MaxEvents
  /\ event_count' = event_count + 1
  /\ last_event_id' = e
  /\ stack' = <<Call("dispatch", "scan", e)>> \o stack
  /\ UNCHANGED <<initialized, current_state, transition_count, guard_rejected_count,
                 no_transition_count, last_status, history, starts, nested>>

\* Slip: the scan compares states only.
CandidatesAnyEvent == {i \in Top.row .. Len(Rows) : Rows[i].from = Top.from}

\* The rows the scan has yet to look at that are for this state and event.
Candidates == {i \in Top.row .. Len(Rows) : Rows[i].from = Top.from /\ Rows[i].event = Top.ev}
FirstCandidate == CHOOSE i \in Candidates : \A j \in Candidates : i <= j

\* The guard of the first such row refuses and the scan goes on.
GuardRejects ==
  /\ At("scan")
  /\ Candidates # {}
  /\ Rows[FirstCandidate].guarded
  /\ guard_rejected_count' = guard_rejected_count + 1
  /\ Goto([Top EXCEPT !.row = FirstCandidate + 1])
  /\ UNCHANGED <<initialized, current_state, transition_count, event_count,
                 no_transition_count, last_event_id, last_status, history, starts, nested>>

\* The row wins; on_exit(from) is called.
Commit ==
  /\ At("scan")
  /\ Candidates # {}
  /\ Exits(Top.from)
  /\ Goto([Top EXCEPT !.row = FirstCandidate, !.at = "exit"])
  /\ UNCHANGED <<initialized, current_state, counters, starts, nested>>

\* Slip: a dispatch completes only if some row was for its state and event.
NoTransitionIfMatched ==
  /\ At("scan")
  /\ Candidates = {}
  /\ Top.row > 1
  /\ no_transition_count' = no_transition_count + 1
  /\ last_status' = "OK"
  /\ stack' = Tail(stack)
  /\ UNCHANGED <<initialized, current_state, transition_count, event_count,
                 guard_rejected_count, last_event_id, history, starts, nested>>

\* No row is left: the dispatch returns OK.
NoTransition ==
  /\ At("scan")
  /\ Candidates = {}
  /\ no_transition_count' = no_transition_count + 1
  /\ last_status' = "OK"
  /\ stack' = Tail(stack)
  /\ UNCHANGED <<initialized, current_state, transition_count, event_count,
                 guard_rejected_count, last_event_id, history, starts, nested>>

\* on_exit returned: the state is updated, then the action is called.
UpdateState ==
  /\ At("exit")
  /\ Top.op = "dispatch"
  /\ current_state' = Rows[Top.row].to
  /\ Goto([Top EXCEPT !.at = "action"])
  /\ UNCHANGED <<initialized, counters, history, starts, nested>>

\* Slip: a failed action ends the dispatch before on_entry.
ActionFailureReturns(status) ==
  /\ At("action")
  /\ last_status' = status
  /\ IF status = "OK"
       THEN /\ Enters(Rows[Top.row].to)
            /\ Goto([Top EXCEPT !.at = "entry", !.status = status])
       ELSE stack' = Tail(stack) /\ UNCHANGED history
  /\ UNCHANGED <<initialized, current_state, transition_count, event_count,
                 guard_rejected_count, no_transition_count, last_event_id, starts, nested>>

\* The action returned, with whatever status; on_entry(to) is called.
ActionReturns(status) ==
  /\ At("action")
  /\ Enters(Rows[Top.row].to)
  /\ Goto([Top EXCEPT !.at = "entry", !.status = status])
  /\ UNCHANGED <<initialized, current_state, counters, starts, nested>>

\* on_entry returned: the transition is counted and dispatch returns.
FinishDispatch ==
  /\ At("entry")
  /\ Top.op = "dispatch"
  /\ transition_count' = transition_count + 1
  /\ last_status' = Top.status
  /\ stack' = Tail(stack)
  /\ UNCHANGED <<initialized, current_state, event_count, guard_rejected_count,
                 no_transition_count, last_event_id, history, starts, nested>>

\* Slip: reset enters the initial state without leaving the present one.
ResetSkipsExit ==
  /\ MayCall("reset")
  /\ initialized
  /\ stack' = <<Call("reset", "exit", NoId)>> \o stack
  /\ UNCHANGED <<initialized, current_state, counters, history, starts, nested>>

\* robotos_fw_fsm_reset: on_exit(prev), then the state and the counters, then
\* on_entry(initial_state).
Reset ==
  /\ MayCall("reset")
  /\ initialized
  /\ Exits(current_state)
  /\ stack' = <<Call("reset", "exit", NoId)>> \o stack
  /\ UNCHANGED <<initialized, current_state, counters, starts, nested>>

RestoreInitial ==
  /\ At("exit")
  /\ Top.op = "reset"
  /\ current_state' = Initial
  /\ ResetCounters
  /\ Enters(Initial)
  /\ Goto([Top EXCEPT !.at = "entry"])
  /\ UNCHANGED <<initialized, starts, nested>>

\* on_entry(initial_state) returned to init or reset.
FinishStart ==
  /\ At("entry")
  /\ Top.op # "dispatch"
  /\ stack' = Tail(stack)
  /\ UNCHANGED <<initialized, current_state, counters, history, starts, nested>>

\* What the machine and its callbacks do once a call is begun.
CallStep == \/ GuardRejects \/ Commit \/ NoTransition
            \/ UpdateState \/ \E s \in Results : ActionReturns(s)
            \/ FinishDispatch
            \/ RestoreInitial \/ FinishStart

Next == \/ FsmInit \/ Reset
        \/ \E e \in Events : Dispatch(e)
        \/ CallStep

Spec == Init /\ [][Next]_vars

\* Callbacks must return (they may not block); the application owes nothing.
FairSpec == Spec /\ WF_vars(CallStep)

-----------------------------------------------------------------------------
\* Every variable keeps its type; the call stack stays within its bound and a
\* row index never runs past the table.
TypeOK ==
  /\ initialized \in BOOLEAN
  /\ current_state \in States \cup {Uninit}
  /\ transition_count \in Nat /\ event_count \in Nat
  /\ guard_rejected_count \in Nat /\ no_transition_count \in Nat
  /\ last_event_id \in Events \cup {NoId}
  /\ last_status \in Results
  /\ stack \in Seq(Frames) /\ Len(stack) <= Depth
  /\ entered \in States \cup {Uninit} /\ unpaired \in BOOLEAN
  /\ starts \in 0 .. MaxStarts

Dispatches(places) ==
  Cardinality({i \in 1 .. Len(stack) : stack[i].op = "dispatch" /\ stack[i].at \in places})

\* Every dispatch ends in exactly one of the two outcome counters, also when
\* callbacks dispatch, guards refuse or actions fail; the difference is the
\* dispatches still in progress.
EveryDispatchAccounted ==
  /\ TypeOK
  /\ event_count = transition_count + no_transition_count
                     + Dispatches({"scan", "exit", "action", "entry"})

\* If no callback calls the machine and init is called once, on_exit runs only
\* for the state entered last, and on_entry only after it: no state's resources
\* are acquired twice or released by another state.
EntryExitPaired == nested = {} /\ starts <= 1 => ~unpaired

\* Every call returns, however many guards refuse and callbacks dispatch.
CallsReturn == stack # <<>> ~> stack = <<>>

\* The stepwise machine moves along the table as if each event were handled
\* at once: earlier unguarded rows shadow later ones and failing actions do
\* not take the state back.  (A callback that dispatches makes the outer row
\* overwrite the inner one's state; nothing is claimed then.)
Machine == INSTANCE FwMachine
  WITH state   <- IF nested = {} /\ initialized THEN current_state ELSE Uninit,
       pending <- IF nested = {} /\ (At("scan") \/ (At("exit") /\ Top.op = "dispatch"))
                    THEN <<Top.ev>> ELSE <<>>

ImplementsMachine == Machine!Spec
=============================================================================
