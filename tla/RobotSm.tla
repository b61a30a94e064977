------------------------------- MODULE RobotSm -------------------------------
(***************************************************************************)
(* src/framework/robot_sm.c: a table-driven machine without a lock.  A     *)
(* thread dispatches commands and clears faults; its calls are split where *)
(* an interrupt that dispatches a fault can come in between.  The observer *)
(* is the transition callback.                                             *)
(***************************************************************************)
CONSTANTS Reasons   \* fault reasons other than 0

States   == {"IDLE", "HOMING", "RUN", "FAULT"}
Commands == {"HOME", "START", "STOP", "EMERGENCY_STOP", "FAULT", "HOMING_COMPLETE"}

VARIABLES
  state, fault_reason,
  call,     \* the thread's call: at, and the state it is about to store
  heard,    \* the state the observer was last told
  faulted,  \* history: a fault was entered, not cleared and not overwritten
  raced     \* history: a fault interrupted the last call of the thread

robotVars == <<state, fault_reason, call, heard, faulted, raced>>

Idle == [at |-> "idle", next |-> "IDLE"]

\* Slip: a fault is left by the stop command too.
TableStopClears ==
  {<<"IDLE", "HOME", "HOMING">>, <<"IDLE", "START", "RUN">>,
   <<"HOMING", "STOP", "IDLE">>, <<"HOMING", "HOMING_COMPLETE", "IDLE">>,
   <<"RUN", "STOP", "IDLE">>, <<"FAULT", "STOP", "IDLE">>}
    \cup (States \X {"EMERGENCY_STOP", "FAULT"} \X {"FAULT"})

\* s_table, without the combinations that are INVALID.
Table ==
  {<<"IDLE", "HOME", "HOMING">>, <<"IDLE", "START", "RUN">>,
   <<"HOMING", "STOP", "IDLE">>, <<"HOMING", "HOMING_COMPLETE", "IDLE">>,
   <<"RUN", "STOP", "IDLE">>}
    \cup (States \X {"EMERGENCY_STOP", "FAULT"} \X {"FAULT"})

Init == /\ state = "IDLE" /\ fault_reason = 0 /\ call = Idle
        /\ heard = "IDLE" /\ faulted = FALSE /\ raced = FALSE

-----------------------------------------------------------------------------
(* The thread *)

\* An invalid combination is refused and changes nothing.
LookUp(cmd) ==
  \E row \in Table :
     /\ call.at = "idle" /\ row[1] = state /\ row[2] = cmd
     /\ call' = [at |-> "store", next |-> row[3]]
     /\ raced' = FALSE /\ faulted' = (state = "FAULT")
     /\ UNCHANGED <<state, fault_reason, heard>>

\* The previous state, read only now, goes to the observer.
Store == /\ call.at = "store"
         /\ state' = call.next
         /\ call' = [call EXCEPT !.at = "report"]
         /\ faulted' = (faulted \/ call.next = "FAULT")
         /\ UNCHANGED <<fault_reason, heard, raced>>

\* sm_clear_fault, which reports its transition as a STOP.
StartClear == /\ call.at = "idle" /\ state = "FAULT"
              /\ fault_reason' = 0
              /\ call' = [at |-> "clear", next |-> "IDLE"]
              /\ raced' = FALSE
              /\ UNCHANGED <<state, heard, faulted>>

ClearStore == /\ call.at = "clear"
              /\ state' = "IDLE"
              /\ call' = [call EXCEPT !.at = "report"]
              /\ faulted' = FALSE
              /\ UNCHANGED <<fault_reason, heard, raced>>

Report == /\ call.at = "report"
          /\ heard' = call.next
          /\ call' = Idle
          /\ UNCHANGED <<state, fault_reason, faulted, raced>>

SetFaultReason(r) == /\ call.at = "idle" /\ fault_reason' = r
                     /\ UNCHANGED <<state, call, heard, faulted, raced>>

-----------------------------------------------------------------------------
\* An interrupt calls sm_set_fault_reason and sm_dispatch(FAULT) to their ends.
FaultInterrupt(r) ==
  /\ fault_reason' = r
  /\ state' = "FAULT" /\ heard' = "FAULT" /\ faulted' = TRUE
  /\ raced' = (raced \/ call.at # "idle")
  /\ UNCHANGED call

Next == \/ \E cmd \in Commands : LookUp(cmd)
        \/ Store \/ StartClear \/ ClearStore \/ Report
        \/ \E r \in Reasons : SetFaultReason(r) \/ FaultInterrupt(r)

-----------------------------------------------------------------------------
\* Between the calls of the thread the observer knows the state, and a fault
\* that was not cleared is still in force; only a fault that interrupted the
\* last call can have been overwritten by its store or outdated by its report.
FaultHeldAndHeard ==
  call.at = "idle" /\ ~raced => heard = state /\ (faulted <=> state = "FAULT")
=============================================================================
