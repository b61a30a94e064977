--------------------------------- MODULE AppSm ---------------------------------
(***************************************************************************)
(* src/app/app_sm.c: the lifecycle of the legacy application.  Dispatching *)
(* a command looks the next state up and stores it; nothing guards the two *)
(* against a second thread, so they are two steps here.                    *)
(***************************************************************************)
CONSTANT Threads  \* the threads that dispatch

VARIABLES
  state,  \* the machine's state
  next    \* next[t]: the state thread t has looked up and not stored yet, or NONE

smVars == <<state, next>>

States   == {"BOOT", "IDLE", "HOMING", "READY", "RUNNING", "PAUSED", "ERROR"}
Commands == {"INIT_DONE", "HOME", "HOMING_DONE", "RUN", "STOP", "PAUSE", "RESUME",
             "FAULT", "FAULT_CLEARED", "QUEUE_EMPTY"}
NONE     == "none"
INVALID  == "invalid"

\* The rows of s_table that are not INVALID.
Table ==
  { <<"BOOT", "INIT_DONE", "IDLE">>,
    <<"IDLE", "HOME", "HOMING">>,
    <<"HOMING", "HOMING_DONE", "READY">>, <<"HOMING", "STOP", "IDLE">>,
    <<"READY", "HOME", "HOMING">>, <<"READY", "RUN", "RUNNING">>, <<"READY", "STOP", "IDLE">>,
    <<"RUNNING", "STOP", "READY">>, <<"RUNNING", "PAUSE", "PAUSED">>,
    <<"RUNNING", "QUEUE_EMPTY", "READY">>,
    <<"PAUSED", "STOP", "READY">>, <<"PAUSED", "RESUME", "RUNNING">>,
    <<"ERROR", "FAULT_CLEARED", "IDLE">> }
  \cup { <<s, "FAULT", "ERROR">> : s \in States }

SmInit == state = "BOOT" /\ next = [t \in Threads |-> NONE]

\* s_table[sm->state][cmd]
Lookup(cmd) == IF \E row \in Table : row[1] = state /\ row[2] = cmd
                 THEN (CHOOSE row \in Table : row[1] = state /\ row[2] = cmd)[3]
                 ELSE INVALID

LooksUp(t, cmd) == /\ next[t] = NONE
                   /\ next' = [next EXCEPT ![t] = Lookup(cmd)]
                   /\ UNCHANGED state

\* A command without a row changes nothing: dispatch returns RO_EINVAL.
Ends(t) == /\ next[t] # NONE
           /\ state' = IF next[t] = INVALID THEN state ELSE next[t]
           /\ next' = [next EXCEPT ![t] = NONE]
=============================================================================
