------------------------------- MODULE RoQueue -------------------------------
(***************************************************************************)
(* src/adapter/zephyr/ro_queue.c: a queue on the kernel's message queue,   *)
(* with its fill level cached in the handle, where ro_queue_is_full and    *)
(* ro_queue_is_empty read it.                                              *)
(***************************************************************************)
EXTENDS Integers, FiniteSets

CONSTANTS Tasks, Capacity

VARIABLES
  msgs,     \* the messages in the kernel's queue
  count,    \* the cached fill level
  calls,    \* the tasks' calls
  levels,   \* local: the level read, to be stored
  outdated  \* history: the queue changed within a call that writes the cache

queueVars == <<msgs, count, calls, levels, outdated>>

In(what) == {t \in Tasks : calls[t] = what}
Settled(t) == calls[t] \in {"idle", "send", "recv"}
Returns(S) == [t \in Tasks |-> IF t \in S THEN "idle" ELSE calls[t]]

Init == /\ msgs = 0 /\ count = 0 /\ calls = [t \in Tasks |-> "idle"]
        /\ levels = [t \in Tasks |-> 0] /\ outdated = FALSE

\* A change by one call while another one is between its own and its store
\* outdates the cache; a call that begins alone will bring it up to date.
Within(who)    == \E t \in Tasks \ who : calls[t] \in {"store", "purge"}
AloneBut(who)  == \A t \in Tasks \ who : Settled(t)
Changes(who)   == outdated' = (Within(who) \/ (outdated /\ ~AloneBut(who)))

\* k_msgq_put hands the message to a task that waits for one, and k_msgq_get
\* lets a task that waits put its own in; both have their count to read next.
Puts(who) ==
  \/ \E r \in In("recv") \ who : /\ calls' = [t \in Tasks |-> IF t \in who \cup {r} THEN "count" ELSE calls[t]]
                                 /\ UNCHANGED msgs
  \/ /\ In("recv") = {} /\ msgs < Capacity
     /\ calls' = [t \in Tasks |-> IF t \in who THEN "count" ELSE calls[t]]
     /\ msgs' = msgs + 1

Takes(who) ==
  /\ msgs > 0
  /\ \/ \E s \in In("send") \ who : /\ calls' = [t \in Tasks |-> IF t \in who \cup {s} THEN "count" ELSE calls[t]]
                                    /\ UNCHANGED msgs
     \/ /\ In("send") = {}
        /\ calls' = [t \in Tasks |-> IF t \in who THEN "count" ELSE calls[t]]
        /\ msgs' = msgs - 1

Send(t) == /\ calls[t] = "idle"
           /\ Puts({t}) /\ Changes({t})
           /\ UNCHANGED <<count, levels>>

Recv(t) == /\ calls[t] = "idle"
           /\ Takes({t}) /\ Changes({t})
           /\ UNCHANGED <<count, levels>>

\* With a timeout; without one the call returns at once and changes nothing.
Waits(t) ==
  /\ calls[t] = "idle"
  /\ \/ /\ msgs = Capacity /\ calls' = [calls EXCEPT ![t] = "send"]
     \/ /\ msgs = 0 /\ calls' = [calls EXCEPT ![t] = "recv"]
  /\ UNCHANGED <<msgs, count, levels, outdated>>

TimesOut(t) == /\ calls[t] \in {"send", "recv"}
               /\ calls' = Returns({t})
               /\ UNCHANGED <<msgs, count, levels, outdated>>

ReadLevel(t) == /\ calls[t] = "count"
                /\ levels' = [levels EXCEPT ![t] = msgs]
                /\ calls' = [calls EXCEPT ![t] = "store"]
                /\ UNCHANGED <<msgs, count, outdated>>

StoreLevel(t) == /\ calls[t] = "store"
                 /\ count' = levels[t]
                 /\ calls' = Returns({t})
                 /\ outdated' = (outdated \/ In("purge") # {})
                 /\ UNCHANGED <<msgs, levels>>

\* ro_queue_reset clears the cache first ...
Reset(t) == /\ calls[t] = "idle"
            /\ count' = 0
            /\ calls' = [calls EXCEPT ![t] = "purge"]
            /\ outdated' = (outdated /\ ~AloneBut({t}))
            /\ UNCHANGED <<msgs, levels>>

\* ... then the queue, and the tasks that wait give up.
Purge(t) == /\ calls[t] = "purge"
            /\ msgs' = 0
            /\ calls' = Returns({t} \cup In("send") \cup In("recv"))
            /\ outdated' = (outdated \/ Within({t}))
            /\ UNCHANGED <<count, levels>>

\* Slip: the interrupt variants leave the cache alone.
InterruptCallsUncached == /\ Puts({}) \/ Takes({})
                          /\ Changes({})
                          /\ UNCHANGED <<count, levels>>

\* ro_queue_send_isr and ro_queue_recv_isr, to their ends.
InterruptCalls == /\ Puts({}) \/ Takes({})
                  /\ count' = msgs'
                  /\ Changes({})
                  /\ UNCHANGED levels

Next == \/ \E t \in Tasks : \/ Send(t) \/ Recv(t) \/ Waits(t) \/ TimesOut(t)
                            \/ ReadLevel(t) \/ StoreLevel(t) \/ Reset(t) \/ Purge(t)
        \/ InterruptCalls

-----------------------------------------------------------------------------
\* Once every call has returned or waits, the cached level is that of the
\* queue, unless the queue changed between a call's change and its store.
CacheExact == ~outdated /\ (\A t \in Tasks : Settled(t)) => count = msgs
=============================================================================
