--------------------------- MODULE EventDelivery ---------------------------
(***************************************************************************)
(* What the core promises the producers of events, without its call        *)
(* structure, handler table or counters: accepted events are numbered in   *)
(* the order of acceptance, at most Capacity of them wait, one at a time   *)
(* is being delivered, each is finished exactly once and in that order,    *)
(* and an event is refused for lack of room only when Capacity events are  *)
(* waiting.                                                                *)
(***************************************************************************)
EXTENDS Naturals, Sequences

CONSTANT Capacity

VARIABLES waiting,   \* the numbers of the accepted events not yet taken
          current,   \* the number of the event being delivered, 0 if none
          finished,  \* how many events have been delivered (or failed)
          refused    \* how many found the queue full

deliveryVars == <<waiting, current, finished, refused>>

Init == waiting = <<>> /\ current = 0 /\ finished = 0 /\ refused = 0

\* How many events have been accepted so far.
Accepted == finished + (IF current = 0 THEN 0 ELSE 1) + Len(waiting)

Accept == /\ Len(waiting) < Capacity
          /\ waiting' = Append(waiting, Accepted + 1)
          /\ UNCHANGED <<current, finished, refused>>

Refuse == /\ Len(waiting) = Capacity
          /\ refused' = refused + 1
          /\ UNCHANGED <<waiting, current, finished>>

Start == /\ current = 0
         /\ waiting # <<>>
         /\ current' = Head(waiting)
         /\ waiting' = Tail(waiting)
         /\ UNCHANGED <<finished, refused>>

\* Only the event after the last finished one can finish.
Finish == /\ current = finished + 1
          /\ finished' = current
          /\ current' = 0
          /\ UNCHANGED <<waiting, refused>>

Next == Accept \/ Refuse \/ Start \/ Finish

Spec == Init /\ [][Next]_deliveryVars

\* The core is ticked for ever and handlers return.
FairSpec == Spec /\ WF_deliveryVars(Start) /\ WF_deliveryVars(Finish)
=============================================================================
