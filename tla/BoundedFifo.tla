---------------------------- MODULE BoundedFifo ----------------------------
(***************************************************************************)
(* What a core event queue promises its callers, independent of how it is  *)
(* stored: a first-in-first-out buffer of at most Capacity items that must *)
(* be opened before use, refuses and counts an item that finds it full,    *)
(* and hands items out in the order they were put in.                      *)
(*                                                                         *)
(* EventQueue implements it with a ring buffer; RobotCore uses it as the   *)
(* core-owned queue.                                                       *)
(***************************************************************************)
EXTENDS Naturals, Sequences

CONSTANTS Items,     \* the values that can be queued
          Capacity   \* the most items the buffer holds

VARIABLES fifo,      \* the queued items, oldest first
          lost,      \* how many items were refused because the buffer was full
          open,      \* whether the buffer has been initialised
          out        \* the item last handed to a caller

fifoVars == <<fifo, lost, open, out>>

Init == /\ fifo = <<>>
        /\ lost = 0
        /\ open = FALSE

\* (Re)initialisation empties the buffer and forgets the losses.
Open == /\ fifo' = <<>>
        /\ lost' = 0
        /\ open' = TRUE
        /\ UNCHANGED out

Put(x) == /\ open
          /\ Len(fifo) < Capacity
          /\ fifo' = Append(fifo, x)
          /\ UNCHANGED <<lost, open, out>>

\* An item that finds the buffer full is lost, and the loss is counted.
Lose == /\ open
        /\ Len(fifo) = Capacity
        /\ lost' = lost + 1
        /\ UNCHANGED <<fifo, open, out>>

Take == /\ open
        /\ fifo # <<>>
        /\ out' = Head(fifo)
        /\ fifo' = Tail(fifo)
        /\ UNCHANGED <<lost, open>>

\* The oldest item is shown to the caller and stays queued.
Look == /\ open
        /\ fifo # <<>>
        /\ out' = Head(fifo)
        /\ UNCHANGED <<fifo, lost, open>>

\* Everything queued is discarded; the count of losses is kept.
Flush == /\ open
         /\ fifo' = <<>>
         /\ UNCHANGED <<lost, open, out>>

Next == \/ Open
        \/ \E x \in Items : Put(x)
        \/ Lose
        \/ Take
        \/ Look
        \/ Flush

Spec == Init /\ [][Next]_fifoVars
=============================================================================
