------------------------------- MODULE Encoder -------------------------------
(***************************************************************************)
(* src/framework/encoder.c: one slot of the pool.  The interrupt of        *)
(* channel A counts up or down; a thread gets, puts, resets the encoder    *)
(* and asks for its velocity, several accesses each.                       *)
(***************************************************************************)
EXTENDS Integers

CONSTANTS Pins,        \* the pins an application gets the slot for
          Nobody,
          MaxCount     \* bound on the count, on the edges and on what has been reported

VARIABLES
  owner,        \* the pin the slot is in use for, or Nobody
  attached,     \* the pins whose interrupt still points at the slot
  count, last_count,
  at, cur,      \* the thread's call and its local copy of the count
  moved,        \* history: edges of the owner's pin since the last reset
  reported      \* history: the ticks of all velocities since then

encoderVars == <<owner, attached, count, last_count, at, cur, moved, reported>>

Init == /\ owner = Nobody /\ attached = {} /\ count = 0 /\ last_count = 0
        /\ at = "idle" /\ cur = 0 /\ moved = 0 /\ reported = 0

\* The slot is cleared before its interrupt is registered.
Get(p) == /\ owner = Nobody /\ at = "idle"
          /\ owner' = p /\ attached' = attached \cup {p}
          /\ count' = 0 /\ last_count' = 0
          /\ moved' = 0 /\ reported' = 0
          /\ UNCHANGED <<at, cur>>

\* The interrupt stays registered.
Put == /\ owner # Nobody /\ at = "idle"
       /\ owner' = Nobody
       /\ UNCHANGED <<attached, count, last_count, at, cur, moved, reported>>

\* Channel B gives the direction.
Isr(p, d) == /\ p \in attached
             /\ count + d \in -MaxCount .. MaxCount
             /\ count' = count + d
             /\ moved' = IF p = owner THEN moved + d ELSE moved
             /\ moved' \in -MaxCount .. MaxCount
             /\ UNCHANGED <<owner, attached, last_count, at, cur, reported>>

Reset == /\ owner # Nobody /\ at = "idle"
         /\ count' = 0 /\ at' = "reset"
         /\ moved' = 0 /\ reported' = 0
         /\ UNCHANGED <<owner, attached, last_count, cur>>

ResetLast == /\ at = "reset"
             /\ last_count' = 0 /\ at' = "idle"
             /\ UNCHANGED <<owner, attached, count, cur, moved, reported>>

Velocity == /\ owner # Nobody /\ at = "idle"
            /\ cur' = count /\ at' = "velocity"
            /\ UNCHANGED <<owner, attached, count, last_count, moved, reported>>

Delta == cur - last_count

\* Slip: the count is loaded a second time.
VelocityEndsReloading ==
  /\ at = "velocity"
  /\ Delta + reported \in -MaxCount .. MaxCount
  /\ reported' = reported + Delta
  /\ last_count' = count /\ at' = "idle"
  /\ UNCHANGED <<owner, attached, count, cur, moved>>

\* Asked twice in the same microsecond: nothing is reported and nothing is stored.
VelocityTooSoon ==
  /\ at = "velocity"
  /\ at' = "idle"
  /\ UNCHANGED <<owner, attached, count, last_count, cur, moved, reported>>

\* Time has passed since the last call; the window is not looked at any further.
VelocityEnds ==
  /\ at = "velocity"
  /\ Delta + reported \in -MaxCount .. MaxCount
  /\ reported' = reported + Delta
  /\ last_count' = cur /\ at' = "idle"
  /\ UNCHANGED <<owner, attached, count, cur, moved>>

Next == \/ \E p \in Pins : Get(p) \/ \E d \in {-1, 1} : Isr(p, d)
        \/ Put \/ Reset \/ ResetLast \/ Velocity \/ VelocityTooSoon \/ VelocityEnds

-----------------------------------------------------------------------------
\* No edge is lost or told twice between the interrupt and the velocities, also
\* when it comes in the middle of a reset or of a velocity; but only a slot
\* whose interrupt was never registered for another pin counts its own edges.
TicksReported ==
  owner # Nobody /\ attached = {owner} =>
     /\ count = moved
     /\ at # "reset" => reported + (count - last_count) = moved
=============================================================================
