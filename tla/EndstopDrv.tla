----------------------------- MODULE EndstopDrv -----------------------------
(***************************************************************************)
(* src/framework/drivers/endstop_drv.c: one endstop pin with its software  *)
(* debounce.  The level may change again before the interrupt of an edge   *)
(* reads it; the interrupts of edges that come meanwhile are one.          *)
(***************************************************************************)
EXTENDS Integers

CONSTANTS DebounceUs,   \* DEBOUNCE_US
          MaxTime       \* bound on the clock

VARIABLES
  in_use, last_trigger_us, last_state,   \* the entry
  level, pending, clock,                 \* the pin, its interrupt, ro_time_us
  told, gap, \* history: time of the last callback and since the one before, or none yet
  edge       \* history: time of the last interrupt, or none yet

drvVars == <<in_use, last_trigger_us, last_state, level, pending, clock, told, gap, edge>>

NoneYet == -1

Init == /\ in_use = FALSE /\ last_trigger_us = 0 /\ last_state = FALSE
        /\ level \in BOOLEAN /\ pending = FALSE /\ clock \in 0 .. DebounceUs
        /\ told = NoneYet /\ gap = NoneYet /\ edge = NoneYet

\* The entry starts as "low, never triggered", whatever the level and the time,
\* and starts over when it is registered again, with its interrupt live.
Register == /\ in_use' = TRUE /\ last_trigger_us' = 0 /\ last_state' = FALSE
            /\ told' = NoneYet /\ gap' = NoneYet /\ edge' = NoneYet
            /\ UNCHANGED <<level, pending, clock>>

Unregister == /\ in_use
              /\ in_use' = FALSE /\ last_trigger_us' = 0 /\ last_state' = FALSE
              /\ pending' = FALSE
              /\ UNCHANGED <<level, clock, told, gap, edge>>

Bounces == clock - last_trigger_us < DebounceUs

\* The interrupt of an edge within the window.
IsrFilters == /\ pending /\ Bounces
              /\ pending' = FALSE /\ edge' = clock
              /\ UNCHANGED <<in_use, last_trigger_us, last_state, level, clock, told, gap>>

\* The callback is called if the level has changed.
Tells(changed) ==
  /\ told' = IF changed THEN clock ELSE told
  /\ gap' = IF changed /\ told # NoneYet THEN clock - told ELSE gap

\* Slip: a change does not start the window.
IsrKeepsWindow ==
  /\ pending /\ ~Bounces
  /\ pending' = FALSE /\ edge' = clock
  /\ last_trigger_us' = IF level = last_state THEN clock ELSE last_trigger_us
  /\ last_state' = level
  /\ Tells(level # last_state)
  /\ UNCHANGED <<in_use, level, clock>>

\* One outside it starts a window, also when the level has not changed, and
\* calls the callback when it has.
IsrAccepts ==
  /\ pending /\ ~Bounces
  /\ pending' = FALSE /\ edge' = clock
  /\ last_trigger_us' = clock
  /\ last_state' = level
  /\ Tells(level # last_state)
  /\ UNCHANGED <<in_use, level, clock>>

Edge == /\ level' = ~level
        /\ pending' = in_use
        /\ UNCHANGED <<in_use, last_trigger_us, last_state, clock, told, gap, edge>>

Elapses == /\ clock < MaxTime
           /\ clock' = clock + 1
           /\ UNCHANGED <<in_use, last_trigger_us, last_state, level, pending, told, gap, edge>>

Next == Register \/ Unregister \/ IsrFilters \/ IsrAccepts \/ Edge \/ Elapses

-----------------------------------------------------------------------------
\* The callback is never called twice within the window; and the driver is
\* wrong about the pin only when no interrupt has come yet or the last one was
\* filtered: a bounce that ends a press can hide it until the next edge.
DebounceSound ==
  /\ gap = NoneYet \/ gap >= DebounceUs
  /\ in_use /\ ~pending /\ last_state # level =>
        edge = NoneYet \/ edge - last_trigger_us < DebounceUs
=============================================================================
