----------------------------- MODULE RoDeadline -----------------------------
(***************************************************************************)
(* src/adapter/zephyr/ro_deadline.c: the table of deadlines.  Every id is  *)
(* bracketed by a thread of its own; a monitor resets the counts.          *)
(***************************************************************************)
EXTENDS Integers, FiniteSets

CONSTANTS Ids, Budget, MaxIds, \* one budget for all; RO_DEADLINE_MAX_IDS
          MaxTime, MaxMisses   \* bounds on the clock and on the misses between two resets

VARIABLES
  slots,     \* the registered ids
  start_us, miss_count,
  clock,     \* ro_time_us
  ending,    \* the ids in ro_deadline_end, with the count read
  began,     \* history: the time, past 0, when the open bracket began, or NotBegun
  overruns,  \* history: the brackets over budget since the last reset
  overtaken  \* history: the ids whose count was reset within an end

deadlineVars == <<slots, start_us, miss_count, clock, ending, began, overruns, overtaken>>

NotBegun  == -1
NotEnding == -1
Zero      == [i \in Ids |-> 0]

Init == /\ slots = {} /\ start_us = Zero /\ miss_count = Zero /\ clock = 0
        /\ ending = [i \in Ids |-> NotEnding] /\ began = [i \in Ids |-> NotBegun]
        /\ overruns = Zero /\ overtaken = {}

\* A second registration and one too many are refused.
Register(i) ==
  /\ i \notin slots /\ Cardinality(slots) < MaxIds
  /\ slots' = slots \cup {i}
  /\ start_us' = [start_us EXCEPT ![i] = 0] /\ miss_count' = [miss_count EXCEPT ![i] = 0]
  /\ UNCHANGED <<clock, ending, began, overruns, overtaken>>

\* Without a slot, nothing; the bracket that is open already is forgotten.
Begin(i) ==
  /\ i \in slots /\ ending[i] = NotEnding
  /\ start_us' = [start_us EXCEPT ![i] = clock]
  /\ began' = [began EXCEPT ![i] = IF clock = 0 THEN NotBegun ELSE clock]
  /\ UNCHANGED <<slots, miss_count, clock, ending, overruns, overtaken>>

\* Slip: any time since the epoch is a start.
OpenAlways(i) == start_us[i] >= 0

\* A start of 0 stands for no start.
Open(i) == start_us[i] > 0

Over(i) == clock - start_us[i] > Budget

Overruns(i) == overruns' = [overruns EXCEPT ![i] =
                 IF began[i] # NotBegun /\ clock - began[i] > Budget THEN @ + 1 ELSE @]

\* An end without a start changes nothing.
EndsInTime(i) ==
  /\ i \in slots /\ ending[i] = NotEnding
  /\ ~Open(i) \/ ~Over(i)
  /\ start_us' = [start_us EXCEPT ![i] = 0]
  /\ began' = [began EXCEPT ![i] = NotBegun]
  /\ Overruns(i)
  /\ UNCHANGED <<slots, miss_count, clock, ending, overtaken>>

\* The increment reads the count ...
Misses(i) ==
  /\ i \in slots /\ ending[i] = NotEnding
  /\ Open(i) /\ Over(i)
  /\ overruns[i] < MaxMisses
  /\ ending' = [ending EXCEPT ![i] = miss_count[i]]
  /\ Overruns(i)
  /\ UNCHANGED <<slots, start_us, miss_count, clock, began, overtaken>>

\* ... and writes it.
CountMiss(i) ==
  /\ ending[i] # NotEnding
  /\ miss_count' = [miss_count EXCEPT ![i] = ending[i] + 1]
  /\ start_us' = [start_us EXCEPT ![i] = 0]
  /\ began' = [began EXCEPT ![i] = NotBegun]
  /\ ending' = [ending EXCEPT ![i] = NotEnding]
  /\ UNCHANGED <<slots, clock, overruns, overtaken>>

MissReset(i) ==
  /\ i \in slots
  /\ miss_count' = [miss_count EXCEPT ![i] = 0]
  /\ overruns' = [overruns EXCEPT ![i] = 0]
  /\ overtaken' = IF ending[i] = NotEnding THEN overtaken \ {i} ELSE overtaken \cup {i}
  /\ UNCHANGED <<slots, start_us, clock, ending, began>>

Elapses == /\ clock < MaxTime
           /\ clock' = clock + 1
           /\ UNCHANGED <<slots, start_us, miss_count, ending, began, overruns, overtaken>>

Next == \/ \E i \in Ids : \/ Register(i) \/ Begin(i) \/ EndsInTime(i)
                          \/ Misses(i) \/ CountMiss(i) \/ MissReset(i)
        \/ Elapses

-----------------------------------------------------------------------------
\* The count of an id is the number of its brackets over budget since the last
\* reset, unless that reset came within an end, whose increment undoes it; a
\* bracket that begins at time 0 is not seen.
MissesExact == \A i \in Ids : ending[i] = NotEnding /\ i \notin overtaken => miss_count[i] = overruns[i]
=============================================================================
