----------------------------- MODULE StepperDrv -----------------------------
(***************************************************************************)
(* src/framework/drivers/stepper_drv.c: straight segments turned into step *)
(* pulses on several axes.  load_segment comes from the code that plans    *)
(* the motion, tick from the pulse timer.  A tick that interrupts a load   *)
(* finds active still false and does nothing, so a load is one step.       *)
(***************************************************************************)
EXTENDS Integers

CONSTANTS NumAxes,   \* at most STEPPER_DRV_MAX_AXES
          MaxSteps,  \* bound on the steps of one axis in a segment
          IntMax     \* the largest int32_t

ASSUME StepperAssumption ==
  /\ NumAxes \in Nat \ {0}
  /\ MaxSteps \in Nat
  /\ IntMax \in Nat /\ 3 * MaxSteps <= IntMax

VARIABLES
  active, step_count, major_steps,
  steps, dir, error,   \* per axis
  pulses,  \* history: the pulses of this segment, per axis
  missing  \* history: per axis, the signed steps commanded in all segments so
           \* far less those made

segment == <<major_steps, steps, dir>>
vars == <<active, step_count, segment, error, pulses, missing>>

Axes   == 0 .. NumAxes - 1
Inputs == [Axes -> -MaxSteps .. MaxSteps]
Zero   == [i \in Axes |-> 0]

Abs(n) == IF n < 0 THEN -n ELSE n
Sign(positive) == IF positive THEN 1 ELSE -1

Init ==
  /\ active = FALSE /\ step_count = 0 /\ major_steps = 0
  /\ steps = Zero /\ dir = [i \in Axes |-> FALSE] /\ error = Zero
  /\ pulses = Zero /\ missing = Zero

\* A segment is refused while one is running.
Load(s, mask) ==
  /\ ~active
  /\ steps' = [i \in Axes |-> IF i \in mask THEN Abs(s[i]) ELSE 0]
  /\ dir' = [i \in Axes |-> i \in mask => s[i] >= 0]
  /\ \E i \in Axes : /\ major_steps' = steps'[i]
                    /\ \A j \in Axes : steps'[j] <= steps'[i]
  /\ error' = Zero
  /\ step_count' = 0
  /\ active' = TRUE
  /\ pulses' = Zero
  /\ missing' = [i \in Axes |-> missing[i] + (IF i \in mask THEN s[i] ELSE 0)]

\* Slip: the count runs one behind.
LastTickEarly == active /\ step_count + 1 >= major_steps

\* The tick after the last step ends the segment.
LastTick == active /\ step_count >= major_steps

Finish ==
  /\ LastTick
  /\ active' = FALSE
  /\ UNCHANGED <<step_count, segment, error, pulses, missing>>

\* Slip: a step is due when the error has reached a whole step.
StepDueLate(i) == error[i] + steps[i] >= major_steps

StepDue(i) == 2 * (error[i] + steps[i]) >= major_steps

Advance ==
  /\ active
  /\ ~LastTick
  /\ error' = [i \in Axes |-> error[i] + steps[i] - (IF StepDue(i) THEN major_steps ELSE 0)]
  /\ pulses' = [i \in Axes |-> pulses[i] + (IF StepDue(i) THEN 1 ELSE 0)]
  /\ missing' = [i \in Axes |-> missing[i] - (IF StepDue(i) THEN Sign(dir[i]) ELSE 0)]
  /\ step_count' = step_count + 1
  /\ UNCHANGED <<active, segment>>

Tick == Finish \/ Advance

Next == Tick \/ \E s \in Inputs, mask \in SUBSET Axes : Load(s, mask)

Spec == Init /\ [][Next]_vars

-----------------------------------------------------------------------------
\* Between segments every axis is exactly where the segments commanded so far
\* add up to: the rounding of one segment leaves nothing to the next.
PositionExact == ~active => missing = Zero

\* On the way no axis is ever more than half a step from the straight line, and
\* no sum the tick computes overflows.
StaysOnLine ==
  active => \A i \in Axes :
              /\ 2 * Abs(step_count * steps[i] - pulses[i] * major_steps) <= major_steps
              /\ 2 * (error[i] + steps[i]) <= IntMax

\* Both: no rounding is lost on the way or left to the next segment.
PulsesExact == PositionExact /\ StaysOnLine

-----------------------------------------------------------------------------
TypeOK ==
  /\ active \in BOOLEAN
  /\ step_count \in 0 .. major_steps /\ major_steps \in 0 .. MaxSteps
  /\ steps \in [Axes -> 0 .. major_steps] /\ dir \in [Axes -> BOOLEAN]
  /\ error \in [Axes -> Int] /\ pulses \in [Axes -> Nat] /\ missing \in [Axes -> Int]

\* What the error stands for, and the window the comparison keeps it in.
ErrorIsDeviation(i) ==
  /\ pulses[i] <= step_count
  /\ error[i] = step_count * steps[i] - pulses[i] * major_steps
  /\ -major_steps <= 2 * error[i]
  /\ IF major_steps > 0 THEN 2 * error[i] < major_steps ELSE error[i] = 0

StillToGo(i) == missing[i] = Sign(dir[i]) * (steps[i] - pulses[i])

\* The inductive invariant of StepperDrv_proofs.
StepInv == /\ TypeOK
           /\ active => \A i \in Axes : ErrorIsDeviation(i) /\ StillToGo(i)
           /\ PositionExact
=============================================================================
