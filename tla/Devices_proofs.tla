-------------------------- MODULE Devices_proofs ---------------------------
(***************************************************************************)
(* Proofs about the devices of the legacy framework, each on its bench of  *)
(* MCDevices: step pulses, the robot's state machine, an endstop pin, an   *)
(* endstop handle, an encoder, the limiters, the controller, the average   *)
(* and the stepper.  One inductive invariant per device; the benches are   *)
(* put together at the end.                                                *)
(***************************************************************************)
EXTENDS MCDevices, Arithmetic_proofs

-----------------------------------------------------------------------------
(* The step pulses *)

\* A multiple of M that lies within half of M is zero.
LEMMA NoMultiple ==
  ASSUME NEW M \in Nat \ {0}, NEW d \in Int, -M <= 2 * (M * d), 2 * (M * d) < M
  PROVE  d = 0
<1>1. CASE d >= 1
  <2>1. M * d = M + M * (d - 1)  BY <1>1
  <2>2. M * (d - 1) >= 0  BY <1>1
  <2> QED  BY <2>1, <2>2
<1>2. CASE d <= -1
  <2>1. M * d = M * (d + 1) - M  BY <1>2
  <2>2. M * (-(d + 1)) >= 0  BY <1>2
  <2>3. M * (d + 1) = -(M * (-(d + 1)))  OBVIOUS
  <2> QED  BY <2>1, <2>2, <2>3
<1> QED  BY <1>1, <1>2

\* The length of an axis fits the words of the driver.
LEMMA AbsRange ==
  ASSUME NEW n \in -MaxSteps .. MaxSteps
  PROVE  Abs(n) \in 0 .. MaxSteps
BY StepperAssumption DEF Abs

\* Before the first segment no axis owes a step.
LEMMA Initially == Init => StepInv
<1> SUFFICES ASSUME Init PROVE StepInv
  OBVIOUS
<1>1. TypeOK
  <2>1. active \in BOOLEAN /\ dir \in [Axes -> BOOLEAN]
    BY DEF Init
  <2>2. /\ step_count \in 0 .. major_steps /\ major_steps \in 0 .. MaxSteps
        /\ steps \in [Axes -> 0 .. major_steps]
        /\ error \in [Axes -> Int] /\ pulses \in [Axes -> Nat] /\ missing \in [Axes -> Int]
    BY StepperAssumption DEF Init, Zero
  <2> QED  BY <2>1, <2>2 DEF TypeOK
<1>2. ~active /\ PositionExact
  BY DEF Init, PositionExact
<1> QED  BY <1>1, <1>2 DEF StepInv

\* A new segment starts from an exact position and with the errors cleared.
LEMMA LoadKeeps ==
  ASSUME StepInv, NEW s \in Inputs, NEW mask \in SUBSET Axes, Load(s, mask)
  PROVE  StepInv'
<1> USE StepperAssumption
<1>1. \A i \in Axes : steps'[i] \in 0 .. MaxSteps
  BY AbsRange DEF Load, Inputs
<1>2. PICK k \in Axes : major_steps' = steps'[k] /\ \A j \in Axes : steps'[j] <= steps'[k]
  BY DEF Load
<1>3. TypeOK'
  BY <1>1, <1>2 DEF StepInv, TypeOK, Load, Zero, Inputs
<1>4. ASSUME NEW i \in Axes
      PROVE  ErrorIsDeviation(i)'
  <2>1. pulses'[i] = 0 /\ error'[i] = 0 /\ step_count' = 0
    BY DEF Load, Zero
  <2>2. step_count' * steps'[i] = 0 /\ pulses'[i] * major_steps' = 0
    BY <2>1, <1>1, <1>2
  <2> QED  BY <2>1, <2>2, <1>1, <1>2 DEF ErrorIsDeviation
<1>5. ASSUME NEW i \in Axes
      PROVE  StillToGo(i)'
  <2>1. missing[i] = 0 /\ pulses'[i] = 0
    BY DEF StepInv, PositionExact, Load, Zero
  <2>2. CASE i \in mask
    <3>1. missing'[i] = s[i] /\ s[i] \in Int /\ steps'[i] = Abs(s[i])
      BY <2>1, <2>2 DEF Load, Inputs
    <3>2. CASE s[i] >= 0
      <4>1. dir'[i]  BY <2>2, <3>2 DEF Load
      <4> QED  BY <4>1, <3>1, <3>2, <2>1 DEF StillToGo, Sign, Abs
    <3>3. CASE s[i] < 0
      <4>1. ~(i \in mask => s[i] >= 0)  BY <2>2, <3>1, <3>3
      <4>2. dir'[i] = (i \in mask => s[i] >= 0)  BY DEF Load
      <4>3. ~dir'[i]  BY <4>1, <4>2
      <4> QED  BY <4>3, <3>1, <3>3, <2>1 DEF StillToGo, Sign, Abs
    <3> QED  BY <3>1, <3>2, <3>3
  <2>3. CASE i \notin mask
    BY <2>1, <2>3 DEF StillToGo, Load, Sign
  <2> QED  BY <2>2, <2>3
<1> QED  BY <1>3, <1>4, <1>5 DEF StepInv, PositionExact, Load

\* The last tick: all steps counted, the error is a multiple of the length and
\* within half of it, so it is zero and the axis has arrived.
LEMMA FinishKeeps ==
  ASSUME StepInv, Finish
  PROVE  StepInv'
<1>1. active /\ step_count = major_steps /\ TypeOK
  BY DEF Finish, LastTick, StepInv, TypeOK
<1>2. ASSUME NEW i \in Axes
      PROVE  missing[i] = 0
  <2> DEFINE togo == steps[i] - pulses[i]
  <2>1. ErrorIsDeviation(i) /\ StillToGo(i)
    BY <1>1 DEF StepInv
  <2>2. steps[i] \in 0 .. major_steps /\ pulses[i] \in Nat /\ error[i] \in Int /\ major_steps \in Nat
        /\ step_count \in Nat
    BY <1>1 DEF TypeOK
  <2>3. togo = 0
    <3>1. CASE major_steps = 0
      BY <3>1, <2>1, <2>2, <1>1 DEF ErrorIsDeviation
    <3>2. CASE major_steps > 0
      <4>1. error[i] = major_steps * togo
        BY <2>1, <2>2, <1>1 DEF ErrorIsDeviation
      <4>2. -major_steps <= 2 * error[i] /\ 2 * error[i] < major_steps
        BY <2>1, <3>2 DEF ErrorIsDeviation
      <4> QED  BY <4>1, <4>2, <3>2, <2>2, NoMultiple
    <3> QED  BY <3>1, <3>2, <2>2
  <2>4. missing[i] = Sign(dir[i]) * 0
    BY <2>1, <2>3 DEF StillToGo
  <2> QED  BY <2>4 DEF Sign
<1>3. missing = Zero
  BY <1>1, <1>2 DEF TypeOK, Zero
<1> QED  BY <1>1, <1>3 DEF Finish, StepInv, TypeOK, PositionExact, segment

\* A pulse takes the whole length off the error exactly when the half is reached.
LEMMA AdvanceKeeps ==
  ASSUME StepInv, Advance
  PROVE  StepInv'
<1>1. active /\ active' /\ TypeOK /\ step_count < major_steps /\ major_steps > 0
  BY DEF Advance, LastTick, StepInv, TypeOK
<1>2. TypeOK'
  BY <1>1 DEF Advance, TypeOK, segment, Sign
<1>3. ASSUME NEW i \in Axes
      PROVE  ErrorIsDeviation(i)' /\ StillToGo(i)'
  <2> DEFINE M == major_steps
             n == step_count
             p == pulses[i]
             e == error[i]
             st == steps[i]
  <2>1. ErrorIsDeviation(i) /\ StillToGo(i)
    BY <1>1 DEF StepInv
  <2>2. st \in 0 .. M /\ p \in Nat /\ e \in Int /\ M \in Nat /\ n \in Nat /\ missing[i] \in Int
        /\ dir[i] \in BOOLEAN
    BY <1>1 DEF TypeOK
  <2>3. major_steps' = M /\ steps'[i] = st /\ dir'[i] = dir[i] /\ step_count' = n + 1
    BY DEF Advance, segment
  <2>4. (n + 1) * st = n * st + st /\ (p + 1) * M = p * M + M
    BY <2>2
  <2>5. e = n * st - p * M /\ p <= n /\ -M <= 2 * e /\ 2 * e < M
    BY <2>1, <1>1 DEF ErrorIsDeviation
  <2>6. CASE StepDue(i)
    <3>1. error'[i] = e + st - M /\ pulses'[i] = p + 1
          /\ missing'[i] = missing[i] - Sign(dir[i])
      BY <2>6, <1>1 DEF Advance, TypeOK
    <3>2. error'[i] = (n + 1) * st - (p + 1) * M
      <4> HIDE DEF M, n, p, e, st
      <4> QED  BY <3>1, <2>2, <2>4, <2>5
    <3>3. -M <= 2 * (e + st - M) /\ 2 * (e + st - M) < M
      <4>1. 2 * (e + st) >= M  BY <2>6 DEF StepDue
      <4> HIDE DEF M, n, p, e, st
      <4> QED  BY <4>1, <2>2, <2>5, <1>1
    <3>4. ErrorIsDeviation(i)'
      BY <3>1, <3>2, <3>3, <2>2, <2>3, <2>5, <1>1 DEF ErrorIsDeviation
    <3>5. StillToGo(i)'
      <4>1. missing[i] = Sign(dir[i]) * (st - p)  BY <2>1 DEF StillToGo
      <4>2. missing'[i] = Sign(dir[i]) * (st - (p + 1))
        BY <4>1, <3>1, <2>2 DEF Sign
      <4> QED  BY <4>2, <3>1, <2>3 DEF StillToGo
    <3> QED  BY <3>4, <3>5
  <2>7. CASE ~StepDue(i)
    <3>1. error'[i] = e + st /\ pulses'[i] = p /\ missing'[i] = missing[i]
      BY <2>7, <2>2, <1>1 DEF Advance, TypeOK
    <3>2. error'[i] = (n + 1) * st - p * M
      <4> HIDE DEF M, n, p, e, st
      <4> QED  BY <3>1, <2>2, <2>4, <2>5
    <3>3. 2 * (e + st) < M
      BY <2>7, <2>2 DEF StepDue
    <3>4. ErrorIsDeviation(i)'
      BY <3>1, <3>2, <3>3, <2>2, <2>3, <2>5, <1>1 DEF ErrorIsDeviation
    <3>5. StillToGo(i)'
      BY <3>1, <2>1, <2>3 DEF StillToGo
    <3> QED  BY <3>4, <3>5
  <2> QED  BY <2>6, <2>7
<1> QED  BY <1>1, <1>2, <1>3 DEF StepInv, PositionExact

\* The invariant of the pulses speaks of their variables only.
LEMMA StutterKeeps ==
  ASSUME StepInv, UNCHANGED vars
  PROVE  StepInv'
BY DEF StepInv, TypeOK, ErrorIsDeviation, StillToGo, PositionExact, vars, segment

\* StepInv is an invariant of every execution.
THEOREM StepInvariance == Spec => []StepInv
<1>1. Init => StepInv
  BY Initially
<1>2. StepInv /\ [Next]_vars => StepInv'
  BY LoadKeeps, FinishKeeps, AdvanceKeeps, StutterKeeps DEF Next, Tick
<1> QED  BY <1>1, <1>2, PTL DEF Spec

\* Whatever segments are commanded, between two of them every axis is exactly
\* at the sum of its commanded steps.
THEOREM Arrives == Spec => []PositionExact
<1>1. StepInv => PositionExact
  BY DEF StepInv
<1> QED  BY <1>1, StepInvariance, PTL

\* No axis is ever more than half a step from the line, and no sum overflows.
THEOREM Straight == Spec => []StaysOnLine
<1>1. StepInv => StaysOnLine
  <2> SUFFICES ASSUME StepInv, active, NEW i \in Axes
               PROVE  /\ 2 * Abs(step_count * steps[i] - pulses[i] * major_steps) <= major_steps
                      /\ 2 * (error[i] + steps[i]) <= IntMax
    BY DEF StaysOnLine
  <2>1. ErrorIsDeviation(i) /\ TypeOK
    BY DEF StepInv
  <2>2. steps[i] \in 0 .. major_steps /\ error[i] \in Int /\ major_steps \in 0 .. MaxSteps
    BY <2>1 DEF TypeOK
  <2>3. -major_steps <= 2 * error[i] /\ 2 * error[i] <= major_steps
    BY <2>1, <2>2 DEF ErrorIsDeviation
  <2>4. 2 * Abs(error[i]) <= major_steps
    BY <2>2, <2>3 DEF Abs
  <2>5. 2 * (error[i] + steps[i]) <= IntMax
    BY <2>2, <2>3, StepperAssumption
  <2> QED  BY <2>1, <2>4, <2>5 DEF ErrorIsDeviation
<1> QED  BY <1>1, StepInvariance, PTL

\* Both together.
THEOREM Exact == Spec => []PulsesExact
<1>1. PositionExact /\ StaysOnLine => PulsesExact
  BY DEF PulsesExact
<1> QED  BY <1>1, Arrives, Straight, PTL

-----------------------------------------------------------------------------
(* The robot's state machine *)

\* Where the thread's call is: what it will store, or has stored, agrees with
\* the state and the fault as long as no fault has interrupted it.
RobotCallFits ==
  CASE call.at = "idle"   -> heard = state /\ (faulted <=> state = "FAULT")
    [] call.at = "store"  -> (faulted <=> state = "FAULT") /\ (state = "FAULT" => call.next = "FAULT")
    [] call.at = "clear"  -> call.next = "IDLE"
    [] call.at = "report" -> call.next = state /\ (faulted <=> state = "FAULT")

\* The inductive invariant of the state machine.
RobotInv ==
  /\ faulted \in BOOLEAN
  /\ call \in [at : {"idle", "store", "clear", "report"}, next : Robot!States]
  /\ ~raced => RobotCallFits

\* robot_sm_init leaves no fault and nothing to report.
LEMMA RobotStarts == Robot!Init => RobotInv
<1> SUFFICES ASSUME Robot!Init
             PROVE  RobotInv
  OBVIOUS
<1>1. /\ faulted = FALSE /\ state = "IDLE" /\ heard = "IDLE"
      /\ call = [at |-> "idle", next |-> "IDLE"]
  BY DEF Robot!Init, Robot!Idle
<1> QED
  BY <1>1 DEF Robot!States, RobotInv, RobotCallFits

\* A fault is left by no command of the table.
LEMMA FaultRows ==
  ASSUME NEW row \in Robot!Table
  PROVE  /\ row[3] \in Robot!States
         /\ row[1] = "FAULT" => row[3] = "FAULT"
BY DEF Robot!Table, Robot!States

\* Every step of a command, of the clear and of the fault interrupt keeps it.
LEMMA RobotKept ==
  ASSUME RobotInv, Robot!Next
  PROVE  RobotInv'
<1> USE DEF RobotInv, RobotCallFits
<1>1. ASSUME NEW cmd \in Robot!Commands, Robot!LookUp(cmd)
      PROVE  RobotInv'
  <2>1. PICK row \in Robot!Table :
          /\ row[1] = state
          /\ call' = [at |-> "store", next |-> row[3]]
          /\ faulted' = (state = "FAULT") /\ state' = state
    BY <1>1 DEF Robot!LookUp
  <2>2. row[3] \in Robot!States /\ (state = "FAULT" => row[3] = "FAULT")
    BY <2>1, FaultRows
  <2> QED
    BY <2>1, <2>2
<1>2. CASE Robot!Store
  BY <1>2 DEF Robot!Store
<1>3. CASE Robot!StartClear
  BY <1>3 DEF Robot!StartClear, Robot!States
<1>4. CASE Robot!ClearStore
  BY <1>4 DEF Robot!ClearStore
<1>5. CASE Robot!Report
  BY <1>5 DEF Robot!Report, Robot!Idle, Robot!States
<1>6. ASSUME NEW r \in Reasons, Robot!SetFaultReason(r)
      PROVE  RobotInv'
  BY <1>6 DEF Robot!SetFaultReason
<1>7. ASSUME NEW r \in Reasons, Robot!FaultInterrupt(r)
      PROVE  RobotInv'
  BY <1>7 DEF Robot!FaultInterrupt
<1> QED
  BY <1>1, <1>2, <1>3, <1>4, <1>5, <1>6, <1>7 DEF Robot!Next

-----------------------------------------------------------------------------
(* The endstop pin *)

\* The inductive invariant of the debounce: only a registered pin has an
\* interrupt pending, and its last callback is not after its last window began.
PinInv ==
  /\ clock \in Nat /\ last_trigger_us \in Nat
  /\ told \in Nat \cup {-1} /\ gap \in Nat \cup {-1} /\ edge \in Nat \cup {-1}
  /\ pending => in_use
  /\ in_use /\ told # -1 => told <= last_trigger_us
  /\ Pin!DebounceSound

\* No pin is registered and no window has begun.
LEMMA PinStarts == Pin!Init => PinInv
BY DevicesAssumption DEF Pin!Init, Pin!NoneYet, Pin!DebounceSound, PinInv

\* Edges, the two outcomes of the interrupt and both registrations keep it.
LEMMA PinKept ==
  ASSUME PinInv, Pin!Next
  PROVE  PinInv'
<1> USE DevicesAssumption DEF PinInv, Pin!DebounceSound, Pin!NoneYet
<1>1. CASE Pin!Register
  BY <1>1 DEF Pin!Register
<1>2. CASE Pin!Unregister
  BY <1>2 DEF Pin!Unregister
<1>3. CASE Pin!IsrFilters
  BY <1>3 DEF Pin!IsrFilters, Pin!Bounces
<1>4. CASE Pin!IsrAccepts
  BY <1>4 DEF Pin!IsrAccepts, Pin!Bounces, Pin!Tells
<1>5. CASE Pin!Edge
  BY <1>5 DEF Pin!Edge
<1>6. CASE Pin!Elapses
  BY <1>6 DEF Pin!Elapses
<1> QED
  BY <1>1, <1>2, <1>3, <1>4, <1>5, <1>6 DEF Pin!Next

-----------------------------------------------------------------------------
(* The endstop handle *)

\* How far the two writes of a callback are: the argument is that of the
\* callback, or the callback is cleared, or the interrupt is not there yet.
LimitInv ==
  /\ at \in {"idle", "set arg", "set isr", "clear arg", "put"}
  /\ at = "set arg" => cb = new
  /\ at = "set isr" => cb = new /\ cb_arg = new
  /\ at \in {"clear arg", "put"} => cb = Null
  /\ ~replaced =>
       /\ last[1] = last[2]
       /\ at = "set arg" => ~isr
       /\ isr => cb = cb_arg \/ cb = Null

\* No callback is set and no interrupt is enabled.
LEMMA LimitStarts == Limit!Init => LimitInv
BY DEF Limit!Init, LimitInv

\* Each write of set_callback, each of put, and the interrupt keep it.
LEMMA LimitKept ==
  ASSUME LimitInv, Limit!Next
  PROVE  LimitInv'
<1> USE DEF LimitInv
<1>1. CASE Limit!Get
  BY <1>1 DEF Limit!Get
<1>2. CASE Limit!SetArg
  BY <1>2 DEF Limit!SetArg
<1>3. CASE Limit!SetIsr
  BY <1>3 DEF Limit!SetIsr
<1>4. CASE Limit!ClearCallback
  BY <1>4 DEF Limit!ClearCallback
<1>5. CASE Limit!ClearRest
  BY <1>5 DEF Limit!ClearRest
<1>6. CASE Limit!Isr
  BY <1>6 DEF Limit!Isr
<1>7. ASSUME NEW c \in Callbacks, Limit!SetCallback(c)
      PROVE  LimitInv'
  BY <1>7 DEF Limit!SetCallback
<1> QED
  BY <1>1, <1>2, <1>3, <1>4, <1>5, <1>6, <1>7 DEF Limit!Next

-----------------------------------------------------------------------------
(* The encoder *)

\* The inductive invariant of the slot: the count a velocity has read lies
\* between what it reports and the count of later edges.
ShaftInv ==
  /\ at \in {"idle", "reset", "velocity"}
  /\ count \in Int /\ last_count \in Int /\ cur \in Int /\ moved \in Int /\ reported \in Int
  /\ owner # Nobody => owner \in attached
  /\ at # "idle" => owner # Nobody
  /\ Shaft!TicksReported
  /\ owner # Nobody /\ attached = {owner} /\ at = "reset" => reported = 0

\* No pin has the slot and nothing is counted.
LEMMA ShaftStarts == Shaft!Init => ShaftInv
BY DEF Shaft!Init, ShaftInv, Shaft!TicksReported

\* Edges between the two accesses of a reset or of a velocity keep it.
LEMMA ShaftKept ==
  ASSUME ShaftInv, Shaft!Next
  PROVE  ShaftInv'
<1> USE DevicesAssumption DEF ShaftInv, Shaft!TicksReported
<1>1. ASSUME NEW p \in Pins, Shaft!Get(p)
      PROVE  ShaftInv'
  BY <1>1 DEF Shaft!Get
<1>2. ASSUME NEW p \in Pins, NEW d \in {-1, 1}, Shaft!Isr(p, d)
      PROVE  ShaftInv'
  BY <1>2 DEF Shaft!Isr
<1>3. CASE Shaft!Put
  BY <1>3 DEF Shaft!Put
<1>4. CASE Shaft!Reset
  BY <1>4 DEF Shaft!Reset
<1>5. CASE Shaft!ResetLast
  BY <1>5 DEF Shaft!ResetLast
<1>6. CASE Shaft!Velocity
  BY <1>6 DEF Shaft!Velocity
<1>7. CASE Shaft!VelocityEnds
  BY <1>7 DEF Shaft!VelocityEnds, Shaft!Delta
<1>8. CASE Shaft!VelocityTooSoon
  BY <1>8 DEF Shaft!VelocityTooSoon
<1> QED
  BY <1>1, <1>2, <1>3, <1>4, <1>5, <1>6, <1>7, <1>8 DEF Shaft!Next

-----------------------------------------------------------------------------
(* The limiters *)

\* A clamped value lies within the limit, and is the value itself when that does.
LEMMA LoopClamp ==
  ASSUME NEW v \in Int, NEW most \in Nat
  PROVE  /\ Loop!Clamp(v, most) \in -most .. most
         /\ Loop!Clamp(v, most) = IF v < -most THEN -most ELSE IF v > most THEN most ELSE v
BY DEF Loop!Clamp

\* The lesser and the greater of two.
LEMMA MinOfTwo ==
  ASSUME NEW a \in Int, NEW b \in Int
  PROVE  /\ Loop!Min({a, b}) = IF a <= b THEN a ELSE b
         /\ Loop!Max({a, b}) = IF a <= b THEN b ELSE a
<1>1. Loop!Min({a, b}) = IF a <= b THEN a ELSE b
  BY DEF Loop!Min
<1>2. Loop!Max({a, b}) = IF a <= b THEN b ELSE a
  BY DEF Loop!Max
<1> QED
  BY <1>1, <1>2

\* Twice the way of n calls that brake from speed v, each by acc.
Way(v, acc, n) == n * (2 * v - acc * (n + 1))

\* Twice the way of a full brake, before it is halved and rounded down.
FullBrake == Way(MaxSpeed, MaxAccel, MaxSpeed \div MaxAccel)

\* No number of calls makes a longer way from full speed than those that leave
\* some speed.
LEMMA FullBrakeIsLongest ==
  ASSUME NEW n \in Nat
  PROVE  FullBrake \in Int /\ Way(MaxSpeed, MaxAccel, n) <= FullBrake
<1> DEFINE V == MaxSpeed
           A == MaxAccel
           m == V \div A
           r == V % A
           d == n - m
<1>1. V \in Nat /\ A \in Nat \ {0}
  BY DevicesAssumption
<1>2. m \in Nat /\ r \in 0 .. A - 1 /\ V = A * m + r
  BY <1>1
<1>3. FullBrake = Way(V, A, m)
  BY DEF FullBrake
<1> HIDE DEF m, r, V, A
<1>4. d \in Int /\ n = m + d
  BY <1>2
<1>5. 2 * V - A * (n + 1) = 2 * r + A * (m - d - 1)
  <2>1. A * (n + 1) = A * m + A * (d + 1)
    BY <1>1, <1>2, <1>4
  <2>2. A * (m - d - 1) = A * m - A * (d + 1)
    BY <1>1, <1>2, <1>4
  <2> QED
    BY <1>1, <1>2, <1>4, <2>1, <2>2
<1>6. 2 * V - A * (m + 1) = 2 * r + A * (m - 1)
  BY <1>1, <1>2
<1> DEFINE full == Way(V, A, m)
           way == Way(V, A, n)
<1>7. full = 2 * (m * r) + A * (m * (m - 1))
  BY <1>1, <1>2, <1>6 DEF Way
<1>8. way = 2 * (n * r) + A * (n * (m - d - 1))
  BY <1>1, <1>2, <1>4, <1>5 DEF Way
<1>9. n * (m - d - 1) = m * (m - 1) - d * (d + 1)
  BY <1>2, <1>4
<1>10. full - way = A * (d * (d + 1)) - 2 * (d * r)
  <2> DEFINE a1 == m * (m - 1)
             a2 == d * (d + 1)
  <2>1. A * (a1 - a2) = A * a1 - A * a2
    BY <1>1, <1>2, <1>4
  <2>2. n * r = m * r + d * r
    BY <1>2, <1>4
  <2> QED
    BY <1>1, <1>2, <1>4, <1>7, <1>8, <1>9, <2>1, <2>2
<1>11. A * (d * (d + 1)) - 2 * (d * r) = d * (A * (d + 1) - 2 * r)
  BY <1>1, <1>2, <1>4
<1>12. d * (A * (d + 1) - 2 * r) >= 0
  <2> DEFINE z == A * (d + 1) - 2 * r
  <2>1. z \in Int
    BY <1>1, <1>2, <1>4
  <2>2. CASE d >= 1
    <3>1. A * (d + 1) >= A * 2
      BY <1>1, <1>4, <2>2
    <3>2. z >= 0
      BY <1>1, <1>2, <1>4, <3>1
    <3> HIDE DEF z
    <3>3. d * z >= 0
      BY <1>4, <2>1, <2>2, <3>2
    <3> QED
      BY <3>3 DEF z
  <2>3. CASE d <= -1
    <3>1. A * (d + 1) <= 0
      BY <1>1, <1>4, <2>3
    <3>2. z <= 0
      BY <1>1, <1>2, <1>4, <3>1
    <3> HIDE DEF z
    <3>3. d * z >= 0
      BY <1>4, <2>1, <2>3, <3>2
    <3> QED
      BY <3>3 DEF z
  <2>4. CASE d = 0
    <3> HIDE DEF z
    <3>1. d * z >= 0
      BY <2>1, <2>4
    <3> QED
      BY <3>1 DEF z
  <2> QED
    BY <1>4, <2>2, <2>3, <2>4
<1>13. full \in Int /\ way \in Int
  BY <1>1, <1>2 DEF Way
<1> HIDE DEF full, way
<1>14. way <= full
  BY <1>10, <1>11, <1>12, <1>13
<1> QED
  BY <1>3, <1>13, <1>14 DEF full, way, V, A

\* One call more: the way that is left after the first of n + 1 calls.
LEMMA OneCallLess ==
  ASSUME NEW x \in Int, NEW v \in Int, NEW acc \in Int, NEW n \in Int
  PROVE  2 * (x + (v - acc)) + Way(v - acc, acc, n) = 2 * x + Way(v, acc, n + 1)
<1>1. 2 * (v - acc) - acc * (n + 1) = 2 * v - acc * (n + 3)
  OBVIOUS
<1>2. (n + 1) * (2 * v - acc * (n + 2)) = n * (2 * v - acc * (n + 2)) + 2 * v - acc * (n + 2)
  OBVIOUS
<1>3. n * (2 * v - acc * (n + 2)) = n * (2 * v - acc * (n + 3)) + n * acc
  <2>1. 2 * v - acc * (n + 2) = (2 * v - acc * (n + 3)) + acc
    OBVIOUS
  <2> QED
    BY <2>1
<1>4. acc * (n + 2) = n * acc + 2 * acc
  OBVIOUS
<1> QED
  BY <1>1, <1>2, <1>3, <1>4 DEF Way

\* The inductive invariant on one side, at x beyond the farthest target with
\* speed v: however many calls of the brake follow, they stay in the full brake.
Brakes(x, v) == \A n \in Nat : 2 * x + Way(v, MaxAccel, n) <= FullBrake

\* A call towards a target that is not beyond the farthest keeps it.
LEMMA BrakesKept ==
  ASSUME NEW x \in Int, NEW v \in -MaxSpeed .. MaxSpeed, NEW g \in Int, NEW w \in Int,
         Brakes(x, v), g <= -x,
         w = v + Loop!Clamp(Loop!Clamp(g, MaxSpeed) - v, MaxAccel)
  PROVE  w \in -MaxSpeed .. MaxSpeed /\ Brakes(x + w, w)
<1> DEFINE V == MaxSpeed
           A == MaxAccel
           want == Loop!Clamp(g, V)
<1>1. V \in Nat /\ A \in Nat \ {0} /\ v \in Int
  BY DevicesAssumption
<1>2. want \in -V .. V /\ (want > g => want = -V) /\ (g >= -V => want <= g)
  BY <1>1, LoopClamp
<1> HIDE DEF want
<1>3. w = IF want - v < -A THEN v - A ELSE IF want - v > A THEN v + A ELSE want
  <2>1. want - v \in Int /\ A \in Nat
    BY <1>1, <1>2
  <2>2. Loop!Clamp(want - v, A) = IF want - v < -A THEN -A ELSE IF want - v > A THEN A ELSE want - v
    BY ONLY <2>1, LoopClamp
  <2>3. w = v + Loop!Clamp(want - v, A)
    BY DEF want
  <2> QED
    BY <1>1, <1>2, <2>2, <2>3
<1>4. w \in -V .. V
  BY <1>1, <1>2, <1>3
<1>5. ASSUME NEW n \in Nat
      PROVE  2 * (x + w) + Way(w, A, n) <= FullBrake
  <2>0. FullBrake \in Int /\ Way(V, A, n) <= FullBrake /\ Way(w, A, n) \in Int /\ Way(V, A, n) \in Int
    <3>1. FullBrake \in Int /\ Way(V, A, n) <= FullBrake
      BY FullBrakeIsLongest
    <3>2. Way(w, A, n) \in Int /\ Way(V, A, n) \in Int
      BY <1>1, <1>4 DEF Way
    <3> QED
      BY <3>1, <3>2
  <2>1. CASE x + w <= 0
    <3>1. n * (2 * w - A * (n + 1)) <= n * (2 * V - A * (n + 1))
      <4> DEFINE a1 == 2 * w - A * (n + 1)
                 a2 == 2 * V - A * (n + 1)
      <4>1. a1 \in Int /\ a2 \in Int /\ a1 <= a2
        BY <1>1, <1>4
      <4> HIDE DEF a1, a2
      <4>2. n * a1 <= n * a2
        BY <4>1
      <4> QED
        BY <4>2 DEF a1, a2
    <3>2. Way(w, A, n) <= Way(V, A, n)
      BY <3>1 DEF Way
    <3> QED
      BY <1>4, <2>0, <2>1, <3>2
  <2>2. CASE x + w > 0 /\ w = v - A
    <3>1. 2 * x + Way(v, A, n + 1) <= FullBrake
      BY DEF Brakes
    <3> QED
      BY <1>1, <2>2, <3>1, OneCallLess
  <2>3. CASE x + w > 0 /\ w # v - A
    <3>1. w = -V /\ x > V
      BY <1>1, <1>2, <1>3, <1>4, <2>3
    <3>2. 2 * x + Way(v, A, 0) <= FullBrake /\ Way(v, A, 0) = 0
      BY <1>1 DEF Brakes, Way
    <3>3. Way(w, A, n) <= 0
      <4>1. 2 * w - A * (n + 1) <= 0
        <5>1. A * (n + 1) >= 0
          BY <1>1
        <5> QED
          BY <1>1, <3>1, <5>1
      <4> DEFINE z == 2 * w - A * (n + 1)
      <4>2. z \in Int /\ z <= 0
        BY <1>1, <4>1
      <4> HIDE DEF z
      <4>3. n * z <= 0
        BY <4>2
      <4> QED
        BY <4>3 DEF Way, z
    <3> QED
      BY <1>1, <1>4, <2>0, <3>1, <3>2, <3>3
  <2> QED
    BY <1>4, <2>1, <2>2, <2>3
<1> QED
  BY <1>4, <1>5 DEF Brakes

\* The inductive invariant of the limiters.
LimitersInv ==
  /\ velocity \in -MaxSpeed .. MaxSpeed /\ place \in Int /\ prev_output \in lo .. hi
  /\ lo \in Int /\ hi \in Int
  /\ Brakes(place - hi, velocity)
  /\ Brakes(lo - place, -velocity)

\* In the invariant both sides are within the full brake.
LEMMA LimitersSound == LimitersInv => Loop!OvershootBounded
<1> SUFFICES ASSUME LimitersInv
             PROVE  Loop!OvershootBounded
  OBVIOUS
<1>1. Loop!Braking = FullBrake \div 2 /\ FullBrake \in Int
  BY FullBrakeIsLongest DEF Loop!Braking, FullBrake, Way
<1>2. MaxSpeed \in Nat /\ MaxAccel \in Nat \ {0}
  BY DevicesAssumption
<1>3. 2 * (place - hi) + Way(velocity, MaxAccel, 0) <= FullBrake
  BY DEF LimitersInv, Brakes
<1>4. 2 * (lo - place) + Way(-velocity, MaxAccel, 0) <= FullBrake
  BY DEF LimitersInv, Brakes
<1>5. Way(velocity, MaxAccel, 0) = 0 /\ Way(-velocity, MaxAccel, 0) = 0
  BY <1>2 DEF Way, LimitersInv
<1>6. place - hi <= FullBrake \div 2 /\ lo - place <= FullBrake \div 2
  BY <1>1, <1>3, <1>4, <1>5 DEF LimitersInv
<1>7. FullBrake \div 2 \in Int
  BY <1>1
<1> QED
  BY <1>1, <1>6, <1>7 DEF LimitersInv, Loop!OvershootBounded

\* At rest, at the place asked for, every brake is within the full one.
LEMMA LimitersStart == Loop!Init => LimitersInv
<1> SUFFICES ASSUME Loop!Init
             PROVE  LimitersInv
  OBVIOUS
<1>1. MaxSpeed \in Nat \ {0} /\ MaxAccel \in Nat \ {0}
  BY DevicesAssumption
<1>2. velocity = 0 /\ place = 0 /\ prev_output = 0 /\ lo = 0 /\ hi = 0
  BY DEF Loop!Init
<1>3. ASSUME NEW n \in Nat
      PROVE  2 * 0 + Way(0, MaxAccel, n) <= FullBrake
  <2>1. FullBrake \in Int /\ Way(MaxSpeed, MaxAccel, 0) <= FullBrake /\ Way(MaxSpeed, MaxAccel, 0) = 0
    BY <1>1, FullBrakeIsLongest DEF Way
  <2>2. MaxAccel * (n + 1) >= 0
    BY <1>1
  <2> DEFINE z == 2 * 0 - MaxAccel * (n + 1)
  <2>3. z \in Int /\ z <= 0
    BY <1>1, <2>2
  <2> HIDE DEF z
  <2>4. n * z <= 0
    BY <2>3
  <2>5. Way(0, MaxAccel, n) <= 0
    BY <2>4 DEF Way, z
  <2>6. Way(0, MaxAccel, n) \in Int
    BY <1>1 DEF Way
  <2> QED
    BY <2>1, <2>5, <2>6
<1>4. Brakes(0, 0)
  BY <1>3 DEF Brakes
<1>5. place - hi = 0 /\ lo - place = 0 /\ -velocity = 0
  <2>1. \A z \in Int : z <= 0 /\ z >= 0 => -z <= 0 /\ -z >= 0 /\ z - z = 0
    OBVIOUS
  <2>2. velocity \in Int /\ velocity = 0 /\ place \in Int /\ place = 0 /\ hi = place /\ lo = place
    BY <1>2
  <2>3. velocity <= 0 /\ velocity >= 0 /\ place <= 0 /\ place >= 0
    BY <2>2
  <2>4. place - place = 0 /\ -velocity <= 0 /\ -velocity >= 0
    BY <2>1, <2>2, <2>3
  <2>5. velocity \in Int
    BY <2>2
  <2>6. -velocity = 0
    BY ONLY <2>4, <2>5
  <2> QED
    BY <2>2, <2>4, <2>6, Zenon
<1> QED
  BY <1>1, <1>2, <1>4, <1>5 DEF LimitersInv

\* A call with any target keeps both sides, the second by mirroring the first.
LEMMA LimitersKept ==
  ASSUME LimitersInv, Loop!LimitsNext
  PROVE  LimitersInv'
<1>1. PICK p \in Wanted : Loop!LimitersUpdate(p)
  BY DEF Loop!LimitsNext
<1> DEFINE far == IF hi <= p THEN p ELSE hi
           near == IF lo <= p THEN lo ELSE p
           d == velocity' - velocity
           togo == p - place
<1>2. p \in Int /\ MaxSpeed \in Nat \ {0} /\ MaxAccel \in Nat \ {0} /\ MaxRate \in Nat \ {0}
  BY DevicesAssumption
<1>3. /\ velocity \in -MaxSpeed .. MaxSpeed /\ place \in Int /\ prev_output \in lo .. hi
      /\ lo \in Int /\ hi \in Int
  BY DEF LimitersInv
<1>4. hi' = far /\ lo' = near
  BY <1>1, <1>2, <1>3, MinOfTwo DEF Loop!LimitersUpdate
<1>5. /\ velocity' = velocity + Loop!Clamp(Loop!Clamp(togo, MaxSpeed) - velocity, MaxAccel)
      /\ place' = place + velocity'
  BY <1>1 DEF Loop!LimitersUpdate, Loop!Desired
<1>6. prev_output' \in near .. far
  <2>1. prev_output' = prev_output + Loop!Clamp(p - prev_output, MaxRate)
    BY <1>1 DEF Loop!LimitersUpdate
  <2>2. p - prev_output \in Int /\ MaxRate \in Nat
    BY <1>2, <1>3
  <2>3. Loop!Clamp(p - prev_output, MaxRate)
          = IF p - prev_output < -MaxRate THEN -MaxRate
            ELSE IF p - prev_output > MaxRate THEN MaxRate ELSE p - prev_output
    BY ONLY <2>2, LoopClamp
  <2> QED
    BY <1>2, <1>3, <2>1, <2>3
<1>7. Brakes(place - far, velocity)
  <2>1. ASSUME NEW n \in Nat
        PROVE  2 * (place - far) + Way(velocity, MaxAccel, n) <= FullBrake
    <3>1. 2 * (place - hi) + Way(velocity, MaxAccel, n) <= FullBrake
      BY DEF LimitersInv, Brakes
    <3>2. Way(velocity, MaxAccel, n) \in Int /\ FullBrake \in Int
      BY <1>2, <1>3, FullBrakeIsLongest DEF Way
    <3> QED
      BY <1>2, <1>3, <3>1, <3>2
  <2> QED
    BY <2>1 DEF Brakes
<1>8. Brakes(near - place, -velocity)
  <2>1. ASSUME NEW n \in Nat
        PROVE  2 * (near - place) + Way(-velocity, MaxAccel, n) <= FullBrake
    <3>1. 2 * (lo - place) + Way(-velocity, MaxAccel, n) <= FullBrake
      BY DEF LimitersInv, Brakes
    <3>2. Way(-velocity, MaxAccel, n) \in Int /\ FullBrake \in Int
      BY <1>2, <1>3, FullBrakeIsLongest DEF Way
    <3> QED
      BY <1>2, <1>3, <3>1, <3>2
  <2> QED
    BY <2>1 DEF Brakes
<1>9. velocity' \in -MaxSpeed .. MaxSpeed /\ Brakes((place - far) + velocity', velocity')
  <2>1. /\ place - far \in Int /\ togo \in Int /\ togo <= -(place - far)
        /\ velocity' \in Int
    <3>1. togo \in Int
      BY <1>2, <1>3
    <3>2. Loop!Clamp(togo, MaxSpeed) - velocity \in Int
      BY <1>2, <1>3, <3>1, LoopClamp
    <3>3. Loop!Clamp(Loop!Clamp(togo, MaxSpeed) - velocity, MaxAccel) \in Int
      BY <1>2, <3>2, LoopClamp
    <3> QED
      BY <1>2, <1>3, <1>5, <3>1, <3>3
  <2> HIDE DEF far, togo
  <2> QED
    BY <1>3, <1>5, <1>7, <2>1, BrakesKept
<1>10. Brakes((near - place) + (-velocity'), -velocity')
  <2>1. /\ near - place \in Int /\ -togo \in Int /\ togo \in Int /\ -togo <= -(near - place)
        /\ -velocity \in -MaxSpeed .. MaxSpeed /\ velocity' \in Int
    BY <1>2, <1>3, <1>9
  <2>2. Loop!Clamp(-togo, MaxSpeed) = -Loop!Clamp(togo, MaxSpeed) /\ Loop!Clamp(togo, MaxSpeed) \in Int
    <3> HIDE DEF togo
    <3> QED
      BY <1>2, <2>1 DEF Loop!Clamp
  <2> DEFINE want == Loop!Clamp(togo, MaxSpeed)
             change == want - velocity
  <2>3. want \in Int /\ change \in Int /\ Loop!Clamp(-togo, MaxSpeed) - (-velocity) = -change
    BY <1>3, <2>2
  <2>4. Loop!Clamp(-change, MaxAccel) = -Loop!Clamp(change, MaxAccel)
        /\ Loop!Clamp(change, MaxAccel) \in Int
    <3> HIDE DEF change
    <3> QED
      BY <1>2, <2>3 DEF Loop!Clamp
  <2>5. -velocity' = (-velocity) + Loop!Clamp(Loop!Clamp(-togo, MaxSpeed) - (-velocity), MaxAccel)
    <3>1. velocity' = velocity + Loop!Clamp(change, MaxAccel)
      BY <1>5
    <3> HIDE DEF change
    <3> QED
      BY <1>3, <2>3, <2>4, <3>1
  <2> HIDE DEF near, togo, want, change
  <2>6. -velocity' \in Int
    BY <2>1
  <2> QED
    BY <1>8, <2>1, <2>5, <2>6, BrakesKept
<1>11. /\ (place - far) + velocity' = place' - far
       /\ (near - place) + (-velocity') = near - place'
  BY <1>2, <1>3, <1>5, <1>9
<1>12. place' \in Int /\ near \in Int /\ far \in Int
  BY <1>2, <1>3, <1>5, <1>9
<1> HIDE DEF far, near
<1> QED
  BY <1>4, <1>6, <1>9, <1>10, <1>11, <1>12 DEF LimitersInv

-----------------------------------------------------------------------------
(* The controller *)

\* The inductive invariant: the integral has left the limit it may have started
\* from by at least one for every push of the run, or has arrived at the other.
PidInv ==
  /\ integral \in -IntegralMax .. IntegralMax /\ ki \in Gains
  /\ run \in [sign : {-1, 0, 1}, calls : Nat]
  /\ run.sign = 0  => integral = 0 /\ run.calls = 0
  /\ run.sign = 1  => integral = IntegralMax \/ integral >= run.calls - IntegralMax
  /\ run.sign = -1 => integral = -IntegralMax \/ integral <= IntegralMax - run.calls

\* After 2 * IntegralMax pushes one way nothing is left of the other.
LEMMA PidSound == PidInv => Loop!NoWindup
BY DevicesAssumption DEF PidInv, Loop!NoWindup

\* The integral begins at zero with no run.
LEMMA PidStarts == Loop!Init => PidInv
BY DevicesAssumption DEF Loop!Init, Loop!Still, PidInv

\* An update that pushes moves the integral by at least one, or onto the limit.
LEMMA PidKept ==
  ASSUME PidInv, Loop!PidNext
  PROVE  PidInv'
<1>1. ASSUME NEW e \in Errors, Loop!PidUpdate(e)
      PROVE  PidInv'
  <2> DEFINE I == IntegralMax
             f == Loop!Push(e)
             more == IF run.calls + 1 <= 2 * I THEN run.calls + 1 ELSE 2 * I
  <2>1. /\ I \in Nat /\ e \in Int /\ ki \in Int /\ integral \in -I .. I
        /\ run.calls \in Nat /\ run.sign \in {-1, 0, 1}
    BY DevicesAssumption DEF PidInv
  <2>2. f \in Int
    BY <2>1, DevicesAssumption DEF Loop!Push
  <2>3. Loop!Min({run.calls + 1, 2 * I}) = more
    BY <2>1, MinOfTwo
  <2>4. integral + f \in Int
    BY <2>1, <2>2
  <2>5. integral' = IF integral + f < -I THEN -I ELSE IF integral + f > I THEN I ELSE integral + f
    <3>1. integral' = Loop!Clamp(integral + f, I)
      BY <1>1 DEF Loop!PidUpdate
    <3> HIDE DEF f
    <3> QED
      BY <2>1, <2>4, <3>1, LoopClamp
  <2>6. Loop!Sign(f) = IF f >= 1 THEN 1 ELSE IF f <= -1 THEN -1 ELSE 0
    BY <2>2 DEF Loop!Sign
  <2>7. run' = IF f = 0 THEN run
               ELSE [sign |-> Loop!Sign(f), calls |-> IF Loop!Sign(f) = run.sign THEN more ELSE 1]
    BY <1>1, <2>3 DEF Loop!PidUpdate
  <2>8. ki' = ki
    BY <1>1 DEF Loop!PidUpdate
  <2>9. more \in Nat /\ more <= run.calls + 1
    BY <2>1
  <2> HIDE DEF f, more
  <2>10. integral' \in -I .. I
    BY <2>1, <2>2, <2>5
  <2>11. CASE f = 0
    <3>1. integral' = integral /\ run' = run
      BY <2>1, <2>5, <2>7, <2>11
    <3> QED
      BY <2>8, <3>1 DEF PidInv
  <2>12. CASE f # 0
    <3>1. run' = [sign |-> Loop!Sign(f), calls |-> IF Loop!Sign(f) = run.sign THEN more ELSE 1]
      BY <2>7, <2>12
    <3>2. run' \in [sign : {-1, 0, 1}, calls : Nat] /\ run'.sign = Loop!Sign(f) /\ run'.sign # 0
      BY <2>2, <2>6, <2>9, <2>12, <3>1
    <3>3. run'.calls = IF run.sign = run'.sign THEN more ELSE 1
      BY <3>1
    <3>4. run'.sign = 1 => integral' = I \/ integral' >= run'.calls - I
      <4> SUFFICES ASSUME run'.sign = 1
                   PROVE  integral' = I \/ integral' >= run'.calls - I
        OBVIOUS
      <4>1. f >= 1
        BY <2>2, <2>6, <3>2
      <4>2. run'.calls = IF run.sign = 1 THEN more ELSE 1
        BY <3>3
      <4>3. run.sign = 1 => integral = I \/ integral >= run.calls - I
        BY DEF PidInv
      <4> QED
        BY <2>1, <2>2, <2>5, <2>9, <4>1, <4>2, <4>3
    <3>5. run'.sign = -1 => integral' = -I \/ integral' <= I - run'.calls
      <4> SUFFICES ASSUME run'.sign = -1
                   PROVE  integral' = -I \/ integral' <= I - run'.calls
        OBVIOUS
      <4>1. f <= -1
        BY <2>2, <2>6, <3>2
      <4>2. run'.calls = IF run.sign = -1 THEN more ELSE 1
        BY <3>3
      <4>3. run.sign = -1 => integral = -I \/ integral <= I - run.calls
        BY DEF PidInv
      <4> QED
        BY <2>1, <2>2, <2>5, <2>9, <4>1, <4>2, <4>3
    <3> QED
      BY <2>8, <2>10, <3>2, <3>4, <3>5 DEF PidInv
  <2> QED
    BY <2>11, <2>12
<1>2. ASSUME NEW k \in Gains, Loop!SetGains(k)
      PROVE  PidInv'
  BY <1>2 DEF Loop!SetGains, PidInv
<1>3. CASE Loop!PidReset
  BY <1>3, DevicesAssumption DEF Loop!PidReset, Loop!Still, PidInv
<1> QED
  BY <1>1, <1>2, <1>3 DEF Loop!PidNext

-----------------------------------------------------------------------------
(* The average *)

\* The places of the ring.
Places == 0 .. Window - 1

\* g is the sum of the newest inputs among f, as many as its argument says.
Sums(f, g) ==
  /\ g \in [0 .. Window -> Int]
  /\ g = [n \in 0 .. Window |-> IF n = 0 THEN 0 ELSE g[n - 1] + f[n - 1]]

\* There are such sums.
LEMMA SumsExist ==
  ASSUME NEW f \in [Places -> Int]
  PROVE  \E g : Sums(f, g)
<1> DEFINE W == Window
           To(n, g) == /\ g \in [0 .. n -> Int] /\ g[0] = 0
                       /\ \A k \in 1 .. n : g[k] = g[k - 1] + f[k - 1]
           Missing == {n \in 0 .. W : ~ \E g : To(n, g)}
<1>1. W \in Nat \ {0}
  BY DevicesAssumption
<1>2. Missing = {}
  <2> SUFFICES ASSUME Missing # {}
               PROVE  FALSE
    OBVIOUS
  <2>1. Missing \in SUBSET Nat
    BY <1>1
  <2>2. PICK m \in Missing : \A k \in Missing : m <= k
    <3> HIDE DEF Missing
    <3> QED
      BY <2>1, LeastNumber
  <2>3. m \in 0 .. W /\ ~ \E g : To(m, g)
    OBVIOUS
  <2>4. CASE m = 0
    <3> DEFINE g == [k \in 0 .. 0 |-> 0]
    <3>1. To(0, g)
      OBVIOUS
    <3> QED
      BY <2>3, <2>4, <3>1
  <2>5. CASE m > 0
    <3>1. m - 1 \in 0 .. W /\ ~ (m <= m - 1)
      BY <1>1, <2>3, <2>5
    <3>2. PICK g : To(m - 1, g)
      BY <2>2, <3>1
    <3> DEFINE h == [k \in 0 .. m |-> IF k = m THEN g[m - 1] + f[m - 1] ELSE g[k]]
    <3>3. g[m - 1] \in Int /\ f[m - 1] \in Int
      BY <1>1, <2>3, <2>5, <3>2 DEF Places
    <3>4. h \in [0 .. m -> Int]
      BY <2>3, <2>5, <3>2, <3>3
    <3>5. h[0] = 0
      BY <2>3, <2>5, <3>2
    <3>6. ASSUME NEW k \in 1 .. m
          PROVE  h[k] = h[k - 1] + f[k - 1]
      <4>1. CASE k = m
        BY <2>3, <2>5, <3>3, <4>1
      <4>2. CASE k # m
        <5>1. k \in 1 .. m - 1 /\ k - 1 \in 0 .. m - 1
          BY <2>3, <4>2
        <5>2. g[k] = g[k - 1] + f[k - 1]
          BY <3>2, <5>1
        <5>3. h[k] = g[k] /\ h[k - 1] = g[k - 1]
          BY <2>3, <5>1
        <5> QED
          BY <5>2, <5>3
      <4> QED
        BY <4>1, <4>2
    <3>7. To(m, h)
      BY <3>4, <3>5, <3>6
    <3> QED
      BY <2>3, <3>7
  <2> QED
    BY <2>3, <2>4, <2>5
<1>3. W \in 0 .. W /\ W \notin Missing
  BY <1>1, <1>2
<1>4. PICK g : To(W, g)
  BY <1>3
<1>5. ASSUME NEW n \in 0 .. W
      PROVE  g[n] = IF n = 0 THEN 0 ELSE g[n - 1] + f[n - 1]
  <2>1. n # 0 => n \in 1 .. W
    OBVIOUS
  <2> QED
    BY <1>4, <2>1
<1>6. g \in [0 .. W -> Int]
  BY <1>4
<1>7. g = [n \in 0 .. W |-> IF n = 0 THEN 0 ELSE g[n - 1] + f[n - 1]]
  BY <1>5, <1>6
<1> QED
  BY <1>6, <1>7 DEF Sums

\* And no others.
LEMMA SumsUnique ==
  ASSUME NEW f \in [Places -> Int], NEW g, Sums(f, g), NEW h,
         h = [n \in 0 .. Window |-> IF n = 0 THEN 0 ELSE h[n - 1] + f[n - 1]]
  PROVE  h = g
<1> DEFINE Differ == {n \in 0 .. Window : h[n] # g[n]}
<1>1. Window \in Nat
  BY DevicesAssumption
<1>2. \A n \in 0 .. Window :
        /\ g[n] = IF n = 0 THEN 0 ELSE g[n - 1] + f[n - 1]
        /\ h[n] = IF n = 0 THEN 0 ELSE h[n - 1] + f[n - 1]
  BY DEF Sums
<1>3. Differ = {}
  <2> SUFFICES ASSUME Differ # {}
               PROVE  FALSE
    OBVIOUS
  <2>1. Differ \in SUBSET Nat
    BY <1>1
  <2>2. PICK m \in Differ : \A k \in Differ : m <= k
    <3> HIDE DEF Differ
    <3> QED
      BY <2>1, LeastNumber
  <2>3. m \in 0 .. Window /\ h[m] # g[m]
    OBVIOUS
  <2>4. m # 0
    BY <1>2, <2>3
  <2>5. m - 1 \in 0 .. Window /\ ~ (m <= m - 1)
    BY <1>1, <2>3, <2>4
  <2>6. h[m - 1] = g[m - 1]
    BY <2>2, <2>5
  <2> QED
    BY <1>2, <2>3, <2>4, <2>6
<1>4. \A n \in 0 .. Window : h[n] = g[n]
  BY <1>3
<1>5. DOMAIN h = 0 .. Window /\ g \in [0 .. Window -> Int]
  BY DEF Sums
<1>6. h = [n \in 0 .. Window |-> h[n]] /\ g = [n \in 0 .. Window |-> g[n]]
  <2>1. g = [n \in 0 .. Window |-> g[n]]
    BY <1>5
  <2>2. h = [n \in 0 .. Window |-> h[n]]
    BY <1>2
  <2> QED
    BY <2>1, <2>2
<1> QED
  BY <1>4, <1>6

\* What Total is.
LEMMA TotalSums == fed \in [Places -> Int] => Sums(fed, Loop!Total)
<1> SUFFICES ASSUME fed \in [Places -> Int]
             PROVE  Sums(fed, Loop!Total)
  OBVIOUS
<1> DEFINE IsTotal(g) == g = [n \in 0 .. Window |-> IF n = 0 THEN 0 ELSE g[n - 1] + fed[n - 1]]
<1>1. PICK g : Sums(fed, g)
  BY SumsExist
<1>2. IsTotal(g)
  BY <1>1 DEF Sums
<1>3. Loop!Total = CHOOSE h : IsTotal(h)
  BY DEF Loop!Total
<1>4. IsTotal(Loop!Total)
  <2> HIDE DEF IsTotal
  <2> QED
    BY <1>2, <1>3
<1> DEFINE h == Loop!Total
<1>5. h = g
  <2>1. h = [n \in 0 .. Window |-> IF n = 0 THEN 0 ELSE h[n - 1] + fed[n - 1]]
    BY <1>4
  <2> HIDE DEF h
  <2> QED
    BY <1>1, <2>1, SumsUnique
<1> QED
  BY <1>1, <1>5

\* A new input in front, the others one further: the sum gains the one and loses
\* the last of the others.
LEMMA ShiftedSum ==
  ASSUME NEW f \in [Places -> Int], NEW x \in Int, NEW g, NEW h,
         Sums(f, g), Sums([i \in Places |-> IF i = 0 THEN x ELSE f[i - 1]], h)
  PROVE  h[Window] = (g[Window] - f[Window - 1]) + x
<1> DEFINE e == [i \in Places |-> IF i = 0 THEN x ELSE f[i - 1]]
           Differ == {n \in Places : h[n + 1] # g[n] + x}
<1>1. Window \in Nat \ {0}
  BY DevicesAssumption
<1>2. \A n \in 0 .. Window :
        /\ g[n] = IF n = 0 THEN 0 ELSE g[n - 1] + f[n - 1]
        /\ h[n] = IF n = 0 THEN 0 ELSE h[n - 1] + e[n - 1]
        /\ g[n] \in Int /\ h[n] \in Int
  BY DEF Sums
<1>3. Differ = {}
  <2> SUFFICES ASSUME Differ # {}
               PROVE  FALSE
    OBVIOUS
  <2>1. Differ \in SUBSET Nat
    BY <1>1 DEF Places
  <2>2. PICK m \in Differ : \A k \in Differ : m <= k
    <3> HIDE DEF Differ
    <3> QED
      BY <2>1, LeastNumber
  <2>3. m \in Places /\ h[m + 1] # g[m] + x
    OBVIOUS
  <2>4. m + 1 \in 0 .. Window /\ m + 1 # 0 /\ (m + 1) - 1 = m /\ m \in 0 .. Window
    BY <1>1, <2>3 DEF Places
  <2>5. h[m + 1] = h[m] + e[m]
    BY <1>2, <2>4
  <2>6. CASE m = 0
    <3>1. h[m] = 0 /\ g[m] = 0 /\ e[m] = x
      BY <1>2, <2>3, <2>4, <2>6
    <3> QED
      BY <2>3, <2>5, <3>1
  <2>7. CASE m # 0
    <3>1. m - 1 \in Places /\ ~ (m <= m - 1) /\ (m - 1) + 1 = m
      BY <1>1, <2>3, <2>7 DEF Places
    <3>2. h[m] = g[m - 1] + x
      BY <2>2, <3>1
    <3>3. g[m] = g[m - 1] + f[m - 1] /\ e[m] = f[m - 1]
      BY <1>2, <2>3, <2>4, <2>7
    <3>4. g[m - 1] \in Int /\ f[m - 1] \in Int
      <4>1. m - 1 \in 0 .. Window
        BY <1>1, <3>1 DEF Places
      <4> QED
        BY <1>2, <3>1, <4>1
    <3> QED
      BY <2>3, <2>5, <3>2, <3>3, <3>4
  <2> QED
    BY <2>6, <2>7
<1>4. Window - 1 \in Places /\ (Window - 1) + 1 = Window /\ Window \in 0 .. Window /\ Window # 0
      /\ Window - 1 \in 0 .. Window
  BY <1>1 DEF Places
<1>5. h[Window] = g[Window - 1] + x
  BY <1>3, <1>4
<1>6. g[Window] = g[Window - 1] + f[Window - 1] /\ g[Window - 1] \in Int /\ f[Window - 1] \in Int
  BY <1>2, <1>4
<1> QED
  BY <1>5, <1>6

\* Where the ring's place for the i-th newest input is, once a new one is in.
LEMMA RingShift ==
  ASSUME NEW h \in Places, NEW i \in Places
  PROVE  /\ (((h + 1) % Window) - 1 - i) % Window = (h - i) % Window
         /\ (h - i) % Window \in Places
         /\ i = 0 => (h - i) % Window = h
         /\ i # 0 => (h - i) % Window # h
<1> DEFINE w == Window
           z == h - i
<1>1. w \in Nat \ {0} /\ h \in 0 .. w - 1 /\ i \in 0 .. w - 1
  BY DevicesAssumption DEF Places
<1> HIDE DEF w
<1>2. (((h + 1) % w) + (-1 - i)) % w = ((h + 1) + (-1 - i)) % w
  <2>1. h + 1 \in Int /\ -1 - i \in Int
    BY <1>1
  <2> QED
    BY <1>1, <2>1, RemainderOfSum
<1>3. (h + 1) % w \in Int
  BY <1>1, Division
<1>4. ((h + 1) % w) + (-1 - i) = ((h + 1) % w) - 1 - i /\ (h + 1) + (-1 - i) = z
  BY <1>1, <1>3
<1>5. (((h + 1) % w) - 1 - i) % w = z % w
  BY <1>2, <1>4
<1>6. z % w = IF i <= h THEN z ELSE z + w
  <2>1. CASE i <= h
    <3>1. z \in 0 .. w - 1 /\ w * 0 + z = z
      BY <1>1, <2>1
    <3> HIDE DEF z
    <3> QED
      BY <1>1, <2>1, <3>1, RemainderUnique
  <2>2. CASE ~ (i <= h)
    <3>1. z + w \in 0 .. w - 1 /\ w * (-1) + (z + w) = z
      BY <1>1, <2>2
    <3> HIDE DEF z
    <3>2. (w * (-1) + (z + w)) % w = z + w
      BY <1>1, <3>1, RemainderUnique
    <3> QED
      BY <2>2, <3>1, <3>2
  <2> QED
    BY <2>1, <2>2
<1> QED
  BY <1>1, <1>5, <1>6 DEF w, Places

\* The inductive invariant of the average.
AverageInv ==
  /\ head \in Places /\ buf \in [Places -> Int] /\ fed \in [Places -> Int]
  /\ Loop!AverageExact

\* An empty ring is an exact average of nothing.
LEMMA NothingFed ==
  head = 0 /\ sum = 0 /\ buf = Loop!Empty /\ fed = Loop!Empty => AverageInv
<1> SUFFICES ASSUME head = 0, sum = 0, buf = Loop!Empty, fed = Loop!Empty
             PROVE  AverageInv
  OBVIOUS
<1>1. Window \in Nat \ {0}
  BY DevicesAssumption
<1>2. head \in Places /\ buf \in [Places -> Int] /\ fed \in [Places -> Int]
      /\ \A i \in Places : fed[i] = 0 /\ buf[i] = 0
  BY <1>1 DEF Loop!Empty, Places
<1> DEFINE zero == [n \in 0 .. Window |-> 0]
<1>3. \A n \in 0 .. Window : zero[n] = IF n = 0 THEN 0 ELSE zero[n - 1] + fed[n - 1]
  BY <1>1, <1>2 DEF Places
<1>4. zero = [n \in 0 .. Window |-> IF n = 0 THEN 0 ELSE zero[n - 1] + fed[n - 1]]
  BY <1>3
<1>5. Loop!Total = zero
  <2>1. Sums(fed, Loop!Total) /\ fed \in [Places -> Int]
    BY <1>2, TotalSums
  <2> HIDE DEF zero
  <2> QED
    BY ONLY <1>4, <2>1, SumsUnique
<1>6. sum = Loop!Total[Window]
  BY <1>1, <1>5
<1>7. ASSUME NEW i \in DOMAIN fed
      PROVE  fed[i] = buf[(head - 1 - i) % Window]
  <2>1. i \in Places /\ head - 1 - i \in Int
    BY <1>2 DEF Places
  <2>2. (head - 1 - i) % Window \in Places
    BY <1>1, <2>1, Division DEF Places
  <2> QED
    BY <1>2, <2>1, <2>2
<1> QED
  BY <1>2, <1>6, <1>7 DEF AverageInv, Loop!AverageExact

\* An update replaces the oldest sample by the new one, in ring and in sum.
LEMMA AverageKept ==
  ASSUME AverageInv, Loop!AverageNext
  PROVE  AverageInv'
<1>1. ASSUME NEW x \in Samples, Loop!AverageUpdate(x)
      PROVE  AverageInv'
  <2> DEFINE e == [i \in Places |-> IF i = 0 THEN x ELSE fed[i - 1]]
  <2>1. /\ head \in Places /\ buf \in [Places -> Int] /\ fed \in [Places -> Int]
        /\ x \in Int /\ Window \in Nat \ {0}
        /\ sum = Loop!Total[Window]
        /\ \A i \in Places : fed[i] = buf[(head - 1 - i) % Window]
    <3>1. head \in Places /\ buf \in [Places -> Int] /\ fed \in [Places -> Int]
      BY DEF AverageInv
    <3>2. x \in Int /\ Window \in Nat \ {0}
      BY DevicesAssumption
    <3>3. DOMAIN fed = Places
      BY <3>1
    <3> QED
      BY <3>1, <3>2, <3>3 DEF AverageInv, Loop!AverageExact
  <2>2. /\ sum' = (sum - buf[head]) + x /\ buf' = [buf EXCEPT ![head] = x]
        /\ head' = (head + 1) % Window /\ fed' = e
    <3>1. DOMAIN fed = Places
      BY <2>1
    <3> QED
      BY <1>1, <3>1 DEF Loop!AverageUpdate
  <2>3. ASSUME NEW i \in Places, i # 0
        PROVE  i - 1 \in Places
    BY <2>1, <2>3 DEF Places
  <2>4. e \in [Places -> Int]
    BY <2>1, <2>3
  <2>5. head' \in Places /\ buf' \in [Places -> Int]
    <3>1. head + 1 \in Int
      BY <2>1 DEF Places
    <3>2. (head + 1) % Window \in Places
      BY <2>1, <3>1, Division DEF Places
    <3> QED
      BY <2>1, <2>2, <3>2
  <2>6. sum' = Loop!Total'[Window]
    <3>1. Sums(fed, Loop!Total) /\ Sums(e, Loop!Total')
      <4>1. (fed \in [Places -> Int] => Sums(fed, Loop!Total))'
        BY TotalSums, PTL
      <4> QED
        BY <2>1, <2>2, <2>4, <4>1, TotalSums
    <3>2. Loop!Total'[Window] = (Loop!Total[Window] - fed[Window - 1]) + x
      BY ONLY <2>1, <3>1, ShiftedSum
    <3>3. Window - 1 \in Places /\ (head - 1 - (Window - 1)) = head - Window
      BY <2>1 DEF Places
    <3>4. (head - Window) % Window = head
      <4>1. head \in 0 .. Window - 1 /\ head - Window = Window * (-1) + head
        BY <2>1 DEF Places
      <4> QED
        BY <2>1, <4>1, RemainderUnique
    <3>5. fed[Window - 1] = buf[head]
      BY <2>1, <3>3, <3>4
    <3> QED
      BY <2>1, <2>2, <3>2, <3>5
  <2>7. ASSUME NEW i \in Places
        PROVE  fed'[i] = buf'[(head' - 1 - i) % Window]
    <3> DEFINE j == (head - i) % Window
    <3>1. /\ (head' - 1 - i) % Window = j /\ j \in Places
          /\ i = 0 => j = head
          /\ i # 0 => j # head
      BY <2>1, <2>2, RingShift
    <3> HIDE DEF j
    <3>2. CASE i = 0
      BY <2>1, <2>2, <3>1, <3>2
    <3>3. CASE i # 0
      <4>1. i - 1 \in Places /\ head - 1 - (i - 1) = head - i
        BY <2>1, <2>3, <3>3 DEF Places
      <4>2. fed[i - 1] = buf[j]
        BY <2>1, <4>1 DEF j
      <4>3. fed'[i] = fed[i - 1] /\ buf'[j] = buf[j]
        BY <2>1, <2>2, <3>1, <3>3
      <4> QED
        BY <3>1, <4>2, <4>3
    <3> QED
      BY <3>2, <3>3
  <2>8. fed' \in [Places -> Int] /\ DOMAIN fed' = Places
    BY <2>2, <2>4
  <2> QED
    BY <2>5, <2>6, <2>7, <2>8 DEF AverageInv, Loop!AverageExact
<1>2. CASE Loop!AverageReset
  <2>1. head' = 0 /\ sum' = 0 /\ buf' = Loop!Empty /\ fed' = Loop!Empty
    BY <1>2 DEF Loop!AverageReset
  <2> QED
    <3>1. (head = 0 /\ sum = 0 /\ buf = Loop!Empty /\ fed = Loop!Empty => AverageInv)'
      BY NothingFed, PTL
    <3> QED
      BY <2>1, <3>1 DEF Loop!Empty
<1> QED
  BY <1>1, <1>2 DEF Loop!AverageNext

-----------------------------------------------------------------------------
(* The stepper *)

\* Nothing wraps below the width.
LEMMA NoWrap ==
  ASSUME NEW w \in Nat \ {0}, NEW x \in 0 .. w - 1
  PROVE  x % w = x
<1>1. w * 0 + x = x
  OBVIOUS
<1> QED
  BY <1>1, RemainderUnique

\* The accelerations a stepper ramps up or down with.
Ramps == Accels \cup (Decels \ {0})

\* The divisor in Distance.
Twice(a) == (2 * a) % Word

\* No acceleration a stepper is configured with makes the divisor 0 or 1.
LEMMA TwiceIsTwo ==
  ASSUME NEW a \in Ramps
  PROVE  Twice(a) \in Nat /\ Twice(a) >= 2
<1> DEFINE t == Twice(a)
           half == Word \div 2
<1>1. Word \in Nat \ {0} /\ Word % 2 = 0 /\ a \in Nat /\ t # 0
  BY DevicesAssumption DEF Twice, Ramps
<1>2. half \in Nat /\ Word = 2 * half
  BY <1>1
<1>3. t \in 0 .. Word - 1
  <2>1. 2 * a \in Int
    BY <1>1
  <2> QED
    BY <1>1, <2>1, Division DEF Twice
<1>4. PICK k \in Int : 2 * a = Word * k + t
  <2>1. 2 * a \in Int
    BY <1>1
  <2> QED
    BY <1>1, <2>1, Division DEF Twice
<1> HIDE DEF t, half
<1>5. Word * k = 2 * (half * k)
  BY <1>2, <1>4
<1>6. half * k \in Int
  BY <1>2, <1>4
<1>7. t # 1
  BY <1>1, <1>4, <1>5, <1>6
<1> QED
  BY <1>1, <1>3, <1>7 DEF t

\* A quotient by two or more is at most half.
LEMMA HalfAtMost ==
  ASSUME NEW n \in Nat, NEW d \in Nat, d >= 2
  PROVE  n \div d \in Nat /\ 2 * (n \div d) <= n /\ d * (n \div d) <= n /\ n < d * (n \div d + 1)
<1> DEFINE q == n \div d
           r == n % d
<1>1. q \in Nat /\ r \in 0 .. d - 1 /\ n = d * q + r
  OBVIOUS
<1> HIDE DEF q, r
<1>2. d * q >= 2 * q
  BY <1>1
<1>3. d * (q + 1) = d * q + d
  BY <1>1
<1> QED
  BY <1>1, <1>2, <1>3 DEF q

\* The distance to a speed is less than half the words.
LEMMA DistanceSmall ==
  ASSUME NEW v \in Nat, NEW a \in Ramps
  PROVE  Motor!Distance(v, a) \in Nat /\ 2 * Motor!Distance(v, a) < Word
<1> DEFINE n == (v * v) % Word
<1>1. Word \in Nat \ {0} /\ v * v \in Int
  BY DevicesAssumption
<1>2. n \in 0 .. Word - 1
  BY <1>1, Division
<1>3. Motor!Distance(v, a) = n \div Twice(a)
  BY DEF Motor!Distance, Twice
<1> HIDE DEF n
<1>4. n \div Twice(a) \in Nat /\ 2 * (n \div Twice(a)) <= n
  BY <1>2, TwiceIsTwo, HalfAtMost
<1> QED
  BY <1>1, <1>2, <1>3, <1>4

\* The profile of a move fits into it, and is a triangle or ends with the ramp
\* from full speed.
LEMMA ProfileFitsMove ==
  ASSUME NEW total \in Nat, cfg \in Motor!Configs
  PROVE  LET p == Motor!Profile(total)
         IN /\ p.accel_steps \in Nat /\ p.decel_start \in Nat
            /\ p.accel_steps <= p.decel_start /\ p.decel_start <= total
            /\ \/ p.decel_start <= p.accel_steps
               \/ p.decel_start = total - Motor!Distance(cfg.speed, Motor!Decel)
<1> DEFINE up == Motor!Distance(cfg.speed, cfg.accel)
           down == Motor!Distance(cfg.speed, Motor!Decel)
<1>1. cfg.speed \in Nat /\ cfg.accel \in Ramps /\ Motor!Decel \in Ramps
  BY DevicesAssumption DEF Motor!Configs, Motor!Decel, Ramps
<1>2. up \in Nat /\ down \in Nat /\ 2 * up < Word /\ 2 * down < Word
  BY <1>1, DistanceSmall
<1>3. Motor!Profile(total) = IF (up + down) % Word > total
                             THEN [accel_steps |-> total \div 2, decel_start |-> total \div 2]
                             ELSE [accel_steps |-> up, decel_start |-> total - down]
  BY DEF Motor!Profile
<1> HIDE DEF up, down
<1>4. (up + down) % Word = up + down
  <2>1. Word \in Nat \ {0} /\ up + down \in 0 .. Word - 1
    BY <1>2, DevicesAssumption
  <2> QED
    BY ONLY <2>1, NoWrap
<1>5. total \div 2 \in Nat /\ total \div 2 <= total
  OBVIOUS
<1> QED
  BY <1>2, <1>3, <1>4, <1>5 DEF down

\* Braking from a speed that is at most the share r / n of v, and from 1, takes
\* no more than r steps, if braking from v itself takes at most n.
LEMMA SlowEnough ==
  ASSUME NEW v \in Nat, NEW a \in Ramps, NEW n \in Nat, NEW r \in Nat, NEW s \in Nat,
         v * v < Word, Motor!Distance(v, a) <= n, r <= n, s = 1 \/ (s * n <= v * r /\ n > 0)
  PROVE  Motor!Distance(s, a) <= r
<1> DEFINE t == Twice(a)
           d == (s * s) \div t
<1>1. t \in Nat /\ t >= 2 /\ Word \in Nat \ {0}
  BY TwiceIsTwo, DevicesAssumption
<1>2. CASE s = 1
  <2>1. 1 % Word = 1 /\ 1 * 1 = 1
    <3>1. Word \in Nat /\ Word >= 2
      <4>1. Word % 2 = 0
        BY DevicesAssumption
      <4> QED
        BY <1>1, <4>1
    <3>2. 1 \in 0 .. Word - 1 /\ Word * 0 + 1 = 1
      BY <3>1
    <3> QED
      BY <1>1, <3>2, RemainderUnique
  <2>2. 1 \div t = 0
    <3> HIDE DEF t
    <3>1. 1 \div t \in Nat /\ 2 * (1 \div t) <= 1
      BY <1>1, HalfAtMost
    <3> QED
      BY <3>1
  <2> QED
    BY <1>2, <2>1, <2>2 DEF Motor!Distance, Twice
<1>3. CASE s * n <= v * r /\ n > 0
  <2> HIDE DEF t
  <2>1. s <= v
    <3>1. v * r <= v * n
      BY <1>3
    <3>2. s * n <= v * n /\ (s > v => s * n > v * n)
      <4>1. s * n \in Nat /\ v * n \in Nat /\ v * r \in Nat
        OBVIOUS
      <4>2. s * n <= v * n
        BY <1>3, <3>1, <4>1
      <4>3. ASSUME s > v PROVE s * n > v * n
        <5>1. s * n = v * n + (s - v) * n
          OBVIOUS
        <5>2. (s - v) * n > 0
          BY <1>3, <4>3
        <5> QED
          BY <4>1, <5>1, <5>2
      <4> QED
        BY <4>2, <4>3
    <3> QED
      BY <3>2
  <2>2. s * s <= v * v
    <3>1. s * s <= s * v /\ s * v <= v * v
      BY <2>1
    <3> QED
      BY <3>1
  <2>3. (s * s) % Word = s * s /\ (v * v) % Word = v * v
    <3> DEFINE x == s * s
               y == v * v
    <3>1. x \in 0 .. Word - 1 /\ y \in 0 .. Word - 1
      BY <1>1, <2>2
    <3> HIDE DEF x, y
    <3>2. x % Word = x /\ y % Word = y
      BY ONLY <1>1, <3>1, NoWrap
    <3> QED
      BY <3>2 DEF x, y
  <2>4. Motor!Distance(s, a) = d /\ Motor!Distance(v, a) = (v * v) \div t
    BY <2>3 DEF Motor!Distance, Twice, t
  <2>5. d \in Nat /\ t * d <= s * s
    <3>1. s * s \in Nat
      OBVIOUS
    <3> QED
      BY <1>1, <3>1, HalfAtMost
  <2>6. v * v < t * (n + 1)
    <3> DEFINE m == (v * v) \div t
    <3>1. v * v \in Nat
      OBVIOUS
    <3>2. m \in Nat /\ v * v < t * (m + 1)
      BY <1>1, <3>1, HalfAtMost
    <3>3. m <= n
      BY <2>4
    <3> HIDE DEF m
    <3>4. t * (m + 1) <= t * (n + 1)
      BY <1>1, <3>2, <3>3
    <3>5. t * (m + 1) \in Nat /\ t * (n + 1) \in Nat
      BY <1>1, <3>2
    <3> QED
      BY <3>1, <3>2, <3>4, <3>5
  <2> HIDE DEF d
  <2>7. (s * n) * (s * n) <= (v * r) * (v * r)
    <3> DEFINE x == s * n
               y == v * r
    <3>1. x \in Nat /\ y \in Nat /\ x <= y
      BY <1>3
    <3> HIDE DEF x, y
    <3>2. x * x <= x * y /\ x * y <= y * y
      BY <3>1
    <3>3. x * x <= y * y
      BY <3>1, <3>2
    <3> QED
      BY <3>3 DEF x, y
  <2>8. (s * s) * (n * n) <= (v * v) * (r * r)
    <3>1. (s * n) * (s * n) = (s * s) * (n * n) /\ (v * r) * (v * r) = (v * v) * (r * r)
      OBVIOUS
    <3> QED
      BY <2>7, <3>1
  <2>9. (t * d) * (n * n) <= (s * s) * (n * n)
    <3> DEFINE x == t * d
               y == s * s
               z == n * n
    <3>1. x \in Nat /\ y \in Nat /\ z \in Nat /\ x <= y
      BY <1>1, <2>5
    <3> HIDE DEF x, y, z
    <3>2. x * z <= y * z
      BY <3>1
    <3> QED
      BY <3>2 DEF x, y, z
  <2>10. (v * v) * (r * r) <= (t * (n + 1)) * (r * r)
    <3> DEFINE x == v * v
               y == t * (n + 1)
               z == r * r
    <3>1. x \in Nat /\ y \in Nat /\ z \in Nat /\ x <= y
      BY <1>1, <2>6
    <3> HIDE DEF x, y, z
    <3>2. x * z <= y * z
      BY <3>1
    <3> QED
      BY <3>2 DEF x, y, z
  <2>11. t * (d * (n * n)) <= t * ((n + 1) * (r * r))
    <3>1. (t * d) * (n * n) = t * (d * (n * n)) /\ (t * (n + 1)) * (r * r) = t * ((n + 1) * (r * r))
      BY <1>1, <2>5
    <3>2. (s * s) * (n * n) \in Nat /\ (v * v) * (r * r) \in Nat
      OBVIOUS
    <3>3. t * (d * (n * n)) \in Nat /\ t * ((n + 1) * (r * r)) \in Nat
      BY <1>1, <2>5
    <3> QED
      BY <2>8, <2>9, <2>10, <3>1, <3>2, <3>3
  <2>12. d * (n * n) <= (n + 1) * (r * r)
    <3> DEFINE x == d * (n * n)
               y == (n + 1) * (r * r)
    <3>1. x \in Nat /\ y \in Nat /\ t * x <= t * y
      BY <2>5, <2>11
    <3> HIDE DEF x, y
    <3>2. x <= y
      <4>1. ASSUME x > y PROVE FALSE
        <5>1. t * x = t * y + t * (x - y)
          BY <1>1, <3>1
        <5>2. t * (x - y) > 0
          BY <1>1, <3>1, <4>1
        <5>3. t * x \in Nat /\ t * y \in Nat /\ t * (x - y) \in Int
          BY <1>1, <3>1
        <5> QED
          BY ONLY <3>1, <5>1, <5>2, <5>3
      <4> QED
        BY <3>1, <4>1
    <3> QED
      BY <3>2 DEF x, y
  <2>13. ~ (d >= r + 1)
    <3> SUFFICES ASSUME d >= r + 1
                 PROVE  FALSE
      OBVIOUS
    <3>1. CASE r = n
      <4>1. t * d <= v * v /\ t * d \in Nat /\ v * v \in Nat /\ t * (n + 1) \in Nat
        BY <1>1, <2>2, <2>5
      <4>2. t * d < t * (n + 1)
        BY <2>6, <4>1
      <4>3. t * d >= t * (n + 1)
        BY <1>1, <2>5, <3>1
      <4> QED
        BY ONLY <4>1, <4>2, <4>3
    <3>2. CASE r # n
      <4>1. d * (n * n) >= (r + 1) * (n * n)
        <5> DEFINE z == n * n
        <5>1. z \in Nat
          OBVIOUS
        <5> HIDE DEF z
        <5>2. d * z >= (r + 1) * z
          BY <2>5, <5>1
        <5> QED
          BY <5>2 DEF z
      <4>2. (r + 1) * (n * n) = (r * n) * n + n * n /\ (n + 1) * (r * r) = (r * n) * r + r * r
        OBVIOUS
      <4>3. r * r <= r * n /\ r * n < n * n
        <5>1. n * n = r * n + (n - r) * n /\ (n - r) * n > 0
          BY <1>3, <3>2
        <5>2. r * r <= r * n
          OBVIOUS
        <5>3. n * n \in Nat /\ r * n \in Nat /\ (n - r) * n \in Int
          OBVIOUS
        <5> QED
          BY <5>1, <5>2, <5>3
      <4>4. (r * n) * r <= (r * n) * n
        <5> DEFINE z == r * n
        <5>1. z \in Nat
          OBVIOUS
        <5> HIDE DEF z
        <5>2. z * r <= z * n
          BY <5>1
        <5> QED
          BY <5>2 DEF z
      <4> DEFINE k1 == d * (n * n)
                 k2 == (r * n) * n
                 k3 == (r * n) * r
                 k4 == n * n
                 k5 == r * r
                 k6 == r * n
      <4>5. k1 \in Nat /\ k2 \in Nat /\ k3 \in Nat /\ k4 \in Nat /\ k5 \in Nat /\ k6 \in Nat
        BY <2>5
      <4>6. k1 <= k3 + k5 /\ k1 >= k2 + k4 /\ k5 <= k6 /\ k6 < k4 /\ k3 <= k2
        BY <2>12, <4>1, <4>2, <4>3, <4>4
      <4> HIDE DEF k1, k2, k3, k4, k5, k6
      <4> QED
        BY ONLY <4>5, <4>6
    <3> QED
      BY <3>1, <3>2
  <2> QED
    BY <2>4, <2>5, <2>13
<1> QED
  BY <1>2, <1>3

\* The length of the ramp from full speed.
Full == Motor!Distance(cfg.speed, Motor!Decel)

\* How far a stepper_stop is.
InStop == {"stop", "decel", "target", "stopping"}

\* The types, and what holds however interrupts and calls race.
MotorTypes ==
  /\ in_use \in BOOLEAN /\ timer \in BOOLEAN
  /\ state \in {"IDLE", "FAULT"} \cup Motor!Moving
  /\ at \in {"idle", "move_to", "move", "start"} \cup InStop
  /\ position \in Int /\ goal \in Int /\ direction \in {1, -1}
  /\ target \in Nat /\ done \in Nat /\ speed \in Nat
  /\ accel_steps \in Nat /\ decel_start \in Nat
  /\ request \in [delta : -2 * MaxPosition .. 2 * MaxPosition, to : Int]
  /\ seen.steps \in Nat /\ seen.speed \in Nat \cup {Motor!Unread} /\ seen.when \in Nat

\* A stepper that nobody has does not pulse, and one that is moved has a sound configuration.
InUseFits ==
  /\ in_use => cfg \in Motor!Configs
  /\ at # "idle" => in_use
  /\ ~in_use => ~timer

\* A call that is under way fits the timer and its excuse.
TimerFits ==
  /\ state = "IDLE" => ~timer
  /\ at \in {"move", "start"} => ~timer /\ "stopped" \notin excuses
  /\ at = "start" => state # "IDLE"
  /\ at \in InStop => "stopped" \in excuses

\* As long as nothing interrupted a call that writes the same fields, the timer
\* runs exactly in the moving states and a halted stepper stays in FAULT.
Unraced ==
  "raced" \notin excuses =>
    /\ at \in {"idle", "move_to"} => /\ timer <=> state \in Motor!Moving
                                     /\ "halted" \in excuses => state = "FAULT"
    /\ at \notin {"idle", "move_to"} => "halted" \notin excuses
    /\ at = "move" => state = "IDLE"
    /\ at = "start" => state = "ACCELERATING"
    /\ at \in InStop => timer /\ state \in Motor!Moving

\* A move that is not disturbed ends at its goal: position and the steps to come
\* add up to it, and a stepper at rest has arrived.
OnCourse ==
  excuses \subseteq {"reconfigured"} =>
    /\ position + direction * (target - done) = goal /\ done <= target
    /\ state = "IDLE" /\ at \in {"idle", "move_to"} => done = target

\* A move that is not disturbed reaches its speed before the ramp down begins.
OnRamp ==
  excuses = {} =>
    /\ at \in {"move", "start"} \/ state \in Motor!Moving =>
         target < Word /\ (decel_start <= accel_steps \/ decel_start = target - Full)
    /\ state = "RUNNING" => speed = cfg.speed /\ accel_steps <= done /\ done < decel_start

\* A move cut short by stepper_stop does not pass its goal: the brake from the
\* speed it has read fits what was left when it read it.
Stopping ==
  excuses = {"stopped"} =>
    /\ direction * (goal - position) >= target - done
    /\ direction * (goal - position) >= 0
    /\ accel_steps <= done
    /\ at \in {"stop", "decel", "target"} =>
         /\ cfg.speed * cfg.speed < Word /\ target < Word /\ done <= target
         /\ state \in {"RUNNING", "DECELERATING"}
    /\ at \in {"stop", "decel"} =>
         /\ decel_start = target - Full
         /\ state = "RUNNING" => speed = cfg.speed /\ done < decel_start
    /\ at = "decel" => seen.steps <= done /\ seen.speed = Motor!Unread
    /\ at = "target" =>
         /\ decel_start <= done /\ Full < target - decel_start
         /\ state = "RUNNING" => speed = cfg.speed /\ Full < target - done
         /\ state = "DECELERATING" =>
              speed = 1 \/ speed * (target - decel_start) <= cfg.speed * (target - done)
         /\ seen.speed # Motor!Unread =>
              seen.when + Motor!Distance(seen.speed, Motor!Decel) <= target
    /\ at \in {"stopping", "idle", "move_to"} =>
         /\ decel_start <= done
         /\ at # "stopping" => state \notin {"RUNNING", "ACCELERATING"}

\* The inductive invariant of the stepper.
MotorInv == /\ MotorTypes /\ InUseFits /\ TimerFits /\ Unraced /\ Motor!ProfileFits
            /\ OnCourse /\ OnRamp /\ Stopping

\* The ramp from full speed has a length.
LEMMA FullIsNat ==
  ASSUME cfg \in Motor!Configs
  PROVE  /\ cfg.speed \in Nat /\ Motor!Decel \in Ramps /\ Full \in Nat
BY DistanceSmall, DevicesAssumption DEF Motor!Configs, Motor!Decel, Full, Ramps

\* No stepper is in use.
LEMMA MotorStarts == Motor!Init => MotorInv
<1> SUFFICES ASSUME Motor!Init
             PROVE  MotorInv
  OBVIOUS
<1> USE DevicesAssumption DEF Motor!Init
<1>1. MotorTypes
  <2> DEFINE deltas == -2 * MaxPosition .. 2 * MaxPosition
  <2>1. 0 \in deltas
    OBVIOUS
  <2> HIDE DEF deltas
  <2>2. request \in [delta : deltas, to : Int]
    BY <2>1 DEF Motor!NoRequest
  <2>3. in_use \in BOOLEAN /\ timer \in BOOLEAN
    BY Zenon
  <2>7. /\ state \in {"IDLE", "FAULT"} \cup Motor!Moving
        /\ at \in {"idle", "move_to", "move", "start"} \cup InStop
    BY Zenon
  <2>8. position \in Int /\ goal \in Int
    OBVIOUS
  <2>4. target \in Nat /\ speed \in Nat /\ accel_steps \in Nat /\ decel_start \in Nat
    OBVIOUS
  <2>5. done \in Nat
    OBVIOUS
  <2>9. seen.steps \in Nat /\ seen.speed \in Nat \cup {Motor!Unread} /\ seen.when \in Nat
    BY DEF Motor!NotSeen
  <2>6. direction \in {1, -1}
    OBVIOUS
  <2> QED
    BY <2>2, <2>3, <2>4, <2>5, <2>6, <2>7, <2>8, <2>9 DEF MotorTypes, deltas
<1>2. InUseFits /\ TimerFits /\ Unraced /\ Motor!ProfileFits
  BY DEF InUseFits, TimerFits, Unraced, Motor!ProfileFits, Motor!Moving, InStop
<1>3. OnCourse /\ OnRamp /\ Stopping
  BY DEF OnCourse, OnRamp, Stopping, Motor!Moving
<1> QED
  BY <1>1, <1>2, <1>3 DEF MotorInv

\* The store of ACCELERATING keeps it.
LEMMA MoveStateKept ==
  ASSUME MotorInv, Motor!MoveState
  PROVE  MotorInv'
<1> USE DEF MotorInv, Motor!MoveState, Motor!profile, Motor!goals, InStop
<1>1. MotorTypes'
  BY DEF MotorTypes, Motor!Moving
<1>2. InUseFits'
  BY DEF InUseFits
<1>3. TimerFits'
  BY DEF TimerFits
<1>4. Unraced'
  BY DEF Unraced, Motor!Moving
<1>5. Motor!ProfileFits'
  BY DEF Motor!ProfileFits
<1>6. OnCourse'
  BY DEF OnCourse
<1>7. OnRamp'
  BY DEF OnRamp, Full, Motor!Decel, Motor!Moving
<1>8. Stopping'
  BY DEF Stopping, Full, Motor!Decel
<1> QED
  BY <1>1, <1>2, <1>3, <1>4, <1>5, <1>6, <1>7, <1>8

\* The start of the timer keeps it.
LEMMA MoveStartKept ==
  ASSUME MotorInv, Motor!MoveStart
  PROVE  MotorInv'
<1> USE DEF MotorInv, Motor!MoveStart, Motor!profile, Motor!goals, InStop
<1>1. MotorTypes'
  BY DEF MotorTypes, Motor!Moving
<1>2. InUseFits'
  BY DEF InUseFits
<1>3. TimerFits'
  BY DEF TimerFits
<1>4. Unraced'
  BY DEF Unraced, Motor!Moving
<1>5. Motor!ProfileFits'
  BY DEF Motor!ProfileFits
<1>6. OnCourse'
  BY DEF OnCourse, MotorTypes, TimerFits, Unraced, Motor!Moving
<1>7. OnRamp'
  BY DEF OnRamp, Full, Motor!Decel, Motor!Moving
<1>8. Stopping'
  BY DEF Stopping, MotorTypes, TimerFits, Unraced, Full, Motor!Decel, Motor!Moving
<1> QED
  BY <1>1, <1>2, <1>3, <1>4, <1>5, <1>6, <1>7, <1>8

\* The checks of stepper_stop keep it: the brake it takes fits what is left.
LEMMA StopKept ==
  ASSUME MotorInv, Motor!Stop
  PROVE  MotorInv'
<1> USE DEF MotorInv, Motor!Stop, Motor!profile, Motor!goals, InStop
<1>0. MotorTypes
  BY DEF MotorInv
<1>1. MotorTypes'
  BY DEF MotorTypes, Motor!Moving
<1>2. InUseFits'
  BY DEF InUseFits
<1>3. TimerFits'
  BY DEF TimerFits
<1>4. Unraced'
  BY DEF Unraced, Motor!Moving
<1>5. Motor!ProfileFits'
  BY DEF Motor!ProfileFits
<1>6. OnCourse'
  BY DEF OnCourse
<1>7. OnRamp'
  BY DEF OnRamp, Full, Motor!Decel, Motor!Moving
<1>8. Stopping'
  <2> SUFFICES ASSUME excuses' = {"stopped"}
               PROVE  Stopping'
    BY DEF Stopping
  <2>1. state = "RUNNING" /\ cfg.speed * cfg.speed < Word
    <3>1. "stopped early" \notin excuses' /\ "wraps" \notin excuses'
      OBVIOUS
    <3>2. state # "ACCELERATING" /\ ~ (cfg.speed * cfg.speed >= Word)
      BY <3>1
    <3>3. cfg.speed \in Nat /\ Word \in Nat
      BY DevicesAssumption DEF InUseFits, Motor!Configs
    <3> QED
      BY <3>2, <3>3
  <2>2. excuses = {} \/ excuses = {"stopped"}
    OBVIOUS
  <2>3. excuses # {"stopped"}
    BY <2>1 DEF Stopping
  <2>4. excuses = {}
    BY <2>2, <2>3
  <2>5. position + direction * (target - done) = goal /\ done <= target
    BY <2>4 DEF OnCourse
  <2>6. /\ target < Word /\ (decel_start <= accel_steps \/ decel_start = target - Full)
        /\ speed = cfg.speed /\ accel_steps <= done /\ done < decel_start
    BY <2>1, <2>4 DEF OnRamp, Motor!Moving
  <2>7. decel_start = target - Full
    <3>1. accel_steps \in Nat /\ decel_start \in Nat /\ done \in Nat
      BY ONLY <1>0 DEF MotorTypes
    <3> QED
      BY ONLY <2>6, <3>1
  <2>8. direction * (goal - position) >= target - done /\ direction * (goal - position) >= 0
    <3>1. /\ direction = 1 \/ direction = -1
          /\ goal \in Int /\ position \in Int /\ target \in Int /\ done \in Int
      BY ONLY <1>0 DEF MotorTypes
    <3> QED
      BY ONLY <2>5, <3>1
  <2> QED
    BY <2>1, <2>5, <2>6, <2>7, <2>8 DEF Stopping, Full, Motor!Decel, Motor!profile, Motor!goals, InStop
<1> QED
  BY <1>1, <1>2, <1>3, <1>4, <1>5, <1>6, <1>7, <1>8

\* The read of the steps before the store of decel_start keeps it.
LEMMA StopReadsKept ==
  ASSUME MotorInv, Motor!StopReads
  PROVE  MotorInv'
<1> USE DEF MotorInv, Motor!StopReads, Motor!profile, Motor!NotSeen, InStop
<1>1. MotorTypes'
  BY DEF MotorTypes, Motor!Moving
<1>2. InUseFits'
  BY DEF InUseFits
<1>3. TimerFits'
  BY DEF TimerFits
<1>4. Unraced'
  BY DEF Unraced, Motor!Moving
<1>5. Motor!ProfileFits'
  BY DEF Motor!ProfileFits
<1>6. OnCourse'
  BY DEF OnCourse, MotorTypes, TimerFits, Unraced, Motor!Moving
<1>7. OnRamp'
  BY DEF OnRamp, MotorTypes, TimerFits, Unraced, Full, Motor!Decel, Motor!Moving
<1>8. Stopping'
  BY DEF Stopping, MotorTypes, Full, Motor!Decel
<1> QED
  BY <1>1, <1>2, <1>3, <1>4, <1>5, <1>6, <1>7, <1>8

\* The store of decel_start keeps it, unless pulses have overtaken the stop.
LEMMA StopDecelKept ==
  ASSUME MotorInv, Motor!StopDecel
  PROVE  MotorInv'
<1> USE DEF MotorInv, Motor!StopDecel, Motor!profile, Motor!goals, InStop
<1>1. MotorTypes'
  BY DEF MotorTypes, Motor!Moving
<1>2. InUseFits'
  BY DEF InUseFits
<1>3. TimerFits'
  BY DEF TimerFits
<1>4. Unraced'
  BY DEF Unraced, Motor!Moving
<1>5. Motor!ProfileFits'
  BY DEF Motor!ProfileFits
<1>6. OnCourse'
  BY DEF OnCourse
<1>7. OnRamp'
  BY DEF OnRamp, MotorTypes, TimerFits, Unraced, Full, Motor!Decel, Motor!Moving
<1>8. Stopping'
  <2> SUFFICES ASSUME excuses' = {"stopped"}
               PROVE  Stopping'
    BY DEF Stopping
  <2>1. state # "DECELERATING" /\ excuses = {"stopped"}
    <3>1. "overtaken" \notin excuses'
      OBVIOUS
    <3> QED
      BY <3>1
  <2>2. /\ state = "RUNNING" /\ done < decel_start /\ decel_start = target - Full
        /\ speed = cfg.speed /\ seen.steps <= done /\ seen.speed = Motor!Unread
    BY <2>1 DEF Stopping
  <2>3. Full \in Nat /\ seen.steps \in Nat /\ done \in Nat /\ decel_start \in Nat /\ target \in Nat
    BY FullIsNat DEF InUseFits, MotorTypes
  <2>4. Full < target - done /\ Full < target - seen.steps
    BY <2>2, <2>3
  <2>5. /\ direction * (goal - position) >= target - done /\ direction * (goal - position) >= 0
        /\ accel_steps <= done
        /\ cfg.speed * cfg.speed < Word /\ target < Word /\ done <= target
    BY <2>1 DEF Stopping
  <2>6. /\ target' = target /\ done' = done /\ speed' = speed /\ state' = state /\ cfg' = cfg
        /\ position' = position /\ goal' = goal /\ direction' = direction /\ seen' = seen
        /\ accel_steps' = accel_steps /\ decel_start' = seen.steps /\ at' = "target"
    OBVIOUS
  <2>7. Full' = Full
    BY <2>6 DEF Full, Motor!Decel
  <2> HIDE DEF Motor!StopDecel
  <2> QED
    BY <2>1, <2>2, <2>4, <2>5, <2>6, <2>7 DEF Stopping
<1> QED
  BY <1>1, <1>2, <1>3, <1>4, <1>5, <1>6, <1>7, <1>8

\* Reading the steps once more, now or never, keeps it.
LEMMA StopReadsStepsKept ==
  ASSUME MotorInv, Motor!StopReadsSteps
  PROVE  MotorInv'
<1> USE DEF MotorInv, Motor!StopReadsSteps, Motor!profile, InStop
<1>0. seen'.steps = done /\ seen'.speed = seen.speed /\ seen'.when = seen.when
  BY DEF MotorTypes
<1>1. MotorTypes'
  BY <1>0 DEF MotorTypes, Motor!Moving
<1>2. InUseFits'
  BY DEF InUseFits
<1>3. TimerFits'
  BY DEF TimerFits
<1>4. Unraced'
  BY DEF Unraced, Motor!Moving
<1>5. Motor!ProfileFits'
  BY DEF Motor!ProfileFits
<1>6. OnCourse'
  BY DEF OnCourse, MotorTypes, TimerFits, Unraced, Motor!Moving
<1>7. OnRamp'
  BY DEF OnRamp, MotorTypes, TimerFits, Unraced, Full, Motor!Decel, Motor!Moving
<1>8. Stopping'
  BY <1>0 DEF Stopping, Full, Motor!Decel
<1> QED
  BY <1>1, <1>2, <1>3, <1>4, <1>5, <1>6, <1>7, <1>8

\* The read of the speed keeps it: the brake from it fits what is left now.
LEMMA StopReadsSpeedKept ==
  ASSUME MotorInv, Motor!StopReadsSpeed
  PROVE  MotorInv'
<1> USE DEF MotorInv, Motor!StopReadsSpeed, Motor!profile, InStop
<1>0. seen'.steps = seen.steps /\ seen'.speed = speed /\ seen'.when = done
  BY DEF MotorTypes
<1>1. MotorTypes'
  BY <1>0 DEF MotorTypes, Motor!Moving
<1>2. InUseFits'
  BY DEF InUseFits
<1>3. TimerFits'
  BY DEF TimerFits
<1>4. Unraced'
  BY DEF Unraced, Motor!Moving
<1>5. Motor!ProfileFits'
  BY DEF Motor!ProfileFits
<1>6. OnCourse'
  BY DEF OnCourse, MotorTypes, TimerFits, Unraced, Motor!Moving
<1>7. OnRamp'
  BY DEF OnRamp, MotorTypes, TimerFits, Unraced, Full, Motor!Decel, Motor!Moving
<1>8. Stopping'
  <2> SUFFICES ASSUME excuses = {"stopped"}
               PROVE  Stopping'
    BY DEF Stopping
  <2> DEFINE n == target - decel_start
             r == target - done
             way == Motor!Distance(speed, Motor!Decel)
  <2>1. cfg \in Motor!Configs
    BY DEF InUseFits
  <2>2. /\ cfg.speed * cfg.speed < Word /\ done <= target
        /\ state \in {"RUNNING", "DECELERATING"}
        /\ decel_start <= done /\ Full < n
        /\ state = "RUNNING" => speed = cfg.speed /\ Full < r
        /\ state = "DECELERATING" => speed = 1 \/ speed * n <= cfg.speed * r
    BY DEF Stopping
  <2>3. /\ n \in Nat /\ r \in Nat /\ r <= n /\ speed \in Nat
        /\ cfg.speed \in Nat /\ Motor!Decel \in Ramps /\ Full \in Nat
    BY <2>1, <2>2, FullIsNat DEF MotorTypes
  <2>4. way <= r /\ way \in Nat
    <3>1. CASE state = "RUNNING"
      BY <2>2, <2>3, <3>1 DEF Full
    <3>2. CASE state = "DECELERATING"
      <4>1. Motor!Distance(cfg.speed, Motor!Decel) <= n /\ n > 0
        BY <2>2, <2>3 DEF Full
      <4>2. speed = 1 \/ (speed * n <= cfg.speed * r /\ n > 0)
        BY <2>2, <3>2, <4>1
      <4> HIDE DEF n, r
      <4>3. way <= r
        BY <2>2, <2>3, <4>1, <4>2, SlowEnough
      <4> QED
        BY <2>3, <4>3, DistanceSmall
    <3> QED
      BY <2>2, <3>1, <3>2
  <2>5. Motor!Decel' = Motor!Decel
    BY DEF Motor!Decel
  <2>6. seen'.when + Motor!Distance(seen'.speed, Motor!Decel') <= target
    <3>1. Motor!Distance(seen'.speed, Motor!Decel') = way
      BY <1>0, <2>5
    <3>2. done + way <= target
      <4>1. done \in Nat /\ target \in Nat
        BY DEF MotorTypes
      <4> HIDE DEF way
      <4> QED
        BY ONLY <2>4, <4>1 DEF r
    <3> QED
      BY <1>0, <3>1, <3>2
  <2>7. Full' = Full
    BY DEF Full, Motor!Decel
  <2>8. /\ target' = target /\ done' = done /\ speed' = speed /\ state' = state /\ cfg' = cfg
        /\ position' = position /\ goal' = goal /\ direction' = direction /\ excuses' = excuses
        /\ accel_steps' = accel_steps /\ decel_start' = decel_start /\ at' = "target" /\ at = "target"
    OBVIOUS
  <2> HIDE DEF Motor!StopReadsSpeed, n, r, way
  <2> QED
    BY <2>6, <2>7, <2>8 DEF Stopping
<1> QED
  BY <1>1, <1>2, <1>3, <1>4, <1>5, <1>6, <1>7, <1>8

\* The store of the new target keeps it: the move gets no longer.
LEMMA StopTargetKept ==
  ASSUME MotorInv, Motor!StopTarget
  PROVE  MotorInv'
<1> USE DEF MotorInv, Motor!StopTarget, Motor!profile, Motor!NotSeen, InStop
<1> DEFINE way == Motor!Distance(seen.speed, Motor!Decel)
<1>0. /\ seen.speed \in Nat /\ seen.steps \in Nat /\ seen.when \in Nat /\ way \in Nat
      /\ target' = seen.steps + way
  <2>1. seen.speed \in Nat /\ seen.steps \in Nat /\ seen.when \in Nat
    BY DEF MotorTypes
  <2> QED
    BY <2>1, FullIsNat, DistanceSmall DEF InUseFits
<1> HIDE DEF way
<1>1. MotorTypes'
  BY <1>0 DEF MotorTypes, Motor!Moving
<1>2. InUseFits'
  BY DEF InUseFits
<1>3. TimerFits'
  BY DEF TimerFits
<1>4. Unraced'
  BY DEF Unraced, Motor!Moving
<1>5. Motor!ProfileFits'
  BY DEF Motor!ProfileFits
<1>9. "stopped" \in excuses'
  BY DEF TimerFits
<1>6. OnCourse'
  BY <1>9 DEF OnCourse
<1>7. OnRamp'
  BY <1>9 DEF OnRamp
<1>8. Stopping'
  <2> SUFFICES ASSUME excuses' = {"stopped"}
               PROVE  Stopping'
    BY DEF Stopping
  <2>1. excuses = {"stopped"} /\ ~ (seen.steps > seen.when)
    <3>1. "overtaken" \notin excuses'
      OBVIOUS
    <3> QED
      BY <1>9, <3>1 DEF TimerFits
  <2>2. /\ direction * (goal - position) >= target - done /\ direction * (goal - position) >= 0
        /\ accel_steps <= done /\ decel_start <= done /\ seen.when + way <= target
    BY <2>1 DEF Stopping, way
  <2>3. target' <= target
    BY <1>0, <2>1, <2>2 DEF MotorTypes
  <2>4. /\ position' = position /\ goal' = goal /\ direction' = direction
        /\ done' = done /\ decel_start' = decel_start /\ accel_steps' = accel_steps /\ at' = "stopping"
    OBVIOUS
  <2>5. direction' * (goal' - position') >= target' - done'
    <3>1. ASSUME NEW togo \in Int, NEW d \in Nat, NEW t \in Nat, NEW u \in Nat,
                 togo >= t - d, u <= t
          PROVE  togo >= u - d
      BY <3>1
    <3>2. direction * (goal - position) \in Int /\ done \in Nat /\ target \in Nat /\ target' \in Nat
      BY <1>0 DEF MotorTypes
    <3>3. direction * (goal - position) >= target' - done
      BY <2>2, <2>3, <3>1, <3>2
    <3> QED
      BY <2>4, <3>3
  <2> HIDE DEF Motor!StopTarget
  <2> QED
    BY <2>2, <2>4, <2>5 DEF Stopping
<1> QED
  BY <1>1, <1>2, <1>3, <1>4, <1>5, <1>6, <1>7, <1>8

\* The store of DECELERATING keeps it.
LEMMA StopStateKept ==
  ASSUME MotorInv, Motor!StopState
  PROVE  MotorInv'
<1> USE DEF MotorInv, Motor!StopState, Motor!profile, Motor!goals, InStop
<1>1. MotorTypes'
  BY DEF MotorTypes, Motor!Moving
<1>2. InUseFits'
  BY DEF InUseFits
<1>3. TimerFits'
  BY DEF TimerFits
<1>4. Unraced'
  BY DEF Unraced, Motor!Moving
<1>5. Motor!ProfileFits'
  BY DEF Motor!ProfileFits
<1>6. OnCourse'
  BY DEF OnCourse
<1>7. OnRamp'
  BY DEF OnRamp, MotorTypes, TimerFits, Unraced, Full, Motor!Decel, Motor!Moving
<1>8. Stopping'
  BY DEF Stopping, Full, Motor!Decel
<1> QED
  BY <1>1, <1>2, <1>3, <1>4, <1>5, <1>6, <1>7, <1>8

\* Halting at once keeps it.
LEMMA EmergencyStopKept ==
  ASSUME MotorInv, Motor!EmergencyStop
  PROVE  MotorInv'
<1> USE DEF MotorInv, Motor!EmergencyStop, Motor!Halt, Motor!profile, Motor!goals, InStop
<1>1. MotorTypes'
  BY DEF MotorTypes, Motor!Moving
<1>2. InUseFits'
  BY DEF InUseFits
<1>3. TimerFits'
  BY DEF TimerFits
<1>4. Unraced'
  BY DEF Unraced, Motor!Moving
<1>5. Motor!ProfileFits'
  BY DEF Motor!ProfileFits
<1>6. OnCourse'
  BY DEF OnCourse
<1>7. OnRamp'
  BY DEF OnRamp, Full, Motor!Decel, Motor!Moving
<1>8. Stopping'
  BY DEF Stopping, Full, Motor!Decel
<1> QED
  BY <1>1, <1>2, <1>3, <1>4, <1>5, <1>6, <1>7, <1>8

\* Giving the stepper back keeps it.
LEMMA PutKept ==
  ASSUME MotorInv, Motor!Put
  PROVE  MotorInv'
<1> USE DEF MotorInv, Motor!Put, Motor!Halt, Motor!profile, Motor!goals, InStop
<1>1. MotorTypes'
  BY DEF MotorTypes, Motor!Moving
<1>2. InUseFits'
  BY DEF InUseFits
<1>3. TimerFits'
  BY DEF TimerFits
<1>4. Unraced'
  BY DEF Unraced, Motor!Moving
<1>5. Motor!ProfileFits'
  BY DEF Motor!ProfileFits
<1>6. OnCourse'
  BY DEF OnCourse
<1>7. OnRamp'
  BY DEF OnRamp, Full, Motor!Decel, Motor!Moving
<1>8. Stopping'
  BY DEF Stopping, Full, Motor!Decel
<1> QED
  BY <1>1, <1>2, <1>3, <1>4, <1>5, <1>6, <1>7, <1>8

\* The interrupt that finds the move finished keeps it.
LEMMA PulseEndsKept ==
  ASSUME MotorInv, Motor!PulseEnds
  PROVE  MotorInv'
<1> USE DEF MotorInv, Motor!PulseEnds, Motor!profile, Motor!goals, InStop
<1>1. MotorTypes'
  BY DEF MotorTypes, Motor!Moving
<1>2. InUseFits'
  BY DEF InUseFits
<1>3. TimerFits'
  BY DEF TimerFits
<1>4. Unraced'
  BY DEF Unraced, Motor!Moving
<1>5. Motor!ProfileFits'
  BY DEF Motor!ProfileFits
<1>6. OnCourse'
  BY DEF OnCourse, MotorTypes, Motor!Moving
<1>7. OnRamp'
  BY DEF OnRamp, Full, Motor!Decel, Motor!Moving
<1>8. Stopping'
  BY DEF Stopping, Full, Motor!Decel
<1> QED
  BY <1>1, <1>2, <1>3, <1>4, <1>5, <1>6, <1>7, <1>8

\* One pulse: a step further, and the phase and the speed that come next.
LEMMA PulseStepsKept ==
  ASSUME MotorInv, Motor!PulseSteps
  PROVE  MotorInv'
<1> USE DEF MotorInv
<1> DEFINE share == (cfg.speed * (target - done')) % Word
           parts == Motor!AtLeastOne((target - decel_start) % Word)
<1>1. /\ timer /\ done < target /\ done' = done + 1 /\ position' = position + direction
      /\ state' \in Motor!Moving
      /\ in_use' = in_use /\ cfg' = cfg /\ target' = target /\ direction' = direction
      /\ accel_steps' = accel_steps /\ decel_start' = decel_start /\ timer' = timer /\ at' = at
      /\ goal' = goal /\ request' = request /\ seen' = seen /\ excuses' = excuses
  BY DEF Motor!PulseSteps, Motor!Moving, Motor!goals
<1>2. /\ done' < accel_steps => state' = "ACCELERATING"
      /\ ~ (done' < accel_steps) /\ done' >= decel_start =>
           state' = "DECELERATING" /\ speed' = Motor!AtLeastOne(share \div parts)
      /\ ~ (done' < accel_steps) /\ ~ (done' >= decel_start) =>
           state' = "RUNNING" /\ speed' = cfg.speed
  BY DEF Motor!PulseSteps, Motor!Accelerates, Motor!Decelerates
<1>3. in_use /\ cfg \in Motor!Configs /\ Full' = Full
  BY <1>1 DEF InUseFits, Full, Motor!Decel
<1>4. cfg.speed \in Nat /\ cfg.accel \in Nat /\ Word \in Nat \ {0} /\ Full \in Nat
  BY <1>3, FullIsNat, DevicesAssumption DEF Motor!Configs
<1>5. /\ target \in Nat /\ done \in Nat /\ done' \in Nat /\ done' <= target
      /\ accel_steps \in Nat /\ decel_start \in Nat
  BY <1>1 DEF MotorTypes
<1>6. /\ share \in Nat /\ share <= cfg.speed * (target - done') /\ parts \in Nat /\ parts >= 1
  <2> DEFINE x == cfg.speed * (target - done')
             y == target - decel_start
  <2>1. x \in Nat /\ y \in Int
    BY <1>4, <1>5
  <2> HIDE DEF x, y
  <2>2. x % Word \in 0 .. Word - 1 /\ x % Word <= x /\ y % Word \in 0 .. Word - 1
    <3>1. x % Word \in 0 .. Word - 1
      BY ONLY <1>4, <2>1, Division
    <3>2. y % Word \in 0 .. Word - 1
      BY ONLY <1>4, <2>1, Division
    <3>3. x % Word <= x
      BY ONLY <1>4, <2>1, RemainderAtMost
    <3> QED
      BY <3>1, <3>2, <3>3
  <2>3. share = x % Word /\ parts = Motor!AtLeastOne(y % Word)
    BY DEF x, y
  <2>4. parts \in Nat /\ parts >= 1
    BY <2>2, <2>3, <1>4 DEF Motor!AtLeastOne
  <2> QED
    BY <1>4, <2>2, <2>3, <2>4 DEF x
<1>7. speed' \in Nat
  <2>1. ASSUME NEW a \in Nat, NEW b \in Nat, b >= 1
        PROVE  Motor!AtLeastOne(a \div b) \in Nat
    BY <2>1 DEF Motor!AtLeastOne
  <2>2. (cfg.accel * done') % Word \in Nat
    <3>1. cfg.accel * done' \in Int
      BY <1>4, <1>5
    <3>2. (cfg.accel * done') % Word \in 0 .. Word - 1
      BY <1>4, <3>1, Division
    <3> QED
      BY <1>4, <3>2
  <2>3. Motor!AtLeastOne(accel_steps) \in Nat /\ Motor!AtLeastOne(accel_steps) >= 1
    BY <1>5 DEF Motor!AtLeastOne
  <2>4. done' < accel_steps => speed' = Motor!AtLeastOne(((cfg.accel * done') % Word) \div Motor!AtLeastOne(accel_steps))
    BY DEF Motor!PulseSteps, Motor!Accelerates, Motor!Decelerates
  <2> HIDE DEF share, parts
  <2>5. CASE done' < accel_steps
    BY <2>1, <2>2, <2>3, <2>4, <2>5
  <2>6. CASE ~ (done' < accel_steps)
    BY <1>2, <1>4, <1>6, <2>1, <2>6
  <2> QED
    BY <2>5, <2>6
<1>8. MotorTypes'
  BY <1>1, <1>5, <1>7 DEF MotorTypes
<1>9. InUseFits' /\ TimerFits' /\ Unraced' /\ Motor!ProfileFits'
  BY <1>1, <1>3 DEF InUseFits, TimerFits, Unraced, Motor!ProfileFits, Motor!Moving, InStop
<1>10. OnCourse'
  BY <1>1, <1>5 DEF OnCourse, MotorTypes, Motor!Moving
<1>11. OnRamp'
  <2> SUFFICES ASSUME excuses = {}
               PROVE  OnRamp'
    BY <1>1 DEF OnRamp
  <2>1. at \in {"idle", "move_to"} /\ state \in Motor!Moving
    BY <1>1 DEF TimerFits, Unraced, MotorTypes, InStop
  <2>2. target < Word /\ (decel_start <= accel_steps \/ decel_start = target - Full)
    BY <2>1 DEF OnRamp
  <2>3. state' = "RUNNING" => speed' = cfg.speed /\ accel_steps <= done' /\ done' < decel_start
    <3> HIDE DEF share, parts
    <3> QED
      BY <1>2, <1>5
  <2> QED
    BY <1>1, <1>3, <2>2, <2>3 DEF OnRamp
<1>12. Stopping'
  <2> SUFFICES ASSUME excuses = {"stopped"}
               PROVE  Stopping'
    BY <1>1 DEF Stopping
  <2>1. direction' * (goal' - position') >= target' - done' /\ direction' * (goal' - position') >= 0
    BY <1>1 DEF Stopping, MotorTypes
  <2>2. accel_steps <= done /\ ~ (done' < accel_steps)
    BY <1>1, <1>5 DEF Stopping
  <2>3. at \in {"stop", "decel", "target"} =>
          /\ cfg.speed * cfg.speed < Word /\ target < Word /\ done' <= target
          /\ state' \in {"RUNNING", "DECELERATING"}
    BY <1>2, <1>5, <2>2 DEF Stopping
  <2>4. at \in {"stop", "decel"} =>
          /\ decel_start = target - Full
          /\ state' = "RUNNING" => speed' = cfg.speed /\ done' < decel_start
    BY <1>2, <1>5, <2>2 DEF Stopping
  <2>5. ASSUME at = "target"
        PROVE  /\ decel_start <= done' /\ Full < target - decel_start
               /\ state' = "DECELERATING"
               /\ speed' = 1 \/ speed' * (target - decel_start) <= cfg.speed * (target - done')
    <3>1. decel_start <= done /\ Full < target - decel_start /\ target < Word
      BY <2>5 DEF Stopping
    <3>2. decel_start <= done' /\ state' = "DECELERATING" /\ speed' = Motor!AtLeastOne(share \div parts)
      BY <1>1, <1>2, <1>5, <2>2, <3>1
    <3> DEFINE n == target - decel_start
               x == cfg.speed * (target - done')
    <3>3. n \in 0 .. Word - 1 /\ n >= 1 /\ x \in Nat
      BY <1>4, <1>5, <3>1
    <3>4. parts = n
      <4>1. n % Word = n
        <5> HIDE DEF n
        <5> QED
          BY ONLY <1>4, <3>3, NoWrap
      <4> QED
        BY <3>3, <4>1 DEF Motor!AtLeastOne
    <3>5. share <= x
      BY <1>6
    <3> HIDE DEF share, parts, n, x
    <3>6. (share \div n) * n <= share /\ share \div n \in Nat
      <4> DEFINE q == share \div n
      <4>1. q \in Nat /\ share = n * q + (share % n) /\ share % n \in 0 .. n - 1
        BY <1>6, <3>3
      <4> HIDE DEF q
      <4>2. n * q = q * n /\ n * q \in Nat
        BY <3>3, <4>1
      <4>3. q * n <= share
        BY <1>6, <4>1, <4>2
      <4> QED
        BY <4>1, <4>3 DEF q
    <3>7. speed' = 1 \/ speed' * n <= x
      <4> DEFINE q == share \div n
      <4>1. speed' = Motor!AtLeastOne(q)
        BY <3>2, <3>4
      <4>2. q * n <= x /\ q \in Nat
        <5>1. q * n \in Nat
          BY <3>3, <3>6
        <5> QED
          BY <1>6, <3>3, <3>5, <3>6, <5>1
      <4> HIDE DEF q
      <4> QED
        BY <4>1, <4>2 DEF Motor!AtLeastOne
    <3> QED
      BY <3>1, <3>2, <3>7 DEF n, x
  <2>6. at \in {"stopping", "idle", "move_to"} =>
          /\ decel_start <= done'
          /\ state' = "DECELERATING"
    BY <1>1, <1>2, <1>5, <2>2 DEF Stopping
  <2> HIDE DEF share, parts
  <2>7. accel_steps <= done'
    BY <1>5, <2>2
  <2>8. /\ at = "decel" => seen.steps <= done' /\ seen.speed = Motor!Unread
        /\ at = "target" /\ seen.speed # Motor!Unread =>
             seen.when + Motor!Distance(seen.speed, Motor!Decel) <= target
    BY <1>1, <1>5 DEF Stopping, MotorTypes
  <2>9. Motor!Distance(seen'.speed, Motor!Decel') = Motor!Distance(seen.speed, Motor!Decel)
    BY <1>1 DEF Motor!Decel
  <2> QED
    BY <1>1, <1>3, <2>1, <2>3, <2>4, <2>5, <2>6, <2>7, <2>8, <2>9 DEF Stopping
<1> QED
  BY <1>8, <1>9, <1>10, <1>11, <1>12

\* Taking and configuring a stepper keeps it.
LEMMA GetKept ==
  ASSUME MotorInv, NEW c \in Motor!Configs, Motor!Get(c)
  PROVE  MotorInv'
<1> USE DEF MotorInv, Motor!Get, Motor!profile, Motor!goals, InStop
<1>1. MotorTypes'
  BY DEF MotorTypes, Motor!Moving
<1>2. InUseFits'
  BY DEF InUseFits
<1>3. TimerFits'
  BY DEF TimerFits, MotorTypes, Unraced, InUseFits, OnCourse, OnRamp, Stopping, Motor!ProfileFits, Motor!Moving
<1>4. Unraced'
  BY DEF Unraced, MotorTypes, TimerFits, InUseFits, OnCourse, OnRamp, Stopping, Motor!ProfileFits, Motor!Moving
<1>5. Motor!ProfileFits'
  BY DEF Motor!ProfileFits
<1>6. OnCourse'
  BY DEF OnCourse
<1>7. OnRamp'
  BY DEF OnRamp, Full, Motor!Decel, Motor!Moving
<1>8. Stopping'
  BY DEF Stopping, Full, Motor!Decel
<1> QED
  BY <1>1, <1>2, <1>3, <1>4, <1>5, <1>6, <1>7, <1>8

\* A new speed between or within moves keeps it.
LEMMA SetSpeedKept ==
  ASSUME MotorInv, NEW v \in Speeds, Motor!SetSpeed(v)
  PROVE  MotorInv'
<1> USE DEF MotorInv, Motor!SetSpeed, Motor!profile, Motor!goals, InStop
<1>1. MotorTypes'
  BY DEF MotorTypes, Motor!Moving
<1>2. InUseFits'
  <2>1. cfg \in Motor!Configs
    BY DEF InUseFits
  <2>2. cfg' \in Motor!Configs
    BY <2>1 DEF Motor!Configs
  <2> QED
    BY <2>2 DEF InUseFits
<1>3. TimerFits'
  BY DEF TimerFits
<1>4. Unraced'
  BY DEF Unraced, Motor!Moving
<1>5. Motor!ProfileFits'
  BY DEF Motor!ProfileFits
<1>6. OnCourse'
  BY DEF OnCourse
<1>7. OnRamp'
  BY DEF OnRamp, Full, Motor!Decel, Motor!Moving
<1>8. Stopping'
  BY DEF Stopping, Full, Motor!Decel
<1> QED
  BY <1>1, <1>2, <1>3, <1>4, <1>5, <1>6, <1>7, <1>8

\* A move begins, from stepper_move or from stepper_move_to.
LEMMA BeginKept ==
  ASSUME MotorInv, in_use, at \in {"idle", "move_to"}, NEW n \in Int,
         Motor!Abs(n) < Word, Motor!Begin(n), goal' \in Int,
         request' \in [delta : -2 * MaxPosition .. 2 * MaxPosition, to : Int], seen' = seen,
         (excuses' = {} /\ goal' = position + n) \/ excuses' = {"stale"}
  PROVE  MotorInv'
<1> DEFINE total == Motor!Abs(n)
           p == Motor!Profile(total)
           turn == IF n >= 0 THEN 1 ELSE -1
<1>1. /\ state = "IDLE" /\ state' = state /\ direction' = turn /\ target' = total /\ done' = 0
      /\ speed' = 1 /\ accel_steps' = p.accel_steps /\ decel_start' = p.decel_start
      /\ at' = "move" /\ in_use' = in_use /\ cfg' = cfg /\ position' = position /\ timer' = timer
  BY DEF Motor!Begin
<1>2. cfg \in Motor!Configs /\ ~timer
  BY <1>1 DEF MotorInv, InUseFits, TimerFits
<1>3. total \in Nat /\ turn \in {1, -1} /\ turn * total = n
  BY DEF Motor!Abs
<1>4. /\ p.accel_steps \in Nat /\ p.decel_start \in Nat
      /\ p.accel_steps <= p.decel_start /\ p.decel_start <= total
      /\ p.decel_start <= p.accel_steps \/ p.decel_start = total - Full
  BY <1>2, <1>3, ProfileFitsMove DEF Full
<1>5. Full' = Full
  BY <1>1 DEF Full, Motor!Decel
<1>6. total < Word /\ excuses' # {"stopped"} /\ "stopped" \notin excuses'
  OBVIOUS
<1> HIDE DEF total, p, turn
<1>7. MotorTypes'
  BY <1>1, <1>3, <1>4 DEF MotorInv, MotorTypes
<1>8. InUseFits' /\ TimerFits' /\ Unraced' /\ Motor!ProfileFits'
  BY <1>1, <1>2, <1>4, <1>6 DEF InUseFits, TimerFits, Unraced, Motor!ProfileFits, InStop
<1>9. OnCourse'
  <2> SUFFICES ASSUME excuses' \subseteq {"reconfigured"}
               PROVE  position' + direction' * (target' - done') = goal' /\ done' <= target'
    BY <1>1 DEF OnCourse
  <2>1. goal' = position + n
    OBVIOUS
  <2>2. target' - done' = total
    BY <1>1, <1>3
  <2> QED
    BY <1>1, <1>3, <2>1, <2>2
<1>10. OnRamp'
  BY <1>1, <1>4, <1>5, <1>6 DEF OnRamp
<1>11. Stopping'
  BY <1>6 DEF Stopping
<1> QED
  BY <1>7, <1>8, <1>9, <1>10, <1>11 DEF MotorInv

\* stepper_move, up to its first writes.
LEMMA MoveKept ==
  ASSUME MotorInv, NEW n \in -MaxMove .. MaxMove, Motor!Move(n)
  PROVE  MotorInv'
<1>1. n \in Int /\ Motor!Abs(n) < Word
  BY DevicesAssumption DEF Motor!Abs
<1>2. goal' \in Int /\ goal' = position + n /\ request' = request /\ seen' = seen
  BY <1>1 DEF Motor!Move, MotorInv, MotorTypes
<1>3. request' \in [delta : -2 * MaxPosition .. 2 * MaxPosition, to : Int]
  BY <1>2 DEF MotorInv, MotorTypes
<1>4. in_use /\ at = "idle" /\ Motor!Begin(n) /\ excuses' = {}
  BY DEF Motor!Move
<1> QED
  BY <1>1, <1>2, <1>3, <1>4, BeginKept

\* The move of stepper_move_to, which may be refused by now.
LEMMA MoveToCallsKept ==
  ASSUME MotorInv, Motor!MoveToCalls
  PROVE  MotorInv'
<1> DEFINE n == request.delta
<1>1. /\ n \in -2 * MaxPosition .. 2 * MaxPosition /\ n \in Int /\ request.to \in Int
      /\ position \in Int
  BY DevicesAssumption DEF MotorInv, MotorTypes
<1>2. Motor!Abs(n) < Word
  <2> HIDE DEF n
  <2> QED
    BY <1>1, DevicesAssumption DEF Motor!Abs
<1>3. at = "move_to" /\ in_use
  BY DEF Motor!MoveToCalls, MotorInv, InUseFits
<1>7. seen' = seen
  BY DEF Motor!MoveToCalls
<1>4. request' \in [delta : -2 * MaxPosition .. 2 * MaxPosition, to : Int]
  <2>1. 0 \in -2 * MaxPosition .. 2 * MaxPosition
    BY DevicesAssumption
  <2> QED
    BY <2>1 DEF Motor!MoveToCalls, Motor!NoRequest
<1>5. CASE /\ Motor!Begin(n) /\ goal' = request.to
           /\ excuses' = IF position + n = request.to THEN {} ELSE {"stale"}
  <2>1. goal' \in Int /\ ((excuses' = {} /\ goal' = position + n) \/ excuses' = {"stale"})
    BY <1>1, <1>5
  <2> HIDE DEF n
  <2> QED
    BY <1>1, <1>2, <1>3, <1>4, <1>5, <1>7, <2>1, BeginKept
<1>6. CASE state # "IDLE" /\ at' = "idle" /\ UNCHANGED <<in_use, cfg, state, position, target,
             done, direction, speed, accel_steps, decel_start, timer, goal, excuses>>
  <2> USE DEF MotorInv
  <2>1. MotorTypes'
    BY <1>4, <1>6, <1>7 DEF MotorTypes
  <2>2. InUseFits' /\ TimerFits' /\ Unraced' /\ Motor!ProfileFits'
    BY <1>3, <1>6 DEF InUseFits, TimerFits, Unraced, Motor!ProfileFits, InStop
  <2>3. OnCourse' /\ OnRamp' /\ Stopping'
    BY <1>3, <1>6 DEF OnCourse, OnRamp, Stopping, Full, Motor!Decel
  <2> QED
    BY <2>1, <2>2, <2>3
<1> QED
  BY <1>5, <1>6 DEF Motor!MoveToCalls, Motor!profile

\* stepper_move_to, up to the call of stepper_move, keeps it.
LEMMA MoveToKept ==
  ASSUME MotorInv, NEW p \in -MaxPosition .. MaxPosition, Motor!MoveTo(p)
  PROVE  MotorInv'
<1> USE DEF MotorInv, Motor!MoveTo, Motor!profile, Motor!goals, InStop
<1>1. MotorTypes'
  <2>1. p - position \in -2 * MaxPosition .. 2 * MaxPosition /\ p \in Int
    BY DevicesAssumption DEF MotorTypes, Motor!Abs
  <2> QED
    BY <2>1 DEF MotorTypes, Motor!profile
<1>2. InUseFits'
  BY DEF InUseFits
<1>3. TimerFits'
  BY DEF TimerFits
<1>4. Unraced'
  BY DEF Unraced, Motor!Moving
<1>5. Motor!ProfileFits'
  BY DEF Motor!ProfileFits
<1>6. OnCourse'
  BY DEF OnCourse
<1>7. OnRamp'
  BY DEF OnRamp, Full, Motor!Decel, Motor!Moving
<1>8. Stopping'
  BY DEF Stopping, Full, Motor!Decel
<1> QED
  BY <1>1, <1>2, <1>3, <1>4, <1>5, <1>6, <1>7, <1>8

-----------------------------------------------------------------------------
(* The benches together *)

\* The inductive invariant of all of them: that of the device on the bench, and
\* those of limiters, controller and average, which rest on the other benches.
DevicesInv ==
  /\ bench = "motor" => MotorInv
  /\ bench = "robot" => RobotInv
  /\ bench = "pin"   => PinInv
  /\ bench = "limit" => LimitInv
  /\ bench = "shaft" => ShaftInv
  /\ LimitersInv /\ PidInv /\ AverageInv

\* What is not on the bench rests, and so does all of it in a stuttering step.
LEMMA LimitersRest == LimitersInv /\ UNCHANGED Loop!limitVars => LimitersInv'
BY DEF LimitersInv, Loop!limitVars, Brakes

\* The same of the controller.
LEMMA PidRests == PidInv /\ UNCHANGED Loop!pidVars => PidInv'
BY DEF PidInv, Loop!pidVars

\* The same of the average.
LEMMA AverageRests == AverageInv /\ UNCHANGED Loop!averageVars => AverageInv'
BY DEF AverageInv, Loop!averageVars, Loop!AverageExact, Loop!Total

\* The same of all three.
LEMMA LoopRests ==
  ASSUME LimitersInv, PidInv, AverageInv, UNCHANGED loopOnly
  PROVE  LimitersInv' /\ PidInv' /\ AverageInv'
BY LimitersRest, PidRests, AverageRests
   DEF loopOnly, Loop!limitVars, Loop!pidVars, Loop!averageVars

\* The same of the stepper.
LEMMA MotorRests == MotorInv /\ UNCHANGED <<shared, motorOnly>> => MotorInv'
BY DEF MotorInv, shared, motorOnly, MotorTypes, InUseFits, TimerFits, Unraced, OnCourse, OnRamp,
       Stopping, Full, Motor!ProfileFits, Motor!Decel

\* The same of the robot, the pin, the endstop and the encoder.
LEMMA SignalsRest ==
  /\ RobotInv /\ UNCHANGED <<shared, robotOnly>> => RobotInv'
  /\ PinInv /\ UNCHANGED <<shared, pinOnly>> => PinInv'
  /\ LimitInv /\ UNCHANGED <<shared, limitOnly>> => LimitInv'
  /\ ShaftInv /\ UNCHANGED <<shared, shaftOnly>> => ShaftInv'
<1>1. RobotInv /\ UNCHANGED <<shared, robotOnly>> => RobotInv'
  <2>1. UNCHANGED <<shared, robotOnly>> =>
          faulted' = faulted /\ call' = call /\ raced' = raced /\ heard' = heard /\ state' = state
    BY DEF shared, robotOnly
  <2>2. faulted' = faulted /\ call' = call /\ heard' = heard /\ state' = state
          => (RobotCallFits' <=> RobotCallFits)
    BY DEF RobotCallFits
  <2> QED
    BY <2>1, <2>2 DEF RobotInv
<1>2. PinInv /\ UNCHANGED <<shared, pinOnly>> => PinInv'
  BY DEF PinInv, Pin!DebounceSound, shared, pinOnly
<1>3. LimitInv /\ UNCHANGED <<shared, limitOnly>> => LimitInv'
  <2>1. UNCHANGED <<shared, limitOnly>> =>
          /\ at' = at /\ cb' = cb /\ cb_arg' = cb_arg /\ isr' = isr
          /\ new' = new /\ last' = last /\ replaced' = replaced
    BY DEF shared, limitOnly
  <2> QED
    BY <2>1 DEF LimitInv
<1>4. ShaftInv /\ UNCHANGED <<shared, shaftOnly>> => ShaftInv'
  BY DEF ShaftInv, Shaft!TicksReported, shared, shaftOnly
<1> QED
  BY <1>1, <1>2, <1>3, <1>4

\* Every device starts as its own Init says.
LEMMA DevicesStart == MCInit => DevicesInv
<1> SUFFICES ASSUME MCInit
             PROVE  DevicesInv
  OBVIOUS
<1>1. MotorInv /\ RobotInv
  BY MotorStarts, RobotStarts DEF MCInit
<1>2. PinInv /\ LimitInv /\ ShaftInv
  BY PinStarts, LimitStarts, ShaftStarts DEF MCInit
<1>3. LimitersInv /\ PidInv
  BY LimitersStart, PidStarts DEF MCInit
<1>4. AverageInv
  BY NothingFed DEF MCInit, Loop!Init
<1> QED
  BY <1>1, <1>2, <1>3, <1>4 DEF DevicesInv

\* Every step of the stepper keeps its invariant.
LEMMA MotorKept ==
  ASSUME MotorInv, Motor!Next
  PROVE  MotorInv'
BY GetKept, SetSpeedKept, MoveKept, MoveToKept, MoveToCallsKept, MoveStateKept, MoveStartKept,
   StopKept, StopReadsKept, StopDecelKept, StopReadsStepsKept, StopReadsSpeedKept, StopTargetKept,
   StopStateKept, EmergencyStopKept, PutKept,
   PulseEndsKept, PulseStepsKept
   DEF Motor!Next

\* A step of the device on the bench.
DeviceStep == \/ PulsesStep \/ MotorStep \/ RobotStep
              \/ PinStep \/ LimitStep \/ ShaftStep \/ LoopStep

\* Every step on every bench keeps all of them.
LEMMA DevicesKept ==
  ASSUME DevicesInv, UNCHANGED bench, DeviceStep
  PROVE  DevicesInv'
<1> USE DEF DevicesInv
<1>1. CASE PulsesStep
  BY <1>1, LoopRests DEF PulsesStep
<1>2. CASE MotorStep
  BY <1>2, LoopRests, MotorKept DEF MotorStep
<1>3. CASE RobotStep
  BY <1>3, LoopRests, RobotKept DEF RobotStep
<1>4. CASE PinStep
  BY <1>4, LoopRests, PinKept DEF PinStep
<1>5. CASE LimitStep
  BY <1>5, LoopRests, LimitKept DEF LimitStep
<1>6. CASE ShaftStep
  BY <1>6, LoopRests, ShaftKept DEF ShaftStep
<1>7. CASE LoopStep
  <2>1. CASE bench = "limits" /\ Loop!LimitsNext
    BY <2>1, LimitersKept, PidRests, AverageRests
       DEF Loop!LimitsNext, Loop!pidVars, Loop!averageVars
  <2>2. CASE bench = "pid" /\ Loop!PidNext
    BY <2>2, PidKept, LimitersRest, AverageRests
       DEF Loop!PidNext, Loop!limitVars, Loop!averageVars
  <2>3. CASE bench = "average" /\ Loop!AverageNext
    BY <2>3, AverageKept, LimitersRest, PidRests
       DEF Loop!AverageNext, Loop!limitVars, Loop!pidVars
  <2> QED
    BY <1>7, <2>1, <2>2, <2>3 DEF LoopStep
<1> QED
  BY <1>1, <1>2, <1>3, <1>4, <1>5, <1>6, <1>7 DEF DeviceStep

\* DevicesInv holds throughout, on whatever bench.
THEOREM DevicesInvariance == MCSpec => []DevicesInv
<1>1. MCInit => DevicesInv
  BY DevicesStart
<1>2. DevicesInv /\ [UNCHANGED bench /\ DeviceStep]_deviceVars => DevicesInv'
  <2>1. DevicesInv /\ UNCHANGED deviceVars => DevicesInv'
    BY LoopRests, MotorRests, SignalsRest DEF DevicesInv, deviceVars
  <2> QED
    BY <2>1, DevicesKept
<1> QED
  BY <1>1, <1>2, PTL DEF MCSpec, DeviceStep

\* stepper.c: whatever the thread calls and whenever the pulse interrupt and an
\* emergency stop fall between its writes, the timer runs exactly in the moving
\* states, an emergency stop holds, profiles fit their moves, and a move ends
\* where it should; for every word width, speed, acceleration and move.
THEOREM SteppersSound == MCSpec => []StepperSound
<1>1. DevicesInv => StepperSound
  <2> SUFFICES ASSUME MotorInv
               PROVE  Motor!StepperSound
    BY DEF DevicesInv, StepperSound
  <2>1. Motor!HaltHolds
    BY DEF MotorInv, Unraced, Motor!HaltHolds
  <2>2. ASSUME state = "IDLE", at = "idle", in_use, excuses \subseteq {"reconfigured"}
        PROVE  position = goal
    <3>1. position + direction * (target - done) = goal /\ done = target
      BY <2>2 DEF MotorInv, OnCourse
    <3>2. position \in Int /\ direction \in {1, -1} /\ target \in Nat
      BY DEF MotorInv, MotorTypes
    <3> QED
      BY <3>1, <3>2
  <2>3. ASSUME excuses = {"stopped"}
        PROVE  direction * (goal - position) >= 0
    BY <2>3 DEF MotorInv, Stopping
  <2> QED
    BY <2>1, <2>2, <2>3 DEF MotorInv, Motor!StepperSound, Motor!MovesEndRight
<1> QED
  BY <1>1, DevicesInvariance, PTL

\* robot_sm.c: between two calls of the thread a fault that was raised is in
\* force and the observer has been told the state, unless a fault interrupted a
\* call between its look-up and its store.
THEOREM FaultsHeldAndHeard == MCSpec => []FaultHeldAndHeard
<1>1. DevicesInv => FaultHeldAndHeard
  BY DEF DevicesInv, FaultHeldAndHeard, RobotInv, RobotCallFits, Robot!FaultHeldAndHeard
<1> QED
  BY <1>1, DevicesInvariance, PTL

\* endstop_drv.c, endstop.c, encoder.c, limiter.c, pid.c and filter.c: callbacks
\* keep the debounce window and their own arguments, ticks are told once, the
\* overshoot is at most a full brake, no windup outlasts the limits and the
\* running sum is that of the last inputs; for every window, limit and gain.
THEOREM SignalsAreSound == MCSpec => []SignalsSound
<1>1. DevicesInv => SignalsSound
  <2> SUFFICES ASSUME DevicesInv
               PROVE  SignalsSound
    OBVIOUS
  <2>1. bench = "pin" => Pin!DebounceSound
    BY DEF DevicesInv, PinInv
  <2>2. bench = "limit" => Limit!CallbackKeepsArgument
    BY DEF DevicesInv, LimitInv, Limit!CallbackKeepsArgument
  <2>3. bench = "shaft" => Shaft!TicksReported
    BY DEF DevicesInv, ShaftInv
  <2>4. Loop!OvershootBounded /\ Loop!NoWindup /\ Loop!AverageExact
    BY LimitersSound, PidSound DEF DevicesInv, AverageInv
  <2> QED
    BY <2>1, <2>2, <2>3, <2>4 DEF SignalsSound
<1> QED
  BY <1>1, DevicesInvariance, PTL

\* The bench of the step pulses is StepperDrv, so what holds of the one holds of
\* the other: arrival at the commanded step, and within half a step of the line.
THEOREM PulsesOnTheBench == MCSpec => []PulsesExact
<1>1. MCInit => Init
  BY DEF MCInit
<1>2. [UNCHANGED bench /\ DeviceStep]_deviceVars => [Next]_vars
  BY DEF DeviceStep, PulsesStep, MotorStep, RobotStep, PinStep, LimitStep, ShaftStep, LoopStep,
         deviceVars
<1>3. MCSpec => Spec
  BY <1>1, <1>2, PTL DEF MCSpec, DeviceStep, Spec
<1> QED
  BY <1>3, Exact, PTL
=============================================================================
