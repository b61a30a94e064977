------------------------------- MODULE Control -------------------------------
(***************************************************************************)
(* src/framework/limiter.c, pid.c and the moving average of filter.c, fed  *)
(* with any sequence of inputs.  A float is a number here: what rounding   *)
(* adds is left out.  The limiters are called at a fixed rate, whose dt is *)
(* the unit of their time; the controller has a sample time of its own.    *)
(***************************************************************************)
EXTENDS Integers, FiniteSetsExt

CONSTANTS
  Wanted,              \* target positions, inputs of the rate limiter
  MaxAccel, MaxSpeed,  \* of the acceleration limiter
  MaxRate,             \* of the rate limiter
  Errors, Gains,       \* setpoint less measurement; the integral's gain ki
  SampleTime,          \* sample_time_s, its dt
  IntegralMax,         \* integral_max and, negated, integral_min
  Samples, Window       \* of the average; Window is its n

VARIABLES
  velocity, position, prev_output,  \* the acceleration limiter's, and the rate limiter's
  lo, hi,            \* history: the least and the greatest target so far
  integral, ki,      \* the controller's
  run,               \* history: for how many updates the integral was pushed one way
  buf, head, sum,    \* the average's
  fed                \* history: the last Window inputs, the newest first

limitVars   == <<velocity, position, prev_output, lo, hi>>
pidVars     == <<integral, ki, run>>
averageVars == <<buf, head, sum, fed>>

Empty == [i \in 0 .. Window - 1 |-> 0]
Still == [sign |-> 0, calls |-> 0]

Init == /\ velocity = 0 /\ position = 0 /\ prev_output = 0 /\ lo = 0 /\ hi = 0
        /\ integral = 0 /\ ki \in Gains /\ run = Still
        /\ buf = Empty /\ head = 0 /\ sum = 0 /\ fed = Empty

\* limiter_clamp, and the same written out.
Clamp(v, most) == IF v < -most THEN -most ELSE IF v > most THEN most ELSE v

\* Slip: the speed is not limited, only its changes.
DesiredUnlimited(p) == p - position

\* The velocity that would close the gap in one call.
Desired(p) == Clamp(p - position, MaxSpeed)

\* Both limiters follow the same target.
LimitersUpdate(p) ==
  /\ velocity' = velocity + Clamp(Desired(p) - velocity, MaxAccel)
  /\ position' = position + velocity'
  /\ prev_output' = prev_output + Clamp(p - prev_output, MaxRate)
  /\ lo' = Min({lo, p}) /\ hi' = Max({hi, p})

Sign(e) == IF e > 0 THEN 1 ELSE IF e < 0 THEN -1 ELSE 0

\* What an update adds to the integral: nothing without an error or a gain.
Push(e) == ki * e * SampleTime

\* pid_ctrl_update, its integral: the other two terms keep nothing but the last
\* error.  The run is counted as far as the integral can have to travel.
PidUpdate(e) ==
  /\ integral' = Clamp(integral + Push(e), IntegralMax)
  /\ run' = IF Push(e) = 0 THEN run
            ELSE [sign  |-> Sign(Push(e)),
                  calls |-> IF Sign(Push(e)) = run.sign
                            THEN Min({run.calls + 1, 2 * IntegralMax}) ELSE 1]
  /\ UNCHANGED ki

\* Any gain, zero and negative ones too, in the middle of a run.
SetGains(k) == ki' = k /\ UNCHANGED <<integral, run>>
PidReset    == integral' = 0 /\ run' = Still /\ UNCHANGED ki

\* The oldest input leaves the sum, the new one takes its place.
AverageUpdate(x) ==
  /\ sum' = sum - buf[head] + x
  /\ buf' = [buf EXCEPT ![head] = x]
  /\ head' = (head + 1) % Window
  /\ fed' = [i \in DOMAIN fed |-> IF i = 0 THEN x ELSE fed[i - 1]]

AverageReset == buf' = Empty /\ head' = 0 /\ sum' = 0 /\ fed' = Empty

LimitsNext  == \E p \in Wanted : LimitersUpdate(p) /\ UNCHANGED <<pidVars, averageVars>>
PidNext     == /\ \/ \E e \in Errors : PidUpdate(e)
                  \/ \E k \in Gains : SetGains(k)
                  \/ PidReset
               /\ UNCHANGED <<limitVars, averageVars>>
AverageNext == /\ \/ \E x \in Samples : AverageUpdate(x)
                  \/ AverageReset
               /\ UNCHANGED <<limitVars, pidVars>>

-----------------------------------------------------------------------------
\* The way of a full brake: MaxSpeed - MaxAccel, MaxSpeed - 2 * MaxAccel, ..., as
\* many calls as leave some speed.
Braking == LET calls == MaxSpeed \div MaxAccel
           IN (calls * (2 * MaxSpeed - MaxAccel * (calls + 1))) \div 2

\* The sum of the n newest inputs.
Total[n \in 0 .. Window] == IF n = 0 THEN 0 ELSE Total[n - 1] + fed[n - 1]

\* The acceleration limiter does not brake in time, but it passes the farthest
\* target by no more than it takes to brake from full speed; the rate limiter
\* passes none, however the targets jump.
OvershootBounded ==
  /\ velocity \in -MaxSpeed .. MaxSpeed
  /\ position \in lo - Braking .. hi + Braking
  /\ prev_output \in lo .. hi

\* No windup: whatever went before, errors and gains that push the integral one
\* way have turned it around after as many pushes as it takes from one limit to
\* the other, also when the gain is changed or is zero for a while on the way.
NoWindup == run.calls >= 2 * IntegralMax => integral = run.sign * IntegralMax

\* The running sum is that of the last Window inputs, through every wrap.
AverageExact ==
  /\ sum = Total[Window]
  /\ \A i \in DOMAIN fed : fed[i] = buf[(head - 1 - i) % Window]
=============================================================================
