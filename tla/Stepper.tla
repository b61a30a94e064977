------------------------------- MODULE Stepper -------------------------------
(***************************************************************************)
(* src/framework/stepper.c: one stepper of the pool.  A thread configures, *)
(* moves and stops it without locking out the pulse interrupt; an          *)
(* interrupt, that of an endstop say, may call stepper_emergency_stop at   *)
(* any time.  Its calls are split at the writes the others can see.        *)
(* Arithmetic is that of unsigned words, of Word values here.              *)
(***************************************************************************)
EXTENDS Integers

CONSTANTS Word,                 \* 2^32
          Speeds, Accels, Decels,  \* the values configured
          MaxMove, MaxPosition  \* bounds on a move, the steps before a stop, and where moves begin

Configs == [speed : Speeds, accel : Accels, decel : Decels]
Moving  == {"ACCELERATING", "RUNNING", "DECELERATING"}

VARIABLES
  in_use, cfg, state, position,
  target, done, direction,      \* target_steps, steps_done
  speed, accel_steps, decel_start,
  timer,      \* the pulse timer runs
  at,         \* how far the thread's call is
  request,    \* stepper_move_to's delta, and the position asked for
  seen,       \* what stepper_stop has read; history: the steps done when it read the speed
  goal,       \* history: where the last move should end
  excuses     \* history: what has happened to this move that the API rules out nowhere

profile == <<speed, accel_steps, decel_start>>
goals   == <<goal, request, seen>>
stepVars == <<in_use, cfg, state, position, target, done, direction, profile,
                 timer, at, goals, excuses>>

NoRequest == [delta |-> 0, to |-> 0]
Unread    == -1
NotSeen   == [steps |-> 0, speed |-> Unread, when |-> 0]

Abs(n) == IF n < 0 THEN -n ELSE n
AtLeastOne(n) == IF n > 0 THEN n ELSE 1

\* (v * v) / (2 * a) in unsigned words; 2 * a must not wrap to zero, which
\* stepper_configure does not see to.
Distance(v, a) == ((v * v) % Word) \div ((2 * a) % Word)

Decel == IF cfg.decel # 0 THEN cfg.decel ELSE cfg.accel

\* Slip: the second half of a triangle is a step too long.
ProfileTooLong(total) ==
  LET up == Distance(cfg.speed, cfg.accel)  down == Distance(cfg.speed, Decel)
  IN IF (up + down) % Word > total
     THEN [accel_steps |-> total \div 2, decel_start |-> total \div 2 - 1]
     ELSE [accel_steps |-> up, decel_start |-> total - down]

\* compute_profile: a trapezoid, or a triangle if there is no room for one.
Profile(total) ==
  LET up == Distance(cfg.speed, cfg.accel)  down == Distance(cfg.speed, Decel)
  IN IF (up + down) % Word > total
     THEN [accel_steps |-> total \div 2, decel_start |-> total \div 2]
     ELSE [accel_steps |-> up, decel_start |-> total - down]

Init ==
  /\ in_use = FALSE /\ cfg = [speed |-> 0, accel |-> 0, decel |-> 0] /\ state = "IDLE" /\ position = 0
  /\ target = 0 /\ done = 0 /\ direction = 1
  /\ speed = 0 /\ accel_steps = 0 /\ decel_start = 0
  /\ timer = FALSE /\ at = "idle" /\ request = NoRequest /\ seen = NotSeen
  /\ goal = 0 /\ excuses = {}

-----------------------------------------------------------------------------
(* The thread *)

\* stepper_get clears every field; stepper_configure follows at once.
Get(c) ==
  /\ ~in_use /\ at = "idle"
  /\ in_use' = TRUE /\ cfg' = c /\ state' = "IDLE" /\ position' = 0
  /\ target' = 0 /\ done' = 0 /\ direction' = 1
  /\ speed' = 0 /\ accel_steps' = 0 /\ decel_start' = 0
  /\ goal' = 0 /\ excuses' = {}
  /\ UNCHANGED <<timer, at, request, seen>>

\* stepper_set_speed, in the middle of a move too.
SetSpeed(v) ==
  /\ in_use /\ at = "idle"
  /\ cfg' = [cfg EXCEPT !.speed = v]
  /\ excuses' = IF state = "IDLE" THEN excuses ELSE excuses \cup {"reconfigured"}
  /\ UNCHANGED <<in_use, state, position, target, done, direction, profile, timer, at, goals>>

\* stepper_move is refused unless idle; it begins with fields nobody reads yet ...
Begin(n) ==
  /\ state = "IDLE"
  /\ direction' = IF n >= 0 THEN 1 ELSE -1
  /\ target' = Abs(n) /\ done' = 0 /\ speed' = 1
  /\ accel_steps' = Profile(Abs(n)).accel_steps
  /\ decel_start' = Profile(Abs(n)).decel_start
  /\ at' = "move"
  /\ UNCHANGED <<in_use, cfg, state, position, timer>>

Move(n) ==
  /\ in_use /\ at = "idle" /\ Abs(position) <= MaxPosition
  /\ Begin(n)
  /\ goal' = position + n /\ excuses' = {}
  /\ UNCHANGED <<request, seen>>

\* stepper_move_to takes the difference first, also while pulses are made ...
MoveTo(p) ==
  /\ in_use /\ at = "idle" /\ Abs(position) <= MaxPosition
  /\ request' = [delta |-> p - position, to |-> p]
  /\ at' = "move_to"
  /\ UNCHANGED <<in_use, cfg, state, position, target, done, direction, profile, timer, goal, seen,
                 excuses>>

\* ... and then calls stepper_move.
MoveToCalls ==
  /\ at = "move_to"
  /\ request' = NoRequest /\ UNCHANGED seen
  /\ \/ /\ Begin(request.delta)
        /\ goal' = request.to
        /\ excuses' = IF position + request.delta = request.to THEN {} ELSE {"stale"}
     \/ /\ state # "IDLE" /\ at' = "idle"
        /\ UNCHANGED <<in_use, cfg, state, position, target, done, direction, profile, timer, goal, excuses>>

\* ... then the state, whatever it is by now ...
MoveState ==
  /\ at = "move"
  /\ state' = "ACCELERATING" /\ at' = "start"
  /\ UNCHANGED <<in_use, cfg, position, target, done, direction, profile, timer, goals, excuses>>

\* ... and the timer.
MoveStart ==
  /\ at = "start"
  /\ timer' = TRUE /\ at' = "idle"
  /\ UNCHANGED <<in_use, cfg, state, position, target, done, direction, profile, goals, excuses>>

\* stepper_stop: nothing unless accelerating or running ...
Stop ==
  /\ in_use /\ at = "idle" /\ state \in {"RUNNING", "ACCELERATING"}
  /\ done <= MaxMove
  /\ at' = "stop"
  /\ excuses' = excuses \cup {"stopped"}
                  \cup (IF state = "ACCELERATING" THEN {"stopped early"} ELSE {})
                  \cup (IF cfg.speed * cfg.speed >= Word THEN {"wraps"} ELSE {})
  /\ UNCHANGED <<in_use, cfg, state, position, target, done, direction, profile, timer, goals>>

\* ... the steps done, which pulses may change from here on ...
StopReads ==
  /\ at = "stop"
  /\ seen' = [NotSeen EXCEPT !.steps = done] /\ at' = "decel"
  /\ UNCHANGED <<in_use, cfg, state, position, target, done, direction, profile, timer, goal,
                 request, excuses>>

StopDecel ==
  /\ at = "decel"
  /\ decel_start' = seen.steps /\ at' = "target"
  /\ excuses' = IF state = "DECELERATING" THEN excuses \cup {"overtaken"} ELSE excuses
  /\ UNCHANGED <<in_use, cfg, state, position, target, done, direction, speed, accel_steps,
                 timer, goals>>

\* ... the two summands of the new target, in the order the compiler likes; the
\* steps it may have kept from above, or read once more: the last time counts ...
StopReadsSteps ==
  /\ at = "target"
  /\ seen' = [seen EXCEPT !.steps = done]
  /\ UNCHANGED <<in_use, cfg, state, position, target, done, direction, profile, timer, at, goal,
                 request, excuses>>

StopReadsSpeed ==
  /\ at = "target" /\ seen.speed = Unread
  /\ seen' = [seen EXCEPT !.speed = speed, !.when = done]
  /\ UNCHANGED <<in_use, cfg, state, position, target, done, direction, profile, timer, at, goal,
                 request, excuses>>

\* ... the target, overtaken if the steps were read some pulses after the speed,
\* and behind the motor if pulses went on since they were ...
StopTarget ==
  /\ at = "target" /\ seen.speed # Unread
  /\ target' = seen.steps + Distance(seen.speed, Decel) /\ at' = "stopping"
  /\ excuses' = IF seen.steps > seen.when THEN excuses \cup {"overtaken"} ELSE excuses
  /\ seen' = NotSeen
  /\ UNCHANGED <<in_use, cfg, state, position, done, direction, profile, timer, goal, request>>

StopState ==
  /\ at = "stopping"
  /\ state' = "DECELERATING" /\ at' = "idle"
  /\ UNCHANGED <<in_use, cfg, position, target, done, direction, profile, timer, goals, excuses>>

Halt == /\ timer' = FALSE /\ state' = "FAULT" /\ speed' = 0
        /\ UNCHANGED <<cfg, position, target, done, direction, accel_steps, decel_start, at, goals>>

\* Called by the thread between its calls, or by an interrupt within one.
EmergencyStop ==
  /\ in_use /\ Halt /\ UNCHANGED in_use
  /\ excuses' = IF at \in {"idle", "move_to"} THEN excuses \cup {"halted"}
                ELSE excuses \cup {"halted", "raced"}

Put == in_use /\ at = "idle" /\ Halt /\ in_use' = FALSE /\ UNCHANGED excuses

-----------------------------------------------------------------------------
(* The pulse interrupt *)

\* All steps made: the timer stops and the callback is called.
PulseEnds ==
  /\ timer /\ done >= target
  /\ timer' = FALSE /\ state' = "IDLE"
  /\ excuses' = IF at \in {"idle", "move_to"} THEN excuses ELSE excuses \cup {"raced"}
  /\ UNCHANGED <<in_use, cfg, position, target, done, direction, profile, at, goals>>

\* The phase and the speed after a pulse that makes n steps done.
Accelerates(n) == n < accel_steps
Decelerates(n) == ~Accelerates(n) /\ n >= decel_start

PulseSteps ==
  /\ timer /\ done < target
  /\ done' = done + 1
  /\ position' = position + direction
  /\ \/ /\ Accelerates(done')
        /\ state' = "ACCELERATING"
        /\ speed' = AtLeastOne(((cfg.accel * done') % Word) \div AtLeastOne(accel_steps))
     \/ /\ Decelerates(done')
        /\ state' = "DECELERATING"
        /\ speed' = AtLeastOne(((cfg.speed * (target - done')) % Word)
                                 \div AtLeastOne((target - decel_start) % Word))
     \/ /\ ~Accelerates(done') /\ ~Decelerates(done')
        /\ state' = "RUNNING"
        /\ speed' = cfg.speed
  /\ UNCHANGED <<in_use, cfg, target, direction, accel_steps, decel_start, timer, at, goals, excuses>>

Next ==
  \/ \E c \in Configs : Get(c)
  \/ \E v \in Speeds : SetSpeed(v)
  \/ \E n \in -MaxMove .. MaxMove : Move(n)
  \/ \E p \in -MaxPosition .. MaxPosition : MoveTo(p)
  \/ MoveToCalls
  \/ MoveState \/ MoveStart
  \/ Stop \/ StopReads \/ StopDecel \/ StopReadsSteps \/ StopReadsSpeed \/ StopTarget \/ StopState
  \/ EmergencyStop \/ Put \/ PulseEnds \/ PulseSteps

-----------------------------------------------------------------------------
\* Between the calls of the thread the timer runs exactly while the state says
\* that the motor moves, and an emergency stop holds until the stepper is given
\* back; only an interrupt that fell inside a call can have been overwritten.
HaltHolds ==
  at = "idle" /\ "raced" \notin excuses =>
     /\ timer <=> state \in Moving
     /\ "halted" \in excuses => state = "FAULT"

\* A profile fits into its move, whatever wraps on the way.
ProfileFits == at = "move" => accel_steps <= decel_start /\ decel_start <= target

\* A move that nothing cut short ends where it should.  A stop lengthens a move
\* only if it came during the acceleration, whose ramp is not bounded by the
\* configured speed, or after that speed was changed, or if the pulses went on to
\* the move's own ramp before the stop had stored its own, or between its reads
\* of the speed and of the steps, or if the square of the configured speed wraps
\* and that of a lower one does not.  The last pulse of a move may fall between
\* stepper_move_to's difference and its move: the difference is stale then.
MovesEndRight ==
  /\ state = "IDLE" /\ at = "idle" /\ in_use /\ excuses \subseteq {"reconfigured"} => position = goal
  /\ excuses = {"stopped"} => direction * (goal - position) >= 0

StepperSound == HaltHolds /\ ProfileFits /\ MovesEndRight
=============================================================================
