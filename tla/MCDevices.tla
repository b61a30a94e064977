------------------------------ MODULE MCDevices ------------------------------
(* Nine benches of the legacy framework, one behaviour on one of them: the    *)
(* step pulses of three axes, with short segments; a stepper with its         *)
(* interrupts; the robot's state machine; an endstop pin, an endstop handle   *)
(* and an encoder with their interrupts; limiters, controller, average.       *)
EXTENDS StepperDrv

CONSTANTS Word, Speeds, Accels, Decels, MaxMove, MaxPosition,
          Reasons, DebounceUs, MaxTime, Pins, Nobody, MaxCount, Callbacks, Null,
          Wanted, MaxAccel, MaxSpeed, MaxRate, Errors, Gains, SampleTime, IntegralMax,
          Samples, Window

\* Words are those of unsigned integers, wide enough for the moves; no configured
\* acceleration makes Distance divide by zero; the limiters refuse limits that are
\* not positive and the controller such a sample time; all are whole here.
ASSUME DevicesAssumption ==
  /\ Word \in Nat \ {0} /\ Word % 2 = 0 /\ MaxMove < Word /\ 2 * MaxPosition < Word
  /\ MaxMove \in Nat /\ MaxPosition \in Nat
  /\ Speeds \subseteq Nat /\ Accels \subseteq Nat /\ Decels \subseteq Nat
  /\ \A a \in Accels \cup (Decels \ {0}) : (2 * a) % Word # 0
  /\ DebounceUs \in Nat /\ MaxTime \in Nat /\ MaxCount \in Nat
  /\ Nobody \notin Pins
  /\ Wanted \subseteq Int
  /\ MaxAccel \in Nat \ {0} /\ MaxSpeed \in Nat \ {0} /\ MaxRate \in Nat \ {0}
  /\ Errors \subseteq Int /\ Gains \subseteq Int
  /\ SampleTime \in Nat \ {0} /\ IntegralMax \in Nat
  /\ Samples \subseteq Int /\ Window \in Nat \ {0}

VARIABLES bench,
  in_use, cfg, state, position, target, done, direction,
  speed, accel_steps, decel_start, timer, at, request, seen, goal, excuses,
  fault_reason, call, heard, faulted, raced,
  last_trigger_us, last_state, level, pending, clock, told, gap, edge,
  owner, attached, count, last_count, cur, moved, reported,
  cb, cb_arg, isr, new, last, replaced,
  velocity, place, prev_output, lo, hi, integral, ki, run, buf, head, sum, fed

MCErrors == {-2, -1, 0, 1}
MCGains  == {-1, 0, 2}

Motor == INSTANCE Stepper
Robot == INSTANCE RobotSm
Pin   == INSTANCE EndstopDrv
Limit == INSTANCE Endstop
Shaft == INSTANCE Encoder
Loop  == INSTANCE Control WITH position <- place

shared     == <<in_use, state, at>>
motorOnly  == <<cfg, position, target, done, direction, speed, accel_steps, decel_start,
                timer, request, seen, goal, excuses>>
robotOnly  == <<fault_reason, call, heard, faulted, raced>>
pinOnly    == <<last_trigger_us, last_state, level, pending, clock, told, gap, edge>>
limitOnly  == <<cb, cb_arg, isr, new, last, replaced>>
shaftOnly  == <<owner, attached, count, last_count, cur, moved, reported>>
loopOnly   == <<velocity, place, prev_output, lo, hi, integral, ki, run, buf, head, sum, fed>>
deviceVars == <<vars, bench, shared, motorOnly, robotOnly, pinOnly, limitOnly, shaftOnly,
                loopOnly>>

MCInit == /\ bench \in {"pulses", "motor", "robot", "pin", "limit", "shaft",
                      "limits", "pid", "average"}
          /\ Init /\ Motor!Init /\ Robot!Init /\ Limit!Init /\ Shaft!Init
          /\ Pin!Init /\ Loop!Init
          /\ bench # "pin" => level = FALSE /\ clock = 0
          /\ bench # "pid" => ki = CHOOSE k \in Gains : TRUE

PulsesStep == /\ bench = "pulses" /\ Next
              /\ UNCHANGED <<shared, motorOnly, robotOnly, pinOnly, limitOnly, shaftOnly, loopOnly>>
MotorStep  == /\ bench = "motor" /\ Motor!Next
              /\ UNCHANGED <<vars, robotOnly, pinOnly, limitOnly, shaftOnly, loopOnly>>
RobotStep  == /\ bench = "robot" /\ Robot!Next
              /\ UNCHANGED <<vars, in_use, at, motorOnly, pinOnly, limitOnly, shaftOnly, loopOnly>>
PinStep    == /\ bench = "pin" /\ Pin!Next
              /\ UNCHANGED <<vars, state, at, motorOnly, robotOnly, limitOnly, shaftOnly, loopOnly>>
LimitStep  == /\ bench = "limit" /\ Limit!Next
              /\ UNCHANGED <<vars, state, motorOnly, robotOnly, pinOnly, shaftOnly, loopOnly>>
ShaftStep  == /\ bench = "shaft" /\ Shaft!Next
              /\ UNCHANGED <<vars, in_use, state, motorOnly, robotOnly, pinOnly, limitOnly, loopOnly>>
LoopStep   == /\ \/ bench = "limits"  /\ Loop!LimitsNext
                 \/ bench = "pid"     /\ Loop!PidNext
                 \/ bench = "average" /\ Loop!AverageNext
              /\ UNCHANGED <<vars, shared, motorOnly, robotOnly, pinOnly, limitOnly, shaftOnly>>

MCSpec == /\ MCInit
          /\ [][/\ UNCHANGED bench
                /\ \/ PulsesStep \/ MotorStep \/ RobotStep
                   \/ PinStep \/ LimitStep \/ ShaftStep \/ LoopStep]_deviceVars

\* The stepper stays halted, its profiles fit and its moves end right, unless an
\* interrupt fell inside a call that writes the same fields.
StepperSound == bench = "motor" => Motor!StepperSound
\* A fault is in force and the observer knows it, unless it interrupted a call.
FaultHeldAndHeard == bench = "robot" => Robot!FaultHeldAndHeard
\* The debounced pin, the endstop's callback and the encoder's count: what an
\* interrupt does between two accesses of a thread is neither lost nor mixed up.
\* Limiters, controller and average stay in bounds whatever they are fed with.
SignalsSound == /\ bench = "pin" => Pin!DebounceSound
                /\ bench = "limit" => Limit!CallbackKeepsArgument
                /\ bench = "shaft" => Shaft!TicksReported
                /\ Loop!OvershootBounded /\ Loop!NoWindup /\ Loop!AverageExact
=============================================================================
