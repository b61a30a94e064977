---------------------------- MODULE MotionPipeline ----------------------------
(***************************************************************************)
(* The legacy motion program: main on the host (app_main.c), the shell on  *)
(* Zephyr (app_glue_zephyr.c), parses lines into cmd_q, the planner thread *)
(* turns commands into segments in seg_q, the pulse thread consumes them   *)
(* (app_glue_robotos.c, motion_planner.c).                                 *)
(* The threads share the two queues, the parser's mode and the application *)
(* state machine, the last two without a lock.  One axis stands for the    *)
(* three, which are planned alike; a queue call with a timeout that finds  *)
(* no room retries until there is some or the time is up.                  *)
(***************************************************************************)
EXTENDS Integers, Sequences

CONSTANTS
  CmdDepth,  \* CONFIG_APP_CMD_QUEUE_DEPTH
  SegDepth,  \* CONFIG_APP_MAX_MOTION_SEGMENTS
  Unit,      \* positions are counted in fractions of a step, Unit to a step
  Targets,   \* the X words of the lines, in fractions of a step
  MaxLines   \* bound on the lines and shell commands typed

ASSUME PipelineAssumption ==
  /\ CmdDepth \in Nat \ {0} /\ SegDepth \in Nat \ {0} /\ Unit \in Nat \ {0}
  /\ Targets \subseteq Int /\ MaxLines \in Nat

VARIABLES
  board,     \* "host" or "zephyr"
  main,      \* where main, or main and then the shell, is: at a command it
             \* dispatches, "read", "send", "exited"
  line,      \* the line it has parsed
  absolute,  \* s_absolute of the parser
  cmd_q, seg_q,
  planner,   \* where the planner thread is
  cmd, seg, target,  \* locals of motion_planner_tick
  pos,       \* the planner's position
  pulse,     \* the pulse thread: whether it has a segment, and its steps
  state, next,  \* the application state machine
  lines,     \* lines and shell commands typed
  done,      \* history: the steps asked of the stepper driver
  origin,    \* history: what done will be when all queued at the last G28 is done
  moves      \* history: the segments queued since the last G28

mainVars    == <<board, main, line, absolute, lines>>
plannerVars == <<planner, cmd, seg, target, pos, origin, moves>>
pulseVars   == <<pulse, done>>
smVars      == <<state, next>>
pipelineVars == <<mainVars, plannerVars, pulseVars, smVars, cmd_q, seg_q>>

Sm == INSTANCE AppSm WITH Threads <- {"main", "planner"}

Lines  == [type : {"move"}, x : Targets] \cup [type : {"home", "abs", "rel", "other"}, x : {0}]
NoLine == [type |-> "none", x |-> 0]
Idle   == [busy |-> FALSE, steps |-> 0]

\* The commands main dispatches, each with what follows it: the host's main
\* takes the machine through its start, on Zephyr the rest is the shell's.
Script ==
  [host   |-> [INIT_DONE |-> "HOME", HOME |-> "HOMING_DONE", HOMING_DONE |-> "RUN", RUN |-> "read"],
   zephyr |-> [INIT_DONE |-> "read", HOME |-> "read", RUN |-> "read", STOP |-> "read"]]

PipelineInit ==
  /\ board \in DOMAIN Script
  /\ main = "INIT_DONE" /\ line = NoLine /\ absolute = TRUE /\ lines = 0
  /\ cmd_q = <<>> /\ seg_q = <<>>
  /\ planner = "tick" /\ cmd = NoLine /\ seg = 0 /\ target = 0 /\ pos = 0
  /\ pulse = Idle
  /\ Sm!SmInit
  /\ done = 0 /\ origin = 0 /\ moves = 0

\* The test queue_push_locked makes under the queue's lock.
HasRoom(q, depth) == Len(q) < depth

-----------------------------------------------------------------------------
(* main *)

\* The threads run already when main dispatches its first command.
MainDispatch ==
  /\ main \in DOMAIN Script[board]
  /\ \/ Sm!LooksUp("main", main) /\ UNCHANGED main
     \/ Sm!Ends("main") /\ main' = Script[board][main]
  /\ UNCHANGED <<board, line, absolute, lines, plannerVars, pulseVars, cmd_q, seg_q>>

\* ro home, ro run, ro stop: dispatched whatever the machine's state.
ShellCommand ==
  /\ board = "zephyr" /\ main = "read" /\ lines < MaxLines
  /\ main' \in {"HOME", "RUN", "STOP"} /\ lines' = lines + 1
  /\ UNCHANGED <<board, line, absolute, plannerVars, pulseVars, smVars, cmd_q, seg_q>>

\* gcode_parse_line switches the mode while it parses.
ModeAfter(l) == CASE l.type = "abs" -> TRUE [] l.type = "rel" -> FALSE [] OTHER -> absolute

\* fgets and the parser, or "ro gcode" in the shell.
ReadLine ==
  /\ main = "read" /\ lines < MaxLines
  /\ line' \in Lines
  /\ absolute' = ModeAfter(line')
  /\ lines' = lines + 1 /\ main' = "send"
  /\ UNCHANGED <<board, plannerVars, pulseVars, smVars, cmd_q, seg_q>>

\* The line is queued, or given up after its timeout.
SendLine ==
  /\ main = "send"
  /\ cmd_q' = IF HasRoom(cmd_q, CmdDepth) THEN Append(cmd_q, line) ELSE cmd_q
  /\ main' = "read" /\ line' = NoLine
  /\ UNCHANGED <<board, absolute, lines, plannerVars, pulseVars, smVars, seg_q>>

\* End of the host's input: main returns, which ends every thread.
Exit == /\ board = "host" /\ main = "read" /\ main' = "exited"
        /\ UNCHANGED <<board, line, absolute, lines, plannerVars, pulseVars, smVars, cmd_q, seg_q>>

-----------------------------------------------------------------------------
(* The planner thread.  Its timer is never started, so it never waits.      *)

Running == main # "exited"
At(from, to) == Running /\ planner = from /\ planner' = to

\* The sum of first and of the numbers in q.
Total(q, first) ==
  LET sum[n \in 0 .. Len(q)] == IF n = 0 THEN first ELSE sum[n - 1] + q[n]
  IN sum[Len(q)]

\* History: the steps of the segments taken or queued.
OnTheWay == Total(seg_q, pulse.steps)

\* A command without motion: only G28 changes anything, the position.
TakesOther ==
  /\ cmd_q # <<>> /\ Head(cmd_q).type # "move"
  /\ At("tick", "tick")
  /\ cmd_q' = Tail(cmd_q)
  /\ IF Head(cmd_q).type = "home"
       THEN pos' = 0 /\ origin' = done + OnTheWay /\ moves' = 0
       ELSE UNCHANGED <<pos, origin, moves>>
  /\ UNCHANGED <<cmd, seg, target, mainVars, pulseVars, smVars, seg_q>>

TakesMove ==
  /\ cmd_q # <<>> /\ Head(cmd_q).type = "move"
  /\ At("tick", "plan")
  /\ cmd' = Head(cmd_q) /\ cmd_q' = Tail(cmd_q)
  /\ UNCHANGED <<seg, target, pos, origin, moves, mainVars, pulseVars, smVars, seg_q>>

\* roundf: to the nearest step, halves away from zero.
Round(d) == LET n == (2 * (IF d < 0 THEN -d ELSE d) + Unit) \div (2 * Unit)
            IN IF d < 0 THEN -n ELSE n

\* The mode is the one the parser is in now.
Plan ==
  /\ At("plan", "send")
  /\ target' = IF absolute THEN cmd.x ELSE pos + cmd.x
  /\ seg' = Round(target' - pos)
  /\ cmd' = NoLine
  /\ UNCHANGED <<pos, origin, moves, mainVars, pulseVars, smVars, cmd_q, seg_q>>

\* The segment is queued and the position follows.
QueueSegment ==
  /\ HasRoom(seg_q, SegDepth)
  /\ At("send", "tick")
  /\ seg_q' = Append(seg_q, seg) /\ moves' = moves + 1
  /\ pos' = target
  /\ seg' = 0 /\ target' = 0
  /\ UNCHANGED <<cmd, origin, mainVars, pulseVars, smVars, cmd_q>>

\* A timed-out send: Zephyr's RO_EAGAIN is for planner_entry a queue without commands.
AfterTimeout == IF board = "zephyr" THEN "state?" ELSE "tick"

\* Slip: the position is updated whatever became of the segment.
DropSegmentMoves ==
  /\ ~HasRoom(seg_q, SegDepth)
  /\ At("send", AfterTimeout)
  /\ pos' = target
  /\ seg' = 0 /\ target' = 0
  /\ UNCHANGED <<cmd, origin, moves, mainVars, pulseVars, smVars, cmd_q, seg_q>>

\* No room until the timeout: the command is lost and the position stays.
DropSegment ==
  /\ ~HasRoom(seg_q, SegDepth)
  /\ At("send", AfterTimeout)
  /\ seg' = 0 /\ target' = 0
  /\ UNCHANGED <<cmd, pos, origin, moves, mainVars, pulseVars, smVars, cmd_q, seg_q>>

quietly == <<cmd, seg, target, pos, origin, moves, mainVars, pulseVars, cmd_q, seg_q>>

\* Slip: an empty queue is not told from a failing one.
FindsNothingIgnored == cmd_q = <<>> /\ At("tick", "tick") /\ UNCHANGED <<quietly, smVars>>

\* RO_EAGAIN: is the machine out of work?
FindsNothing == cmd_q = <<>> /\ At("tick", "state?") /\ UNCHANGED <<quietly, smVars>>

ChecksState == /\ At("state?", IF state = "RUNNING" THEN "count?" ELSE "tick")
               /\ UNCHANGED <<quietly, smVars>>

\* Slip: a machine without commands is taken to be without work.
ChecksCountNot == At("count?", "empty") /\ UNCHANGED <<quietly, smVars>>

ChecksCount == /\ At("count?", IF seg_q = <<>> THEN "empty" ELSE "tick")
               /\ UNCHANGED <<quietly, smVars>>

ReportsEmpty ==
  /\ \/ Sm!LooksUp("planner", "QUEUE_EMPTY") /\ At("empty", "empty")
     \/ Sm!Ends("planner") /\ At("empty", "tick")
  /\ UNCHANGED quietly

-----------------------------------------------------------------------------
(* The pulse thread.  The code takes and logs a segment where the stepper   *)
(* driver is meant to be called; done counts the steps asked of the driver. *)

PulseTakes ==
  /\ Running /\ ~pulse.busy /\ seg_q # <<>>
  /\ pulse' = [busy |-> TRUE, steps |-> Head(seg_q)]
  /\ seg_q' = Tail(seg_q)
  /\ UNCHANGED <<done, mainVars, plannerVars, smVars, cmd_q>>

PulseMakes ==
  /\ Running /\ pulse.busy
  /\ done' = done + pulse.steps
  /\ pulse' = Idle
  /\ UNCHANGED <<mainVars, plannerVars, smVars, cmd_q, seg_q>>

-----------------------------------------------------------------------------
PlannerStep == \/ TakesOther \/ TakesMove \/ Plan \/ QueueSegment \/ DropSegment
               \/ FindsNothing \/ ChecksState \/ ChecksCount \/ ReportsEmpty
PulseStep   == PulseTakes \/ PulseMakes
MainStep    == MainDispatch \/ SendLine

PipelineNext == MainStep \/ ReadLine \/ ShellCommand \/ Exit \/ PlannerStep \/ PulseStep

\* The scheduler runs every thread; nobody has to type, or to stop.
PipelineSpec ==
  /\ PipelineInit /\ [][PipelineNext]_pipelineVars
  /\ WF_pipelineVars(MainStep) /\ WF_pipelineVars(PlannerStep) /\ WF_pipelineVars(PulseStep)

-----------------------------------------------------------------------------
\* Where the pulses end up is where the planner believes to be, give or take
\* half a step for every segment since the last G28: segments that found no
\* room, and those still queued at a G28, included.
PulsesFollowPlan ==
  LET off == Unit * ((done + OnTheWay) - origin) - pos
  IN 2 * off <= Unit * moves /\ -2 * off <= Unit * moves

\* The machine leaves RUNNING by an empty queue only when every segment has been
\* given to the pulse thread, although the planner looks at the commands, the
\* state and the segments one after the other and stores the state without a lock.
ReadyOnlyWhenDrained == [][state = "RUNNING" /\ state' = "READY" => seg_q = <<>>]_pipelineVars

\* Once the typing pauses the pipeline comes to rest, all done; only the end of
\* the host's main leaves work behind.  The host's machine is READY again.  On
\* Zephyr nobody reports the homing done, so that "run" is refused for ever and
\* the moves are made in IDLE or HOMING.
Settles ==
  <>[](\/ main = "exited"
       \/ /\ cmd_q = <<>> /\ seg_q = <<>> /\ ~pulse.busy
          /\ state \in IF board = "host" THEN {"READY"} ELSE {"IDLE", "HOMING"})
=============================================================================
