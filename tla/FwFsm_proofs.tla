---------------------------- MODULE FwFsm_proofs ----------------------------
(***************************************************************************)
(* Proofs about the framework state machine, for every table, nesting      *)
(* depth and number of events: every dispatch ends in one outcome counter, *)
(* entry and exit callbacks are paired, and the machine that is split at   *)
(* its callbacks implements one that decides each event at once.           *)
(***************************************************************************)
EXTENDS FwFsm, Arithmetic_proofs, SequenceTheorems, FiniteSetTheorems

-----------------------------------------------------------------------------
(* The stack of calls *)

\* Pushing a frame.
LEMMA PushFrame ==
  ASSUME NEW s \in Seq(Frames), NEW f \in Frames, NEW t, t = <<f>> \o s
  PROVE  /\ t \in Seq(Frames) /\ Len(t) = Len(s) + 1 /\ t # <<>> /\ t[1] = f
         /\ \A i \in 2 .. Len(t) : i - 1 \in 1 .. Len(s) /\ t[i] = s[i - 1]
<1>1. Len(s) \in Nat /\ <<f>> \in Seq(Frames) /\ Len(<<f>>) = 1
  OBVIOUS
<1>2. QED
  BY <1>1, ConcatProperties

\* Popping the innermost frame.
LEMMA PopFrame ==
  ASSUME NEW s \in Seq(Frames), s # <<>>
  PROVE  /\ Tail(s) \in Seq(Frames) /\ Len(Tail(s)) = Len(s) - 1 /\ Len(s) \in Nat \ {0}
         /\ s[1] \in Frames
         /\ \A i \in 1 .. Len(Tail(s)) : i + 1 \in 1 .. Len(s) /\ Tail(s)[i] = s[i + 1]
BY HeadTailProperties, EmptySeq

\* Replacing the innermost frame.
LEMMA ReplaceFrame ==
  ASSUME NEW s \in Seq(Frames), s # <<>>, NEW f \in Frames, NEW t, t = <<f>> \o Tail(s)
  PROVE  /\ t \in Seq(Frames) /\ Len(t) = Len(s) /\ t # <<>> /\ t[1] = f
         /\ \A i \in 2 .. Len(t) : t[i] = s[i]
<1>1. /\ Tail(s) \in Seq(Frames) /\ Len(Tail(s)) = Len(s) - 1 /\ Len(s) \in Nat \ {0}
      /\ \A i \in 1 .. Len(Tail(s)) : Tail(s)[i] = s[i + 1]
  BY PopFrame
<1>2. /\ t \in Seq(Frames) /\ Len(t) = Len(Tail(s)) + 1 /\ t # <<>> /\ t[1] = f
      /\ \A i \in 2 .. Len(t) : i - 1 \in 1 .. Len(Tail(s)) /\ t[i] = Tail(s)[i - 1]
  BY <1>1, PushFrame
<1>3. QED
  BY <1>1, <1>2

\* How many calls are dispatches, when all but the outermost are.
DispatchesIn(s) == {i \in 1 .. Len(s) : s[i].op = "dispatch"}
Inner(s) == \A i \in 1 .. Len(s) - 1 : s[i].op = "dispatch"

LEMMA CountDispatches ==
  ASSUME NEW s \in Seq(Frames), Inner(s)
  PROVE  Cardinality(DispatchesIn(s)) =
           IF s # <<>> /\ s[Len(s)].op # "dispatch" THEN Len(s) - 1 ELSE Len(s)
<1>1. Len(s) \in Nat /\ (s # <<>> => Len(s) \in Nat \ {0})
  BY EmptySeq
<1>2. ASSUME NEW n \in Nat, DispatchesIn(s) = 1 .. n
      PROVE  Cardinality(DispatchesIn(s)) = n
  <2>1. Cardinality(1 .. n) = IF 1 > n THEN 0 ELSE n - 1 + 1
    BY FS_Interval
  <2>2. QED
    BY <1>2, <2>1
<1>3. CASE s # <<>> /\ s[Len(s)].op # "dispatch"
  <2>1. DispatchesIn(s) = 1 .. Len(s) - 1 /\ Len(s) - 1 \in Nat
    BY <1>1, <1>3 DEF DispatchesIn, Inner
  <2>2. QED
    BY <1>2, <1>3, <2>1
<1>4. CASE ~ (s # <<>> /\ s[Len(s)].op # "dispatch")
  <2>1. DispatchesIn(s) = 1 .. Len(s)
    BY <1>1, <1>4 DEF DispatchesIn, Inner
  <2>2. QED
    BY <1>1, <1>2, <1>4, <2>1
<1>5. QED
  BY <1>3, <1>4

\* The scan picks the first of the rows that are left.
LEMMA FirstIsFirst ==
  ASSUME Top.row \in Nat, Candidates # {}
  PROVE  /\ FirstCandidate \in Candidates
         /\ \A j \in Candidates : FirstCandidate <= j
<1>1. Candidates \subseteq Nat
  BY FsmAssumption DEF Candidates
<1>2. \E i \in Candidates : \A j \in Candidates : i <= j
  BY <1>1, LeastNumber
<1>3. QED
  BY <1>2 DEF FirstCandidate

-----------------------------------------------------------------------------
(* The inductive invariant *)

\* The rows before n that are for this state and event are guarded: they were
\* asked and refused.
Passed(from, ev, n) ==
  \A j \in 1 .. Len(Rows) : j < n /\ Rows[j].from = from /\ Rows[j].event = ev => Rows[j].guarded

\* Where each call can be, and what a dispatch has found out by then.
FrameOK(f) ==
  /\ f.op = "init" => f.at = "entry"
  /\ f.op = "reset" => f.at \in {"exit", "entry"}
  /\ f.op = "dispatch" =>
       /\ f.from \in States /\ f.ev \in Events
       /\ f.at # "scan" => /\ f.row \in 1 .. Len(Rows)
                           /\ Rows[f.row].from = f.from /\ Rows[f.row].event = f.ev
       /\ Passed(f.from, f.ev, f.row)

\* Callbacks nest dispatches in the one call the application made.
StackOK ==
  /\ stack \in Seq(Frames) /\ Len(stack) <= Depth
  /\ \A i \in 1 .. Len(stack) : FrameOK(stack[i])
  /\ "reset" \notin nested => Inner(stack)
  /\ nested = {} => Len(stack) <= 1

\* A machine that is not initialised has no state and no calls.
StartOK ==
  /\ initialized => current_state \in States /\ starts > 0
  /\ ~ initialized => stack = <<>> /\ entered = Uninit /\ starts = 0

\* Which state has been entered and not left, by where the only call is.
Entered ==
  IF stack = <<>> THEN IF initialized THEN current_state ELSE Uninit
  ELSE CASE Top.at = "scan"   -> current_state
         [] Top.at = "exit"   -> Uninit
         [] Top.at = "action" -> Uninit
         [] Top.at = "entry"  -> current_state

\* While no callback calls the machine, the only dispatch works on the present
\* state until it updates it.
PlaceOK ==
  nested = {} /\ stack # <<>> =>
    /\ Top.op = "dispatch" /\ Top.at \in {"scan", "exit"} => current_state = Top.from
    /\ Top.op = "dispatch" /\ Top.at \in {"action", "entry"} => current_state = Rows[Top.row].to

PairOK == nested = {} /\ starts <= 1 => entered = Entered /\ ~ unpaired

InProgress == Cardinality(DispatchesIn(stack))
Counted == "reset" \notin nested =>
             event_count = transition_count + no_transition_count + InProgress

IInv == TypeOK /\ StackOK /\ StartOK /\ PlaceOK /\ PairOK /\ Counted

-----------------------------------------------------------------------------
(* What pushing, replacing and popping a frame do to the invariant *)

\* How a change of the stack keeps its shape and changes the count of dispatches.
LEMMA ShapeMoves ==
  ASSUME NEW s \in Seq(Frames)
  PROVE  /\ \A f \in Frames : Inner(s) /\ (s # <<>> => f.op = "dispatch") =>
              /\ Inner(<<f>> \o s)
              /\ Cardinality(DispatchesIn(<<f>> \o s)) =
                   Cardinality(DispatchesIn(s)) + IF f.op = "dispatch" THEN 1 ELSE 0
         /\ \A f \in Frames : s # <<>> /\ Inner(s) /\ f.op = s[1].op =>
              /\ Inner(<<f>> \o Tail(s))
              /\ Cardinality(DispatchesIn(<<f>> \o Tail(s))) = Cardinality(DispatchesIn(s))
         /\ s # <<>> /\ Inner(s) =>
              /\ Inner(Tail(s))
              /\ Cardinality(DispatchesIn(Tail(s))) =
                   Cardinality(DispatchesIn(s)) - IF s[1].op = "dispatch" THEN 1 ELSE 0
              /\ s[1].op # "dispatch" => Tail(s) = <<>>
         /\ Inner(s) => Cardinality(DispatchesIn(s)) \in Nat
<1>1. Len(s) \in Nat /\ (s # <<>> => Len(s) \in Nat \ {0}) /\ \A i \in 1 .. Len(s) : s[i] \in Frames
  BY EmptySeq
<1>2. ASSUME NEW f \in Frames, Inner(s), s # <<>> => f.op = "dispatch"
      PROVE  /\ Inner(<<f>> \o s)
             /\ Cardinality(DispatchesIn(<<f>> \o s)) =
                  Cardinality(DispatchesIn(s)) + IF f.op = "dispatch" THEN 1 ELSE 0
  <2> DEFINE t == <<f>> \o s
  <2>1. /\ t \in Seq(Frames) /\ Len(t) = Len(s) + 1 /\ t # <<>> /\ t[1] = f
        /\ \A i \in 2 .. Len(t) : i - 1 \in 1 .. Len(s) /\ t[i] = s[i - 1]
    BY PushFrame
  <2> HIDE DEF t
  <2>2. Inner(t)
    BY <1>1, <1>2, <2>1 DEF Inner
  <2>3. /\ s # <<>> => t[Len(t)] = s[Len(s)]
        /\ s = <<>> => t[Len(t)] = f /\ Len(s) = 0
    BY <1>1, <2>1
  <2>4. /\ Cardinality(DispatchesIn(t)) = IF t[Len(t)].op # "dispatch" THEN Len(t) - 1 ELSE Len(t)
        /\ Cardinality(DispatchesIn(s)) =
             IF s # <<>> /\ s[Len(s)].op # "dispatch" THEN Len(s) - 1 ELSE Len(s)
    BY <1>2, <2>1, <2>2, CountDispatches
  <2>5. Cardinality(DispatchesIn(t)) = Cardinality(DispatchesIn(s)) + IF f.op = "dispatch" THEN 1 ELSE 0
    <3> DEFINE ct == Cardinality(DispatchesIn(t))
               cs == Cardinality(DispatchesIn(s))
    <3>1. CASE s # <<>>
      <4>1. ct = cs + 1
        BY <1>1, <2>1, <2>3, <2>4, <3>1
      <4>2. QED
        BY <1>2, <3>1, <4>1
    <3>2. CASE s = <<>>
      <4>1. cs = 0 /\ ct = IF f.op = "dispatch" THEN 1 ELSE 0
        BY <1>1, <2>1, <2>3, <2>4, <3>2
      <4>2. QED
        BY <4>1
    <3>3. QED
      BY <3>1, <3>2
  <2>6. QED
    BY <2>2, <2>5 DEF t
<1>3. ASSUME NEW f \in Frames, s # <<>>, Inner(s), f.op = s[1].op
      PROVE  /\ Inner(<<f>> \o Tail(s))
             /\ Cardinality(DispatchesIn(<<f>> \o Tail(s))) = Cardinality(DispatchesIn(s))
  <2> DEFINE t == <<f>> \o Tail(s)
  <2>1. /\ t \in Seq(Frames) /\ Len(t) = Len(s) /\ t # <<>> /\ t[1] = f
        /\ \A i \in 2 .. Len(t) : t[i] = s[i]
    BY <1>3, ReplaceFrame
  <2> HIDE DEF t
  <2>2. Inner(t)
    BY <1>1, <1>3, <2>1 DEF Inner
  <2>3. t[Len(t)].op = s[Len(s)].op
    BY <1>1, <1>3, <2>1
  <2>4. QED
    BY <1>1, <1>3, <2>1, <2>2, <2>3, CountDispatches DEF t
<1>4. ASSUME s # <<>>, Inner(s)
      PROVE  /\ Inner(Tail(s))
             /\ Cardinality(DispatchesIn(Tail(s))) =
                  Cardinality(DispatchesIn(s)) - IF s[1].op = "dispatch" THEN 1 ELSE 0
             /\ s[1].op # "dispatch" => Tail(s) = <<>>
  <2> DEFINE t == Tail(s)
  <2>1. /\ t \in Seq(Frames) /\ Len(t) = Len(s) - 1
        /\ \A i \in 1 .. Len(t) : i + 1 \in 1 .. Len(s) /\ t[i] = s[i + 1]
        /\ (t # <<>> => Len(t) \in Nat \ {0})
    BY <1>4, PopFrame, EmptySeq
  <2> HIDE DEF t
  <2>2. Inner(t)
    BY <1>1, <1>4, <2>1 DEF Inner
  <2>3. t # <<>> => t[Len(t)] = s[Len(s)] /\ s[1].op = "dispatch"
    BY <1>1, <1>4, <2>1 DEF Inner
  <2>4. t = <<>> => Len(s) = 1
    BY <1>1, <1>4, <2>1
  <2>5. /\ Cardinality(DispatchesIn(s)) = IF s[Len(s)].op # "dispatch" THEN Len(s) - 1 ELSE Len(s)
        /\ Cardinality(DispatchesIn(t)) =
             IF t # <<>> /\ t[Len(t)].op # "dispatch" THEN Len(t) - 1 ELSE Len(t)
    BY <1>4, <2>1, <2>2, CountDispatches
  <2>6. t = <<>> => Len(t) = 0
    OBVIOUS
  <2>7. Cardinality(DispatchesIn(t)) = Cardinality(DispatchesIn(s)) - IF s[1].op = "dispatch" THEN 1 ELSE 0
    <3>1. CASE t # <<>>
      <4>1. Cardinality(DispatchesIn(t)) = Cardinality(DispatchesIn(s)) - 1
        BY <1>1, <2>1, <2>3, <2>5, <3>1
      <4>2. QED
        BY <2>3, <3>1, <4>1
    <3>2. CASE t = <<>>
      <4>1. Cardinality(DispatchesIn(t)) = 0
        BY <2>5, <2>6, <3>2
      <4>2. Cardinality(DispatchesIn(s)) = IF s[1].op = "dispatch" THEN 1 ELSE 0
        <5>1. Len(s) = 1
          BY <2>4, <3>2
        <5>2. QED
          BY <2>5, <5>1
      <4>3. QED
        BY <4>1, <4>2
    <3>3. QED
      BY <3>1, <3>2
  <2>8. QED
    BY <2>2, <2>3, <2>7 DEF t
<1>5. ASSUME Inner(s) PROVE Cardinality(DispatchesIn(s)) \in Nat
  BY <1>1, <1>5, CountDispatches
<1>6. QED
  BY <1>2, <1>3, <1>4, <1>5

\* A call begins.
LEMMA Pushes ==
  ASSUME StackOK, NEW f \in Frames, FrameOK(f), stack' = <<f>> \o stack, UNCHANGED nested,
         Len(stack) < Depth, stack # <<>> => f.op \in nested /\ f.op \in {"dispatch", "reset"}
  PROVE  /\ StackOK' /\ stack' # <<>> /\ Top' = f
         /\ "reset" \notin nested =>
              /\ InProgress \in Nat
              /\ InProgress' = IF f.op = "dispatch" THEN InProgress + 1 ELSE InProgress
<1>1. stack \in Seq(Frames) /\ Len(stack) \in Nat /\ Depth \in Nat
  BY FsmAssumption DEF StackOK
<1>2. /\ stack' \in Seq(Frames) /\ Len(stack') = Len(stack) + 1 /\ stack' # <<>> /\ stack'[1] = f
      /\ \A i \in 2 .. Len(stack') : i - 1 \in 1 .. Len(stack) /\ stack'[i] = stack[i - 1]
  BY <1>1, PushFrame
<1>3. \A i \in 1 .. Len(stack') : FrameOK(stack'[i])
  BY <1>1, <1>2 DEF StackOK
<1>4. ASSUME "reset" \notin nested
      PROVE  /\ Inner(stack') /\ InProgress \in Nat
             /\ InProgress' = IF f.op = "dispatch" THEN InProgress + 1 ELSE InProgress
  <2>1. InProgress \in Nat /\ Inner(stack)
    BY <1>1, <1>4, ShapeMoves DEF StackOK, InProgress
  <2>2. Inner(stack') /\ InProgress' = InProgress + IF f.op = "dispatch" THEN 1 ELSE 0
    BY <1>1, <1>4, <2>1, ShapeMoves DEF InProgress
  <2>3. QED
    BY <2>1, <2>2
<1>5. nested = {} => stack = <<>> /\ Len(stack) = 0
  OBVIOUS
<1>6. QED
  BY <1>1, <1>2, <1>3, <1>4, <1>5 DEF StackOK, Top, FrameOK

\* The innermost call goes on.
LEMMA GoesOn ==
  ASSUME StackOK, stack # <<>>, NEW f \in Frames, FrameOK(f), f.op = Top.op, Goto(f), UNCHANGED nested
  PROVE  /\ StackOK' /\ stack' # <<>> /\ Top' = f /\ Len(stack') = Len(stack)
         /\ "reset" \notin nested => InProgress' = InProgress
<1>1. stack \in Seq(Frames) /\ Len(stack) \in Nat /\ stack' = <<f>> \o Tail(stack)
  BY DEF StackOK, Goto
<1>2. /\ stack' \in Seq(Frames) /\ Len(stack') = Len(stack) /\ stack' # <<>> /\ stack'[1] = f
      /\ \A i \in 2 .. Len(stack') : stack'[i] = stack[i]
  BY <1>1, ReplaceFrame
<1>3. \A i \in 1 .. Len(stack') : FrameOK(stack'[i])
  BY <1>1, <1>2 DEF StackOK
<1>4. "reset" \notin nested => Inner(stack') /\ InProgress' = InProgress
  BY <1>1, ShapeMoves DEF StackOK, InProgress, Top
<1>5. QED
  BY <1>1, <1>2, <1>3, <1>4 DEF StackOK, Top, FrameOK

\* The innermost call returns.
LEMMA Returns ==
  ASSUME StackOK, stack # <<>>, stack' = Tail(stack), UNCHANGED nested
  PROVE  /\ StackOK'
         /\ "reset" \notin nested =>
              /\ InProgress \in Nat
              /\ InProgress' = InProgress - IF Top.op = "dispatch" THEN 1 ELSE 0
              /\ Top.op # "dispatch" => stack' = <<>>
         /\ nested = {} => stack' = <<>>
<1>1. stack \in Seq(Frames) /\ Len(stack) \in Nat
  BY DEF StackOK
<1>2. /\ stack' \in Seq(Frames) /\ Len(stack') = Len(stack) - 1
      /\ \A i \in 1 .. Len(stack') : i + 1 \in 1 .. Len(stack) /\ stack'[i] = stack[i + 1]
      /\ (stack' # <<>> => Len(stack') \in Nat \ {0})
  BY <1>1, PopFrame, EmptySeq
<1>3. \A i \in 1 .. Len(stack') : FrameOK(stack'[i])
  BY <1>1, <1>2 DEF StackOK
<1>4. "reset" \notin nested =>
        /\ Inner(stack') /\ InProgress \in Nat
        /\ InProgress' = InProgress - IF Top.op = "dispatch" THEN 1 ELSE 0
        /\ Top.op # "dispatch" => stack' = <<>>
  BY <1>1, ShapeMoves DEF StackOK, InProgress, Top
<1>5. QED
  BY <1>1, <1>2, <1>3, <1>4, FsmAssumption DEF StackOK, FrameOK

-----------------------------------------------------------------------------
(* The invariant is inductive *)

\* What the invariant says of the innermost call.
LEMMA TopFacts ==
  ASSUME IInv, stack # <<>>
  PROVE  /\ Top \in Frames /\ FrameOK(Top) /\ stack \in Seq(Frames) /\ Len(stack) \in Nat \ {0}
         /\ initialized /\ current_state \in States /\ starts > 0
<1>1. stack \in Seq(Frames) /\ Len(stack) \in Nat \ {0}
  BY EmptySeq DEF IInv, StackOK
<1>2. 1 \in 1 .. Len(stack)
  BY <1>1
<1>3. QED
  BY <1>1, <1>2 DEF IInv, StackOK, StartOK, TypeOK, Top

\* What the table's rows are.
LEMMA RowFacts ==
  /\ Len(Rows) \in Nat \ {0}
  /\ \A i \in 1 .. Len(Rows) : /\ Rows[i].to \in States /\ Rows[i].from \in States
                              /\ Rows[i].event \in Events /\ Rows[i].guarded \in BOOLEAN
<1> DEFINE R == [from : States, event : Events, guarded : BOOLEAN, to : States]
<1>1. Rows \in Seq(R) /\ Rows # <<>>
  BY FsmAssumption
<1> HIDE DEF R
<1>2. Len(Rows) \in Nat \ {0}
  BY <1>1, EmptySeq
<1>3. \A i \in 1 .. Len(Rows) : Rows[i] \in R
  BY <1>1, <1>2
<1>4. QED
  BY <1>2, <1>3 DEF R

\* The frame of a new call.
LEMMA NewCall ==
  ASSUME current_state \in States \cup {Uninit},
         NEW op \in {"init", "dispatch", "reset"}, NEW at \in {"scan", "exit", "action", "entry"},
         NEW e \in Events \cup {NoId}
  PROVE  /\ Call(op, at, e) \in Frames
         /\ Call(op, at, e).op = op /\ Call(op, at, e).at = at /\ Call(op, at, e).ev = e
         /\ Call(op, at, e).from = current_state /\ Call(op, at, e).row = 1
         /\ Passed(current_state, e, 1)
BY FsmAssumption, RowFacts DEF Call, Frames, Passed

\* init
LEMMA InitStep == ASSUME IInv, FsmInit PROVE IInv'
<1> DEFINE f == Call("init", "entry", NoId)
<1>1. /\ stack = <<>> /\ starts \in Nat /\ starts < MaxStarts /\ MaxStarts \in Nat
      /\ Depth \in Nat \ {0} /\ Initial \in States /\ Uninit \notin States /\ "OK" \in Results
      /\ current_state \in States \cup {Uninit} /\ Len(stack) = 0
  BY FsmAssumption DEF IInv, TypeOK, FsmInit
<1>2. /\ f \in Frames /\ FrameOK(f) /\ f.op = "init" /\ f.at = "entry"
  BY <1>1, NewCall DEF FrameOK
<1>3. stack' = <<f>> \o stack /\ stack' = <<f>>
  BY <1>1, <1>2 DEF FsmInit
<1> HIDE DEF f
<1>4. /\ StackOK' /\ stack' # <<>> /\ Top' = f
      /\ "reset" \notin nested => InProgress' = InProgress
  BY <1>1, <1>2, <1>3, Pushes DEF IInv, FsmInit
<1>5. TypeOK'
  BY <1>1, <1>4 DEF FsmInit, ResetCounters, Enters, IInv, TypeOK, StackOK
<1>6. StartOK'
  BY <1>1 DEF FsmInit, StartOK
<1>7. PlaceOK'
  BY <1>2, <1>4 DEF PlaceOK
<1>8. PairOK'
  <2>1. starts' <= 1 => starts = 0 /\ ~ initialized /\ entered = Uninit
    BY <1>1 DEF FsmInit, IInv, StartOK
  <2>2. Entered' = Initial
    BY <1>2, <1>4 DEF Entered, FsmInit
  <2>3. ASSUME nested' = {}, starts' <= 1
        PROVE  entered' = Initial /\ ~ unpaired'
    <3>1. ~ unpaired /\ entered = Uninit
      BY <2>1, <2>3 DEF PairOK, IInv, FsmInit
    <3>2. QED
      BY <3>1 DEF FsmInit, Enters
  <2>4. QED
    BY <2>2, <2>3 DEF PairOK
<1>9. Counted'
  <2>1. "reset" \notin nested => InProgress = 0
    BY <1>1, CountDispatches DEF InProgress, IInv, StackOK
  <2>2. QED
    BY <1>4, <2>1 DEF Counted, FsmInit, ResetCounters
<1>10. QED
  BY <1>4, <1>5, <1>6, <1>7, <1>8, <1>9 DEF IInv

\* dispatch, up to its scan
LEMMA DispatchStep == ASSUME IInv, NEW e \in Events, Dispatch(e) PROVE IInv'
<1> DEFINE f == Call("dispatch", "scan", e)
<1>1. /\ initialized /\ current_state \in States /\ UNCHANGED <<nested, initialized, current_state>>
      /\ event_count \in Nat /\ event_count' = event_count + 1
  BY DEF IInv, TypeOK, StartOK, Dispatch
<1>2. /\ f \in Frames /\ FrameOK(f) /\ f.op = "dispatch" /\ f.at = "scan" /\ f.from = current_state
  BY <1>1, NewCall DEF FrameOK
<1>3. stack' = <<f>> \o stack
  BY <1>1, <1>2 DEF Dispatch
<1> HIDE DEF f
<1>4. /\ Len(stack) < Depth /\ (stack # <<>> => "dispatch" \in nested)
  BY FsmAssumption DEF Dispatch, MayCall
<1>5. /\ StackOK' /\ stack' # <<>> /\ Top' = f
      /\ "reset" \notin nested => InProgress' = InProgress + 1
  BY <1>1, <1>2, <1>3, <1>4, Pushes DEF IInv
<1>6. TypeOK'
  BY <1>1, <1>5 DEF Dispatch, IInv, TypeOK, StackOK, history
<1>7. StartOK'
  BY DEF Dispatch, history, IInv, StartOK
<1>8. PlaceOK'
  BY <1>1, <1>2, <1>5 DEF PlaceOK
<1>9. PairOK'
  <2>1. nested = {} => stack = <<>> /\ Entered = current_state
    BY <1>1, <1>4 DEF Entered
  <2>2. Entered' = current_state
    BY <1>1, <1>2, <1>5 DEF Entered
  <2>3. QED
    BY <2>1, <2>2 DEF IInv, PairOK, Dispatch, history
<1>10. Counted'
  <2>1. "reset" \notin nested => InProgress \in Nat
    BY ShapeMoves DEF InProgress, IInv, StackOK
  <2>2. QED
    BY <1>1, <1>5, <2>1 DEF Counted, Dispatch, IInv, TypeOK
<1>11. QED
  BY <1>5, <1>6, <1>7, <1>8, <1>9, <1>10 DEF IInv

\* A guard refuses.
LEMMA RejectStep == ASSUME IInv, GuardRejects PROVE IInv'
<1> DEFINE i == FirstCandidate
           f == [Top EXCEPT !.row = i + 1]
<1>1. /\ stack # <<>> /\ Top.at = "scan" /\ Candidates # {} /\ Rows[i].guarded /\ Goto(f)
      /\ UNCHANGED <<initialized, current_state, transition_count, event_count,
                     no_transition_count, last_event_id, last_status, history, starts, nested>>
      /\ guard_rejected_count' = guard_rejected_count + 1
  BY DEF GuardRejects, At
<1>2. Top \in Frames /\ FrameOK(Top) /\ Top.op = "dispatch"
  BY <1>1, TopFacts DEF FrameOK, Frames
<1>3. /\ i \in 1 .. Len(Rows) /\ Rows[i].from = Top.from /\ Rows[i].event = Top.ev
      /\ \A j \in Candidates : i <= j
  BY <1>1, <1>2, FirstIsFirst, RowFacts DEF Candidates, Frames
<1> HIDE DEF i
<1>4. /\ f \in Frames /\ f.op = Top.op /\ f.at = "scan" /\ f.from = Top.from /\ f.ev = Top.ev
      /\ f.row = i + 1
  BY <1>1, <1>2, <1>3, RowFacts DEF Frames
<1>5. Passed(Top.from, Top.ev, i + 1)
  <2>1. ASSUME NEW j \in 1 .. Len(Rows), j < i + 1, Rows[j].from = Top.from, Rows[j].event = Top.ev
        PROVE  Rows[j].guarded
    <3>1. CASE j < Top.row
      BY <1>2, <2>1, <3>1 DEF FrameOK, Passed
    <3>2. CASE j >= Top.row
      <4>1. j \in Candidates
        BY <1>2, <2>1, <3>2, RowFacts DEF Candidates, Frames
      <4>2. j = i
        BY <1>3, <2>1, <4>1, RowFacts
      <4>3. QED
        BY <1>1, <4>2
    <3>3. QED
      BY <1>2, <2>1, <3>1, <3>2, RowFacts DEF Frames
  <2>2. QED
    BY <2>1 DEF Passed
<1>6. FrameOK(f)
  BY <1>1, <1>2, <1>4, <1>5 DEF FrameOK
<1> HIDE DEF f
<1>7. /\ StackOK' /\ stack' # <<>> /\ Top' = f
      /\ "reset" \notin nested => InProgress' = InProgress
  BY <1>1, <1>4, <1>6, GoesOn DEF IInv
<1>8. TypeOK'
  BY <1>1, <1>7 DEF IInv, TypeOK, StackOK, history
<1>9. StartOK'
  BY <1>1, TopFacts DEF StartOK, history
<1>10. PlaceOK'
  BY <1>1, <1>2, <1>4, <1>7 DEF IInv, PlaceOK
<1>11. PairOK'
  BY <1>1, <1>4, <1>7 DEF IInv, PairOK, Entered, history
<1>12. Counted'
  BY <1>1, <1>7 DEF IInv, Counted
<1>13. QED
  BY <1>7, <1>8, <1>9, <1>10, <1>11, <1>12 DEF IInv

\* A row wins: on_exit is called.
LEMMA CommitStep == ASSUME IInv, Commit PROVE IInv'
<1> DEFINE i == FirstCandidate
           f == [Top EXCEPT !.row = i, !.at = "exit"]
<1>1. /\ stack # <<>> /\ Top.at = "scan" /\ Candidates # {} /\ Goto(f) /\ Exits(Top.from)
      /\ UNCHANGED <<initialized, current_state, counters, starts, nested>>
  BY DEF Commit, At
<1>2. /\ Top \in Frames /\ FrameOK(Top) /\ Top.op = "dispatch" /\ initialized /\ starts > 0
      /\ current_state \in States
  BY <1>1, TopFacts DEF FrameOK, Frames
<1>3. /\ i \in 1 .. Len(Rows) /\ Rows[i].from = Top.from /\ Rows[i].event = Top.ev
      /\ \A j \in Candidates : i <= j
  BY <1>1, <1>2, FirstIsFirst, RowFacts DEF Candidates, Frames
<1> HIDE DEF i
<1>4. /\ f \in Frames /\ f.op = Top.op /\ f.at = "exit" /\ f.from = Top.from /\ f.ev = Top.ev
      /\ f.row = i
  <2>1. i \in 1 .. Len(Rows) + 1
    BY <1>3, RowFacts
  <2>2. QED
    BY <1>2, <2>1 DEF Frames
<1>5. Passed(Top.from, Top.ev, i)
  <2>1. ASSUME NEW j \in 1 .. Len(Rows), j < i, Rows[j].from = Top.from, Rows[j].event = Top.ev
        PROVE  Rows[j].guarded
    <3>1. CASE j < Top.row
      BY <1>2, <2>1, <3>1 DEF FrameOK, Passed
    <3>2. CASE j >= Top.row
      <4>1. j \in Candidates
        BY <1>2, <2>1, <3>2, RowFacts DEF Candidates, Frames
      <4>2. QED
        BY <1>3, <2>1, <4>1, RowFacts
    <3>3. QED
      BY <1>2, <2>1, <3>1, <3>2, RowFacts DEF Frames
  <2>2. QED
    BY <2>1 DEF Passed
<1>6. FrameOK(f)
  BY <1>1, <1>2, <1>3, <1>4, <1>5 DEF FrameOK
<1> HIDE DEF f
<1>7. /\ StackOK' /\ stack' # <<>> /\ Top' = f
      /\ "reset" \notin nested => InProgress' = InProgress
  BY <1>1, <1>4, <1>6, GoesOn DEF IInv
<1>8. TypeOK'
  BY <1>1, <1>7 DEF IInv, TypeOK, StackOK, counters, Exits
<1>9. StartOK'
  BY <1>1, <1>2 DEF StartOK
<1>10. PlaceOK'
  BY <1>1, <1>2, <1>4, <1>7 DEF IInv, PlaceOK
<1>11. PairOK'
  <2>1. ASSUME nested = {}, starts <= 1
        PROVE  entered = Top.from /\ ~ unpaired
    BY <1>1, <1>2, <2>1 DEF IInv, PairOK, PlaceOK, Entered
  <2>2. Entered' = Uninit
    BY <1>4, <1>7 DEF Entered
  <2>3. QED
    BY <1>1, <2>1, <2>2 DEF PairOK, Exits
<1>12. Counted'
  BY <1>1, <1>7 DEF IInv, Counted, counters
<1>13. QED
  BY <1>7, <1>8, <1>9, <1>10, <1>11, <1>12 DEF IInv

\* No row is left.
LEMMA NoTransitionStep == ASSUME IInv, NoTransition PROVE IInv'
<1>1. /\ stack # <<>> /\ Top.at = "scan" /\ stack' = Tail(stack) /\ last_status' = "OK"
      /\ no_transition_count' = no_transition_count + 1
      /\ UNCHANGED <<initialized, current_state, transition_count, event_count,
                     guard_rejected_count, last_event_id, history, starts, nested>>
  BY DEF NoTransition, At
<1>2. Top.op = "dispatch" /\ initialized /\ starts > 0 /\ current_state \in States
  BY <1>1, TopFacts DEF FrameOK, Frames
<1>3. /\ StackOK' /\ (nested = {} => stack' = <<>>)
      /\ "reset" \notin nested => InProgress \in Nat /\ InProgress' = InProgress - 1
  BY <1>1, <1>2, Returns DEF IInv
<1>4. TypeOK'
  BY <1>1, <1>3, FsmAssumption DEF IInv, TypeOK, StackOK, history
<1>5. StartOK'
  BY <1>1, <1>2 DEF StartOK
<1>6. PlaceOK'
  BY <1>1, <1>3 DEF PlaceOK
<1>7. PairOK'
  BY <1>1, <1>2, <1>3 DEF IInv, PairOK, Entered, history
<1>8. Counted'
  BY <1>1, <1>3 DEF IInv, Counted, TypeOK
<1>9. QED
  BY <1>3, <1>4, <1>5, <1>6, <1>7, <1>8 DEF IInv

\* on_exit has returned.
LEMMA UpdateStep == ASSUME IInv, UpdateState PROVE IInv'
<1> DEFINE f == [Top EXCEPT !.at = "action"]
<1>1. /\ stack # <<>> /\ Top.at = "exit" /\ Top.op = "dispatch" /\ Goto(f)
      /\ current_state' = Rows[Top.row].to
      /\ UNCHANGED <<initialized, counters, history, starts, nested>>
  BY DEF UpdateState, At
<1>2. /\ Top \in Frames /\ FrameOK(Top) /\ initialized /\ starts > 0 /\ Top.row \in 1 .. Len(Rows)
      /\ current_state' \in States
  BY <1>1, TopFacts, RowFacts DEF FrameOK
<1>3. /\ f \in Frames /\ f.op = Top.op /\ f.at = "action" /\ f.from = Top.from /\ f.ev = Top.ev
      /\ f.row = Top.row
  BY <1>2 DEF Frames
<1>4. FrameOK(f)
  BY <1>1, <1>2, <1>3 DEF FrameOK
<1> HIDE DEF f
<1>5. /\ StackOK' /\ stack' # <<>> /\ Top' = f
      /\ "reset" \notin nested => InProgress' = InProgress
  BY <1>1, <1>3, <1>4, GoesOn DEF IInv
<1>6. TypeOK'
  BY <1>1, <1>2, <1>5 DEF IInv, TypeOK, StackOK, counters, history
<1>7. StartOK'
  BY <1>1, <1>2 DEF StartOK
<1>8. PlaceOK'
  BY <1>1, <1>3, <1>5 DEF PlaceOK
<1>9. PairOK'
  BY <1>1, <1>3, <1>5 DEF IInv, PairOK, Entered, history
<1>10. Counted'
  BY <1>1, <1>5 DEF IInv, Counted, counters
<1>11. QED
  BY <1>5, <1>6, <1>7, <1>8, <1>9, <1>10 DEF IInv

\* The action has returned: on_entry is called.
LEMMA ActionStep == ASSUME IInv, NEW status \in Results, ActionReturns(status) PROVE IInv'
<1> DEFINE f == [Top EXCEPT !.at = "entry", !.status = status]
<1>1. /\ stack # <<>> /\ Top.at = "action" /\ Goto(f) /\ Enters(Rows[Top.row].to)
      /\ UNCHANGED <<initialized, current_state, counters, starts, nested>>
  BY DEF ActionReturns, At
<1>2. /\ Top \in Frames /\ FrameOK(Top) /\ Top.op = "dispatch" /\ initialized /\ starts > 0
      /\ Top.row \in 1 .. Len(Rows) /\ Rows[Top.row].to \in States /\ current_state \in States
  BY <1>1, TopFacts, RowFacts DEF FrameOK, Frames
<1>3. /\ f \in Frames /\ f.op = Top.op /\ f.at = "entry" /\ f.from = Top.from /\ f.ev = Top.ev
      /\ f.row = Top.row
  BY <1>2 DEF Frames
<1>4. FrameOK(f)
  BY <1>1, <1>2, <1>3 DEF FrameOK
<1> HIDE DEF f
<1>5. /\ StackOK' /\ stack' # <<>> /\ Top' = f
      /\ "reset" \notin nested => InProgress' = InProgress
  BY <1>1, <1>3, <1>4, GoesOn DEF IInv
<1>6. TypeOK'
  BY <1>1, <1>2, <1>5 DEF IInv, TypeOK, StackOK, counters, Enters
<1>7. StartOK'
  BY <1>1, <1>2 DEF StartOK
<1>8. PlaceOK'
  BY <1>1, <1>2, <1>3, <1>5 DEF IInv, PlaceOK
<1>9. PairOK'
  <2>1. ASSUME nested = {}, starts <= 1
        PROVE  entered = Uninit /\ ~ unpaired /\ current_state = Rows[Top.row].to
    BY <1>1, <1>2, <2>1 DEF IInv, PairOK, PlaceOK, Entered
  <2>2. Entered' = current_state
    BY <1>1, <1>3, <1>5 DEF Entered
  <2>3. QED
    BY <1>1, <2>1, <2>2 DEF PairOK, Enters
<1>10. Counted'
  BY <1>1, <1>5 DEF IInv, Counted, counters
<1>11. QED
  BY <1>5, <1>6, <1>7, <1>8, <1>9, <1>10 DEF IInv

\* on_entry has returned to dispatch.
LEMMA FinishStep == ASSUME IInv, FinishDispatch PROVE IInv'
<1>1. /\ stack # <<>> /\ Top.at = "entry" /\ Top.op = "dispatch" /\ stack' = Tail(stack)
      /\ last_status' = Top.status /\ transition_count' = transition_count + 1
      /\ UNCHANGED <<initialized, current_state, event_count, guard_rejected_count,
                     no_transition_count, last_event_id, history, starts, nested>>
  BY DEF FinishDispatch, At
<1>2. Top.status \in Results /\ initialized /\ starts > 0 /\ current_state \in States
  BY <1>1, TopFacts DEF Frames
<1>3. /\ StackOK' /\ (nested = {} => stack' = <<>>)
      /\ "reset" \notin nested => InProgress \in Nat /\ InProgress' = InProgress - 1
  BY <1>1, Returns DEF IInv
<1>4. TypeOK'
  BY <1>1, <1>2, <1>3 DEF IInv, TypeOK, StackOK, history
<1>5. StartOK'
  BY <1>1, <1>2 DEF StartOK
<1>6. PlaceOK'
  BY <1>1, <1>3 DEF PlaceOK
<1>7. PairOK'
  BY <1>1, <1>2, <1>3 DEF IInv, PairOK, Entered, history
<1>8. Counted'
  BY <1>1, <1>3 DEF IInv, Counted, TypeOK
<1>9. QED
  BY <1>3, <1>4, <1>5, <1>6, <1>7, <1>8 DEF IInv

\* reset, up to the return of on_exit
LEMMA ResetStep == ASSUME IInv, Reset PROVE IInv'
<1> DEFINE f == Call("reset", "exit", NoId)
<1>1. /\ initialized /\ current_state \in States /\ starts > 0 /\ Exits(current_state)
      /\ UNCHANGED <<initialized, current_state, counters, starts, nested>>
  BY DEF IInv, StartOK, Reset
<1>2. /\ f \in Frames /\ FrameOK(f) /\ f.op = "reset" /\ f.at = "exit"
  BY <1>1, NewCall DEF FrameOK
<1>3. stack' = <<f>> \o stack
  BY DEF Reset
<1> HIDE DEF f
<1>4. Len(stack) < Depth /\ (stack # <<>> => "reset" \in nested)
  BY FsmAssumption DEF Reset, MayCall
<1>5. /\ StackOK' /\ stack' # <<>> /\ Top' = f
      /\ "reset" \notin nested => InProgress' = InProgress
  BY <1>1, <1>2, <1>3, <1>4, Pushes DEF IInv
<1>6. TypeOK'
  BY <1>1, <1>5 DEF IInv, TypeOK, StackOK, counters, Exits
<1>7. StartOK'
  BY <1>1 DEF StartOK
<1>8. PlaceOK'
  BY <1>2, <1>5 DEF PlaceOK
<1>9. PairOK'
  <2>1. ASSUME nested = {}, starts <= 1
        PROVE  entered = current_state /\ ~ unpaired
    BY <1>1, <1>4, <2>1 DEF IInv, PairOK, Entered
  <2>2. Entered' = Uninit
    BY <1>2, <1>5 DEF Entered
  <2>3. QED
    BY <1>1, <2>1, <2>2 DEF PairOK, Exits
<1>10. Counted'
  BY <1>1, <1>5 DEF IInv, Counted, counters
<1>11. QED
  BY <1>5, <1>6, <1>7, <1>8, <1>9, <1>10 DEF IInv

\* reset goes on: the initial state, counters at zero, on_entry.
LEMMA RestoreStep == ASSUME IInv, RestoreInitial PROVE IInv'
<1> DEFINE f == [Top EXCEPT !.at = "entry"]
<1>1. /\ stack # <<>> /\ Top.at = "exit" /\ Top.op = "reset" /\ Goto(f) /\ current_state' = Initial
      /\ ResetCounters /\ Enters(Initial) /\ UNCHANGED <<initialized, starts, nested>>
  BY DEF RestoreInitial, At
<1>2. /\ Top \in Frames /\ initialized /\ starts > 0 /\ Initial \in States /\ "OK" \in Results
  BY <1>1, TopFacts, FsmAssumption
<1>3. /\ f \in Frames /\ f.op = Top.op /\ f.at = "entry"
  BY <1>2 DEF Frames
<1>4. FrameOK(f)
  BY <1>1, <1>3 DEF FrameOK
<1> HIDE DEF f
<1>5. /\ StackOK' /\ stack' # <<>> /\ Top' = f
      /\ "reset" \notin nested => InProgress' = InProgress
  BY <1>1, <1>3, <1>4, GoesOn DEF IInv
<1>6. TypeOK'
  BY <1>1, <1>2, <1>5 DEF IInv, TypeOK, StackOK, Enters, ResetCounters
<1>7. StartOK'
  BY <1>1, <1>2 DEF StartOK
<1>8. PlaceOK'
  BY <1>1, <1>3, <1>5 DEF PlaceOK
<1>9. PairOK'
  <2>1. ASSUME nested = {}, starts <= 1
        PROVE  entered = Uninit /\ ~ unpaired
    BY <1>1, <2>1 DEF IInv, PairOK, Entered
  <2>2. Entered' = Initial
    BY <1>1, <1>3, <1>5 DEF Entered
  <2>3. QED
    BY <1>1, <2>1, <2>2 DEF PairOK, Enters
\* The reset is the application's own call, so no dispatch is in progress.
<1>10. Counted'
  <2>1. ASSUME "reset" \notin nested
        PROVE  InProgress = 0
    <3>1. stack \in Seq(Frames) /\ Len(stack) \in Nat \ {0} /\ Inner(stack)
      BY <1>1, <2>1, TopFacts DEF IInv, StackOK
    <3>2. Len(stack) = 1
      <4> DEFINE n == Len(stack)
      <4>1. n \in Nat \ {0} /\ \A i \in 1 .. n - 1 : stack[i].op = "dispatch"
        BY <3>1 DEF Inner
      <4>2. 1 \notin 1 .. n - 1
        BY <1>1, <4>1 DEF Top
      <4> HIDE DEF n
      <4>3. n = 1
        BY <4>1, <4>2
      <4>4. QED
        BY <4>3 DEF n
    <3>3. QED
      BY <1>1, <3>1, <3>2, CountDispatches DEF InProgress, Top
  <2>2. QED
    BY <1>1, <1>5, <2>1 DEF Counted, ResetCounters
<1>11. QED
  BY <1>5, <1>6, <1>7, <1>8, <1>9, <1>10 DEF IInv

\* on_entry has returned to init or reset.
LEMMA FinishStartStep == ASSUME IInv, FinishStart PROVE IInv'
<1>1. /\ stack # <<>> /\ Top.at = "entry" /\ Top.op # "dispatch" /\ stack' = Tail(stack)
      /\ UNCHANGED <<initialized, current_state, counters, history, starts, nested>>
  BY DEF FinishStart, At
<1>2. initialized /\ starts > 0 /\ current_state \in States
  BY <1>1, TopFacts
<1>3. /\ StackOK' /\ (nested = {} => stack' = <<>>)
      /\ "reset" \notin nested => InProgress \in Nat /\ InProgress' = InProgress
  BY <1>1, Returns DEF IInv
<1>4. TypeOK'
  BY <1>1, <1>3 DEF IInv, TypeOK, StackOK, counters, history
<1>5. StartOK'
  BY <1>1, <1>2 DEF StartOK
<1>6. PlaceOK'
  BY <1>1, <1>3 DEF PlaceOK
<1>7. PairOK'
  BY <1>1, <1>2, <1>3 DEF IInv, PairOK, Entered, history
<1>8. Counted'
  BY <1>1, <1>3 DEF IInv, Counted, counters
<1>9. QED
  BY <1>3, <1>4, <1>5, <1>6, <1>7, <1>8 DEF IInv

-----------------------------------------------------------------------------
(* Theorems *)

\* The inductive invariant holds of every behaviour, whatever callbacks call.
THEOREM Invariance == Spec => []IInv
<1>1. Init => IInv
  <2> SUFFICES ASSUME Init PROVE IInv
    OBVIOUS
  <2>1. TypeOK
    <3>1. "OK" \in Results /\ Depth \in Nat /\ MaxStarts \in Nat
      BY FsmAssumption
    <3>2. <<>> \in Seq(Frames) /\ Len(<<>>) = 0
      BY EmptySeq
    <3>3. starts \in 0 .. MaxStarts /\ 0 \in Nat
      BY <3>1 DEF Init
    <3>4. stack \in Seq(Frames) /\ Len(stack) <= Depth
      BY <3>1, <3>2 DEF Init
    <3>5. QED
      BY <3>1, <3>3, <3>4 DEF Init, TypeOK
  <2>2. stack = <<>> /\ stack \in Seq(Frames) /\ Len(stack) = 0
    BY DEF Init
  <2>3. StackOK
    BY <2>2, FsmAssumption DEF StackOK, Inner
  <2>4. InProgress = 0
    <3>1. DispatchesIn(stack) = {}
      BY <2>2 DEF DispatchesIn
    <3>2. QED
      BY <3>1, FS_EmptySet DEF InProgress
  <2>5. QED
    BY <2>1, <2>2, <2>3, <2>4 DEF Init, IInv, StartOK, PlaceOK, PairOK, Entered, Counted
<1>2. IInv /\ [Next]_vars => IInv'
  <2> SUFFICES ASSUME IInv, [Next]_vars PROVE IInv'
    OBVIOUS
  <2>1. CASE UNCHANGED vars
    <3>1. UNCHANGED <<initialized, current_state, counters, stack, nested, history, starts>>
      BY <2>1 DEF vars
    <3>2. /\ TypeOK' <=> TypeOK
          /\ StackOK' <=> StackOK
          /\ StartOK' <=> StartOK
      BY <3>1 DEF counters, history, TypeOK, StackOK, StartOK, FrameOK, Inner
    <3>3. PlaceOK' <=> PlaceOK
      BY <3>1 DEF PlaceOK, Top
    <3>4. PairOK' <=> PairOK
      BY <3>1 DEF history, PairOK, Entered, Top
    <3>5. Counted' <=> Counted
      BY <3>1 DEF counters, Counted, InProgress, DispatchesIn
    <3>6. QED
      BY <3>2, <3>3, <3>4, <3>5 DEF IInv
  <2>2. CASE FsmInit
    BY <2>2, InitStep
  <2>3. CASE Reset
    BY <2>3, ResetStep
  <2>4. ASSUME NEW e \in Events, Dispatch(e) PROVE IInv'
    BY <2>4, DispatchStep
  <2>5. ASSUME NEW status \in Results, ActionReturns(status) PROVE IInv'
    BY <2>5, ActionStep
  <2>6. CASE GuardRejects \/ Commit \/ NoTransition \/ UpdateState
    BY <2>6, RejectStep, CommitStep, NoTransitionStep, UpdateStep
  <2>7. CASE FinishDispatch \/ RestoreInitial \/ FinishStart
    BY <2>7, FinishStep, RestoreStep, FinishStartStep
  <2>8. QED
    BY <2>1, <2>2, <2>3, <2>4, <2>5, <2>6, <2>7 DEF Next, CallStep
<1>3. QED
  BY <1>1, <1>2, PTL DEF Spec

\* The machine's variables keep their types, whatever the callbacks call.
THEOREM TypeCorrect == Spec => []TypeOK
  BY Invariance, PTL DEF IInv

\* Unless callbacks reset the machine, every dispatch ends in exactly one of the
\* two outcome counters, however deep callbacks dispatch.
THEOREM DispatchesAccounted == Spec => []("reset" \notin nested => EveryDispatchAccounted)
<1>1. IInv => ("reset" \notin nested => EveryDispatchAccounted)
  <2> SUFFICES ASSUME IInv, "reset" \notin nested PROVE EveryDispatchAccounted
    OBVIOUS
  <2>1. \A i \in 1 .. Len(stack) : stack[i].at \in {"scan", "exit", "action", "entry"}
    <3>1. stack \in Seq(Frames) /\ Len(stack) \in Nat
      BY DEF IInv, StackOK
    <3>2. \A i \in 1 .. Len(stack) : stack[i] \in Frames
      BY <3>1
    <3>3. QED
      BY <3>2 DEF Frames
  <2>2. Dispatches({"scan", "exit", "action", "entry"}) = InProgress
    BY <2>1 DEF Dispatches, InProgress, DispatchesIn
  <2>3. QED
    BY <2>2 DEF IInv, Counted, EveryDispatchAccounted
<1>2. QED
  BY <1>1, Invariance, PTL

\* If no callback calls the machine and init is called once, every on_exit is for
\* the state entered last, and every on_entry comes after it.
THEOREM EntriesAndExitsPair == Spec => []EntryExitPaired
<1>1. IInv => EntryExitPaired
  BY DEF IInv, PairOK, EntryExitPaired
<1>2. QED
  BY <1>1, Invariance, PTL

\* Every step of the machine is one of the machine that decides at once, or
\* leaves that alone.
LEMMA MachineStep ==
  ASSUME IInv, [Next]_vars
  PROVE  [Machine!Next]_(Machine!machineVars)
<1> DEFINE state == IF nested = {} /\ initialized THEN current_state ELSE Uninit
           asked == At("scan") \/ (At("exit") /\ Top.op = "dispatch")
           pending == IF nested = {} /\ asked THEN <<Top.ev>> ELSE <<>>
<1>1. UNCHANGED nested
  BY DEF Next, FsmInit, Reset, Dispatch, CallStep, GuardRejects, Commit, NoTransition, UpdateState,
         ActionReturns, FinishDispatch, RestoreInitial, FinishStart, vars
<1>2. ASSUME UNCHANGED <<state, pending>> PROVE UNCHANGED Machine!machineVars
  BY <1>2 DEF Machine!machineVars
<1>3. CASE nested # {}
  <2>1. UNCHANGED <<state, pending>>
    BY <1>1, <1>3
  <2>2. QED
    BY <1>2, <2>1
<1>4. CASE nested = {} /\ UNCHANGED vars
  <2>1. UNCHANGED <<state, pending>>
    BY <1>4 DEF vars, At, Top
  <2>2. QED
    BY <1>2, <2>1
<1>5. CASE nested = {} /\ FsmInit
  <2>1. /\ pending = <<>> /\ pending' = <<>> /\ state' = Initial
    BY <1>1, <1>5 DEF FsmInit, At, Top, Call
  <2>2. Machine!Start
    BY <2>1 DEF Machine!Start
  <2>3. QED
    BY <2>2 DEF Machine!Next
<1>6. ASSUME nested = {}, NEW e \in Events, Dispatch(e)
      PROVE  Machine!Next
  <2>1. stack = <<>> /\ initialized /\ current_state \in States /\ UNCHANGED <<initialized, current_state>>
    BY <1>6 DEF Dispatch, MayCall, IInv, StartOK
  <2>2. stack' # <<>> /\ Top'.at = "scan" /\ Top'.ev = e
    BY <1>6, <2>1 DEF Dispatch, Call, Top
  <2>3. pending = <<>> /\ pending' = <<e>> /\ state # Uninit /\ state' = state
    BY <1>1, <1>6, <2>1, <2>2, FsmAssumption DEF At
  <2>4. Machine!Offer(e)
    BY <2>3 DEF Machine!Offer
  <2>5. QED
    BY <2>4 DEF Machine!Next
<1>7. CASE nested = {} /\ (GuardRejects \/ Commit)
  <2>1. /\ stack # <<>> /\ At("scan") /\ Top.op = "dispatch"
        /\ UNCHANGED <<initialized, current_state>>
    BY <1>7, TopFacts DEF GuardRejects, Commit, At, FrameOK, Frames
  <2>2. /\ stack' # <<>> /\ Top'.op = "dispatch" /\ Top'.ev = Top.ev
        /\ Top'.at \in {"scan", "exit"}
    <3>1. CASE GuardRejects
      <4> DEFINE f == [Top EXCEPT !.row = FirstCandidate + 1]
      <4>1. f.op = Top.op /\ f.ev = Top.ev /\ f.at = "scan" /\ stack' = <<f>> \o Tail(stack)
        BY <2>1, <3>1, TopFacts DEF GuardRejects, Goto, Frames, At
      <4> HIDE DEF f
      <4>2. stack' # <<>> /\ stack'[1] = f
        BY <2>1, <4>1, TopFacts, PopFrame
      <4>3. QED
        BY <2>1, <4>1, <4>2 DEF Top
    <3>2. CASE Commit
      <4> DEFINE f == [Top EXCEPT !.row = FirstCandidate, !.at = "exit"]
      <4>1. f.op = Top.op /\ f.ev = Top.ev /\ f.at = "exit" /\ stack' = <<f>> \o Tail(stack)
        BY <2>1, <3>2, TopFacts DEF Commit, Goto, Frames
      <4> HIDE DEF f
      <4>2. stack' # <<>> /\ stack'[1] = f
        BY <2>1, <4>1, TopFacts, PopFrame
      <4>3. QED
        BY <2>1, <4>1, <4>2 DEF Top
    <3>3. QED
      BY <1>7, <3>1, <3>2
  <2>3. UNCHANGED <<state, pending>>
    BY <1>1, <1>7, <2>1, <2>2 DEF At
  <2>4. QED
    BY <1>2, <2>3
\* The rows before the scan's are guarded, and none is left: the event is ignored.
<1>8. CASE nested = {} /\ NoTransition
  <2>1. /\ stack # <<>> /\ At("scan") /\ Top \in Frames /\ FrameOK(Top) /\ Top.op = "dispatch"
        /\ initialized /\ current_state = Top.from /\ UNCHANGED <<initialized, current_state>>
        /\ stack' = <<>> /\ Candidates = {}
    BY <1>8, TopFacts, Returns DEF NoTransition, At, FrameOK, Frames, IInv, PlaceOK
  <2>2. /\ pending = <<Top.ev>> /\ pending' = <<>> /\ state = Top.from /\ state' = state
    BY <1>1, <1>8, <2>1 DEF At
  <2>3. Machine!MayIgnore(Top.from, Top.ev)
    <3>1. ASSUME NEW i \in DOMAIN Rows, Rows[i].from = Top.from, Rows[i].event = Top.ev
          PROVE  Rows[i].guarded
      <4>1. i \in 1 .. Len(Rows) /\ Top.row \in Nat
        BY <2>1, RowFacts, FsmAssumption DEF Frames
      <4>2. i < Top.row
        BY <2>1, <3>1, <4>1, RowFacts DEF Candidates
      <4>3. QED
        BY <2>1, <3>1, <4>1, <4>2 DEF FrameOK, Passed
    <3>2. QED
      BY <3>1 DEF Machine!MayIgnore, Machine!RowsFor
  <2>4. Machine!Decide
    BY <2>2, <2>3 DEF Machine!Decide
  <2>5. QED
    BY <2>4 DEF Machine!Next
\* The row that won may fire, since those before it are guarded.
<1>9. CASE nested = {} /\ UpdateState
  <2>1. /\ stack # <<>> /\ At("exit") /\ Top \in Frames /\ FrameOK(Top) /\ Top.op = "dispatch"
        /\ Top.at = "exit" /\ initialized /\ current_state = Top.from /\ UNCHANGED initialized
        /\ current_state' = Rows[Top.row].to
    BY <1>9, TopFacts DEF UpdateState, At, IInv, PlaceOK
  <2>2. stack' # <<>> /\ Top'.at = "action"
    <3> DEFINE f == [Top EXCEPT !.at = "action"]
    <3>1. f.at = "action" /\ stack' = <<f>> \o Tail(stack)
      BY <1>9, <2>1 DEF UpdateState, Goto, Frames
    <3> HIDE DEF f
    <3>2. stack' # <<>> /\ stack'[1] = f
      BY <2>1, <3>1, TopFacts, PopFrame
    <3>3. QED
      BY <3>1, <3>2 DEF Top
  <2>3. /\ pending = <<Top.ev>> /\ pending' = <<>> /\ state = Top.from /\ state' = Rows[Top.row].to
    BY <1>1, <1>9, <2>1, <2>2 DEF At
  <2>4. Top.row \in Machine!MayFire(Top.from, Top.ev)
    <3>1. DOMAIN Rows = 1 .. Len(Rows)
      BY FsmAssumption
    <3>2. QED
      BY <2>1, <3>1 DEF Machine!MayFire, Machine!RowsFor, FrameOK, Passed
  <2>5. Machine!Decide
    BY <2>3, <2>4 DEF Machine!Decide
  <2>6. QED
    BY <2>5 DEF Machine!Next
<1>10. ASSUME nested = {}, NEW s \in Results, ActionReturns(s)
       PROVE  UNCHANGED <<state, pending>>
  <2>1. /\ stack # <<>> /\ At("action") /\ Top \in Frames /\ ~ asked
        /\ UNCHANGED <<initialized, current_state>>
    BY <1>10, TopFacts DEF ActionReturns, At
  <2> DEFINE f == [Top EXCEPT !.at = "entry", !.status = s]
  <2>2. f.at = "entry" /\ stack' = <<f>> \o Tail(stack)
    BY <1>10, <2>1 DEF ActionReturns, Goto, Frames
  <2> HIDE DEF f
  <2>3. stack' # <<>> /\ stack'[1] = f
    BY <2>1, <2>2, TopFacts, PopFrame
  <2>4. ~ asked'
    BY <2>2, <2>3 DEF At, Top
  <2>5. QED
    BY <1>1, <2>1, <2>4
<1>11. CASE nested = {} /\ (FinishDispatch \/ FinishStart)
  <2>1. /\ stack # <<>> /\ At("entry") /\ stack' = <<>> /\ UNCHANGED <<initialized, current_state>>
    BY <1>1, <1>11, Returns DEF FinishDispatch, FinishStart, At, IInv
  <2>2. UNCHANGED <<state, pending>>
    BY <1>1, <2>1 DEF At
  <2>3. QED
    BY <1>2, <2>2
<1>12. CASE nested = {} /\ Reset
  <2>1. /\ stack = <<>> /\ UNCHANGED <<initialized, current_state>>
        /\ stack' # <<>> /\ Top'.at = "exit" /\ Top'.op = "reset"
    BY <1>12 DEF Reset, MayCall, Call, Top
  <2>2. UNCHANGED <<state, pending>>
    BY <1>1, <2>1 DEF At
  <2>3. QED
    BY <1>2, <2>2
<1>13. CASE nested = {} /\ RestoreInitial
  <2>1. /\ stack # <<>> /\ At("exit") /\ Top \in Frames /\ Top.op = "reset" /\ initialized
        /\ current_state' = Initial /\ UNCHANGED initialized
    BY <1>13, TopFacts DEF RestoreInitial, At
  <2> DEFINE f == [Top EXCEPT !.at = "entry"]
  <2>2. f.at = "entry" /\ stack' = <<f>> \o Tail(stack)
    BY <1>13, <2>1 DEF RestoreInitial, Goto, Frames
  <2> HIDE DEF f
  <2>3. stack' # <<>> /\ stack'[1] = f
    BY <2>1, <2>2, TopFacts, PopFrame
  <2>4. pending = <<>> /\ pending' = <<>> /\ state' = Initial
    BY <1>1, <1>13, <2>1, <2>2, <2>3 DEF At, Top
  <2>5. Machine!Start
    BY <2>4 DEF Machine!Start
  <2>6. QED
    BY <2>5 DEF Machine!Next
<1>14. QED
  BY <1>2, <1>3, <1>4, <1>5, <1>6, <1>7, <1>8, <1>9, <1>10, <1>11, <1>12, <1>13 DEF Next, CallStep

\* For every table, the machine that stops at each callback implements the one
\* that handles an event at once, if its callbacks do not call it.
THEOREM MachineImplemented == Spec => ImplementsMachine
<1>1. Init => Machine!Init
  BY DEF Init, Machine!Init, At
<1>2. IInv /\ [Next]_vars => [Machine!Next]_(Machine!machineVars)
  BY MachineStep
<1>3. QED
  BY <1>1, <1>2, Invariance, PTL DEF Spec, ImplementsMachine, Machine!Spec
=============================================================================
