---------------------------- MODULE Adapter_proofs ----------------------------
(***************************************************************************)
(* Proofs about the legacy Zephyr adapter, for every size of its parts,    *)
(* and, at the end, about the motion program that runs on it.              *)
(* RoPool: a pool in mutex mode, or one that a single context uses, never  *)
(* loses a block or hands it out twice, and its statistics and failures    *)
(* are true.  The log ring, the deadlines and the queue keep exact records *)
(* and the thread slots and pins keep their owners, whatever calls there   *)
(* are, as far as the properties of MCAdapter say so.                      *)
(* MotionPipeline: for queues of every length and every line, the pulses   *)
(* follow the plan and the machine is READY again only when all is done.   *)
(***************************************************************************)
EXTENDS MCAdapter, MotionPipeline, Arithmetic_proofs, SequenceTheorems,
        FiniteSetTheorems

\* The context is between pool_lock and pool_unlock.
Inside(c) == pc[c] \notin {"idle", "alloc", "free"}

\* What the argument needs to know of the types.
Types == /\ mode \in {"NONE", "MUTEX"} /\ users \in UsersOf(mode)
         /\ free \subseteq Blocks
         /\ PcTypeOK
         /\ word \in [Contexts -> SUBSET Blocks] /\ at \in [Contexts -> Int]
         /\ block \in [Contexts -> Blocks \cup {NoBlock}]
         /\ given \in [Blocks -> Nat]

OnlyUsersCall == \A c \in Contexts \ users : pc[c] = "idle"

\* Whoever is inside a mutex pool has the mutex.
InsideHolds == mode = "MUTEX" => \A c \in Contexts : Inside(c) => holder = c

\* What a call knows: the block it has, and that the word it read is still the
\* bitmap's when it writes it back.
CallKnows(c) ==
  /\ pc[c] \in {"idle", "alloc", "scan", "uncount", "uncounted"} => block[c] = NoBlock
  /\ pc[c] \in {"clear", "count", "counted", "peak", "free", "check", "set"} => block[c] \in Blocks
  /\ pc[c] \in {"check", "clear", "set"} => at[c] = WordOf(block[c])
  /\ pc[c] \in {"clear", "set"} => word[c] = Bits(at[c])
  /\ pc[c] = "clear" => block[c] \in free

\* The inductive invariant.
PoolInv == /\ Types /\ OnlyUsersCall /\ InsideHolds
           /\ \A c \in Contexts : CallKnows(c)
           /\ BlocksConserved

-----------------------------------------------------------------------------
(* Facts about the operators *)

\* The lowest block of a non-empty set is one of it.
LEMMA LowestInSet ==
  ASSUME NEW S \in SUBSET Blocks, S # {}
  PROVE  Lowest(S) \in S
<1>1. S \subseteq Nat
  BY PoolAssumption DEF Blocks
<1>2. \E b \in S : \A c \in S : b <= c
  BY <1>1, LeastNumber
<1>3. QED
  BY <1>2 DEF Lowest

\* The index of a block's word is an integer.
LEMMA WordOfType ==
  ASSUME NEW b \in Blocks
  PROVE  WordOf(b) \in Int
BY PoolAssumption DEF Blocks, WordOf

\* No two contexts are between lock and unlock at once.
LEMMA OneInside ==
  ASSUME PoolInv, NEW c \in Contexts, NEW d \in Contexts, Inside(c), Inside(d)
  PROVE  c = d
<1>1. c \in users /\ d \in users
  BY DEF PoolInv, OnlyUsersCall, Inside
<1>2. CASE mode = "MUTEX"
  BY <1>2 DEF PoolInv, InsideHolds
<1>3. CASE mode = "NONE"
  BY <1>1, <1>3 DEF PoolInv, Types, UsersOf
<1>4. QED
  BY <1>2, <1>3 DEF PoolInv, Types

\* What every step does to the place of its context.
LEMMA GoesFacts ==
  ASSUME PoolInv, NEW c \in Contexts, NEW from, NEW to, Goes(c, from, to)
  PROVE  /\ c \in users
         /\ pc[c] = from
         /\ pc'[c] = to
         /\ \A d \in Contexts \ {c} : pc'[d] = pc[d]
BY DEF Goes, PoolInv, Types, PcTypeOK

\* A write-back in a locked region changes one block's bit and no other.
LEMMA ClearTakesOne ==
  ASSUME PoolInv, NEW c \in Contexts, Clear(c)
  PROVE  free' = free \ {block[c]}
<1>1. pc[c] = "clear" /\ free' = {b \in free : WordOf(b) # at[c]} \cup (word[c] \ {block[c]})
  BY DEF Clear, Goes, WriteWord
<1>2. word[c] = {b \in free : WordOf(b) = at[c]} /\ at[c] = WordOf(block[c])
  BY <1>1 DEF PoolInv, CallKnows, Bits
<1>3. QED
  BY <1>1, <1>2

LEMMA SetReturnsOne ==
  ASSUME PoolInv, NEW c \in Contexts, Set(c)
  PROVE  free' = free \cup {block[c]}
<1>1. pc[c] = "set" /\ free' = {b \in free : WordOf(b) # at[c]} \cup (word[c] \cup {block[c]})
  BY DEF Set, Goes, WriteWord
<1>2. word[c] = {b \in free : WordOf(b) = at[c]} /\ at[c] = WordOf(block[c])
  BY <1>1 DEF PoolInv, CallKnows, Bits
<1>3. QED
  BY <1>1, <1>2

-----------------------------------------------------------------------------
(* The steps *)

\* The types are kept.
LEMMA TypesStep ==
  ASSUME PoolInv, NEW c \in Contexts, Step(c)
  PROVE  Types'
<1>1. Types
  BY DEF PoolInv
<1>2. mode' = mode /\ users' = users
  BY DEF Step, Call, Lock, NextWord, Exhausted, Found, Reload, Clear,
         ReadUsed, WriteUsed, UpdatePeak, Check, Set, Return
<1>3. PcTypeOK'
  BY <1>1 DEF Types, PcTypeOK, Step, Goes, Call, Lock, NextWord, Exhausted, Found, Reload, Clear,
         ReadUsed, WriteUsed, UpdatePeak, Check, Set, Return
<1>4. free' \subseteq Blocks
  <2>1. CASE Clear(c)
    BY <1>1, <2>1, ClearTakesOne DEF Types
  <2>2. CASE Set(c)
    <3>1. block[c] \in Blocks
      BY <2>2 DEF PoolInv, CallKnows, Set, Goes
    <3>2. QED
      BY <1>1, <2>2, <3>1, SetReturnsOne DEF Types
  <2>3. CASE ~ (Clear(c) \/ Set(c))
    BY <1>1, <2>3 DEF Types, Step, Call, Lock, NextWord, Exhausted, Found, Reload,
         ReadUsed, WriteUsed, UpdatePeak, Check, Return
  <2>4. QED
    BY <2>1, <2>2, <2>3
<1>5. word' \in [Contexts -> SUBSET Blocks]
  <2>1. word \in [Contexts -> SUBSET Blocks] /\ Bits(at[c]) \in SUBSET Blocks
    BY <1>1 DEF Types, Bits
  <2>2. \/ word' = word
        \/ word' = [word EXCEPT ![c] = Bits(at[c])]
        \/ word' = [word EXCEPT ![c] = {}]
    BY DEF Step, Call, Lock, NextWord, Exhausted, Found, Reload, Clear,
         ReadUsed, WriteUsed, UpdatePeak, Check, Set, Return
  <2>3. QED
    BY <2>1, <2>2
<1>6. at' \in [Contexts -> Int]
  <2>1. CASE Lock(c)
    <3>1. pc[c] = "alloc" \/ WordOf(block[c]) \in Int
      BY <2>1, WordOfType DEF Lock, Goes, PoolInv, CallKnows
    <3>2. at' = [at EXCEPT ![c] = IF pc[c] = "alloc" THEN 0 ELSE WordOf(block[c])]
      BY <2>1 DEF Lock
    <3>3. QED
      BY <1>1, <3>1, <3>2 DEF Types
  <2>2. CASE ~ Lock(c)
    BY <1>1, <2>2 DEF Types, Step, Call, NextWord, Exhausted, Found, Reload, Clear,
         ReadUsed, WriteUsed, UpdatePeak, Check, Set, Return
  <2>3. QED
    BY <2>1, <2>2
<1>7. block' \in [Contexts -> Blocks \cup {NoBlock}]
  <2>1. CASE Found(c)
    <3>1. Lowest(Bits(at[c])) \in Blocks
      BY <1>1, <2>1, LowestInSet DEF Found, Types, Bits
    <3>2. QED
      BY <1>1, <2>1, <3>1 DEF Found, Types
  <2>2. CASE ~ Found(c)
    BY <1>1, <2>2 DEF Types, Step, Call, Lock, NextWord, Exhausted, Reload, Clear,
         ReadUsed, WriteUsed, UpdatePeak, Check, Set, Return
  <2>3. QED
    BY <2>1, <2>2
<1>8. given' \in [Blocks -> Nat]
  <2>1. CASE Call(c)
    <3>1. CASE given' = given
      BY <1>1, <3>1 DEF Types
    <3>2. ASSUME NEW b \in Blocks, given[b] > 0, given' = [given EXCEPT ![b] = @ - 1]
          PROVE  given' \in [Blocks -> Nat]
      BY <1>1, <3>2 DEF Types
    <3>3. QED
      BY <2>1, <3>1, <3>2 DEF Call
  <2>2. CASE Return(c)
    BY <1>1, <2>2 DEF Return, Types
  <2>3. CASE ~ (Call(c) \/ Return(c))
    BY <1>1, <2>3 DEF Types, history, Step, Lock, NextWord, Exhausted, Found, Reload, Clear,
         ReadUsed, WriteUsed, UpdatePeak, Check, Set
  <2>4. QED
    BY <2>1, <2>2, <2>3
<1>9. QED
  BY <1>1, <1>2, <1>3, <1>4, <1>5, <1>6, <1>7, <1>8 DEF Types

\* Only users call, and whoever is inside has the mutex.
LEMMA CallersStep ==
  ASSUME PoolInv, NEW c \in Contexts, Step(c)
  PROVE  OnlyUsersCall' /\ InsideHolds'
<1> USE DEF PoolInv, OnlyUsersCall, InsideHolds, Inside
<1>1. c \in users /\ mode' = mode /\ users' = users /\ \A d \in Contexts \ {c} : pc'[d] = pc[d]
  BY DEF Types, PcTypeOK, Step, Goes, Call, Lock, NextWord, Exhausted, Found, Reload, Clear,
         ReadUsed, WriteUsed, UpdatePeak, Check, Set, Return
<1>2. OnlyUsersCall'
  BY <1>1
<1>3. CASE Call(c)
  BY <1>1, <1>3 DEF Call, Goes, Types, PcTypeOK
<1>4. CASE Lock(c)
  <2>1. mode = "MUTEX" => holder' = c /\ \A d \in Contexts : Inside(d) => FALSE
    BY <1>4, PoolAssumption DEF Lock, Contexts
  <2>2. QED
    BY <1>1, <1>2, <2>1
<1>5. CASE Return(c)
  <2>1. pc'[c] = "idle" /\ Inside(c)
    BY <1>5 DEF Return, Goes, Types, PcTypeOK
  <2>2. \A d \in Contexts \ {c} : ~ Inside(d)
    BY <2>1, OneInside
  <2>3. QED
    BY <1>1, <1>2, <2>1, <2>2
<1>6. CASE ~ (Call(c) \/ Lock(c) \/ Return(c))
  <2>1. Inside(c) /\ holder' = holder
    BY <1>6 DEF Step, Goes, NextWord, Exhausted, Found, Reload, Clear,
                ReadUsed, WriteUsed, UpdatePeak, Check, Set
  <2>2. QED
    BY <1>1, <1>2, <2>1
<1>7. QED
  BY <1>3, <1>4, <1>5, <1>6

\* What a call knows stays true: the other calls are outside the lock while
\* this one writes the bitmap.
LEMMA KnowsStep ==
  ASSUME PoolInv, NEW c \in Contexts, Step(c), NEW d \in Contexts
  PROVE  CallKnows(d)'
<1>1. Types /\ CallKnows(c) /\ CallKnows(d)
  BY DEF PoolInv
<1>2. CASE d # c
  <2>1. /\ pc'[d] = pc[d] /\ word'[d] = word[d] /\ at'[d] = at[d] /\ block'[d] = block[d]
    BY <1>1, <1>2 DEF Types, PcTypeOK, Step, Goes, Call, Lock, NextWord, Exhausted, Found, Reload,
           Clear, ReadUsed, WriteUsed, UpdatePeak, Check, Set, Return
  <2>2. CASE pc[d] \in {"clear", "set"}
    <3>1. ~ Inside(c)
      BY <1>2, <2>2, OneInside DEF Inside
    <3>2. free' = free
      BY <3>1 DEF Inside, Step, Goes, Call, Lock, NextWord, Exhausted, Found, Reload, Clear,
             ReadUsed, WriteUsed, UpdatePeak, Check, Set, Return
    <3>3. QED
      BY <1>1, <2>1, <2>2, <3>2 DEF CallKnows, Bits
  <2>3. CASE pc[d] \notin {"clear", "set"}
    BY <1>1, <2>1, <2>3 DEF CallKnows
  <2>4. QED
    BY <2>2, <2>3
<1>3. CASE d = c
  <2>1. CASE Call(c)
    BY <1>1, <1>3, <2>1 DEF Call, Goes, CallKnows, Types, PcTypeOK
  <2>2. CASE Lock(c) \/ Exhausted(c) \/ NextWord(c) \/ ReadUsed(c) \/ WriteUsed(c) \/ UpdatePeak(c)
    BY <1>1, <1>3, <2>2 DEF Lock, Exhausted, NextWord, ReadUsed, WriteUsed, UpdatePeak,
                            Goes, CallKnows, Types, PcTypeOK
  <2>3. CASE Found(c)
    <3>1. Lowest(Bits(at[c])) \in Bits(at[c])
      BY <1>1, <2>3, LowestInSet DEF Found, Types, Bits
    <3>2. Lowest(Bits(at[c])) \in free /\ WordOf(Lowest(Bits(at[c]))) = at[c]
      BY <3>1 DEF Bits
    <3>3. /\ pc'[c] = "clear" /\ word'[c] = Bits(at[c]) /\ at'[c] = at[c] /\ free' = free
          /\ block'[c] = Lowest(Bits(at[c]))
      BY <1>1, <2>3 DEF Found, Goes, Types, PcTypeOK
    <3>4. QED
      BY <1>1, <1>3, <3>2, <3>3 DEF CallKnows, Bits, Types
  <2>4. CASE Reload(c) \/ Check(c)
    BY <1>1, <1>3, <2>4 DEF Reload, Check, Goes, CallKnows, Bits, Types, PcTypeOK
  <2>5. CASE Clear(c) \/ Set(c) \/ Return(c)
    BY <1>1, <1>3, <2>5 DEF Clear, Set, Return, Goes, CallKnows, Types, PcTypeOK
  <2>6. QED
    BY <2>1, <2>2, <2>3, <2>4, <2>5 DEF Step
<1>4. QED
  BY <1>2, <1>3

\* A block's place, as BlocksConserved has it.
InPool(b)  == b \in free    /\ given[b] = 0 /\ Carrying(b) = {}
Out(b)     == b \notin free /\ given[b] = 1 /\ Carrying(b) = {}
InCall(b)  == b \notin free /\ given[b] = 0 /\ \E c \in Contexts : Carrying(b) = {c}
OnePlace(b) == InPool(b) \/ Out(b) \/ InCall(b)

\* A step that moves no block leaves every block where it is.
LEMMA NobodyMoves ==
  ASSUME NEW b \in Blocks, OnePlace(b),
         free' = free, given' = given, Carrying(b)' = Carrying(b)
  PROVE  OnePlace(b)'
BY DEF OnePlace, InPool, Out, InCall

\* Every block stays in exactly one place.
LEMMA ConservedStep ==
  ASSUME PoolInv, NEW c \in Contexts, Step(c), NEW b \in Blocks
  PROVE  OnePlace(b)'
<1>1. Types /\ CallKnows(c) /\ OnePlace(b)
  BY DEF PoolInv, BlocksConserved, OnePlace, InPool, Out, InCall
<1>2. NoBlock \notin Blocks
  BY PoolAssumption DEF Blocks
<1>3. \A d \in Contexts \ {c} : pc'[d] = pc[d] /\ block'[d] = block[d]
  BY <1>1 DEF Types, PcTypeOK, Step, Goes, Call, Lock, NextWord, Exhausted, Found, Reload,
         Clear, ReadUsed, WriteUsed, UpdatePeak, Check, Set, Return
<1>4. Carrying(b)' \ {c} = Carrying(b) \ {c}
  BY <1>3 DEF Carrying
<1>5. CASE Call(c)
  <2>1. free' = free /\ pc[c] = "idle" /\ block[c] = NoBlock /\ c \notin Carrying(b)
    BY <1>1, <1>2, <1>5 DEF Call, Goes, CallKnows, Carrying
  <2>2. CASE given' = given /\ block' = block
    <3>1. c \notin Carrying(b)'
      BY <1>2, <2>1, <2>2 DEF Carrying
    <3>2. QED
      BY <1>1, <1>4, <2>1, <2>2, <3>1, NobodyMoves
  <2>3. ASSUME NEW e \in Blocks, given[e] > 0, Goes(c, "idle", "free"),
               given' = [given EXCEPT ![e] = @ - 1], block' = [block EXCEPT ![c] = e]
        PROVE  OnePlace(b)'
    <3>1. block'[c] = e /\ pc'[c] = "free"
      BY <1>1, <2>3 DEF Goes, Types, PcTypeOK
    <3>2. CASE b = e
      <4>1. Out(b)
        BY <1>1, <2>3, <3>2 DEF OnePlace, InPool, Out, InCall
      <4>2. given'[b] = 0
        BY <1>1, <2>3, <3>2, <4>1 DEF Types, Out
      <4>3. Carrying(b)' = {c}
        BY <1>4, <3>1, <3>2, <4>1 DEF Out, Carrying
      <4>4. QED
        BY <2>1, <4>1, <4>2, <4>3 DEF OnePlace, Out, InCall
    <3>3. CASE b # e
      <4>1. given'[b] = given[b]
        BY <1>1, <2>3, <3>3 DEF Types
      <4>2. Carrying(b)' = Carrying(b)
        BY <1>4, <2>1, <3>1, <3>3 DEF Carrying
      <4>3. QED
        BY <1>1, <2>1, <4>1, <4>2 DEF OnePlace, InPool, Out, InCall
    <3>4. QED
      BY <3>2, <3>3
  <2>4. QED
    BY <1>5, <2>2, <2>3 DEF Call
<1>6. CASE \/ Lock(c) \/ NextWord(c) \/ Exhausted(c) \/ Reload(c)
           \/ ReadUsed(c) \/ WriteUsed(c) \/ UpdatePeak(c) \/ Check(c)
  <2>1. free' = free /\ given' = given /\ block' = block
    BY <1>6 DEF history, Lock, NextWord, Exhausted, Reload, ReadUsed, WriteUsed, UpdatePeak, Check
  <2>2. pc'[c] = "clear" <=> pc[c] = "clear"
    BY <1>1, <1>6 DEF Types, PcTypeOK, Goes, Lock, NextWord, Exhausted, Reload, ReadUsed,
                      WriteUsed, UpdatePeak, Check
  <2>3. Carrying(b)' = Carrying(b)
    BY <1>3, <2>1, <2>2 DEF Carrying
  <2>4. QED
    BY <1>1, <2>1, <2>3, NobodyMoves
<1>7. CASE Found(c)
  <2>1. free' = free /\ given' = given /\ block[c] = NoBlock /\ pc'[c] = "clear"
    BY <1>1, <1>7 DEF Found, Goes, CallKnows, history, Types, PcTypeOK
  <2>2. Carrying(b)' = Carrying(b)
    BY <1>2, <1>4, <2>1 DEF Carrying
  <2>3. QED
    BY <1>1, <2>1, <2>2, NobodyMoves
<1>8. CASE Clear(c)
  <2>1. /\ pc[c] = "clear" /\ pc'[c] = "count" /\ given' = given /\ block' = block
        /\ block[c] \in free /\ free' = free \ {block[c]}
    BY <1>1, <1>8, ClearTakesOne DEF Clear, Goes, CallKnows, Types, PcTypeOK
  <2>2. CASE b = block[c]
    <3>1. InPool(b)
      BY <1>1, <2>1, <2>2 DEF OnePlace, InPool, Out, InCall
    <3>2. Carrying(b)' = {c}
      BY <1>4, <2>1, <2>2, <3>1 DEF InPool, Carrying
    <3>3. QED
      BY <2>1, <2>2, <3>1, <3>2 DEF OnePlace, InPool, InCall
  <2>3. CASE b # block[c]
    <3>1. Carrying(b)' = Carrying(b)
      BY <1>4, <2>1, <2>3 DEF Carrying
    <3>2. QED
      BY <1>1, <2>1, <2>3, <3>1 DEF OnePlace, InPool, Out, InCall
  <2>4. QED
    BY <2>2, <2>3
<1>9. CASE Set(c)
  <2>1. /\ pc[c] = "set" /\ pc'[c] = "uncount" /\ given' = given
        /\ block'[c] = NoBlock /\ block[c] \in Blocks /\ free' = free \cup {block[c]}
    BY <1>1, <1>9, SetReturnsOne DEF Set, Goes, CallKnows, history, Types, PcTypeOK
  <2>2. c \notin Carrying(b)'
    BY <1>2, <2>1 DEF Carrying
  <2>3. CASE b = block[c]
    <3>1. c \in Carrying(b)
      BY <2>1, <2>3 DEF Carrying
    <3>2. InCall(b) /\ Carrying(b) = {c}
      BY <1>1, <3>1 DEF OnePlace, InPool, Out, InCall
    <3>3. Carrying(b)' = {}
      BY <1>4, <2>2, <3>2
    <3>4. QED
      BY <2>1, <2>3, <3>2, <3>3 DEF OnePlace, InPool, InCall
  <2>4. CASE b # block[c]
    <3>1. Carrying(b)' = Carrying(b)
      BY <1>4, <2>2, <2>4 DEF Carrying
    <3>2. QED
      BY <1>1, <2>1, <2>4, <3>1 DEF OnePlace, InPool, Out, InCall
  <2>5. QED
    BY <2>3, <2>4
<1>10. CASE Return(c)
  <2>1. /\ pc[c] = "unlock" /\ free' = free /\ block'[c] = NoBlock
        /\ given' = IF block[c] = NoBlock THEN given ELSE [given EXCEPT ![block[c]] = @ + 1]
    BY <1>1, <1>10 DEF Return, Goes, Types
  <2>2. c \notin Carrying(b)'
    BY <1>2, <2>1 DEF Carrying
  <2>3. CASE b = block[c]
    <3>1. c \in Carrying(b)
      BY <2>1, <2>3 DEF Carrying
    <3>2. InCall(b) /\ Carrying(b) = {c}
      BY <1>1, <3>1 DEF OnePlace, InPool, Out, InCall
    <3>3. Carrying(b)' = {}
      BY <1>4, <2>2, <3>2
    <3>4. given'[b] = 1
      BY <1>1, <1>2, <2>1, <2>3, <3>2 DEF InCall, Types
    <3>5. QED
      BY <2>1, <3>2, <3>3, <3>4 DEF OnePlace, InCall, Out
  <2>4. CASE b # block[c]
    <3>1. Carrying(b)' = Carrying(b)
      BY <1>4, <2>2, <2>4 DEF Carrying
    <3>2. given'[b] = given[b]
      BY <1>1, <2>1, <2>4 DEF Types
    <3>3. QED
      BY <1>1, <2>1, <3>1, <3>2 DEF OnePlace, InPool, Out, InCall
  <2>5. QED
    BY <2>3, <2>4
<1>11. QED
  BY <1>5, <1>6, <1>7, <1>8, <1>9, <1>10 DEF Step


\* The pool starts as the invariant has it.
LEMMA PoolStarts ==
  ASSUME Modes \subseteq {"NONE", "MUTEX"}, Init
  PROVE  PoolInv
<1>1. NoBlock \notin Blocks
  BY PoolAssumption DEF Blocks
<1>2. Types
  BY DEF Init, Types, PcTypeOK
<1>3. OnlyUsersCall /\ InsideHolds
  BY DEF Init, OnlyUsersCall, InsideHolds, Inside
<1>4. \A c \in Contexts : CallKnows(c)
  BY DEF Init, CallKnows
<1>5. \A b \in Blocks : Carrying(b) = {} /\ b \in free /\ given[b] = 0
  BY <1>1 DEF Init, Carrying
<1>6. BlocksConserved
  BY <1>5 DEF BlocksConserved
<1>7. QED
  BY <1>2, <1>3, <1>4, <1>6 DEF PoolInv

\* Every step of every call keeps it.
LEMMA PoolKept ==
  ASSUME PoolInv, [Next]_vars
  PROVE  PoolInv'
<1>1. ASSUME NEW c \in Contexts, Step(c)
      PROVE  PoolInv'
  <2>1. \A b \in Blocks : OnePlace(b)'
    BY <1>1, ConservedStep
  <2>2. BlocksConserved'
    BY <2>1 DEF BlocksConserved, OnePlace, InPool, Out, InCall
  <2>3. QED
    BY <1>1, <2>2, TypesStep, CallersStep, KnowsStep DEF PoolInv
<1>2. CASE UNCHANGED vars
  BY <1>2 DEF vars, locals, history, PoolInv, Types, UsersOf, PcTypeOK, OnlyUsersCall, InsideHolds,
              Inside, CallKnows, Bits, BlocksConserved, Carrying
<1>3. QED
  BY <1>1, <1>2 DEF Next

-----------------------------------------------------------------------------
(* The statistics *)

\* The number of blocks whose bit is clear.
TakenOut == NumBlocks - Cardinality(free)

\* What the calls of the one context inside have not written yet: used is one
\* behind the bitmap, or right; the peak is one allocation behind, or right;
\* and the words before the one that is searched have no block.
StatsKnown(c) ==
  /\ pc[c] \in {"count", "counted"} => used + 1 = TakenOut
  /\ pc[c] \in {"uncount", "uncounted"} => used - 1 = TakenOut
  /\ pc[c] \in {"counted", "peak", "uncounted"} => tally[c] = TakenOut
  /\ pc[c] \in {"count", "counted", "peak"} => high = IF TakenOut > peak THEN TakenOut ELSE peak
  /\ pc[c] = "scan" => \A b \in free : at[c] <= WordOf(b)

StatsInv ==
  /\ used \in Int /\ peak \in Int /\ high \in Int /\ tally \in [Contexts -> Int]
  /\ TakenOut <= high
  /\ (\A c \in Contexts : pc[c] \notin {"count", "counted", "uncount", "uncounted"}) => used = TakenOut
  /\ (\A c \in Contexts : pc[c] \notin {"count", "counted", "peak"}) => peak = high
  /\ \A c \in Contexts : StatsKnown(c)

\* The blocks, and what taking one or returning one counts.
LEMMA BlocksCounted ==
  ASSUME free \subseteq Blocks
  PROVE  /\ Cardinality(free) \in 0 .. NumBlocks
         /\ \A b \in free : Cardinality(free \ {b}) = Cardinality(free) - 1
         /\ \A b \in Blocks \ free : Cardinality(free \cup {b}) = Cardinality(free) + 1
         /\ Cardinality(Blocks) = NumBlocks
<1>1. NumBlocks \in Nat \ {0} /\ 0 \in Int /\ NumBlocks - 1 \in Int
  BY PoolAssumption
<1>2. IsFiniteSet(Blocks) /\ Cardinality(Blocks) = NumBlocks
  BY <1>1, FS_Interval DEF Blocks
<1>3. IsFiniteSet(free) /\ Cardinality(free) <= NumBlocks
  BY <1>2, FS_Subset
<1>4. Cardinality(free) \in Nat
  BY <1>3, FS_CardinalityType
<1>5. \A b \in free : Cardinality(free \ {b}) = Cardinality(free) - 1
  BY <1>3, FS_RemoveElement
<1>6. \A b \in Blocks \ free : Cardinality(free \cup {b}) = Cardinality(free) + 1
  BY <1>3, FS_AddElement
<1>7. QED
  BY <1>1, <1>2, <1>3, <1>4, <1>5, <1>6

\* No block lies beyond the last word.
LEMMA WordBounds ==
  ASSUME NEW b \in Blocks
  PROVE  WordOf(b) \in Nat /\ LastWord \in Nat /\ WordOf(b) <= LastWord
<1> DEFINE w == WordBits
           p == b \div w
           q == (NumBlocks - 1) \div w
<1>1. w \in Nat \ {0} /\ NumBlocks - 1 \in Nat /\ b \in 0 .. NumBlocks - 1
  BY PoolAssumption DEF Blocks
<1>2. p \in Int /\ w * p <= b /\ b < w * p + w
  BY <1>1
<1>3. q \in Int /\ w * q <= NumBlocks - 1 /\ NumBlocks - 1 < w * q + w
  BY <1>1
<1> HIDE DEF p, q
<1>4. ASSUME NEW k \in Int, NEW l \in Int, k < l
      PROVE  w * k + w <= w * l
  <2>1. k + 1 <= l /\ w \in Nat
    BY <1>1, <1>4
  <2>2. w * (k + 1) <= w * l
    BY <2>1
  <2>3. w * (k + 1) = w * k + w
    BY <2>1
  <2>4. QED
    BY <2>2, <2>3
<1>5. ~ (q < p)
  BY <1>1, <1>2, <1>3, <1>4
<1>6. ~ (p < 0) /\ ~ (q < 0)
  BY <1>1, <1>2, <1>3, <1>4
<1>7. WordOf(b) = p /\ LastWord = q
  BY DEF WordOf, LastWord, p, q
<1>8. QED
  BY <1>2, <1>3, <1>5, <1>6, <1>7

\* Every step of every call keeps the statistics.
LEMMA StatsStep ==
  ASSUME PoolInv, StatsInv, NEW c \in Contexts, Step(c)
  PROVE  StatsInv'
<1> DEFINE Uncounted == {"count", "counted", "uncount", "uncounted"}
           Unpeaked  == {"count", "counted", "peak"}
           Outside   == {"idle", "alloc", "free"}
<1>0. /\ Types /\ CallKnows(c) /\ StatsKnown(c) /\ free \subseteq Blocks
      /\ used \in Int /\ peak \in Int /\ high \in Int /\ tally \in [Contexts -> Int]
      /\ at \in [Contexts -> Int] /\ PcTypeOK
      /\ TakenOut <= high
  BY DEF PoolInv, Types, StatsInv
<1>1. \A d \in Contexts \ {c} : pc'[d] = pc[d] /\ at'[d] = at[d] /\ tally'[d] = tally[d]
  BY <1>0 DEF Types, PcTypeOK, Step, Goes, Call, Lock, NextWord, Exhausted, Found, Reload, Clear,
         ReadUsed, WriteUsed, UpdatePeak, Check, Set, Return
<1>2. TakenOut \in 0 .. NumBlocks /\ NumBlocks \in Nat /\ NumBlocks < CounterWidth /\ CounterWidth \in Nat \ {0}
  <2>1. Cardinality(free) \in 0 .. NumBlocks
    BY <1>0, BlocksCounted
  <2>2. NumBlocks \in Nat /\ NumBlocks < CounterWidth /\ CounterWidth \in Nat \ {0}
    BY PoolAssumption
  <2>3. QED
    BY <2>1, <2>2 DEF TakenOut
<1>3. CASE Call(c) \/ Lock(c)
  <2>1. /\ UNCHANGED <<free, used, peak, high, tally>>
        /\ pc[c] \in Outside /\ pc'[c] \in {"alloc", "free", "scan", "check"}
        /\ pc'[c] = "scan" => at'[c] = 0
    BY <1>0, <1>3 DEF Call, Lock, Goes, stats, history, PcTypeOK
  <2>2. TakenOut' = TakenOut
    BY <2>1 DEF TakenOut
  <2>3. \A d \in Contexts \ {c} : StatsKnown(d)'
    BY <1>1, <2>1, <2>2 DEF StatsKnown, StatsInv, WordOf
  <2>4. StatsKnown(c)'
    <3>1. \A b \in free : 0 <= WordOf(b)
      BY <1>0, WordBounds
    <3>2. pc'[c] = "scan" => \A b \in free' : at'[c] <= WordOf(b)
      BY <2>1, <3>1
    <3>3. QED
      BY <2>1, <3>2 DEF StatsKnown, WordOf
  <2>5. \A S \in {Uncounted, Unpeaked} :
           (\A d \in Contexts : pc'[d] \notin S) => \A d \in Contexts : pc[d] \notin S
    BY <1>1, <2>1
  <2>6. QED
    BY <2>1, <2>2, <2>3, <2>4, <2>5 DEF StatsInv
<1>4. CASE Inside(c)
  <2>1. \A d \in Contexts \ {c} : pc[d] \in Outside /\ pc'[d] = pc[d]
    BY <1>1, <1>4, OneInside DEF Inside
  <2>2. \A d \in Contexts \ {c} : StatsKnown(d)'
    BY <2>1 DEF StatsKnown
  <2>3. /\ pc[c] \notin Uncounted => used = TakenOut
        /\ pc[c] \notin Unpeaked => peak = high
    BY <2>1 DEF StatsInv
  <2>4. SUFFICES /\ used' \in Int /\ peak' \in Int /\ high' \in Int /\ tally' \in [Contexts -> Int]
                 /\ TakenOut' <= high'
                 /\ pc'[c] \notin Uncounted => used' = TakenOut'
                 /\ pc'[c] \notin Unpeaked => peak' = high'
                 /\ StatsKnown(c)'
    BY <2>2 DEF StatsInv
  <2>5. CASE \/ NextWord(c) \/ Exhausted(c) \/ Found(c) \/ Reload(c) \/ ReadUsed(c)
             \/ WriteUsed(c) \/ UpdatePeak(c) \/ Check(c) \/ Return(c)
    <3>1. free' = free /\ high' = high /\ TakenOut' = TakenOut
      BY <2>5 DEF NextWord, Exhausted, Found, Reload, ReadUsed, WriteUsed, UpdatePeak, Check, Return,
                  history, TakenOut
    <3>2. CASE Exhausted(c) \/ Found(c) \/ Reload(c) \/ Check(c)
      <4>1. /\ pc[c] \notin Uncounted \cup Unpeaked /\ pc'[c] \in {"unlock", "clear", "set"}
            /\ used' = used /\ peak' = peak /\ tally' = tally
        BY <1>0, <3>2 DEF Exhausted, Found, Reload, Check, Goes, stats, PcTypeOK
      <4>2. QED
        BY <1>0, <2>3, <3>1, <4>1 DEF StatsKnown
    <3>3. CASE Return(c)
      <4>1. /\ pc[c] = "unlock" /\ pc'[c] = "idle" /\ used' = used /\ peak' = peak
            /\ tally' = [tally EXCEPT ![c] = 0]
        BY <1>0, <3>3 DEF Return, Goes, stats, PcTypeOK
      <4>2. QED
        BY <1>0, <2>3, <3>1, <4>1 DEF StatsKnown
    <3>4. CASE NextWord(c)
      <4>1. /\ pc[c] = "scan" /\ pc'[c] = "scan" /\ used' = used /\ peak' = peak /\ tally' = tally
            /\ at'[c] = at[c] + 1 /\ Bits(at[c]) = {}
        BY <1>0, <3>4 DEF NextWord, Goes, stats, PcTypeOK
      <4>2. ASSUME NEW b \in free
            PROVE  at[c] + 1 <= WordOf(b)
        <5>1. at[c] <= WordOf(b) /\ at[c] # WordOf(b)
          BY <1>0, <4>1 DEF StatsKnown, Bits
        <5>2. at[c] \in Int /\ WordOf(b) \in Int
          BY <1>0, WordBounds
        <5>3. QED
          BY ONLY <5>1, <5>2
      <4>3. \A b \in free' : at'[c] <= WordOf(b)
        BY <3>1, <4>1, <4>2
      <4>4. StatsKnown(c)'
        BY <4>1, <4>3 DEF StatsKnown, WordOf
      <4>5. QED
        BY <1>0, <2>3, <3>1, <4>1, <4>4
    <3>5. CASE ReadUsed(c)
      <4>1. /\ used' = used /\ peak' = peak
            /\ \/ pc[c] = "count" /\ pc'[c] = "counted" /\ tally' = [tally EXCEPT ![c] = (used + 1) % CounterWidth]
               \/ pc[c] = "uncount" /\ pc'[c] = "uncounted" /\ tally' = [tally EXCEPT ![c] = (used - 1) % CounterWidth]
        BY <1>0, <3>5 DEF ReadUsed, Goes, stats, PcTypeOK, Up, Down
      <4>2. \A n \in 0 .. NumBlocks : n % CounterWidth = n
        BY <1>2
      <4>3. CASE pc[c] = "count"
        <5>1. pc'[c] = "counted" /\ used + 1 = TakenOut /\ tally' = [tally EXCEPT ![c] = (used + 1) % CounterWidth]
          BY <1>0, <4>1, <4>3 DEF StatsKnown
        <5>2. tally' = [tally EXCEPT ![c] = TakenOut]
          BY <1>2, <4>2, <5>1
        <5>3. QED
          BY <1>0, <1>2, <3>1, <4>1, <4>3, <5>1, <5>2 DEF StatsKnown
      <4>4. CASE pc[c] = "uncount"
        <5>1. pc'[c] = "uncounted" /\ used - 1 = TakenOut /\ tally' = [tally EXCEPT ![c] = (used - 1) % CounterWidth]
          BY <1>0, <4>1, <4>4 DEF StatsKnown
        <5>2. tally' = [tally EXCEPT ![c] = TakenOut]
          BY <1>2, <4>2, <5>1
        <5>3. QED
          BY <1>0, <1>2, <2>3, <3>1, <4>1, <4>4, <5>1, <5>2 DEF StatsKnown
      <4>5. QED
        BY <4>1, <4>3, <4>4
    <3>6. CASE WriteUsed(c)
      <4>1. /\ used' = tally[c] /\ peak' = peak /\ tally' = tally
            /\ \/ pc[c] = "counted" /\ pc'[c] = "peak"
               \/ pc[c] = "uncounted" /\ pc'[c] = "unlock"
        BY <1>0, <3>6 DEF WriteUsed, Goes, PcTypeOK
      <4>2. QED
        BY <1>0, <1>2, <2>3, <3>1, <4>1 DEF StatsKnown
    <3>7. CASE UpdatePeak(c)
      <4>1. /\ used' = used /\ tally' = tally /\ peak' = IF tally[c] > peak THEN tally[c] ELSE peak
            /\ pc[c] = "peak" /\ pc'[c] = "unlock"
        BY <1>0, <3>7 DEF UpdatePeak, Goes, PcTypeOK
      <4>2. QED
        BY <1>0, <1>2, <2>3, <3>1, <4>1 DEF StatsKnown
    <3>8. QED
      BY <2>5, <3>2, <3>3, <3>4, <3>5, <3>6, <3>7
  <2>6. CASE Clear(c)
    <3>1. /\ pc[c] = "clear" /\ pc'[c] = "count" /\ used' = used /\ peak' = peak /\ tally' = tally
          /\ free' = free \ {block[c]} /\ block[c] \in free
      BY <1>0, <2>6, ClearTakesOne DEF Clear, Goes, stats, PcTypeOK, CallKnows
    <3>2. high' = IF TakenOut' > high THEN TakenOut' ELSE high
      BY <2>6 DEF Clear, TakenOut
    <3>3. Cardinality(free') = Cardinality(free) - 1
      BY <1>0, <3>1, BlocksCounted
    <3>4. Cardinality(free) \in Int /\ NumBlocks \in Int
      BY <1>0, <1>2, BlocksCounted
    <3>5. TakenOut' = TakenOut + 1
      BY <3>3, <3>4 DEF TakenOut
    <3>6. QED
      BY <1>0, <1>2, <2>3, <3>1, <3>2, <3>5 DEF StatsKnown
  <2>7. CASE Set(c)
    <3>1. /\ pc[c] = "set" /\ pc'[c] = "uncount" /\ used' = used /\ peak' = peak /\ tally' = tally
          /\ high' = high /\ free' = free \cup {block[c]} /\ block[c] \in Blocks
      BY <1>0, <2>7, SetReturnsOne DEF Set, Goes, stats, history, PcTypeOK, CallKnows
    <3>2. block[c] \notin free
      <4>1. c \in Carrying(block[c])
        BY <3>1 DEF Carrying
      <4>2. QED
        BY <3>1, <4>1 DEF PoolInv, BlocksConserved
    <3>3. Cardinality(free') = Cardinality(free) + 1
      BY <1>0, <3>1, <3>2, BlocksCounted
    <3>4. Cardinality(free) \in Int /\ NumBlocks \in Int
      BY <1>0, <1>2, BlocksCounted
    <3>5. TakenOut' = TakenOut - 1
      BY <3>3, <3>4 DEF TakenOut
    <3>6. QED
      BY <1>0, <1>2, <2>3, <3>1, <3>5 DEF StatsKnown
  <2>8. QED
    BY <1>4, <2>5, <2>6, <2>7 DEF Step, Inside, Goes, Call, Lock
<1>5. QED
  BY <1>3, <1>4 DEF Step, Inside, Goes, NextWord, Exhausted, Found, Reload, Clear,
         ReadUsed, WriteUsed, UpdatePeak, Check, Set, Return

\* At most one call is between a change of the bitmap and its count.
LEMMA AtMostOneCounts ==
  ASSUME PoolInv, NEW S, S \cap {"idle", "alloc", "free"} = {}
  PROVE  /\ (\A c \in Contexts : pc[c] \notin S) => Counting(S) = 0
         /\ \A c \in Contexts : pc[c] \in S => Counting(S) = 1
<1>1. ASSUME \A c \in Contexts : pc[c] \notin S
      PROVE  Counting(S) = 0
  <2>1. {c \in Contexts : pc[c] \in S} = {}
    BY <1>1
  <2>2. QED
    BY <2>1, FS_EmptySet DEF Counting
<1>2. ASSUME NEW c \in Contexts, pc[c] \in S
      PROVE  Counting(S) = 1
  <2>1. {d \in Contexts : pc[d] \in S} = {c}
    BY <1>2, OneInside DEF Inside
  <2>2. QED
    BY <2>1, FS_Singleton DEF Counting
<1>3. QED
  BY <1>1, <1>2

\* What the invariant says of the statistics.
LEMMA StatsShown ==
  ASSUME PoolInv, StatsInv
  PROVE  StatsExact
<1> DEFINE Up2   == {"count", "counted"}
           Down2 == {"uncount", "uncounted"}
           Late  == {"count", "counted", "peak"}
<1>1. \A S \in {Up2, Down2, Late} : S \cap {"idle", "alloc", "free"} = {}
  OBVIOUS
<1>2. \A S \in {Up2, Down2, Late} :
        /\ (\A c \in Contexts : pc[c] \notin S) => Counting(S) = 0
        /\ \A c \in Contexts : pc[c] \in S => Counting(S) = 1
  BY <1>1, AtMostOneCounts
<1>3. used \in Int /\ TakenOut = NumBlocks - Cardinality(free)
  BY DEF StatsInv, TakenOut
<1>4. used + Counting(Up2) - Counting(Down2) = TakenOut
  <2>1. CASE \E c \in Contexts : pc[c] \in Up2
    <3>1. PICK c \in Contexts : pc[c] \in Up2
      BY <2>1
    <3>2. used + 1 = TakenOut /\ \A d \in Contexts : pc[d] \notin Down2
      BY <3>1, OneInside DEF StatsInv, StatsKnown, Inside
    <3>3. Counting(Up2) = 1 /\ Counting(Down2) = 0
      BY <1>2, <3>1, <3>2
    <3>4. QED
      BY <1>3, <3>2, <3>3
  <2>2. CASE \E c \in Contexts : pc[c] \in Down2
    <3>1. PICK c \in Contexts : pc[c] \in Down2
      BY <2>2
    <3>2. used - 1 = TakenOut /\ \A d \in Contexts : pc[d] \notin Up2
      BY <3>1, OneInside DEF StatsInv, StatsKnown, Inside
    <3>3. Counting(Down2) = 1 /\ Counting(Up2) = 0
      BY <1>2, <3>1, <3>2
    <3>4. QED
      BY <1>3, <3>2, <3>3
  <2>3. CASE \A c \in Contexts : pc[c] \notin Up2 \cup Down2
    <3>1. used = TakenOut
      BY <2>3 DEF StatsInv
    <3>2. Counting(Up2) = 0 /\ Counting(Down2) = 0
      BY <1>2, <2>3
    <3>3. QED
      BY <1>3, <3>1, <3>2
  <2>4. QED
    BY <2>1, <2>2, <2>3
<1>5. Counting(Late) = 0 => peak = high
  <2>1. SUFFICES ASSUME Counting(Late) = 0
                 PROVE  peak = high
    OBVIOUS
  <2>2. \A c \in Contexts : pc[c] \notin Late
    BY <1>2, <2>1
  <2>3. QED
    BY <2>2 DEF StatsInv
<1>6. QED
  BY <1>3, <1>4, <1>5 DEF StatsExact

\* A failure is counted by a search that has seen every word empty.
LEMMA FailureIsFull ==
  ASSUME PoolInv, StatsInv, [Next]_vars
  PROVE  FailsOnlyWhenFull
<1>1. SUFFICES ASSUME failures' # failures
               PROVE  free = {}
  BY DEF FailsOnlyWhenFull
<1>2. PICK c \in Contexts : Exhausted(c)
  BY <1>1 DEF Next, Step, vars, stats, Call, Lock, NextWord, Found, Reload, Clear,
         ReadUsed, WriteUsed, UpdatePeak, Check, Set, Return
<1>3. pc[c] = "scan" /\ at[c] = LastWord /\ \A b \in free : WordOf(b) # LastWord
  BY <1>2 DEF Exhausted, Goes, Bits
<1>4. \A b \in free : b \in Blocks /\ LastWord <= WordOf(b)
  BY <1>3 DEF StatsInv, StatsKnown, PoolInv, Types
<1>5. \A b \in free : WordOf(b) = LastWord
  BY <1>4, WordBounds
<1>6. QED
  BY <1>3, <1>5
-----------------------------------------------------------------------------
(* The window of the log ring *)

\* How far h is ahead of t on a ring.
LEMMA Ahead ==
  ASSUME NEW w \in Nat \ {0}, NEW h \in 0 .. w - 1, NEW t \in 0 .. w - 1
  PROVE  (h - t) % w = IF t <= h THEN h - t ELSE h - t + w
<1>1. CASE t <= h
  <2>1. h - t \in 0 .. 2 * w - 1 /\ h - t < w
    BY <1>1
  <2>2. QED
    BY <1>1, <2>1, WrapsOnce
<1>2. CASE ~ (t <= h)
  <2> DEFINE r == h - t + w
  <2>1. r \in 0 .. w - 1 /\ h - t = w * (-1) + r /\ -1 \in Int
    BY <1>2
  <2> HIDE DEF r
  <2>2. (w * (-1) + r) % w = r
    BY <2>1, RemainderUnique
  <2>3. (h - t) % w = r
    BY <2>1, <2>2
  <2>4. QED
    BY <1>2, <2>3 DEF r
<1>3. QED
  BY <1>1, <1>2

\* How many entries the ring holds.
Waiting == (head - tail) % RingCount

\* The window between tail and head: where its entries are, and how it moves.
LEMMA Window ==
  ASSUME head \in 0 .. RingCount - 1, tail \in 0 .. RingCount - 1
  PROVE  /\ Waiting \in 0 .. RingCount - 1
         /\ (head + 1) % RingCount \in 0 .. RingCount - 1
         /\ (tail + 1) % RingCount \in 0 .. RingCount - 1
         /\ (tail + Waiting) % RingCount = head
         /\ \A i \in 1 .. Waiting : /\ (tail + i - 1) % RingCount \in 0 .. RingCount - 1
                                    /\ (tail + i - 1) % RingCount # head
         /\ (head + 1) % RingCount # tail => (((head + 1) % RingCount) - tail) % RingCount = Waiting + 1
         /\ head # tail => /\ Waiting > 0 /\ (head - ((tail + 1) % RingCount)) % RingCount = Waiting - 1
                           /\ (head + 1) % RingCount # (tail + 1) % RingCount
                           /\ \A i \in 1 .. Waiting - 1 :
                                (((tail + 1) % RingCount) + i - 1) % RingCount = (tail + i) % RingCount
         /\ head = tail => Waiting = 0
<1> DEFINE w == RingCount
           n == Waiting
<1>0. w \in Nat \ {0} /\ head \in 0 .. w - 1 /\ tail \in 0 .. w - 1 /\ n = (head - tail) % w
  BY AdapterAssumption DEF Waiting
<1> HIDE DEF w, n
<1>1. n = IF tail <= head THEN head - tail ELSE head - tail + w
  BY <1>0, Ahead
<1>2. n \in 0 .. w - 1
  BY <1>0, <1>1
<1>3. ASSUME NEW x \in 0 .. w - 1
      PROVE  (x + 1) % w = IF x + 1 < w THEN x + 1 ELSE 0
  <2> DEFINE y == x + 1
  <2>1. y \in 0 .. 2 * w - 1 /\ (y < w \/ y = w)
    BY <1>0
  <2> HIDE DEF y
  <2>2. y % w = IF y < w THEN y ELSE y - w
    BY <1>0, <2>1, WrapsOnce
  <2>3. y % w = IF y < w THEN y ELSE 0
    BY <1>0, <2>1, <2>2
  <2>4. QED
    BY <1>0, <2>3 DEF y
<1>4. (head + 1) % w \in 0 .. w - 1 /\ (tail + 1) % w \in 0 .. w - 1
  BY <1>0, <1>3
<1>5. ASSUME NEW k \in 0 .. w - 1
      PROVE  (tail + k) % w = IF tail + k < w THEN tail + k ELSE tail + k - w
  <2> DEFINE y == tail + k
  <2>1. y \in 0 .. 2 * w - 1
    BY <1>0
  <2> HIDE DEF y
  <2>2. y % w = IF y < w THEN y ELSE y - w
    BY <1>0, <2>1, WrapsOnce
  <2>3. QED
    BY <1>0, <2>2 DEF y
<1>6. (tail + n) % w = head
  BY <1>0, <1>1, <1>2, <1>5
<1>7. ASSUME NEW i \in 1 .. n
      PROVE  (tail + i - 1) % w \in 0 .. w - 1 /\ (tail + i - 1) % w # head
  <2>1. i - 1 \in 0 .. w - 1 /\ tail + (i - 1) = tail + i - 1
    BY <1>0, <1>2
  <2>2. (tail + i - 1) % w = IF tail + (i - 1) < w THEN tail + (i - 1) ELSE tail + (i - 1) - w
    BY <1>0, <1>5, <2>1
  <2>3. QED
    BY <1>0, <1>1, <2>1, <2>2
<1>8. ASSUME (head + 1) % w # tail
      PROVE  (((head + 1) % w) - tail) % w = n + 1
  <2> DEFINE a == (head + 1) % w
  <2>1. a \in 0 .. w - 1 /\ a = IF head + 1 < w THEN head + 1 ELSE 0
    BY <1>0, <1>3
  <2> HIDE DEF a
  <2>2. (a - tail) % w = IF tail <= a THEN a - tail ELSE a - tail + w
    BY <1>0, <2>1, Ahead
  <2>3. a # tail
    BY <1>0, <1>8 DEF a
  <2>4. (a - tail) % w = n + 1
    BY <1>0, <1>1, <2>1, <2>2, <2>3
  <2>5. QED
    BY <1>0, <2>4 DEF a
<1>9. ASSUME head # tail
      PROVE  /\ n > 0 /\ (head - ((tail + 1) % w)) % w = n - 1
             /\ (head + 1) % w # (tail + 1) % w
             /\ \A i \in 1 .. n - 1 : (((tail + 1) % w) + i - 1) % w = (tail + i) % w
  <2> DEFINE a == (tail + 1) % w
  <2>1. a \in 0 .. w - 1 /\ a = IF tail + 1 < w THEN tail + 1 ELSE 0
    BY <1>0, <1>3
  <2> HIDE DEF a
  <2>2. (head - a) % w = IF a <= head THEN head - a ELSE head - a + w
    BY <1>0, <2>1, Ahead
  <2>3. n > 0 /\ (head - a) % w = n - 1
    BY <1>0, <1>1, <1>9, <2>1, <2>2
  <2>4. (head + 1) % w # a
    BY <1>0, <1>3, <1>9, <2>1
  <2>5. ASSUME NEW i \in 1 .. n - 1
        PROVE  (a + i - 1) % w = (tail + i) % w
    <3>1. (tail + i) % w = IF tail + i < w THEN tail + i ELSE tail + i - w
      BY <1>0, <1>2, <1>5
    <3> DEFINE y == a + i - 1
    <3>2. y \in 0 .. 2 * w - 1
      BY <1>0, <1>2, <2>1
    <3> HIDE DEF y
    <3>3. y % w = IF y < w THEN y ELSE y - w
      BY <1>0, <3>2, WrapsOnce
    <3>4. y = IF tail + 1 < w THEN tail + i ELSE i - 1
      BY <1>0, <1>2, <2>1 DEF y
    <3>5. y % w = (tail + i) % w
      BY <1>0, <1>2, <3>1, <3>3, <3>4
    <3>6. QED
      BY <3>5 DEF y
  <2>6. QED
    BY <1>0, <2>3, <2>4, <2>5 DEF a
<1>10. head = tail => n = 0
  BY <1>0, <1>1
<1>11. QED
  BY <1>0, <1>2, <1>4, <1>6, <1>7, <1>8, <1>9, <1>10 DEF w, n

-----------------------------------------------------------------------------
(* The log *)

\* As long as no call interrupted another one: the window of the ring holds
\* what is expected, a call that writes has read the head as it still is, and
\* what is being printed is the oldest entry.
LogInv ==
  /\ head \in 0 .. RingCount - 1 /\ tail \in 0 .. RingCount - 1
  /\ ring \in [0 .. RingCount - 1 -> Messages \cup {NoMessage}]
  /\ expected \in Seq(Messages \cup {NoMessage})
  /\ logging \in [at : {"idle", "drop", "write", "publish"},
                  message : Messages \cup {NoMessage}, read : Int]
  /\ dropped \in Int /\ refused \in Int /\ raced \in BOOLEAN
  /\ logging.at \in {"write", "publish"} => logging.read \in 0 .. RingCount - 1
  /\ ~raced =>
       /\ Len(expected) = (head - tail) % RingCount
       /\ \A i \in 1 .. Len(expected) : expected[i] = ring[(tail + i - 1) % RingCount]
       /\ logging.at \in {"write", "publish"} =>
            logging.read = (head + 1) % RingCount /\ (head + 1) % RingCount # tail
       /\ logging.at = "publish" => ring[head] = logging.message
       /\ logging.at = "drop" => logging.read = dropped
       /\ printing # NoMessage => tail # head /\ printing = expected[1]
       /\ dropped = refused

\* One more entry at the head: the window grows by it.
LEMMA EntryAdded ==
  ASSUME LogInv, ~raced, NEW m \in Messages \cup {NoMessage}, (head + 1) % RingCount # tail,
         head' = (head + 1) % RingCount, tail' = tail,
         expected' = Append(expected, m),
         ring' \in [0 .. RingCount - 1 -> Messages \cup {NoMessage}],
         ring'[head] = m,
         \A j \in 0 .. RingCount - 1 : j # head => ring'[j] = ring[j]
  PROVE  /\ head' \in 0 .. RingCount - 1 /\ expected' \in Seq(Messages \cup {NoMessage})
         /\ Len(expected') = (head' - tail') % RingCount
         /\ \A i \in 1 .. Len(expected') : expected'[i] = ring'[(tail' + i - 1) % RingCount]
         /\ tail # head => expected'[1] = expected[1]
<1> DEFINE w == RingCount
           n == Waiting
           S == Messages \cup {NoMessage}
<1> HIDE DEF n, S
<1>1. /\ w \in Nat \ {0} /\ head \in 0 .. w - 1 /\ tail \in 0 .. w - 1
      /\ (head + 1) % w # tail
      /\ expected \in Seq(S) /\ m \in S /\ Len(expected) = n
      /\ \A i \in 1 .. n : expected[i] = ring[(tail + i - 1) % w]
  BY AdapterAssumption DEF LogInv, S, n, Waiting
<1>2. /\ n \in 0 .. w - 1 /\ (head + 1) % w \in 0 .. w - 1
      /\ (tail + n) % w = head
      /\ \A i \in 1 .. n : (tail + i - 1) % w \in 0 .. w - 1 /\ (tail + i - 1) % w # head
      /\ (((head + 1) % w) - tail) % w = n + 1
      /\ head # tail => n > 0
  BY <1>1, Window DEF n
<1>3. /\ expected' \in Seq(S) /\ Len(expected') = n + 1
      /\ expected'[n + 1] = m /\ \A i \in 1 .. n : expected'[i] = expected[i]
  <2>1. expected' = Append(expected, m) /\ n \in Nat
    BY <1>1, <1>2
  <2>2. QED
    BY ONLY <1>1, <2>1
<1>4. (head' - tail') % w = n + 1
  BY <1>2
<1>5. ASSUME NEW i \in 1 .. n + 1
      PROVE  expected'[i] = ring'[(tail + i - 1) % w]
  <2>1. CASE i \in 1 .. n
    <3> DEFINE j == (tail + i - 1) % w
    <3>1. j \in 0 .. w - 1 /\ j # head /\ expected[i] = ring[j]
      BY <1>1, <1>2, <2>1
    <3> HIDE DEF j
    <3>2. ring'[j] = ring[j]
      BY <3>1
    <3>3. expected'[i] = expected[i]
      BY <1>3, <2>1
    <3>4. QED
      BY <3>1, <3>2, <3>3 DEF j
  <2>2. CASE i = n + 1
    <3>1. tail + i - 1 = tail + n
      BY <1>1, <1>2, <2>2
    <3>2. (tail + i - 1) % w = head
      BY ONLY <1>2, <3>1
    <3>3. expected'[i] = m
      BY <1>3, <2>2
    <3>4. ring'[(tail + i - 1) % w] = ring'[head]
      BY ONLY <3>2, Zenon
    <3>5. QED
      BY <3>3, <3>4, Zenon
  <2>3. i \in 1 .. n \/ i = n + 1
    <3>1. n \in Nat
      BY <1>1, <1>2
    <3>2. QED
      BY ONLY <3>1, i \in 1 .. n + 1
  <2>4. QED
    BY <2>1, <2>2, <2>3, Zenon
<1>6. tail # head => expected'[1] = expected[1]
  BY <1>2, <1>3
<1>7. QED
  BY <1>2, <1>3, <1>4, <1>5, <1>6 DEF S

\* Every call of log and flush, and every interrupt that logs, keeps it.
LEMMA LogKept ==
  ASSUME LogInv, [Log!Next]_logVars
  PROVE  LogInv'
<1> DEFINE w == RingCount
           S == Messages \cup {NoMessage}
           Idx == 0 .. w - 1
<1>1. /\ w \in Nat \ {0} /\ head \in Idx /\ tail \in Idx /\ ring \in [Idx -> S]
      /\ expected \in Seq(S) /\ raced \in BOOLEAN /\ NoMessage \in S
      /\ (head + 1) % w \in Idx /\ (tail + 1) % w \in Idx
  BY AdapterAssumption, Window DEF LogInv
<1>2. ASSUME NEW m \in Messages, Log!Log(m)
      PROVE  LogInv'
  <2>1. /\ UNCHANGED <<ring, head, tail, dropped, printing, expected, refused, raced>>
        /\ \/ logging' = [at |-> "drop", message |-> m, read |-> dropped]
           \/ /\ logging' = [at |-> "write", message |-> m, read |-> (head + 1) % w]
              /\ (head + 1) % w # tail
    BY <1>2 DEF Log!Log, Log!Full, Log!After
  <2>2. (head + 1) % w \in Int
    BY <1>1
  <2>3. QED
    BY <1>1, <2>1, <2>2 DEF LogInv
<1>3. CASE Log!Drop
  <2>1. /\ UNCHANGED <<ring, head, tail, printing, expected, raced>>
        /\ logging.at = "drop" /\ dropped' = logging.read + 1 /\ refused' = refused + 1
        /\ logging' = [at |-> "idle", message |-> NoMessage, read |-> 0]
    BY <1>3 DEF Log!Drop, Log!NotLogging
  <2>2. QED
    BY <1>1, <2>1 DEF LogInv
<1>4. CASE Log!Write
  <2>1. /\ UNCHANGED <<head, tail, dropped, printing, expected, refused, raced>>
        /\ logging.at = "write" /\ logging' = [logging EXCEPT !.at = "publish"]
        /\ ring' = [ring EXCEPT ![head] = logging.message]
    BY <1>4 DEF Log!Write
  <2>2. /\ ring' \in [Idx -> S] /\ ring'[head] = logging.message
        /\ \A j \in Idx : j # head => ring'[j] = ring[j]
    BY <1>1, <2>1 DEF LogInv
  <2>3. ~raced => \A i \in 1 .. Len(expected) : expected[i] = ring'[(tail + i - 1) % w]
    <3>1. \A i \in 1 .. Waiting : (tail + i - 1) % w \in Idx /\ (tail + i - 1) % w # head
      BY <1>1, Window
    <3>2. QED
      BY <2>2, <3>1 DEF LogInv, Waiting
  <2>4. QED
    BY <1>1, <2>1, <2>2, <2>3 DEF LogInv
<1>5. CASE Log!Publish
  <2>1. /\ UNCHANGED <<ring, tail, dropped, printing, refused, raced>>
        /\ logging.at = "publish" /\ head' = logging.read
        /\ logging' = [at |-> "idle", message |-> NoMessage, read |-> 0]
        /\ expected' = IF raced THEN <<>> ELSE Append(expected, logging.message)
    BY <1>5 DEF Log!Publish, Log!NotLogging, Log!Expects
  <2>2. CASE raced
    BY <1>1, <2>1, <2>2 DEF LogInv
  <2>3. CASE ~raced
    <3>1. /\ head' = (head + 1) % w /\ (head + 1) % w # tail
          /\ logging.message \in S /\ ring[head] = logging.message
      BY <2>1, <2>3 DEF LogInv
    <3>2. /\ head' \in Idx /\ expected' \in Seq(S)
          /\ Len(expected') = (head' - tail') % w
          /\ \A i \in 1 .. Len(expected') : expected'[i] = ring'[(tail' + i - 1) % w]
          /\ tail # head => expected'[1] = expected[1]
      BY <1>1, <2>1, <2>3, <3>1, EntryAdded
    <3>3. printing # NoMessage => tail' # head'
      BY <2>1, <3>1
    <3>4. /\ logging' \in [at : {"idle", "drop", "write", "publish"}, message : S, read : Int]
          /\ logging'.at = "idle"
      BY <1>1, <2>1
    <3>5. /\ ring' = ring /\ tail' = tail /\ dropped' = dropped /\ refused' = refused
          /\ printing' = printing /\ ~raced' /\ raced' \in BOOLEAN
      BY <1>1, <2>1, <2>3
    <3>6. printing # NoMessage => printing = expected'[1]
      BY <2>3, <3>2 DEF LogInv
    <3>7. QED
      BY <1>1, <2>3, <3>2, <3>3, <3>4, <3>5, <3>6 DEF LogInv
  <2>4. QED
    BY <2>2, <2>3
<1>6. ASSUME NEW m \in Messages, Log!InterruptLogs(m)
      PROVE  LogInv'
  <2>1. /\ UNCHANGED <<tail, dropped, logging, printing, refused>>
        /\ (head + 1) % w # tail /\ head' = (head + 1) % w
        /\ ring' = [ring EXCEPT ![head] = m]
        /\ raced' = (raced \/ logging.at \in {"write", "publish"})
        /\ expected' = IF raced' THEN <<>> ELSE Append(expected, m)
    BY <1>6 DEF Log!InterruptLogs, Log!Full, Log!After, Log!Expects
  <2>2. /\ ring' \in [Idx -> S] /\ ring'[head] = m
        /\ \A j \in Idx : j # head => ring'[j] = ring[j]
        /\ raced' \in BOOLEAN
    BY <1>1, <2>1
  <2>3. CASE raced'
    BY <1>1, <2>1, <2>2, <2>3 DEF LogInv
  <2>4. CASE ~raced'
    <3>1. ~raced /\ logging.at \notin {"write", "publish"}
      BY <2>1, <2>4
    <3>2. /\ head' \in Idx /\ expected' \in Seq(S)
          /\ Len(expected') = (head' - tail') % w
          /\ \A i \in 1 .. Len(expected') : expected'[i] = ring'[(tail' + i - 1) % w]
          /\ tail # head => expected'[1] = expected[1]
      BY <1>1, <2>1, <2>2, <2>4, <3>1, EntryAdded
    <3>3. QED
      BY <1>1, <2>1, <2>2, <2>4, <3>1, <3>2 DEF LogInv
  <2>5. QED
    BY <2>3, <2>4
<1>7. CASE Log!InterruptDrops \/ Log!DropCountReset
  <2>1. /\ UNCHANGED <<ring, head, tail, logging, printing, expected>>
        /\ \/ dropped' = dropped + 1 /\ refused' = refused + 1
           \/ dropped' = 0 /\ refused' = 0
        /\ raced' = (raced \/ logging.at = "drop")
    BY <1>7 DEF Log!InterruptDrops, Log!DropCountReset
  <2>2. raced' \in BOOLEAN /\ (~raced' => ~raced /\ logging.at # "drop")
    BY <1>1, <2>1
  <2>3. QED
    BY <1>1, <2>1, <2>2 DEF LogInv
<1>8. CASE Log!FlushPrints
  <2>1. /\ UNCHANGED <<ring, head, tail, dropped, logging, expected, refused, raced>>
        /\ tail # head /\ printing' = ring[tail]
    BY <1>8 DEF Log!FlushPrints
  <2>2. ~raced => expected[1] = ring[tail]
    <3>1. ~raced => 1 \in 1 .. Len(expected) /\ (tail + 1 - 1) % w = tail
      <4>1. ~raced => Len(expected) = Waiting /\ Waiting \in Nat /\ Waiting > 0
        BY <1>1, <2>1, Window DEF LogInv, Waiting
      <4>2. tail % w = tail /\ tail + 1 - 1 = tail
        BY <1>1
      <4>3. QED
        BY <4>1, <4>2
    <3>2. QED
      BY <3>1 DEF LogInv
  <2>3. QED
    BY <1>1, <2>1, <2>2 DEF LogInv
<1>9. CASE Log!FlushAdvances
  <2>1. /\ UNCHANGED <<ring, head, dropped, logging, refused, raced>>
        /\ printing # NoMessage /\ tail' = (tail + 1) % w /\ printing' = NoMessage
        /\ expected' = IF expected = <<>> THEN <<>> ELSE Tail(expected)
    BY <1>9 DEF Log!FlushAdvances, Log!After
  <2>2. expected' \in Seq(S)
    BY <1>1, <2>1, EmptySeq, HeadTailProperties
  <2>3. CASE raced
    BY <1>1, <2>1, <2>2, <2>3 DEF LogInv
  <2>4. CASE ~raced
    <3>1. tail # head /\ Len(expected) = Waiting
      BY <2>1, <2>4 DEF LogInv, Waiting
    <3>2. /\ Waiting \in Nat /\ Waiting > 0 /\ (head - ((tail + 1) % w)) % w = Waiting - 1
          /\ (head + 1) % w # (tail + 1) % w
          /\ \A i \in 1 .. Waiting - 1 : (((tail + 1) % w) + i - 1) % w = (tail + i) % w
      BY <1>1, <3>1, Window
    <3>3. /\ expected # <<>> /\ Len(expected') = Waiting - 1
          /\ \A i \in 1 .. Waiting - 1 : expected'[i] = expected[i + 1]
      BY <1>1, <2>1, <3>1, <3>2, EmptySeq, HeadTailProperties
    <3>4. ASSUME NEW i \in 1 .. Waiting - 1
          PROVE  expected'[i] = ring'[(tail' + i - 1) % w]
      <4>1. i + 1 \in 1 .. Len(expected) /\ tail + (i + 1) - 1 = tail + i
        BY <1>1, <3>1, <3>2
      <4>2. expected[i + 1] = ring[(tail + (i + 1) - 1) % w]
        BY <2>4, <4>1 DEF LogInv
      <4>3. QED
        BY <2>1, <3>2, <3>3, <4>1, <4>2
    <3>5. Len(expected') = (head' - tail') % w
      BY <2>1, <3>2, <3>3
    <3>6. QED
      BY <1>1, <2>1, <2>2, <2>4, <3>2, <3>3, <3>4, <3>5 DEF LogInv
  <2>5. QED
    BY <2>3, <2>4
<1>10. CASE UNCHANGED logVars
  BY <1>10 DEF logVars, LogInv
<1>11. QED
  BY <1>2, <1>3, <1>4, <1>5, <1>6, <1>7, <1>8, <1>9, <1>10 DEF Log!Next
-----------------------------------------------------------------------------
(* The deadlines *)

\* A bracket is open in the table exactly as the history has it, and a count
\* is that of the overruns, or one behind it while an end is counting.
DeadlineInv ==
  /\ clock \in Nat
  /\ start_us \in [Ids -> Nat] /\ miss_count \in [Ids -> Int]
  /\ ending \in [Ids -> Int] /\ overruns \in [Ids -> Int]
  /\ began \in [Ids -> Int]
  /\ \A i \in Ids :
       /\ IF began[i] = Deadline!NotBegun THEN start_us[i] = 0
          ELSE start_us[i] = began[i] /\ began[i] > 0
       /\ i \notin slots => /\ start_us[i] = 0 /\ miss_count[i] = 0 /\ overruns[i] = 0
                            /\ ending[i] = Deadline!NotEnding
       /\ i \notin overtaken =>
            overruns[i] = IF ending[i] = Deadline!NotEnding THEN miss_count[i] ELSE ending[i] + 1
       /\ miss_count[i] >= 0 /\ ending[i] >= -1

\* Every call keeps it.
LEMMA DeadlineKept ==
  ASSUME DeadlineInv, [Deadline!Next]_deadlineVars
  PROVE  DeadlineInv'
<1> USE DEF DeadlineInv, Deadline!NotBegun, Deadline!NotEnding
<1>1. ASSUME NEW i \in Ids, Deadline!Register(i)
      PROVE  DeadlineInv'
  BY <1>1 DEF Deadline!Register
<1>2. ASSUME NEW i \in Ids, Deadline!Begin(i)
      PROVE  DeadlineInv'
  BY <1>2 DEF Deadline!Begin
<1>3. ASSUME NEW i \in Ids, Deadline!EndsInTime(i)
      PROVE  DeadlineInv'
  <2>1. overruns' = overruns
    BY <1>3 DEF Deadline!EndsInTime, Deadline!Overruns, Deadline!Open, Deadline!Over
  <2>2. QED
    BY <1>3, <2>1 DEF Deadline!EndsInTime
<1>4. ASSUME NEW i \in Ids, Deadline!Misses(i)
      PROVE  DeadlineInv'
  <2>1. start_us[i] > 0 /\ clock - start_us[i] > Budget
    BY <1>4 DEF Deadline!Misses, Deadline!Open, Deadline!Over
  <2>2. began[i] # -1 /\ start_us[i] = began[i]
    BY <2>1
  <2>3. overruns' = [overruns EXCEPT ![i] = @ + 1]
    BY <1>4, <2>1, <2>2 DEF Deadline!Misses, Deadline!Overruns
  <2>4. QED
    BY <1>4, <2>3 DEF Deadline!Misses
<1>5. ASSUME NEW i \in Ids, Deadline!CountMiss(i)
      PROVE  DeadlineInv'
  BY <1>5 DEF Deadline!CountMiss
<1>6. ASSUME NEW i \in Ids, Deadline!MissReset(i)
      PROVE  DeadlineInv'
  BY <1>6 DEF Deadline!MissReset
<1>7. CASE Deadline!Elapses
  BY <1>7 DEF Deadline!Elapses
<1>8. CASE UNCHANGED deadlineVars
  BY <1>8 DEF deadlineVars
<1>9. QED
  BY <1>1, <1>2, <1>3, <1>4, <1>5, <1>6, <1>7, <1>8 DEF Deadline!Next

-----------------------------------------------------------------------------
(* The queue *)

\* As long as the cache is not outdated: a level read is still the queue's, a
\* reset in progress has cleared the cache, and with no call between its change
\* and its store the cache is exact.
QueueInv ==
  /\ calls \in [Tasks -> {"idle", "send", "recv", "count", "store", "purge"}]
  /\ levels \in [Tasks -> Int] /\ msgs \in Int
  /\ outdated \in BOOLEAN
  /\ ~outdated =>
       /\ \A t \in Tasks : calls[t] = "store" => levels[t] = msgs
       /\ (\E t \in Tasks : calls[t] = "purge") => count = 0
       /\ (\A t \in Tasks : Queue!Settled(t)) => count = msgs

\* Every call and every interrupt keeps it.
LEMMA QueueKept ==
  ASSUME QueueInv, [Queue!Next]_queueVars
  PROVE  QueueInv'
<1> USE DEF QueueInv, Queue!Settled
<1>1. ASSUME NEW who \in SUBSET Tasks, Queue!Puts(who) \/ Queue!Takes(who), Queue!Changes(who),
             UNCHANGED levels
      PROVE  /\ calls' \in [Tasks -> {"idle", "send", "recv", "count", "store", "purge"}]
             /\ outdated' \in BOOLEAN /\ msgs' \in Int
             /\ \A t \in who : calls'[t] = "count"
             /\ \A t \in Tasks : calls'[t] = "count" \/ (t \notin who /\ calls'[t] = calls[t])
             /\ ~outdated' => \A t \in Tasks : calls'[t] \notin {"store", "purge"}
             /\ ~outdated' /\ outdated => \A t \in Tasks \ who : Queue!Settled(t)
  <2>1. /\ calls' \in [Tasks -> {"idle", "send", "recv", "count", "store", "purge"}]
        /\ \A t \in who : calls'[t] = "count"
        /\ \A t \in Tasks : calls'[t] = "count" \/ (t \notin who /\ calls'[t] = calls[t])
        /\ msgs' \in Int
    BY <1>1 DEF Queue!Puts, Queue!Takes, Queue!In
  <2>2. outdated' = (Queue!Within(who) \/ (outdated /\ ~Queue!AloneBut(who)))
    BY <1>1 DEF Queue!Changes
  <2>3. outdated' \in BOOLEAN
    BY <2>2 DEF Queue!Within, Queue!AloneBut
  <2>4. ~outdated' => \A t \in Tasks \ who : calls[t] \notin {"store", "purge"}
    BY <2>2 DEF Queue!Within
  <2>5. ~outdated' /\ outdated => \A t \in Tasks \ who : Queue!Settled(t)
    BY <2>2 DEF Queue!AloneBut
  <2>6. QED
    BY <2>1, <2>3, <2>4, <2>5
<1>2. ASSUME NEW t \in Tasks, Queue!Send(t) \/ Queue!Recv(t)
      PROVE  QueueInv'
  <2>1. /\ Queue!Puts({t}) \/ Queue!Takes({t})
        /\ Queue!Changes({t}) /\ UNCHANGED <<count, levels>>
    BY <1>2 DEF Queue!Send, Queue!Recv
  <2>2. {t} \in SUBSET Tasks
    OBVIOUS
  <2>3. QED
    BY <1>1, <2>1, <2>2
<1>3. CASE Queue!InterruptCalls
  <2>1. /\ Queue!Puts({}) \/ Queue!Takes({})
        /\ Queue!Changes({}) /\ UNCHANGED levels /\ count' = msgs'
    BY <1>3 DEF Queue!InterruptCalls
  <2>2. {} \in SUBSET Tasks
    OBVIOUS
  <2>3. QED
    BY <1>1, <2>1, <2>2
<1>4. ASSUME NEW t \in Tasks, Queue!Waits(t) \/ Queue!TimesOut(t)
      PROVE  QueueInv'
  <2>1. /\ UNCHANGED <<msgs, count, levels, outdated>>
        /\ calls[t] \in {"idle", "send", "recv"}
        /\ \E what \in {"idle", "send", "recv"} : calls' = [calls EXCEPT ![t] = what]
    BY <1>4 DEF Queue!Waits, Queue!TimesOut, Queue!Returns
  <2>2. QED
    BY <2>1
<1>5. ASSUME NEW t \in Tasks, Queue!ReadLevel(t)
      PROVE  QueueInv'
  BY <1>5 DEF Queue!ReadLevel
<1>6. ASSUME NEW t \in Tasks, Queue!StoreLevel(t)
      PROVE  QueueInv'
  <2>1. /\ calls[t] = "store" /\ count' = levels[t] /\ UNCHANGED <<msgs, levels>>
        /\ calls' = [calls EXCEPT ![t] = "idle"]
        /\ outdated' = (outdated \/ Queue!In("purge") # {})
    BY <1>6 DEF Queue!StoreLevel, Queue!Returns
  <2>2. outdated' \in BOOLEAN /\ (~outdated' => ~outdated /\ \A u \in Tasks : calls[u] # "purge")
    BY <2>1 DEF Queue!In
  <2>3. QED
    BY <2>1, <2>2
<1>7. ASSUME NEW t \in Tasks, Queue!Reset(t)
      PROVE  QueueInv'
  <2>1. /\ calls[t] = "idle" /\ count' = 0 /\ calls' = [calls EXCEPT ![t] = "purge"]
        /\ UNCHANGED <<msgs, levels>>
        /\ outdated' = (outdated /\ ~Queue!AloneBut({t}))
    BY <1>7 DEF Queue!Reset
  <2>2. outdated' \in BOOLEAN /\ (~outdated' => ~outdated \/ \A u \in Tasks \ {t} : Queue!Settled(u))
    BY <2>1 DEF Queue!AloneBut
  <2>3. QED
    BY <2>1, <2>2
<1>8. ASSUME NEW t \in Tasks, Queue!Purge(t)
      PROVE  QueueInv'
  <2>1. /\ calls[t] = "purge" /\ msgs' = 0 /\ UNCHANGED <<count, levels>>
        /\ \A u \in Tasks : calls'[u] = calls[u] \/ (calls[u] \in {"send", "recv", "purge"} /\ calls'[u] = "idle")
        /\ calls'[t] = "idle"
        /\ calls' \in [Tasks -> {"idle", "send", "recv", "count", "store", "purge"}]
    BY <1>8 DEF Queue!Purge, Queue!Returns, Queue!In
  <2>2. outdated' = (outdated \/ Queue!Within({t}))
    BY <1>8 DEF Queue!Purge
  <2>3. outdated' \in BOOLEAN
        /\ (~outdated' => ~outdated /\ \A u \in Tasks \ {t} : calls[u] \notin {"store", "purge"})
    BY <2>2 DEF Queue!Within
  <2>4. QED
    BY <2>1, <2>3
<1>9. CASE UNCHANGED queueVars
  BY <1>9 DEF queueVars
<1>10. QED
  BY <1>2, <1>3, <1>4, <1>5, <1>6, <1>7, <1>8, <1>9 DEF Queue!Next
-----------------------------------------------------------------------------
(* The thread slots *)

\* The creator is past its search, and what it knows of its slot.
Makes(c) == making[c].at # "idle"
MakerKnows(c) ==
  LET s == making[c].slot IN
  /\ holders[s] = {} /\ freeing # s
  /\ making[c].at = "claim" => ~in_use[s]
  /\ making[c].at # "claim" => in_use[s]
  /\ making[c].at = "start" => entry[s] = c

\* A slot whose handle is held runs the thread of its one holder.
SlotKept(s) ==
  /\ holders[s] = {} => meant[s] = Null
  /\ holders[s] # {} => /\ in_use[s] /\ freeing # s
                        /\ holders[s] = {entry[s]} /\ meant[s] = entry[s]
  /\ runs[s] # Thread!NotYet => runs[s] = meant[s]

ThreadTypes ==
  /\ in_use \in [Thread!Slots -> BOOLEAN]
  /\ entry \in [Thread!Slots -> Creators \cup {Null}]
  /\ meant \in [Thread!Slots -> Creators \cup {Null}]
  /\ runs \in [Thread!Slots -> Creators \cup {Null, Thread!NotYet}]
  /\ holders \in [Thread!Slots -> SUBSET Creators]
  /\ making \in [Creators -> [at : {"idle", "claim", "store", "start"}, slot : Thread!Slots \cup {Thread!NoSlot}]]
  /\ freeing \in Thread!Slots \cup {Thread!NoSlot}
  /\ overlapped \in BOOLEAN
  /\ \A c \in Creators : Makes(c) => making[c].slot \in Thread!Slots

\* As long as no creation overlapped another one's search or a clearing: one
\* creator at most searches, no two make a slot, and a slot that is made has no
\* holder.
ThreadInv ==
  /\ ThreadTypes
  /\ ~overlapped =>
       /\ \A c \in Creators : Makes(c) => MakerKnows(c)
       /\ \A c, d \in Creators : Makes(c) /\ Makes(d) /\ making[c].slot = making[d].slot => c = d
       /\ \A s \in Thread!Slots : SlotKept(s)

\* Every step of a creation, a thread or a destruction keeps it.
LEMMA ThreadKept ==
  ASSUME ThreadInv, [Thread!Next]_threadVars
  PROVE  ThreadInv'
<1> USE DEF Makes, Thread!NotMaking, Thread!NoSlot
<1>0. ThreadTypes
  BY DEF ThreadInv
<1>1. ASSUME NEW c \in Creators, Thread!Scan(c)
      PROVE  ThreadInv'
  <2>1. PICK s \in Thread!Slots :
           /\ making[c].at = "idle" /\ ~in_use[s]
           /\ making' = [making EXCEPT ![c] = [at |-> "claim", slot |-> s]]
           /\ overlapped' = (overlapped \/ Thread!Claiming # {} \/ freeing # 0)
           /\ UNCHANGED <<in_use, entry, freeing, meant, runs, holders>>
    BY <1>1 DEF Thread!Scan
  <2>2. ThreadTypes'
    BY <1>0, <2>1 DEF ThreadTypes
  <2>3. CASE overlapped'
    BY <2>2, <2>3 DEF ThreadInv
  <2>4. CASE ~overlapped'
    <3>1. ~overlapped /\ freeing = 0 /\ \A d \in Creators : making[d].at # "claim"
      BY <2>1, <2>4 DEF Thread!Claiming
    <3>2. s # 0 /\ holders[s] = {}
      BY <2>1, <3>1 DEF ThreadInv, SlotKept, Thread!Slots
    <3>3. /\ making'[c] = [at |-> "claim", slot |-> s]
          /\ \A d \in Creators : d # c => making'[d] = making[d]
      BY <1>0, <2>1 DEF ThreadTypes
    <3>4. \A d \in Creators : d # c /\ Makes(d) => making[d].slot # s
      BY <2>1, <3>1 DEF ThreadInv, MakerKnows
    <3>5. \A d \in Creators : Makes(d)' => MakerKnows(d)'
      <4>1. MakerKnows(c)'
        BY <2>1, <3>1, <3>2, <3>3 DEF MakerKnows
      <4>2. ASSUME NEW d \in Creators, d # c, Makes(d)'
            PROVE  MakerKnows(d)'
        BY <2>1, <3>1, <3>3, <4>2 DEF MakerKnows, ThreadInv
      <4>3. QED
        BY <4>1, <4>2
    <3>6. \A d, e \in Creators : Makes(d)' /\ Makes(e)' /\ making'[d].slot = making'[e].slot => d = e
      BY <3>1, <3>3, <3>4 DEF ThreadInv
    <3>7. \A r \in Thread!Slots : SlotKept(r)'
      BY <2>1, <3>1 DEF SlotKept, ThreadInv
    <3>8. QED
      BY <2>2, <3>5, <3>6, <3>7 DEF ThreadInv
  <2>5. QED
    BY <2>3, <2>4
<1>2. ASSUME NEW c \in Creators, Thread!Claim(c) \/ Thread!StoreEntry(c) \/ Thread!Start(c)
      PROVE  ThreadInv'
  <2>0. PICK s \in Thread!Slots : s = making[c].slot
    BY <1>0, <1>2 DEF ThreadTypes, Thread!Claim, Thread!StoreEntry, Thread!Start
  <2>1. Makes(c) /\ overlapped' = overlapped /\ freeing' = freeing
    BY <1>0, <1>2, <2>0 DEF ThreadTypes, Thread!Claim, Thread!StoreEntry, Thread!Start
  <2>2. /\ \A d \in Creators : d # c => making'[d] = making[d]
        /\ Makes(c)' => making'[c].slot = s
        /\ \A r \in Thread!Slots : r # s => /\ in_use'[r] = in_use[r] /\ entry'[r] = entry[r]
                                            /\ meant'[r] = meant[r] /\ runs'[r] = runs[r]
                                            /\ holders'[r] = holders[r]
    BY <1>0, <1>2, <2>0 DEF ThreadTypes, Thread!Claim, Thread!StoreEntry, Thread!Start
  <2>3. ThreadTypes'
    <3>1. CASE Thread!Claim(c)
      BY <1>0, <2>0, <2>1, <3>1 DEF ThreadTypes, Thread!Claim
    <3>2. CASE Thread!StoreEntry(c)
      BY <1>0, <2>0, <2>1, <3>2 DEF ThreadTypes, Thread!StoreEntry
    <3>3. CASE Thread!Start(c)
      BY <1>0, <2>0, <2>1, <3>3 DEF ThreadTypes, Thread!Start
    <3>4. QED
      BY <1>2, <3>1, <3>2, <3>3
  <2>4. ASSUME ~overlapped
        PROVE  /\ \A d \in Creators : Makes(d)' => MakerKnows(d)'
               /\ \A d, e \in Creators : Makes(d)' /\ Makes(e)' /\ making'[d].slot = making'[e].slot => d = e
               /\ \A r \in Thread!Slots : SlotKept(r)'
    <3>1. /\ MakerKnows(c)
          /\ \A d \in Creators : Makes(d) => MakerKnows(d)
          /\ \A d \in Creators : d # c /\ Makes(d) => making[d].slot # s
          /\ \A d, e \in Creators : Makes(d) /\ Makes(e) /\ making[d].slot = making[e].slot => d = e
          /\ \A r \in Thread!Slots : SlotKept(r)
      BY <2>0, <2>1, <2>4 DEF ThreadInv
    <3>2. ASSUME NEW d \in Creators, d # c, Makes(d)'
          PROVE  MakerKnows(d)'
      <4>1. Makes(d) /\ making'[d] = making[d] /\ making[d].slot # s /\ making[d].slot \in Thread!Slots
        BY <1>0, <2>2, <3>1, <3>2 DEF ThreadTypes
      <4>2. QED
        BY <2>0, <2>1, <2>2, <3>1, <4>1 DEF MakerKnows
    <3>3. Makes(c)' => MakerKnows(c)'
      <4>1. CASE Thread!Claim(c)
        BY <1>0, <2>0, <2>1, <3>1, <4>1 DEF ThreadTypes, Thread!Claim, MakerKnows
      <4>2. CASE Thread!StoreEntry(c)
        BY <1>0, <2>0, <2>1, <3>1, <4>2 DEF ThreadTypes, Thread!StoreEntry, MakerKnows
      <4>3. CASE Thread!Start(c)
        BY <1>0, <4>3 DEF ThreadTypes, Thread!Start
      <4>4. QED
        BY <1>2, <4>1, <4>2, <4>3
    <3>4. \A d, e \in Creators : Makes(d)' /\ Makes(e)' /\ making'[d].slot = making'[e].slot => d = e
      BY <2>0, <2>1, <2>2, <3>1
    <3>5. ASSUME NEW r \in Thread!Slots, r # s
          PROVE  SlotKept(r)'
      BY <2>0, <2>1, <2>2, <3>1, <3>5 DEF SlotKept
    <3>6. SlotKept(s)'
      <4>1. SlotKept(s) /\ holders[s] = {}
        BY <2>0, <2>1, <3>1 DEF MakerKnows
      <4>2. CASE Thread!Claim(c) \/ Thread!StoreEntry(c)
        BY <4>1, <4>2 DEF SlotKept, Thread!Claim, Thread!StoreEntry
      <4>3. CASE Thread!Start(c)
        <5>1. /\ meant'[s] = c /\ runs'[s] = Thread!NotYet /\ holders'[s] = {c}
              /\ entry' = entry /\ in_use' = in_use /\ making[c].at = "start"
          BY <1>0, <2>0, <2>1, <4>1, <4>3 DEF ThreadTypes, Thread!Start
        <5>2. in_use[s] /\ entry[s] = c /\ freeing # s
          BY <2>0, <3>1, <5>1 DEF MakerKnows
        <5>3. QED
          BY <2>0, <2>1, <5>1, <5>2 DEF SlotKept
      <4>4. QED
        BY <1>2, <4>2, <4>3
    <3>7. QED
      BY <3>2, <3>3, <3>4, <3>5, <3>6
  <2>5. QED
    BY <2>0, <2>1, <2>3, <2>4 DEF ThreadInv
<1>3. ASSUME NEW s \in Thread!Slots, Thread!ThreadEntry(s)
      PROVE  ThreadInv'
  <2>1. /\ meant[s] # Null /\ runs' = [runs EXCEPT ![s] = entry[s]]
        /\ UNCHANGED <<in_use, entry, making, freeing, meant, holders, overlapped>>
    BY <1>3 DEF Thread!ThreadEntry
  <2>2. ThreadTypes'
    BY <1>0, <2>1 DEF ThreadTypes
  <2>3. ~overlapped => \A r \in Thread!Slots : SlotKept(r)'
    <3>1. \A r \in Thread!Slots : runs'[r] = IF r = s THEN entry[s] ELSE runs[r]
      BY <1>0, <2>1 DEF ThreadTypes
    <3>2. QED
      BY <2>1, <3>1 DEF ThreadInv, SlotKept
  <2>4. QED
    BY <2>1, <2>2, <2>3 DEF ThreadInv, MakerKnows
<1>4. ASSUME NEW s \in Thread!Slots, Thread!Destroy(s)
      PROVE  ThreadInv'
  <2>1. PICK c \in holders[s] : holders' = [holders EXCEPT ![s] = @ \ {c}]
    BY <1>4 DEF Thread!Destroy
  <2>2. /\ freeing = 0 /\ freeing' = s /\ UNCHANGED <<entry, making, overlapped>>
        /\ meant' = [meant EXCEPT ![s] = Null] /\ runs' = [runs EXCEPT ![s] = Thread!NotYet]
        /\ in_use' = [in_use EXCEPT ![s] = FALSE]
    BY <1>4 DEF Thread!Destroy
  <2>3. ThreadTypes'
    BY <1>0, <2>1, <2>2 DEF ThreadTypes
  <2>4. ASSUME ~overlapped
        PROVE  /\ \A d \in Creators : Makes(d) => MakerKnows(d)'
               /\ \A r \in Thread!Slots : SlotKept(r)'
    <3>1. /\ \A d \in Creators : Makes(d) => MakerKnows(d)
          /\ \A r \in Thread!Slots : SlotKept(r)
      BY <2>4 DEF ThreadInv
    <3>2. \A r \in Thread!Slots : r # s => /\ in_use'[r] = in_use[r] /\ entry'[r] = entry[r]
                                           /\ meant'[r] = meant[r] /\ runs'[r] = runs[r]
                                           /\ holders'[r] = holders[r]
      BY <1>0, <2>1, <2>2 DEF ThreadTypes
    <3>3. holders'[s] = {} /\ meant'[s] = Null /\ runs'[s] = Thread!NotYet
      BY <1>0, <2>1, <2>2, <3>1 DEF ThreadTypes, SlotKept
    <3>4. ASSUME NEW d \in Creators, Makes(d)
          PROVE  MakerKnows(d)'
      <4>1. making[d].slot \in Thread!Slots /\ making[d].slot # s /\ making' = making
        BY <1>0, <2>1, <2>2, <3>1, <3>4 DEF ThreadTypes, MakerKnows
      <4>2. QED
        BY <2>2, <3>1, <3>2, <3>4, <4>1 DEF MakerKnows
    <3>5. ASSUME NEW r \in Thread!Slots, r # s
          PROVE  SlotKept(r)'
      BY <2>2, <3>1, <3>2, <3>5 DEF SlotKept
    <3>6. SlotKept(s)'
      BY <3>3 DEF SlotKept
    <3>7. QED
      BY <3>4, <3>5, <3>6
  <2>5. QED
    BY <2>2, <2>3, <2>4 DEF ThreadInv
<1>5. CASE Thread!FreeRest
  <2>1. /\ freeing # 0 /\ freeing' = 0 /\ entry' = [entry EXCEPT ![freeing] = Null]
        /\ UNCHANGED <<in_use, making, meant, runs, holders, overlapped>>
    BY <1>5 DEF Thread!FreeRest
  <2>2. ThreadTypes'
    BY <1>0, <2>1 DEF ThreadTypes
  <2>3. \A r \in Thread!Slots : r # 0 /\ (r # freeing => entry'[r] = entry[r])
    BY <1>0, <2>1 DEF ThreadTypes, Thread!Slots
  <2>4. ~overlapped => \A d \in Creators : Makes(d) => MakerKnows(d)'
    <3>1. ASSUME ~overlapped, NEW d \in Creators, Makes(d)
          PROVE  MakerKnows(d)'
      <4>1. MakerKnows(d) /\ making[d].slot \in Thread!Slots
        BY <1>0, <3>1 DEF ThreadInv, ThreadTypes
      <4>2. QED
        BY <2>1, <2>3, <4>1 DEF MakerKnows
    <3>2. QED
      BY <3>1
  <2>5. ~overlapped => \A r \in Thread!Slots : SlotKept(r)'
    BY <2>1, <2>3 DEF ThreadInv, SlotKept
  <2>6. QED
    BY <2>1, <2>2, <2>4, <2>5 DEF ThreadInv
<1>6. CASE UNCHANGED threadVars
  BY <1>6 DEF threadVars, ThreadInv, ThreadTypes, MakerKnows, SlotKept
<1>7. QED
  BY <1>1, <1>2, <1>3, <1>4, <1>5, <1>6 DEF Thread!Next

\* The invariant says of the slots what the run checks.
LEMMA ThreadInvSuffices ==
  ASSUME ThreadInv
  PROVE  Thread!SlotsOwned
BY DEF ThreadInv, SlotKept, Thread!SlotsOwned
-----------------------------------------------------------------------------
(* The pins *)

\* The elements of a sequence.
LEMMA ElementsOf ==
  ASSUME NEW S, NEW q \in Seq(S)
  PROVE  /\ DOMAIN q = 1 .. Len(q)
         /\ \A x : x \in Gpio!Range(q) <=> \E i \in 1 .. Len(q) : q[i] = x
<1>1. DOMAIN q = 1 .. Len(q)
  BY LenProperties
<1>2. QED
  BY <1>1 DEF Gpio!Range

\* A sequence without one of its elements.
LEMMA Cut ==
  ASSUME NEW S, NEW q \in Seq(S), NEW p \in 1 .. Len(q),
         \A i, j \in 1 .. Len(q) : q[i] = q[j] => i = j
  PROVE  LET r == Gpio!RemoveAt(q, p) IN
         /\ r \in Seq(S)
         /\ \A i, j \in 1 .. Len(r) : r[i] = r[j] => i = j
         /\ \A x : x \in Gpio!Range(r) <=> x \in Gpio!Range(q) /\ x # q[p]
<1> DEFINE a == SubSeq(q, 1, p - 1)
           b == SubSeq(q, p + 1, Len(q))
           r == a \o b
           n == Len(q)
<1>1. n \in Nat /\ p \in 1 .. n
  OBVIOUS
<1>2. a \in Seq(S) /\ Len(a) = p - 1 /\ \A i \in 1 .. p - 1 : a[i] = q[i]
  BY <1>1
<1>3. b \in Seq(S) /\ Len(b) = n - p /\ \A i \in 1 .. n - p : b[i] = q[p + i]
  BY <1>1
<1> HIDE DEF a, b, n
<1>4. /\ r \in Seq(S) /\ Len(r) = n - 1
      /\ \A i \in 1 .. n - 1 : r[i] = IF i <= p - 1 THEN a[i] ELSE b[i - (p - 1)]
  <2>1. /\ r \in Seq(S) /\ Len(r) = Len(a) + Len(b)
        /\ \A i \in 1 .. Len(a) + Len(b) : r[i] = IF i <= Len(a) THEN a[i] ELSE b[i - Len(a)]
    <3>1. a \in Seq(S) /\ b \in Seq(S)
      BY <1>2, <1>3
    <3>2. QED
      BY ONLY <3>1, ConcatProperties
  <2>2. Len(a) + Len(b) = n - 1
    BY <1>1, <1>2, <1>3
  <2>3. QED
    BY <1>2, <2>1, <2>2
<1> HIDE DEF r
<1>5. \A i \in 1 .. n - 1 : r[i] = IF i < p THEN q[i] ELSE q[i + 1]
  BY <1>1, <1>2, <1>3, <1>4
<1>6. \A i, j \in 1 .. n - 1 : r[i] = r[j] => i = j
  BY <1>1, <1>5 DEF n
<1>7. ASSUME NEW x
      PROVE  (\E i \in 1 .. n - 1 : r[i] = x) <=> (\E i \in 1 .. n : q[i] = x) /\ x # q[p]
  <2>1. ASSUME NEW i \in 1 .. n - 1, r[i] = x
        PROVE  (\E j \in 1 .. n : q[j] = x) /\ x # q[p]
    BY <1>1, <1>5, <2>1 DEF n
  <2>2. ASSUME NEW i \in 1 .. n, q[i] = x, x # q[p]
        PROVE  \E j \in 1 .. n - 1 : r[j] = x
    <3>1. CASE i < p
      BY <1>1, <1>5, <2>2, <3>1
    <3>2. CASE i > p
      <4>1. i - 1 \in 1 .. n - 1 /\ ~ (i - 1 < p) /\ (i - 1) + 1 = i
        BY <1>1, <3>2
      <4>2. r[i - 1] = x
        BY <1>5, <2>2, <4>1
      <4>3. QED
        BY <4>1, <4>2
    <3>3. QED
      BY <1>1, <2>2, <3>1, <3>2
  <2>3. QED
    BY <2>1, <2>2
<1>8. r = Gpio!RemoveAt(q, p)
  BY DEF r, a, b, Gpio!RemoveAt
<1>9. \A x : /\ x \in Gpio!Range(r) <=> \E i \in 1 .. n - 1 : r[i] = x
             /\ x \in Gpio!Range(q) <=> \E i \in 1 .. n : q[i] = x
  BY <1>4, ElementsOf DEF n
<1>10. \A x : x \in Gpio!Range(r) <=> x \in Gpio!Range(q) /\ x # q[p]
  BY <1>7, <1>9
<1>11. Len(r) = n - 1
  BY <1>4
<1>12. QED
  BY <1>4, <1>6, <1>8, <1>10, <1>11

\* The port's chain has every slot once. A callback in the chain has its own
\* argument; while one is being set or cleared its slot is not in the chain,
\* unless it was set over another.
GpioInv ==
  /\ chain \in Seq(Gpio!Pins) /\ attached \subseteq Gpio!Pins
  /\ \A i, j \in 1 .. Len(chain) : chain[i] = chain[j] => i = j
  /\ isr_cb \in [Gpio!Pins -> Callbacks \cup {Null}]
  /\ isr_user \in [Gpio!Pins -> Callbacks \cup {Null}]
  /\ doing \in [at : {"idle", "set user", "attach", "clear cb", "clear user"},
                slot : Gpio!Pins \cup {0}, cb : Callbacks \cup {Null}]
  /\ doing.at # "idle" => doing.slot \in Gpio!Pins
  /\ dangling \in BOOLEAN /\ replaced \in BOOLEAN
  /\ ~dangling => Gpio!Range(chain) = attached
  /\ ~replaced =>
       /\ last[1] = last[2]
       /\ \A s \in Gpio!Range(chain) : isr_cb[s] = isr_user[s]
       /\ doing.at # "idle" => doing.slot \notin Gpio!Range(chain)
       /\ doing.at \in {"set user", "attach"} => isr_cb[doing.slot] = doing.cb
       /\ doing.at = "attach" => isr_user[doing.slot] = doing.cb

\* What unlinking a slot leaves of the chain.
LEMMA Unlinking ==
  ASSUME GpioInv, NEW s \in Gpio!Pins
  PROVE  LET u == Gpio!Unlinked(s) IN
         /\ u \in Seq(Gpio!Pins)
         /\ \A i, j \in 1 .. Len(u) : u[i] = u[j] => i = j
         /\ Gpio!Range(u) = Gpio!Range(chain) \ {s}
<1>1. CASE s \in Gpio!Range(chain)
  <2>1. \E i \in DOMAIN chain : chain[i] = s
    BY <1>1 DEF Gpio!Range
  <2>2. Gpio!Place(s) \in DOMAIN chain /\ chain[Gpio!Place(s)] = s
    BY <2>1 DEF Gpio!Place
  <2>3. Gpio!Place(s) \in 1 .. Len(chain)
    BY <2>2, ElementsOf DEF GpioInv
  <2>4. Gpio!Unlinked(s) = Gpio!RemoveAt(chain, Gpio!Place(s))
    BY <1>1 DEF Gpio!Unlinked, Gpio!InChain
  <2> DEFINE u == Gpio!RemoveAt(chain, Gpio!Place(s))
  <2>5. /\ u \in Seq(Gpio!Pins)
        /\ \A i, j \in 1 .. Len(u) : u[i] = u[j] => i = j
        /\ \A x : x \in Gpio!Range(u) <=> x \in Gpio!Range(chain) /\ x # s
    <3>1. /\ chain \in Seq(Gpio!Pins)
          /\ \A i, j \in 1 .. Len(chain) : chain[i] = chain[j] => i = j
      BY DEF GpioInv
    <3>2. QED
      BY ONLY <2>2, <2>3, <3>1, Cut
  <2> HIDE DEF u
  <2>6. Gpio!Range(u) = Gpio!Range(chain) \ {s}
    BY <2>5
  <2>7. QED
    BY <2>4, <2>5, <2>6 DEF u
<1>2. CASE s \notin Gpio!Range(chain)
  BY <1>2 DEF Gpio!Unlinked, Gpio!InChain, GpioInv
<1>3. QED
  BY <1>1, <1>2

\* Putting a slot that is not there in front of a chain.
LEMMA Linking ==
  ASSUME NEW S, NEW u \in Seq(S), NEW s \in S,
         \A i, j \in 1 .. Len(u) : u[i] = u[j] => i = j,
         s \notin Gpio!Range(u)
  PROVE  LET r == <<s>> \o u IN
         /\ r \in Seq(S)
         /\ \A i, j \in 1 .. Len(r) : r[i] = r[j] => i = j
         /\ Gpio!Range(r) = Gpio!Range(u) \cup {s}
<1> DEFINE r == <<s>> \o u
           n == Len(u)
<1>1. n \in Nat
  OBVIOUS
<1>2. /\ r \in Seq(S) /\ Len(r) = n + 1
      /\ r[1] = s /\ \A i \in 2 .. n + 1 : r[i] = u[i - 1]
  OBVIOUS
<1> HIDE DEF r, n
<1>3. \A x : /\ x \in Gpio!Range(u) <=> \E i \in 1 .. n : u[i] = x
             /\ x \in Gpio!Range(r) <=> \E i \in 1 .. n + 1 : r[i] = x
  BY <1>2, ElementsOf DEF n
<1>4. \A i \in 1 .. n : u[i] # s
  BY <1>3
<1>5. \A i \in 1 .. n + 1 : i = 1 \/ (i \in 2 .. n + 1 /\ i - 1 \in 1 .. n)
  BY <1>1
<1>6. \A i, j \in 1 .. n + 1 : r[i] = r[j] => i = j
  <2>1. \A i, j \in 1 .. n : u[i] = u[j] => i = j
    BY DEF n
  <2>2. QED
    BY <1>1, <1>2, <1>4, <1>5, <2>1
<1>7. \A x : (\E i \in 1 .. n + 1 : r[i] = x) <=> x = s \/ \E i \in 1 .. n : u[i] = x
  <2>1. ASSUME NEW i \in 1 .. n
        PROVE  \E j \in 1 .. n + 1 : r[j] = u[i]
    <3>1. i + 1 \in 2 .. n + 1 /\ i + 1 \in 1 .. n + 1 /\ (i + 1) - 1 = i
      BY <1>1
    <3>2. QED
      BY <1>2, <3>1
  <2>2. 1 \in 1 .. n + 1
    BY <1>1
  <2>3. QED
    BY <1>2, <1>5, <2>1, <2>2
<1>8. \A x : x \in Gpio!Range(r) <=> x \in Gpio!Range(u) \cup {s}
  BY <1>3, <1>7
<1>9. Gpio!Range(r) = Gpio!Range(u) \cup {s}
  BY <1>8
<1>10. /\ r \in Seq(S) /\ Gpio!Range(r) = Gpio!Range(u) \cup {s}
       /\ \A i, j \in 1 .. Len(r) : r[i] = r[j] => i = j
  BY <1>2, <1>6, <1>9
<1>11. QED
  BY <1>10 DEF r

\* Every call and every interrupt keeps it.
LEMMA GpioKept ==
  ASSUME GpioInv, [Gpio!Next]_gpioVars
  PROVE  GpioInv'
<1> DEFINE V == Callbacks \cup {Null}
<1>0. /\ \A s \in Gpio!Range(chain) : s \in Gpio!Pins
      /\ 0 \notin Gpio!Pins
  <2>1. chain \in Seq(Gpio!Pins)
    BY DEF GpioInv
  <2>2. \A i \in 1 .. Len(chain) : chain[i] \in Gpio!Pins
    BY <2>1, ElementOfSeq
  <2>3. 0 \notin Gpio!Pins
    BY DEF Gpio!Pins
  <2>4. QED
    BY <2>1, <2>2, <2>3, ElementsOf
<1>1. CASE Gpio!Get
  <2>1. PICK s \in Gpio!Pins : /\ doing.at = "idle"
                               /\ isr_cb' = [isr_cb EXCEPT ![s] = Null]
                               /\ isr_user' = [isr_user EXCEPT ![s] = Null]
                               /\ UNCHANGED <<chain, doing, attached, last, replaced, dangling>>
    BY <1>1 DEF Gpio!Get
  <2>2. QED
    BY <1>0, <2>1 DEF GpioInv
<1>2. ASSUME NEW s \in Gpio!Pins, Gpio!PutBack(s)
      PROVE  GpioInv'
  <2>1. /\ doing.at = "idle"
        /\ isr_cb' = [isr_cb EXCEPT ![s] = Null]
        /\ isr_user' = [isr_user EXCEPT ![s] = Null]
        /\ chain' = IF s \in Gpio!Range(chain) THEN SubSeq(chain, 1, Gpio!Place(s)) ELSE chain
        /\ attached' = attached \ {s}
        /\ dangling' = (dangling \/ s \in Gpio!Range(chain))
        /\ UNCHANGED <<doing, last, replaced>>
    BY <1>2 DEF Gpio!PutBack, Gpio!InChain
  <2>2. /\ chain' \in Seq(Gpio!Pins)
        /\ \A i, j \in 1 .. Len(chain') : chain'[i] = chain'[j] => i = j
        /\ \A x \in Gpio!Range(chain') : x \in Gpio!Range(chain)
    <3>1. CASE s \in Gpio!Range(chain)
      <4>1. chain \in Seq(Gpio!Pins) /\ DOMAIN chain = 1 .. Len(chain) /\ Len(chain) \in Nat
        BY ElementsOf, LenProperties DEF GpioInv
      <4>2. \E i \in DOMAIN chain : chain[i] = s
        BY <3>1 DEF Gpio!Range
      <4>3. Gpio!Place(s) \in DOMAIN chain
        BY <4>2 DEF Gpio!Place
      <4>4. PICK p \in 1 .. Len(chain) : p = Gpio!Place(s)
        BY <4>1, <4>3
      <4>5. chain' = SubSeq(chain, 1, p)
        BY <2>1, <3>1, <4>4
      <4>6. \A i \in 1 .. p : i \in 1 .. Len(chain) /\ chain[i] \in Gpio!Pins
        BY <4>1, ElementOfSeq
      <4>7. /\ chain' \in Seq(Gpio!Pins) /\ Len(chain') = p
            /\ \A i \in 1 .. p : chain'[i] = chain[i]
        BY <4>5, <4>6
      <4>8. \A i, j \in 1 .. p : chain'[i] = chain'[j] => i = j
        <5>1. \A i, j \in 1 .. Len(chain) : chain[i] = chain[j] => i = j
          BY DEF GpioInv
        <5>2. QED
          BY ONLY <4>6, <4>7, <5>1
      <4>9. \A x : /\ x \in Gpio!Range(chain) <=> \E i \in 1 .. Len(chain) : chain[i] = x
                   /\ x \in Gpio!Range(chain') <=> \E i \in 1 .. p : chain'[i] = x
        BY <4>1, <4>7, ElementsOf
      <4>10. \A x \in Gpio!Range(chain') : x \in Gpio!Range(chain)
        BY <4>6, <4>7, <4>9
      <4>11. QED
        BY <4>7, <4>8, <4>10
    <3>2. CASE s \notin Gpio!Range(chain)
      BY <2>1, <3>2 DEF GpioInv
    <3>3. QED
      BY <3>1, <3>2
  <2>3. ~dangling' => ~dangling /\ s \notin Gpio!Range(chain) /\ chain' = chain
    BY <2>1
  <2>4. dangling' \in BOOLEAN /\ attached' \subseteq Gpio!Pins
        /\ isr_cb' \in [Gpio!Pins -> V] /\ isr_user' \in [Gpio!Pins -> V]
    BY <2>1 DEF GpioInv
  <2>5. \A x \in Gpio!Pins : /\ isr_cb'[x] = IF x = s THEN Null ELSE isr_cb[x]
                             /\ isr_user'[x] = IF x = s THEN Null ELSE isr_user[x]
    BY <2>1 DEF GpioInv
  <2>6. ~dangling' => Gpio!Range(chain') = attached'
    BY <2>1, <2>3 DEF GpioInv
  <2>7. ~replaced' => \A x \in Gpio!Range(chain') : isr_cb'[x] = isr_user'[x]
    BY <1>0, <2>1, <2>2, <2>5 DEF GpioInv
  <2>8. QED
    BY <2>1, <2>2, <2>4, <2>6, <2>7 DEF GpioInv
<1>3. ASSUME NEW s \in Gpio!Pins, NEW c \in Callbacks, Gpio!SetCb(s, c)
      PROVE  GpioInv'
  <2>1. /\ isr_cb' = [isr_cb EXCEPT ![s] = c]
        /\ doing' = [at |-> "set user", slot |-> s, cb |-> c]
        /\ replaced' = (replaced \/ s \in Gpio!Range(chain))
        /\ UNCHANGED <<isr_user, chain, attached, last, dangling>>
    BY <1>3 DEF Gpio!SetCb, Gpio!InChain
  <2>2. replaced' \in BOOLEAN /\ (~replaced' => ~replaced /\ s \notin Gpio!Range(chain))
    BY <2>1 DEF GpioInv
  <2>3. QED
    BY <1>0, <2>1, <2>2 DEF GpioInv
<1>4. CASE Gpio!SetUser
  <2>1. /\ doing.at = "set user" /\ isr_user' = [isr_user EXCEPT ![doing.slot] = doing.cb]
        /\ doing' = [doing EXCEPT !.at = "attach"]
        /\ UNCHANGED <<isr_cb, chain, attached, last, replaced, dangling>>
    BY <1>4 DEF Gpio!SetUser, Gpio!Put
  <2>2. QED
    BY <1>0, <2>1 DEF GpioInv
<1>5. CASE Gpio!Refuse
  BY <1>5 DEF Gpio!Refuse, GpioInv, Gpio!NotDoing
<1>6. CASE Gpio!Attach
  <2>1. /\ doing.at = "attach" /\ chain' = <<doing.slot>> \o Gpio!Unlinked(doing.slot)
        /\ attached' = attached \cup {doing.slot}
        /\ doing' = [at |-> "idle", slot |-> 0, cb |-> Null]
        /\ UNCHANGED <<isr_cb, isr_user, last, replaced, dangling>>
    BY <1>6 DEF Gpio!Attach, Gpio!NotDoing
  <2>2. PICK s \in Gpio!Pins : s = doing.slot
    BY <2>1 DEF GpioInv
  <2> DEFINE u == Gpio!Unlinked(s)
  <2>3. /\ u \in Seq(Gpio!Pins)
        /\ \A i, j \in 1 .. Len(u) : u[i] = u[j] => i = j
        /\ Gpio!Range(u) = Gpio!Range(chain) \ {s}
    BY Unlinking
  <2>4. chain' = <<s>> \o u
    BY <2>1, <2>2
  <2> HIDE DEF u
  <2>5. s \notin Gpio!Range(u)
    BY <2>3
  <2>6. /\ chain' \in Seq(Gpio!Pins)
        /\ \A i, j \in 1 .. Len(chain') : chain'[i] = chain'[j] => i = j
        /\ Gpio!Range(chain') = Gpio!Range(u) \cup {s}
    BY <2>3, <2>4, <2>5, Linking
  <2>7. Gpio!Range(chain') = Gpio!Range(chain) \cup {s}
    BY <2>3, <2>6
  <2>8. QED
    BY <1>0, <2>1, <2>2, <2>6, <2>7 DEF GpioInv
<1>7. ASSUME NEW s \in Gpio!Pins, Gpio!Detach(s)
      PROVE  GpioInv'
  <2>1. /\ chain' = Gpio!Unlinked(s) /\ attached' = attached \ {s}
        /\ doing' = [at |-> "clear cb", slot |-> s, cb |-> Null]
        /\ UNCHANGED <<isr_cb, isr_user, last, replaced, dangling>>
    BY <1>7 DEF Gpio!Detach
  <2>2. /\ chain' \in Seq(Gpio!Pins)
        /\ \A i, j \in 1 .. Len(chain') : chain'[i] = chain'[j] => i = j
        /\ Gpio!Range(chain') = Gpio!Range(chain) \ {s}
    BY <2>1, Unlinking
  <2>3. QED
    BY <1>0, <2>1, <2>2 DEF GpioInv
<1>8. CASE Gpio!ClearCb
  <2>1. /\ doing.at = "clear cb" /\ isr_cb' = [isr_cb EXCEPT ![doing.slot] = Null]
        /\ doing' = [doing EXCEPT !.at = "clear user"]
        /\ UNCHANGED <<isr_user, chain, attached, last, replaced, dangling>>
    BY <1>8 DEF Gpio!ClearCb, Gpio!Put
  <2>2. QED
    BY <1>0, <2>1 DEF GpioInv
<1>9. CASE Gpio!ClearUser
  <2>1. /\ doing.at = "clear user" /\ isr_user' = [isr_user EXCEPT ![doing.slot] = Null]
        /\ doing' = [at |-> "idle", slot |-> 0, cb |-> Null]
        /\ UNCHANGED <<isr_cb, chain, attached, last, replaced, dangling>>
    BY <1>9 DEF Gpio!ClearUser, Gpio!Put, Gpio!NotDoing
  <2>2. QED
    BY <1>0, <2>1 DEF GpioInv
<1>10. ASSUME NEW s \in Gpio!Pins, Gpio!Trampoline(s)
       PROVE  GpioInv'
  <2>1. /\ s \in Gpio!Range(chain) /\ last' = <<isr_cb[s], isr_user[s]>>
        /\ UNCHANGED <<isr_cb, isr_user, chain, doing, attached, replaced, dangling>>
    BY <1>10 DEF Gpio!Trampoline, Gpio!InChain
  <2>2. QED
    BY <2>1 DEF GpioInv
<1>11. CASE UNCHANGED gpioVars
  BY <1>11 DEF gpioVars, GpioInv
<1>12. QED
  BY <1>1, <1>2, <1>3, <1>4, <1>5, <1>6, <1>7, <1>8, <1>9, <1>10, <1>11 DEF Gpio!Next

-----------------------------------------------------------------------------
(* The theorems *)

\* A pool in mutex mode, or used by one context only, never loses a block,
\* hands it out twice or takes a legal free for a double one: for every number
\* of threads and of blocks, and whatever words the compiler reads again.
THEOREM PoolSafe ==
  ASSUME Modes \subseteq {"NONE", "MUTEX"}
  PROVE  Spec => []BlocksConserved
<1>1. Init => PoolInv
  BY PoolStarts
<1>2. PoolInv /\ [Next]_vars => PoolInv'
  BY PoolKept
<1>3. PoolInv => BlocksConserved
  BY DEF PoolInv
<1>4. QED
  BY <1>1, <1>2, <1>3, PTL DEF Spec

\* Such a pool tells the truth: used is what is out, but for the one call that
\* has changed a bit and not counted it; the peak is the most ever out; and an
\* allocation fails only when every word has been seen without a block.
THEOREM PoolHonest ==
  ASSUME Modes \subseteq {"NONE", "MUTEX"}
  PROVE  Spec => PoolTellsTruth
<1>1. Init => PoolInv /\ StatsInv
  <2> SUFFICES ASSUME Init
               PROVE  PoolInv /\ StatsInv
    OBVIOUS
  <2>1. PoolInv
    BY PoolStarts
  <2>2. /\ used = 0 /\ peak = 0 /\ high = 0 /\ tally = [c \in Contexts |-> 0]
        /\ \A c \in Contexts : pc[c] = "idle"
    BY DEF Init
  <2>3. TakenOut = 0
    <3>1. Cardinality(free) = NumBlocks /\ NumBlocks \in Int
      BY BlocksCounted, PoolAssumption DEF Init
    <3>2. QED
      BY <3>1 DEF TakenOut
  <2>4. QED
    BY <2>1, <2>2, <2>3 DEF StatsInv, StatsKnown
<1>2. PoolInv /\ StatsInv /\ [Next]_vars => (PoolInv /\ StatsInv)'
  <2> SUFFICES ASSUME PoolInv, StatsInv, [Next]_vars
               PROVE  PoolInv' /\ StatsInv'
    OBVIOUS
  <2>1. ASSUME NEW c \in Contexts, Step(c)
        PROVE  StatsInv'
    BY <2>1, StatsStep
  <2>2. ASSUME UNCHANGED vars
        PROVE  StatsInv'
    BY <2>2 DEF vars, locals, stats, history, StatsInv, StatsKnown, TakenOut, WordOf
  <2>3. StatsInv'
    BY <2>1, <2>2 DEF Next
  <2>4. PoolInv'
    BY PoolKept
  <2>5. QED
    BY <2>3, <2>4
<1>3. PoolInv /\ StatsInv => StatsExact
  BY StatsShown
<1>4. PoolInv /\ StatsInv /\ [Next]_vars => FailsOnlyWhenFull
  BY FailureIsFull
<1>5. QED
  BY <1>1, <1>2, <1>3, <1>4, PTL DEF Spec, PoolTellsTruth

\* Whatever the sizes of ring, table and queue and whoever calls, the records
\* are exact: entries are printed once and in order and refused ones counted,
\* a missed deadline is counted once, and the cached level is the queue's, but
\* for the calls that preempt each other where RecordsExact says so.
THEOREM RecordsAreExact == MCSpec => []RecordsExact
<1> DEFINE RecordsInv == LogInv /\ DeadlineInv /\ QueueInv
<1>1. MCInit => RecordsInv
  <2> SUFFICES ASSUME MCInit
               PROVE  RecordsInv
    OBVIOUS
  <2>1. LogInv
    <3>1. 0 \in 0 .. RingCount - 1 /\ 0 % RingCount = 0 /\ RingCount \in Nat \ {0}
      BY AdapterAssumption
    <3>2. /\ head = 0 /\ tail = 0 /\ dropped = 0 /\ refused = 0 /\ raced = FALSE
          /\ ring = [i \in 0 .. RingCount - 1 |-> NoMessage]
          /\ logging = [at |-> "idle", message |-> NoMessage, read |-> 0]
          /\ printing = NoMessage /\ expected = <<>>
      BY DEF MCInit, Log!Init, Log!NotLogging
    <3>3. expected \in Seq(Messages \cup {NoMessage}) /\ Len(expected) = 0
      BY <3>2, EmptySeq
    <3>4. (head - tail) % RingCount = 0
      BY <3>1, <3>2
    <3>5. /\ ring \in [0 .. RingCount - 1 -> Messages \cup {NoMessage}]
          /\ logging \in [at : {"idle", "drop", "write", "publish"},
                          message : Messages \cup {NoMessage}, read : Int]
          /\ logging.at = "idle"
      BY <3>2
    <3>6. head \in 0 .. RingCount - 1 /\ tail \in 0 .. RingCount - 1
      BY <3>1, <3>2
    <3>7. \A i \in 1 .. Len(expected) : FALSE
      BY <3>3
    <3>8. QED
      BY <3>2, <3>3, <3>4, <3>5, <3>6, <3>7 DEF LogInv
  <2>2. DeadlineInv
    BY DEF MCInit, Deadline!Init, Deadline!Zero, DeadlineInv, Deadline!NotBegun, Deadline!NotEnding
  <2>3. QueueInv
    <3>1. /\ msgs = 0 /\ count = 0 /\ calls = [t \in Tasks |-> "idle"]
          /\ levels = [t \in Tasks |-> 0] /\ outdated = FALSE
      BY DEF MCInit, Queue!Init
    <3>2. /\ calls \in [Tasks -> {"idle", "send", "recv", "count", "store", "purge"}]
          /\ levels \in [Tasks -> Int] /\ count = msgs
          /\ \A t \in Tasks : calls[t] # "store" /\ calls[t] # "purge"
      BY <3>1
    <3>3. msgs \in Int /\ outdated \in BOOLEAN
      <4>1. msgs \in Int
        BY <3>1
      <4>2. outdated \in BOOLEAN
        BY <3>1, Zenon
      <4>3. QED
        BY <4>1, <4>2
    <3>4. QED
      BY ONLY <3>2, <3>3, Zenon DEF QueueInv
  <2>4. QED
    BY <2>1, <2>2, <2>3
<1>2. ASSUME RecordsInv,
             [/\ UNCHANGED bench
              /\ \/ PoolStep \/ LogStep \/ DeadlineStep
                 \/ QueueStep \/ ThreadStep \/ GpioStep]_adapterVars
      PROVE  RecordsInv'
  <2>1. [Log!Next]_logVars /\ [Deadline!Next]_deadlineVars /\ [Queue!Next]_queueVars
    BY <1>2 DEF PoolStep, LogStep, DeadlineStep, QueueStep, ThreadStep, GpioStep, adapterVars
  <2>2. QED
    BY <1>2, <2>1, LogKept, DeadlineKept, QueueKept
<1>3. RecordsInv => RecordsExact
  <2> SUFFICES ASSUME LogInv, DeadlineInv, QueueInv
               PROVE  RecordsExact
    OBVIOUS
  <2>1. Log!LogExact
    <3> SUFFICES ASSUME ~raced
                 PROVE  /\ Log!Pending = expected
                        /\ printing # NoMessage => printing = Head(expected)
                        /\ dropped = refused
      BY DEF Log!LogExact
    <3>1. /\ Len(expected) = (head - tail) % RingCount
          /\ \A i \in 1 .. Len(expected) : expected[i] = ring[(tail + i - 1) % RingCount]
          /\ printing # NoMessage => tail # head /\ printing = expected[1]
          /\ dropped = refused /\ expected \in Seq(Messages \cup {NoMessage})
      BY DEF LogInv
    <3>2. expected = [i \in 1 .. Len(expected) |-> expected[i]]
      BY <3>1
    <3>3. Log!Pending = expected
      BY <3>1, <3>2 DEF Log!Pending
    <3>4. printing # NoMessage => expected # <<>>
      <4>1. printing # NoMessage => Waiting > 0
        BY <3>1, Window DEF LogInv
      <4>2. QED
        BY <3>1, <4>1 DEF Waiting
    <3>5. printing # NoMessage => printing = Head(expected)
      BY <3>1, <3>4
    <3>6. QED
      BY <3>1, <3>3, <3>5
  <2>2. Deadline!MissesExact
    BY DEF DeadlineInv, Deadline!MissesExact
  <2>3. Queue!CacheExact
    BY DEF QueueInv, Queue!CacheExact
  <2>4. QED
    BY <2>1, <2>2, <2>3 DEF RecordsExact
<1> HIDE DEF RecordsInv
<1>4. QED
  BY <1>1, <1>2, <1>3, PTL DEF MCSpec

\* However many slots, pins, creators and callbacks: a thread runs the entry
\* its own creator stored and no slot has two owners; a callback gets its own
\* argument and the port calls exactly the callbacks that are set, with the
\* exceptions SlotsKeepTheirOwners names.
THEOREM SlotsAreKept == MCSpec => []SlotsKeepTheirOwners
<1> DEFINE SlotsInv == ThreadInv /\ GpioInv
<1>1. MCInit => SlotsInv
  <2> SUFFICES ASSUME MCInit
               PROVE  SlotsInv
    OBVIOUS
  <2>1. ThreadInv
    <3>1. 0 \notin Thread!Slots
      BY DEF Thread!Slots
    <3>2. QED
      BY <3>1 DEF MCInit, Thread!Init, Thread!NotMaking, Thread!NoSlot, Thread!NotYet,
                  ThreadInv, ThreadTypes, Makes, SlotKept
  <2>2. GpioInv
    <3>1. /\ chain = <<>> /\ doing = [at |-> "idle", slot |-> 0, cb |-> Null] /\ attached = {}
          /\ last = <<Null, Null>> /\ replaced = FALSE /\ dangling = FALSE
          /\ isr_cb = [s \in Gpio!Pins |-> Null] /\ isr_user = [s \in Gpio!Pins |-> Null]
      BY DEF MCInit, Gpio!Init, Gpio!NotDoing
    <3>2. chain \in Seq(Gpio!Pins) /\ Len(chain) = 0
      BY <3>1, EmptySeq
    <3>3. Gpio!Range(chain) = {}
      <4>1. \A x : x \notin Gpio!Range(chain)
        <5>1. \A x : x \in Gpio!Range(chain) <=> \E i \in 1 .. Len(chain) : chain[i] = x
          BY <3>2, ElementsOf
        <5>2. \A i \in 1 .. Len(chain) : FALSE
          BY <3>2
        <5>3. QED
          BY <5>1, <5>2, Zenon
      <4>2. QED
        BY <4>1
    <3>4. last[1] = last[2] /\ doing.at = "idle" /\ \A i \in 1 .. Len(chain) : FALSE
      BY <3>1, <3>2
    <3>5. QED
      BY <3>1, <3>2, <3>3, <3>4 DEF GpioInv
  <2>3. QED
    BY <2>1, <2>2
<1>2. ASSUME SlotsInv,
             [/\ UNCHANGED bench
              /\ \/ PoolStep \/ LogStep \/ DeadlineStep
                 \/ QueueStep \/ ThreadStep \/ GpioStep]_adapterVars
      PROVE  SlotsInv'
  <2>1. [Thread!Next]_threadVars /\ [Gpio!Next]_gpioVars
    BY <1>2 DEF PoolStep, LogStep, DeadlineStep, QueueStep, ThreadStep, GpioStep, adapterVars
  <2>2. QED
    BY <1>2, <2>1, ThreadKept, GpioKept
<1>3. SlotsInv => SlotsKeepTheirOwners
  <2> SUFFICES ASSUME ThreadInv, GpioInv
               PROVE  SlotsKeepTheirOwners
    OBVIOUS
  <2>1. Gpio!CallbacksReached
    BY DEF GpioInv, Gpio!CallbacksReached
  <2>2. QED
    BY <2>1, ThreadInvSuffices DEF SlotsKeepTheirOwners
<1> HIDE DEF SlotsInv
<1>4. QED
  BY <1>1, <1>2, <1>3, PTL DEF MCSpec

-----------------------------------------------------------------------------
(* The motion pipeline: sums of steps *)

\* g[n] is the sum of first and of the n first steps of q.
Sums(q, first, g) ==
  /\ g \in [0 .. Len(q) -> Int]
  /\ g[0] = first
  /\ \A n \in 1 .. Len(q) : g[n] = g[n - 1] + q[n]

\* There are such sums, for any number of segments.
LEMMA SumsExist ==
  ASSUME NEW q \in Seq(Int), NEW first \in Int
  PROVE  \E g : Sums(q, first, g)
<1> DEFINE L == Len(q)
           To(n, g) == /\ g \in [0 .. n -> Int] /\ g[0] = first
                       /\ \A k \in 1 .. n : g[k] = g[k - 1] + q[k]
           Missing == {n \in 0 .. L : ~ \E g : To(n, g)}
<1>1. L \in Nat /\ \A k \in 1 .. L : q[k] \in Int
  OBVIOUS
<1> HIDE DEF L
<1>2. Missing = {}
  <2> SUFFICES ASSUME Missing # {}
               PROVE  FALSE
    OBVIOUS
  <2>1. Missing \in SUBSET Nat
    BY <1>1
  <2>2. PICK m \in Missing : \A k \in Missing : m <= k
    <3> HIDE DEF Missing
    <3> QED
      BY <2>1, LeastNumber
  <2>3. m \in 0 .. L /\ ~ \E g : To(m, g)
    OBVIOUS
  <2>4. CASE m = 0
    <3> DEFINE g == [k \in 0 .. 0 |-> first]
    <3>1. To(0, g)
      OBVIOUS
    <3> QED
      BY <2>3, <2>4, <3>1
  <2>5. CASE m > 0
    <3>1. m - 1 \in 0 .. L /\ ~ (m <= m - 1)
      BY <1>1, <2>3, <2>5
    <3>2. PICK g : To(m - 1, g)
      BY <2>2, <3>1
    <3> DEFINE h == [k \in 0 .. m |-> IF k = m THEN g[m - 1] + q[m] ELSE g[k]]
    <3>3. g[m - 1] \in Int /\ q[m] \in Int
      BY <1>1, <2>3, <2>5, <3>2
    <3>4. h \in [0 .. m -> Int]
      BY <2>3, <3>2, <3>3
    <3>5. h[0] = first
      BY <2>3, <2>5, <3>2
    <3>6. ASSUME NEW k \in 1 .. m
          PROVE  h[k] = h[k - 1] + q[k]
      <4>1. CASE k = m
        BY <2>3, <2>5, <4>1
      <4>2. CASE k # m
        <5>1. k \in 1 .. m - 1 /\ k - 1 \in 0 .. m - 1
          BY <2>3, <4>2
        <5>2. g[k] = g[k - 1] + q[k]
          BY <3>2, <5>1
        <5>3. h[k] = g[k] /\ h[k - 1] = g[k - 1]
          BY <2>3, <5>1
        <5> QED
          BY <5>2, <5>3
      <4> QED
        BY <4>1, <4>2
    <3>7. To(m, h)
      BY <3>4, <3>5, <3>6
    <3> QED
      BY <2>3, <3>7
  <2> QED
    BY <1>1, <2>3, <2>4, <2>5
<1>3. ~ (\A g : ~ To(L, g))
  <2>1. L \in 0 .. L
    BY <1>1
  <2> HIDE DEF To
  <2> QED
    BY <1>2, <2>1
<1>4. PICK g : To(L, g)
  BY <1>3
<1>5. Sums(q, first, g)
  BY <1>4 DEF Sums, L
<1> QED
  BY <1>5

\* And no others.
LEMMA SumsUnique ==
  ASSUME NEW q \in Seq(Int), NEW first \in Int, NEW g, Sums(q, first, g), NEW h,
         DOMAIN h = 0 .. Len(q), h[0] = first,
         \A n \in 1 .. Len(q) : h[n] = h[n - 1] + q[n]
  PROVE  \A n \in 0 .. Len(q) : h[n] = g[n]
<1> DEFINE Differ == {n \in 0 .. Len(q) : h[n] # g[n]}
<1>1. Len(q) \in Nat
  OBVIOUS
<1>2. Differ = {}
  <2> SUFFICES ASSUME Differ # {}
               PROVE  FALSE
    OBVIOUS
  <2>1. Differ \in SUBSET Nat
    BY <1>1
  <2>2. PICK m \in Differ : \A k \in Differ : m <= k
    <3> HIDE DEF Differ
    <3> QED
      BY <2>1, LeastNumber
  <2>3. m \in 0 .. Len(q) /\ h[m] # g[m]
    OBVIOUS
  <2>4. m # 0
    BY <2>3 DEF Sums
  <2>5. m - 1 \in 0 .. Len(q) /\ m \in 1 .. Len(q) /\ ~ (m <= m - 1)
    BY <1>1, <2>3, <2>4
  <2>6. h[m - 1] = g[m - 1]
    BY <2>2, <2>5
  <2> QED
    BY <2>3, <2>5, <2>6 DEF Sums
<1> QED
  BY <1>2

\* Total is the last of the sums.
LEMMA TotalIs ==
  ASSUME NEW q \in Seq(Int), NEW first \in Int, NEW g, Sums(q, first, g)
  PROVE  Total(q, first) = g[Len(q)] /\ g[Len(q)] \in Int
<1> DEFINE D == 0 .. Len(q)
           IsSum(h) == h = [n \in D |-> IF n = 0 THEN first ELSE h[n - 1] + q[n]]
           s == CHOOSE h : IsSum(h)
<1>1. Len(q) \in Nat /\ Len(q) \in D /\ 0 \in D
  OBVIOUS
<1>2. g = [n \in D |-> g[n]]
  BY DEF Sums
<1>3. \A n \in D : g[n] = IF n = 0 THEN first ELSE g[n - 1] + q[n]
  BY DEF Sums
<1>4. IsSum(g)
  BY <1>2, <1>3
<1>5. IsSum(s)
  <2> HIDE DEF IsSum
  <2> QED
    BY <1>4
<1>6. Total(q, first) = s[Len(q)]
  BY DEF Total
<1> HIDE DEF s
<1>7. DOMAIN s = 0 .. Len(q) /\ \A n \in D : s[n] = IF n = 0 THEN first ELSE s[n - 1] + q[n]
  BY <1>5
<1>8. s[0] = first /\ \A n \in 1 .. Len(q) : s[n] = s[n - 1] + q[n]
  BY <1>1, <1>7
<1>9. \A n \in 0 .. Len(q) : s[n] = g[n]
  <2>1. DOMAIN s = 0 .. Len(q)
    BY <1>7
  <2>2. ASSUME NEW h, DOMAIN h = 0 .. Len(q), h[0] = first,
               \A n \in 1 .. Len(q) : h[n] = h[n - 1] + q[n]
        PROVE  \A n \in 0 .. Len(q) : h[n] = g[n]
    BY <2>2, SumsUnique
  <2> HIDE DEF IsSum, D
  <2> QED
    BY <1>8, <2>1, <2>2
<1> QED
  BY <1>1, <1>6, <1>9 DEF Sums

\* A segment behind the others adds its steps.
LEMMA TotalOfAppend ==
  ASSUME NEW q \in Seq(Int), NEW first \in Int, NEW x \in Int
  PROVE  Total(q, first) \in Int /\ Total(Append(q, x), first) = Total(q, first) + x
<1> DEFINE L == Len(q)
           p == Append(q, x)
<1>1. PICK g : Sums(q, first, g)
  BY SumsExist
<1>2. L \in Nat /\ p \in Seq(Int) /\ Len(p) = L + 1 /\ p[L + 1] = x /\ \A n \in 1 .. L : p[n] = q[n]
  BY AppendProperties
<1> DEFINE h == [n \in 0 .. L + 1 |-> IF n = L + 1 THEN g[L] + x ELSE g[n]]
<1> HIDE DEF p
<1>3. g[L] \in Int /\ Total(q, first) = g[L]
  BY <1>1, TotalIs
<1>4. g \in [0 .. L -> Int] /\ g[0] = first /\ \A n \in 1 .. L : g[n] = g[n - 1] + q[n]
  BY <1>1 DEF Sums
<1> HIDE DEF L
<1>5. h \in [0 .. L + 1 -> Int] /\ h[0] = first /\ h[L + 1] = g[L] + x
  BY <1>2, <1>3, <1>4
<1>6. ASSUME NEW n \in 1 .. L + 1
      PROVE  h[n] = h[n - 1] + p[n]
  <2>1. CASE n = L + 1
    <3>1. n - 1 = L /\ L \in 0 .. L + 1 /\ L # L + 1
      BY <1>2, <2>1
    <3>2. h[n - 1] = g[L]
      BY <3>1
    <3> QED
      BY <1>2, <1>5, <2>1, <3>2
  <2>2. CASE n # L + 1
    <3>1. n \in 1 .. L /\ n \in 0 .. L + 1 /\ n - 1 \in 0 .. L + 1 /\ n - 1 # L + 1
      BY <1>2, <2>2
    <3>2. h[n] = g[n] /\ h[n - 1] = g[n - 1]
      BY <2>2, <3>1
    <3> QED
      BY <1>2, <1>4, <3>1, <3>2
  <2> QED
    BY <2>1, <2>2
<1>7. Sums(p, first, h)
  <2> HIDE DEF h
  <2> QED
    BY <1>2, <1>5, <1>6 DEF Sums
<1>8. Total(p, first) = h[L + 1]
  <2> HIDE DEF h
  <2> QED
    BY <1>2, <1>7, TotalIs
<1> QED
  BY <1>3, <1>5, <1>8 DEF p

\* The first segment may be counted with what is ahead of all.
LEMMA TotalOfTail ==
  ASSUME NEW q \in Seq(Int), q # <<>>, NEW first \in Int
  PROVE  Total(Tail(q), first + Head(q)) = Total(q, first)
<1> DEFINE L == Len(q)
           p == Tail(q)
<1>1. PICK g : Sums(q, first, g)
  BY SumsExist
<1>2. /\ L \in Nat \ {0} /\ p \in Seq(Int) /\ Len(p) = L - 1 /\ Head(q) = q[1] /\ q[1] \in Int
      /\ \A n \in 1 .. L - 1 : p[n] = q[n + 1]
  BY HeadTailProperties
<1> DEFINE h == [n \in 0 .. L - 1 |-> g[n + 1]]
<1> HIDE DEF p
<1>3. g[L] \in Int /\ Total(q, first) = g[L]
  BY <1>1, TotalIs
<1>4. g \in [0 .. L -> Int] /\ g[0] = first /\ \A n \in 1 .. L : g[n] = g[n - 1] + q[n]
  BY <1>1 DEF Sums
<1> HIDE DEF L
<1>5. h \in [0 .. L - 1 -> Int] /\ h[0] = first + q[1] /\ h[L - 1] = g[L]
  <2>1. 1 \in 1 .. L /\ 0 \in 0 .. L - 1 /\ L - 1 \in 0 .. L - 1 /\ (L - 1) + 1 = L /\ 1 - 1 = 0
    BY <1>2
  <2>2. \A n \in 0 .. L - 1 : n + 1 \in 0 .. L
    BY <1>2
  <2>3. g[1] = first + q[1]
    BY <1>4, <2>1
  <2> QED
    BY <1>4, <2>1, <2>2, <2>3
<1>6. ASSUME NEW n \in 1 .. L - 1
      PROVE  h[n] = h[n - 1] + p[n]
  <2>1. n + 1 \in 1 .. L /\ (n + 1) - 1 = n /\ n \in 0 .. L - 1 /\ n - 1 \in 0 .. L - 1 /\ (n - 1) + 1 = n
    BY <1>2
  <2>2. h[n] = g[n + 1] /\ h[n - 1] = g[n]
    BY <2>1
  <2>3. g[n + 1] = g[n] + q[n + 1]
    BY <1>4, <2>1
  <2> QED
    BY <1>2, <2>2, <2>3
<1>7. Sums(p, first + q[1], h)
  <2> HIDE DEF h
  <2> QED
    BY <1>2, <1>5, <1>6 DEF Sums
<1>8. Total(p, first + q[1]) = h[L - 1]
  <2>1. first + q[1] \in Int
    BY <1>2
  <2> HIDE DEF h
  <2> QED
    BY <1>2, <1>7, <2>1, TotalIs
<1> QED
  BY <1>2, <1>3, <1>5, <1>8 DEF p

\* What is ahead of all is counted once.
LEMMA TotalFrom ==
  ASSUME NEW q \in Seq(Int), NEW first \in Int
  PROVE  Total(q, 0) \in Int /\ Total(q, first) = Total(q, 0) + first
<1> DEFINE L == Len(q)
<1>1. PICK g : Sums(q, 0, g)
  BY SumsExist
<1>2. L \in Nat /\ \A n \in 1 .. L : q[n] \in Int
  OBVIOUS
<1> DEFINE h == [n \in 0 .. L |-> g[n] + first]
<1>3. g[L] \in Int /\ Total(q, 0) = g[L]
  BY <1>1, TotalIs
<1>4. g \in [0 .. L -> Int] /\ g[0] = 0 /\ \A n \in 1 .. L : g[n] = g[n - 1] + q[n]
  BY <1>1 DEF Sums
<1>5. h \in [0 .. L -> Int] /\ h[0] = first /\ h[L] = g[L] + first
  BY <1>2, <1>4
<1>6. ASSUME NEW n \in 1 .. L
      PROVE  h[n] = h[n - 1] + q[n]
  <2>1. n \in 0 .. L /\ n - 1 \in 0 .. L /\ g[n - 1] \in Int /\ q[n] \in Int
    <3>1. L \in Nat /\ g \in [0 .. L -> Int] /\ q[n] \in Int
      BY <1>2, <1>4
    <3> HIDE DEF L
    <3> QED
      BY <3>1
  <2>2. h[n] = g[n] + first /\ h[n - 1] = g[n - 1] + first
    BY <2>1
  <2>3. g[n] = g[n - 1] + q[n]
    BY <1>4
  <2> QED
    BY <2>1, <2>2, <2>3
<1>7. Sums(q, first, h)
  <2> HIDE DEF h
  <2> QED
    BY <1>5, <1>6 DEF Sums
<1>8. Total(q, first) = h[L]
  <2> HIDE DEF h
  <2> QED
    BY <1>7, TotalIs
<1> QED
  BY <1>3, <1>5, <1>8

-----------------------------------------------------------------------------
(* The motion pipeline: pulses and plan *)

\* The types, and what the threads hold between two of their steps.
PipelineTypes ==
  /\ board \in {"host", "zephyr"}
  /\ line \in Lines \cup {NoLine} /\ absolute \in BOOLEAN
  /\ main = "send" => line \in Lines
  /\ cmd_q \in Seq(Lines) /\ seg_q \in Seq(Int)
  /\ cmd \in Lines \cup {NoLine} /\ seg \in Int /\ target \in Int /\ pos \in Int
  /\ planner \in {"tick", "plan", "send", "state?", "count?", "empty"}
  /\ pulse.busy \in BOOLEAN /\ pulse.steps \in Int
  /\ ~pulse.busy => pulse = Idle
  /\ done \in Int /\ origin \in Int /\ moves \in Nat

\* How far pulses and plan are apart, in fractions of a step.
Apart == Unit * ((done + OnTheWay) - origin) - pos

\* A segment to be queued is the rounded way to its target.
PlanInv ==
  /\ PipelineTypes
  /\ planner = "send" => seg = Round(target - pos)
  /\ 2 * Apart <= Unit * moves /\ -(2 * Apart) <= Unit * moves

\* Rounding is wrong by half a step at most.
LEMMA RoundIsClose ==
  ASSUME NEW d \in Int
  PROVE  /\ Round(d) \in Int
         /\ 2 * (Unit * Round(d) - d) <= Unit /\ -(2 * (Unit * Round(d) - d)) <= Unit
<1> DEFINE a == IF d < 0 THEN -d ELSE d
           w == 2 * Unit
           n == (2 * a + Unit) \div w
           r == (2 * a + Unit) % w
<1>1. Unit \in Nat \ {0} /\ a \in Nat /\ w \in Nat \ {0}
  BY PipelineAssumption
<1>2. n \in Int /\ r \in 0 .. w - 1 /\ 2 * a + Unit = w * n + r
  <2>1. 2 * a + Unit \in Int
    BY <1>1
  <2> HIDE DEF w, a
  <2> QED
    BY <1>1, <2>1
<1> HIDE DEF n, r
<1>3. w * n = 2 * (Unit * n)
  BY <1>1, <1>2
<1>4. 2 * (Unit * n - a) <= Unit /\ -(2 * (Unit * n - a)) <= Unit
  BY <1>1, <1>2, <1>3
<1>5. Round(d) = IF d < 0 THEN -n ELSE n
  BY DEF Round, n
<1>6. Unit * (-n) = -(Unit * n) /\ Unit * n \in Int
  BY <1>1, <1>2
<1> QED
  BY <1>2, <1>4, <1>5, <1>6

\* What is on the way is a number.
LEMMA OnTheWayIsInt ==
  ASSUME PipelineTypes
  PROVE  OnTheWay \in Int /\ Apart \in Int
         /\ OnTheWay = Total(seg_q, 0) + pulse.steps /\ Total(seg_q, 0) \in Int
<1>1. seg_q \in Seq(Int) /\ pulse.steps \in Int /\ done \in Int /\ origin \in Int /\ pos \in Int
      /\ Unit \in Int
  BY PipelineAssumption DEF PipelineTypes
<1>2. Total(seg_q, 0) \in Int /\ OnTheWay = Total(seg_q, 0) + pulse.steps
  BY <1>1, TotalFrom DEF OnTheWay
<1>3. OnTheWay \in Int
  BY <1>1, <1>2
<1>4. Unit * ((done + OnTheWay) - origin) \in Int
  BY <1>1, <1>3
<1>5. Apart \in Int
  BY <1>1, <1>4 DEF Apart
<1> QED
  BY <1>2, <1>3, <1>5

\* A step that moves neither the pulses' sum nor the planner's position.
LEMMA SumStays ==
  ASSUME PlanInv, PipelineTypes', done' + OnTheWay' = done + OnTheWay,
         UNCHANGED <<pos, origin, moves, seg, target>>, planner' = "send" => planner = "send"
  PROVE  PlanInv'
<1>1. Apart' = Apart
  BY DEF Apart
<1> QED
  BY <1>1 DEF PlanInv

\* Nothing is planned and nothing done at the start.
LEMMA PlanStarts == PipelineInit => PlanInv
<1> SUFFICES ASSUME PipelineInit
             PROVE  PlanInv
  OBVIOUS
<1>1. PipelineTypes
  <2>1. board \in {"host", "zephyr"} /\ NoLine \in Lines \cup {NoLine}
    BY DEF PipelineInit, Script
  <2>2. <<>> \in Seq(Lines) /\ <<>> \in Seq(Int)
    BY EmptySeq
  <2>3. pulse.busy = FALSE /\ pulse.steps = 0 /\ pulse = Idle
    BY DEF PipelineInit, Idle
  <2>4. /\ main = "INIT_DONE" /\ line = NoLine /\ absolute = TRUE /\ cmd_q = <<>> /\ seg_q = <<>>
        /\ planner = "tick" /\ cmd = NoLine /\ seg = 0 /\ target = 0 /\ pos = 0
        /\ done = 0 /\ origin = 0 /\ moves = 0
    BY DEF PipelineInit
  <2>5. absolute \in BOOLEAN /\ pulse.busy \in BOOLEAN /\ (~pulse.busy => pulse = Idle)
    BY <2>3, <2>4
  <2>6. cmd_q \in Seq(Lines) /\ seg_q \in Seq(Int)
    BY <2>2, <2>4
  <2>7. line \in Lines \cup {NoLine} /\ cmd \in Lines \cup {NoLine} /\ (main = "send" => line \in Lines)
    BY <2>1, <2>4
  <2>8. /\ seg \in Int /\ target \in Int /\ pos \in Int /\ pulse.steps \in Int
        /\ done \in Int /\ origin \in Int /\ moves \in Nat
        /\ planner \in {"tick", "plan", "send", "state?", "count?", "empty"}
    BY <2>3, <2>4
  <2> QED
    BY <2>1, <2>5, <2>6, <2>7, <2>8 DEF PipelineTypes
<1>2. Sums(seg_q, 0, [n \in 0 .. 0 |-> 0]) /\ seg_q \in Seq(Int)
  BY DEF PipelineInit, Sums
<1>3. Total(seg_q, 0) = 0
  BY <1>2, TotalIs DEF PipelineInit
<1>4. OnTheWay = 0
  BY <1>3 DEF OnTheWay, PipelineInit, Idle
<1>5. done = 0 /\ origin = 0 /\ pos = 0 /\ moves = 0 /\ Unit \in Nat
  BY PipelineAssumption DEF PipelineInit
<1>6. Apart = 0
  BY <1>4, <1>5 DEF Apart
<1> QED
  BY <1>1, <1>5, <1>6 DEF PlanInv, PipelineInit

\* Every step of a thread keeps pulses and plan together: a queued segment adds
\* the error of its rounding and one to the moves that bound it.
LEMMA PlanKept ==
  ASSUME PlanInv, [PipelineNext]_pipelineVars
  PROVE  PlanInv'
<1> USE PipelineAssumption
<1>0. PipelineTypes /\ OnTheWay \in Int /\ Apart \in Int
  BY OnTheWayIsInt DEF PlanInv
<1>a. ASSUME UNCHANGED <<seg_q, pulse, done>>
      PROVE  done' + OnTheWay' = done + OnTheWay
  BY <1>a DEF OnTheWay
<1>1. ASSUME MainDispatch \/ ReadLine \/ ShellCommand \/ SendLine \/ Exit
      PROVE  PlanInv'
  <2>1. UNCHANGED <<plannerVars, pulseVars, seg_q>>
    BY <1>1 DEF MainDispatch, ReadLine, ShellCommand, SendLine, Exit
  <2>2. PipelineTypes'
    <3>1. cmd_q' \in Seq(Lines) /\ line' \in Lines \cup {NoLine} /\ (main' = "send" => line' \in Lines)
      <4>1. CASE MainDispatch
        <5>1. main' \in {main, Script[board][main]} /\ main \in DOMAIN Script[board]
          BY <4>1 DEF MainDispatch
        <5>2. CASE board = "host"
          <6>1. Script[board] = [INIT_DONE |-> "HOME", HOME |-> "HOMING_DONE", HOMING_DONE |-> "RUN", RUN |-> "read"]
            BY <5>2 DEF Script
          <6> QED
            BY <1>0, <4>1, <5>1, <6>1 DEF MainDispatch, PipelineTypes
        <5>3. CASE board = "zephyr"
          <6>1. Script[board] = [INIT_DONE |-> "read", HOME |-> "read", RUN |-> "read", STOP |-> "read"]
            BY <5>3 DEF Script
          <6> QED
            BY <1>0, <4>1, <5>1, <6>1 DEF MainDispatch, PipelineTypes
        <5> QED
          BY <1>0, <5>2, <5>3 DEF PipelineTypes
      <4>2. CASE ReadLine
        BY <1>0, <4>2 DEF ReadLine, PipelineTypes
      <4>3. CASE SendLine
        <5>1. line \in Lines /\ cmd_q \in Seq(Lines)
          BY <1>0, <4>3 DEF SendLine, PipelineTypes
        <5>2. cmd_q' = cmd_q \/ cmd_q' = Append(cmd_q, line)
          BY <4>3 DEF SendLine
        <5> QED
          BY <4>3, <5>1, <5>2, AppendProperties DEF SendLine
      <4>4. CASE ShellCommand \/ Exit
        BY <1>0, <4>4 DEF ShellCommand, Exit, PipelineTypes
      <4> QED
        BY <1>1, <4>1, <4>2, <4>3, <4>4
    <3>2. board' = board
      BY <1>1 DEF MainDispatch, ReadLine, ShellCommand, SendLine, Exit
    <3>3. absolute' \in BOOLEAN
      BY <1>0, <1>1 DEF PipelineTypes, MainDispatch, ReadLine, ShellCommand, SendLine, Exit, ModeAfter
    <3> QED
      BY <1>0, <2>1, <3>1, <3>2, <3>3 DEF PipelineTypes, plannerVars, pulseVars
  <2> QED
    BY <1>a, <2>1, <2>2, SumStays DEF plannerVars, pulseVars
<1>2. CASE TakesOther
  <2>1. PipelineTypes'
    BY <1>0, <1>2, HeadTailProperties DEF TakesOther, At, PipelineTypes, mainVars, pulseVars
  <2>2. CASE Head(cmd_q).type = "home"
    <3>1. pos' = 0 /\ origin' = done + OnTheWay /\ moves' = 0 /\ planner' = "tick"
          /\ done' = done /\ OnTheWay' = OnTheWay
      BY <1>2, <2>2 DEF TakesOther, At, pulseVars, OnTheWay
    <3>2. Apart' = 0
      BY <1>0, <3>1 DEF Apart, PipelineTypes
    <3> QED
      BY <2>1, <3>1, <3>2 DEF PlanInv
  <2>3. CASE Head(cmd_q).type # "home"
    BY <1>2, <1>a, <2>1, <2>3, SumStays DEF TakesOther, At, pulseVars
  <2> QED
    BY <2>2, <2>3
<1>3. CASE TakesMove
  <2>1. PipelineTypes'
    BY <1>0, <1>3, HeadTailProperties DEF TakesMove, At, PipelineTypes, mainVars, pulseVars
  <2> QED
    BY <1>3, <1>a, <2>1, SumStays DEF TakesMove, At, pulseVars
<1>4. CASE Plan
  <2>1. target' \in Int /\ seg' = Round(target' - pos) /\ pos \in Int
    <3>1. cmd.x \in Int
      <4>1. CASE cmd = NoLine
        BY <4>1 DEF NoLine
      <4>2. CASE cmd \in [type : {"move"}, x : Targets]
        BY <4>2
      <4>3. CASE cmd \in [type : {"home", "abs", "rel", "other"}, x : {0}]
        BY <4>3
      <4> QED
        BY <1>0, <4>1, <4>2, <4>3 DEF PipelineTypes, Lines
    <3> QED
      BY <1>0, <1>4, <3>1 DEF Plan, PipelineTypes
  <2>2. seg' \in Int
    BY <2>1, RoundIsClose
  <2>3. PipelineTypes'
    BY <1>0, <1>4, <2>1, <2>2 DEF Plan, At, PipelineTypes, mainVars, pulseVars
  <2>4. Apart' = Apart /\ pos' = pos /\ moves' = moves
    BY <1>4 DEF Plan, pulseVars, Apart, OnTheWay
  <2> QED
    BY <2>1, <2>3, <2>4 DEF PlanInv
<1>5. CASE QueueSegment
  <2>1. seg = Round(target - pos) /\ target - pos \in Int /\ target \in Int /\ pos \in Int /\ moves \in Nat
        /\ done \in Int /\ origin \in Int /\ seg_q \in Seq(Int) /\ pulse.steps \in Int /\ seg \in Int
    BY <1>0, <1>5 DEF QueueSegment, At, PlanInv, PipelineTypes
  <2>2. PipelineTypes'
    BY <1>0, <1>5, <2>1, AppendProperties DEF QueueSegment, At, PipelineTypes, mainVars, pulseVars
  <2>3. OnTheWay' = OnTheWay + seg
    BY <1>5, <2>1, TotalOfAppend DEF QueueSegment, pulseVars, OnTheWay
  <2>4. Apart' = Unit * ((done + (OnTheWay + seg)) - origin) - target
    BY <1>5, <2>3 DEF QueueSegment, Apart, pulseVars
  <2> DEFINE far == (done + OnTheWay) - origin
             err == Unit * seg - (target - pos)
  <2>5. Unit * (far + seg) = Unit * far + Unit * seg /\ far \in Int /\ Unit * far \in Int /\ Unit * seg \in Int
        /\ (done + (OnTheWay + seg)) - origin = far + seg /\ Unit \in Nat
    BY <1>0, <2>1
  <2>6. 2 * err <= Unit /\ -(2 * err) <= Unit /\ err \in Int
    BY <2>1, <2>5, RoundIsClose
  <2>7. Apart' = Apart + err /\ Apart = Unit * far - pos
    <3>1. Apart = Unit * far - pos
      BY DEF Apart
    <3> HIDE DEF far
    <3> QED
      BY <2>1, <2>4, <2>5, <3>1
  <2>8. moves' = moves + 1 /\ planner' = "tick" /\ Unit * (moves + 1) = Unit * moves + Unit
        /\ Unit * moves \in Int
    BY <1>5, <2>1 DEF QueueSegment, At
  <2>9. 2 * Apart <= Unit * moves /\ -(2 * Apart) <= Unit * moves
    BY DEF PlanInv
  <2>10. 2 * Apart' <= Unit * moves' /\ -(2 * Apart') <= Unit * moves'
    <3> HIDE DEF err
    <3> QED
      BY <1>0, <2>5, <2>6, <2>7, <2>8, <2>9
  <2> QED
    BY <2>2, <2>8, <2>10 DEF PlanInv
<1>6. CASE DropSegment
  <2>1. PipelineTypes'
    BY <1>0, <1>6 DEF DropSegment, AfterTimeout, At, PipelineTypes, mainVars, pulseVars
  <2>2. Apart' = Apart /\ moves' = moves /\ planner' # "send"
    BY <1>6 DEF DropSegment, AfterTimeout, At, pulseVars, Apart, OnTheWay
  <2> QED
    BY <2>1, <2>2 DEF PlanInv
<1>7. ASSUME FindsNothing \/ ChecksState \/ ChecksCount \/ ReportsEmpty
      PROVE  PlanInv'
  <2>1. UNCHANGED quietly /\ planner' \in {"tick", "state?", "count?", "empty"}
    BY <1>7 DEF FindsNothing, ChecksState, ChecksCount, ReportsEmpty, At
  <2>2. PipelineTypes'
    BY <1>0, <2>1 DEF PipelineTypes, quietly, mainVars, pulseVars
  <2> QED
    BY <1>a, <2>1, <2>2, SumStays DEF quietly, pulseVars
<1>8. CASE PulseTakes
  <2>1. seg_q \in Seq(Int) /\ seg_q # <<>> /\ pulse = Idle /\ pulse' = [busy |-> TRUE, steps |-> Head(seg_q)]
        /\ seg_q' = Tail(seg_q) /\ Head(seg_q) \in Int /\ Tail(seg_q) \in Seq(Int)
    BY <1>0, <1>8, HeadTailProperties DEF PulseTakes, PipelineTypes
  <2>2. PipelineTypes'
    BY <1>0, <1>8, <2>1 DEF PulseTakes, PipelineTypes, mainVars, plannerVars
  <2>3. OnTheWay' = OnTheWay
    <3>1. pulse.steps = 0 /\ pulse'.steps = Head(seg_q) /\ 0 + Head(seg_q) = Head(seg_q)
      BY <2>1 DEF Idle
    <3>2. Total(Tail(seg_q), 0 + Head(seg_q)) = Total(seg_q, 0)
      BY <2>1, TotalOfTail
    <3> QED
      BY <2>1, <3>1, <3>2 DEF OnTheWay
  <2> QED
    BY <1>8, <2>2, <2>3, SumStays DEF PulseTakes, plannerVars
<1>9. CASE PulseMakes
  <2>1. done' = done + pulse.steps /\ pulse' = Idle /\ seg_q' = seg_q
    BY <1>9 DEF PulseMakes
  <2>2. PipelineTypes'
    BY <1>0, <1>9, <2>1 DEF PulseMakes, PipelineTypes, mainVars, plannerVars, Idle
  <2>3. done' + OnTheWay' = done + OnTheWay
    <3>1. OnTheWay = Total(seg_q, 0) + pulse.steps /\ Total(seg_q, 0) \in Int
      BY <1>0, OnTheWayIsInt
    <3>2. OnTheWay' = Total(seg_q, 0)
      BY <2>1 DEF OnTheWay, Idle
    <3> QED
      BY <1>0, <2>1, <3>1, <3>2 DEF PipelineTypes
  <2> QED
    BY <1>9, <2>2, <2>3, SumStays DEF PulseMakes, plannerVars
<1>10. CASE UNCHANGED pipelineVars
  <2>1. PipelineTypes'
    BY <1>0, <1>10 DEF PipelineTypes, pipelineVars, mainVars, plannerVars, pulseVars
  <2> QED
    BY <1>10, <1>a, <2>1, SumStays DEF pipelineVars, plannerVars, pulseVars
<1> QED
  BY <1>1, <1>2, <1>3, <1>4, <1>5, <1>6, <1>7, <1>8, <1>9, <1>10
     DEF PipelineNext, MainStep, PlannerStep, PulseStep

\* The invariant says what the property says.
LEMMA PlanFollowed == PlanInv => PulsesFollowPlan
<1> SUFFICES ASSUME PlanInv
             PROVE  PulsesFollowPlan
  OBVIOUS
<1>1. Apart \in Int /\ 2 * Apart <= Unit * moves /\ -(2 * Apart) <= Unit * moves
  BY OnTheWayIsInt DEF PlanInv
<1>2. -2 * Apart <= Unit * moves
  <2> HIDE DEF Apart
  <2> DEFINE off == Apart
  <2>1. -2 * off = -(2 * off)
    BY <1>1
  <2> QED
    BY <1>1, <2>1
<1>3. Apart = Unit * ((done + OnTheWay) - origin) - pos
  BY DEF Apart
<1> HIDE DEF Apart
<1> QED
  BY <1>1, <1>2, <1>3 DEF PulsesFollowPlan

\* motion_planner_tick: for queues of any length, any targets and any fraction of
\* a step, the pulses end up where the planner believes to be, give or take half a
\* step for every segment since the last G28, whatever was lost on the way.
THEOREM PipelineFollowsPlan == PipelineSpec => []PulsesFollowPlan
<1>1. PipelineInit => PlanInv
  BY PlanStarts
<1>2. PlanInv /\ [PipelineNext]_pipelineVars => PlanInv'
  BY PlanKept
<1> QED
  BY <1>1, <1>2, PlanFollowed, PTL DEF PipelineSpec

-----------------------------------------------------------------------------
(* The motion pipeline: the application state machine *)

\* What a dispatch stores, once it has looked the command up.
LEMMA LookedUp ==
  ASSUME NEW c
  PROVE  \/ Sm!Lookup(c) = Sm!INVALID /\ \A row \in Sm!Table : ~ (row[1] = state /\ row[2] = c)
         \/ \E row \in Sm!Table : row[1] = state /\ row[2] = c /\ Sm!Lookup(c) = row[3]
<1> DEFINE Fits(row) == row[1] = state /\ row[2] = c
<1>1. CASE \E row \in Sm!Table : Fits(row)
  <2> DEFINE found == CHOOSE row \in Sm!Table : Fits(row)
  <2>1. found \in Sm!Table /\ Fits(found)
    <3> HIDE DEF Fits
    <3> QED
      BY <1>1
  <2>2. Sm!Lookup(c) = found[3]
    BY <1>1 DEF Sm!Lookup
  <2> QED
    BY <2>1, <2>2
<1>2. CASE ~ \E row \in Sm!Table : Fits(row)
  BY <1>2 DEF Sm!Lookup
<1> QED
  BY <1>1, <1>2

\* The rows of the table, those of states the argument does not reach summed up.
LEMMA RowsOf ==
  ASSUME NEW row \in Sm!Table, row[2] # "FAULT"
  PROVE  \/ row = <<"BOOT", "INIT_DONE", "IDLE">>
         \/ row = <<"IDLE", "HOME", "HOMING">>
         \/ row = <<"HOMING", "HOMING_DONE", "READY">> \/ row = <<"HOMING", "STOP", "IDLE">>
         \/ row = <<"READY", "HOME", "HOMING">> \/ row = <<"READY", "RUN", "RUNNING">>
         \/ row = <<"READY", "STOP", "IDLE">>
         \/ row[1] \in {"RUNNING", "PAUSED", "ERROR"} /\ (row[2] = "QUEUE_EMPTY" => row = <<"RUNNING", "QUEUE_EMPTY", "READY">>)
  BY DEF Sm!Table

\* The rows of the host's start.
LEMMA FixedRows ==
  /\ <<"BOOT", "INIT_DONE", "IDLE">> \in Sm!Table
  /\ <<"IDLE", "HOME", "HOMING">> \in Sm!Table
  /\ <<"HOMING", "HOMING_DONE", "READY">> \in Sm!Table
  /\ <<"READY", "RUN", "RUNNING">> \in Sm!Table
  BY DEF Sm!Table

\* What the commands of the start, of the shell and of the planner look up.
LEMMA Lookups ==
  /\ state = "BOOT" => Sm!Lookup("INIT_DONE") = "IDLE"
  /\ state = "IDLE" => Sm!Lookup("HOME") = "HOMING"
  /\ state = "HOMING" => Sm!Lookup("HOMING_DONE") = "READY"
  /\ state = "READY" => Sm!Lookup("RUN") = "RUNNING"
  /\ state \in {"RUNNING", "READY"} => Sm!Lookup("QUEUE_EMPTY") \in {"READY", Sm!INVALID}
  /\ state \in {"BOOT", "IDLE", "HOMING"} =>
       \A c \in {"INIT_DONE", "HOME", "RUN", "STOP"} : Sm!Lookup(c) \in {"IDLE", "HOMING", Sm!INVALID}
<1>1. ASSUME NEW s, NEW c, NEW to, <<s, c, to>> \in Sm!Table, state = s, c # "FAULT",
             \A row \in Sm!Table : row[1] = s /\ row[2] = c => row[3] = to
      PROVE  Sm!Lookup(c) = to
  <2>1. <<s, c, to>>[1] = state /\ <<s, c, to>>[2] = c
    BY <1>1
  <2> QED
    BY <1>1, <2>1, LookedUp
<1>2. ASSUME state = "BOOT"
      PROVE  Sm!Lookup("INIT_DONE") = "IDLE"
  <2>1. \A row \in Sm!Table : row[1] = "BOOT" /\ row[2] = "INIT_DONE" => row[3] = "IDLE"
    BY RowsOf
  <2> QED
    BY <1>1, <1>2, <2>1, FixedRows
<1>3. ASSUME state = "IDLE"
      PROVE  Sm!Lookup("HOME") = "HOMING"
  <2>1. \A row \in Sm!Table : row[1] = "IDLE" /\ row[2] = "HOME" => row[3] = "HOMING"
    BY RowsOf
  <2> QED
    BY <1>1, <1>3, <2>1, FixedRows
<1>4. ASSUME state = "HOMING"
      PROVE  Sm!Lookup("HOMING_DONE") = "READY"
  <2>1. \A row \in Sm!Table : row[1] = "HOMING" /\ row[2] = "HOMING_DONE" => row[3] = "READY"
    BY RowsOf
  <2> QED
    BY <1>1, <1>4, <2>1, FixedRows
<1>5. ASSUME state = "READY"
      PROVE  Sm!Lookup("RUN") = "RUNNING"
  <2>1. \A row \in Sm!Table : row[1] = "READY" /\ row[2] = "RUN" => row[3] = "RUNNING"
    BY RowsOf
  <2> QED
    BY <1>1, <1>5, <2>1, FixedRows
<1>6. Sm!Lookup("QUEUE_EMPTY") \in {"READY", Sm!INVALID}
  <2>1. \A row \in Sm!Table : row[2] = "QUEUE_EMPTY" => row[3] = "READY"
    BY RowsOf
  <2> QED
    BY <2>1, LookedUp
<1>7. ASSUME state \in {"BOOT", "IDLE", "HOMING"}, NEW c \in {"INIT_DONE", "HOME", "RUN", "STOP"}
      PROVE  Sm!Lookup(c) \in {"IDLE", "HOMING", Sm!INVALID}
  <2>1. \A row \in Sm!Table : row[1] \in {"BOOT", "IDLE", "HOMING"} /\ row[2] = c => row[3] \in {"IDLE", "HOMING"}
    BY <1>7, RowsOf
  <2> QED
    BY <1>7, <2>1, LookedUp
<1> QED
  BY <1>2, <1>3, <1>4, <1>5, <1>6, <1>7

\* Main is past the start of the host's machine.
Started == main \in {"read", "send", "exited"}

\* Where the host's main is tells the machine's state, until the planner
\* takes part, which looks only at a machine that runs.
MachineInv ==
  /\ board \in {"host", "zephyr"}
  /\ next \in [{"main", "planner"} -> Sm!States \cup {Sm!NONE, Sm!INVALID}]
  /\ board = "host" =>
       \/ main = "INIT_DONE" /\ state = "BOOT" /\ next["main"] \in {Sm!NONE, "IDLE"}
       \/ main = "HOME" /\ state = "IDLE" /\ next["main"] \in {Sm!NONE, "HOMING"}
       \/ main = "HOMING_DONE" /\ state = "HOMING" /\ next["main"] \in {Sm!NONE, "READY"}
       \/ main = "RUN" /\ state = "READY" /\ next["main"] \in {Sm!NONE, "RUNNING"}
       \/ Started /\ state \in {"READY", "RUNNING"} /\ next["main"] = Sm!NONE
  /\ board = "zephyr" =>
       /\ main \in {"INIT_DONE", "HOME", "RUN", "STOP", "read", "send"}
       /\ state \in {"BOOT", "IDLE", "HOMING"}
       /\ next["main"] \in {Sm!NONE, Sm!INVALID, "IDLE", "HOMING"}
  /\ planner \in {"count?", "empty"} => board = "host" /\ Started
  /\ planner = "empty" => seg_q = <<>>
  /\ next["planner"] # Sm!NONE => planner = "empty" /\ next["planner"] \in {"READY", Sm!INVALID}

\* The machine starts in BOOT with no thread at it.
LEMMA MachineStarts == PipelineInit => MachineInv
<1> SUFFICES ASSUME PipelineInit
             PROVE  MachineInv
  OBVIOUS
<1>1. board \in {"host", "zephyr"} /\ main = "INIT_DONE" /\ planner = "tick"
  BY DEF PipelineInit, Script
<1>2. state = "BOOT" /\ next = [t \in {"main", "planner"} |-> Sm!NONE]
  BY DEF PipelineInit, Sm!SmInit
<1>3. next["main"] = Sm!NONE /\ next["planner"] = Sm!NONE
      /\ next \in [{"main", "planner"} -> Sm!States \cup {Sm!NONE, Sm!INVALID}]
  BY <1>2
<1> QED
  BY <1>1, <1>2, <1>3 DEF MachineInv

\* The steps that leave the machine and main's place alone.
LEMMA MachineStays ==
  ASSUME MachineInv, UNCHANGED <<board, main, state, next>>,
         planner' = planner \/ (planner' \in {"tick", "plan", "send", "state?"} /\ next["planner"] = Sm!NONE),
         planner' = "empty" => seg_q' = <<>>
  PROVE  MachineInv'
  BY DEF MachineInv, Started

\* Every step keeps the places of main and planner in line with the machine.
LEMMA MachineKept ==
  ASSUME MachineInv, [PipelineNext]_pipelineVars
  PROVE  MachineInv'
<1>1. CASE MainDispatch
  <2>1. main \in DOMAIN Script[board] /\ board' = board /\ seg_q' = seg_q /\ planner' = planner
    BY <1>1 DEF MainDispatch, plannerVars
  <2>2. board \in {"host", "zephyr"} /\ next \in [{"main", "planner"} -> Sm!States \cup {Sm!NONE, Sm!INVALID}]
    BY DEF MachineInv
  <2>3. CASE board = "host"
    <3>1. Script[board] = [INIT_DONE |-> "HOME", HOME |-> "HOMING_DONE", HOMING_DONE |-> "RUN", RUN |-> "read"]
      BY <2>3 DEF Script
    <3>2. main \in {"INIT_DONE", "HOME", "HOMING_DONE", "RUN"}
      BY <2>1, <3>1
    <3>3. planner \notin {"count?", "empty"} /\ next["planner"] = Sm!NONE
      BY <3>2 DEF MachineInv, Started
    <3>4. CASE Sm!LooksUp("main", main) /\ UNCHANGED main
      <4>1. next["main"] = Sm!NONE /\ next' = [next EXCEPT !["main"] = Sm!Lookup(main)] /\ state' = state /\ main' = main
        BY <3>4 DEF Sm!LooksUp
      <4>2. next'["main"] = Sm!Lookup(main) /\ next'["planner"] = next["planner"]
        BY <2>2, <4>1
      <4>3. \/ main = "INIT_DONE" /\ state = "BOOT" /\ Sm!Lookup(main) = "IDLE"
            \/ main = "HOME" /\ state = "IDLE" /\ Sm!Lookup(main) = "HOMING"
            \/ main = "HOMING_DONE" /\ state = "HOMING" /\ Sm!Lookup(main) = "READY"
            \/ main = "RUN" /\ state = "READY" /\ Sm!Lookup(main) = "RUNNING"
        <5>1. \/ main = "INIT_DONE" /\ state = "BOOT"
              \/ main = "HOME" /\ state = "IDLE"
              \/ main = "HOMING_DONE" /\ state = "HOMING"
              \/ main = "RUN" /\ state = "READY"
          BY <2>3, <3>2 DEF MachineInv, Started
        <5> QED
          BY <5>1, Lookups
      <4>4. next' \in [{"main", "planner"} -> Sm!States \cup {Sm!NONE, Sm!INVALID}]
        BY <2>2, <4>1, <4>3 DEF Sm!States
      <4> QED
        BY <2>1, <2>3, <3>3, <4>1, <4>2, <4>3, <4>4 DEF MachineInv, Started
    <3>5. CASE Sm!Ends("main") /\ main' = Script[board][main]
      <4>1. next["main"] # Sm!NONE /\ next' = [next EXCEPT !["main"] = Sm!NONE]
            /\ state' = IF next["main"] = Sm!INVALID THEN state ELSE next["main"]
        BY <3>5 DEF Sm!Ends
      <4>2. next'["main"] = Sm!NONE /\ next'["planner"] = next["planner"]
            /\ next' \in [{"main", "planner"} -> Sm!States \cup {Sm!NONE, Sm!INVALID}]
        BY <2>2, <4>1
      <4>3. \/ main = "INIT_DONE" /\ next["main"] = "IDLE"
            \/ main = "HOME" /\ next["main"] = "HOMING"
            \/ main = "HOMING_DONE" /\ next["main"] = "READY"
            \/ main = "RUN" /\ next["main"] = "RUNNING"
        BY <2>3, <3>2, <4>1 DEF MachineInv, Started
      <4>4. \/ main' = "HOME" /\ state' = "IDLE"
            \/ main' = "HOMING_DONE" /\ state' = "HOMING"
            \/ main' = "RUN" /\ state' = "READY"
            \/ main' = "read" /\ state' = "RUNNING"
        BY <3>1, <3>5, <4>1, <4>3 DEF Sm!INVALID
      <4> QED
        BY <2>1, <2>3, <3>3, <4>2, <4>4 DEF MachineInv, Started
    <3> QED
      BY <1>1, <3>4, <3>5 DEF MainDispatch
  <2>4. CASE board = "zephyr"
    <3>1. Script[board] = [INIT_DONE |-> "read", HOME |-> "read", RUN |-> "read", STOP |-> "read"]
      BY <2>4 DEF Script
    <3>2. main \in {"INIT_DONE", "HOME", "RUN", "STOP"}
      BY <2>1, <3>1
    <3>3. planner \notin {"count?", "empty"} /\ next["planner"] = Sm!NONE
      BY <2>4 DEF MachineInv
    <3>4. state \in {"BOOT", "IDLE", "HOMING"} /\ next["main"] \in {Sm!NONE, Sm!INVALID, "IDLE", "HOMING"}
      BY <2>4 DEF MachineInv
    <3>5. CASE Sm!LooksUp("main", main) /\ UNCHANGED main
      <4>1. next' = [next EXCEPT !["main"] = Sm!Lookup(main)] /\ state' = state /\ main' = main
        BY <3>5 DEF Sm!LooksUp
      <4>2. Sm!Lookup(main) \in {"IDLE", "HOMING", Sm!INVALID}
        BY <3>2, <3>4, Lookups
      <4>3. next'["main"] = Sm!Lookup(main) /\ next'["planner"] = next["planner"]
            /\ next' \in [{"main", "planner"} -> Sm!States \cup {Sm!NONE, Sm!INVALID}]
        BY <2>2, <4>1, <4>2 DEF Sm!States
      <4> QED
        BY <2>1, <2>4, <3>2, <3>3, <3>4, <4>1, <4>2, <4>3 DEF MachineInv
    <3>6. CASE Sm!Ends("main") /\ main' = Script[board][main]
      <4>1. next["main"] # Sm!NONE /\ next' = [next EXCEPT !["main"] = Sm!NONE]
            /\ state' = IF next["main"] = Sm!INVALID THEN state ELSE next["main"]
        BY <3>6 DEF Sm!Ends
      <4>2. next'["main"] = Sm!NONE /\ next'["planner"] = next["planner"]
            /\ next' \in [{"main", "planner"} -> Sm!States \cup {Sm!NONE, Sm!INVALID}]
        BY <2>2, <4>1
      <4>3. state' \in {"BOOT", "IDLE", "HOMING"} /\ main' = "read"
        BY <3>1, <3>2, <3>4, <3>6, <4>1
      <4> QED
        BY <2>1, <2>4, <3>3, <4>2, <4>3 DEF MachineInv
    <3> QED
      BY <1>1, <3>5, <3>6 DEF MainDispatch
  <2> QED
    BY <2>2, <2>3, <2>4
<1>2. ASSUME ReadLine \/ ShellCommand \/ SendLine \/ Exit
      PROVE  MachineInv'
  <2>1. UNCHANGED <<board, planner, seg_q, state, next>>
    BY <1>2 DEF ReadLine, ShellCommand, SendLine, Exit, plannerVars, smVars
  <2>2. Started /\ ((board = "host" /\ Started')
                   \/ (board = "zephyr" /\ main' \in {"HOME", "RUN", "STOP", "read", "send"}))
    BY <1>2 DEF ReadLine, ShellCommand, SendLine, Exit, Started, MachineInv
  <2>3. main \in {"read", "send", "exited"}
    BY <2>2 DEF Started
  <2> QED
    BY <2>1, <2>2, <2>3 DEF MachineInv, Started
<1>3. ASSUME TakesOther \/ TakesMove \/ Plan \/ QueueSegment \/ DropSegment \/ FindsNothing
      PROVE  MachineInv'
  <2>1. UNCHANGED <<board, main, state, next>> /\ planner' \in {"tick", "plan", "send", "state?"}
        /\ planner \in {"tick", "plan", "send"}
    BY <1>3 DEF TakesOther, TakesMove, Plan, QueueSegment, DropSegment, AfterTimeout, FindsNothing, At, mainVars, smVars, quietly
  <2>2. next["planner"] = Sm!NONE
    BY <2>1 DEF MachineInv
  <2> QED
    BY <2>1, <2>2, MachineStays
<1>4. CASE ChecksState
  <2>1. UNCHANGED <<board, main, state, next>> /\ planner = "state?"
    BY <1>4 DEF ChecksState, At, mainVars, smVars, quietly
  <2>2. next["planner"] = Sm!NONE
    BY <2>1 DEF MachineInv
  <2>3. planner' = "tick" \/ (planner' = "count?" /\ state = "RUNNING")
    BY <1>4 DEF ChecksState, At
  <2>4. state = "RUNNING" => board = "host" /\ Started
    BY DEF MachineInv
  <2> QED
    BY <2>1, <2>2, <2>3, <2>4 DEF MachineInv, Started
<1>5. CASE ChecksCount
  <2>1. UNCHANGED <<board, main, state, next, seg_q>> /\ planner = "count?"
    BY <1>5 DEF ChecksCount, At, mainVars, smVars, quietly
  <2>2. next["planner"] = Sm!NONE /\ board = "host" /\ Started
    BY <2>1 DEF MachineInv
  <2>3. planner' = "tick" \/ (planner' = "empty" /\ seg_q = <<>>)
    BY <1>5 DEF ChecksCount, At
  <2> QED
    BY <2>1, <2>2, <2>3 DEF MachineInv, Started
<1>6. CASE ReportsEmpty
  <2>1. UNCHANGED <<board, main, seg_q>> /\ planner = "empty" /\ planner' \in {"empty", "tick"}
    BY <1>6 DEF ReportsEmpty, At, mainVars, quietly
  <2>2. board = "host" /\ Started /\ seg_q = <<>> /\ next["main"] = Sm!NONE /\ state \in {"READY", "RUNNING"}
        /\ next \in [{"main", "planner"} -> Sm!States \cup {Sm!NONE, Sm!INVALID}]
    BY <2>1 DEF MachineInv, Started
  <2>3. CASE Sm!LooksUp("planner", "QUEUE_EMPTY") /\ At("empty", "empty")
    <3>1. next' = [next EXCEPT !["planner"] = Sm!Lookup("QUEUE_EMPTY")] /\ state' = state /\ planner' = "empty"
      BY <2>3 DEF Sm!LooksUp, At
    <3>2. Sm!Lookup("QUEUE_EMPTY") \in {"READY", Sm!INVALID}
      BY <2>2, Lookups
    <3>3. next'["main"] = Sm!NONE /\ next'["planner"] = Sm!Lookup("QUEUE_EMPTY")
          /\ next' \in [{"main", "planner"} -> Sm!States \cup {Sm!NONE, Sm!INVALID}]
      BY <2>2, <3>1, <3>2 DEF Sm!States
    <3> QED
      BY <2>1, <2>2, <3>1, <3>2, <3>3 DEF MachineInv, Started
  <2>4. CASE Sm!Ends("planner") /\ At("empty", "tick")
    <3>1. next["planner"] # Sm!NONE /\ next' = [next EXCEPT !["planner"] = Sm!NONE] /\ planner' = "tick"
          /\ state' = IF next["planner"] = Sm!INVALID THEN state ELSE next["planner"]
      BY <2>4 DEF Sm!Ends, At
    <3>2. next'["main"] = Sm!NONE /\ next'["planner"] = Sm!NONE
          /\ next' \in [{"main", "planner"} -> Sm!States \cup {Sm!NONE, Sm!INVALID}]
      BY <2>2, <3>1
    <3>3. next["planner"] \in {"READY", Sm!INVALID}
      BY <3>1 DEF MachineInv
    <3>4. state' \in {"READY", "RUNNING"}
      BY <2>2, <3>1, <3>3
    <3> QED
      BY <2>1, <2>2, <3>1, <3>2, <3>4 DEF MachineInv, Started
  <2> QED
    BY <1>6, <2>3, <2>4 DEF ReportsEmpty
<1>7. ASSUME PulseStep \/ UNCHANGED pipelineVars
      PROVE  MachineInv'
  <2>1. UNCHANGED <<board, main, state, next, planner>> /\ (seg_q' = seg_q \/ seg_q # <<>>)
    BY <1>7 DEF PulseStep, PulseTakes, PulseMakes, pipelineVars, mainVars, plannerVars, smVars
  <2>2. planner' = "empty" => seg_q' = <<>>
    BY <2>1 DEF MachineInv
  <2> QED
    BY <2>1, <2>2, MachineStays
<1> QED
  BY <1>1, <1>2, <1>3, <1>4, <1>5, <1>6, <1>7 DEF PipelineNext, MainStep, PlannerStep

\* Only the planner stores READY over RUNNING, having found no segment; none can
\* come in between, for the planner queues them itself.
LEMMA MachineDrained ==
  ASSUME MachineInv, [PipelineNext]_pipelineVars
  PROVE  state = "RUNNING" /\ state' = "READY" => seg_q = <<>>
<1> SUFFICES ASSUME state = "RUNNING", state' = "READY"
             PROVE  seg_q = <<>>
  OBVIOUS
<1>1. Started /\ next["main"] = Sm!NONE
  BY DEF MachineInv
<1>2. CASE MainDispatch
  <2>1. CASE board = "host"
    <3>1. main \in DOMAIN [INIT_DONE |-> "HOME", HOME |-> "HOMING_DONE", HOMING_DONE |-> "RUN", RUN |-> "read"]
      BY <1>2, <2>1 DEF MainDispatch, Script
    <3> QED
      BY <1>1, <3>1 DEF Started
  <2> QED
    BY <2>1 DEF MachineInv
<1>3. CASE ReportsEmpty
  BY <1>3 DEF ReportsEmpty, At, MachineInv
<1>4. ASSUME ~MainDispatch, ~ReportsEmpty
      PROVE  state' = state
  BY <1>4 DEF PipelineNext, MainStep, PlannerStep, PulseStep, ReadLine, ShellCommand, SendLine, Exit,
     TakesOther, TakesMove, Plan, QueueSegment, DropSegment, FindsNothing, ChecksState, ChecksCount,
     PulseTakes, PulseMakes, quietly, smVars, pipelineVars
<1> QED
  BY <1>2, <1>3, <1>4

\* planner_entry and app_sm_dispatch: for queues of any length, the machine leaves
\* RUNNING for READY only with every segment taken, although no lock spans the
\* looks at the commands, the state and the segments.
THEOREM RunningEndsDrained == PipelineSpec => ReadyOnlyWhenDrained
<1>1. PipelineInit => MachineInv
  BY MachineStarts
<1>2. MachineInv /\ [PipelineNext]_pipelineVars => MachineInv'
  BY MachineKept
<1>3. MachineInv /\ [PipelineNext]_pipelineVars => (state = "RUNNING" /\ state' = "READY" => seg_q = <<>>)
  BY MachineDrained
<1> QED
  BY <1>1, <1>2, <1>3, PTL DEF PipelineSpec, ReadyOnlyWhenDrained
=============================================================================
