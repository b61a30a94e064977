------------------------------- MODULE RoPool -------------------------------
(***************************************************************************)
(* src/adapter/zephyr/ro_pool.c: fixed blocks handed out by a bitmap, with *)
(* three lock modes.  Threads preempt each other between any two accesses  *)
(* to the pool; the interrupt runs to its end once it has begun.  The      *)
(* bitmap is not volatile, so what a read-modify-write combines may have   *)
(* been read earlier in the same call or be read again.                    *)
(***************************************************************************)
EXTENDS Integers, FiniteSets

CONSTANTS Threads, Isr,   \* the contexts that may call
          NoOne, NoBlock,
          Modes,          \* the lock modes a pool may be created with
          NumBlocks,      \* cfg->num_blocks
          WordBits,       \* 32 in the code
          CounterWidth    \* the statistics wrap here (2^32)

ASSUME PoolAssumption ==
  /\ Isr \notin Threads /\ NoOne \notin Threads \cup {Isr}
  /\ Modes \subseteq {"NONE", "ATOMIC", "MUTEX"}
  /\ NumBlocks \in Nat \ {0} /\ WordBits \in Nat \ {0}
  /\ CounterWidth \in Nat /\ CounterWidth > NumBlocks
  /\ NoBlock \notin 0 .. NumBlocks - 1

VARIABLES
  mode, users,   \* lock_mode, and the contexts that use the pool
  free,          \* the blocks whose bit is set
  used, peak, failures,
  holder,        \* who has the mutex
  pc,            \* where each context is
  word, at,      \* locals: the bitmap word read, and its index
  block,         \* local: the block found, or to be freed
  tally,         \* local: the value of used to be written back
  given, high    \* history: how often each block is out; most ever out at once

locals  == <<pc, word, at, block, tally>>
stats   == <<used, peak, failures>>
history == <<given, high>>
vars == <<mode, users, free, stats, holder, locals, history>>

Contexts == Threads \cup {Isr}
Blocks   == 0 .. NumBlocks - 1
WordOf(b) == b \div WordBits
LastWord == WordOf(NumBlocks - 1)
Lowest(S) == CHOOSE b \in S : \A c \in S : b <= c

\* Who may use a pool of each mode, by the header.
UsersOf(m) == CASE m = "MUTEX"  -> {Threads}
                [] m = "NONE"   -> {{c} : c \in Contexts}
                [] m = "ATOMIC" -> {Contexts}

\* ro_pool_init: the bits past the last block are cleared.
Init ==
  /\ mode \in Modes /\ users \in UsersOf(mode)
  /\ free = Blocks
  /\ used = 0 /\ peak = 0 /\ failures = 0
  /\ holder = NoOne
  /\ pc = [c \in Contexts |-> "idle"]
  /\ word = [c \in Contexts |-> {}] /\ at = [c \in Contexts |-> 0]
  /\ block = [c \in Contexts |-> NoBlock] /\ tally = [c \in Contexts |-> 0]
  /\ given = [b \in Blocks |-> 0] /\ high = 0

\* c moves on; threads only while no interrupt is being served.
Goes(c, from, to) == /\ c \in users
                     /\ c # Isr => pc[Isr] = "idle"
                     /\ pc[c] = from
                     /\ pc' = [pc EXCEPT ![c] = to]

Bits(w) == {b \in free : WordOf(b) = w}
WriteWord(w, bits) == free' = {b \in free : WordOf(b) # w} \cup bits
Up(n)   == (n + 1) % CounterWidth
Down(n) == (n - 1) % CounterWidth

Call(c) ==
  /\ \/ Goes(c, "idle", "alloc") /\ UNCHANGED <<block, given>>
     \/ \E b \in Blocks : /\ given[b] > 0
                          /\ Goes(c, "idle", "free")
                          /\ given' = [given EXCEPT ![b] = @ - 1]
                          /\ block' = [block EXCEPT ![c] = b]
  /\ UNCHANGED <<mode, users, free, stats, holder, word, at, tally, high>>

\* Slip: the lock helper is empty, as in the host's pool.
LockNothing(c) ==
  /\ Goes(c, "alloc", "scan") \/ Goes(c, "free", "check")
  /\ at' = [at EXCEPT ![c] = IF pc[c] = "alloc" THEN 0 ELSE WordOf(block[c])]
  /\ UNCHANGED <<mode, users, free, stats, holder, word, block, tally, history>>

\* Only a mutex pool locks; the interrupt's entry points have no lock at all.
Lock(c) ==
  /\ Goes(c, "alloc", "scan") \/ Goes(c, "free", "check")
  /\ IF mode = "MUTEX" THEN holder = NoOne /\ holder' = c ELSE UNCHANGED holder
  /\ at' = [at EXCEPT ![c] = IF pc[c] = "alloc" THEN 0 ELSE WordOf(block[c])]
  /\ UNCHANGED <<mode, users, free, stats, word, block, tally, history>>

-----------------------------------------------------------------------------
(* pool_alloc_internal *)

NextWord(c) ==
  /\ Goes(c, "scan", "scan")
  /\ Bits(at[c]) = {} /\ at[c] < LastWord
  /\ at' = [at EXCEPT ![c] = @ + 1]
  /\ UNCHANGED <<mode, users, free, stats, holder, word, block, tally, history>>

\* Slip: the scan ends at the first word without a free block.
ExhaustedEarly(c) ==
  /\ Goes(c, "scan", "unlock")
  /\ Bits(at[c]) = {}
  /\ failures' = Up(failures)
  /\ UNCHANGED <<mode, users, free, used, peak, holder, word, at, block, tally, history>>

Exhausted(c) ==
  /\ Goes(c, "scan", "unlock")
  /\ Bits(at[c]) = {} /\ at[c] = LastWord
  /\ failures' = Up(failures)
  /\ UNCHANGED <<mode, users, free, used, peak, holder, word, at, block, tally, history>>

Found(c) ==
  /\ Goes(c, "scan", "clear")
  /\ Bits(at[c]) # {}
  /\ word' = [word EXCEPT ![c] = Bits(at[c])]
  /\ block' = [block EXCEPT ![c] = Lowest(Bits(at[c]))]
  /\ UNCHANGED <<mode, users, free, stats, holder, at, tally, history>>

\* Reads the word for a read-modify-write once more; the build may do so.
Reload(c) ==
  /\ Goes(c, "clear", "clear") \/ Goes(c, "set", "set")
  /\ word' = [word EXCEPT ![c] = Bits(at[c])]
  /\ UNCHANGED <<mode, users, free, stats, holder, at, block, tally, history>>

Clear(c) ==
  /\ Goes(c, "clear", "count")
  /\ WriteWord(at[c], word[c] \ {block[c]})
  /\ high' = LET out == NumBlocks - Cardinality(free') IN IF out > high THEN out ELSE high
  /\ UNCHANGED <<mode, users, stats, holder, word, at, block, tally, given>>

ReadUsed(c) ==
  /\ \/ Goes(c, "count", "counted") /\ tally' = [tally EXCEPT ![c] = Up(used)]
     \/ Goes(c, "uncount", "uncounted") /\ tally' = [tally EXCEPT ![c] = Down(used)]
  /\ UNCHANGED <<mode, users, free, stats, holder, word, at, block, history>>

WriteUsed(c) ==
  /\ Goes(c, "counted", "peak") \/ Goes(c, "uncounted", "unlock")
  /\ used' = tally[c]
  /\ UNCHANGED <<mode, users, free, peak, failures, holder, word, at, block, tally, history>>

\* Slip: the peak counts the allocations and never looks at what is in use.
UpdatePeakAlways(c) ==
  /\ Goes(c, "peak", "unlock")
  /\ peak' = Up(peak)
  /\ UNCHANGED <<mode, users, free, used, failures, holder, word, at, block, tally, history>>

UpdatePeak(c) ==
  /\ Goes(c, "peak", "unlock")
  /\ peak' = IF tally[c] > peak THEN tally[c] ELSE peak
  /\ UNCHANGED <<mode, users, free, used, failures, holder, word, at, block, tally, history>>

-----------------------------------------------------------------------------
(* pool_free_internal *)

\* A block that is free already trips the double-free assertion: the context
\* goes no further.
Check(c) ==
  /\ Goes(c, "check", "set")
  /\ block[c] \notin free
  /\ word' = [word EXCEPT ![c] = Bits(at[c])]
  /\ UNCHANGED <<mode, users, free, stats, holder, at, block, tally, history>>

Set(c) ==
  /\ Goes(c, "set", "uncount")
  /\ WriteWord(at[c], word[c] \cup {block[c]})
  /\ block' = [block EXCEPT ![c] = NoBlock]
  /\ UNCHANGED <<mode, users, stats, holder, word, at, tally, history>>

\* The call returns, an allocation with its block or with NULL.
Return(c) ==
  /\ Goes(c, "unlock", "idle")
  /\ holder' = IF mode = "MUTEX" THEN NoOne ELSE holder
  /\ given' = IF block[c] = NoBlock THEN given ELSE [given EXCEPT ![block[c]] = @ + 1]
  /\ block' = [block EXCEPT ![c] = NoBlock]
  /\ word' = [word EXCEPT ![c] = {}] /\ at' = [at EXCEPT ![c] = 0]
  /\ tally' = [tally EXCEPT ![c] = 0]
  /\ UNCHANGED <<mode, users, free, stats, high>>

Step(c) == \/ Call(c) \/ Lock(c)
           \/ NextWord(c) \/ Exhausted(c) \/ Found(c) \/ Reload(c) \/ Clear(c)
           \/ ReadUsed(c) \/ WriteUsed(c) \/ UpdatePeak(c)
           \/ Check(c) \/ Set(c)
           \/ Return(c)

Next == \E c \in Contexts : Step(c)

Spec == Init /\ [][Next]_vars

-----------------------------------------------------------------------------
PcTypeOK == pc \in [Contexts -> {"idle", "alloc", "scan", "clear", "count", "counted", "peak",
                                 "free", "check", "set", "uncount", "uncounted", "unlock"}]

\* Every variable keeps its type.
TypeOK ==
  /\ mode \in Modes /\ users \in UsersOf(mode)
  /\ free \subseteq Blocks
  /\ used \in 0 .. CounterWidth - 1 /\ peak \in 0 .. CounterWidth - 1
  /\ failures \in 0 .. CounterWidth - 1
  /\ holder \in users \cup {NoOne}
  /\ PcTypeOK
  /\ word \in [Contexts -> SUBSET Blocks] /\ at \in [Contexts -> 0 .. LastWord]
  /\ block \in [Contexts -> Blocks \cup {NoBlock}]
  /\ tally \in [Contexts -> 0 .. CounterWidth - 1]
  /\ given \in [Blocks -> Nat] /\ high \in 0 .. NumBlocks

\* The calls that have b in their hands while its bit is clear.
Carrying(b) == {c \in Contexts : block[c] = b /\ pc[c] # "clear"}

\* Every block is in exactly one place: free in the bitmap, out with a caller,
\* or carried by one call; so no two callers get one block, none is lost, and
\* no legal free trips the double-free assertion.
BlocksConserved ==
  \A b \in Blocks :
    \/ b \in free    /\ given[b] = 0 /\ Carrying(b) = {}
    \/ b \notin free /\ given[b] = 1 /\ Carrying(b) = {}
    \/ b \notin free /\ given[b] = 0 /\ \E c \in Contexts : Carrying(b) = {c}

Counting(S) == Cardinality({c \in Contexts : pc[c] \in S})

\* The statistics are those of the bitmap, off by exactly the calls that have
\* changed a bit and not counted it yet; the peak is the most ever out at once.
StatsExact ==
  /\ used + Counting({"count", "counted"}) - Counting({"uncount", "uncounted"})
       = NumBlocks - Cardinality(free)
  /\ Counting({"count", "counted", "peak"}) = 0 => peak = high

\* NULL is returned, and a failure counted, only by a pool that has no block.
FailsOnlyWhenFull == failures' # failures => free = {}

\* What the pool says of itself is so: its statistics and its failures.
PoolTellsTruth == [][StatsExact' /\ FailsOnlyWhenFull]_vars

\* ro_pool.h:38: the atomic mode is safe between interrupt and threads, so a
\* block is never out twice.
ThreadAndIsrSafe == \A b \in Blocks : given[b] <= 1
=============================================================================
