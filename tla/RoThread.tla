------------------------------ MODULE RoThread ------------------------------
(***************************************************************************)
(* src/adapter/zephyr/ro_thread.c: the pool of thread slots, which has no  *)
(* lock.  Several threads create, each for an entry of its own; one        *)
(* destroys.                                                               *)
(***************************************************************************)
EXTENDS Integers

CONSTANTS NumSlots,  \* CONFIG_RO_MAX_THREADS
          Creators, Null

VARIABLES
  in_use, entry,   \* the slots; entry stands for its argument too
  making,          \* the creators' calls: where and in which slot
  freeing,         \* the slot being cleared, or NoSlot
  meant,           \* the entry the kernel thread of a slot was created for, or Null
  runs,            \* the entry it found, or NotYet
  holders,         \* the creators that hold a slot's handle
  overlapped       \* history: a creation overlapped another one or a clearing

threadVars == <<in_use, entry, making, freeing, meant, runs, holders, overlapped>>

Slots      == 1 .. NumSlots
NoSlot     == 0
NotYet     == "not yet"
NotMaking  == [at |-> "idle", slot |-> NoSlot]
Claiming   == {c \in Creators : making[c].at = "claim"}

Init == /\ in_use = [s \in Slots |-> FALSE] /\ entry = [s \in Slots |-> Null]
        /\ making = [c \in Creators |-> NotMaking] /\ freeing = NoSlot
        /\ meant = [s \in Slots |-> Null] /\ runs = [s \in Slots |-> NotYet]
        /\ holders = [s \in Slots |-> {}] /\ overlapped = FALSE

\* slot_alloc finds the first free slot ...
Scan(c) ==
  \E s \in Slots :
     /\ making[c].at = "idle"
     /\ ~in_use[s] /\ \A r \in 1 .. s - 1 : in_use[r]
     /\ making' = [making EXCEPT ![c] = [at |-> "claim", slot |-> s]]
     /\ overlapped' = (overlapped \/ Claiming # {} \/ freeing # NoSlot)
     /\ UNCHANGED <<in_use, entry, freeing, meant, runs, holders>>

\* Slip: the slot is taken only when the thread is started.
ClaimLate(c) ==
  /\ making[c].at = "claim"
  /\ making' = [making EXCEPT ![c].at = "store"]
  /\ UNCHANGED <<in_use, entry, freeing, meant, runs, holders, overlapped>>

\* ... then takes it.
Claim(c) ==
  /\ making[c].at = "claim"
  /\ in_use' = [in_use EXCEPT ![making[c].slot] = TRUE]
  /\ making' = [making EXCEPT ![c].at = "store"]
  /\ UNCHANGED <<entry, freeing, meant, runs, holders, overlapped>>

StoreEntry(c) ==
  /\ making[c].at = "store"
  /\ entry' = [entry EXCEPT ![making[c].slot] = c]
  /\ making' = [making EXCEPT ![c].at = "start"]
  /\ UNCHANGED <<in_use, freeing, meant, runs, holders, overlapped>>

\* k_thread_create; the handle is returned.
Start(c) ==
  /\ making[c].at = "start"
  /\ meant' = [meant EXCEPT ![making[c].slot] = c]
  /\ runs' = [runs EXCEPT ![making[c].slot] = NotYet]
  /\ holders' = [holders EXCEPT ![making[c].slot] = @ \cup {c}]
  /\ making' = [making EXCEPT ![c] = NotMaking]
  /\ UNCHANGED <<in_use, entry, freeing, overlapped>>

\* zephyr_thread_entry, whenever the scheduler gets to it.
ThreadEntry(s) ==
  /\ meant[s] # Null /\ runs[s] = NotYet
  /\ runs' = [runs EXCEPT ![s] = entry[s]]
  /\ UNCHANGED <<in_use, entry, making, freeing, meant, holders, overlapped>>

\* k_thread_abort; slot_free clears the slot from its first field on.
Destroy(s) ==
  /\ freeing = NoSlot
  /\ \E c \in holders[s] : holders' = [holders EXCEPT ![s] = @ \ {c}]
  /\ meant' = [meant EXCEPT ![s] = Null] /\ runs' = [runs EXCEPT ![s] = NotYet]
  /\ in_use' = [in_use EXCEPT ![s] = FALSE]
  /\ freeing' = s
  /\ UNCHANGED <<entry, making, overlapped>>

FreeRest ==
  /\ freeing # NoSlot
  /\ entry' = [entry EXCEPT ![freeing] = Null]
  /\ freeing' = NoSlot
  /\ UNCHANGED <<in_use, making, meant, runs, holders, overlapped>>

Next == \/ \E c \in Creators : Scan(c) \/ Claim(c) \/ StoreEntry(c) \/ Start(c)
        \/ \E s \in Slots : ThreadEntry(s) \/ Destroy(s)
        \/ FreeRest

-----------------------------------------------------------------------------
\* As long as no creation overlaps the search of another one or the clearing of
\* a slot, every slot has one owner and its thread runs the entry it was made
\* for; two creators past their searches do not disturb each other.
SlotsOwned ==
  ~overlapped => \A s \in Slots :
     /\ (\A c, d \in holders[s] : c = d) /\ (holders[s] # {} => in_use[s])
     /\ runs[s] # NotYet => runs[s] = meant[s]
=============================================================================
