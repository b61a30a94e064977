------------------------------- MODULE RoGpio -------------------------------
(***************************************************************************)
(* src/adapter/zephyr/ro_gpio.c: the pool of pins and their callbacks.     *)
(* The port calls the callbacks of a chain linked through the slots.  A    *)
(* callback is known by the argument that belongs to it.                   *)
(***************************************************************************)
EXTENDS Integers, Sequences, SequencesExt

CONSTANTS NumPins,    \* RO_GPIO_POOL_SIZE
          Callbacks, Null

VARIABLES
  in_use, isr_cb, isr_user,  \* the slots
  chain,      \* the port's callbacks, by slot
  doing,      \* the thread's call: where, on which slot, with which callback
  attached,   \* history: the slots whose owner has a callback set
  last,       \* history: the callback and argument of the last call
  replaced,   \* history: a callback was set over another, or refused over it
  dangling    \* history: a slot was put with its callback in the chain

gpioVars == <<in_use, isr_cb, isr_user, chain, doing, attached, last, replaced, dangling>>

Pins == 1 .. NumPins
NotDoing == [at |-> "idle", slot |-> 0, cb |-> Null]
InChain(s) == s \in Range(chain)
Place(s) == CHOOSE i \in DOMAIN chain : chain[i] = s
Put(f, v) == [f EXCEPT ![doing.slot] = v]

\* sys_slist_find_and_remove
Unlinked(s) == IF InChain(s) THEN RemoveAt(chain, Place(s)) ELSE chain

Init == /\ in_use = [s \in Pins |-> FALSE] /\ isr_cb = [s \in Pins |-> Null]
        /\ isr_user = [s \in Pins |-> Null]
        /\ chain = <<>> /\ doing = NotDoing /\ attached = {}
        /\ last = <<Null, Null>> /\ replaced = FALSE /\ dangling = FALSE

\* The first free slot; without its device the slot is free again, and empty.
Get ==
  \E s \in Pins, found \in BOOLEAN :
     /\ doing.at = "idle"
     /\ ~in_use[s] /\ \A r \in 1 .. s - 1 : in_use[r]
     /\ in_use' = [in_use EXCEPT ![s] = found]
     /\ isr_cb' = [isr_cb EXCEPT ![s] = Null] /\ isr_user' = [isr_user EXCEPT ![s] = Null]
     /\ UNCHANGED <<chain, doing, attached, last, replaced, dangling>>

\* Clearing a slot clears the link of its callback: the chain ends there.
PutBack(s) ==
  /\ doing.at = "idle" /\ in_use[s]
  /\ in_use' = [in_use EXCEPT ![s] = FALSE]
  /\ isr_cb' = [isr_cb EXCEPT ![s] = Null] /\ isr_user' = [isr_user EXCEPT ![s] = Null]
  /\ chain' = IF InChain(s) THEN SubSeq(chain, 1, Place(s)) ELSE chain
  /\ attached' = attached \ {s}
  /\ dangling' = (dangling \/ InChain(s))
  /\ UNCHANGED <<doing, last, replaced>>

\* ro_gpio_set_interrupt
SetCb(s, c) ==
  /\ doing.at = "idle" /\ in_use[s]
  /\ isr_cb' = [isr_cb EXCEPT ![s] = c]
  /\ doing' = [at |-> "set user", slot |-> s, cb |-> c]
  /\ replaced' = (replaced \/ InChain(s))
  /\ UNCHANGED <<in_use, isr_user, chain, attached, last, dangling>>

SetUser ==
  /\ doing.at = "set user"
  /\ isr_user' = Put(isr_user, doing.cb)
  /\ doing' = [doing EXCEPT !.at = "attach"]
  /\ UNCHANGED <<in_use, isr_cb, chain, attached, last, replaced, dangling>>

\* An unknown mode is refused only now.
Refuse ==
  /\ doing.at = "attach"
  /\ doing' = NotDoing
  /\ UNCHANGED <<in_use, isr_cb, isr_user, chain, attached, last, replaced, dangling>>

\* gpio_add_callback removes the callback first if it is there.
Attach ==
  /\ doing.at = "attach"
  /\ chain' = <<doing.slot>> \o Unlinked(doing.slot)
  /\ attached' = attached \cup {doing.slot}
  /\ doing' = NotDoing
  /\ UNCHANGED <<in_use, isr_cb, isr_user, last, replaced, dangling>>

\* Slip: ro_gpio_clear_interrupt leaves the callback in the chain.
DetachNothing(s) ==
  /\ doing.at = "idle" /\ in_use[s]
  /\ attached' = attached \ {s}
  /\ doing' = [at |-> "clear cb", slot |-> s, cb |-> Null]
  /\ UNCHANGED <<in_use, isr_cb, isr_user, chain, last, replaced, dangling>>

\* ro_gpio_clear_interrupt
Detach(s) ==
  /\ doing.at = "idle" /\ in_use[s]
  /\ chain' = Unlinked(s)
  /\ attached' = attached \ {s}
  /\ doing' = [at |-> "clear cb", slot |-> s, cb |-> Null]
  /\ UNCHANGED <<in_use, isr_cb, isr_user, last, replaced, dangling>>

ClearCb ==
  /\ doing.at = "clear cb"
  /\ isr_cb' = Put(isr_cb, Null)
  /\ doing' = [doing EXCEPT !.at = "clear user"]
  /\ UNCHANGED <<in_use, isr_user, chain, attached, last, replaced, dangling>>

ClearUser ==
  /\ doing.at = "clear user"
  /\ isr_user' = Put(isr_user, Null)
  /\ doing' = NotDoing
  /\ UNCHANGED <<in_use, isr_cb, chain, attached, last, replaced, dangling>>

\* The port's interrupt calls the trampoline of every callback in its chain.
Trampoline(s) ==
  /\ InChain(s) /\ isr_cb[s] # Null
  /\ last' = <<isr_cb[s], isr_user[s]>>
  /\ UNCHANGED <<in_use, isr_cb, isr_user, chain, doing, attached, replaced, dangling>>

Next == \/ Get \/ SetUser \/ Refuse \/ Attach \/ ClearCb \/ ClearUser
        \/ \E s \in Pins : PutBack(s) \/ Detach(s) \/ Trampoline(s)
        \/ \E s \in Pins, c \in Callbacks : SetCb(s, c)

-----------------------------------------------------------------------------
\* A callback is called with its own argument, unless it was set over another;
\* and the pins with a callback are exactly those the port calls, unless one
\* was put back without clearing its interrupt, which silences others.
CallbacksReached ==
  /\ last[1] = last[2] \/ replaced
  /\ Range(chain) = attached \/ dangling
=============================================================================
