------------------------------- MODULE Endstop -------------------------------
(***************************************************************************)
(* src/framework/endstop.c: the callback of an endstop handle, set and     *)
(* cleared by a thread while the pin's interrupt calls it.  A callback is  *)
(* known by the argument that belongs to it.                               *)
(***************************************************************************)
CONSTANTS Callbacks, Null

VARIABLES
  in_use, cb, cb_arg,
  isr,       \* the pin's interrupt is registered
  at,        \* how far set_callback, clear_callback or put is
  new,       \* the callback being set
  last,      \* history: the callback and argument of the last call
  replaced   \* history: a callback was set over another

endstopVars == <<in_use, cb, cb_arg, isr, at, new, last, replaced>>

Init == /\ in_use = FALSE /\ cb = Null /\ cb_arg = Null /\ isr = FALSE
        /\ at = "idle" /\ new = Null /\ last = <<Null, Null>> /\ replaced = FALSE

Get == /\ ~in_use /\ at = "idle"
       /\ in_use' = TRUE /\ cb' = Null /\ cb_arg' = Null
       /\ UNCHANGED <<isr, at, new, last, replaced>>

SetCallback(c) == /\ in_use /\ at = "idle"
                  /\ cb' = c /\ new' = c /\ at' = "set arg"
                  /\ replaced' = (replaced \/ isr)
                  /\ UNCHANGED <<in_use, cb_arg, isr, last>>

SetArg == /\ at = "set arg"
          /\ cb_arg' = new /\ at' = "set isr"
          /\ UNCHANGED <<in_use, cb, isr, new, last, replaced>>

SetIsr == /\ at = "set isr"
          /\ isr' = TRUE /\ at' = "idle"
          /\ UNCHANGED <<in_use, cb, cb_arg, new, last, replaced>>

\* Slip: the argument is cleared first.
ClearCallbackArgFirst ==
  /\ in_use /\ at = "idle"
  /\ cb_arg' = Null /\ \E a \in {"clear arg", "put"} : at' = a
  /\ UNCHANGED <<in_use, cb, isr, new, last, replaced>>

\* endstop_clear_callback, on its own or from endstop_put.
ClearCallback == /\ in_use /\ at = "idle"
                 /\ cb' = Null /\ \E a \in {"clear arg", "put"} : at' = a
                 /\ UNCHANGED <<in_use, cb_arg, isr, new, last, replaced>>

ClearRest == /\ at \in {"clear arg", "put"}
             /\ cb_arg' = Null /\ isr' = FALSE
             /\ in_use' = (at # "put") /\ at' = "idle"
             /\ UNCHANGED <<cb, new, last, replaced>>

Isr == /\ isr /\ cb # Null
       /\ last' = <<cb, cb_arg>>
       /\ UNCHANGED <<in_use, cb, cb_arg, isr, at, new, replaced>>

Next == \/ Get \/ SetArg \/ SetIsr \/ ClearCallback \/ ClearRest \/ Isr
        \/ \E c \in Callbacks : SetCallback(c)

-----------------------------------------------------------------------------
\* The interrupt calls a callback with its own argument, while it is being set
\* or cleared too, unless it was set over another one without clearing that.
CallbackKeepsArgument == last[1] = last[2] \/ replaced
=============================================================================
