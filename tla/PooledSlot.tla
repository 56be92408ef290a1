---------------------------- MODULE PooledSlot ----------------------------
(***************************************************************************)
(* What the connection pool promises of a slot, whatever threads drive it: *)
(* a client gets a slot that nothing refers to; from then on a reference   *)
(* can only be made from a live one; once the slot drains it serves nobody *)
(* new and goes back to the pool when, and only when, the last reference   *)
(* is gone; and it does go back.                                           *)
(***************************************************************************)
EXTENDS Naturals

CONSTANT Slots

VARIABLES use,  \* what the slot is doing
          refs  \* references alive: armed ConnRefs and pending operations

vars == <<use, refs>>

TypeOK == /\ use \in [Slots -> {"free", "serving", "draining"}]
          /\ refs \in [Slots -> Nat]

Init == /\ use = [c \in Slots |-> "free"]
        /\ refs = [c \in Slots |-> 0]

\* The slot is handed to a client together with the first reference.
Claim(c) == /\ use[c] = "free" /\ refs[c] = 0
            /\ use' = [use EXCEPT ![c] = "serving"]
            /\ refs' = [refs EXCEPT ![c] = 1]

Take(c) == /\ refs[c] > 0
           /\ refs' = [refs EXCEPT ![c] = @ + 1]
           /\ UNCHANGED use

Drop(c) == /\ refs[c] > 0
           /\ refs' = [refs EXCEPT ![c] = @ - 1]
           /\ UNCHANGED use

Drain(c) == /\ use[c] = "serving"
            /\ use' = [use EXCEPT ![c] = "draining"]
            /\ UNCHANGED refs

Recycle(c) == /\ use[c] = "draining" /\ refs[c] = 0
              /\ use' = [use EXCEPT ![c] = "free"]
              /\ UNCHANGED refs

Next == \E c \in Slots : Claim(c) \/ Take(c) \/ Drop(c) \/ Drain(c) \/ Recycle(c)

\* A slot that drains is reusable again, sooner or later.
Converges == \A c \in Slots : use[c] = "draining" ~> use[c] = "free"

Spec == Init /\ [][Next]_vars /\ Converges
=============================================================================
