---------------------------- MODULE PriceLevels -----------------------------
(***************************************************************************)
(* What loading orders promises to those who use the orders, without table *)
(* entries, nodes or pointers.                                             *)
(*                                                                         *)
(* A price level is a queue of orders, which a fill goes through from the  *)
(* first one on.  An order that is loaded goes to the end of its level, be *)
(* it there already or not, and a reference, with which a cancellation     *)
(* would find it, moves to that place.  An order is never at two levels,   *)
(* and nothing else ever happens to a level or a reference.                *)
(***************************************************************************)
EXTENDS Integers, Sequences

CONSTANTS
  Orders,  \* the orders
  Levels   \* the price levels

VARIABLES
  levels,  \* the orders of each level
  refs     \* the place in its level of each order that was loaded

vars == <<levels, refs>>

Init ==
  /\ levels = [l \in Levels |-> <<>>]
  /\ refs = <<>>

AtOtherLevel(o, l) ==
  \E m \in Levels \ {l} : \E i \in DOMAIN levels[m] : levels[m][i] = o

Load(o, l) ==
  /\ ~AtOtherLevel(o, l)
  /\ levels' = [levels EXCEPT ![l] = Append(@, o)]
  /\ refs' = [q \in DOMAIN refs \cup {o} |-> IF q = o THEN Len(levels[l]) + 1 ELSE refs[q]]

Next == \E o \in Orders, l \in Levels : Load(o, l)

Spec == Init /\ [][Next]_vars

=============================================================================
