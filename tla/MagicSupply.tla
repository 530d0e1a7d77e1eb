---------------------------- MODULE MagicSupply ----------------------------
(***************************************************************************)
(* What the engine promises about magic states, without factories, events, *)
(* cycles or circuits: a bounded stock, and gates that are granted one     *)
(* state each strictly in the order in which they asked.  A gate is made   *)
(* to wait only if there is no stock, and nobody overtakes it.             *)
(***************************************************************************)
EXTENDS Integers, Sequences

CONSTANTS
  Gates,     \* those that may ask for a state
  Limit,     \* the most the stock may hold
  Start      \* the stock at the beginning

VARIABLES stock, waiting, granted
supplyVars == <<stock, waiting, granted>>

SupplyInit ==
  /\ stock = Start
  /\ waiting = <<>>
  /\ granted = <<>>

(* One more state, if there is room for it. *)
Replenish ==
  /\ stock < Limit
  /\ stock' = stock + 1
  /\ UNCHANGED <<waiting, granted>>

(* A gate asks and has to wait. *)
Ask(g) ==
  /\ stock = 0
  /\ waiting' = Append(waiting, g)
  /\ UNCHANGED <<stock, granted>>

(* The gate that has waited longest is granted a state. *)
Grant ==
  /\ waiting # <<>>
  /\ stock > 0
  /\ stock' = stock - 1
  /\ granted' = Append(granted, Head(waiting))
  /\ waiting' = Tail(waiting)

(* A gate asks and is granted a state at once: nobody is waiting. *)
AskAndGrant(g) ==
  /\ waiting = <<>>
  /\ stock > 0
  /\ stock' = stock - 1
  /\ granted' = Append(granted, g)
  /\ UNCHANGED waiting

SupplyNext ==
  \/ Replenish
  \/ Grant
  \/ \E g \in Gates : Ask(g) \/ AskAndGrant(g)

SupplySpec == SupplyInit /\ [][SupplyNext]_supplyVars
=============================================================================
