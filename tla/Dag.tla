-------------------------------- MODULE Dag --------------------------------
(***************************************************************************)
(* The circuit dependency graph of the engine (pirx-core, dag/): adjacency *)
(* lists built from the circuit, and the three mutation primitives the     *)
(* simulation loop calls.  Everything here is an operator on values, so    *)
(* that the engine's actions stay short; the arena key of an operation is  *)
(* a positive number, in insertion order.                                  *)
(*                                                                         *)
(* Adjacency lists are sequences, not sets: a dependency listed twice is   *)
(* stored twice and counted twice.  A loop that walks a list and pushes    *)
(* some of its elements onto the ready queue is described by the set of    *)
(* POSITIONS it pushes; Pushed lays them out in list order.                *)
(***************************************************************************)
EXTENDS Integers, Sequences, FiniteSets, SequencesExt

(* The number of times x occurs in the sequence s. *)
Occurrences(s, x) == Cardinality({i \in DOMAIN s : s[i] = x})

(* The increasing enumeration of a finite set of positions (one function). *)
InOrder(I) ==
  {f \in [1 .. Cardinality(I) -> I] :
     \A a, b \in 1 .. Cardinality(I) : a < b => f[a] < f[b]}

(* The queue q after pushing the elements of s at the positions in I. *)
Pushed(q, s, I) ==
  {q \o [k \in 1 .. Cardinality(I) |-> s[f[k]]] : f \in InOrder(I)}

-----------------------------------------------------------------------------
(* Construction: one entry per dependency, in the circuit's order. *)

Successors(ops, deps) ==
  [k \in ops |-> LET out == SelectSeq(deps, LAMBDA d : d[1] = k)
                 IN  [i \in DOMAIN out |-> out[i][2]]]

Predecessors(ops, deps) ==
  [k \in ops |-> LET in == SelectSeq(deps, LAMBDA d : d[2] = k)
                 IN  [i \in DOMAIN in |-> in[i][1]]]

(* One count per dependency entry. *)
DistinctPredecessorCount(list) == Cardinality(ToSet(list))   \* fault: repeats collapse
PredecessorCount(list) == Len(list)

(* Roots: the active operations that wait for nobody. *)
InitialReadySet(pending, active) == {k \in active : pending[k] = 0}

-----------------------------------------------------------------------------
(* release_successors: every entry of the list takes one from its          *)
(* operation's count, which stops at zero.                                 *)

ReleasedCounts(pending, list) ==
  [k \in DOMAIN pending |->
     IF pending[k] > Occurrences(list, k)
       THEN pending[k] - Occurrences(list, k) ELSE 0]

(* Fault: pushes whenever the count is zero, not when it becomes zero. *)
ReleasedAtZero(pending, active, list) ==
  {i \in DOMAIN list :
     list[i] \in active /\ Occurrences(list, list[i]) >= pending[list[i]]}

(* The entries that take a count from one to zero, on active operations. *)
ReleasedAt(pending, active, list) ==
  {i \in DOMAIN list :
     /\ list[i] \in active
     /\ Occurrences(SubSeq(list, 1, i), list[i]) = pending[list[i]]}

(* activate_ops: the count becomes the number of predecessor entries that  *)
(* have not completed.                                                     *)

LivePredecessors(list, completed) ==
  Cardinality({i \in DOMAIN list : list[i] \notin completed})

ActivatedCounts(pending, keys, preds, completed) ==
  [k \in DOMAIN pending |->
     IF k \in ToSet(keys) THEN LivePredecessors(preds[k], completed)
                          ELSE pending[k]]

(* Fault: activation pushes without looking at the predecessors. *)
ActivatedUnchecked(keys, preds, completed) == DOMAIN keys

ActivatedAt(keys, preds, completed) ==
  {i \in DOMAIN keys : LivePredecessors(preds[keys[i]], completed) = 0}

(* inject_fixup: the fixup takes over the gate's successor list and becomes *)
(* its only successor; predecessor lists are not touched.                   *)
WithFixup(succs, gate, fixup) ==
  [succs EXCEPT ![fixup] = succs[gate], ![gate] = <<fixup>>]
=============================================================================
