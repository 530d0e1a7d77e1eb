----------------------------- MODULE EventHeap -----------------------------
(***************************************************************************)
(* The event queue (events.rs): a binary heap ordered by cycle, then by a  *)
(* sequence number that never repeats.  A heap is the set of what it holds *)
(* and peek any least element of it.                                       *)
(*                                                                         *)
(* Only differences of cycles and of sequence numbers are ever compared,   *)
(* so both stay bounded here: a cycle counts from the event last popped,   *)
(* and the pending events are renumbered, in their order, at each pop.     *)
(***************************************************************************)
EXTENDS Integers, FiniteSets

VARIABLES
  heap,      \* [cycle, seq, event]
  nextSeq,
  current    \* the event being processed, or <<>>

heapVars == <<heap, nextSeq, current>>

HeapInit == heap = {} /\ nextSeq = 0 /\ current = <<>>

(* Fault: events of one cycle come in any order. *)
PrecedesByCycle(x, y) == x.cycle <= y.cycle
Precedes(x, y) == x.cycle < y.cycle \/ (x.cycle = y.cycle /\ x.seq <= y.seq)

Schedule(delay, event) ==
  /\ heap' = heap \cup {[cycle |-> delay, seq |-> nextSeq, event |-> event]}
  /\ nextSeq' = nextSeq + 1

Rebased(events, elapsed) ==
  {[cycle |-> x.cycle - elapsed,
    seq   |-> Cardinality({y \in events : y.seq < x.seq}),
    event |-> x.event] : x \in events}

Pop ==
  /\ current = <<>>
  /\ \E x \in heap :
       /\ \A y \in heap : Precedes(x, y)
       /\ heap' = Rebased(heap \ {x}, x.cycle)
       /\ nextSeq' = Cardinality(heap) - 1
       /\ current' = <<x.event>>
=============================================================================
