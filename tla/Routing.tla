------------------------------ MODULE Routing ------------------------------
(***************************************************************************)
(* The cost of moving qubits together (routing.rs), in cycles.  Saturation *)
(* at u32::MAX is left out.                                                *)
(***************************************************************************)
EXTENDS Hardware

(* Where the qubits are: the last entry for a qubit wins, and a qubit      *)
(* without one is at the origin.                                           *)
PositionIndex(positions, qubits) ==
  [q \in 0 .. qubits - 1 |->
     LET i == SelectLastInSeq(positions, LAMBDA p : p.qubit = q)
     IN  IF i = 0 THEN <<0, 0>> ELSE <<positions[i].row, positions[i].col>>]

AbsDiff(x, y) == IF x > y THEN x - y ELSE y - x

ManhattanLatency(hw, index, a, b) ==
  IF {a, b} \subseteq DOMAIN index
    THEN hw.value["cycles_per_hop"] *
           (AbsDiff(index[a][1], index[b][1]) + AbsDiff(index[a][2], index[b][2]))
    ELSE 0

(* Only the first two qubits of a gate count. *)
Latency(hw, index, qubits) ==
  IF Len(qubits) < 2 THEN 0
  ELSE IF hw.routing = "scalar" THEN hw.value["overhead_cycles"]
  ELSE ManhattanLatency(hw, index, qubits[1], qubits[2])
=============================================================================
