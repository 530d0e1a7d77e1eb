------------------------------ MODULE LastUse ------------------------------
(***************************************************************************)
(* The builder the OpenQASM and TKET adapters share in all but name        *)
(* (CircuitBuilder::emit_operation in openqasm.rs and tket_json.rs, the    *)
(* loop of from_tket in tket.py): an operation depends on the last         *)
(* operation on each of its qubits.                                        *)
(*                                                                         *)
(* The next id is the number of operations emitted.  A qubit is tracked    *)
(* once it is declared; the code ignores the others when it looks for      *)
(* dependencies and depths.                                                *)
(***************************************************************************)
EXTENDS Circuit, Dag

CONSTANT NoOp     \* stands for None in last_on_qubit

ASSUME NoOpAssumption == NoOp \notin Nat

VARIABLES
  todo,     \* the statements or commands not walked yet
  ops,      \* operations emitted
  deps,     \* dependencies emitted
  last,     \* last_on_qubit: tracked qubit -> id of its last operation
  depth,    \* depth_at_qubit: tracked qubit -> operations on its longest chain
  untracked \* history: <<id, qubit>> where the qubit was not declared yet

builderVars == <<todo, ops, deps, last, depth, untracked>>

-----------------------------------------------------------------------------
(* The predecessor an operation finds on its i-th operand.  The slot is    *)
(* overwritten operand by operand, so a qubit named twice finds the        *)
(* operation itself.                                                       *)
PreviousOn(id, qubits, i) ==
  IF qubits[i] \notin DOMAIN last THEN NoOp
  ELSE IF \E j \in 1 .. i - 1 : qubits[j] = qubits[i] THEN id
  ELSE last[qubits[i]]

(* The list of dependencies after the loop over the operands.             *)
DepsAfter(id, qubits) ==
  LET found == [i \in DOMAIN qubits |-> [from |-> PreviousOn(id, qubits, i), to |-> id]]
  IN  Pushed(deps, found, {i \in DOMAIN qubits : found[i].from # NoOp})

(* Fault: the slot of the first operand only is overwritten. *)
LastAfterFirst(id, qubits) ==
  [q \in DOMAIN last |-> IF qubits # <<>> /\ q = Head(qubits) THEN id ELSE last[q]]
LastAfter(id, qubits) ==
  [q \in DOMAIN last |-> IF q \in ToSet(qubits) THEN id ELSE last[q]]

(* Fault: the depth of the first operand is taken for all. *)
OpDepthOfFirst(qubits) ==
  1 + IF qubits # <<>> /\ Head(qubits) \in DOMAIN depth THEN depth[Head(qubits)] ELSE 0
OpDepth(qubits) ==
  1 + Max({0} \cup {depth[q] : q \in ToSet(qubits) \cap DOMAIN depth})

EmitOperation(kind, qubits) ==
  /\ ops' = Append(ops, Emitted(Len(ops), kind, qubits))
  /\ deps' \in DepsAfter(Len(ops), qubits)
  /\ last' = LastAfter(Len(ops), qubits)
  /\ depth' = [q \in DOMAIN depth |->
                 IF q \in ToSet(qubits) THEN OpDepth(qubits) ELSE depth[q]]
  /\ untracked' = untracked \cup {<<Len(ops), q>> : q \in ToSet(qubits) \ DOMAIN last}

MaxDepth == Max({0} \cup {depth[q] : q \in DOMAIN depth})

(* The registers of a circuit whose n qubits are known from the start. *)
Tracked(n) ==
  /\ last = [q \in 0 .. n - 1 |-> NoOp]
  /\ depth = [q \in 0 .. n - 1 |-> 0]
=============================================================================
