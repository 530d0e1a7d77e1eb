------------------------------ MODULE Circuit ------------------------------
(***************************************************************************)
(* The circuit pirx profiles (pirx-ir, circuit.rs) and the variables       *)
(* through which a front end hands it to validate.  A front end is one of  *)
(* the adapters, or the JSON interchange file, which is read as it is.     *)
(*                                                                         *)
(* Operation ids and qubit ids are numbers, counted from 0 as in the code. *)
(* Angles are counted in eighths of pi, so that an even number is a        *)
(* multiple of pi/4; the grid coordinates of a qubit are left out, since   *)
(* nothing here reads them.                                                *)
(***************************************************************************)
EXTENDS Integers, Sequences, FiniteSets, SequencesExt

CONSTANTS
  Sources,      \* what a front end may be given
  NonFinite,    \* stands for an angle that is infinite or not a number
  NoParam,      \* a gate without a parameter
  Symbolic,     \* a parameter that has no value yet
  NoHook,       \* stands for hook: None
  NoPositions,  \* stands for qubit_positions: None
  NoCircuit     \* no circuit has been built yet

ASSUME AbsentAssumption == NoCircuit \notin [ops : Seq(Nat)]

VARIABLES
  source,   \* what the front end was given, constant
  circuit,  \* the circuit handed to validate
  verdict   \* "open", then "built", then the result of the front end

circuitVars == <<source, circuit, verdict>>

-----------------------------------------------------------------------------
(* classify_rz_angle: odd multiples of pi/4 need a T gate, even ones none. *)
ClassifyRzAngle(angle) ==
  IF angle = NonFinite           THEN "nonfinite"
  ELSE IF angle % 2 # 0          THEN "rotation"
  ELSE IF (angle \div 2) % 2 # 0 THEN "tgate"
  ELSE "clifford"

Rotations == {"rotation", "nonfinite"}

(* An operation as every adapter emits it: active, and without a hook. *)
Emitted(id, kind, qubits) ==
  [id |-> id, kind |-> kind, hook |-> NoHook, qubits |-> qubits, active |-> TRUE]

(* The counts of CircuitMetadata. *)
CountOf(ops, kinds) == Cardinality({i \in DOMAIN ops : ops[i].kind \in kinds})
Counts(ops) ==
  [tgate |-> CountOf(ops, {"tgate"}), clifford |-> CountOf(ops, {"clifford"}),
   rotation |-> CountOf(ops, Rotations)]

Ids(ops) == {ops[i].id : i \in DOMAIN ops}

(* An adapter's result: no positions and no hooks. *)
Built(ops, deps, qubits, counts, depth) ==
  /\ circuit' = [ops |-> ops, deps |-> deps, qubits |-> qubits,
                 positions |-> NoPositions, hooks |-> <<>>,
                 counts |-> counts, depth |-> depth]
  /\ verdict' = "built"

(* An error of the front end: there is no circuit. *)
Failed(error) == verdict' = error /\ circuit' = circuit

(* ProfilerCircuit.from_adapter_data of the Python bindings: the counts are *)
(* taken again from the operations, and an angle that is not finite cannot  *)
(* be passed through JSON.                                                  *)
FromAdapterData(ops, deps, qubits, depth) ==
  IF \E i \in DOMAIN ops : ops[i].kind = "nonfinite"
    THEN Failed("parse error")
    ELSE Built(ops, deps, qubits, Counts(ops), depth)

(* A circuit read from the interchange file. *)
ReadJson ==
  /\ verdict = "open"
  /\ source.frontend = "json"
  /\ circuit' = source.circuit
  /\ verdict' = "built"
  /\ UNCHANGED source

(* A circuit of the test kit, which a test hands to validate as it is. *)
UseFixture ==
  /\ verdict = "open"
  /\ source.frontend = "testkit"
  /\ circuit' = source.circuit
  /\ verdict' = "built"
  /\ UNCHANGED source
=============================================================================
