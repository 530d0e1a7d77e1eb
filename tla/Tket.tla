-------------------------------- MODULE Tket --------------------------------
(***************************************************************************)
(* The two TKET adapters: the Rust one reads a circuit serialised as JSON  *)
(* (pirx-adapters, tket_json.rs), the Python one a pytket circuit          *)
(* (tket.py).  Both walk the list of commands and differ in the commands   *)
(* they skip, reject and classify.                                         *)
(*                                                                         *)
(* The arguments of a command are its qubits; bits are left out, since the *)
(* adapters look only qubits up.                                           *)
(***************************************************************************)
EXTENDS LastUse

InJson == source.frontend = "tket_json"

AtCommand ==
  /\ verdict = "open"
  /\ source.frontend \in {"tket_json", "tket_py"}
  /\ todo # <<>>

-----------------------------------------------------------------------------
(* Classification.  "phase" is the global phase, which has no qubits; "u1" *)
(* is a rotation for the Rust adapter only.                                *)
SkippedTypes == IF InJson THEN {"barrier", "noop", "structural"}
                          ELSE {"barrier", "noop", "phase"}

UnsupportedTypes == IF InJson THEN {"box", "conditional", "classical"} ELSE {}

RotationTypes == IF InJson THEN {"rz", "u1", "phase"} ELSE {"rz"}

MeasureTypes == IF InJson THEN {"measure", "reset", "collapse"}
                          ELSE {"measure", "reset"}

(* The Rust adapter skips what acts on no qubit before it classifies it. *)
Skipped(cmd) ==
  \/ cmd.type \in SkippedTypes
  \/ InJson /\ cmd.type \notin UnsupportedTypes /\ cmd.args = <<>>

(* A rotation whose parameter is missing is an error in Rust and Clifford  *)
(* in Python; a symbolic one is an error in both.                          *)
Rejected(cmd) ==
  /\ ~Skipped(cmd)
  /\ \/ cmd.type \in UnsupportedTypes
     \/ cmd.type \in RotationTypes /\ cmd.param = Symbolic
     \/ cmd.type \in RotationTypes /\ cmd.param = NoParam /\ InJson

ClassifyOp(cmd) ==
  CASE cmd.type = "t" -> "tgate"
    [] cmd.type \in MeasureTypes -> "measurement"
    [] cmd.type \in RotationTypes /\ cmd.param # NoParam -> ClassifyRzAngle(cmd.param)
    [] OTHER -> "clifford"

-----------------------------------------------------------------------------
SkipCommand ==
  /\ AtCommand
  /\ Skipped(Head(todo))
  /\ todo' = Tail(todo)
  /\ UNCHANGED <<circuitVars, ops, deps, last, depth, untracked>>

ProcessCommand ==
  /\ AtCommand
  /\ ~Skipped(Head(todo))
  /\ ~Rejected(Head(todo))
  /\ EmitOperation(ClassifyOp(Head(todo)), Head(todo).args)
  /\ todo' = Tail(todo)
  /\ UNCHANGED circuitVars

TketError ==
  /\ AtCommand
  /\ Rejected(Head(todo))
  /\ Failed("parse error")
  /\ UNCHANGED <<source, builderVars>>

(* pytket computes the depth of the circuit it is given itself. *)
FinishTket ==
  /\ verdict = "open"
  /\ source.frontend \in {"tket_json", "tket_py"}
  /\ todo = <<>>
  /\ IF InJson THEN Built(ops, deps, source.qubits, Counts(ops), MaxDepth)
     ELSE IF ops = <<>> THEN Failed("no gates")
     ELSE FromAdapterData(ops, deps, source.qubits, source.depth)
  /\ UNCHANGED <<source, builderVars>>

TketStep == SkipCommand \/ ProcessCommand \/ TketError \/ FinishTket
=============================================================================
