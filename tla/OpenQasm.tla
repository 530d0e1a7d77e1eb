------------------------------ MODULE OpenQasm ------------------------------
(***************************************************************************)
(* The OpenQASM 3 adapter of pirx-adapters (openqasm.rs): one action per   *)
(* statement walked.  Entering a block puts its statements in front of     *)
(* what is left to walk.                                                   *)
(*                                                                         *)
(* The program is the parser's syntax tree.  An operand is a register with *)
(* an index (or NoIndex), or a hardware qubit.  The value of a gate's      *)
(* parameter, and whether it has one, are data: an angle, NoParam, or      *)
(* Symbolic when eval_expr cannot compute it.                              *)
(***************************************************************************)
EXTENDS LastUse

CONSTANTS
  NoIndex,    \* an operand that names a whole register; a size that is none
  Hardware    \* the register of hardware qubits ($0, $1, ...)

VARIABLES
  registers,   \* QubitRegistry: register -> [start, count]
  hardware     \* history: the hardware qubits that gates have named

qasmVars == <<registers, hardware>>

Walking(types) ==
  /\ verdict = "open"
  /\ source.frontend = "qasm"
  /\ todo # <<>>
  /\ Head(todo).type \in types

-----------------------------------------------------------------------------
(* QubitRegistry. *)

QubitTotal == Cardinality(DOMAIN last)

(* Fault: an index one past the end of the register is accepted. *)
ResolvesLoosely(operand) ==
  \/ operand.reg = Hardware
  \/ /\ operand.reg \in DOMAIN registers
     /\ IF operand.index = NoIndex THEN registers[operand.reg].count = 1
                                   ELSE operand.index <= registers[operand.reg].count
(* Hardware qubits are taken as they are, without looking at the registry. *)
Resolves(operand) ==
  \/ operand.reg = Hardware
  \/ /\ operand.reg \in DOMAIN registers
     /\ IF operand.index = NoIndex THEN registers[operand.reg].count = 1
                                   ELSE operand.index < registers[operand.reg].count

Resolved(operand) ==
  IF operand.reg = Hardware THEN operand.index
  ELSE registers[operand.reg].start +
         (IF operand.index = NoIndex THEN 0 ELSE operand.index)

DeclareQubit ==
  /\ Walking({"qubit"})
  /\ Head(todo).size # NoIndex
  /\ LET reg == Head(todo).reg
         size == Head(todo).size
         new == QubitTotal .. QubitTotal + size - 1
     IN  /\ registers' = [r \in DOMAIN registers \cup {reg} |->
                            IF r = reg THEN [start |-> QubitTotal, count |-> size]
                                       ELSE registers[r]]
         /\ last' = [q \in DOMAIN last \cup new |-> IF q \in DOMAIN last THEN last[q] ELSE NoOp]
         /\ depth' = [q \in DOMAIN depth \cup new |-> IF q \in DOMAIN depth THEN depth[q] ELSE 0]
  /\ todo' = Tail(todo)
  /\ UNCHANGED <<circuitVars, ops, deps, untracked, hardware>>

-----------------------------------------------------------------------------
(* classify_gate; inv negates the angle.  A name it does not know, a       *)
(* rotation without a parameter and every user-defined gate are Clifford.  *)
ClassifyGate(name, param, inv) ==
  CASE name = "t" -> "tgate"
    [] name = "rotation" /\ param # NoParam ->
         ClassifyRzAngle(IF inv /\ param # NonFinite THEN -param ELSE param)
    [] name = "measure" -> "measurement"
    [] OTHER -> "clifford"

GateFails(gate) ==
  \/ gate.param = Symbolic
  \/ \E i \in DOMAIN gate.operands : ~Resolves(gate.operands[i])

(* The operand of a measurement or a reset may not be a hardware qubit. *)
MeasureFails(stmt) == stmt.operand.reg = Hardware \/ ~Resolves(stmt.operand)

ProcessGateCall ==
  /\ Walking({"gate"})
  /\ LET gate == Head(todo)
     IN  /\ ~GateFails(gate)
         /\ EmitOperation(ClassifyGate(gate.name, gate.param, gate.inv),
                          [i \in DOMAIN gate.operands |-> Resolved(gate.operands[i])])
         /\ hardware' = hardware \cup
              {o.index : o \in {p \in ToSet(gate.operands) : p.reg = Hardware}}
  /\ todo' = Tail(todo)
  /\ UNCHANGED <<circuitVars, registers>>

(* process_assignment and Stmt::Reset. *)
ProcessMeasure ==
  /\ Walking({"measure", "reset"})
  /\ ~MeasureFails(Head(todo))
  /\ EmitOperation("measurement", <<Resolved(Head(todo).operand)>>)
  /\ todo' = Tail(todo)
  /\ UNCHANGED <<circuitVars, qasmVars>>

(* A declaration of anything but a qubit or a register is an error too. *)
QasmError ==
  /\ \/ Walking({"qubit"}) /\ Head(todo).size = NoIndex
     \/ Walking({"gate"}) /\ GateFails(Head(todo))
     \/ Walking({"measure", "reset"}) /\ MeasureFails(Head(todo))
  /\ Failed("parse error")
  /\ UNCHANGED <<source, builderVars, qasmVars>>

(* The body of a block or of a loop is walked once, and of an if statement *)
(* only the branch taken when its condition holds.                         *)
WalkedBlock(stmt) == IF stmt.type = "if" THEN stmt.then ELSE stmt.body

WalkBlock ==
  /\ Walking({"if", "while", "block"})
  /\ todo' = WalkedBlock(Head(todo)) \o Tail(todo)
  /\ UNCHANGED <<circuitVars, ops, deps, last, depth, untracked, qasmVars>>

(* Barriers, classical and gate declarations, includes, pragmas, and every *)
(* statement the adapter does not know.                                    *)
IgnoreStatement ==
  /\ Walking({"barrier", "other"})
  /\ todo' = Tail(todo)
  /\ UNCHANGED <<circuitVars, ops, deps, last, depth, untracked, qasmVars>>

FinishQasm ==
  /\ verdict = "open"
  /\ source.frontend = "qasm"
  /\ todo = <<>>
  /\ Built(ops, deps, QubitTotal, Counts(ops), MaxDepth)
  /\ UNCHANGED <<source, builderVars, qasmVars>>

QasmStep ==
  \/ DeclareQubit
  \/ ProcessGateCall
  \/ ProcessMeasure
  \/ QasmError
  \/ WalkBlock
  \/ IgnoreStatement
  \/ FinishQasm
=============================================================================
