------------------------- MODULE CircuitProperties -------------------------
(***************************************************************************)
(* What the front ends and validate promise together.                      *)
(***************************************************************************)
EXTENDS Adapters

(* What the parsers deliver: a program is a list of statements, some of    *)
(* them with lists of statements inside, operands and nodes come in lists. *)
WellFormed(Statements, Commands) ==
  /\ \A s \in Sources :
       /\ s.frontend = "qasm" => s.todo \in Seq(Statements)
       /\ s.frontend \in {"tket_json", "tket_py"} => s.todo \in Seq(Commands)
       /\ s.frontend = "qiskit" => s.nodes \in Seq(ToSet(s.nodes))
  /\ \A s \in Statements :
       /\ s.type = "gate" => s.operands \in Seq(ToSet(s.operands))
       /\ s.type \in {"if", "while", "block"} => WalkedBlock(s) \in Seq(Statements)
  /\ \A c \in Commands : c.args \in Seq(ToSet(c.args))

(* And with what is in it: sizes and indices are numbers, a gate has        *)
(* operands, the wires of commands and nodes are those of their circuit,    *)
(* and the parts of a bloq are connected without a cycle.                   *)
Unordered(connections, P) == \E c \in P : \A p \in P : <<p, c>> \notin connections
InRange(Statements, Bloqs) ==
  /\ \A s \in Sources :
       /\ s.frontend \in {"tket_json", "tket_py"} =>
            /\ s.qubits \in Nat
            /\ \A c \in ToSet(s.todo) : ToSet(c.args) \subseteq 0 .. s.qubits - 1
       /\ s.frontend = "qiskit" =>
            /\ s.qubits \in Nat
            /\ \A n \in ToSet(s.nodes) : ToSet(n.qubits) \subseteq 0 .. s.qubits - 1
       /\ s.frontend = "qualtran" => s.bloq \in Bloqs
  /\ \A s \in Statements :
       /\ s.type = "qubit" => s.size \in Nat \cup {NoIndex}
       /\ s.type = "gate" =>
            /\ s.operands # <<>>
            /\ \A o \in ToSet(s.operands) :
                 IF o.reg = Hardware THEN o.index \in Nat ELSE o.index \in Nat \cup {NoIndex}
       /\ s.type \in {"measure", "reset"} => s.operand.index \in Nat \cup {NoIndex}
  /\ \A b \in Bloqs :
       /\ b.parts \in Seq(Bloqs) /\ b.tcount \in Nat
       /\ b.connections \subseteq (DOMAIN b.parts) \X (DOMAIN b.parts)
       /\ \A P \in SUBSET DOMAIN b.parts : P # {} => Unordered(b.connections, P)

(* The T count that Qualtran gives a bloq is zero for one to skip and the   *)
(* sum of its parts' for one that decomposes.  A leaf may have any.         *)
Units(parts, left) == UNION {{c} \X (1 .. parts[c].tcount) : c \in left}
Additive(Bloqs) ==
  \A b \in Bloqs :
    /\ b.type = "skip" => b.tcount = 0
    /\ b.type = "parts" /\ b.decomposes =>
         b.tcount = Cardinality(Units(b.parts, DOMAIN b.parts))

-----------------------------------------------------------------------------
(* Some chain of dependencies leads from operation a to b, among n: every  *)
(* set that holds what depends on a, and on its members, holds b.          *)
Edge(list, a, b) == \E i \in DOMAIN list : list[i].from = a /\ list[i].to = b
Leads(list, n, a, b) ==
  \A S \in SUBSET (0 .. n - 1) :
    (\A d \in 0 .. n - 1 : Edge(list, a, d) \/ (\E c \in S : Edge(list, c, d)) => d \in S)
      => b \in S

SharedQubits(s, i, j) == ToSet(s[i].qubits) \cap ToSet(s[j].qubits)

(* Two operations on a common qubit keep the order the program gives them: *)
(* a chain of dependencies leads from the earlier to the later one,        *)
(* whatever other qubits they act on and whatever blocks they are in.  The *)
(* one exception is a hardware qubit used before a declaration gives its   *)
(* number to a register (emit_operation, last_on_qubit).                   *)
ProgramOrder ==
  \A i, j \in DOMAIN ops :
    i < j /\ (\E q \in SharedQubits(ops, i, j) : <<i - 1, q>> \notin untracked)
      => Leads(deps, Len(ops), i - 1, j - 1)

(* The number of operations on the longest chain that ends in operation k, *)
(* when no dependency points backwards.                                    *)
Level[k \in 0 .. Len(ops)] ==
  1 + Max({0} \cup {Level[deps[i].from] : i \in {d \in DOMAIN deps : deps[d].to = k}})
Forward == \A i \in DOMAIN deps : deps[i].from < deps[i].to

(* The depth an adapter reports, computed qubit by qubit while it walks,   *)
(* is the number of operations on the longest chain of dependencies        *)
(* (emit_operation, depth_at_qubit; finish; pytket counts its own depth).   *)
DepthIsLongestChain ==
  source.frontend # "tket_py" /\ untracked = {} /\ Forward
    => MaxDepth = Max({0} \cup {Level[k] : k \in 0 .. Len(ops) - 1})

(* validate never rejects what an adapter builds, but for what the program *)
(* itself gets wrong: a gate that names a qubit twice, a hardware qubit    *)
(* beyond the declared ones, a program without gates (finish of the        *)
(* adapters against every check of validate).  Nor does it reject a test   *)
(* fixture of at least one gate ("must be valid", validated).              *)
RepeatsQubit == \E i \in OpIndex : ~IsInjective(circuit.ops[i].qubits)
UsesHardwareQubits ==
  \A i \in OpIndex : \A q \in QubitsOfOp(i) : q >= circuit.qubits => q \in hardware
AdaptersAccepted ==
  circuit # NoCircuit /\ source.frontend # "json" /\ Answer
    => \/ verdict = "accepted"
       \/ verdict = "CyclicDag" /\ RepeatsQubit
       \/ verdict = "InvalidQubit" /\ UsesHardwareQubits
       \/ verdict = "EmptyCircuit" /\ source.frontend \in {"qasm", "tket_json", "testkit"}

(* Two kept nodes of a Qiskit circuit on a common qubit keep their order   *)
(* ("op 1 - depends on 0 (same qubit)", the tests of the adapter).  It is  *)
(* lost when the edges come with new objects, and when a skipped node      *)
(* stands between the two on their qubit (_extract_from_dag).              *)
WireOrder ==
  source.frontend = "qiskit" /\ verdict = "accepted"
    => \A i, j \in DOMAIN nodeIds :
         i < j /\ SharedQubits(source.nodes, i, j) # {}
           => Leads(circuit.deps, Len(circuit.ops), nodeIds[i], nodeIds[j])

(* The T count of a Qualtran circuit differs from the bloq's own by what   *)
(* the leaves walked were misjudged by, and by nothing else, wherever the  *)
(* depth limit cuts the decomposition and in whatever order parts are      *)
(* walked: the difference from_qualtran warns of is no "incomplete         *)
(* decomposition" (_extract_ops, _handle_opaque_bloq, _classify_bloq).     *)
TCountKept ==
  source.frontend = "qualtran" /\ verdict = "accepted"
    => circuit.counts.tgate + missed = source.bloq.tcount
=============================================================================
