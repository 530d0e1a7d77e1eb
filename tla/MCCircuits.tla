----------------------------- MODULE MCCircuits -----------------------------
(***************************************************************************)
(* Small sources for every front end: all short programs over a few        *)
(* statements, one of each kind the adapters treat differently.            *)
(***************************************************************************)
EXTENDS CircuitProperties

CONSTANTS a, b,    \* registers
          Q, K, N  \* bounds: statements, commands, Qiskit nodes

UpTo(S, n) == UNION {[1 .. k -> S] : k \in 0 .. n}

-----------------------------------------------------------------------------
(* OpenQASM.  The register a has two qubits; b, and hardware qubit $2, are *)
(* the third.                                                              *)
At(reg, i) == [reg |-> reg, index |-> i]
Gate(name, param, operands) ==
  [type |-> "gate", name |-> name, param |-> param, inv |-> FALSE, operands |-> operands]
Rz(param, inv) == [Gate("rotation", param, <<At(a, 1)>>) EXCEPT !.inv = inv]
T(operand) == Gate("t", NoParam, <<operand>>)
Cx(x, y) == Gate("cx", NoParam, <<x, y>>)
Declare(reg, n) == [type |-> "qubit", reg |-> reg, size |-> n]

Statements ==
  {Declare(b, 1), T(At(a, 0)), T(At(b, NoIndex)), Rz(2, TRUE), Cx(At(a, 0), At(a, 1)),
   Cx(At(a, 1), At(b, 0)), Cx(At(a, 0), At(a, 0)), T(At(Hardware, 2)), T(At(a, 2)),
   [type |-> "measure", operand |-> At(a, 1)],
   [type |-> "other"],
   [type |-> "if", then |-> <<T(At(a, 0)), Rz(3, FALSE)>>, else |-> <<Cx(At(a, 0), At(a, 1))>>],
   [type |-> "while", body |-> <<[type |-> "block", body |-> <<T(At(a, 1))>>]>>]}

OtherPrograms ==
  {<<Declare(a, NoIndex)>>, <<Rz(Symbolic, FALSE)>>, <<T(At(a, 0))>>,
   <<Declare(a, 2), [type |-> "reset", operand |-> At(a, NoIndex)]>>,
   <<Declare(a, 2), [type |-> "reset", operand |-> At(Hardware, 0)]>>,
   <<Declare(a, 2), Rz(NoParam, FALSE), Rz(NonFinite, TRUE), [type |-> "barrier"]>>,
   <<Declare(a, 2), [type |-> "if", then |-> <<Cx(At(a, 0), At(a, 1))>>,
                     else |-> <<T(At(a, 0))>>]>>}

QasmSources ==
  {[frontend |-> "qasm", todo |-> p] :
     p \in {<<Declare(a, 2)>> \o s : s \in UpTo(Statements, Q)} \cup OtherPrograms}

-----------------------------------------------------------------------------
(* TKET, on three qubits. *)
Cmd(type, param, args) == [type |-> type, param |-> param, args |-> args]
Commands ==
  {Cmd("t", NoParam, <<0>>), Cmd("cx", NoParam, <<0, 1>>), Cmd("cx", NoParam, <<2, 1>>),
   Cmd("rz", 2, <<1>>), Cmd("barrier", NoParam, <<0, 1>>), Cmd("measure", NoParam, <<2>>)}
OtherCommands ==
  {Cmd("phase", 1, <<>>), Cmd("u1", 2, <<0>>), Cmd("rz", NoParam, <<0>>),
   Cmd("rz", Symbolic, <<0>>), Cmd("rz", NonFinite, <<0>>), Cmd("conditional", NoParam, <<0>>),
   Cmd("classical", NoParam, <<>>), Cmd("cx", NoParam, <<0, 0>>), Cmd("structural", NoParam, <<0>>)}

TketSources ==
  {[frontend |-> f, todo |-> s, qubits |-> 3, depth |-> 0] :
     f \in {"tket_json", "tket_py"},
     s \in UpTo(Commands, K) \cup {<<c, Cmd("t", NoParam, <<0>>)>> : c \in OtherCommands}}

-----------------------------------------------------------------------------
(* Qiskit, on two qubits and a bit. *)
Node(type, qubits, bits) == [type |-> type, param |-> 4, qubits |-> qubits, bits |-> bits]
Nodes ==
  {Node("t", <<0>>, <<>>), Node("gate", <<0, 1>>, <<>>), Node("rotation", <<1>>, <<>>),
   Node("measure", <<1>>, <<0>>), Node("skip", <<0, 1>>, <<>>), Node("gate", <<>>, <<0>>)}

QiskitSources ==
  {[frontend |-> "qiskit", nodes |-> s, qubits |-> 2, depth |-> 0, stable |-> same] :
     s \in UpTo(Nodes, N) \cup {<<[Node("rotation", <<0>>, <<>>) EXCEPT !.param = Symbolic]>>},
     same \in BOOLEAN}

-----------------------------------------------------------------------------
(* Qualtran. *)
Leaf(kind) ==
  [type |-> "leaf", kind |-> kind, parts |-> <<>>, connections |-> {},
   decomposes |-> FALSE, tcount |-> IF kind = "tgate" THEN 1 ELSE 0]
Split == [Leaf("clifford") EXCEPT !.type = "skip"]
Opaque(n) == [Leaf("clifford") EXCEPT !.type = "parts", !.tcount = n]
(* Leaves whose kind and T count differ: Toffoli and the swaps become      *)
(* Clifford gates, a rotation by pi/4 a T gate.                            *)
Toffoli == [Leaf("clifford") EXCEPT !.tcount = 4]
EighthTurn == [Leaf("tgate") EXCEPT !.tcount = 0]
Bloq(parts, connections) ==
  [type |-> "parts", kind |-> "clifford", parts |-> parts, connections |-> connections,
   decomposes |-> TRUE,
   tcount |-> FoldSeq(LAMBDA p, n : p.tcount + n, 0, parts)]

Inner == Bloq(<<Leaf("tgate"), Split, Leaf("tgate")>>, {<<1, 2>>, <<2, 3>>, <<1, 3>>})
Outer ==
  {Bloq(<<x, y, z>>, c) :
     x \in {Leaf("tgate"), Split, Inner}, y \in {Leaf("clifford"), Toffoli, Inner, Opaque(2)},
     z \in {Opaque(0), Leaf("rotation"), EighthTurn}, c \in {{<<1, 2>>, <<2, 3>>}, {<<1, 3>>, <<2, 3>>}}}

QualtranSources ==
  {[frontend |-> "qualtran", bloq |-> q, maxDepth |-> n] :
     q \in Outer \cup {Leaf("tgate"), Split, Opaque(2), Bloq(<<Split>>, {})}, n \in {1, 2, 3}}

-----------------------------------------------------------------------------
(* Circuits as a file or a caller may give them: every list of at most     *)
(* three dependencies, and one circuit for each way of being wrong.        *)
Op(id) == Emitted(id, "clifford", <<0>>)
Plain(list) ==
  [ops |-> <<Op(0), Op(1), Op(2)>>, deps |-> list, qubits |-> 1,
   positions |-> NoPositions, hooks |-> <<>>, counts |-> Counts(<<>>), depth |-> 0]
Dep(x, y) == [from |-> x, to |-> y]
Measuring(hook) == [Op(0) EXCEPT !.kind = "measurement", !.hook = hook]
Hook(activates) == <<[id |-> 7, activates |-> activates]>>
Dormant(id) == [Op(id) EXCEPT !.active = FALSE]

JsonCircuits ==
  {Plain(d) : d \in UpTo({Dep(x, y) : x, y \in 0 .. 2}, 3)} \cup
  {[Plain(<<>>) EXCEPT !.ops = o, !.hooks = h] :
     o \in {<<Measuring(7), Dormant(1)>>, <<Measuring(8), Op(1)>>, <<Op(0), Dormant(1), Op(1)>>},
     h \in {<<>>, Hook(<<1>>), Hook(<<1, 5>>), Hook(<<0, 5>>), Hook(<<5, 0>>)}} \cup
  {[Plain(<<>>) EXCEPT !.qubits = 2, !.positions = p] : p \in UpTo({0, 1, 2}, 3)} \cup
  {[Plain(<<>>) EXCEPT !.qubits = 0], Plain(<<Dep(0, 3)>>), Plain(<<Dep(4, 1)>>)}

(* The circuits of the test kit. *)
Kit == INSTANCE Testkit WITH Scale <- 1
Fixtures ==
  UNION {{Kit!TwoQubitGrid(n), Kit!ParallelCliffords(n), Kit!CliffordChain(n), Kit!TGateChain(n)} :
           n \in 0 .. 3} \cup
  {Kit!SingleClifford, Kit!SingleTGate, Kit!SingleRotation, Kit!TwoParallelTGates,
   Kit!CliffordTMeasurementChain, Kit!MeasurementWithOneHook,
   Kit!MeasurementWithBothOutcomes, Kit!HookActivatesTGate}
KitSources == {[frontend |-> "testkit", circuit |-> c] : c \in Fixtures}

JsonSources == {[frontend |-> "json", circuit |-> c] : c \in JsonCircuits}

MCSources == QasmSources \cup TketSources \cup QiskitSources \cup QualtranSources \cup JsonSources
               \cup KitSources

(* The sources are what the theorems about the adapters ask for: every     *)
(* program is a list of these statements, blocks two deep.                 *)
Inside(S) ==
  S \cup UNION {ToSet(WalkedBlock(s)) : s \in {t \in S : t.type \in {"if", "while", "block"}}}
AllStatements == Inside(Inside(UNION {ToSet(s.todo) : s \in QasmSources}))
ASSUME WellFormedAssumption == WellFormed(AllStatements, Commands \cup OtherCommands)

(* A bloq, its parts and theirs. *)
WithParts(S) == S \cup UNION {ToSet(x.parts) : x \in S}
AllBloqs == WithParts(WithParts({s.bloq : s \in QualtranSources}))
ASSUME InRangeAssumption == InRange(AllStatements, AllBloqs)
ASSUME AdditiveAssumption == Additive(AllBloqs)

-----------------------------------------------------------------------------
(* The numbers of T gates an execution of the statements may apply when it *)
(* runs no loop more than once.                                            *)
RECURSIVE TGatesOf(_)
TGatesOf(stmts) ==
  IF stmts = <<>> THEN {0}
  ELSE LET stmt == Head(stmts)
           here ==
             CASE stmt.type = "gate" ->
                    {IF ClassifyGate(stmt.name, stmt.param, stmt.inv) = "tgate" THEN 1 ELSE 0}
               [] stmt.type = "block" -> TGatesOf(stmt.body)
               [] stmt.type = "if"    -> TGatesOf(stmt.then) \cup TGatesOf(stmt.else)
               [] stmt.type = "while" -> {0} \cup TGatesOf(stmt.body)
               [] OTHER -> {0}
       IN  {m + n : m \in here, n \in TGatesOf(Tail(stmts))}

(* The profile is that of the maximum execution path: the T count bounds   *)
(* the T gates of every execution, whichever branches it takes, that runs  *)
(* no loop more than once ("Gates inside conditional blocks are included   *)
(* unconditionally", walk_stmt).  An else branch is not walked.            *)
MaximumPathCounted ==
  source.frontend = "qasm" /\ verdict = "accepted"
    => \A t \in TGatesOf(source.todo) : t <= circuit.counts.tgate
=============================================================================
