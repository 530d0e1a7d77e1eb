------------------------------ MODULE Validate ------------------------------
(***************************************************************************)
(* validate (pirx-ir, validate.rs): the checks every circuit passes before *)
(* it is profiled, in the order the code makes them, and Kahn's algorithm, *)
(* one action per node it visits.                                          *)
(*                                                                         *)
(* Operations are named by their ids, which are distinct when the graph is *)
(* built.  The queue of nodes is a set: nodes are visited in every order,  *)
(* the code's among them.                                                  *)
(***************************************************************************)
EXTENDS Circuit

VARIABLES
  inDegree,   \* in_degree of each operation
  queue,      \* nodes of in-degree zero, not visited yet
  visited,    \* the counter of visited nodes
  order       \* history: the nodes visited

kahnVars == <<inDegree, queue, visited, order>>

-----------------------------------------------------------------------------
(* The checks.  Each names the circuits it rejects. *)

QubitsOfOp(i) == ToSet(circuit.ops[i].qubits)
OpIndex == DOMAIN circuit.ops

DuplicateOpId ==
  \E i, j \in OpIndex : i < j /\ circuit.ops[i].id = circuit.ops[j].id

InvalidQubit == \E i \in OpIndex : \E q \in QubitsOfOp(i) : q >= circuit.qubits

HasPositions == circuit.positions # NoPositions
PositionCount == HasPositions /\ Len(circuit.positions) # circuit.qubits

(* One loop makes both tests, so the first offending entry decides. *)
PositionOutside(i) == circuit.positions[i] >= circuit.qubits
PositionRepeated(i) == \E j \in 1 .. i - 1 : circuit.positions[j] = circuit.positions[i]
BadPositions ==
  IF HasPositions
    THEN {i \in DOMAIN circuit.positions : PositionOutside(i) \/ PositionRepeated(i)}
    ELSE {}
BadPosition(outside) ==
  \E i \in BadPositions :
    (PositionOutside(i) <=> outside) /\ \A j \in BadPositions : i <= j

DanglingDependency ==
  \E i \in DOMAIN circuit.deps :
    ~ {circuit.deps[i].from, circuit.deps[i].to} \subseteq Ids(circuit.ops)

HookIdsOf == {circuit.hooks[h].id : h \in DOMAIN circuit.hooks}
DanglingHook ==
  \E i \in OpIndex :
    circuit.ops[i].hook # NoHook /\ circuit.ops[i].hook \notin HookIdsOf

(* The operations the hooks activate, in the order the loops meet them. *)
Targets == FlattenSeq([h \in DOMAIN circuit.hooks |-> circuit.hooks[h].activates])
TargetMissing(i) == Targets[i] \notin Ids(circuit.ops)
TargetActive(i) ==
  \E k \in OpIndex : circuit.ops[k].id = Targets[i] /\ circuit.ops[k].active
BadTargets == {i \in DOMAIN Targets : TargetMissing(i) \/ TargetActive(i)}
BadTarget(missing) ==
  \E i \in BadTargets : (TargetMissing(i) <=> missing) /\ \A j \in BadTargets : i <= j

OrphanedInactive ==
  \E i \in OpIndex : ~circuit.ops[i].active /\ circuit.ops[i].id \notin ToSet(Targets)

(* Every check, in the code's order, with the error it returns. *)
Checks ==
  <<[fails |-> circuit.ops = <<>>,    error |-> "EmptyCircuit"],
    [fails |-> DuplicateOpId,         error |-> "DuplicateOpId"],
    [fails |-> InvalidQubit,          error |-> "InvalidQubit"],
    [fails |-> PositionCount,         error |-> "QubitPositionCountMismatch"],
    [fails |-> BadPosition(TRUE),     error |-> "QubitPositionInvalidQubit"],
    [fails |-> BadPosition(FALSE),    error |-> "DuplicateQubitPosition"],
    [fails |-> DanglingDependency,    error |-> "DanglingDependency"],
    [fails |-> DanglingHook,          error |-> "DanglingHookReference"],
    [fails |-> BadTarget(TRUE),       error |-> "DanglingDependency"],
    [fails |-> BadTarget(FALSE),      error |-> "ActiveOpInHook"],
    [fails |-> OrphanedInactive,      error |-> "OrphanedInactiveOp"]>>

Failing == {i \in DOMAIN Checks : Checks[i].fails}

Reject ==
  /\ verdict = "built"
  /\ \E i \in Failing :
       /\ \A j \in Failing : i <= j
       /\ verdict' = Checks[i].error
  /\ UNCHANGED <<source, circuit, kahnVars>>

-----------------------------------------------------------------------------
(* Kahn's algorithm.  One entry of deps is one unit of in-degree. *)

Edges(n, m) ==
  Cardinality({i \in DOMAIN circuit.deps :
                 circuit.deps[i].from = n /\ circuit.deps[i].to = m})
IncomingEntries(n) == {i \in DOMAIN circuit.deps : circuit.deps[i].to = n}

(* Fault: a dependency that is listed twice counts once. *)
InDegreeDistinct(n) == Cardinality({circuit.deps[i].from : i \in IncomingEntries(n)})
InDegree(n) == Cardinality(IncomingEntries(n))

BuildGraph ==
  /\ verdict = "built"
  /\ Failing = {}
  /\ inDegree' = [n \in Ids(circuit.ops) |-> InDegree(n)]
  /\ queue' = {n \in Ids(circuit.ops) : InDegree(n) = 0}
  /\ visited' = 0
  /\ order' = <<>>
  /\ verdict' = "sorting"
  /\ UNCHANGED <<source, circuit>>

(* What is left of m's in-degree (saturating) once n is visited, and the   *)
(* nodes that this takes to zero.                                          *)
Reduced(n, m) ==
  IF inDegree[m] > Edges(n, m) THEN inDegree[m] - Edges(n, m) ELSE 0
Reached(n) == {m \in DOMAIN inDegree : Edges(n, m) > 0 /\ Reduced(n, m) = 0}

VisitNode ==
  /\ verdict = "sorting"
  /\ \E n \in queue :
       /\ inDegree' = [m \in DOMAIN inDegree |-> Reduced(n, m)]
       /\ queue' = (queue \ {n}) \cup Reached(n)
       /\ visited' = visited + 1
       /\ order' = Append(order, n)
  /\ UNCHANGED <<source, circuit, verdict>>

Conclude ==
  /\ verdict = "sorting"
  /\ queue = {}
  /\ verdict' = IF visited = Len(circuit.ops) THEN "accepted" ELSE "CyclicDag"
  /\ UNCHANGED <<source, circuit, kahnVars>>

ValidateStep == Reject \/ BuildGraph \/ VisitNode \/ Conclude

KahnIdle == inDegree = <<>> /\ queue = {} /\ visited = 0 /\ order = <<>>

-----------------------------------------------------------------------------
(* validate on its own, for every circuit. *)

Operations ==
  [id : Nat, kind : STRING, hook : Nat \cup {NoHook}, qubits : Seq(Nat),
   active : BOOLEAN]

ValidateInit ==
  /\ circuit.ops \in Seq(Operations)
  /\ circuit.deps \in Seq([from : Nat, to : Nat])
  /\ verdict = "built"
  /\ KahnIdle

ValidateSpec == ValidateInit /\ [][ValidateStep]_<<circuitVars, kahnVars>>

(* No set of operations waits only for itself: in a finite graph this says *)
(* that there is no cycle, and it is what the engine needs to drain it.    *)
Waits(m, S) ==
  \E i \in DOMAIN circuit.deps : circuit.deps[i].to = m /\ circuit.deps[i].from \in S
Acyclic ==
  \A S \in SUBSET Ids(circuit.ops) : S # {} => \E m \in S : ~Waits(m, S)

(* validate accepts a circuit only if its dependencies have no cycle, and  *)
(* calls it cyclic only if they have one: repeated dependencies, a         *)
(* dependency of an operation on itself and unreachable parts included     *)
(* (validate.rs, Kahn's algorithm and the final count).                    *)
KahnCorrect ==
  /\ verdict = "accepted" => Acyclic
  /\ verdict = "CyclicDag" => ~Acyclic
=============================================================================
