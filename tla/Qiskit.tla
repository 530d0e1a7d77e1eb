------------------------------- MODULE Qiskit -------------------------------
(***************************************************************************)
(* The Qiskit adapter (python/pirx/adapters/qiskit.py): the operation      *)
(* nodes of a DAGCircuit in topological order, then its edges.             *)
(*                                                                         *)
(* source.nodes lists the nodes in topological order with the wires they   *)
(* act on, qubits and classical bits.  The edges are Qiskit's: one between *)
(* each two consecutive nodes of a wire.  The adapter looks nodes up under *)
(* the identity of their Python objects: source.stable says whether the    *)
(* edges hold the objects the walk has seen, as in Qiskit before 1.3.      *)
(* Since then every call makes new ones, also in the locked 2.4.1.         *)
(***************************************************************************)
EXTENDS Circuit

VARIABLES
  walked,   \* nodes walked so far
  nodeIds,  \* node_to_id: kept node, for its object -> its operation id
  kept      \* the operations of the kept nodes

qiskitVars == <<walked, nodeIds, kept>>

-----------------------------------------------------------------------------
(* Wires and edges of a DAGCircuit. *)

Wires(node) == {<<"q", q>> : q \in ToSet(node.qubits)} \cup {<<"c", c>> : c \in ToSet(node.bits)}

UsesWire(w) == {i \in DOMAIN source.nodes : w \in Wires(source.nodes[i])}

EdgesOfWire(w) ==
  {e \in UsesWire(w) \X UsesWire(w) :
     e[1] < e[2] /\ ~ \E k \in UsesWire(w) : e[1] < k /\ k < e[2]}

DagEdges == UNION {EdgesOfWire(w) : w \in UNION {Wires(source.nodes[i]) : i \in DOMAIN source.nodes}}

-----------------------------------------------------------------------------
(* _classify_op: None for what is skipped, barriers and delays by name and *)
(* anything else that acts on no qubit.                                    *)
Skip(node) ==
  \/ node.type = "skip"
  \/ node.type = "gate" /\ node.qubits = <<>>

Unbound(node) == node.type = "rotation" /\ node.param = Symbolic

ClassifyNode(node) ==
  CASE node.type = "t" -> "tgate"
    [] node.type = "measure" -> "measurement"
    [] node.type = "rotation" /\ node.param # NoParam -> ClassifyRzAngle(node.param)
    [] OTHER -> "clifford"

AtNode ==
  /\ verdict = "open"
  /\ source.frontend = "qiskit"
  /\ walked < Len(source.nodes)

NextNode == source.nodes[walked + 1]

SkipNode ==
  /\ AtNode
  /\ Skip(NextNode)
  /\ walked' = walked + 1
  /\ UNCHANGED <<circuitVars, nodeIds, kept>>

KeepNode ==
  /\ AtNode
  /\ ~Skip(NextNode)
  /\ ~Unbound(NextNode)
  /\ kept' = Append(kept, Emitted(Len(kept), ClassifyNode(NextNode), NextNode.qubits))
  /\ nodeIds' = [n \in DOMAIN nodeIds \cup {walked + 1} |->
                   IF n \in DOMAIN nodeIds THEN nodeIds[n] ELSE Len(kept)]
  /\ walked' = walked + 1
  /\ UNCHANGED circuitVars

UnboundParameter ==
  /\ AtNode
  /\ ~Skip(NextNode)
  /\ Unbound(NextNode)
  /\ Failed("unbound parameter")
  /\ UNCHANGED <<source, qiskitVars>>

(* An edge becomes a dependency when both of its nodes were kept; equal    *)
(* ones collapse.                                                          *)
NodeDeps ==
  {[from |-> nodeIds[e[1]], to |-> nodeIds[e[2]]] :
     e \in {d \in DagEdges : {d[1], d[2]} \subseteq DOMAIN nodeIds}}

(* With new objects no edge finds its own nodes.  But the objects of the   *)
(* walk have been freed, all but the last one, and an object of the edges, *)
(* whichever node it stands for, may have the identity of one of them.     *)
(* The objects of the edges are all alive together: each identity is given *)
(* to at most one.                                                         *)
FreedIds == {nodeIds[n] : n \in DOMAIN nodeIds \ {walked}}
Mistakes == {d \in [from : FreedIds, to : FreedIds] : d.from # d.to}
MistakenDeps ==
  {D \in SUBSET Mistakes :
     \A d, e \in D : {d.from, d.to} \cap {e.from, e.to} # {} => d = e}

DepsFound == IF source.stable THEN {NodeDeps} ELSE MistakenDeps

FinishQiskit ==
  /\ verdict = "open"
  /\ source.frontend = "qiskit"
  /\ walked = Len(source.nodes)
  /\ IF kept = <<>> THEN Failed("no gates")
     ELSE \E D \in DepsFound : FromAdapterData(kept, SetToSeq(D), source.qubits, source.depth)
  /\ UNCHANGED <<source, qiskitVars>>

QiskitStep == SkipNode \/ KeepNode \/ UnboundParameter \/ FinishQiskit
=============================================================================
