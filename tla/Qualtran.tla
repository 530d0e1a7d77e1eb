------------------------------ MODULE Qualtran ------------------------------
(***************************************************************************)
(* The Qualtran adapter (python/pirx/adapters/qualtran.py): a bloq is      *)
(* decomposed recursively into operations.  frames is the recursion of     *)
(* _extract_ops: the bloq being walked is the last frame.                  *)
(*                                                                         *)
(* A bloq is "skip", "leaf" or "parts", with its kind (of a leaf), its     *)
(* parts, the connections between them, whether it can be decomposed, and  *)
(* the T count Qualtran gives it, which need not be that of its kind: a    *)
(* Toffoli or a swap is a leaf of kind Clifford.  Decomposing what cannot  *)
(* be decomposed gives a bloq whose only part is itself.  The parts of a   *)
(* bloq are a set in Qualtran: they come in any order.                     *)
(*                                                                         *)
(* A leaf acts on one register of one qubit.  Its qubit id is looked up    *)
(* under the identity of its instance, and Python may give the identity of *)
(* an instance that has been freed to a later one.                         *)
(***************************************************************************)
EXTENDS Circuit

CONSTANT NoFirst   \* an instance that emitted no operation

ASSUME NoFirstAssumption == NoFirst \notin Nat

VARIABLES
  frames,    \* the calls of _extract_ops in progress, outermost first
  emitted,   \* operations, in emission order; next_id is their number
  links,     \* dependencies
  qubitIds,  \* the number of qubit ids given out by the flattener
  freed,     \* qubit ids of the instances of finished calls
  missed     \* history: T gates that Qualtran counts in the leaves walked,
             \* less the leaves that became T gates

qualtranVars == <<frames, emitted, links, qubitIds, freed, missed>>

NextId == Len(emitted)

-----------------------------------------------------------------------------
(* The parts of a bloq, as _extract_ops finds them. *)
PartsOf(bloq) ==
  IF bloq.type = "parts" /\ bloq.decomposes
    THEN [parts |-> bloq.parts, connections |-> bloq.connections]
    ELSE [parts |-> <<bloq>>, connections |-> {}]

(* A call of _extract_ops that has just found its parts. *)
Frame(bloq) ==
  LET found == PartsOf(bloq)
  IN  [parts |-> found.parts, connections |-> found.connections,
       left |-> DOMAIN found.parts, entered |-> NoFirst,
       first |-> [i \in DOMAIN found.parts |-> NoFirst],
       end |-> [i \in DOMAIN found.parts |-> NoFirst],
       start |-> NextId, qubits |-> {}]

Top == frames[Len(frames)]
Extracting == verdict = "open" /\ source.frontend = "qualtran" /\ frames # <<>>

(* Part i of the bloq on top, still to be walked. *)
AtPart(i, types) ==
  /\ Extracting
  /\ i \in Top.left
  /\ Top.entered = NoFirst
  /\ Top.parts[i].type \in types

(* Part i of a call is done: its operations are those from a to b. *)
Done(call, i, a, b) ==
  [call EXCEPT !.left = @ \ {i}, !.entered = NoFirst, !.first[i] = a, !.end[i] = b]

-----------------------------------------------------------------------------
SkipPart ==
  \E i \in UNION {DOMAIN frames[n].parts : n \in DOMAIN frames} :
    /\ AtPart(i, {"skip"})
    /\ frames' = [frames EXCEPT ![Len(frames)].left = @ \ {i}]
    /\ UNCHANGED <<circuitVars, emitted, links, qubitIds, freed, missed>>

LeafPart ==
  \E i \in UNION {DOMAIN frames[n].parts : n \in DOMAIN frames} :
    /\ AtPart(i, {"leaf"})
    /\ missed' = missed + Top.parts[i].tcount - (IF Top.parts[i].kind = "tgate" THEN 1 ELSE 0)
    /\ \E q \in freed \cup {qubitIds} :
         /\ emitted' = Append(emitted, Emitted(NextId, Top.parts[i].kind, <<q>>))
         /\ qubitIds' = IF q = qubitIds THEN qubitIds + 1 ELSE qubitIds
         /\ freed' = freed \ {q}
         /\ frames' = [frames EXCEPT ![Len(frames)] =
              [Done(Top, i, NextId, NextId) EXCEPT !.qubits = @ \cup {q}]]
    /\ UNCHANGED <<circuitVars, links>>

(* A call for a part that is neither.  At the depth limit the part is      *)
(* opaque: its T count becomes a chain of T gates, and a T count of zero a *)
(* Clifford gate, all on qubit 0.                                          *)
OpaqueOpsOnce(bloq) == <<Emitted(NextId, "clifford", <<0>>)>>     \* fault
OpaqueOps(bloq) ==
  IF bloq.tcount = 0 THEN <<Emitted(NextId, "clifford", <<0>>)>>
  ELSE [k \in 1 .. bloq.tcount |-> Emitted(NextId + k - 1, "tgate", <<0>>)]

OpaqueDeps(bloq) ==
  [k \in 1 .. bloq.tcount - 1 |-> [from |-> NextId + k - 1, to |-> NextId + k]]

OpaquePart ==
  \E i \in UNION {DOMAIN frames[n].parts : n \in DOMAIN frames} :
    /\ AtPart(i, {"parts"})
    /\ Len(frames) >= source.maxDepth
    /\ LET new == OpaqueOps(Top.parts[i])
       IN  /\ emitted' = emitted \o new
           /\ links' = links \o OpaqueDeps(Top.parts[i])
           /\ frames' = [frames EXCEPT ![Len(frames)] =
                Done(Top, i, NextId, NextId + Len(new) - 1)]
    /\ UNCHANGED <<circuitVars, qubitIds, freed, missed>>

EnterPart ==
  \E i \in UNION {DOMAIN frames[n].parts : n \in DOMAIN frames} :
    /\ AtPart(i, {"parts"})
    /\ Len(frames) < source.maxDepth
    /\ frames' = Append([frames EXCEPT ![Len(frames)] =
                           [Top EXCEPT !.left = @ \ {i}, !.entered = i]],
                        Frame(Top.parts[i]))
    /\ UNCHANGED <<circuitVars, emitted, links, qubitIds, freed, missed>>

(* The end of a call: a connection between two parts orders the last       *)
(* operation of one before the first of the other.                         *)
ConnectionDeps(frame) ==
  {[from |-> frame.end[c[1]], to |-> frame.first[c[2]]] :
     c \in {d \in frame.connections :
              {frame.end[d[1]], frame.first[d[2]]} \cap {NoFirst} = {}}}

LeaveCall ==
  /\ Extracting
  /\ Top.left = {}
  /\ Top.entered = NoFirst
  /\ links' = links \o SetToSeq({d \in ConnectionDeps(Top) : d.from # d.to})
  /\ freed' = freed \cup Top.qubits
  /\ LET callers == Front(frames)
         n == Len(callers)
         caller == callers[n]
     IN  frames' =
           IF n = 0 THEN <<>>
           ELSE IF NextId > Top.start
             THEN [callers EXCEPT ![n] = Done(caller, caller.entered, Top.start, NextId - 1)]
             ELSE [callers EXCEPT ![n] = Done(caller, caller.entered, NoFirst, NoFirst)]
  /\ UNCHANGED <<circuitVars, emitted, qubitIds, missed>>

(* The repeated dependencies collapse; there is always a qubit. *)
FinishQualtran ==
  /\ verdict = "open"
  /\ source.frontend = "qualtran"
  /\ frames = <<>>
  /\ IF emitted = <<>> THEN Failed("no gates")
     ELSE FromAdapterData(emitted, SetToSeq(ToSet(links)),
                          IF qubitIds = 0 THEN 1 ELSE qubitIds, 0)
  /\ UNCHANGED <<source, qualtranVars>>

QualtranStep ==
  SkipPart \/ LeafPart \/ OpaquePart \/ EnterPart \/ LeaveCall \/ FinishQualtran
=============================================================================
