------------------------------ MODULE MCEngine ------------------------------
(***************************************************************************)
(* Small instances of the engine.  A run starts from every circuit of a    *)
(* set: all forward dependency relations over the operations, all kinds    *)
(* from a given list.                                                      *)
(***************************************************************************)
EXTENDS EngineProperties

CONSTANTS h1, h2

(* Dependency lists: every set of forward edges, in lexicographic order. *)
ForwardEdges(n) ==
  SetToSortSeq({e \in (1 .. n) \X (1 .. n) : e[1] < e[2]},
               LAMBDA a, b : a[1] < b[1] \/ (a[1] = b[1] /\ a[2] < b[2]))
DependencyLists(n) ==
  {SelectSeq(ForwardEdges(n), LAMBDA e : e \in E) :
     E \in SUBSET {ForwardEdges(n)[i] : i \in DOMAIN ForwardEdges(n)}}

(* Lists of two with the first dependency repeated, as an adapter does for *)
(* two gates in a row on the same two qubits.                              *)
Repeats == {<<d[1]>> \o d : d \in {x \in DependencyLists(NumOps) : Len(x) = 2}}

(* A factory that always produces, after one cycle or after two, and one   *)
(* of one round of two cycles that succeeds, or aborts after one.          *)
CultivationDraws == {[type |-> "produced", delay |-> d] : d \in {1, 2}}
DistillationDraws == {[type |-> "produced", delay |-> 2], [type |-> "failed", delay |-> 1]}

(* The circuits of C on distillation, with a limit. *)
Distilled(C, limit) == {[c EXCEPT !.draws = DistillationDraws, !.limit = limit] : c \in C}

NoTargets == [h \in HookIds |-> [o \in Outcomes |-> <<>>]]

Built(kind, hook, act, deps, route, targets) ==
  [kind |-> kind, hook |-> hook, active |-> act, route |-> route,
   succs |-> Successors(Ops, deps), preds |-> Predecessors(Ops, deps),
   targets |-> targets, feedback |-> 1, draws |-> CultivationDraws, limit |-> NoLimit]

(* Circuits without hooks. *)
Plain(kinds, deps, route) ==
  {Built(k, [o \in Ops |-> NoHook], Ops, d, route, NoTargets) :
     k \in [Ops -> kinds], d \in deps}

Routed == [o \in Ops |-> IF o = 2 THEN 1 ELSE 0]
Unrouted == [o \in Ops |-> 0]

(* Measurements given by the function hooks; the operations of hook h      *)
(* activated by outcome o are targets[h][o].  All others start active.     *)
Hooked(kinds, deps, hooks, targets) ==
  {Built([o \in Ops |-> IF o \in DOMAIN hooks THEN "measurement" ELSE k[o]],
         [o \in Ops |-> IF o \in DOMAIN hooks THEN hooks[o] ELSE NoHook],
         {o \in Ops : \A h \in HookIds, x \in Outcomes : o \notin ToSet(targets[h][x])},
         d, Unrouted, targets) :
     k \in [Ops -> kinds], d \in deps}

(* One measurement, operation 1, activating T0 or T1. *)
OneHook(T0, T1, lists) ==
  Hooked({"clifford", "tgate"}, lists, 1 :> h1,
         [NoTargets EXCEPT ![h1] = (0 :> T0) @@ (1 :> T1)])

(* Repeat until success: operation 1 activates operation 2, a measurement  *)
(* that activates the last operation.                                      *)
TwoHooks ==
  Hooked({"clifford", "tgate"}, DependencyLists(NumOps), (1 :> h1) @@ (2 :> h2),
         [NoTargets EXCEPT ![h1] = (0 :> <<>>) @@ (1 :> <<2>>),
                           ![h2] = (0 :> <<NumOps>>) @@ (1 :> <<>>)])

Adaptive ==
  OneHook(<<>>, <<NumOps>>, DependencyLists(NumOps) \cup Repeats)
    \cup OneHook(<<NumOps - 1>>, <<NumOps, NumOps - 1>>, DependencyLists(NumOps))
    \cup TwoHooks

Closed == {c \in Adaptive : ActivationClosed(c)}
AdaptiveInputs ==
  {[c EXCEPT !.feedback = d] : c \in Closed, d \in {1, 2}}
    \cup {[c EXCEPT !.feedback = 0] : c \in {x \in Closed : TargetsIndependent(x)}}
    \cup Distilled({c \in TwoHooks : ActivationClosed(c)}, 6)

(* Circuits outside these: feedback without a delay whatever the targets   *)
(* depend on, and active operations that wait for one never activated.     *)
InstantInputs == {[c EXCEPT !.feedback = 0] : c \in Closed}
OpenInputs == {c \in Adaptive : ~ActivationClosed(c)}

(* What the theorems ask of a circuit. *)
WellMade(c) ==
  /\ SameEdges(c) /\ Acyclic(c) /\ ActivatedOnce(c) /\ ActivationClosed(c)
  /\ c.feedback = 0 => TargetsIndependent(c)
ASSUME AdaptiveAssumption == \A c \in AdaptiveInputs : WellMade(c)
=============================================================================
