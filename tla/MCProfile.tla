------------------------------ MODULE MCProfile ------------------------------
(***************************************************************************)
(* Small instances of the engine with its trace and the reductions.        *)
(***************************************************************************)
EXTENDS MCEngine, ProfileProperties

(* Circuits without hooks, and circuits of three operations in which the   *)
(* first, a measurement, may activate the last, which depends on no T gate *)
(* (it would not wait for a fixup: find_fixup_hook).                       *)
TargetDependsOnTGate(c) ==
  \E m \in Measurements(c), o \in Outcomes :
    \E k \in ToSet(TargetsOf(c, m, o)) : \E p \in ToSet(c.preds[k]) : c.kind[p] = "tgate"

ProfiledInputs ==
  Distilled(
    Plain({"clifford", "tgate"}, DependencyLists(NumOps) \cup Repeats, Routed)
      \cup {[c EXCEPT !.feedback = d] :
              d \in {0, 1},
              c \in {x \in OneHook(<<>>, <<NumOps>>, DependencyLists(NumOps)) :
                       ActivationClosed(x) /\ TargetsIndependent(x) /\ ~TargetDependsOnTGate(x)}},
    5)

(* What the theorems ask of circuits. *)
ASSUME ProfiledAssumption == \A c \in ProfiledInputs : WellMade(c)
=============================================================================
