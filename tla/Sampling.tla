------------------------------ MODULE Sampling ------------------------------
(***************************************************************************)
(* Every way many simulations are run, with the sequence of points that a  *)
(* Sobol analysis draws on as a job of its own.                            *)
(***************************************************************************)
EXTENDS Analyses, SobolSequence

vars == <<analysisVars, sequenceVars>>

Init == AnalysisInit /\ SequenceIdle

JobStep ==
  \/ AnalysisStep /\ UNCHANGED sequenceVars
  \/ SequenceStep /\ UNCHANGED <<poolVars, trajectories, matrices>>

Ended == phase \notin {"start", "pool", "design", "built", "batch", "collected", "walking"}

Next == JobStep \/ (Ended /\ UNCHANGED vars)

(* A job goes on until it ends.                                            *)
Spec == Init /\ [][Next]_vars /\ WF_vars(JobStep)

-----------------------------------------------------------------------------
(* In every dimension the points fill the strata evenly: one in each of n  *)
(* intervals.  And 64 points, the fewest an analysis may use, tell any two *)
(* dimensions apart save 1 and 20, which agree on the first 128 points and *)
(* part only in the next ones (sobol_sequence, JK_DIRECTION_NUMBERS).      *)
Stratified ==
  phase = "done" /\ job.kind = "sequence" =>
    LET Agree(d, e, n) == \A j \in 1 .. n : points[j][d] = points[j][e]
    IN  /\ \A d \in DOMAIN state :
             {ShiftDown(points[j][d] * job.n, Bits) : j \in DOMAIN points} = 0 .. job.n - 1
        /\ job.n >= 256 =>
             \A d, e \in DOMAIN state : d < e =>
               /\ Agree(d, e, 64) <=> d = 1 /\ e = 20
               /\ ~Agree(d, e, 256)
=============================================================================
