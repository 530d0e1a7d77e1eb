------------------------------ MODULE Analyses ------------------------------
(***************************************************************************)
(* The jobs that run many simulations: the replicas of a Monte Carlo run,  *)
(* a Morris screening, a Sobol analysis; and what their results rest on.   *)
(***************************************************************************)
EXTENDS MonteCarlo, Morris, Saltelli

CONSTANT Jobs

ASSUME JobsAssumption ==
  /\ MinSamples \in Nat \ {0}
  /\ \A j \in Jobs :
       /\ j.mc \in Nat /\ j.base \in Nat
       /\ j.kind = "montecarlo" =>
            /\ j.replicas \in Nat /\ j.mc = 1
            /\ j.metric \in [1 .. IF j.replicas < 1 THEN 1 ELSE j.replicas -> Int]
       /\ j.kind = "morris" =>
            /\ j.trajectories \in Nat /\ j.dim \in Nat
            /\ j.levels \in Nat /\ j.grid \subseteq 0 .. j.levels - 1
       /\ j.kind = "sobol" => j.n \in Nat /\ j.dim \in Nat

analysisVars == <<jobVars, poolVars, trajectories, matrices>>

AnalysisInit ==
  /\ job \in Jobs
  /\ phase = "start"
  /\ tasks = <<>> /\ answer = NoAnswer /\ report = NoAnswer
  /\ PoolInit
  /\ trajectories = <<>> /\ matrices = <<>>

AnalysisStep ==
  \/ PoolStep       /\ UNCHANGED <<trajectories, matrices>>
  \/ MonteCarloStep /\ UNCHANGED <<trajectories, matrices>>
  \/ MorrisStep     /\ UNCHANGED matrices
  \/ SobolStep      /\ UNCHANGED trajectories

(* The caller waits for its job, and rayon's workers do not sleep while    *)
(* tasks are left.                                                         *)
AnalysisSpec ==
  AnalysisInit /\ [][AnalysisStep]_analysisVars /\ WF_analysisVars(AnalysisStep)

-----------------------------------------------------------------------------
(* However the workers interleave, a batch that is asked for is answered,  *)
(* with every value in its place or, if a task fails, with the failure of  *)
(* one that did (par_iter, collect::<Result>).                             *)
Asked ==
  INSTANCE Batch WITH outcomes <- [i \in DOMAIN tasks |-> Outcome(tasks[i])]
BatchAnswered == Asked!BatchSpec

(* No two tasks of a batch share a seed, as long as there are no more      *)
(* replicas than seeds: wrapping around the end of the range is harmless   *)
(* ("Non-overlapping across points", evaluate_point).                      *)
SeedsApart ==
  Len(tasks) * Replicas <= Modulus =>
    \A i, j \in DOMAIN tasks :
      i # j => Range(Value(tasks[i]).seeds) \cap Range(Value(tasks[j]).seeds) = {}

(* The replicas are independent simulations ("Run `config.replicas`        *)
(* independent simulations"): no factory of one draws from the stream of a *)
(* factory of another.  They are seeded one apart, and so are the          *)
(* factories of one replica: its stream i + 1 is stream i of the next      *)
(* replica (run_monte_carlo; Engine::new, factory_seed).                   *)
ReplicasIndependent ==
  job.kind = "montecarlo" =>
    \A r, s \in DOMAIN tasks : \A i, j \in 0 .. 2 :
      r # s => FactorySeed(Value(tasks[r]).seeds[1], i) # FactorySeed(Value(tasks[s]).seeds[1], j)

(* Order statistics: every percentile is the metric of some replica, they  *)
(* do not decrease, and the extremes bound them, whatever the metrics of   *)
(* the replicas (distribution_from, percentile).                           *)
PercentilesOrdered ==
  job.kind = "montecarlo" /\ phase = "done" =>
    LET p == report.percentiles
        values == {Metric(answer.values[i]) : i \in DOMAIN answer.values}
    IN  /\ Range(p) \cup {report.min, report.max} \subseteq values
        /\ \A v \in values : report.min <= v /\ v <= report.max
        /\ \A k \in 2 .. Len(p) : p[k - 1] <= p[k]

(* An elementary effect belongs to its parameter: each trajectory gives    *)
(* every parameter one, and the two points compared differ in that         *)
(* parameter alone, by exactly delta in the direction of the sign, inside  *)
(* the cube ("no clamping and no zero-perturbation artifacts",             *)
(* generate_trajectories; extract_elementary_effects).                     *)
EffectsIsolated ==
  job.kind = "morris" /\ phase = "done" =>
    \A k \in Dims : \A t \in 1 .. job.trajectories :
      LET e == report[k][t]
          x == e.before.point
          y == e.after.point
      IN  /\ x \in Range(trajectories[t].points)
          /\ y = [x EXCEPT ![k] = @ + e.sign * Delta]
          /\ y[k] \in 0 .. job.levels - 1

(* The estimators of a parameter compare, row by row, A with B and with    *)
(* the row of A that has this one coordinate from B; in a bootstrap        *)
(* resample too the three values are of one row; and no coordinate is both *)
(* in A and in B (build_saltelli_matrices, evaluate_all, compute_indices,  *)
(* bootstrap_ci).                                                          *)
Paired(i, term) ==
  LET a == term.fa.point
      b == term.fb.point
  IN  /\ \E j \in Rows : a = matrices.a[j] /\ b = matrices.b[j]
      /\ term.fab.point = [a EXCEPT ![i] = b[i]]
      /\ Range(a) \cap Range(b) = {}
SaltelliPartition ==
  job.kind = "sobol" /\ phase = "done" =>
    \A i \in Params : \A terms \in {report[i].estimate, report[i].resample} :
      \A k \in Rows : Paired(i, terms[k])
=============================================================================
