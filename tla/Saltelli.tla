------------------------------ MODULE Saltelli ------------------------------
(***************************************************************************)
(* sobol_analysis: Saltelli's matrices A, B and AB_i, one flat batch of    *)
(* their rows, the estimators of each parameter and the paired bootstrap.  *)
(* A coordinate is named by where it comes from: <<sequence, point,        *)
(* dimension>> of the Sobol sequence, or <<"strata", stratum, dimension>>  *)
(* of the Latin hypercube.                                                 *)
(***************************************************************************)
EXTENDS ParallelBatch

CONSTANTS
  MaxDim,        \* the dimensions of the Sobol sequence
  MinSamples,    \* 64
  MinResamples   \* 100

VARIABLE matrices   \* [a, b, ab]

IsPowerOfTwo(n) == \E k \in 0 .. n : n = 2 ^ k

CheckSobol ==
  /\ job.kind = "sobol" /\ phase = "start"
  /\ phase' = IF ~IsPowerOfTwo(job.n)              THEN "NotPowerOfTwo"
              ELSE IF job.n < MinSamples           THEN "InsufficientSamples"
              ELSE IF ~job.confident               THEN "ConfigParse"  \* confidence outside (0, 1)
              ELSE IF job.resamples < MinResamples THEN "ConfigParse"
              ELSE IF job.dim = 0                  THEN "EmptyParameterSpace"
              ELSE IF job.dim > MaxDim             THEN "TooManyParameters"
              ELSE "design"
  /\ UNCHANGED <<job, tasks, answer, report, poolVars, matrices>>

Rows == 1 .. job.n
Params == 1 .. job.dim
FromSequence(offset) == [j \in Rows |-> [d \in Params |-> <<"sequence", j, offset + d>>]]

(* In each dimension every stratum is used once, in a random order. *)
LatinHypercubes ==
  {[j \in Rows |-> [d \in Params |-> <<"strata", order[d][j], d>>]] :
     order \in [Params -> {p \in [Rows -> Rows] : \A i, j \in Rows : p[i] = p[j] => i = j}]}

Mixed(a, b, i) == [j \in Rows |-> [a[j] EXCEPT ![i] = b[j][i]]]

(* Columns of one sequence if it has enough dimensions, else a Latin       *)
(* hypercube for B.                                                        *)
BuildMatrices ==
  /\ job.kind = "sobol" /\ phase = "design"
  /\ \E b \in IF 2 * job.dim <= MaxDim THEN {FromSequence(job.dim)} ELSE LatinHypercubes :
       matrices' = [a |-> FromSequence(0), b |-> b,
                    ab |-> [i \in Params |-> Mixed(FromSequence(0), b, i)]]
  /\ phase' = "built"
  /\ UNCHANGED <<job, tasks, answer, report, poolVars>>

(* A, then B, then AB_1, AB_2 and on. *)
Block(i) ==
  CASE i = 0 -> matrices.a [] i = 1 -> matrices.b [] OTHER -> matrices.ab[i - 1]

EvaluateAll ==
  /\ job.kind = "sobol" /\ phase = "built"
  /\ Submit([i \in 1 .. job.n * (job.dim + 2) |->
               Task(Block((i - 1) \div job.n)[1 + ((i - 1) % job.n)], i - 1)])
  /\ phase' = "batch"
  /\ UNCHANGED <<job, answer, report, matrices>>

(* Fault: the block of parameter i starts one block early. *)
EarlyStart(i) == i * job.n
Start(i) == (1 + i) * job.n

FA(j) == answer.values[j]
FB(j) == answer.values[job.n + j]
FAB(i, j) == answer.values[Start(i) + j]

(* The terms the estimators of parameter i sum: fb * (fab - fa) for S1 and *)
(* (fa - fab)^2 for ST.                                                    *)
Terms(i, rows) == [k \in Rows |-> [fa |-> FA(rows[k]), fb |-> FB(rows[k]), fab |-> FAB(i, rows[k])]]

(* The estimators on the rows themselves and on one bootstrap resample of  *)
(* them, the same rows for every vector.                                   *)
ComputeIndices ==
  /\ job.kind = "sobol" /\ phase = "collected"
  /\ \E rows \in [Rows -> Rows] :
       report' = [i \in Params |->
                    [estimate |-> Terms(i, [j \in Rows |-> j]), resample |-> Terms(i, rows)]]
  /\ phase' = "done"
  /\ UNCHANGED <<job, tasks, answer, poolVars, matrices>>

SobolStep == CheckSobol \/ BuildMatrices \/ EvaluateAll \/ ComputeIndices
=============================================================================
