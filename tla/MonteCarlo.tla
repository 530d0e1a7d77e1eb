----------------------------- MODULE MonteCarlo -----------------------------
(***************************************************************************)
(* run_monte_carlo: a preflight construction of the engine, a thread pool  *)
(* if one is asked for, one task per replica, and the order statistics of  *)
(* their summaries.  job.metric gives a replica's metric.                  *)
(***************************************************************************)
EXTENDS ParallelBatch, SequencesExt

CONSTANT Multiplier   \* of the seeds of factories

ASSUME MultiplierAssumption == Multiplier \in Nat

Preflight ==
  /\ job.kind = "montecarlo" /\ phase = "start"
  /\ phase' = IF Fails(Task("hardware", 0)) THEN "EngineError" ELSE "pool"
  /\ UNCHANGED <<job, tasks, answer, report, poolVars>>

PoolFails ==
  /\ phase = "pool" /\ job.threads # NoThreads
  /\ phase' = "ThreadPoolError"
  /\ UNCHANGED <<job, tasks, answer, report, poolVars>>

RunReplicas ==
  /\ phase = "pool"
  /\ Submit([i \in 1 .. IF job.replicas < 1 THEN 1 ELSE job.replicas |->
               Task("hardware", i - 1)])
  /\ phase' = "batch"
  /\ UNCHANGED <<job, answer, report>>

(* Engine::new seeds the stream of factory i; the width of a seed is that  *)
(* of Modulus.                                                             *)
FactorySeed(seed, i) == (((seed + i) % Modulus) * Multiplier) % Modulus

-----------------------------------------------------------------------------
(* Distributions. *)

Percentiles == <<5, 25, 50, 75, 95>>

(* round(p * (n - 1)), p in percent; halves go up. *)
PercentileIndex(p, n) == 1 + ((2 * p * (n - 1) + 100) \div 200)

(* The values in order: fewer than i of them are smaller than the one at   *)
(* place i, and at least i are no greater.                                 *)
AtPlace(values, i, v) ==
  /\ Cardinality({j \in DOMAIN values : values[j] < v}) < i
  /\ i <= Cardinality({j \in DOMAIN values : values[j] <= v})

UnsortedValues(values) == values   \* fault
SortedValues(values) ==
  [i \in DOMAIN values |-> CHOOSE v \in Range(values) : AtPlace(values, i, v)]

Distribution(values) ==
  LET s == SortedValues(values)
      n == Len(s)
  IN  [min |-> s[1], max |-> s[n],
       percentiles |-> [k \in DOMAIN Percentiles |-> s[PercentileIndex(Percentiles[k], n)]]]

Metric(value) == job.metric[1 + ((value.seeds[1] - job.base) % Modulus)]

Aggregate ==
  /\ job.kind = "montecarlo" /\ phase = "collected"
  /\ report' = Distribution([i \in DOMAIN answer.values |-> Metric(answer.values[i])])
  /\ phase' = "done"
  /\ UNCHANGED <<job, tasks, answer, poolVars>>

MonteCarloStep == Preflight \/ PoolFails \/ RunReplicas \/ Aggregate
=============================================================================
