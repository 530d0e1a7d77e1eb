------------------------------- MODULE Sample -------------------------------
(***************************************************************************)
(* The job of a sampling run, and the evaluation of one task of it: one    *)
(* point of the hardware (evaluate_point) or one replica of a Monte Carlo  *)
(* run.  A simulation is a function of its hardware and its seed, so the   *)
(* value of a task is named by its point and its seeds.                    *)
(***************************************************************************)
EXTENDS Integers, Sequences, FiniteSets

CONSTANTS
  Modulus,             \* 2^64, the range of seeds
  NoAnswer,
  NoThreads            \* MonteCarloConfig::threads = None

ASSUME ModulusAssumption == Modulus \in Nat \ {0}

VARIABLES
  job,       \* the job: what to run, with which configuration
  phase,     \* where the job is, or the error it ended with
  tasks,     \* the batch: a sequence of [point, index], <<>> until it is asked
  answer,    \* the answer of the batch
  report     \* the result of the job

jobVars == <<job, phase, tasks, answer, report>>

Task(point, index) == [point |-> point, index |-> index]

(* Task N has the seeds base + N * replicas and on. *)
Replicas == IF job.mc < 1 THEN 1 ELSE job.mc
SeedPacked(index) == (job.base + index) % Modulus   \* fault
Seed(index) == (job.base + index * Replicas) % Modulus

Value(task) ==
  [point |-> task.point,
   seeds |-> [r \in 1 .. Replicas |-> (Seed(task.index) + r - 1) % Modulus]]

(* The hardware of the point is refused, or the engine refuses it. *)
Fails(task) == task.point \in job.invalid

Outcome(task) ==
  IF Fails(task) THEN [ok |-> FALSE, task |-> task] ELSE [ok |-> TRUE, value |-> Value(task)]
=============================================================================
