--------------------------- MODULE AnalysisProofs ---------------------------
(***************************************************************************)
(* Proofs about the analyses, for every number of tasks, workers, rows and *)
(* parameters: the pool answers its batch, tasks share no seed, and every  *)
(* Sobol estimator compares the rows it is meant to compare.               *)
(***************************************************************************)
EXTENDS Analyses, FiniteSetTheorems, SequenceTheorems, NaturalsInduction,
  WellFoundedInduction, TLAPS

(* A batch: at least one task, the one at place i with index i - 1.        *)
Indexed(list) ==
  \E n \in Nat \ {0} : list = [i \in 1 .. n |-> Task(list[i].point, i - 1)]

(* What the checks of a job leave to its later phases. *)
Sized ==
  /\ job.kind = "morris" => job.trajectories >= 2 /\ job.dim >= 1
  /\ job.kind = "sobol" => job.n >= 1 /\ job.dim >= 1

(* Every task is pending, being worked on, in its slot, or has failed; if  *)
(* none has failed yet, none is missing.                                   *)
PoolInv ==
  /\ pending \cup running \cup DOMAIN results \subseteq DOMAIN tasks
  /\ results = [k \in DOMAIN results |-> Value(tasks[k])]
  /\ \A k \in DOMAIN results : ~Fails(tasks[k])
  /\ error = <<>> => DOMAIN tasks = pending \cup running \cup DOMAIN results
  /\ error # <<>> => \E i \in DOMAIN tasks : Fails(tasks[i]) /\ error = <<tasks[i]>>

AllValues == [i \in DOMAIN tasks |-> Value(tasks[i])]

Asking == {"start", "pool", "design", "built"}
Answering == {"collected", "done"}

AnalysisInv ==
  /\ job \in Jobs
  /\ phase = "pool" => job.kind = "montecarlo"
  /\ phase \in {"design", "built"} => Sized
  /\ phase \in Asking => tasks = <<>> /\ answer = NoAnswer
  /\ tasks = <<>> \/ Indexed(tasks)
  /\ phase = "batch" => tasks # <<>> /\ answer = NoAnswer /\ PoolInv
  /\ phase \in Answering => tasks # <<>> /\ answer = [ok |-> TRUE, values |-> AllValues]

-----------------------------------------------------------------------------
LEMMA IndexedShape ==
  ASSUME NEW list, Indexed(list)
  PROVE  /\ list # <<>> /\ Len(list) \in Nat /\ DOMAIN list = 1 .. Len(list)
         /\ \A i \in DOMAIN list : list[i].index = i - 1
<1>1. PICK n \in Nat \ {0} : list = [i \in 1 .. n |-> Task(list[i].point, i - 1)]
  BY DEF Indexed
<1>2. list \in [1 .. n -> {list[i] : i \in 1 .. n}]
  BY <1>1
<1>3. list \in Seq({list[i] : i \in 1 .. n})
  BY <1>2
<1>4. Len(list) = n /\ DOMAIN list = 1 .. n
  BY <1>2, <1>3
<1> QED
  BY <1>1, <1>4 DEF Task

LEMMA NewBatch ==
  ASSUME NEW n \in Nat \ {0}, NEW f,
         NEW list, list = [i \in 1 .. n |-> Task(f[i], i - 1)]
  PROVE  Indexed(list) /\ DOMAIN list = 1 .. n
BY DEF Indexed, Task

(* A batch that is handed over is wholly pending.                          *)
LEMMA SubmitInv ==
  ASSUME NEW list, Indexed(list), Submit(list), UNCHANGED job
  PROVE  Indexed(tasks)' /\ PoolInv'
BY DEF Submit, PoolInv, Indexed, Task

LEMMA AnalysisInitInv == AnalysisInit => AnalysisInv
BY DEF AnalysisInit, AnalysisInv, Asking, Answering

(* The analyses hand over a batch, and only from a phase before it.        *)
LEMMA RunReplicasInv == AnalysisInv /\ RunReplicas => AnalysisInv'
<1> SUFFICES ASSUME AnalysisInv, RunReplicas PROVE AnalysisInv'
  OBVIOUS
<1> DEFINE n == IF job.replicas < 1 THEN 1 ELSE job.replicas
           f == [i \in 1 .. n |-> "hardware"]
           list == [i \in 1 .. n |-> Task("hardware", i - 1)]
<1>1. job \in Jobs /\ job.kind = "montecarlo" /\ answer = NoAnswer
  BY DEF AnalysisInv, RunReplicas, Asking
<1>2. n \in Nat \ {0}
  BY <1>1, JobsAssumption
<1>3. Submit(list) /\ phase' = "batch" /\ UNCHANGED <<job, answer>>
  BY DEF RunReplicas
<1>4. list = [i \in 1 .. n |-> Task(f[i], i - 1)]
  OBVIOUS
<1> HIDE DEF n, f, list
<1>5. Indexed(list)
  BY <1>2, <1>4, NewBatch
<1>6. Indexed(tasks)' /\ PoolInv'
  BY <1>3, <1>5, SubmitInv
<1>7. tasks' # <<>>
  BY <1>3, <1>5, IndexedShape DEF Submit
<1> QED
  BY <1>1, <1>3, <1>6, <1>7 DEF AnalysisInv, Asking, Answering

LEMMA EvaluateTrajectoriesInv == AnalysisInv /\ EvaluateTrajectories => AnalysisInv'
<1> SUFFICES ASSUME AnalysisInv, EvaluateTrajectories PROVE AnalysisInv'
  OBVIOUS
<1> DEFINE n == job.trajectories * PointsPerTrajectory
           f == [i \in 1 .. n |->
                   trajectories[1 + ((i - 1) \div PointsPerTrajectory)]
                     .points[1 + ((i - 1) % PointsPerTrajectory)]]
           list == [i \in 1 .. n |->
                      Task(trajectories[1 + ((i - 1) \div PointsPerTrajectory)]
                             .points[1 + ((i - 1) % PointsPerTrajectory)], i - 1)]
<1>1. job \in Jobs /\ job.kind = "morris" /\ answer = NoAnswer /\ Sized
  BY DEF AnalysisInv, EvaluateTrajectories, Asking
<1>2. n \in Nat \ {0}
  <2>1. job.trajectories \in Nat /\ job.dim \in Nat /\ job.trajectories >= 2 /\ job.dim >= 1
    BY <1>1, JobsAssumption DEF Sized
  <2> QED
    BY <2>1 DEF PointsPerTrajectory
<1>3. Submit(list) /\ phase' = "batch" /\ UNCHANGED <<job, answer>>
  BY DEF EvaluateTrajectories
<1>4. list = [i \in 1 .. n |-> Task(f[i], i - 1)]
  OBVIOUS
<1> HIDE DEF n, f, list
<1>5. Indexed(list)
  BY <1>2, <1>4, NewBatch
<1>6. Indexed(tasks)' /\ PoolInv'
  BY <1>3, <1>5, SubmitInv
<1>7. tasks' # <<>>
  BY <1>3, <1>5, IndexedShape DEF Submit
<1> QED
  BY <1>1, <1>3, <1>6, <1>7 DEF AnalysisInv, Asking, Answering

(* The rows of A, B and the AB_i, one after another.                       *)
BlockCount == job.n * (job.dim + 2)
RowAt(i) == Block((i - 1) \div job.n)[1 + ((i - 1) % job.n)]
FlatBatch == [i \in 1 .. BlockCount |-> Task(RowAt(i), i - 1)]

LEMMA FlatBatchIndexed ==
  ASSUME AnalysisInv, job.kind = "sobol", Sized
  PROVE  Indexed(FlatBatch) /\ DOMAIN FlatBatch = 1 .. BlockCount /\ BlockCount \in Nat \ {0}
<1> DEFINE f == [i \in 1 .. BlockCount |-> RowAt(i)]
<1>1. BlockCount \in Nat \ {0}
  <2>1. job.n \in Nat /\ job.dim \in Nat /\ job.n >= 1 /\ job.dim >= 1
    BY JobsAssumption DEF Sized, AnalysisInv
  <2> QED
    BY <2>1 DEF BlockCount
<1>2. FlatBatch = [i \in 1 .. BlockCount |-> Task(f[i], i - 1)]
  BY DEF FlatBatch
<1> HIDE DEF f
<1> QED
  BY <1>1, <1>2, NewBatch

LEMMA EvaluateAllInv == AnalysisInv /\ EvaluateAll => AnalysisInv' /\ tasks' = FlatBatch
<1> SUFFICES ASSUME AnalysisInv, EvaluateAll PROVE AnalysisInv' /\ tasks' = FlatBatch
  OBVIOUS
<1>1. job \in Jobs /\ job.kind = "sobol" /\ answer = NoAnswer /\ Sized
  BY DEF AnalysisInv, EvaluateAll, Asking
<1>2. Submit(FlatBatch) /\ phase' = "batch" /\ UNCHANGED <<job, answer>>
  BY DEF EvaluateAll, FlatBatch, BlockCount, RowAt
<1>3. Indexed(FlatBatch)
  BY <1>1, FlatBatchIndexed
<1>4. Indexed(tasks)' /\ PoolInv'
  BY <1>2, <1>3, SubmitInv
<1>5. tasks' = FlatBatch
  BY <1>2 DEF Submit
<1>6. tasks' # <<>>
  BY <1>3, <1>5, IndexedShape
<1> QED
  BY <1>1, <1>2, <1>4, <1>5, <1>6 DEF AnalysisInv, Asking, Answering

-----------------------------------------------------------------------------
(* The pool. *)

LEMMA SameBatch ==
  ASSUME UNCHANGED <<job, tasks>>
  PROVE  /\ Indexed(tasks)' <=> Indexed(tasks)
         /\ \A t : (Value(t)' = Value(t)) /\ (Fails(t)' <=> Fails(t))
         /\ AllValues' = AllValues
BY DEF Indexed, Task, Value, Fails, Seed, Replicas, AllValues

LEMMA PoolStepInv ==
  AnalysisInv /\ PoolStep => /\ AnalysisInv' /\ UNCHANGED <<job, tasks>>
                             /\ answer' # answer => Collect
<1> SUFFICES ASSUME AnalysisInv, PoolStep
             PROVE  /\ AnalysisInv' /\ UNCHANGED <<job, tasks>>
                    /\ answer' # answer => Collect
  OBVIOUS
<1>1. UNCHANGED <<job, tasks>>
  BY DEF PoolStep, TakeTask, FinishTask, DropTasks, Collect, jobVars
<1>2. /\ phase = "batch" /\ tasks # <<>> /\ Indexed(tasks)
      /\ answer = NoAnswer /\ PoolInv /\ job \in Jobs
  BY DEF PoolStep, TakeTask, FinishTask, DropTasks, Collect, AnalysisInv
<1>3. ASSUME UNCHANGED jobVars, PoolInv'
      PROVE  AnalysisInv'
  BY <1>1, <1>2, <1>3, SameBatch DEF jobVars, AnalysisInv, Asking, Answering
<1>4. CASE TakeTask
  <2>1. PoolInv'
    BY <1>1, <1>2, <1>4, SameBatch DEF TakeTask, PoolInv
  <2> QED
    BY <1>1, <1>3, <1>4, <2>1 DEF TakeTask, jobVars
<1>5. CASE FinishTask
  <2>1. PICK i \in running :
          /\ running' = running \ {i}
          /\ IF Fails(tasks[i])
               THEN /\ error' = IF error = <<>> THEN <<tasks[i]>> ELSE error
                    /\ UNCHANGED results
               ELSE /\ results' = [k \in DOMAIN results \cup {Slot(i)} |->
                                     IF k = Slot(i) THEN Value(tasks[i]) ELSE results[k]]
                    /\ UNCHANGED error
    BY <1>5 DEF FinishTask
  <2>2. pending' = pending /\ i \in DOMAIN tasks
    BY <1>2, <1>5 DEF FinishTask, PoolInv
  <2>3. CASE Fails(tasks[i])
    <3>1. results' = results /\ error' # <<>>
      BY <2>1, <2>3
    <3>2. \E j \in DOMAIN tasks : Fails(tasks[j]) /\ error' = <<tasks[j]>>
      BY <1>2, <2>1, <2>2, <2>3 DEF PoolInv
    <3> QED
      BY <1>1, <1>2, <1>3, <1>5, <2>1, <2>2, <3>1, <3>2, SameBatch
      DEF FinishTask, PoolInv, jobVars
  <2>4. CASE ~Fails(tasks[i])
    <3>1. /\ results' = [k \in DOMAIN results \cup {i} |->
                           IF k = i THEN Value(tasks[i]) ELSE results[k]]
          /\ error' = error
      BY <2>1, <2>4 DEF Slot
    <3>2. DOMAIN results' = DOMAIN results \cup {i}
      BY <3>1
    <3>3. results' = [k \in DOMAIN results' |-> Value(tasks[k])]
      BY <1>2, <3>1, <3>2 DEF PoolInv
    <3>4. \A t : (Value(t)' = Value(t)) /\ (Fails(t)' <=> Fails(t))
      BY <1>1, SameBatch
    <3>5. /\ pending' \cup running' \cup DOMAIN results' \subseteq DOMAIN tasks
          /\ error' = <<>> => DOMAIN tasks = pending' \cup running' \cup DOMAIN results'
      <4> DEFINE slots == DOMAIN results
                 all == DOMAIN tasks
      <4>1. /\ pending \cup running \cup slots \subseteq all
            /\ error = <<>> => all = pending \cup running \cup slots
        BY <1>2 DEF PoolInv
      <4>2. /\ pending' = pending /\ running' = running \ {i} /\ i \in running
            /\ DOMAIN results' = slots \cup {i} /\ error' = error
        BY <2>1, <2>2, <3>1, <3>2
      <4> HIDE DEF slots, all
      <4>3. pending' \cup running' \cup DOMAIN results' = pending \cup running \cup slots
        BY <4>2
      <4>4. /\ pending' \cup running' \cup DOMAIN results' \subseteq all
            /\ error' = <<>> => all = pending' \cup running' \cup DOMAIN results'
        BY <4>1, <4>2, <4>3
      <4> QED
        BY <4>4 DEF all
    <3>6. \A k \in DOMAIN results' : ~Fails(tasks[k])
      BY <1>2, <2>4, <3>2 DEF PoolInv
    <3>7. error' # <<>> => \E j \in DOMAIN tasks : Fails(tasks[j]) /\ error' = <<tasks[j]>>
      BY <1>2, <3>1 DEF PoolInv
    <3>8. PoolInv'
      BY <1>1, <3>3, <3>4, <3>5, <3>6, <3>7 DEF PoolInv
    <3> QED
      BY <1>1, <1>3, <1>5, <3>8 DEF FinishTask, jobVars
  <2> QED
    BY <2>3, <2>4
<1>6. CASE DropTasks
  <2>1. PoolInv'
    BY <1>1, <1>2, <1>6, SameBatch DEF DropTasks, PoolInv
  <2> QED
    BY <1>1, <1>3, <1>6, <2>1 DEF DropTasks, jobVars
<1>7. CASE Collect
  <2>1. CASE error = <<>>
    <3>1. results = AllValues
      BY <1>2, <1>7, <2>1 DEF Collect, PoolInv, AllValues
    <3>2. answer' = [ok |-> TRUE, values |-> AllValues] /\ phase' = "collected"
      BY <1>7, <2>1, <3>1 DEF Collect
    <3> QED
      BY <1>1, <1>2, <1>7, <3>2, SameBatch DEF AnalysisInv, Asking, Answering
  <2>2. CASE error # <<>>
    <3>1. phase' = "failed"
      BY <1>7, <2>2 DEF Collect
    <3> QED
      BY <1>1, <1>2, <1>7, <3>1, SameBatch DEF AnalysisInv, Asking, Answering
  <2> QED
    BY <2>1, <2>2
<1> QED
  BY <1>4, <1>5, <1>6, <1>7 DEF PoolStep

-----------------------------------------------------------------------------
(* The other steps end before the batch is asked for, or after its answer. *)

Submits == RunReplicas \/ EvaluateTrajectories \/ EvaluateAll

LEMMA ChecksSize ==
  /\ AnalysisInv /\ CheckMorris /\ phase' = "design" => Sized
  /\ AnalysisInv /\ CheckSobol /\ phase' = "design" => Sized
<1>1. ASSUME AnalysisInv, CheckMorris, phase' = "design"
      PROVE  Sized
  <2>1. job.trajectories \in Nat /\ job.dim \in Nat /\ job.kind = "morris"
    BY <1>1, JobsAssumption DEF AnalysisInv, CheckMorris
  <2>2. ~(job.trajectories < 2) /\ job.dim # 0
    BY <1>1 DEF CheckMorris
  <2> QED
    BY <2>1, <2>2 DEF Sized
<1>2. ASSUME AnalysisInv, CheckSobol, phase' = "design"
      PROVE  Sized
  <2>1. job.n \in Nat /\ job.dim \in Nat /\ job.kind = "sobol" /\ MinSamples \in Nat \ {0}
    BY <1>2, JobsAssumption DEF AnalysisInv, CheckSobol
  <2>2. ~(job.n < MinSamples) /\ job.dim # 0
    BY <1>2 DEF CheckSobol
  <2> QED
    BY <2>1, <2>2 DEF Sized
<1> QED
  BY <1>1, <1>2

LEMMA QuietStepInv ==
  AnalysisInv /\ AnalysisStep /\ ~PoolStep /\ ~Submits
    => AnalysisInv' /\ UNCHANGED <<job, tasks, answer>>
<1> SUFFICES ASSUME AnalysisInv, AnalysisStep, ~PoolStep, ~Submits
             PROVE  AnalysisInv' /\ UNCHANGED <<job, tasks, answer>>
  OBVIOUS
<1>1. ASSUME UNCHANGED <<job, tasks, answer>>, phase # "batch", phase' # "batch",
             phase' \in {"design", "built"} => Sized,
             phase' = "pool" => job.kind = "montecarlo",
             phase' \in Asking => phase \in Asking,
             phase' \in Answering => phase \in Answering
      PROVE  AnalysisInv' /\ UNCHANGED <<job, tasks, answer>>
  BY <1>1, SameBatch DEF AnalysisInv, Sized
<1>2. CASE Preflight
  BY <1>1, <1>2 DEF Preflight, Asking, Answering
<1>3. CASE PoolFails
  BY <1>1, <1>3 DEF PoolFails, Asking, Answering
<1>4. CASE Aggregate
  BY <1>1, <1>4 DEF Aggregate, Asking, Answering
<1>5. CASE CheckMorris
  <2>1. phase = "start" /\ UNCHANGED <<job, tasks, answer>>
    BY <1>5 DEF CheckMorris
  <2>2. phase' \in {"InsufficientTrajectories", "InvalidMorrisLevels",
                    "EmptyParameterSpace", "design"}
    BY <1>5 DEF CheckMorris
  <2> QED
    BY <1>1, <1>5, <2>1, <2>2, ChecksSize DEF Asking, Answering
<1>6. CASE GenerateTrajectory
  BY <1>1, <1>6 DEF GenerateTrajectory, jobVars, AnalysisInv
<1>7. CASE ExtractEffects
  BY <1>1, <1>7 DEF ExtractEffects, Asking, Answering
<1>8. CASE CheckSobol
  <2>1. phase = "start" /\ UNCHANGED <<job, tasks, answer>>
    BY <1>8 DEF CheckSobol
  <2>2. phase' \in {"NotPowerOfTwo", "InsufficientSamples", "ConfigParse",
                    "EmptyParameterSpace", "TooManyParameters", "design"}
    BY <1>8 DEF CheckSobol
  <2> QED
    BY <1>1, <1>8, <2>1, <2>2, ChecksSize DEF Asking, Answering
<1>9. CASE BuildMatrices
  BY <1>1, <1>9 DEF BuildMatrices, Asking, Answering, AnalysisInv
<1>10. CASE ComputeIndices
  BY <1>1, <1>10 DEF ComputeIndices, Asking, Answering
<1> QED
  BY <1>2, <1>3, <1>4, <1>5, <1>6, <1>7, <1>8, <1>9, <1>10
  DEF AnalysisStep, MonteCarloStep, MorrisStep, SobolStep, Submits

LEMMA SubmitsInv == AnalysisInv /\ Submits => /\ AnalysisInv' /\ UNCHANGED <<job, answer>>
                                             /\ tasks = <<>> /\ tasks' # <<>>
<1> SUFFICES ASSUME AnalysisInv, Submits
             PROVE  /\ AnalysisInv' /\ UNCHANGED <<job, answer>>
                    /\ tasks = <<>> /\ tasks' # <<>>
  OBVIOUS
<1>1. AnalysisInv'
  BY RunReplicasInv, EvaluateTrajectoriesInv, EvaluateAllInv DEF Submits
<1>2. UNCHANGED <<job, answer>> /\ phase \in Asking /\ phase' = "batch"
  BY DEF Submits, RunReplicas, EvaluateTrajectories, EvaluateAll, Asking
<1> QED
  BY <1>1, <1>2 DEF AnalysisInv

LEMMA AnalysisStepInv == AnalysisInv /\ [AnalysisStep]_analysisVars => AnalysisInv'
<1> SUFFICES ASSUME AnalysisInv, [AnalysisStep]_analysisVars PROVE AnalysisInv'
  OBVIOUS
<1>1. CASE UNCHANGED analysisVars
  <2>1. UNCHANGED <<job, phase, tasks, answer, pending, running, results, error>>
    BY <1>1 DEF analysisVars, jobVars, poolVars
  <2>2. PoolInv' <=> PoolInv
    BY <2>1, SameBatch DEF PoolInv
  <2> QED
    BY <2>1, <2>2, SameBatch DEF AnalysisInv, Sized
<1> QED
  BY <1>1, PoolStepInv, SubmitsInv, QuietStepInv

LEMMA AlwaysAnalysisInv == AnalysisSpec => []AnalysisInv
BY AnalysisInitInv, AnalysisStepInv, PTL DEF AnalysisSpec

-----------------------------------------------------------------------------
(* The pool keeps the promise of Batch: it answers once, and with all the  *)
(* values in the order of their tasks or with a failure of one of them,    *)
(* whichever workers take the tasks and in whatever order they finish      *)
(* (par_iter().map().collect::<Result>() in run_monte_carlo,               *)
(* evaluate_trajectories and evaluate_all).                                *)
THEOREM BatchKept == AnalysisSpec => Asked!BatchSafety
<1> DEFINE outcomes == [i \in DOMAIN tasks |-> Outcome(tasks[i])]
<1>1. AnalysisInit => Asked!BatchInit
  <2> SUFFICES ASSUME AnalysisInit PROVE Asked!BatchInit
    OBVIOUS
  <2>1. tasks = <<>> /\ answer = NoAnswer
    BY DEF AnalysisInit
  <2>2. outcomes = <<>>
    BY <2>1
  <2> QED
    BY <2>1, <2>2 DEF Asked!BatchInit
<1>2. AnalysisInv /\ [AnalysisStep]_analysisVars
        => [Asked!Ask \/ Asked!Reply]_(Asked!batchVars)
  <2> SUFFICES ASSUME AnalysisInv, [AnalysisStep]_analysisVars
               PROVE  [Asked!Ask \/ Asked!Reply]_(Asked!batchVars)
    OBVIOUS
  <2>1. ASSUME UNCHANGED <<job, tasks, answer>>
        PROVE  UNCHANGED Asked!batchVars
    BY <2>1 DEF Asked!batchVars, Outcome, Value, Fails, Seed, Replicas
  <2>2. CASE UNCHANGED analysisVars
    BY <2>1, <2>2 DEF analysisVars, jobVars
  <2>3. CASE PoolStep /\ answer' = answer
    BY <2>1, <2>3, PoolStepInv
  <2>4. CASE PoolStep /\ answer' # answer
    <3>1. /\ Collect /\ UNCHANGED <<job, tasks>> /\ phase = "batch"
          /\ Indexed(tasks) /\ answer = NoAnswer /\ PoolInv
      BY <2>4, PoolStepInv DEF Collect, AnalysisInv
    <3>2. UNCHANGED outcomes
      BY <3>1 DEF Outcome, Value, Fails, Seed, Replicas
    <3>3. outcomes # <<>>
      <4>1. DOMAIN outcomes # {}
        BY <3>1, IndexedShape
      <4> QED
        BY <4>1
    <3>4. answer' \in Asked!Answers
      <4>1. CASE error = <<>>
        <5>1. /\ DOMAIN results = DOMAIN tasks
              /\ \A i \in DOMAIN tasks : ~Fails(tasks[i]) /\ results[i] = Value(tasks[i])
          BY <3>1, <4>1 DEF Collect, PoolInv
        <5>2. \A i \in DOMAIN tasks : outcomes[i] = [ok |-> TRUE, value |-> Value(tasks[i])]
          BY <5>1 DEF Outcome
        <5>3. Asked!Failures = {}
          BY <5>2 DEF Asked!Failures
        <5>4. results = [i \in DOMAIN outcomes |-> outcomes[i].value]
          BY <3>1, <5>1, <5>2 DEF PoolInv
        <5>5. answer' = Asked!Success([i \in DOMAIN outcomes |-> outcomes[i].value])
          BY <3>1, <4>1, <5>4 DEF Collect, Asked!Success
        <5> QED
          BY <5>3, <5>5 DEF Asked!Answers
      <4>2. CASE error # <<>>
        <5>1. PICK i \in DOMAIN tasks : Fails(tasks[i]) /\ error = <<tasks[i]>>
          BY <3>1, <4>2 DEF PoolInv
        <5>2. outcomes[i] = [ok |-> FALSE, task |-> tasks[i]] /\ i \in DOMAIN outcomes
          BY <5>1 DEF Outcome
        <5>3. outcomes[i] \in Asked!Failures /\ outcomes[i].task = tasks[i]
          BY <5>2 DEF Asked!Failures
        <5>4. answer' = Asked!Failure(outcomes[i].task)
          BY <3>1, <4>2, <5>1, <5>3 DEF Collect, Asked!Failure
        <5> QED
          BY <5>3, <5>4 DEF Asked!Answers
      <4> QED
        BY <4>1, <4>2
    <3> QED
      BY <3>1, <3>2, <3>3, <3>4 DEF Asked!Reply
  <2>5. CASE Submits
    <3>1. UNCHANGED <<job, answer>> /\ tasks = <<>> /\ tasks' # <<>> /\ Indexed(tasks)'
      BY <2>5, SubmitsInv DEF AnalysisInv
    <3>2. outcomes = <<>>
      BY <3>1
    <3>3. DOMAIN outcomes' # {}
      <4>1. Indexed(tasks')
        BY <3>1 DEF Indexed, Task
      <4>2. DOMAIN tasks' # {}
        BY <4>1, IndexedShape
      <4> QED
        BY <4>2
    <3>4. outcomes' # <<>>
      BY <3>3
    <3> QED
      BY <3>1, <3>2, <3>4 DEF Asked!Ask
  <2>6. CASE AnalysisStep /\ ~PoolStep /\ ~Submits
    BY <2>1, <2>6, QuietStepInv
  <2> QED
    BY <2>2, <2>3, <2>4, <2>5, <2>6
<1> QED
  BY <1>1, <1>2, AlwaysAnalysisInv, PTL DEF AnalysisSpec, Asked!BatchSafety

-----------------------------------------------------------------------------
(* Arithmetic modulo m. *)

LEMMA Division ==
  ASSUME NEW m \in Nat \ {0}, NEW a \in Int
  PROVE  a = m * (a \div m) + (a % m) /\ a \div m \in Int /\ a % m \in 0 .. m - 1
OBVIOUS

LEMMA Quotient ==
  ASSUME NEW m \in Nat \ {0}, NEW q \in Int, NEW r \in 0 .. m - 1
  PROVE  (m * q + r) \div m = q /\ (m * q + r) % m = r
OBVIOUS

LEMMA ModAdd ==
  ASSUME NEW m \in Nat \ {0}, NEW a \in Int, NEW c \in Int
  PROVE  ((a % m) + c) % m = (a + c) % m
<1> DEFINE b == (a % m) + c
           q == a \div m
           p == b \div m
<1>1. a = m * q + (a % m) /\ q \in Int /\ a % m \in Int
  BY Division
<1>2. b \in Int
  BY <1>1
<1>3. b = m * p + (b % m) /\ p \in Int /\ b % m \in 0 .. m - 1
  BY <1>2, Division
<1> DEFINE t == b % m
<1>4. a + c = m * (q + p) + t
  <2>1. a + c = m * q + b /\ b = m * p + t /\ t \in Int
    BY <1>1, <1>3
  <2> HIDE DEF b, q, p, t
  <2>2. m * q \in Int /\ m * p \in Int /\ m * q + m * p = m * (q + p)
    BY <1>1, <1>3
  <2>3. a + c = (m * q + m * p) + t
    BY <2>1, <2>2
  <2> QED
    BY <2>2, <2>3
<1>5. q + p \in Int /\ t \in 0 .. m - 1
  BY <1>1, <1>3
<1> HIDE DEF q, p, t
<1>6. (m * (q + p) + t) % m = t
  BY <1>5, Quotient
<1>7. (a + c) % m = t
  BY <1>4, <1>6
<1> QED
  BY <1>7 DEF t

LEMMA ModApart ==
  ASSUME NEW m \in Nat \ {0}, NEW a \in Int, NEW b \in Int,
         a % m = b % m, a - b < m, b - a < m
  PROVE  a = b
<1> DEFINE p == a \div m
           q == b \div m
<1>1. a = m * p + (a % m) /\ b = m * q + (b % m) /\ p \in Int /\ q \in Int
  BY Division
<1>2. a % m \in Int
  BY Division
<1>3. a - b = m * (p - q) /\ b - a = m * (q - p)
  <2> HIDE DEF p, q
  <2>1. m * p - m * q = m * (p - q) /\ m * q - m * p = m * (q - p)
    BY <1>1
  <2> QED
    BY <1>1, <1>2, <2>1
<1> HIDE DEF p, q
<1>4. \A k \in Int : k >= 1 => m * k >= m
  OBVIOUS
<1>5. p - q < 1
  <2>1. p - q \in Int /\ ~(m * (p - q) >= m)
    BY <1>1, <1>2, <1>3
  <2> QED
    BY <1>4, <2>1
<1>6. q - p < 1
  <2>1. q - p \in Int /\ ~(m * (q - p) >= m)
    BY <1>1, <1>2, <1>3
  <2> QED
    BY <1>4, <2>1
<1>7. p = q
  BY <1>1, <1>5, <1>6
<1> QED
  BY <1>1, <1>7

(* Numbers of two rows of width w are in different places. *)
LEMMA RowsApart ==
  ASSUME NEW w \in Nat \ {0}, NEW i \in Nat, NEW j \in Nat, NEW r \in 0 .. w - 1, NEW s \in 0 .. w - 1,
         i * w + r = j * w + s
  PROVE  i = j
<1>1. (w * i + r) \div w = i /\ (w * j + s) \div w = j
  BY Quotient
<1>2. w * i = i * w /\ w * j = j * w
  OBVIOUS
<1> QED
  BY <1>1, <1>2

LEMMA RowsBounded ==
  ASSUME NEW w \in Nat \ {0}, NEW n \in Nat, NEW i \in 0 .. n - 1, NEW r \in 0 .. w - 1
  PROVE  i * w + r \in Nat /\ i * w + r < n * w
<1>1. n = i + 1 + (n - i - 1) /\ n - i - 1 \in Nat
  OBVIOUS
<1>2. n * w = i * w + w + (n - i - 1) * w
  BY <1>1
<1>3. (n - i - 1) * w \in Nat /\ i * w \in Nat
  BY <1>1
<1> QED
  BY <1>2, <1>3

(* No two tasks of a batch share a seed while there are seeds enough,      *)
(* wherever the base seed is and wherever the seeds wrap around            *)
(* (evaluate_point).                                                       *)
THEOREM SeedsDisjoint == AnalysisSpec => []SeedsApart
<1>1. AnalysisInv => SeedsApart
  <2> SUFFICES ASSUME AnalysisInv, Len(tasks) * Replicas <= Modulus,
                      NEW i \in DOMAIN tasks, NEW j \in DOMAIN tasks, i # j,
                      NEW r \in 1 .. Replicas, NEW s \in 1 .. Replicas,
                      Value(tasks[i]).seeds[r] = Value(tasks[j]).seeds[s]
               PROVE  FALSE
    BY DEF SeedsApart, Range, Value
  <2>1. job \in Jobs /\ Indexed(tasks)
    BY DEF AnalysisInv
  <2>2. Replicas \in Nat \ {0} /\ job.base \in Nat /\ Modulus \in Nat \ {0}
    BY <2>1, JobsAssumption, ModulusAssumption DEF Replicas
  <2>3. Len(tasks) \in Nat /\ DOMAIN tasks = 1 .. Len(tasks)
        /\ tasks[i].index = i - 1 /\ tasks[j].index = j - 1
    BY <2>1, IndexedShape
  <2> DEFINE R == Replicas
             x == (i - 1) * R + (r - 1)
             y == (j - 1) * R + (s - 1)
  <2>4. x \in Nat /\ y \in Nat /\ x < Modulus /\ y < Modulus
    <3>1. i - 1 \in 0 .. Len(tasks) - 1 /\ j - 1 \in 0 .. Len(tasks) - 1
          /\ r - 1 \in 0 .. R - 1 /\ s - 1 \in 0 .. R - 1
      BY <2>2, <2>3
    <3>2. x \in Nat /\ y \in Nat /\ x < Len(tasks) * R /\ y < Len(tasks) * R
      BY <2>2, <2>3, <3>1, RowsBounded
    <3>3. Len(tasks) * R <= Modulus
      OBVIOUS
    <3> DEFINE p == Len(tasks) * R
    <3>4. p \in Nat /\ p <= Modulus /\ x < p /\ y < p /\ x \in Nat /\ y \in Nat
      <4>1. p \in Nat
        BY <2>2, <2>3
      <4> QED
        BY <3>2, <3>3, <4>1
    <3> HIDE DEF p, x, y
    <3> QED
      BY <2>2, <3>4
  <2>5. Value(tasks[i]).seeds[r] = (job.base + x) % Modulus
    <3>1. Value(tasks[i]).seeds[r] = (Seed(i - 1) + (r - 1)) % Modulus
      <4>1. Value(tasks[i]).seeds[r] = (Seed(i - 1) + r - 1) % Modulus
        BY <2>3 DEF Value
      <4>2. Seed(i - 1) \in Int
        BY <2>2, <2>3 DEF Seed
      <4> QED
        BY <2>2, <4>1, <4>2
    <3>2. Seed(i - 1) = (job.base + (i - 1) * R) % Modulus
      BY DEF Seed
    <3>3. job.base + (i - 1) * R \in Int /\ r - 1 \in Int
      BY <2>2, <2>3
    <3>4. (Seed(i - 1) + (r - 1)) % Modulus = ((job.base + (i - 1) * R) + (r - 1)) % Modulus
      BY <2>2, <3>2, <3>3, ModAdd
    <3>5. (job.base + (i - 1) * R) + (r - 1) = job.base + x
      BY <2>2, <2>3, <3>3
    <3> QED
      BY <3>1, <3>4, <3>5
  <2>6. Value(tasks[j]).seeds[s] = (job.base + y) % Modulus
    <3>1. Value(tasks[j]).seeds[s] = (Seed(j - 1) + (s - 1)) % Modulus
      <4>1. Value(tasks[j]).seeds[s] = (Seed(j - 1) + s - 1) % Modulus
        BY <2>3 DEF Value
      <4>2. Seed(j - 1) \in Int
        BY <2>2, <2>3 DEF Seed
      <4> QED
        BY <2>2, <4>1, <4>2
    <3>2. Seed(j - 1) = (job.base + (j - 1) * R) % Modulus
      BY DEF Seed
    <3>3. job.base + (j - 1) * R \in Int /\ s - 1 \in Int
      BY <2>2, <2>3
    <3>4. (Seed(j - 1) + (s - 1)) % Modulus = ((job.base + (j - 1) * R) + (s - 1)) % Modulus
      BY <2>2, <3>2, <3>3, ModAdd
    <3>5. (job.base + (j - 1) * R) + (s - 1) = job.base + y
      BY <2>2, <2>3, <3>3
    <3> QED
      BY <3>1, <3>4, <3>5
  <2> HIDE DEF x, y
  <2>7. x = y
    <3> DEFINE u == job.base + x
               v == job.base + y
    <3>1. u \in Int /\ v \in Int /\ u - v < Modulus /\ v - u < Modulus
      BY <2>2, <2>4
    <3>2. u % Modulus = v % Modulus
      BY <2>5, <2>6
    <3> HIDE DEF u, v
    <3>3. u = v
      BY <2>2, <3>1, <3>2, ModApart
    <3> QED
      BY <2>2, <2>4, <3>3 DEF u, v
  <2>8. i - 1 = j - 1
    <3>1. i - 1 \in Nat /\ j - 1 \in Nat /\ r - 1 \in 0 .. R - 1 /\ s - 1 \in 0 .. R - 1
      BY <2>2, <2>3
    <3> QED
      BY <2>2, <2>7, <3>1, RowsApart DEF x, y
  <2> QED
    BY <2>3, <2>8
<1> QED
  BY <1>1, AlwaysAnalysisInv, PTL

-----------------------------------------------------------------------------
(* Sobol: from the matrices to the rows the estimators compare. *)

Designs == {FromSequence(job.dim)} \cup LatinHypercubes
Drawn ==
  \E b \in Designs :
    matrices = [a |-> FromSequence(0), b |-> b,
                ab |-> [i \in Params |-> Mixed(FromSequence(0), b, i)]]

SobolInv ==
  job.kind = "sobol" =>
    /\ phase \in {"built", "batch", "collected"} => Drawn /\ Sized
    /\ phase \in {"batch", "collected"} => tasks = FlatBatch
    /\ phase = "done" => SaltelliPartition

(* Row r of A, of B and of AB_i, and the coordinates A and B draw on.      *)
LEMMA RowsDrawn ==
  ASSUME Drawn, job.n \in Nat, job.dim \in Nat, NEW r \in Rows
  PROVE  /\ \A i \in Params :
              matrices.ab[i][r] = [matrices.a[r] EXCEPT ![i] = matrices.b[r][i]]
         /\ Range(matrices.a[r]) \cap Range(matrices.b[r]) = {}
<1>1. PICK b \in Designs :
        matrices = [a |-> FromSequence(0), b |-> b,
                    ab |-> [i \in Params |-> Mixed(FromSequence(0), b, i)]]
  BY DEF Drawn
<1>2. matrices.a = FromSequence(0) /\ matrices.b = b
  BY <1>1
<1>3. \A i \in Params : matrices.ab[i] = Mixed(FromSequence(0), b, i)
  BY <1>1
<1>4. ASSUME NEW i \in Params
      PROVE  matrices.ab[i][r] = [matrices.a[r] EXCEPT ![i] = matrices.b[r][i]]
  <2>1. Mixed(FromSequence(0), b, i)[r] = [FromSequence(0)[r] EXCEPT ![i] = b[r][i]]
    BY DEF Mixed
  <2> QED
    BY <1>2, <1>3, <2>1
<1>5. matrices.a[r] = [d \in Params |-> <<"sequence", r, 0 + d>>]
  BY <1>2 DEF FromSequence
<1>6. Range(matrices.a[r]) \subseteq {<<"sequence", r, 0 + d>> : d \in Params}
  BY <1>5 DEF Range
<1>7. CASE b = FromSequence(job.dim)
  <2>1. matrices.b[r] = [d \in Params |-> <<"sequence", r, job.dim + d>>]
    BY <1>2, <1>7 DEF FromSequence
  <2>2. Range(matrices.b[r]) \subseteq {<<"sequence", r, job.dim + d>> : d \in Params}
    BY <2>1 DEF Range
  <2>3. \A d, e \in Params : 0 + d # job.dim + e
    BY DEF Params
  <2> QED
    BY <1>4, <1>6, <2>2, <2>3
<1>8. CASE b \in LatinHypercubes
  <2>1. PICK order : b = [j \in Rows |-> [d \in Params |-> <<"strata", order[d][j], d>>]]
    BY <1>8 DEF LatinHypercubes
  <2>2. matrices.b[r] = [d \in Params |-> <<"strata", order[d][r], d>>]
    BY <1>2, <2>1
  <2>3. Range(matrices.b[r]) \subseteq {<<"strata", order[d][r], d>> : d \in Params}
    BY <2>2 DEF Range
  <2> QED
    BY <1>4, <1>6, <2>3
<1> QED
  BY <1>7, <1>8 DEF Designs

(* Place i * n + r of the batch holds row r of block i. *)
LEMMA RowOfBlock ==
  ASSUME job.n \in Nat \ {0}, job.dim \in Nat, NEW i \in 0 .. job.dim + 1, NEW r \in Rows
  PROVE  /\ i * job.n + r \in 1 .. BlockCount
         /\ RowAt(i * job.n + r) = Block(i)[r]
<1> DEFINE n == job.n
           t == r - 1
           y == i * n + r
           x == y - 1
<1>1. t \in 0 .. n - 1 /\ i \in Nat /\ r \in Nat
  BY DEF Rows
<1>2. i * n \in Nat /\ i * n = n * i
  BY <1>1
<1>3. x = n * i + t
  <2> DEFINE p == i * n
  <2>1. p \in Nat /\ y = p + r /\ p = n * i
    BY <1>2
  <2> HIDE DEF p, y, n
  <2> QED
    BY <1>1, <2>1
<1>4. x \div n = i /\ x % n = t
  <2>1. n \in Nat \ {0} /\ i \in Int
    OBVIOUS
  <2> HIDE DEF n, t, x
  <2> QED
    BY <1>1, <1>3, <2>1, Quotient
<1>5. RowAt(i * n + r) = Block(i)[1 + (r - 1)]
  <2>1. \A z : RowAt(z) = Block((z - 1) \div n)[1 + ((z - 1) % n)]
    BY DEF RowAt
  <2> HIDE DEF y, n, t
  <2>2. RowAt(y) = Block(i)[1 + t]
    BY <1>4, <2>1
  <2> QED
    BY <2>2 DEF y, t
<1>6. 1 + (r - 1) = r
  BY <1>1
<1>7. i * n + (r - 1) < (job.dim + 2) * n
  <2>1. job.dim + 2 \in Nat /\ i \in 0 .. (job.dim + 2) - 1
    OBVIOUS
  <2> QED
    BY <1>1, <2>1, RowsBounded
<1>8. (job.dim + 2) * n = BlockCount /\ BlockCount \in Nat
  BY DEF BlockCount
<1>9. i * n + r \in 1 .. BlockCount
  <2> HIDE DEF n
  <2> QED
    BY <1>1, <1>2, <1>7, <1>8
<1> QED
  BY <1>5, <1>6, <1>9

LEMMA ComputeIndicesPartition ==
  ASSUME AnalysisInv, SobolInv, ComputeIndices
  PROVE  SaltelliPartition'
<1>1. /\ job \in Jobs /\ job.kind = "sobol" /\ phase = "collected"
      /\ UNCHANGED <<job, tasks, answer, matrices>>
  BY DEF ComputeIndices, AnalysisInv
<1>2. /\ Drawn /\ Sized /\ tasks = FlatBatch
      /\ answer = [ok |-> TRUE, values |-> AllValues]
  BY <1>1 DEF SobolInv, AnalysisInv, Answering
<1>3. job.n \in Nat \ {0} /\ job.dim \in Nat
  BY <1>1, <1>2, JobsAssumption DEF Sized
<1>4. ASSUME NEW i \in 0 .. job.dim + 1, NEW r \in Rows
      PROVE  answer.values[i * job.n + r].point = Block(i)[r]
  <2> DEFINE x == i * job.n + r
  <2>1. x \in 1 .. BlockCount /\ RowAt(x) = Block(i)[r]
    BY <1>3, RowOfBlock
  <2>2. answer.values[x] = Value(tasks[x]) /\ tasks[x] = Task(RowAt(x), x - 1)
    BY <1>2, <2>1 DEF AllValues, FlatBatch
  <2> HIDE DEF x
  <2>3. answer.values[x].point = RowAt(x)
    BY <2>2 DEF Value, Task
  <2> QED
    BY <2>1, <2>3 DEF x
<1>5. ASSUME NEW r \in Rows, NEW i \in Params
      PROVE  /\ FA(r).point = matrices.a[r] /\ FB(r).point = matrices.b[r]
             /\ FAB(i, r).point = matrices.ab[i][r]
  <2>1. i \in Nat /\ r \in Nat /\ 0 \in 0 .. job.dim + 1 /\ 1 \in 0 .. job.dim + 1
        /\ 1 + i \in 0 .. job.dim + 1
    BY <1>3 DEF Params, Rows
  <2>2. answer.values[0 * job.n + r].point = Block(0)[r]
    BY <1>4, <2>1
  <2>3. answer.values[1 * job.n + r].point = Block(1)[r]
    BY <1>4, <2>1
  <2>4. answer.values[(1 + i) * job.n + r].point = Block(1 + i)[r]
    BY <1>4, <2>1
  <2>5. 0 * job.n + r = r /\ 1 * job.n + r = job.n + r /\ (1 + i) - 1 = i
        /\ 1 + i # 0 /\ 1 + i # 1
    BY <1>3, <2>1 DEF Params
  <2>6. Block(0) = matrices.a /\ Block(1) = matrices.b /\ Block(1 + i) = matrices.ab[i]
    BY <2>5 DEF Block
  <2> QED
    BY <2>2, <2>3, <2>4, <2>5, <2>6 DEF FA, FB, FAB, Start
<1>6. PICK rows \in [Rows -> Rows] :
        report' = [i \in Params |->
                     [estimate |-> Terms(i, [j \in Rows |-> j]), resample |-> Terms(i, rows)]]
  BY DEF ComputeIndices
<1>7. ASSUME NEW i \in Params, NEW terms \in {report'[i].estimate, report'[i].resample}
      PROVE  \E f \in [Rows -> Rows] : terms = Terms(i, f)
  BY <1>6
<1>8. ASSUME NEW i \in Params, NEW terms \in {report'[i].estimate, report'[i].resample},
             NEW k \in Rows
      PROVE  Paired(i, terms[k])
  <2>1. PICK f \in [Rows -> Rows] : terms = Terms(i, f)
    BY <1>7
  <2>2. f[k] \in Rows
    OBVIOUS
  <2>3. terms[k] = [fa |-> FA(f[k]), fb |-> FB(f[k]), fab |-> FAB(i, f[k])]
    BY <2>1 DEF Terms
  <2>4. /\ terms[k].fa.point = matrices.a[f[k]] /\ terms[k].fb.point = matrices.b[f[k]]
        /\ terms[k].fab.point = matrices.ab[i][f[k]]
    BY <1>5, <2>2, <2>3
  <2>5. /\ matrices.ab[i][f[k]] = [matrices.a[f[k]] EXCEPT ![i] = matrices.b[f[k]][i]]
        /\ Range(matrices.a[f[k]]) \cap Range(matrices.b[f[k]]) = {}
    BY <1>2, <1>3, <2>2, RowsDrawn
  <2> QED
    BY <2>2, <2>4, <2>5 DEF Paired
<1>9. Params' = Params /\ Rows' = Rows
  BY <1>1 DEF Params, Rows
<1>10. \A i, t : Paired(i, t)' <=> Paired(i, t)
  BY <1>1, <1>9 DEF Paired
<1> QED
  BY <1>8, <1>9, <1>10 DEF SaltelliPartition

LEMMA SobolInvStep == AnalysisInv /\ SobolInv /\ [AnalysisStep]_analysisVars => SobolInv'
<1> SUFFICES ASSUME AnalysisInv, SobolInv, [AnalysisStep]_analysisVars, job'.kind = "sobol"
             PROVE  /\ phase' \in {"built", "batch", "collected"} => Drawn' /\ Sized'
                    /\ phase' \in {"batch", "collected"} => tasks' = FlatBatch'
                    /\ phase' = "done" => SaltelliPartition'
  BY DEF SobolInv
<1>1. job' = job /\ job.kind = "sobol"
  BY PoolStepInv, SubmitsInv, QuietStepInv DEF analysisVars, jobVars
<1>2. Sized' <=> Sized
  BY <1>1 DEF Sized
<1>3. ASSUME UNCHANGED matrices
      PROVE  (Drawn' <=> Drawn) /\ FlatBatch' = FlatBatch
  BY <1>1, <1>3 DEF Drawn, Designs, FlatBatch, BlockCount, RowAt, Block, Params, Rows,
                    FromSequence, LatinHypercubes, Mixed
<1>4. ASSUME UNCHANGED <<phase, matrices, report>>
      PROVE  SaltelliPartition' <=> SaltelliPartition
  <2>1. Params' = Params /\ Rows' = Rows
    BY <1>1 DEF Params, Rows
  <2>2. \A i, t : Paired(i, t)' <=> Paired(i, t)
    BY <1>4, <2>1 DEF Paired
  <2> QED
    BY <1>1, <1>4, <2>1, <2>2 DEF SaltelliPartition
<1>5. CASE UNCHANGED analysisVars
  BY <1>2, <1>3, <1>4, <1>5, <1>1 DEF analysisVars, jobVars, SobolInv
<1>6. CASE PoolStep /\ UNCHANGED <<trajectories, matrices>>
  <2>1. phase = "batch" /\ phase' \in {"batch", "collected", "failed"} /\ tasks' = tasks
    BY <1>6 DEF PoolStep, TakeTask, FinishTask, DropTasks, Collect, jobVars
  <2> QED
    BY <1>1, <1>2, <1>3, <1>6, <2>1 DEF SobolInv
<1>7. CASE MonteCarloStep /\ UNCHANGED <<trajectories, matrices>>
  BY <1>1, <1>7 DEF MonteCarloStep, Preflight, PoolFails, RunReplicas, Aggregate, AnalysisInv
<1>8. CASE MorrisStep /\ UNCHANGED matrices
  BY <1>1, <1>8 DEF MorrisStep, CheckMorris, GenerateTrajectory, EvaluateTrajectories,
                    ExtractEffects
<1>9. CASE CheckSobol
  <2>1. phase' \notin {"built", "batch", "collected", "done"}
    BY <1>9 DEF CheckSobol
  <2> QED
    BY <2>1
<1>10. CASE BuildMatrices
  <2>1. phase' = "built" /\ Sized
    BY <1>10 DEF BuildMatrices, AnalysisInv
  <2>2. \E b \in Designs :
          matrices' = [a |-> FromSequence(0), b |-> b,
                       ab |-> [i \in Params |-> Mixed(FromSequence(0), b, i)]]
    BY <1>10 DEF BuildMatrices, Designs
  <2>3. Params' = Params /\ Rows' = Rows
    BY <1>1 DEF Params, Rows
  <2>4. /\ Designs' = Designs /\ FromSequence(0)' = FromSequence(0)
        /\ \A b, i : Mixed(FromSequence(0), b, i)' = Mixed(FromSequence(0), b, i)
    BY <1>1, <2>3 DEF Designs, FromSequence, LatinHypercubes, Mixed
  <2>5. Drawn'
    BY <2>2, <2>3, <2>4 DEF Drawn
  <2> QED
    BY <1>2, <2>1, <2>5
<1>11. CASE EvaluateAll
  <2>1. phase = "built" /\ phase' = "batch" /\ UNCHANGED matrices
    BY <1>11 DEF EvaluateAll
  <2> QED
    BY <1>1, <1>2, <1>3, <1>11, <2>1, EvaluateAllInv DEF SobolInv
<1>12. CASE ComputeIndices
  <2>1. phase' = "done"
    BY <1>12 DEF ComputeIndices
  <2> QED
    BY <1>12, <2>1, ComputeIndicesPartition
<1> QED
  BY <1>5, <1>6, <1>7, <1>8, <1>9, <1>10, <1>11, <1>12 DEF AnalysisStep, SobolStep

(* Each estimator of a Sobol analysis compares the rows it is meant to     *)
(* compare, for every number of samples and parameters, both ways of       *)
(* drawing B, every order in which the points are evaluated and every      *)
(* bootstrap resample (build_saltelli_matrices, evaluate_all,              *)
(* compute_indices, bootstrap_ci).                                         *)
THEOREM EstimatorsPaired == AnalysisSpec => []SaltelliPartition
<1>1. AnalysisInit => SobolInv
  BY DEF AnalysisInit, SobolInv
<1>2. SobolInv => SaltelliPartition
  BY DEF SobolInv, SaltelliPartition
<1> QED
  BY <1>1, <1>2, SobolInvStep, AlwaysAnalysisInv, PTL DEF AnalysisSpec

-----------------------------------------------------------------------------
(* Morris: a trajectory moves every coordinate once, and by delta. *)

Levels == 0 .. job.levels - 1
Starts == [Dims -> job.grid]
Orders == {p \in [Dims -> Dims] : \A i, j \in Dims : p[i] = p[j] => i = j}
Preferences == [Dims -> {-1, 1}]
Drawable == {Trajectory(start, p, preferred) :
               start \in Starts, p \in Orders, preferred \in Preferences}

(* What the checks and the configuration of a screening come to. *)
Screening ==
  /\ job.trajectories \in Nat /\ job.dim \in Nat
  /\ job.levels \in Nat /\ job.levels >= 4 /\ job.levels % 2 = 0
  /\ job.grid \subseteq Levels

LEMMA LeastOf ==
  ASSUME NEW T \in SUBSET Nat, T # {}
  PROVE  \E m \in T : \A n \in T : m <= n
<1>1. PICK m \in T : \A n \in T : ~(<<n, m>> \in OpToRel(<, Nat))
  BY NatLessThanWellFounded, WFMin, Zenon
<1>2. \A n \in T : ~(n < m)
  BY <1>1 DEF OpToRel
<1> QED
  BY <1>2

(* With an even number of levels exactly one direction stays on the grid,  *)
(* so that nothing is clamped and the preference is never asked.           *)
LEMMA StepStays ==
  ASSUME Screening, NEW x \in Levels, NEW preferred \in {-1, 1}
  PROVE  /\ Sign(x, preferred) \in {-1, 1}
         /\ x + Sign(x, preferred) * Delta \in Levels
         /\ Clamp(x + Sign(x, preferred) * Delta) = x + Sign(x, preferred) * Delta
<1> DEFINE l == job.levels
           d == Delta
<1>1. l \in Nat /\ l >= 4 /\ l = 2 * d /\ d \in Nat
  <2>1. l \in Nat /\ l >= 4 /\ l % 2 = 0 /\ d = l \div 2
    BY DEF Screening, Delta
  <2> HIDE DEF l, d
  <2> QED
    BY <2>1
<1>2. x \in Int /\ x >= 0 /\ x <= l - 1
  BY <1>1 DEF Levels
<1>3. Sign(x, preferred) = IF x + d <= l - 1 THEN 1 ELSE -1
  <2> HIDE DEF l, d
  <2>1. (x + d <= l - 1) <=> ~(x - d >= 0)
    BY <1>1, <1>2
  <2> QED
    BY <2>1 DEF Sign, l, d
<1>4. CASE x + d <= l - 1
  <2>1. Sign(x, preferred) = 1
    BY <1>3, <1>4
  <2>2. x + Sign(x, preferred) * Delta = x + d
    BY <1>1, <1>2, <2>1
  <2>3. x + d \in 0 .. l - 1 /\ ~(x + d < 0) /\ ~(x + d > l - 1)
    <3> HIDE DEF l, d
    <3> QED
      BY <1>1, <1>2, <1>4
  <2>4. Clamp(x + d) = x + d
    BY <2>3 DEF Clamp, l
  <2> QED
    BY <2>1, <2>2, <2>3, <2>4 DEF Levels
<1>5. CASE ~(x + d <= l - 1)
  <2>1. Sign(x, preferred) = -1
    BY <1>3, <1>5
  <2>2. x + Sign(x, preferred) * Delta = x - d
    BY <1>1, <1>2, <2>1
  <2>3. x - d \in 0 .. l - 1 /\ ~(x - d < 0) /\ ~(x - d > l - 1)
    <3> HIDE DEF l, d
    <3> QED
      BY <1>1, <1>2, <1>5
  <2>4. Clamp(x - d) = x - d
    BY <2>3 DEF Clamp, l
  <2> QED
    BY <2>1, <2>2, <2>3, <2>4 DEF Levels
<1> QED
  BY <1>4, <1>5

LEMMA MovedStays ==
  ASSUME Screening, NEW point \in [Dims -> Levels], NEW k \in Dims, NEW preferred \in {-1, 1}
  PROVE  /\ Moved(point, k, preferred) \in [Dims -> Levels]
         /\ Moved(point, k, preferred)
              = [point EXCEPT ![k] = @ + Sign(point[k], preferred) * Delta]
<1>1. point[k] \in Levels
  OBVIOUS
<1> DEFINE y == point[k] + Sign(point[k], preferred) * Delta
<1>2. y \in Levels /\ Clamp(y) = y
  BY <1>1, StepStays
<1>3. Moved(point, k, preferred) = [point EXCEPT ![k] = y]
  BY <1>2 DEF Moved
<1> QED
  BY <1>2, <1>3

(* The recursion of Path has a solution, which CHOOSE then finds. *)
IsPath(f, n, start, p, preferred) ==
  f = [s \in 0 .. n |-> IF s = 0 THEN start ELSE Moved(f[s - 1], p[s], preferred[s])]

LEMMA PathExists ==
  ASSUME job.dim \in Nat, NEW start, NEW p, NEW preferred
  PROVE  \E f : IsPath(f, job.dim, start, p, preferred)
<1> DEFINE Walk(f, n) == IsPath(f, n, start, p, preferred)
           T == {n \in 0 .. job.dim : ~ \E f : Walk(f, n)}
<1>1. SUFFICES T = {}
  <2>1. job.dim \in 0 .. job.dim
    OBVIOUS
  <2>2. \E f : Walk(f, job.dim)
    BY <1>1, <2>1
  <2> QED
    BY <2>2
<1>2. SUFFICES ASSUME T # {} PROVE FALSE
  OBVIOUS
<1>3. PICK n \in T : \A m \in T : n <= m
  <2>1. T \in SUBSET Nat
    OBVIOUS
  <2> HIDE DEF T
  <2> QED
    BY <1>2, <2>1, LeastOf
<1>4. n \in Nat /\ n <= job.dim
  BY <1>3
<1>5. CASE n = 0
  <2> DEFINE f == [s \in 0 .. 0 |-> start]
  <2>1. \A s \in 0 .. 0 : s = 0
    OBVIOUS
  <2>2. f = [s \in 0 .. 0 |-> IF s = 0 THEN start ELSE Moved(f[s - 1], p[s], preferred[s])]
    BY <2>1
  <2>3. Walk(f, n)
    BY <1>5, <2>2 DEF IsPath
  <2> QED
    BY <1>3, <2>3
<1>6. CASE n > 0
  <2>1. n - 1 \in 0 .. job.dim /\ ~(n <= n - 1)
    BY <1>4, <1>6
  <2>2. n - 1 \notin T
    BY <1>3, <2>1
  <2>3. PICK f : Walk(f, n - 1)
    BY <2>1, <2>2
  <2> DEFINE g == [s \in 0 .. n |-> IF s = n THEN Moved(f[n - 1], p[n], preferred[n]) ELSE f[s]]
  <2>4. ASSUME NEW s \in 0 .. n
        PROVE  g[s] = IF s = 0 THEN start ELSE Moved(g[s - 1], p[s], preferred[s])
    <3>1. CASE s = n
      <4>1. s # 0 /\ s - 1 \in 0 .. n /\ s - 1 # n
        BY <1>4, <1>6, <3>1
      <4>2. g[s - 1] = f[s - 1]
        BY <4>1
      <4> QED
        BY <3>1, <4>1, <4>2
    <3>2. CASE s # n
      <4>1. s \in 0 .. n - 1 /\ (s # 0 => s - 1 \in 0 .. n /\ s - 1 # n)
        BY <1>4, <3>2
      <4>2. g[s] = f[s] /\ (s # 0 => g[s - 1] = f[s - 1])
        BY <3>2, <4>1
      <4>3. f[s] = IF s = 0 THEN start ELSE Moved(f[s - 1], p[s], preferred[s])
        BY <2>3, <4>1 DEF IsPath
      <4> QED
        BY <4>2, <4>3
    <3> QED
      BY <3>1, <3>2
  <2>5. g = [s \in 0 .. n |-> g[s]]
    OBVIOUS
  <2>6. Walk(g, n)
    <3> HIDE DEF g
    <3> QED
      BY <2>4, <2>5 DEF IsPath
  <2> QED
    BY <1>3, <2>6
<1> QED
  BY <1>4, <1>5, <1>6

LEMMA PathStep ==
  ASSUME job.dim \in Nat, NEW start, NEW p, NEW preferred
  PROVE  /\ Path(start, p, preferred)[0] = start
         /\ \A s \in Dims : Path(start, p, preferred)[s]
                              = Moved(Path(start, p, preferred)[s - 1], p[s], preferred[s])
<1> DEFINE at == Path(start, p, preferred)
<1>1. at = [s \in 0 .. job.dim |-> IF s = 0 THEN start ELSE Moved(at[s - 1], p[s], preferred[s])]
  <2>1. \E f : IsPath(f, job.dim, start, p, preferred)
    BY PathExists
  <2>2. at = CHOOSE f : IsPath(f, job.dim, start, p, preferred)
    BY DEF Path, IsPath
  <2> HIDE DEF at
  <2>3. IsPath(at, job.dim, start, p, preferred)
    BY <2>1, <2>2
  <2> QED
    BY <2>3 DEF IsPath
<1> HIDE DEF at
<1>2. 0 \in 0 .. job.dim /\ \A s \in Dims : s \in 0 .. job.dim /\ s # 0
  BY DEF Dims
<1>3. at[0] = start
  BY <1>1, <1>2
<1>4. ASSUME NEW s \in Dims PROVE at[s] = Moved(at[s - 1], p[s], preferred[s])
  BY <1>1, <1>2
<1> QED
  BY <1>3, <1>4 DEF at

LEMMA PathOnGrid ==
  ASSUME Screening, NEW start \in Starts, NEW p \in Orders, NEW preferred \in Preferences
  PROVE  \A s \in 0 .. job.dim : Path(start, p, preferred)[s] \in [Dims -> Levels]
<1> DEFINE at == Path(start, p, preferred)
           T == {s \in 0 .. job.dim : at[s] \notin [Dims -> Levels]}
<1>1. /\ job.dim \in Nat /\ at[0] = start
      /\ \A s \in Dims : at[s] = Moved(at[s - 1], p[s], preferred[s])
  BY PathStep DEF Screening
<1>2. start \in [Dims -> Levels]
  BY DEF Starts, Screening
<1> HIDE DEF at
<1>3. SUFFICES ASSUME T # {} PROVE FALSE
  BY DEF at
<1>4. PICK s \in T : \A m \in T : s <= m
  <2>1. T \in SUBSET Nat
    BY <1>1
  <2> HIDE DEF T
  <2> QED
    BY <1>3, <2>1, LeastOf
<1>5. s \in Dims /\ s - 1 \in 0 .. job.dim /\ s - 1 \notin T
  BY <1>1, <1>2, <1>4 DEF Dims
<1>6. at[s - 1] \in [Dims -> Levels]
  BY <1>5
<1>7. p[s] \in Dims /\ preferred[s] \in {-1, 1}
  BY <1>5 DEF Orders, Preferences
<1>8. at[s] \in [Dims -> Levels]
  <2> DEFINE point == at[s - 1]
             k == p[s]
             e == preferred[s]
  <2>1. point \in [Dims -> Levels] /\ k \in Dims /\ e \in {-1, 1} /\ at[s] = Moved(point, k, e)
    BY <1>1, <1>5, <1>6, <1>7
  <2> HIDE DEF point, k, e
  <2> QED
    BY <2>1, MovedStays
<1> QED
  BY <1>4, <1>8

(* Step s of a trajectory: from one point of the grid to another, along    *)
(* the coordinate whose turn it is, by delta in the direction of the sign. *)
Stride(tr, s) ==
  /\ {tr.points[s], tr.points[s + 1]} \subseteq [Dims -> Levels]
  /\ tr.points[s + 1]
       = [tr.points[s] EXCEPT ![tr.permutation[s]] = @ + tr.signs[s] * Delta]

LEMMA TrajectoryStrides ==
  ASSUME Screening, NEW tr \in Drawable
  PROVE  /\ tr.permutation \in Orders
         /\ \A s \in Dims : s \in DOMAIN tr.points /\ Stride(tr, s)
<1>1. PICK start \in Starts, p \in Orders, preferred \in Preferences :
        tr = Trajectory(start, p, preferred)
  BY DEF Drawable
<1> DEFINE at == Path(start, p, preferred)
<1>2. /\ tr.points = [s \in 1 .. job.dim + 1 |-> at[s - 1]]
      /\ tr.permutation = p
      /\ tr.signs = [s \in 1 .. job.dim |-> Sign(at[s - 1][p[s]], preferred[s])]
  BY <1>1 DEF Trajectory
<1>3. /\ job.dim \in Nat
      /\ \A s \in Dims : at[s] = Moved(at[s - 1], p[s], preferred[s])
  BY PathStep DEF Screening
<1>4. \A s \in 0 .. job.dim : at[s] \in [Dims -> Levels]
  BY PathOnGrid
<1> HIDE DEF at
<1>5. ASSUME NEW s \in Dims
      PROVE  s \in DOMAIN tr.points /\ Stride(tr, s)
  <2>1. /\ s \in 1 .. job.dim /\ s \in 1 .. job.dim + 1 /\ s + 1 \in 1 .. job.dim + 1
        /\ s \in 0 .. job.dim /\ s - 1 \in 0 .. job.dim /\ (s + 1) - 1 = s
    BY <1>3 DEF Dims
  <2>2. tr.points[s] = at[s - 1] /\ tr.points[s + 1] = at[s]
    BY <1>2, <2>1
  <2>3. at[s - 1] \in [Dims -> Levels] /\ at[s] \in [Dims -> Levels]
    BY <1>4, <2>1
  <2>4. p[s] \in Dims /\ preferred[s] \in {-1, 1}
    BY DEF Orders, Preferences
  <2>5. Moved(at[s - 1], p[s], preferred[s])
          = [at[s - 1] EXCEPT ![p[s]] = @ + Sign(at[s - 1][p[s]], preferred[s]) * Delta]
    <3> DEFINE point == at[s - 1]
               k == p[s]
               e == preferred[s]
    <3>1. point \in [Dims -> Levels] /\ k \in Dims /\ e \in {-1, 1}
      BY <2>3, <2>4
    <3> HIDE DEF point, k, e
    <3>2. Moved(point, k, e) = [point EXCEPT ![k] = @ + Sign(point[k], e) * Delta]
      BY <3>1, MovedStays
    <3> QED
      BY <3>2 DEF point, k, e
  <2>6. tr.permutation[s] = p[s] /\ tr.signs[s] = Sign(at[s - 1][p[s]], preferred[s])
    BY <1>2, <2>1
  <2>7. s \in DOMAIN tr.points
    BY <1>2, <2>1
  <2> QED
    BY <1>3, <2>2, <2>3, <2>5, <2>6, <2>7 DEF Stride
<1> QED
  BY <1>1, <1>2, <1>5

(* Every coordinate has its turn. *)
LEMMA EveryTurn ==
  ASSUME job.dim \in Nat, NEW p \in Orders, NEW k \in Dims
  PROVE  \E j \in Dims : p[j] = k
<1>1. IsFiniteSet(Dims)
  BY FS_Interval DEF Dims
<1>2. p \in Injection(Dims, Dims)
  BY DEF Orders, Injection, IsInjective
<1>3. p \in Surjection(Dims, Dims)
  BY <1>1, <1>2, FS_Injection
<1> QED
  BY <1>3 DEF Surjection

-----------------------------------------------------------------------------
PointAt(i) ==
  trajectories[1 + ((i - 1) \div PointsPerTrajectory)]
    .points[1 + ((i - 1) % PointsPerTrajectory)]
MorrisBatch == [i \in 1 .. job.trajectories * PointsPerTrajectory |-> Task(PointAt(i), i - 1)]

MorrisInv ==
  job.kind = "morris" =>
    /\ phase \in {"design", "batch", "collected", "done"} => Screening
    /\ trajectories \in Seq(Drawable)
    /\ phase \in {"batch", "collected", "done"} => Len(trajectories) = job.trajectories
    /\ phase \in {"batch", "collected"} => tasks = MorrisBatch
    /\ phase = "done" => EffectsIsolated

(* The j-th point of trajectory t is where the effects look for it. *)
LEMMA PointOfTrajectory ==
  ASSUME job.dim \in Nat, job.trajectories \in Nat,
         NEW t \in 1 .. job.trajectories, NEW j \in 1 .. PointsPerTrajectory
  PROVE  /\ BaseOffset(t) + j \in 1 .. job.trajectories * PointsPerTrajectory
         /\ PointAt(BaseOffset(t) + j) = trajectories[t].points[j]
<1> DEFINE w == PointsPerTrajectory
           r == j - 1
           q == t - 1
           b == q * w
<1>1. w \in Nat \ {0} /\ r \in 0 .. w - 1 /\ q \in 0 .. job.trajectories - 1 /\ q \in Nat
  BY DEF PointsPerTrajectory
<1>2. BaseOffset(t) = b /\ b \in Nat /\ b = w * q
  <2>1. q * w \in Nat /\ q * w = w * q
    <3> HIDE DEF w, q
    <3> QED
      BY <1>1
  <2> QED
    BY <2>1 DEF BaseOffset
<1>3. b + r < job.trajectories * w
  <2> HIDE DEF w, q, r
  <2> QED
    BY <1>1, RowsBounded
<1>4. (b + j) - 1 = w * q + r
  <2> HIDE DEF w, q, b
  <2> QED
    BY <1>2
<1>5. ((b + j) - 1) \div w = q /\ ((b + j) - 1) % w = r
  <2>1. w \in Nat \ {0} /\ q \in Int /\ r \in 0 .. w - 1
    BY <1>1
  <2> HIDE DEF w, q, r, b
  <2>2. (w * q + r) \div w = q /\ (w * q + r) % w = r
    BY <2>1, Quotient
  <2> QED
    BY <1>4, <2>2
<1>6. 1 + q = t /\ 1 + r = j
  BY <1>1
<1>7. PointAt(b + j) = trajectories[t].points[j]
  <2>1. \A i : PointAt(i) = trajectories[1 + ((i - 1) \div w)].points[1 + ((i - 1) % w)]
    BY DEF PointAt
  <2> HIDE DEF w, q, r, b
  <2> QED
    BY <1>5, <1>6, <2>1
<1>8. b + j \in 1 .. job.trajectories * w
  <2>1. job.trajectories * w \in Nat
    <3> HIDE DEF w
    <3> QED
      BY <1>1
  <2>2. j \in Nat /\ j >= 1 /\ r = j - 1
    BY <1>1
  <2> HIDE DEF w, r, b
  <2> QED
    BY <1>2, <1>3, <2>1, <2>2
<1> QED
  BY <1>2, <1>7, <1>8

LEMMA ExtractEffectsIsolated ==
  ASSUME AnalysisInv, MorrisInv, ExtractEffects
  PROVE  EffectsIsolated'
<1>1. /\ job.kind = "morris" /\ phase = "collected" /\ phase' = "done"
      /\ UNCHANGED <<job, tasks, answer, trajectories>>
  BY DEF ExtractEffects
<1>2. /\ Screening /\ trajectories \in Seq(Drawable) /\ Len(trajectories) = job.trajectories
      /\ tasks = MorrisBatch
  BY <1>1 DEF MorrisInv
<1>3. answer.values = AllValues
  BY <1>1 DEF AnalysisInv, Answering
<1>4. job.dim \in Nat /\ job.trajectories \in Nat
  BY <1>2 DEF Screening
<1>5. ASSUME NEW t \in 1 .. job.trajectories, NEW j \in 1 .. PointsPerTrajectory
      PROVE  answer.values[BaseOffset(t) + j].point = trajectories[t].points[j]
  <2> DEFINE i == BaseOffset(t) + j
  <2>1. i \in 1 .. job.trajectories * PointsPerTrajectory
        /\ PointAt(i) = trajectories[t].points[j]
    BY <1>4, PointOfTrajectory
  <2> HIDE DEF i
  <2>2. i \in DOMAIN tasks /\ tasks[i] = Task(PointAt(i), i - 1)
    BY <1>2, <2>1 DEF MorrisBatch
  <2>3. answer.values[i] = Value(tasks[i])
    BY <1>3, <2>2 DEF AllValues
  <2>4. Value(tasks[i]).point = PointAt(i)
    BY <2>2 DEF Value, Task
  <2> QED
    BY <2>1, <2>3, <2>4 DEF i
<1>6. ASSUME NEW k \in Dims, NEW t \in 1 .. job.trajectories
      PROVE  /\ report'[k][t].before.point \in Range(trajectories[t].points)
             /\ report'[k][t].after.point
                  = [report'[k][t].before.point EXCEPT ![k] = @ + report'[k][t].sign * Delta]
             /\ report'[k][t].after.point[k] \in 0 .. job.levels - 1
  <2> DEFINE tr == trajectories[t]
             j == CHOOSE j \in Dims : tr.permutation[j] = k
  <2>1. tr \in Drawable
    BY <1>2, ElementOfSeq
  <2>2. tr.permutation \in Orders /\ \A s \in Dims : s \in DOMAIN tr.points /\ Stride(tr, s)
    BY <1>2, <2>1, TrajectoryStrides
  <2>3. j \in Dims /\ tr.permutation[j] = k
    BY <1>4, <2>2, EveryTurn
  <2>4. report'[k][t] = Effect(t, j)
    BY DEF ExtractEffects
  <2> HIDE DEF tr, j
  <2>5. j \in 1 .. PointsPerTrajectory /\ j + 1 \in 1 .. PointsPerTrajectory
    BY <1>4, <2>3 DEF Dims, PointsPerTrajectory
  <2>6. /\ Effect(t, j).before = answer.values[BaseOffset(t) + j]
        /\ Effect(t, j).after = answer.values[BaseOffset(t) + j + 1]
        /\ Effect(t, j).sign = tr.signs[j]
    BY DEF Effect, tr
  <2>7. BaseOffset(t) + j + 1 = BaseOffset(t) + (j + 1)
    <3>1. BaseOffset(t) \in Int
      <4>1. t - 1 \in Int /\ PointsPerTrajectory \in Int
        BY <1>4 DEF PointsPerTrajectory
      <4> QED
        BY <4>1 DEF BaseOffset
    <3> QED
      BY <2>5, <3>1
  <2>8. Effect(t, j).before.point = tr.points[j] /\ Effect(t, j).after.point = tr.points[j + 1]
    BY <1>5, <2>5, <2>6, <2>7 DEF tr
  <2>9. j \in DOMAIN tr.points /\ Stride(tr, j)
    BY <2>2, <2>3
  <2>10. tr.points[j] \in Range(tr.points)
    BY <2>9 DEF Range
  <2>11. /\ tr.points[j + 1] = [tr.points[j] EXCEPT ![k] = @ + tr.signs[j] * Delta]
         /\ tr.points[j + 1][k] \in 0 .. job.levels - 1
    BY <2>3, <2>9 DEF Stride, Levels
  <2>12. tr.points = trajectories[t].points
    BY DEF tr
  <2> QED
    BY <2>4, <2>6, <2>8, <2>10, <2>11, <2>12
<1> QED
  BY <1>1, <1>6 DEF EffectsIsolated, Dims, Delta

LEMMA MorrisInvStep == AnalysisInv /\ MorrisInv /\ [AnalysisStep]_analysisVars => MorrisInv'
<1> SUFFICES ASSUME AnalysisInv, MorrisInv, [AnalysisStep]_analysisVars, job'.kind = "morris"
             PROVE  /\ phase' \in {"design", "batch", "collected", "done"} => Screening'
                    /\ trajectories' \in Seq(Drawable')
                    /\ phase' \in {"batch", "collected", "done"} => Len(trajectories') = job'.trajectories
                    /\ phase' \in {"batch", "collected"} => tasks' = MorrisBatch'
                    /\ phase' = "done" => EffectsIsolated'
  BY DEF MorrisInv
<1>1. job' = job /\ job.kind = "morris"
  BY PoolStepInv, SubmitsInv, QuietStepInv DEF analysisVars, jobVars
<1>2. (Screening' <=> Screening) /\ Drawable' = Drawable
  BY <1>1 DEF Screening, Levels, Drawable, Starts, Orders, Preferences, Trajectory, Path,
              Moved, Sign, Clamp, Delta, Dims
<1>3. ASSUME UNCHANGED trajectories
      PROVE  MorrisBatch' = MorrisBatch
  BY <1>1, <1>3 DEF MorrisBatch, PointAt, PointsPerTrajectory
<1>4. CASE UNCHANGED analysisVars
  <2>1. UNCHANGED <<job, phase, tasks, report, trajectories>>
    BY <1>4 DEF analysisVars, jobVars
  <2>2. EffectsIsolated' <=> EffectsIsolated
    BY <2>1 DEF EffectsIsolated, Dims, Delta
  <2> QED
    BY <1>1, <1>2, <1>3, <2>1, <2>2 DEF MorrisInv
<1>5. CASE PoolStep /\ UNCHANGED <<trajectories, matrices>>
  <2>1. phase = "batch" /\ phase' \in {"batch", "collected", "failed"} /\ tasks' = tasks
    BY <1>5 DEF PoolStep, TakeTask, FinishTask, DropTasks, Collect, jobVars
  <2> QED
    BY <1>1, <1>2, <1>3, <1>5, <2>1 DEF MorrisInv
<1>6. CASE MonteCarloStep /\ UNCHANGED <<trajectories, matrices>>
  BY <1>1, <1>6 DEF MonteCarloStep, Preflight, PoolFails, RunReplicas, Aggregate, AnalysisInv
<1>7. CASE SobolStep /\ UNCHANGED trajectories
  BY <1>1, <1>7 DEF SobolStep, CheckSobol, BuildMatrices, EvaluateAll, ComputeIndices
<1>8. CASE CheckMorris
  <2>1. phase' \notin {"batch", "collected", "done"} /\ UNCHANGED trajectories
    BY <1>8 DEF CheckMorris
  <2>2. ASSUME phase' = "design" PROVE Screening
    <3>1. /\ job.trajectories \in Nat /\ job.dim \in Nat
          /\ job.levels \in Nat /\ job.grid \subseteq 0 .. job.levels - 1
      BY <1>1, JobsAssumption DEF AnalysisInv
    <3>2. ~(job.levels < 4 \/ job.levels % 2 = 1)
      BY <1>8, <2>2 DEF CheckMorris
    <3> DEFINE l == job.levels
    <3>3. l \in Nat /\ l >= 4 /\ l % 2 = 0
      <4>1. l \in Nat /\ ~(l < 4 \/ l % 2 = 1)
        BY <3>1, <3>2
      <4> HIDE DEF l
      <4> QED
        BY <4>1
    <3> QED
      BY <3>1, <3>3 DEF Screening, Levels
  <2> QED
    BY <1>1, <1>2, <2>1, <2>2 DEF MorrisInv
<1>9. CASE GenerateTrajectory
  <2>1. phase' = "design" /\ phase = "design" /\ Screening /\ trajectories \in Seq(Drawable)
    BY <1>1, <1>9 DEF GenerateTrajectory, MorrisInv, jobVars
  <2>2. PICK start \in Starts, p \in [Dims -> Dims], preferred \in Preferences :
          /\ \A i, j \in Dims : p[i] = p[j] => i = j
          /\ trajectories' = Append(trajectories, Trajectory(start, p, preferred))
    BY <1>9 DEF GenerateTrajectory, Starts, Preferences
  <2>3. Trajectory(start, p, preferred) \in Drawable
    BY <2>2 DEF Drawable, Orders
  <2>4. trajectories' \in Seq(Drawable)
    BY <2>1, <2>2, <2>3, AppendProperties
  <2> QED
    BY <1>2, <2>1, <2>4
<1>10. CASE EvaluateTrajectories
  <2>1. /\ phase = "design" /\ phase' = "batch" /\ UNCHANGED trajectories
        /\ Len(trajectories) = job.trajectories /\ tasks' = MorrisBatch
    BY <1>10 DEF EvaluateTrajectories, Submit, MorrisBatch, PointAt
  <2> QED
    BY <1>1, <1>2, <1>3, <2>1 DEF MorrisInv
<1>11. CASE ExtractEffects
  <2>1. phase = "collected" /\ phase' = "done" /\ UNCHANGED trajectories
    BY <1>11 DEF ExtractEffects
  <2> QED
    BY <1>1, <1>2, <1>11, <2>1, ExtractEffectsIsolated DEF MorrisInv
<1> QED
  BY <1>4, <1>5, <1>6, <1>7, <1>8, <1>9, <1>10, <1>11 DEF AnalysisStep, MorrisStep

(* Each elementary effect of a screening belongs to its parameter, for     *)
(* every number of parameters and trajectories, every even number of       *)
(* levels, every start, order and preference, and every order in which the *)
(* points are evaluated (generate_trajectories, evaluate_trajectories,     *)
(* extract_elementary_effects).                                            *)
THEOREM EffectsBelong == AnalysisSpec => []EffectsIsolated
<1>1. AnalysisInit => MorrisInv
  BY DEF AnalysisInit, MorrisInv
<1>2. MorrisInv => EffectsIsolated
  BY DEF MorrisInv, EffectsIsolated
<1> QED
  BY <1>1, <1>2, MorrisInvStep, AlwaysAnalysisInv, PTL DEF AnalysisSpec

-----------------------------------------------------------------------------
(* Order statistics. *)

Below(values, v) == {j \in DOMAIN values : values[j] < v}
UpTo(values, v) == {j \in DOMAIN values : values[j] <= v}

LEMMA PlacesCounted ==
  ASSUME NEW n \in Nat, NEW values \in [1 .. n -> Int], NEW v \in Int, NEW w \in Int
  PROVE  /\ Cardinality(Below(values, v)) \in 0 .. n
         /\ Cardinality(UpTo(values, v)) \in 0 .. n
         /\ v < w => Cardinality(UpTo(values, v)) <= Cardinality(Below(values, w))
         /\ w \in Range(values) => Cardinality(Below(values, w)) < Cardinality(UpTo(values, w))
<1>1. IsFiniteSet(1 .. n) /\ Cardinality(1 .. n) = n
  BY FS_Interval
<1>2. ASSUME NEW J \in SUBSET (1 .. n)
      PROVE  IsFiniteSet(J) /\ Cardinality(J) \in 0 .. n
  <2>1. IsFiniteSet(J) /\ Cardinality(J) <= n
    <3>1. IsFiniteSet(J) /\ Cardinality(J) <= Cardinality(1 .. n)
      BY <1>1, FS_Subset, Zenon
    <3> QED
      BY <1>1, <3>1
  <2>2. Cardinality(J) \in Nat
    BY <2>1, FS_CardinalityType
  <2> QED
    BY <2>1, <2>2
<1>3. /\ Below(values, v) \in SUBSET (1 .. n) /\ Below(values, w) \in SUBSET (1 .. n)
      /\ UpTo(values, v) \in SUBSET (1 .. n) /\ UpTo(values, w) \in SUBSET (1 .. n)
  BY DEF Below, UpTo
<1>4. ASSUME v < w
      PROVE  Cardinality(UpTo(values, v)) <= Cardinality(Below(values, w))
  <2>1. UpTo(values, v) \subseteq Below(values, w)
    BY <1>4 DEF UpTo, Below
  <2> QED
    BY <1>2, <1>3, <2>1, FS_Subset
<1>5. ASSUME w \in Range(values)
      PROVE  Cardinality(Below(values, w)) < Cardinality(UpTo(values, w))
  <2>1. Below(values, w) \subseteq UpTo(values, w) /\ Below(values, w) # UpTo(values, w)
    BY <1>5 DEF UpTo, Below, Range
  <2> QED
    BY <1>2, <1>3, <2>1, FS_Subset
<1> QED
  BY <1>2, <1>3, <1>4, <1>5

LEMMA GreatestOf ==
  ASSUME NEW n \in Nat, NEW values \in [1 .. n -> Int],
         NEW J \in SUBSET (1 .. n), J # {}
  PROVE  \E j \in J : \A k \in J : values[k] <= values[j]
<1> DEFINE c(j) == Cardinality(UpTo(values, values[j]))
           T == {n - c(j) : j \in J}
<1>1. \A j \in J : c(j) \in 0 .. n /\ values[j] \in Int /\ values[j] \in Range(values)
  BY PlacesCounted DEF Range
<1>2. T \in SUBSET Nat /\ T # {}
  <2>1. \A j \in J : n - c(j) \in Nat
    BY <1>1
  <2> HIDE DEF c
  <2> QED
    BY <2>1
<1>3. PICK m \in T : \A t \in T : m <= t
  BY <1>2, LeastOf
<1>4. PICK j \in J : m = n - c(j)
  OBVIOUS
<1>5. ASSUME NEW k \in J, values[j] < values[k]
      PROVE  c(j) < c(k)
  <2>1. /\ Cardinality(UpTo(values, values[j])) <= Cardinality(Below(values, values[k]))
        /\ Cardinality(Below(values, values[k])) < Cardinality(UpTo(values, values[k]))
        /\ Cardinality(Below(values, values[k])) \in 0 .. n
    BY <1>1, <1>5, PlacesCounted
  <2> QED
    BY <1>1, <2>1
<1>6. \A k \in J : n - c(j) <= n - c(k)
  BY <1>3, <1>4
<1>7. \A k \in J : c(j) \in Int /\ c(k) \in Int /\ values[k] \in Int /\ values[j] \in Int
  BY <1>1
<1> HIDE DEF c
<1>8. ASSUME NEW k \in J PROVE values[k] <= values[j]
  <2>1. n - c(j) <= n - c(k) /\ c(j) \in Int /\ c(k) \in Int
    BY <1>6, <1>7
  <2>2. ~(values[j] < values[k])
    BY <1>5, <2>1
  <2> QED
    BY <1>7, <2>2
<1> QED
  BY <1>8

LEMMA PlaceTaken ==
  ASSUME NEW n \in Nat, NEW values \in [1 .. n -> Int], NEW i \in 1 .. n
  PROVE  \E v \in Range(values) : AtPlace(values, i, v)
<1> DEFINE c(j) == Cardinality(UpTo(values, values[j]))
           J == {j \in 1 .. n : c(j) >= i}
           T == {c(j) : j \in J}
<1>1. \A j \in 1 .. n : c(j) \in 0 .. n /\ values[j] \in Int /\ values[j] \in Range(values)
  BY PlacesCounted DEF Range
<1>2. J # {}
  <2>1. PICK j \in 1 .. n : \A k \in 1 .. n : values[k] <= values[j]
    BY GreatestOf
  <2>2. UpTo(values, values[j]) = 1 .. n
    BY <2>1 DEF UpTo
  <2>3. c(j) = n
    BY <2>2, FS_Interval
  <2> QED
    BY <2>3
<1>3. T \in SUBSET Nat /\ T # {}
  BY <1>1, <1>2
<1>4. PICK m \in T : \A t \in T : m <= t
  BY <1>3, LeastOf
<1>5. PICK j \in J : m = c(j)
  OBVIOUS
<1>6. \A k \in 1 .. n : c(k) >= i => c(j) <= c(k)
  BY <1>4, <1>5
<1>7. Cardinality(Below(values, values[j])) < i
  <2> SUFFICES ASSUME ~(Cardinality(Below(values, values[j])) < i)
               PROVE  FALSE
    OBVIOUS
  <2>1. Below(values, values[j]) \in SUBSET (1 .. n)
    BY DEF Below
  <2>2. Below(values, values[j]) # {}
    <3> SUFFICES ASSUME Below(values, values[j]) = {} PROVE FALSE
      OBVIOUS
    <3>1. Cardinality(Below(values, values[j])) = 0
      BY FS_EmptySet
    <3> HIDE DEF c, J
    <3> QED
      BY <3>1
  <2>3. PICK k \in Below(values, values[j]) :
          \A l \in Below(values, values[j]) : values[l] <= values[k]
    BY <2>1, <2>2, GreatestOf
  <2>4. UpTo(values, values[k]) = Below(values, values[j])
    BY <1>1, <2>1, <2>3 DEF UpTo, Below
  <2>5. Cardinality(Below(values, values[j])) < c(j) /\ Cardinality(Below(values, values[j])) \in Nat
    <3>1. values[j] \in Int /\ values[j] \in Range(values)
      BY <1>1
    <3> QED
      BY <3>1, PlacesCounted
  <2>6. c(k) = Cardinality(Below(values, values[j]))
    BY <2>4
  <2>7. k \in 1 .. n /\ c(k) >= i
    BY <2>1, <2>5, <2>6
  <2>8. c(j) <= c(k) /\ c(j) \in Int
    BY <1>1, <1>6, <2>7
  <2> HIDE DEF c, J
  <2> QED
    BY <2>5, <2>6, <2>8
<1> QED
  BY <1>1, <1>5, <1>7 DEF AtPlace, Below, UpTo

LEMMA SortedInOrder ==
  ASSUME NEW n \in Nat, NEW values \in [1 .. n -> Int]
  PROVE  /\ SortedValues(values) \in [1 .. n -> Range(values)]
         /\ \A i, j \in 1 .. n : i <= j => SortedValues(values)[i] <= SortedValues(values)[j]
         /\ \A v \in Range(values) : SortedValues(values)[1] <= v /\ v <= SortedValues(values)[n]
<1> DEFINE s == SortedValues(values)
<1>1. /\ s = [i \in 1 .. n |-> CHOOSE v \in Range(values) : AtPlace(values, i, v)]
      /\ Range(values) \subseteq Int
  BY DEF SortedValues, Range
<1>2. \A i \in 1 .. n : s[i] \in Range(values) /\ AtPlace(values, i, s[i])
  BY <1>1, PlaceTaken
<1> HIDE DEF s
<1>3. \A i \in 1 .. n : /\ Cardinality(Below(values, s[i])) < i
                        /\ i <= Cardinality(UpTo(values, s[i]))
  BY <1>1, <1>2 DEF AtPlace, Below, UpTo
<1>4. \A v, w \in Range(values) :
        /\ Cardinality(Below(values, v)) \in 0 .. n
        /\ Cardinality(UpTo(values, v)) \in 0 .. n
        /\ v < w => Cardinality(UpTo(values, v)) <= Cardinality(Below(values, w))
        /\ Cardinality(Below(values, v)) < Cardinality(UpTo(values, v))
  BY <1>1, PlacesCounted
<1>5. ASSUME NEW i \in 1 .. n, NEW j \in 1 .. n, i <= j
      PROVE  s[i] <= s[j]
  <2> SUFFICES ASSUME s[j] < s[i] PROVE FALSE
    BY <1>1, <1>2
  <2>1. /\ Cardinality(UpTo(values, s[j])) <= Cardinality(Below(values, s[i]))
        /\ Cardinality(UpTo(values, s[j])) \in 0 .. n
        /\ Cardinality(Below(values, s[i])) \in 0 .. n
    BY <1>2, <1>4
  <2>2. Cardinality(Below(values, s[i])) < i /\ j <= Cardinality(UpTo(values, s[j]))
    BY <1>3
  <2> QED
    BY <1>5, <2>1, <2>2
<1>6. ASSUME NEW v \in Range(values)
      PROVE  s[1] <= v /\ v <= s[n]
  <2>1. 1 \in 1 .. n /\ n \in 1 .. n
    BY DEF Range
  <2>2. s[1] \in Int /\ s[n] \in Int /\ v \in Int
    BY <1>1, <1>2, <2>1
  <2>3. /\ Cardinality(Below(values, s[1])) < 1 /\ n <= Cardinality(UpTo(values, s[n]))
        /\ s[1] \in Range(values) /\ s[n] \in Range(values)
    BY <1>2, <1>3, <2>1
  <2>4. ~(v < s[1])
    <3> SUFFICES ASSUME v < s[1] PROVE FALSE
      OBVIOUS
    <3>1. /\ Cardinality(UpTo(values, v)) <= Cardinality(Below(values, s[1]))
          /\ Cardinality(Below(values, v)) < Cardinality(UpTo(values, v))
          /\ Cardinality(Below(values, v)) \in 0 .. n
          /\ Cardinality(UpTo(values, v)) \in 0 .. n
          /\ Cardinality(Below(values, s[1])) \in 0 .. n
      BY <1>4, <2>3
    <3> QED
      BY <2>3, <3>1
  <2>5. ~(s[n] < v)
    <3> SUFFICES ASSUME s[n] < v PROVE FALSE
      OBVIOUS
    <3>1. /\ Cardinality(UpTo(values, s[n])) <= Cardinality(Below(values, v))
          /\ Cardinality(Below(values, v)) < Cardinality(UpTo(values, v))
          /\ Cardinality(Below(values, v)) \in 0 .. n
          /\ Cardinality(UpTo(values, v)) \in 0 .. n
          /\ Cardinality(UpTo(values, s[n])) \in 0 .. n
      BY <1>4, <2>3
    <3> QED
      BY <2>3, <3>1
  <2> QED
    BY <2>2, <2>4, <2>5
<1> QED
  BY <1>1, <1>2, <1>5, <1>6 DEF s

LEMMA PercentilesPlaced ==
  ASSUME NEW n \in Nat \ {0}, NEW p \in 0 .. 100
  PROVE  PercentileIndex(p, n) \in 1 .. n
<1> DEFINE x == 2 * p * (n - 1) + 100
<1>1. 0 <= p * (n - 1) /\ p * (n - 1) <= 100 * (n - 1) /\ p * (n - 1) \in Nat
  <2>1. n - 1 \in Nat /\ p \in Nat /\ 100 - p \in Nat
    OBVIOUS
  <2>2. p * (n - 1) \in Nat /\ (100 - p) * (n - 1) \in Nat
    BY <2>1
  <2>3. (100 - p) * (n - 1) + p * (n - 1) = 100 * (n - 1)
    BY <2>1
  <2> QED
    BY <2>2, <2>3
<1>2. x \in 0 .. 200 * (n - 1) + 100
  BY <1>1
<1> HIDE DEF x
<1>3. x \div 200 \in 0 .. n - 1
  BY <1>2
<1> QED
  BY <1>3 DEF x, PercentileIndex

LEMMA PercentilesAscend ==
  ASSUME NEW n \in Nat \ {0}, NEW p \in 0 .. 100, NEW q \in 0 .. 100, p <= q
  PROVE  PercentileIndex(p, n) <= PercentileIndex(q, n)
<1> DEFINE x == 2 * p * (n - 1) + 100
           y == 2 * q * (n - 1) + 100
<1>1. p * (n - 1) <= q * (n - 1) /\ p * (n - 1) \in Nat /\ q * (n - 1) \in Nat
  <2>1. n - 1 \in Nat /\ p \in Nat /\ q \in Nat /\ q - p \in Nat
    OBVIOUS
  <2>2. p * (n - 1) \in Nat /\ (q - p) * (n - 1) \in Nat
    BY <2>1
  <2>3. (q - p) * (n - 1) + p * (n - 1) = q * (n - 1)
    BY <2>1
  <2> QED
    BY <2>2, <2>3
<1>2. x \in Nat /\ y \in Nat /\ x <= y
  BY <1>1
<1> HIDE DEF x, y
<1>3. x \div 200 <= y \div 200
  BY <1>2
<1> QED
  BY <1>2, <1>3 DEF x, y, PercentileIndex

(* A Monte Carlo run has one task per replica and reports their order      *)
(* statistics.                                                             *)
ReplicaCount == IF job.replicas < 1 THEN 1 ELSE job.replicas
MetricValues == [i \in DOMAIN answer.values |-> Metric(answer.values[i])]
Reported ==
  job.kind = "montecarlo" =>
    /\ tasks = <<>> \/ Len(tasks) = ReplicaCount
    /\ phase = "done" => report = Distribution(MetricValues)

LEMMA ReportedStep == AnalysisInv /\ Reported /\ [AnalysisStep]_analysisVars => Reported'
<1> SUFFICES ASSUME AnalysisInv, Reported, [AnalysisStep]_analysisVars, job'.kind = "montecarlo"
             PROVE  /\ tasks' = <<>> \/ Len(tasks') = ReplicaCount'
                    /\ phase' = "done" => report' = Distribution(MetricValues)'
  BY DEF Reported
<1>1. job' = job /\ job.kind = "montecarlo" /\ ReplicaCount' = ReplicaCount
  BY PoolStepInv, SubmitsInv, QuietStepInv DEF analysisVars, jobVars, ReplicaCount
<1>2. CASE UNCHANGED analysisVars
  BY <1>1, <1>2 DEF Reported, analysisVars, jobVars, Distribution, Metric, MetricValues
<1>3. CASE PoolStep
  BY <1>1, <1>3 DEF Reported, PoolStep, TakeTask, FinishTask, DropTasks, Collect, jobVars
<1>4. CASE Preflight \/ PoolFails
  BY <1>1, <1>4 DEF Reported, Preflight, PoolFails
<1>5. CASE RunReplicas
  <2> DEFINE list == [i \in 1 .. ReplicaCount |-> Task("hardware", i - 1)]
  <2>1. tasks' = list /\ phase' = "batch"
    BY <1>5 DEF RunReplicas, Submit, ReplicaCount
  <2>2. ReplicaCount \in Nat
    BY <1>1, JobsAssumption DEF AnalysisInv, ReplicaCount
  <2>3. list \in [1 .. ReplicaCount -> {Task("hardware", i - 1) : i \in 1 .. ReplicaCount}]
    OBVIOUS
  <2> HIDE DEF list
  <2>4. Len(list) = ReplicaCount
    BY <2>2, <2>3
  <2> QED
    BY <1>1, <2>1, <2>4
<1>6. CASE Aggregate
  BY <1>1, <1>6 DEF Reported, Aggregate, Metric, MetricValues
<1>7. CASE MorrisStep \/ SobolStep
  BY <1>1, <1>7 DEF MorrisStep, SobolStep, CheckMorris, GenerateTrajectory, EvaluateTrajectories,
                    ExtractEffects, CheckSobol, BuildMatrices, EvaluateAll, ComputeIndices
<1> QED
  BY <1>2, <1>3, <1>4, <1>5, <1>6, <1>7 DEF AnalysisStep, MonteCarloStep

(* Replica i is seeded base + i - 1, so its metric is one the job gives,   *)
(* wherever the range of seeds wraps around.                               *)
LEMMA MetricTaken ==
  ASSUME AnalysisInv, Reported, job.kind = "montecarlo", phase = "done"
  PROVE  MetricValues \in [1 .. ReplicaCount -> Int]
<1>1. /\ tasks # <<>> /\ answer.values = AllValues
      /\ Indexed(tasks) /\ job \in Jobs
  BY DEF AnalysisInv, Answering
<1>2. /\ DOMAIN tasks = 1 .. ReplicaCount
      /\ \A i \in 1 .. ReplicaCount : tasks[i].index = i - 1
  BY <1>1, IndexedShape DEF Reported
<1>3. /\ job.metric \in [1 .. ReplicaCount -> Int] /\ job.base \in Nat /\ Replicas = 1
      /\ ReplicaCount \in Nat /\ Modulus \in Nat \ {0}
  BY <1>1, JobsAssumption, ModulusAssumption DEF Replicas, ReplicaCount
<1>4. ASSUME NEW i \in 1 .. ReplicaCount
      PROVE  Metric(Value(tasks[i])) \in Int
  <2> DEFINE x == job.base + (i - 1)
             y == ((((x % Modulus) + 0) % Modulus) + (-job.base)) % Modulus
  <2>1. x \in Int /\ i - 1 \in 0 .. ReplicaCount - 1
    BY <1>3
  <2>2. Value(tasks[i]).seeds[1] = ((x % Modulus) + 0) % Modulus
    <3>1. Value(tasks[i]).seeds[1] = (Seed(i - 1) + 1 - 1) % Modulus
      BY <1>2, <1>3 DEF Value
    <3>2. Seed(i - 1) = x % Modulus
      BY <1>3, <2>1 DEF Seed
    <3>3. x % Modulus \in Int
      <4> HIDE DEF x
      <4> QED
        BY <1>3, <2>1, Division
    <3>4. (x % Modulus) + 1 - 1 = (x % Modulus) + 0
      BY <3>3
    <3> QED
      BY <3>1, <3>2, <3>4
  <2>3. ((x % Modulus) + 0) % Modulus = (x + 0) % Modulus
    <3> HIDE DEF x
    <3>1. x \in Int /\ 0 \in Int
      BY <2>1
    <3> QED
      BY <1>3, <3>1, ModAdd, Zenon
  <2>4. (((x + 0) % Modulus) + (-job.base)) % Modulus = (x + 0 + (-job.base)) % Modulus
    <3> HIDE DEF x
    <3>1. x + 0 \in Int /\ -job.base \in Int
      BY <1>3, <2>1
    <3> QED
      BY <1>3, <3>1, ModAdd
  <2>5. x + 0 + (-job.base) = i - 1
    BY <1>3, <2>1
  <2>6. y = (i - 1) % Modulus
    BY <2>3, <2>4, <2>5
  <2>7. (i - 1) % Modulus \in 0 .. i - 1
    <3>1. /\ i - 1 = Modulus * ((i - 1) \div Modulus) + ((i - 1) % Modulus)
          /\ (i - 1) % Modulus \in 0 .. Modulus - 1 /\ (i - 1) \div Modulus \in Int
      BY <1>3, <2>1, Division
    <3>2. (i - 1) \div Modulus >= 0
      BY <1>3, <2>1
    <3> DEFINE k == (i - 1) \div Modulus
               t == (i - 1) % Modulus
    <3>3. k \in Nat /\ t \in Nat /\ i - 1 = Modulus * k + t
      BY <1>3, <3>1, <3>2
    <3> HIDE DEF k, t
    <3>4. Modulus * k \in Nat
      BY <1>3, <3>3
    <3> QED
      BY <3>3, <3>4 DEF t
  <2>8. (Value(tasks[i]).seeds[1] - job.base) % Modulus = y
    <3>1. ((x % Modulus) + 0) % Modulus \in Int
      <4>1. (x % Modulus) + 0 \in Int
        BY <1>3, <2>1, Division
      <4> QED
        BY <1>3, <4>1, Division
    <3> DEFINE z == ((x % Modulus) + 0) % Modulus
    <3>2. z - job.base = z + (-job.base)
      <4> HIDE DEF z
      <4>1. z \in Int
        BY <3>1 DEF z
      <4> QED
        BY <1>3, <4>1
    <3> QED
      BY <2>2, <3>2
  <2>9. Metric(Value(tasks[i])) = job.metric[1 + ((i - 1) % Modulus)]
    BY <2>6, <2>8 DEF Metric
  <2>10. 1 + ((i - 1) % Modulus) \in 1 .. ReplicaCount
    <3> DEFINE t == (i - 1) % Modulus
    <3> HIDE DEF t
    <3>1. t \in 0 .. i - 1
      BY <2>7 DEF t
    <3> QED
      BY <1>3, <3>1 DEF t
  <2> QED
    BY <1>3, <2>9, <2>10
<1>5. MetricValues = [i \in 1 .. ReplicaCount |-> Metric(Value(tasks[i]))]
  BY <1>1, <1>2 DEF MetricValues, AllValues
<1> QED
  BY <1>4, <1>5

(* Whatever the metrics of the replicas, their number and the order they   *)
(* finish in: each percentile is the metric of a replica, they ascend, and *)
(* the extremes bound them (distribution_from, percentile).                *)
THEOREM OrderStatistics == AnalysisSpec => []PercentilesOrdered
<1>1. AnalysisInit => Reported
  BY DEF AnalysisInit, Reported
<1>2. AnalysisInv /\ Reported => PercentilesOrdered
  <2> SUFFICES ASSUME AnalysisInv, Reported, job.kind = "montecarlo", phase = "done"
               PROVE  PercentilesOrdered
    BY DEF PercentilesOrdered
  <2> DEFINE n == ReplicaCount
             m == MetricValues
             s == SortedValues(m)
             index(k) == PercentileIndex(Percentiles[k], n)
  <2>1. n \in Nat \ {0} /\ m \in [1 .. n -> Int]
    BY JobsAssumption, MetricTaken DEF AnalysisInv, ReplicaCount
  <2>2. /\ s \in [1 .. n -> Range(m)]
        /\ \A i, j \in 1 .. n : i <= j => s[i] <= s[j]
        /\ \A v \in Range(m) : s[1] <= v /\ v <= s[n]
    <3> HIDE DEF n, m
    <3> QED
      BY <2>1, SortedInOrder
  <2>3. report = Distribution(m)
    BY DEF Reported
  <2> HIDE DEF n, m, s
  <2>4. Len(s) = n
    BY <2>1, <2>2
  <2>5. /\ DOMAIN Percentiles = 1 .. 5 /\ Len(Percentiles) = 5
        /\ \A k \in 1 .. 5 : Percentiles[k] \in 0 .. 100
        /\ \A k \in 2 .. 5 : Percentiles[k - 1] <= Percentiles[k]
    BY DEF Percentiles
  <2>6. report = [min |-> s[1], max |-> s[n], percentiles |-> [k \in 1 .. 5 |-> s[index(k)]]]
    BY <2>3, <2>4, <2>5 DEF Distribution, s
  <2>7. \A k \in 1 .. 5 : index(k) \in 1 .. n
    BY <2>1, <2>5, PercentilesPlaced
  <2>8. \A k \in 2 .. 5 : index(k - 1) <= index(k)
    <3> SUFFICES ASSUME NEW k \in 2 .. 5 PROVE index(k - 1) <= index(k)
      OBVIOUS
    <3>1. k - 1 \in 1 .. 5 /\ k \in 1 .. 5
      OBVIOUS
    <3>2. /\ Percentiles[k - 1] \in 0 .. 100 /\ Percentiles[k] \in 0 .. 100
          /\ Percentiles[k - 1] <= Percentiles[k]
      BY <2>5, <3>1
    <3> QED
      BY <2>1, <3>2, PercentilesAscend
  <2> HIDE DEF index
  <2> DEFINE p == report.percentiles
  <2>9. p = [k \in 1 .. 5 |-> s[index(k)]] /\ report.min = s[1] /\ report.max = s[n]
    BY <2>6
  <2> HIDE DEF p
  <2>10. Range(p) \cup {report.min, report.max} \subseteq Range(m)
    <3>1. 1 \in 1 .. n /\ n \in 1 .. n
      BY <2>1
    <3>2. s[1] \in Range(m) /\ s[n] \in Range(m)
      BY <2>2, <3>1
    <3>3. \A k \in 1 .. 5 : p[k] \in Range(m)
      BY <2>2, <2>7, <2>9
    <3> QED
      BY <2>9, <3>2, <3>3 DEF Range
  <2>11. \A k \in 2 .. 5 : p[k - 1] <= p[k]
    BY <2>2, <2>7, <2>8, <2>9
  <2>12. Len(p) = 5
    <3>1. p \in [1 .. 5 -> Range(m)]
      BY <2>2, <2>7, <2>9
    <3> QED
      BY <3>1
  <2>13. Range(m) = {Metric(answer.values[i]) : i \in DOMAIN answer.values}
    BY DEF m, MetricValues, Range
  <2> QED
    BY <2>2, <2>9, <2>10, <2>11, <2>12, <2>13 DEF PercentilesOrdered, p
<1> QED
  BY <1>1, <1>2, ReportedStep, AlwaysAnalysisInv, PTL DEF AnalysisSpec
=============================================================================
