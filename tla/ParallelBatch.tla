--------------------------- MODULE ParallelBatch ---------------------------
(***************************************************************************)
(* rayon's indexed map and collect into a Result, as the Monte Carlo run   *)
(* and the sensitivity analyses use it: workers take tasks in any order    *)
(* and write each value into the slot of its task; the first failure       *)
(* noticed is kept, and tasks not started may then be dropped.             *)
(***************************************************************************)
EXTENDS Sample

VARIABLES
  pending,   \* indices of the tasks nobody has taken
  running,   \* indices of the tasks being worked on
  results,   \* the slots filled
  error      \* the failure kept, or <<>>
poolVars == <<pending, running, results, error>>

PoolInit == pending = {} /\ running = {} /\ results = <<>> /\ error = <<>>

(* The batch is handed over.  Called by the jobs. *)
Submit(list) ==
  /\ tasks' = list
  /\ pending' = DOMAIN list
  /\ running' = {} /\ results' = [i \in {} |-> NoAnswer] /\ error' = <<>>

TakeTask ==
  /\ phase = "batch"
  /\ Cardinality(running) < job.workers
  /\ \E i \in pending :
       /\ running' = running \cup {i}
       /\ pending' = pending \ {i}
  /\ UNCHANGED <<jobVars, results, error>>

(* Fault: values are stored as they arrive. *)
NextFreeSlot(i) == Cardinality(DOMAIN results) + 1
Slot(i) == i

FinishTask ==
  /\ phase = "batch"
  /\ \E i \in running :
       /\ running' = running \ {i}
       /\ IF Fails(tasks[i])
            THEN /\ error' = IF error = <<>> THEN <<tasks[i]>> ELSE error
                 /\ UNCHANGED results
            ELSE /\ results' = [k \in DOMAIN results \cup {Slot(i)} |->
                                  IF k = Slot(i) THEN Value(tasks[i]) ELSE results[k]]
                 /\ UNCHANGED error
  /\ UNCHANGED <<jobVars, pending>>

DropTasks ==
  /\ phase = "batch"
  /\ error # <<>> /\ pending # {}
  /\ pending' = {}
  /\ UNCHANGED <<jobVars, running, results, error>>

Collect ==
  /\ phase = "batch"
  /\ pending = {} /\ running = {}
  /\ IF error = <<>>
       THEN answer' = [ok |-> TRUE, values |-> results] /\ phase' = "collected"
       ELSE answer' = [ok |-> FALSE, failed |-> error[1]] /\ phase' = "failed"
  /\ UNCHANGED <<job, tasks, report, poolVars>>

PoolStep == TakeTask \/ FinishTask \/ DropTasks \/ Collect
=============================================================================
