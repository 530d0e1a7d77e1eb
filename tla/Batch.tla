------------------------------- MODULE Batch -------------------------------
(***************************************************************************)
(* What a parallel evaluation promises.  It is asked once for a sequence   *)
(* of tasks, known here by the outcome each of them has, and answers once: *)
(* with every value, in the order of the tasks, if no task fails, and else *)
(* with the failure of one of those that do.  It is not asked for nothing. *)
(***************************************************************************)
EXTENDS Sequences

CONSTANT NoAnswer

VARIABLES outcomes, answer
batchVars == <<outcomes, answer>>

Success(values) == [ok |-> TRUE, values |-> values]
Failure(task) == [ok |-> FALSE, failed |-> task]

Failures == {o \in {outcomes[i] : i \in DOMAIN outcomes} : ~o.ok}
Answers ==
  IF Failures = {} THEN {Success([i \in DOMAIN outcomes |-> outcomes[i].value])}
  ELSE {Failure(o.task) : o \in Failures}

BatchInit == outcomes = <<>> /\ answer = NoAnswer

Ask ==
  /\ outcomes = <<>>
  /\ outcomes' # <<>>
  /\ UNCHANGED answer

Reply ==
  /\ outcomes # <<>> /\ answer = NoAnswer
  /\ answer' \in Answers
  /\ UNCHANGED outcomes

BatchSafety == BatchInit /\ [][Ask \/ Reply]_batchVars
BatchSpec == BatchSafety /\ WF_batchVars(Reply)
=============================================================================
