------------------------------- MODULE Morris -------------------------------
(***************************************************************************)
(* morris_screening: random trajectories through a grid of the unit cube,  *)
(* one flat batch of their points, and one elementary effect per step.     *)
(* Coordinates count the steps of the grid, 1 / (levels - 1) each.         *)
(***************************************************************************)
EXTENDS ParallelBatch, SequencesExt

VARIABLE trajectories   \* [points, permutation, signs]

CheckMorris ==
  /\ job.kind = "morris" /\ phase = "start"
  /\ phase' = IF job.trajectories < 2                      THEN "InsufficientTrajectories"
              ELSE IF job.levels < 4 \/ job.levels % 2 = 1 THEN "InvalidMorrisLevels"
              ELSE IF job.dim = 0                          THEN "EmptyParameterSpace"
              ELSE "design"
  /\ UNCHANGED <<job, tasks, answer, report, poolVars, trajectories>>

(* levels / (2 (levels - 1)), in steps of the grid *)
Delta == job.levels \div 2
Clamp(x) == CASE x < 0 -> 0 [] x > job.levels - 1 -> job.levels - 1 [] OTHER -> x

Sign(x, preferred) ==
  LET canUp == x + Delta <= job.levels - 1
      canDown == x - Delta >= 0
  IN  CASE canUp /\ ~canDown -> 1
        [] canDown /\ ~canUp -> -1
        [] OTHER             -> preferred

Moved(point, k, preferred) == [point EXCEPT ![k] = Clamp(@ + Sign(@, preferred) * Delta)]

(* The points passed, one coordinate after another in the order drawn.     *)
Path(start, permutation, preferred) ==
  LET at[s \in 0 .. job.dim] ==
        IF s = 0 THEN start ELSE Moved(at[s - 1], permutation[s], preferred[s])
  IN  at

Trajectory(start, permutation, preferred) ==
  LET at == Path(start, permutation, preferred)
  IN  [points |-> [s \in 1 .. job.dim + 1 |-> at[s - 1]],
       permutation |-> permutation,
       signs |-> [s \in 1 .. job.dim |-> Sign(at[s - 1][permutation[s]], preferred[s])]]

Dims == 1 .. job.dim

(* Starts are drawn from the whole grid; a run bounds them by job.grid.    *)
GenerateTrajectory ==
  /\ job.kind = "morris" /\ phase = "design"
  /\ Len(trajectories) < job.trajectories
  /\ \E start \in [Dims -> job.grid], p \in [Dims -> Dims], preferred \in [Dims -> {-1, 1}] :
       /\ \A i, j \in Dims : p[i] = p[j] => i = j
       /\ trajectories' = Append(trajectories, Trajectory(start, p, preferred))
  /\ UNCHANGED <<jobVars, poolVars>>

PointsPerTrajectory == job.dim + 1

EvaluateTrajectories ==
  /\ job.kind = "morris" /\ phase = "design"
  /\ Len(trajectories) = job.trajectories
  /\ Submit([i \in 1 .. job.trajectories * PointsPerTrajectory |->
               Task(trajectories[1 + ((i - 1) \div PointsPerTrajectory)]
                      .points[1 + ((i - 1) % PointsPerTrajectory)], i - 1)])
  /\ phase' = "batch"
  /\ UNCHANGED <<job, answer, report, trajectories>>

(* Fault: trajectories are cut one point short. *)
ShortOffset(t) == (t - 1) * job.dim
BaseOffset(t) == (t - 1) * PointsPerTrajectory

(* The effect of step j of a trajectory: (after - before) / (sign * delta). *)
Effect(t, j) ==
  [before |-> answer.values[BaseOffset(t) + j],
   after  |-> answer.values[BaseOffset(t) + j + 1],
   sign   |-> trajectories[t].signs[j]]

ExtractEffects ==
  /\ job.kind = "morris" /\ phase = "collected"
  /\ report' = [k \in Dims |->
                  [t \in 1 .. job.trajectories |->
                     Effect(t, CHOOSE j \in Dims : trajectories[t].permutation[j] = k)]]
  /\ phase' = "done"
  /\ UNCHANGED <<job, tasks, answer, poolVars, trajectories>>

MorrisStep == CheckMorris \/ GenerateTrajectory \/ EvaluateTrajectories \/ ExtractEffects
=============================================================================
