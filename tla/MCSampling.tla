----------------------------- MODULE MCSampling -----------------------------
(***************************************************************************)
(* Jobs of every kind: small enough to take all interleavings, and the     *)
(* sequence in all its dimensions.                                         *)
(***************************************************************************)
EXTENDS Sampling

CONSTANT One   \* threads = Some(1)

MonteCarloJob(replicas, metric, base, workers, invalid) ==
  [kind |-> "montecarlo", replicas |-> replicas, mc |-> 1, base |-> base, metric |-> metric,
   workers |-> workers, threads |-> IF workers = 1 THEN One ELSE NoThreads, invalid |-> invalid]
MorrisJob(dim, n, levels, grid, mc, workers, invalid) ==
  [kind |-> "morris", dim |-> dim, trajectories |-> n, levels |-> levels, grid |-> grid, mc |-> mc,
   base |-> 13, workers |-> workers, invalid |-> invalid]
SobolJob(dim, n, mc, workers, invalid) ==
  [kind |-> "sobol", dim |-> dim, n |-> n, mc |-> mc, base |-> 0, workers |-> workers,
   invalid |-> invalid, confident |-> TRUE, resamples |-> MinResamples]
SequenceJob(n, dim) ==
  [kind |-> "sequence", n |-> n, dim |-> dim, mc |-> 1, base |-> 0]

Metrics(n) == [1 .. n -> 0 .. 2]
MonteCarloJobs ==
  {MonteCarloJob(n, <<1>>, 0, 1, {}) : n \in {0, 1}}
    \cup {MonteCarloJob(3, m, 14, 2, {}) : m \in Metrics(3)}
    \cup {MonteCarloJob(5, <<4, 2, 5, 1, 3>>, 0, 2, {}),
           MonteCarloJob(2, <<0, 0>>, 0, 2, {"hardware"})}

MorrisJobs ==
  {MorrisJob(2, 2, 4, {0, 2}, 2, 1, {}), MorrisJob(1, 2, 6, 0 .. 5, 0, 2, {<<0>>, <<5>>})}
    \cup {MorrisJob(d, n, levels, {0}, 1, 1, {}) :
            <<d, n, levels>> \in {<<1, 1, 4>>, <<1, 2, 2>>, <<1, 2, 5>>, <<0, 2, 4>>}}

At(j, d) == <<"sequence", j, d>>
SobolJobs ==
  {SobolJob(1, 4, 1, 1, {}), SobolJob(2, 2, 2, 2, {<<At(1, 1), At(1, 4)>>, <<At(2, 1), At(2, 2)>>}),
   SobolJob(3, 2, 1, 1, {}),
   SobolJob(1, 3, 1, 1, {}), SobolJob(1, 1, 1, 1, {}), SobolJob(0, 2, 1, 1, {}), SobolJob(5, 2, 1, 1, {}),
   [SobolJob(1, 2, 1, 1, {}) EXCEPT !.confident = FALSE],
   [SobolJob(1, 2, 1, 1, {}) EXCEPT !.resamples = 0]}

SequenceJobs ==
  {SequenceJob(n, 4) : n \in {0, 1, 2, 3, 8}} \cup {SequenceJob(256, 30), SequenceJob(2, 0), SequenceJob(2, 31)}

MCJobs == MonteCarloJobs \cup MorrisJobs \cup SobolJobs \cup SequenceJobs
=============================================================================
