------------------------------- MODULE Profile -------------------------------
(***************************************************************************)
(* The reductions of a trace: ProfileAnalyzer::analyze (pirx-core,         *)
(* analysis/analyzer.rs) and extract_summary (monte_carlo.rs).  Each is    *)
(* one pass over the records with an accumulator.                          *)
(*                                                                         *)
(* Fractions are left as counts: a utilization is the number of active     *)
(* factories of its bucket before it is divided by their number.           *)
(***************************************************************************)
EXTENDS Integers, Sequences, FiniteSets, Folds, SequencesExt, FiniteSetsExt

CONSTANT NoStart      \* stands for None in factory_starts

ASSUME NoStartAssumption == NoStart \notin Nat

Least(a, b) == IF a < b THEN a ELSE b

(* resolution.max(1), num_buckets and to_bucket. *)
Resolution(resolution) == IF resolution > 1 THEN resolution ELSE 1
NumBuckets(total, resolution) == total \div Resolution(resolution) + 1
Bucket(cycle, total, resolution) ==
  Least(cycle \div Resolution(resolution), NumBuckets(total, resolution) - 1)

-----------------------------------------------------------------------------
(* analyze: the difference array and what else is kept per bucket. *)

Empty(total, factories, resolution) ==
  LET buckets == 0 .. NumBuckets(total, resolution) - 1
  IN  [deltas     |-> [b \in 0 .. NumBuckets(total, resolution) |-> 0],
       occupancy  |-> [b \in buckets |-> 0],
       hadStall   |-> {},
       hadRouting |-> {},
       magic      |-> [b \in buckets |-> 0],
       starts     |-> [f \in factories |-> NoStart],
       fixups     |-> {},           \* fixup_starts, as pairs
       stalls     |-> <<>>,
       errors     |-> 0,
       inserted   |-> 0,
       extension  |-> 0]

(* Fault: the interval ends before its last bucket. *)
ActiveShort(deltas, from, to) ==
  [deltas EXCEPT ![from] = @ + 1, ![to] = @ - 1]

(* One attempt was active from bucket from to bucket to. *)
Active(deltas, from, to) ==
  [deltas EXCEPT ![from] = @ + 1, ![to + 1] = @ - 1]

(* Fault: a wait of one cycle is no stall. *)
LongWait(n) == n > 1
Stalled(n) == n > 0

(* Fault: a gate that stalled is not counted as served. *)
ServedUncounted(a, e, b) ==
  [a EXCEPT !.magic[b] = IF Stalled(e.n) THEN @ ELSE @ + 1,
            !.stalls = IF Stalled(e.n)
                         THEN Append(@, [cycle |-> e.cycle, gate |-> e.id, wait |-> e.n])
                         ELSE @,
            !.hadStall = IF Stalled(e.n) THEN @ \cup {b} ELSE @]

Served(a, e, b) ==
  [a EXCEPT !.magic[b] = @ + 1,
            !.stalls = IF Stalled(e.n)
                         THEN Append(@, [cycle |-> e.cycle, gate |-> e.id, wait |-> e.n])
                         ELSE @,
            !.hadStall = IF Stalled(e.n) THEN @ \cup {b} ELSE @]

Observe(a, e, b, total, resolution) ==
  CASE e.kind = "started" ->
         [a EXCEPT !.starts[e.id] = e.cycle]
    [] e.kind \in {"produced", "failed"} /\ a.starts[e.id] # NoStart ->
         [a EXCEPT !.deltas = Active(@, Bucket(a.starts[e.id], total, resolution), b),
                   !.starts[e.id] = NoStart]
    [] e.kind \in {"enqueue", "dequeue"} ->
         [a EXCEPT !.occupancy[b] = e.n]
    [] e.kind = "served" ->
         Served(a, e, b)
    [] e.kind = "error" ->
         [a EXCEPT !.errors = @ + 1]
    [] e.kind = "fixup" ->
         [a EXCEPT !.inserted = @ + 1,
                   !.fixups = {p \in @ : p[1] # e.id} \cup {<<e.id, e.cycle>>}]
    [] e.kind = "fixup_completed" /\ (\E p \in a.fixups : p[1] = e.id) ->
         LET start == (CHOOSE p \in a.fixups : p[1] = e.id)[2]
         IN  [a EXCEPT !.extension = @ + (e.cycle - start),
                       !.fixups = {p \in @ : p[1] # e.id}]
    [] e.kind = "routed" /\ e.n > 0 ->
         [a EXCEPT !.hadRouting = @ \cup {b}]
    [] OTHER -> a

(* Fault: attempts still running at the end are forgotten. *)
RunningForgotten(a, total, resolution) == a.deltas

(* Attempts still running at the end are active up to the last bucket. *)
RunningFilled(a, total, resolution) ==
  LET running == {f \in DOMAIN a.starts : a.starts[f] # NoStart}
  IN  FoldSet(LAMBDA f, deltas : Active(deltas, Bucket(a.starts[f], total, resolution),
                                        Bucket(total, total, resolution)),
              a.deltas, running)

(* The prefix sum, where negative counts are cut off. *)
ActiveCounts(deltas, total, resolution) ==
  [b \in 0 .. NumBuckets(total, resolution) - 1 |->
     LET running == MapThenSumSet(LAMBDA c : deltas[c], 0 .. b)
     IN  IF running > 0 THEN running ELSE 0]

Bottleneck(a, b) ==
  IF b \in a.hadStall
    THEN IF b \in a.hadRouting THEN "Balanced" ELSE "FactoryThroughput"
    ELSE IF b \in a.hadRouting THEN "RoutingContention" ELSE "None"

Analyze(trace, total, factories, resolution) ==
  LET a == FoldLeft(LAMBDA acc, e :
                      Observe(acc, e, Bucket(e.cycle, total, resolution), total, resolution),
                    Empty(total, factories, resolution), trace)
  IN  [active     |-> ActiveCounts(RunningFilled(a, total, resolution), total, resolution),
       occupancy  |-> a.occupancy,
       bottleneck |-> [b \in DOMAIN a.occupancy |-> Bottleneck(a, b)],
       stalls     |-> a.stalls,
       errors     |-> a.errors,
       inserted   |-> a.inserted,
       extension  |-> a.extension,
       magic      |-> a.magic]

(* ExecutionProfile::cumulative_magic_states. *)
Cumulative(magic) == [b \in DOMAIN magic |-> MapThenSumSet(LAMBDA c : magic[c], 0 .. b)]

-----------------------------------------------------------------------------
(* extract_summary: running counters only.  An attempt that is still       *)
(* running at the end of the trace counts nothing.                         *)

(* Fault: both ends of an attempt are counted. *)
EndedInclusive(a, e) ==
  [a EXCEPT !.active = @ + (e.cycle - a.starts[e.id]) + 1, !.starts[e.id] = NoStart]

Ended(a, e) ==
  [a EXCEPT !.active = @ + (e.cycle - a.starts[e.id]), !.starts[e.id] = NoStart]

Tally(a, e) ==
  CASE e.kind = "served" /\ e.n > 0 ->
         [a EXCEPT !.stalls = @ + 1, !.waited = @ + e.n,
                   !.longest = IF @ > e.n THEN @ ELSE e.n]
    [] e.kind = "error" -> [a EXCEPT !.errors = @ + 1]
    [] e.kind = "fixup" -> [a EXCEPT !.inserted = @ + 1]
    [] e.kind = "full"  -> [a EXCEPT !.full = @ + 1]
    [] e.kind = "started" -> [a EXCEPT !.starts[e.id] = e.cycle]
    [] e.kind \in {"produced", "failed"} /\ a.starts[e.id] # NoStart ->
         Ended(a, e)
    [] OTHER -> a

Summary(trace, factories) ==
  FoldLeft(Tally,
           [stalls |-> 0, waited |-> 0, longest |-> 0, errors |-> 0, inserted |-> 0,
            full |-> 0, active |-> 0, starts |-> [f \in factories |-> NoStart]],
           trace)
=============================================================================
