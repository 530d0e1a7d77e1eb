-------------------------- MODULE ProfileProperties --------------------------
(***************************************************************************)
(* What a reader of a profile or of a replica's summary relies on: the     *)
(* reductions of module Profile applied to the traces that TracedEngine    *)
(* records, compared with the engine's own state and with definitions that *)
(* look at the whole trace at once.                                        *)
(***************************************************************************)
EXTENDS TracedEngine, Profile

CONSTANT Resolutions      \* cycles per bucket, as asked for

ASSUME ResolutionsAssumption == Resolutions \subseteq Nat

Done == pc \in {"finished", "truncated"}

(* A trace is sealed with total_cycles = current_cycle. *)
ProfileOf(res) == Analyze(trace, now, FactoryIds, res)
SummaryOf == Summary(trace, FactoryIds)
BucketOf(cycle, res) == Bucket(cycle, now, res)
Buckets(res) == 0 .. NumBuckets(now, res) - 1

(* The positions in the trace where a gate stalls and where it is served. *)
Waits ==
  {w \in (DOMAIN trace) \X (DOMAIN trace) :
     /\ trace[w[1]].kind = "stalled" /\ trace[w[2]].kind = "served"
     /\ trace[w[1]].id = trace[w[2]].id}

(* The attempts of the factories: where one starts, and in which cycle it  *)
(* ends, which is the end of the trace for one that still runs.            *)
EndsAt(i) ==
  LET ends == {j \in DOMAIN trace : /\ j > i
                                    /\ trace[j].kind \in {"produced", "failed"}
                                    /\ trace[j].id = trace[i].id}
  IN  IF ends = {} THEN now ELSE trace[Min(ends)].cycle
Attempts == {i \in DOMAIN trace : trace[i].kind = "started"}
Running(i) ==
  \A j \in DOMAIN trace : j > i /\ trace[j].id = trace[i].id =>
    trace[j].kind \notin {"produced", "failed"}

-----------------------------------------------------------------------------
(* The profile lists exactly the gates that stalled and were served since, *)
(* each with the cycles between the two: analyze sees only that a recorded *)
(* wait is positive.  The stalls it does not list are still waiting.       *)
StallsReported ==
  Done => \A res \in Resolutions :
    LET stalls == ProfileOf(res).stalls
    IN  /\ ToSet(stalls) = {[cycle |-> trace[w[2]].cycle, gate |-> trace[w[2]].id,
                             wait |-> trace[w[2]].cycle - trace[w[1]].cycle] : w \in Waits}
        /\ Len(stalls) = Cardinality(Waits)
        /\ Len(stalls) + Len(stalled)
             = Cardinality({i \in DOMAIN trace : trace[i].kind = "stalled"})

(* The difference array adds up: a bucket's count is the number of         *)
(* attempts with a cycle in it, those that end or begin in the bucket and  *)
(* those still running at the end of the trace included.                   *)
ActivityCounted ==
  Done => \A res \in Resolutions :
    LET counts == ProfileOf(res).active
    IN  \A b \in Buckets(res) :
          counts[b] = Cardinality({i \in Attempts : /\ BucketOf(trace[i].cycle, res) <= b
                                                    /\ b <= BucketOf(EndsAt(i), res)})

(* No bucket of a profile shows an idle factory: the engine starts every   *)
(* factory at once and again after each outcome.                           *)
NeverIdle ==
  Done => \A res \in Resolutions :
    LET counts == ProfileOf(res).active
    IN  \A b \in Buckets(res) : counts[b] >= NumFactories

(* Every magic state consumed is in exactly one bucket, and the occupancy  *)
(* of the bucket in which the buffer last changed is the engine's.         *)
MagicAccounted ==
  Done => \A res \in Resolutions :
    LET profile == ProfileOf(res)
        changes == {i \in DOMAIN trace : trace[i].kind \in {"enqueue", "dequeue"}}
    IN  /\ Cumulative(profile.magic)[NumBuckets(now, res) - 1] = consumed
        /\ changes # {} =>
             profile.occupancy[BucketOf(trace[Max(changes)].cycle, res)] = occupancy

(* The extension a profile reports is the cost of the fixups that have     *)
(* completed: none of them waits between its insertion and its start.      *)
FixupTimeIsCost ==
  Done => \A res \in Resolutions :
    ProfileOf(res).extension =
      MapThenSumSet(LAMBDA i : TotalGateCost(FixupKey(i)),
                    {i \in DOMAIN fixups : FixupKey(i) \in finished})

(* A replica's summary and its profile tell the same of stalls and errors, *)
(* and the active cycles of the summary are those of the finished attempts *)
(* and never more than the factories had.                                  *)
ReductionsAgree ==
  Done => \A res \in Resolutions :
    LET profile == ProfileOf(res)
        stalls == profile.stalls
        summary == SummaryOf
    IN  /\ summary.stalls = Len(stalls)
        /\ summary.waited = MapThenSumSet(LAMBDA i : stalls[i].wait, DOMAIN stalls)
        /\ \A i \in DOMAIN stalls : stalls[i].wait <= summary.longest
        /\ summary.errors = profile.errors /\ summary.inserted = profile.inserted
        /\ summary.errors = Len(fixups)
        /\ summary.active = MapThenSumSet(LAMBDA i : EndsAt(i) - trace[i].cycle,
                                          {i \in Attempts : ~Running(i)})
        /\ summary.active <= NumFactories * now

(* A bucket in which a gate waits for a magic state is classified so (see  *)
(* analysis/profile.rs:10): from the one in which it stalls to the one in  *)
(* which it is served.                                                     *)
WaitingShown ==
  Done => \A res \in Resolutions : \A b \in Buckets(res) :
    (\E w \in Waits : /\ BucketOf(trace[w[1]].cycle, res) <= b
                      /\ b <= BucketOf(trace[w[2]].cycle, res))
      => ProfileOf(res).bottleneck[b] \in {"FactoryThroughput", "Balanced"}
=============================================================================
