-------------------------- MODULE EngineProperties --------------------------
(***************************************************************************)
(* What a profile produced by the engine rests on, stated over the state   *)
(* of module Engine.                                                       *)
(***************************************************************************)
EXTENDS Engine

(* Every part of the state has its type, and whatever sits in a queue or a *)
(* successor list exists: it is an operation of the circuit or a fixup     *)
(* already inserted, and an activation belongs to a hooked measurement.    *)
TypeOK ==
  /\ input \in Input
  /\ fixups \in Seq(Ops)
  /\ Len(fixups) <= MaxFixups
  /\ active \subseteq Known
  /\ pending \in [Key -> Nat]
  /\ succs \in [Key -> Seq(Known)]
  /\ ready \in Seq(Known)
  /\ stalled \in Seq([gate : Known, since : Nat])
  /\ events \in Seq(Event)
  /\ now \in Nat
  /\ pc \in {"loop", "events", "serve", "ready", "finished", "truncated"}
  /\ occupancy \in 0 .. Capacity
  /\ consumed \in Nat
  /\ total \in Nat
  /\ completed \in Nat
  /\ finished \subseteq Known
  /\ enqueued \in Nat
  /\ served \in Seq(Known)

-----------------------------------------------------------------------------
(* What a well-made circuit is like.  from_circuit sees to the first,      *)
(* validate to the second and, of the third, to the targets being          *)
(* inactive, but not to a hook having one measurement; the runs            *)
(* find_open_circuit and find_instant_feedback show what happens without   *)
(* the last two.                                                           *)

(* Both adjacency lists come from one list of dependencies. *)
SameEdges(c) ==
  \A p, k \in Ops : Occurrences(c.succs[p], k) = Occurrences(c.preds[k], p)

(* The operations can be numbered in the order of their dependencies. *)
Acyclic(c) ==
  \E rank \in [Ops -> Ops] :
    \A k \in Ops : \A p \in ToSet(c.preds[k]) : rank[p] < rank[k]

Measurements(c) == {m \in Ops : c.hook[m] # NoHook}
TargetsOf(c, m, o) == c.targets[c.hook[m]][o]

(* An operation waits for one measurement to activate it, and is named     *)
(* once in what an outcome activates.                                      *)
ActivatedOnce(c) ==
  /\ \A m, n \in Measurements(c), o, q \in Outcomes :
       \A i \in DOMAIN TargetsOf(c, m, o), j \in DOMAIN TargetsOf(c, n, q) :
         TargetsOf(c, m, o)[i] = TargetsOf(c, n, q)[j] => m = n /\ (o = q => i = j)
  /\ \A m \in Measurements(c), o \in Outcomes : ToSet(TargetsOf(c, m, o)) \cap c.active = {}

(* The operations active in the end, when the measurements in the domain   *)
(* of outcome have been made with these outcomes.                          *)
ActiveAfter(c, outcome) ==
  c.active \cup UNION {ToSet(TargetsOf(c, m, outcome[m])) : m \in DOMAIN outcome}

(* Whatever is measured, no operation that becomes active depends on one   *)
(* that does not.                                                          *)
ActivationClosed(c) ==
  \A M \in SUBSET Measurements(c) : \A outcome \in [M -> Outcomes] :
    M \subseteq ActiveAfter(c, outcome) =>
      \A k \in ActiveAfter(c, outcome) : ToSet(c.preds[k]) \subseteq ActiveAfter(c, outcome)

(* No hook target depends directly on the measurement that activates it.   *)
TargetsIndependent(c) ==
  \A m \in Measurements(c), o \in Outcomes :
    \A k \in ToSet(TargetsOf(c, m, o)) : m \notin ToSet(c.preds[k])

-----------------------------------------------------------------------------
(* Where an operation is. *)

InFlight(k) == \E i \in DOMAIN events : events[i].type = "gate" /\ events[i].id = k
Waiting(k) == \E i \in DOMAIN stalled : stalled[i].gate = k
Issued(k) == k \in ToSet(ready) \/ Waiting(k) \/ InFlight(k) \/ k \in finished

Places(k) ==
  Occurrences(ready, k)
    + Cardinality({i \in DOMAIN stalled : stalled[i].gate = k})
    + Cardinality({i \in DOMAIN events : events[i].type = "gate" /\ events[i].id = k})
    + (IF k \in finished THEN 1 ELSE 0)

(* An operation is resolved once it, and the fixup injected for it if     *)
(* there is one, have completed.                                          *)
Resolved(k) ==
  /\ k \in finished
  /\ \A i \in DOMAIN fixups : fixups[i] = k => FixupKey(i) \in finished

-----------------------------------------------------------------------------
(* Every magic state is accounted for: those the buffer started with and  *)
(* those the trace records as enqueued are in the buffer or were consumed *)
(* by exactly one served gate.  A state is lost or handed out twice if an *)
(* occupancy update, a counter or a trace record is missed on some path.  *)
InitialStock == IF Preload < Capacity THEN Preload ELSE Capacity
StatesConserved ==
  /\ InitialStock + enqueued = occupancy + consumed
  /\ consumed = Len(served)

(* Outside phases 1 and 2 no gate is kept waiting while the buffer holds a *)
(* state: phase 2 serves until one of the two is exhausted, and phase 3    *)
(* stalls a gate only when the buffer is empty.                            *)
NoIdleStock == pc \notin {"events", "serve"} => stalled = <<>> \/ occupancy = 0

(* An operation sits in at most one place: the ready queue, the stalled   *)
(* queue, one outstanding completion, or the completed operations.  A     *)
(* second entry would execute the operation twice and count it twice.     *)
ExecutedOnce == \A k \in Key : Places(k) <= 1

(* Nothing is issued before every operation it depends on has completed,  *)
(* injected fixups included.                                              *)
DependencyOrder ==
  \A k \in Ops : Issued(k) =>
    \A j \in DOMAIN input.preds[k] : Resolved(input.preds[k][j])

(* A fixup comes between its gate and all the gate's successors: none of  *)
(* them is issued before the fixup has completed (dag/mutate.rs:68-71).   *)
FixupBeforeSuccessors ==
  \A i \in DOMAIN fixups : \A k \in ToSet(input.succs[fixups[i]]) :
    Issued(k) => FixupKey(i) \in finished

(* The same in a run with feedback, up to the first injected fixup (see   *)
(* FixupBeforeSuccessors for what happens from there).                    *)
FeedbackOrder == fixups = <<>> => DependencyOrder

(* While operations are outstanding something will still bring one about: *)
(* a stalled gate, a completion, or an activation with operations in it.  *)
(* Otherwise run would process factory events for ever.                   *)
WorkRemains ==
  (pc = "loop" /\ completed < total) =>
    \/ ready # <<>> \/ stalled # <<>>
    \/ \E i \in DOMAIN events : events[i].type = "gate"
    \/ \E i \in DOMAIN events :
         /\ events[i].type = "hook"
         /\ input.targets[input.hook[events[i].id]][events[i].outcome] # <<>>

(* run ends untruncated only when all work is done: every operation that  *)
(* is or was made active, fixups included, has completed, and no          *)
(* activation with operations in it is still on its way.                  *)
NothingLeftBehind ==
  pc = "finished" =>
    /\ active = finished
    /\ ready = <<>> /\ stalled = <<>>
    /\ \A i \in DOMAIN events :
         /\ events[i].type # "gate"
         /\ events[i].type = "hook" =>
              input.targets[input.hook[events[i].id]][events[i].outcome] = <<>>

(* Each factory has exactly one outcome scheduled, whatever it did last:  *)
(* it is neither forgotten after a failure nor started twice.             *)
FactoriesBusy ==
  \A f \in FactoryIds :
    Cardinality({i \in DOMAIN events :
                   events[i].type \in {"produced", "failed"} /\ events[i].id = f}) = 1

(* With a limit no event of a cycle at or past it is processed, and a     *)
(* truncated run still has operations outstanding.                        *)
WithinLimit ==
  MaxCycles # NoLimit =>
    /\ now < MaxCycles \/ (now = 0 /\ finished = {})
    /\ pc = "truncated" => completed < total

-----------------------------------------------------------------------------
(* Simulated time never runs backwards, also when work of no cost is      *)
(* scheduled in the cycle being processed.                                *)
TimeMonotone == [][now' >= now]_vars

(* A gate that was recorded as stalled is recorded as served only in a    *)
(* later cycle, so that GateServed carries a positive wait exactly for the *)
(* gates that stalled: the profiles tell stalls from the wait alone.      *)
StallTakesTime ==
  [][(pc = "serve" /\ served' # served) => Head(stalled).since < now]_vars

(* The engine hands out magic states as MagicSupply does: first come, first *)
(* served across the gates that stall and those served at once, each state *)
(* to one gate, and no gate stalls while a state is in the buffer.         *)
Supply == INSTANCE MagicSupply
            WITH Gates <- Key, Limit <- Capacity, Start <- InitialStock,
                 stock <- occupancy, granted <- served,
                 waiting <- [i \in DOMAIN stalled |-> stalled[i].gate]
ServesInOrder == Supply!SupplySpec

(* The engine returns its trace. *)
Terminates == <>(pc \in {"finished", "truncated"})
=============================================================================
