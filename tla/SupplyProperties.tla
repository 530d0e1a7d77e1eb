-------------------------- MODULE SupplyProperties --------------------------
(***************************************************************************)
(* What a hardware model must amount to once a run is under way.           *)
(***************************************************************************)
EXTENDS Supply

CONSTANT LongestDelay   \* no attempt and no gate takes longer

(* The model the space and the point ask for: every field of the space has *)
(* the value of its coordinate, every other field is the base's.           *)
Target ==
  [base EXCEPT !.value =
     [f \in DOMAIN base.value |->
        LET i == SelectInSeq(space, LAMBDA p : p.name = f)
        IN  IF i = 0 THEN base.value[f] ELSE Stored(f, MapUnit(space[i], point[i]))]]

(* A point is judged as a whole: it is refused exactly if the model it     *)
(* asks for is invalid, even when the overrides pass through invalid       *)
(* models on the way, and otherwise the run gets that very model, whatever *)
(* the order of the parameters (mutate_hw_multi validates once; a name     *)
(* that occurred twice would be overridden twice).                         *)
SweptAsAWhole ==
  HardwareError(base) = "none" /\ SpaceError(base, space) = "none"
    /\ Len(point) = Len(space) /\ phase \notin {"read", "loaded", "applying"}
    => /\ phase = "ready" <=> HardwareError(Target) = "none"
       /\ phase = "ready" => hw = Target

(* Every value a sweep applies lies between the bounds of its parameter,   *)
(* is a whole number or an odd one where the kind says so, and the ends of *)
(* the unit interval reach both bounds (map_unit_to_physical).             *)
MappedWithinBounds ==
  phase = "applying" =>
    \A i \in DOMAIN space : \A j \in DOMAIN todo :
      LET p == space[i]
          v == todo[j].value
      IN  todo[j].name = p.name /\ NaN \notin {p.min, p.max} =>
            /\ p.min <= v /\ v <= p.max
            /\ p.kind = "integer" => v % Scale = 0
            /\ p.kind = "odd_integer" => v % (2 * Scale) = Scale
            /\ point[i] <= 0 => v = p.min
            /\ point[i] >= Grid => v = p.max

(* What a run is started on is what the engine takes for granted: at least *)
(* one factory, no more than its ids can name, a preload that fits the     *)
(* buffer, costs that are numbers of cycles (Engine::new against validate; *)
(* the bounds of a space are checked one parameter at a time, so its       *)
(* points need not be valid).                                              *)
FitsEngine ==
  phase = "ready" =>
    /\ CreateFactories(hw) # {} /\ CreateFactories(hw) \subseteq 0 .. MaxCount - 1
    /\ hw.value["buffer_capacity"] \in Nat \ {0}
    /\ hw.value["buffer_preload"] \in 0 .. hw.value["buffer_capacity"]
    /\ MeasurementCycles(hw) \in Nat \ {0} /\ FeedbackDelay(hw) \in Nat
    /\ hw.value["fixup_cost_cycles"] \in Nat
    /\ ScheduleProduction(hw) # {}
    /\ \A attempt \in ScheduleProduction(hw) : attempt.delay \in Nat

-----------------------------------------------------------------------------
(* The heap implements the stable queue the engine relies on: ties of one  *)
(* cycle are delivered in the order they were scheduled, through any       *)
(* interleaving of schedule and pop (EventQueue, the order of TimedEvent). *)
Earlier(x, y) == x.cycle < y.cycle \/ (x.cycle = y.cycle /\ x.seq < y.seq)
Sorted(events) ==
  [i \in 1 .. Cardinality(events) |->
     CHOOSE x \in events : Cardinality({y \in events : Earlier(y, x)}) = i - 1]
Entries(list) == [i \in DOMAIN list |-> [cycle |-> list[i].cycle, event |-> list[i].event]]
Line == Entries(Sorted(heap))
(* What LongestDelay stands for. *)
WithinDelay ==
  phase = "ready" /\ request.run =>
    /\ \A attempt \in ScheduleProduction(hw) : attempt.delay \in 0 .. LongestDelay
    /\ \A gate \in DOMAIN Gates : GateCost(gate) \in 0 .. LongestDelay
AllEvents ==
  {Outcome(id, type) : id \in 0 .. MaxCount - 1, type \in {"produced", "failed"}}
    \cup {GateEvent(gate) : gate \in DOMAIN Gates}
Queue == INSTANCE EventOrder
           WITH line <- Line, delivered <- current, Events <- AllEvents,
                Delays <- 0 .. LongestDelay
QueueInOrder == Queue!OrderSpec

(* Every factory of a run delivers a state again and again, however often  *)
(* its attempts fail, unless it fails with certainty: a model with an      *)
(* abort probability of 1 is accepted (start_factory on both outcomes).    *)
MayProduce(model) == \E attempt \in ScheduleProduction(model) : attempt.type = "produced"
FactoriesProduce ==
  \A id \in 0 .. MaxCount - 1 :
    (phase = "ready" /\ request.run /\ id \in CreateFactories(hw) /\ MayProduce(hw))
      ~> (current = <<Outcome(id, "produced")>>)

(* Simulated time advances past every gate: each completes as long as an   *)
(* attempt takes time, which a distillation of no rounds or of rounds of   *)
(* no cycles does not (run, step; the factory models).                     *)
TakesTime(model) ==
  model.factory = "distillation"
    => model.value["rounds"] > 0 /\ model.value["cycles_per_round"] > 0
GatesComplete ==
  \A gate \in DOMAIN Gates : (phase = "ready" /\ request.run /\ TakesTime(hw)) ~> (gate \notin unfinished)
=============================================================================
