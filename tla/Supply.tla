------------------------------- MODULE Supply -------------------------------
(***************************************************************************)
(* From the hardware to the flow of events: the model is loaded and        *)
(* overridden, its factories are started, and from then on every event     *)
(* popped restarts its factory or completes its gate.  What the engine     *)
(* does with the states, and when it schedules a gate, is the business of  *)
(* the module Engine: here a gate may be scheduled between any two events. *)
(***************************************************************************)
EXTENDS Mutate, Factories, Routing, EventHeap

CONSTANTS
  Requests,     \* [base, space, point], and whether a simulation is started
  Layouts,      \* the positions a circuit may give its qubits
  NumQubits,
  Gates         \* the gates of the circuit: a sequence of their qubits

ASSUME RequestsAssumption ==
  /\ RawTimes # {} /\ RawTimes \subseteq Nat
  /\ \A r \in Requests :
       IsModel(r.base) /\ r.space \in Seq(Parameters) /\ r.point \in Seq(Int)

VARIABLES
  layout,       \* the positions of the circuit, as a list
  started,      \* the factories the constructor has started
  waiting,      \* the gates not scheduled yet
  unfinished    \* the gates not completed

engineVars == <<layout, started, waiting, unfinished>>
vars == <<mutateVars, heapVars, engineVars>>

Outcome(id, type) == [type |-> "factory", id |-> id, outcome |-> type]
GateEvent(gate) == [type |-> "gate", id |-> gate, outcome |-> "none"]

-----------------------------------------------------------------------------
(* Times in cycles. *)

MeasurementCycles(model) ==
  AtLeastOne(CeilDiv(model.value["measurement_time_us"], model.value["cycle_time_us"]))
FeedbackDelay(model) ==
  CeilDiv(model.value["feedback_latency_us"], model.value["cycle_time_us"])

GateCost(gate) == 1 + Latency(hw, PositionIndex(layout, NumQubits), Gates[gate])

-----------------------------------------------------------------------------
Init ==
  /\ request \in Requests
  /\ hw = base /\ todo = <<>> /\ phase = "read"
  /\ HeapInit
  /\ layout \in Layouts
  /\ started = 0
  /\ waiting = DOMAIN Gates /\ unfinished = DOMAIN Gates

Running == phase = "ready" /\ request.run /\ started = Cardinality(CreateFactories(hw))

(* One production attempt of a factory, scheduled as its outcome. *)
StartFactory(id, attempt) == Schedule(attempt.delay, Outcome(id, attempt.type))

(* The constructor starts the factories one after another. *)
StartFirst ==
  /\ phase = "ready" /\ request.run
  /\ started \in CreateFactories(hw)
  /\ \E attempt \in ScheduleProduction(hw) : StartFactory(started, attempt)
  /\ started' = started + 1
  /\ UNCHANGED <<mutateVars, current, layout, waiting, unfinished>>

Step ==
  /\ Running
  /\ Pop
  /\ UNCHANGED <<mutateVars, engineVars>>

Handling(type, outcome) ==
  current # <<>> /\ current[1].type = type /\ current[1].outcome = outcome

FactoryProduced ==
  /\ Handling("factory", "produced")
  /\ \E attempt \in ScheduleProduction(hw) : StartFactory(current[1].id, attempt)
  /\ current' = <<>>
  /\ UNCHANGED <<mutateVars, engineVars>>

(* Fault: the factory restarted is always the first. *)
FactoryFailedFirst ==
  /\ Handling("factory", "failed")
  /\ \E attempt \in ScheduleProduction(hw) : StartFactory(0, attempt)
  /\ current' = <<>>
  /\ UNCHANGED <<mutateVars, engineVars>>
FactoryFailed ==
  /\ Handling("factory", "failed")
  /\ \E attempt \in ScheduleProduction(hw) : StartFactory(current[1].id, attempt)
  /\ current' = <<>>
  /\ UNCHANGED <<mutateVars, engineVars>>

GateCompleted ==
  /\ Handling("gate", "none")
  /\ unfinished' = unfinished \ {current[1].id}
  /\ current' = <<>>
  /\ UNCHANGED <<mutateVars, heap, nextSeq, layout, started, waiting>>

ScheduleGate(gate) ==
  /\ Running
  /\ current = <<>> /\ gate \in waiting
  /\ Schedule(GateCost(gate), GateEvent(gate))
  /\ waiting' = waiting \ {gate}
  /\ UNCHANGED <<mutateVars, current, layout, started, unfinished>>

Prepare == MutateStep /\ UNCHANGED <<heapVars, engineVars>>
Stopped ==
  phase \notin {"read", "loaded", "applying", "ready"} \/ (phase = "ready" /\ ~request.run)

Next ==
  \/ Prepare
  \/ StartFirst \/ Step
  \/ FactoryProduced \/ FactoryFailed \/ GateCompleted
  \/ \E gate \in DOMAIN Gates : ScheduleGate(gate)
  \/ Stopped /\ UNCHANGED vars

(* The engine is one loop, and schedules every ready gate before the next  *)
(* cycle.  The draws are independent: an attempt that may succeed does so  *)
(* eventually if it is repeated for ever.                                  *)
Succeeds(id) ==
  /\ current # <<>> /\ current[1].type = "factory" /\ current[1].id = id
  /\ FactoryProduced \/ FactoryFailed
  /\ \E x \in heap' \ heap : x.event = Outcome(id, "produced")

Fairness ==
  /\ WF_vars(Prepare \/ StartFirst \/ Step \/ FactoryProduced \/ FactoryFailed \/ GateCompleted)
  /\ \A gate \in DOMAIN Gates : SF_vars(ScheduleGate(gate))
  /\ \A id \in 0 .. MaxCount - 1 : SF_vars(Succeeds(id))

Spec == Init /\ [][Next]_vars /\ Fairness
=============================================================================
