------------------------------ MODULE Engine ------------------------------
(***************************************************************************)
(* The discrete-event simulation engine of pirx-core (engine/mod.rs,       *)
(* engine/dispatch.rs) with the state it drives: the dependency graph, the *)
(* ready queue, the magic-state buffer, the event queue and the stalled    *)
(* gates.                                                                  *)
(*                                                                         *)
(* Engine::run is a loop around Engine::step, and a step has three phases. *)
(* pc names where the engine is:                                           *)
(*    "loop"      the test of the while loop of run                        *)
(*    "events"    phase 1, processing the events of cycle now              *)
(*    "serve"     phase 2, try_serve_stalled_gates                         *)
(*    "ready"     phase 3, schedule_ready_gates                            *)
(*    "finished", "truncated"   run has returned its trace                 *)
(* Each action is one call of process_event, or one iteration of the loop  *)
(* of phase 2 or phase 3, or a test that leaves a loop.                    *)
(*                                                                         *)
(* A draw from a random stream is a choice: of a factory's outcome from    *)
(* Draws, of an injection error from Injects, of a measured value.         *)
(***************************************************************************)
EXTENDS Dag

CONSTANTS
  NumOps,             \* operations of the circuit: arena keys 1 .. NumOps
  MaxFixups,          \* bound on injected fixups: keys NumOps+1 onwards
  Inputs,             \* the inputs a run may start from
  HookIds,            \* identifiers of measurement hooks
  NoHook,             \* stands for hook: None
  NumFactories,       \* FactoryConfig::count
  Capacity,           \* buffer.capacity
  Preload,            \* buffer.preload
  Injects,            \* values of the test "injection error?"
  MeasurementCycles,  \* ceil(measurement time / cycle time), at least 1
  FixupCost,          \* injection.fixup_cost_cycles
  NoLimit             \* stands for max_cycles: None

Ops == 1 .. NumOps
Key == 1 .. NumOps + MaxFixups
FactoryIds == 0 .. NumFactories - 1
Kinds == {"clifford", "tgate", "rotation", "measurement"}
Outcomes == {0, 1}

(* What Engine::new receives: a validated circuit with its adjacency lists *)
(* (Dag::from_circuit), the routing latency of each operation's qubits,    *)
(* the resolved hook table, the feedback delay in cycles, which is         *)
(* ceil(classical feedback latency / cycle time) and may be 0, the         *)
(* outcomes that an attempt of its factories may have, and max_cycles.     *)
Input ==
  [kind : [Ops -> Kinds], hook : [Ops -> HookIds \cup {NoHook}],
   active : SUBSET Ops, route : [Ops -> Nat],
   succs : [Ops -> Seq(Ops)], preds : [Ops -> Seq(Ops)],
   targets : [HookIds -> [Outcomes -> Seq(Ops)]], feedback : Nat,
   draws : SUBSET [type : {"produced", "failed"}, delay : Nat],
   limit : Nat \cup {NoLimit}]

ASSUME SizesAssumption ==
  /\ NumOps \in Nat \ {0}
  /\ MaxFixups \in Nat
  /\ NumFactories \in Nat \ {0}       \* else EngineError::NoFactories
  /\ Capacity \in Nat \ {0}           \* else EngineError::ZeroBuffer
  /\ Preload \in Nat

ASSUME InputsAssumption ==
  /\ \A c \in Inputs : c \in Input
  /\ NoHook \notin HookIds
  /\ NoLimit \notin Nat

ASSUME TimingAssumption ==
  /\ Injects \subseteq BOOLEAN
  /\ MeasurementCycles \in Nat \ {0}
  /\ FixupCost \in Nat

-----------------------------------------------------------------------------
VARIABLES
  input,      \* the input of this run, constant
  active,     \* operations whose active flag is set
  pending,    \* predecessor_count
  succs,      \* adjacency.successors
  fixups,     \* the gates fixups were injected for, in insertion order
  ready,      \* FifoReadyQueue
  stalled,    \* stalled_gates: a queue of [gate, since]
  events,     \* event_queue, in the order it will be popped
  now,        \* current_cycle
  pc,
  occupancy,  \* MagicStateBuffer
  consumed,   \* magic_states_consumed
  total,      \* total_ops
  completed,  \* completed_ops
  finished,   \* the operations a GateCompleted event was processed for
  enqueued,   \* trace: number of BufferEnqueue events
  served      \* trace: the gates of the GateServed events, in order

dagVars == <<active, pending, succs, fixups>>
bufferVars == <<occupancy, consumed, enqueued, served>>
countVars == <<total, completed, finished>>
vars == <<input, dagVars, ready, stalled, events, now, pc, bufferVars, countVars>>

-----------------------------------------------------------------------------
(* Operations. *)

FixupKey(i) == NumOps + i
Known == 1 .. NumOps + Len(fixups)      \* the keys in use
HookedOps == {k \in Ops : input.hook[k] # NoHook}
KindOf(k) == IF k \in Ops THEN input.kind[k] ELSE "fixup"
NeedsMagicState(k) == KindOf(k) \in {"tgate", "rotation"}

(* A fixup acts on the qubits of the gate it repairs. *)
QubitsOf(k) == IF k \in Ops THEN k ELSE fixups[k - NumOps]

BaseCost(k) ==
  CASE KindOf(k) = "fixup"       -> FixupCost
    [] KindOf(k) = "measurement" -> MeasurementCycles
    [] OTHER                     -> 1

TotalGateCost(k) == BaseCost(k) + input.route[QubitsOf(k)]

PredsOf(k) == IF k \in Ops THEN input.preds[k] ELSE <<>>

(* completed_set is filled only when the circuit has hooks. *)
CompletedSet == IF HookIds = {} THEN {} ELSE finished

-----------------------------------------------------------------------------
(* Events.  The queue pops the lowest cycle first and, within a cycle, in  *)
(* insertion order.                                                        *)

FactoryEvent ==
  [at : Nat, type : {"produced", "failed"}, id : FactoryIds, outcome : {0}]
GateEvent == [at : Nat, type : {"gate"}, id : Known, outcome : {0}]
HookEvent == [at : Nat, type : {"hook"}, id : HookedOps, outcome : Outcomes]
Event == FactoryEvent \cup GateEvent \cup HookEvent

(* Fault: the attempt's duration is taken for its completion cycle. *)
FactoryOutcomeFromZero(f, draw, at) ==
  [at |-> draw.delay, type |-> draw.type, id |-> f, outcome |-> 0]

FactoryOutcome(f, draw, at) ==
  [at |-> at + draw.delay, type |-> draw.type, id |-> f, outcome |-> 0]
GateCompletion(k) ==
  [at |-> now + TotalGateCost(k), type |-> "gate", id |-> k, outcome |-> 0]

Scheduled(q, e) ==
  InsertAt(q, Cardinality({i \in DOMAIN q : q[i].at <= e.at}) + 1, e)

(* The next event of this cycle, when there is one, is of type t. *)
Due(t) ==
  /\ pc = "events"
  /\ events # <<>>
  /\ Head(events).at = now
  /\ Head(events).type = t

-----------------------------------------------------------------------------
(* Engine::new.  The factories' first outcomes are scheduled in order of   *)
(* factory id; the ready set is in arena order.                            *)

Draws == input.draws

EarlierEvent(a, b) == a.at < b.at \/ (a.at = b.at /\ a.id < b.id)

Init ==
  /\ input \in Inputs
  /\ active = input.active
  /\ pending = [k \in Key |-> PredecessorCount(PredsOf(k))]
  /\ succs = [k \in Key |-> IF k \in Ops THEN input.succs[k] ELSE <<>>]
  /\ fixups = <<>>
  /\ ready \in {f : f \in InOrder(InitialReadySet(pending, active))}
  /\ stalled = <<>>
  /\ \E draw \in [FactoryIds -> Draws] :
       events \in {q \in [1 .. NumFactories ->
                            {FactoryOutcome(f, draw[f], 0) : f \in FactoryIds}] :
                     \A i \in 1 .. NumFactories - 1 : EarlierEvent(q[i], q[i + 1])}
  /\ now = 0
  /\ pc = "loop"
  /\ occupancy = IF Preload < Capacity THEN Preload ELSE Capacity
  /\ consumed = 0
  /\ total = Cardinality(active)
  /\ completed = 0
  /\ finished = {}
  /\ enqueued = 0
  /\ served = <<>>

-----------------------------------------------------------------------------
(* Engine::run: the loop test, the max_cycles test, and entering step. *)

MaxCycles == input.limit
IsComplete == completed >= total
LimitPassed == MaxCycles # NoLimit /\ Head(events).at > MaxCycles    \* fault
LimitReached == MaxCycles # NoLimit /\ Head(events).at >= MaxCycles

Finish ==
  /\ pc = "loop"
  /\ IsComplete
  /\ pc' = "finished"
  /\ UNCHANGED <<input, dagVars, ready, stalled, events, now, bufferVars, countVars>>

Truncate ==
  /\ pc = "loop"
  /\ ~IsComplete
  /\ events # <<>>
  /\ LimitReached
  /\ pc' = "truncated"
  /\ UNCHANGED <<input, dagVars, ready, stalled, events, now, bufferVars, countVars>>

BeginStep ==
  /\ pc = "loop"
  /\ ~IsComplete
  /\ events # <<>>
  /\ ~LimitReached
  /\ now' = Head(events).at
  /\ pc' = "events"
  /\ UNCHANGED <<input, dagVars, ready, stalled, events, bufferVars, countVars>>

-----------------------------------------------------------------------------
(* Phase 1: process_event. *)

(* start_factory: the next attempt of factory f begins in this cycle. *)
StartFactory(f) ==
  \E draw \in Draws :
    events' = Scheduled(Tail(events), FactoryOutcome(f, draw, now))

(* Fault: no capacity check. *)
FactoryProducedUnbounded ==
  /\ Due("produced")
  /\ occupancy' = occupancy + 1
  /\ enqueued' = enqueued + 1
  /\ StartFactory(Head(events).id)
  /\ UNCHANGED <<input, dagVars, ready, stalled, now, pc, consumed, served, countVars>>

(* Fault: a wasted state is recorded as enqueued. *)
FactoryProducedMisrecorded ==
  /\ Due("produced")
  /\ occupancy' = IF occupancy < Capacity THEN occupancy + 1 ELSE occupancy
  /\ enqueued' = enqueued + 1
  /\ StartFactory(Head(events).id)
  /\ UNCHANGED <<input, dagVars, ready, stalled, now, pc, consumed, served, countVars>>

(* Fault: a factory whose state found no room is not restarted. *)
FactoryProducedIdles ==
  /\ Due("produced")
  /\ IF occupancy < Capacity
       THEN /\ occupancy' = occupancy + 1
            /\ enqueued' = enqueued + 1
            /\ StartFactory(Head(events).id)
       ELSE UNCHANGED <<occupancy, enqueued>> /\ events' = Tail(events)
  /\ UNCHANGED <<input, dagVars, ready, stalled, now, pc, consumed, served, countVars>>

FactoryProduced ==
  /\ Due("produced")
  /\ IF occupancy < Capacity
       THEN /\ occupancy' = occupancy + 1
            /\ enqueued' = enqueued + 1
       ELSE UNCHANGED <<occupancy, enqueued>>
  /\ StartFactory(Head(events).id)
  /\ UNCHANGED <<input, dagVars, ready, stalled, now, pc, consumed, served, countVars>>

(* Fault: a failed factory is not restarted. *)
FactoryFailedIdles ==
  /\ Due("failed")
  /\ events' = Tail(events)
  /\ UNCHANGED <<input, dagVars, ready, stalled, now, pc, bufferVars, countVars>>

FactoryFailed ==
  /\ Due("failed")
  /\ StartFactory(Head(events).id)
  /\ UNCHANGED <<input, dagVars, ready, stalled, now, pc, bufferVars, countVars>>

(* The part of GateCompleted every gate goes through. *)
CountCompletion(gate) ==
  /\ completed' = completed + 1
  /\ finished' = finished \cup {gate}

(* complete_gate, when the injection of a magic state went wrong. *)
InjectionError ==
  LET gate == Head(events).id
      fixup == FixupKey(Len(fixups) + 1)
  IN
  /\ Due("gate")
  /\ NeedsMagicState(gate)
  /\ TRUE \in Injects
  /\ Len(fixups) < MaxFixups
  /\ CountCompletion(gate)
  /\ fixups' = Append(fixups, gate)
  /\ succs' = WithFixup(succs, gate, fixup)
  /\ pending' = [pending EXCEPT ![fixup] = 0]
  /\ active' = active \cup {fixup}
  /\ ready' = Append(ready, fixup)
  /\ total' = total + 1
  /\ events' = Tail(events)
  /\ UNCHANGED <<input, stalled, now, pc, bufferVars>>

(* complete_gate, when no measurement hook is involved. *)
GateCompleted ==
  LET gate == Head(events).id
      list == succs[gate]
  IN
  /\ Due("gate")
  /\ NeedsMagicState(gate) => FALSE \in Injects
  /\ gate \in Ops => input.hook[gate] = NoHook
  /\ CountCompletion(gate)
  /\ pending' = ReleasedCounts(pending, list)
  /\ ready' \in Pushed(ready, list, ReleasedAt(pending, active, list))
  /\ events' = Tail(events)
  /\ UNCHANGED <<input, active, succs, fixups, stalled, now, pc, bufferVars, total>>

(* Fault: the hook's operations are not counted until they are activated. *)
MeasuredUncounted ==
  LET gate == Head(events).id
      list == succs[gate]
  IN
  /\ Due("gate")
  /\ gate \in Ops
  /\ input.hook[gate] # NoHook
  /\ input.feedback > 0
  /\ CountCompletion(gate)
  /\ \E o \in Outcomes :
       events' = Scheduled(Tail(events), [at |-> now + input.feedback,
                              type |-> "hook", id |-> gate, outcome |-> o])
  /\ pending' = ReleasedCounts(pending, list)
  /\ ready' \in Pushed(ready, list, ReleasedAt(pending, active, list))
  /\ UNCHANGED <<input, active, succs, fixups, stalled, now, pc, bufferVars, total>>

(* complete_gate for a hooked measurement whose feedback takes time: the   *)
(* activation is scheduled, its operations are counted at once.            *)
MeasuredDeferred ==
  LET gate == Head(events).id
      list == succs[gate]
  IN
  /\ Due("gate")
  /\ gate \in Ops
  /\ input.hook[gate] # NoHook
  /\ input.feedback > 0
  /\ CountCompletion(gate)
  /\ \E o \in Outcomes :
       /\ total' = total + Len(input.targets[input.hook[gate]][o])
       /\ events' = Scheduled(Tail(events), [at |-> now + input.feedback,
                                type |-> "hook", id |-> gate, outcome |-> o])
  /\ pending' = ReleasedCounts(pending, list)
  /\ ready' \in Pushed(ready, list, ReleasedAt(pending, active, list))
  /\ UNCHANGED <<input, active, succs, fixups, stalled, now, pc, bufferVars>>

(* The same with no feedback delay: the hook's operations are activated    *)
(* first, the measurement's successors are released after.                 *)
MeasuredInstant ==
  LET gate == Head(events).id
      list == succs[gate]
  IN
  /\ Due("gate")
  /\ gate \in Ops
  /\ input.hook[gate] # NoHook
  /\ input.feedback = 0
  /\ CountCompletion(gate)
  /\ \E o \in Outcomes :
       LET keys == input.targets[input.hook[gate]][o]
           counts == ActivatedCounts(pending, keys, input.preds, CompletedSet')
       IN  /\ total' = total + Len(keys)
           /\ active' = active \cup ToSet(keys)
           /\ pending' = ReleasedCounts(counts, list)
           /\ \E q \in Pushed(ready, keys,
                              ActivatedAt(keys, input.preds, CompletedSet')) :
                ready' \in Pushed(q, list, ReleasedAt(counts, active', list))
  /\ events' = Tail(events)
  /\ UNCHANGED <<input, succs, fixups, stalled, now, pc, bufferVars>>

(* Fault: the active flag is not set. *)
HookActivationUnflagged ==
  LET gate == Head(events).id
      keys == input.targets[input.hook[gate]][Head(events).outcome]
  IN
  /\ Due("hook")
  /\ pending' = ActivatedCounts(pending, keys, input.preds, CompletedSet)
  /\ ready' \in Pushed(ready, keys, ActivatedAt(keys, input.preds, CompletedSet))
  /\ events' = Tail(events)
  /\ UNCHANGED <<input, active, succs, fixups, stalled, now, pc, bufferVars, countVars>>

(* HookActivation: activate_hook after the feedback delay. *)
HookActivation ==
  LET gate == Head(events).id
      keys == input.targets[input.hook[gate]][Head(events).outcome]
  IN
  /\ Due("hook")
  /\ active' = active \cup ToSet(keys)
  /\ pending' = ActivatedCounts(pending, keys, input.preds, CompletedSet)
  /\ ready' \in Pushed(ready, keys, ActivatedAt(keys, input.preds, CompletedSet))
  /\ events' = Tail(events)
  /\ UNCHANGED <<input, succs, fixups, stalled, now, pc, bufferVars, countVars>>

EndEvents ==
  /\ pc = "events"
  /\ events # <<>> => Head(events).at # now
  /\ pc' = "serve"
  /\ UNCHANGED <<input, dagVars, ready, stalled, events, now, bufferVars, countVars>>

-----------------------------------------------------------------------------
(* Phases 2 and 3.  Serving a gate takes a state from the buffer and       *)
(* schedules the gate's completion.                                        *)

Serve(gate) ==
  /\ occupancy > 0
  /\ occupancy' = occupancy - 1
  /\ consumed' = consumed + 1
  /\ served' = Append(served, gate)
  /\ events' = Scheduled(events, GateCompletion(gate))
  /\ UNCHANGED enqueued

(* Fault: the gate that stalled last is served first. *)
ServeLastStalled ==
  /\ pc = "serve"
  /\ stalled # <<>>
  /\ Serve(Last(stalled).gate)
  /\ stalled' = Front(stalled)
  /\ UNCHANGED <<input, dagVars, ready, now, pc, countVars>>

ServeStalled ==
  /\ pc = "serve"
  /\ stalled # <<>>
  /\ Serve(Head(stalled).gate)
  /\ stalled' = Tail(stalled)
  /\ UNCHANGED <<input, dagVars, ready, now, pc, countVars>>

(* Fault: phase 2 may leave stalled gates behind although there is a state. *)
EndServeEarly ==
  /\ pc = "serve"
  /\ pc' = "ready"
  /\ UNCHANGED <<input, dagVars, ready, stalled, events, now, bufferVars, countVars>>

EndServe ==
  /\ pc = "serve"
  /\ stalled = <<>> \/ occupancy = 0
  /\ pc' = "ready"
  /\ UNCHANGED <<input, dagVars, ready, stalled, events, now, bufferVars, countVars>>

ServeReady ==
  /\ pc = "ready"
  /\ ready # <<>>
  /\ NeedsMagicState(Head(ready))
  /\ Serve(Head(ready))
  /\ ready' = Tail(ready)
  /\ UNCHANGED <<input, dagVars, stalled, now, pc, countVars>>

(* Fault: a gate is stalled without asking the buffer. *)
StallUnasked ==
  /\ pc = "ready"
  /\ ready # <<>>
  /\ NeedsMagicState(Head(ready))
  /\ stalled' = Append(stalled, [gate |-> Head(ready), since |-> now])
  /\ ready' = Tail(ready)
  /\ UNCHANGED <<input, dagVars, events, now, pc, bufferVars, countVars>>

StallReady ==
  /\ pc = "ready"
  /\ ready # <<>>
  /\ NeedsMagicState(Head(ready))
  /\ occupancy = 0
  /\ stalled' = Append(stalled, [gate |-> Head(ready), since |-> now])
  /\ ready' = Tail(ready)
  /\ UNCHANGED <<input, dagVars, events, now, pc, bufferVars, countVars>>

ScheduleReady ==
  /\ pc = "ready"
  /\ ready # <<>>
  /\ ~NeedsMagicState(Head(ready))
  /\ events' = Scheduled(events, GateCompletion(Head(ready)))
  /\ ready' = Tail(ready)
  /\ UNCHANGED <<input, dagVars, stalled, now, pc, bufferVars, countVars>>

EndStep ==
  /\ pc = "ready"
  /\ ready = <<>>
  /\ pc' = "loop"
  /\ UNCHANGED <<input, dagVars, ready, stalled, events, now, bufferVars, countVars>>

(* run has returned. *)
Returned ==
  /\ pc \in {"finished", "truncated"}
  /\ UNCHANGED vars

-----------------------------------------------------------------------------
Next ==
  \/ Finish \/ Truncate \/ BeginStep
  \/ FactoryProduced \/ FactoryFailed
  \/ InjectionError \/ GateCompleted \/ MeasuredDeferred \/ MeasuredInstant
  \/ HookActivation \/ EndEvents
  \/ ServeStalled \/ EndServe
  \/ ServeReady \/ StallReady \/ ScheduleReady \/ EndStep
  \/ Returned

Spec == Init /\ [][Next]_vars

(* The engine is a sequential loop that nothing suspends. *)
FairSpec == Spec /\ WF_vars(Next)
=============================================================================
