# pirx in TLA+

pirx predicts how many QEC cycles a fault-tolerant quantum circuit takes and
where it waits. A discrete-event engine runs the circuit's dependency graph
against a bounded buffer of magic states that a bank of unreliable factories
fills; Monte Carlo replicas of the engine feed a profile, and sensitivity
analyses feed Monte Carlo. This directory models that program, checks it with
TLC on small instances and proves part of it with TLAPS.

Paths below are relative to the repository.

## 1. The system

| component | state it keeps | operations | what makes it correct |
|---|---|---|---|
| **simulation engine** `crates/pirx-core/src/engine/` | clock, event queue, ready queue, stalled gates, buffer, counters `total_ops`, `completed_ops`, `completed_set`, trace | `new`, `run`, `step`: `process_event`, `try_serve_stalled_gates`, `schedule_ready_gates`; `complete_gate`, `dispatch_hook`, `activate_hook`, `start_factory` | dependencies are respected, every operation runs once, `run` returns exactly when all work is done, magic states are neither lost nor handed out twice and go to gates in the order of asking |
| **dependency graph** `crates/pirx-core/src/dag/` | operation arena, successor and predecessor lists, predecessor counts, active flags | `from_circuit`, `initial_ready_set`, `release_successors`, `activate_ops`, `inject_fixup` | a count is the number of outstanding predecessor entries; an operation becomes ready once, when it drops to zero |
| **event queue** `crates/pirx-core/src/events.rs` | binary heap, sequence counter | `schedule`, `pop`, `peek_cycle` | lowest cycle first, insertion order within a cycle |
| **magic state buffer** `crates/pirx-core/src/buffer.rs` | occupancy | `try_enqueue`, `try_dequeue` | never above its capacity, a state that finds no room is not counted |
| **factories** `crates/pirx-core/src/factory/` | one random stream each | `start`: distillation (abort per round, ends early), cultivation (sampled duration), Rz synthesis | one outcome per attempt, in the attempt's own duration |
| **routing** `crates/pirx-core/src/routing.rs` | none | scalar and Manhattan latency | the cost of a gate is a function of its qubits |
| **trace** `crates/pirx-core/src/trace.rs` | list of events | recording | what the reductions below need is recorded exactly once |
| **profile analyzer** `crates/pirx-core/src/analysis/` | buckets, difference array, per-factory intervals | one pass over a trace | every busy cycle is in exactly one bucket, bottleneck flags follow |
| **Monte Carlo** `crates/pirx-core/src/monte_carlo.rs` | replica results | parallel replicas, summaries, percentiles | the result depends on the seed, not on the thread pool; one failure fails the run |
| **sensitivity analysis** `crates/pirx-sensitivity/src/` | sample designs | Morris trajectories, Sobol matrices, flat evaluation, indices | each effect is attributed to the parameter that was moved |
| **circuit IR** `crates/pirx-ir/src/` | operations, qubits, dependencies, hooks | `validate` | accepts exactly the acyclic circuits with resolvable references |
| **hardware model** `crates/pirx-hw/src/` | configuration | `validate` | accepts only models the engine can run |
| **circuit adapters** `crates/pirx-adapters/src/`, `python/pirx/adapters/` | last operation per qubit | OpenQASM, TKET, Qiskit, Qualtran | every dependency of the source program becomes an edge |
| **test kit** `crates/pirx-testkit/src/` | none | circuits and hardware models for the tests | every circuit with a gate and every model is valid |
| **command line, Python bindings** | none | wrappers | see section 7 |

How they interact. An adapter builds a circuit, `validate` admits it,
`Engine::new` turns it and the hardware model into graph, buffer and factories,
and `run` loops over `step`. A step takes the next event's cycle as the current
one, processes all events of that cycle (phase 1: a factory produces and is
restarted, a gate completes and releases successors, an injection error puts a
fixup between a gate and its successors, a hook activates operations), serves
stalled gates from the buffer (phase 2), then schedules or stalls the gates
that became ready (phase 3). Everything inside an engine is sequential; the
concurrency is between replicas. The nondeterminism of an engine is its random
streams: when factories finish, whether an injection fails, what is measured.

What is hard. The order in which same-cycle events meet: a state produced
before or after a gate asks, a fixup inserted while the gate's successors are
about to be activated by a hook, work of zero cost that is scheduled into the
cycle being processed, feedback that comes back at once or cycles later.
Termination, since the factories always produce one more event and the loop
ends only when two counters meet. Outside the engine: results that come back
from a thread pool and are cut into pieces by offset, seeds cut from one range,
settings overridden one by one and judged together, and repeated edges in
Kahn's algorithm. `PROJECT.json` lists these hazards with
their lines.

## 2. The modules

**`Dag`** has the graph as operators on values: `Successors`, `Predecessors`,
`PredecessorCount` (`dag/build.rs`), `ReleasedCounts` and `ReleasedAt`
(`release_successors`), `ActivatedCounts` and `ActivatedAt` (`activate_ops`),
`WithFixup` (`inject_fixup`), all from `dag/mutate.rs`. Lists are sequences
because repeats count: two CNOTs on the same two qubits give one dependency
twice, two entries in the successor list and a count of two. A loop that
decrements and pushes is the set of list positions at which it pushes; `Pushed`
lays them out in list order.

**`Engine`** is the state machine. `pc` names the place in `run`/`step`; each
action is one call of `process_event`, one iteration of the loop of phase 2 or
3, or the test that leaves a loop.

| action | code |
|---|---|
| `Init` | `Engine::new`: graph, ready set, full factories, preloaded buffer |
| `Finish`, `Truncate`, `BeginStep` | the loop of `run` and the entry of `step` |
| `FactoryProduced`, `FactoryFailed` | `process_event` with `start_factory` |
| `GateCompleted` | `complete_gate` without hook |
| `InjectionError` | `complete_gate` with `inject_fixup` |
| `MeasuredDeferred`, `MeasuredInstant` | `complete_gate` with `dispatch_hook`, feedback delay positive or zero |
| `HookActivation` | `activate_hook` after the delay |
| `ServeStalled`, `EndServe` | `try_serve_stalled_gates` |
| `ServeReady`, `StallReady`, `ScheduleReady`, `EndStep` | `schedule_ready_gates` |

`events` is the event queue in the order in which it will be popped, which
`(cycle, seq)` makes a total order: `Scheduled` inserts behind everything that
is not later. `finished` is the set of operations a `GateCompleted` event was
processed for; the code keeps it only for circuits with hooks
(`CompletedSet`). `active`, `pending` and `succs` are the graph; arena keys are
`1 .. NumOps` for the circuit and `NumOps + i` for the i-th fixup, in insertion
order like the slot map's. `enqueued` and `served` are what the trace records of
the buffer. Definitions marked `Fault` are one-line deviations used to
show that the properties can tell the difference; no specification uses them.

**`MagicSupply`** is the abstract specification of the supply of magic states:
a bounded stock and gates that are granted one state each strictly in the order
of asking. It knows nothing of factories, events, cycles or circuits.

**`EngineProperties`** states the properties over the engine's state and the
preconditions some of them have, **`MCEngine`** the sets of circuits the
runs start from (`AdaptiveAssumption` says which preconditions they meet, as
`ProfiledAssumption` does in `MCProfile`),
**`EngineProofs`** and **`ExecutionProofs`** the theorems.

**`TracedEngine`** adds the trace: every action of `Engine` together with the
records its code makes, in their order. Records nobody reads are left out.

**`Profile`** has the two reductions of a trace as folds: `Analyze` is
`ProfileAnalyzer::analyze` with its difference array, flags and open intervals
(`Observe` is one turn of its loop), `Summary` is `extract_summary` of
`monte_carlo.rs`. **`ProfileProperties`** applies them to the traces of finished
and truncated runs, sealed with `total_cycles = current_cycle`, and compares
them with the engine's state and with definitions that see the whole trace at
once; **`MCProfile`** gives the instances, **`ProfileProofs`** the theorems.

**Circuits.** `Circuit` has the interchange format and `classify_rz_angle`;
`LastUse` the builder that the OpenQASM and TKET adapters share (dependencies go
to the last operation on each operand); `OpenQasm`, `Tket`, `Qiskit` and
`Qualtran` one action per statement, command, node or part walked; `Validate`
every check of `validate` in its order and Kahn's algorithm one node at a time;
`Adapters` composes them: a front end builds a circuit and `validate` answers.
`CircuitProperties`, `MCCircuits` and `CircuitProofs` go with them. The
objects the third-party parsers deliver are the input (`WellFormed` says that
they are lists of statements, commands or nodes, and `MCCircuits` that its
sources are so); Qiskit's `DAGCircuit` is modelled from its use, as external.
Its adapter remembers nodes by the `id()` of their objects and looks the edges'
nodes up the same way. Whether both calls hand out the same objects depends on
the version of Qiskit, so a source says it (`stable`): before 1.3 they do, since
then, and in the locked 2.4.1, they do not, and `MistakenDeps` has what
the adapter can find under identities that have been used again.
`Testkit` has the fixtures of the tests, circuits and hardware models, and
`MCCircuits` and `MCSupply` judge all of them. `OpenQasm` keeps one history
variable, `hardware`, the hardware qubits that the gates have named, and
`Qualtran` one, `missed`, the T gates that Qualtran counts in the leaves that were
walked, less those of them that became T gates: a Toffoli has four and becomes a
Clifford gate. That the
connections of a bloq have no cycle (`InRange`) is what Qualtran's composite
bloqs are: graphs that it sorts topologically when it walks them.

**Supply.** `Hardware` has the fields and checks of a model, `ParameterSpace`
the space of a sweep, its checks and the mapping of a coordinate, `Mutate` the
way from a file, a space and a point to the model of a sample, one override per
step. `Factories` and `Routing` compute attempts and latencies from the model,
`EventHeap` is the event queue with its sequence numbers, and `Supply` composes
all of these: the constructor starts the factories, every event popped restarts
its factory or completes its gate, and gates are scheduled at any time between
events. `EventOrder` is the abstract queue, the sequence that `Engine` uses.
`SupplyProperties`, `MCSupply` and `SupplyProofs` go with them.

| action of `Supply` | code |
|---|---|
| `Load`, `UseBase`, `RefuseSpace`, `MapPoint`, `ApplySingle`, `ConcludeMutation` | `load`, `ParameterSpace::new` and `validate`, `map_point`, `mutate_hw_multi` |
| `StartFirst` | `Engine::new`, the loop that starts the factories |
| `Step` | `EventQueue::pop` in `step` |
| `FactoryProduced`, `FactoryFailed`, `GateCompleted` | the arms of `process_event` |
| `ScheduleGate` | `schedule_gate_completion` |

**Many simulations.** `Sample` has the job and the evaluation of one task (a
replica, or a point of the hardware) with its seeds. `ParallelBatch` is rayon's
indexed map and collect as the program uses it, `Batch` what it promises.
`MonteCarlo`, `Morris` and `Saltelli` are the three jobs that submit batches and
cut their answers up; `Analyses` composes them. `SobolSequence` generates the
points with the direction numbers of the source, and `Sampling` puts everything
together. A simulation is a function of its hardware and its seed, so the value
of a task is named by its point and its seeds, and an estimator by the values it
combines. `Analyses` also states what the jobs must deliver; `MCSampling` and
`AnalysisProofs` go with them.

## 3. What the runs show

| run | instance | shows |
|---|---|---|
| `engine_adaptive` | every circuit of 4 operations with one hooked measurement (two target choices) or two in sequence, over every dependency relation that is closed under activation, short ones also with a repeated dependency; feedback delay 0, 1 or 2; injection errors, free fixups; one cultivation factory and no limit, for those with two measurements also one distillation factory and a limit of 6 cycles | `FeedbackOrder`, `ExecutedOnce`, `WorkRemains`, `NothingLeftBehind`, `TimeMonotone`, `StallTakesTime`, `Terminates` |
| `profile` | every circuit of 3 Clifford or T gates with every set of forward dependencies, the lists of two also with the first repeated, gate 2 costing one routing cycle; every circuit of 3 operations whose first is a measurement that may activate the last, with feedback delay 0 or 1; 2 distillation factories that succeed after two cycles or abort after one; buffer 1, preload 1; each injection may fail, fixups of one cycle; limit 5; resolutions 0 (clamped to 1) and 2 | of the engine `TypeOK`, `StatesConserved`, `NoIdleStock`, `DependencyOrder`, `FactoriesBusy`, `WithinLimit`, and that it implements `MagicSupply` (`ServesInOrder`); of its reductions `StallsReported`, `ActivityCounted`, `NeverIdle`, `MagicAccounted`, `FixupTimeIsCost`, `ReductionsAgree` |
| `circuits` | OpenQASM programs of up to 3 statements of 13 kinds, TKET circuits of up to 3 commands of 6 kinds, Qiskit graphs of up to 4 nodes, Qualtran bloqs of 3 parts nested twice with every depth limit, and 3-operation files with every list of up to 3 dependencies and each defect `validate` looks for; the circuits of the test kit with 0 to 3 gates | `KahnCorrect`, `ProgramOrder`, `DepthIsLongestChain`, `AdaptersAccepted`, `TCountKept` |
| `supply` | three base models, each with every field at and beyond its limits; the models of the test kit; sweeps of one and two parameters of every kind over a grid of 5 points, bad spaces, points outside the cube; simulations with up to 3 factories and 2 gates on 3 qubits | `SweptAsAWhole`, `MappedWithinBounds`, `FitsEngine`, `FactoriesProduce`, `GatesComplete`, and that the heap implements `EventOrder` (`QueueInOrder`) |
| `sampling` | Monte Carlo of up to 5 replicas with every order of 3 metrics; Morris with 1 or 2 parameters, 4 or 6 levels; Sobol with up to 3 parameters (A/B from the sequence and from Latin hypercubes) and 4 rows; 1 or 2 workers; tasks that fail; seeds modulo 16, starting near the end; the sequence with 256 points in all 30 dimensions | `SeedsApart`, `PercentilesOrdered`, `EffectsIsolated`, `SaltelliPartition`, `Stratified`, and that the batch implements `Batch` (`BatchAnswered`) |
| `find_*` | see section 5 | a statement of the repository's own documentation fails |

The bounds. Three operations are enough for a chain, a fork, a join and a
repeated edge; a buffer of one with two factories gives full, empty, wasted and
contended; a preload of one makes a first gate served and a second one stall. In
`engine_adaptive` fixups are free, so that a T gate of cost one whose injection
fails returns to the cycle being processed; that free work keeps the order of
dependencies and the supply too is proved for all costs (section 4). Four
operations with hooks give a measurement, a target, a target's second predecessor
and a successor of the target. `MaxFixups` is `NumOps`, which no run exceeds: a
fixup is a Clifford and needs no repair, so an operation that runs once has at
most one. A limit of 5 truncates some behaviours of `profile` and lets others
finish; it leaves gates waiting and attempts running at the end of the trace.
Resolution 2 puts an attempt's start and end into one bucket or two, with a last
bucket that is only partly filled.

In `circuits` three statements are a use, a use and a join, or a declaration
between two uses; two gates on one pair of qubits give a repeated dependency;
three operations with three dependencies give every cycle, self-loops and
repeated edges that hide or mimic one. A Qiskit circuit needs four nodes to have
a skipped one between two on one qubit and not on another, and with three a
mistaken edge can join two of them. The leaves of a bloq include a Toffoli,
which Qualtran gives four T gates and the adapter none, and a rotation by π/4, which
the adapter makes a T gate. In `supply`
preload and capacity can only be wrong together when two parameters are swept,
and the order of the two overrides then passes through invalid models; a float
counts quarters, so that limits are met exactly and missed by one step; up to
three factories with two-round attempts give ties in the heap. The engine's
distribution of delays is the set `MCRawTimes`, with 0, 1 and more than one
cycle. In `sampling` two workers show every reordering of completions, a failing
task every point at which others are dropped; 256 points are needed to tell
dimensions 1 and 20 of the sequence apart; eight of its 32 bits are enough
for 256 points, because the bits below never reach the ones above. `MinSamples`
and `MinResamples` are 2 instead of 64 and 100, `MaxDim` 4 instead of 30 and
`MaxCount` 3 instead of 65535.

The factory outcomes in `Draws` are what the models in `factory/` can return:
distillation aborts after any of its rounds or succeeds after all of them;
cultivation only ever succeeds, after a sampled number of cycles.

Preconditions. `ActivationClosed`: an operation that is or becomes active never
depends on one that may stay inactive. `validate` does not ask for it, and
without it `run` need not return (`find_open_circuit`). With feedback delay 0
no hook target may depend directly on its own measurement
(`TargetsIndependent`, otherwise `find_instant_feedback`). Two measurements do
not share a hook (section 5). `FeedbackOrder` speaks of runs before the first
fixup (otherwise `find_fixup_hook`); `DependencyOrder` speaks of all, and the
circuits of `profile` with a measurement have no target that depends on a T gate,
for the same reason (`TargetDependsOnTGate`). `ExecutedOnce`,
`WorkRemains`, `NothingLeftBehind` and `Terminates` hold with fixups too.

Fairness. `FairSpec` is weak fairness of `Next`: the engine is a sequential
loop that nothing suspends. No outcome is assumed to be fair: in
`engine_adaptive` every attempt of a cultivation factory succeeds because it
cannot fail, and the runs on distillation end by their limit. With distillation
and an adversarial sequence of aborts no state would ever be produced, so
termination without a limit is there only almost sure and is not claimed.
`supply` is about the factories themselves and goes further: its engine loop is
weakly fair, a gate that can again and again be scheduled is (`SF` of
`ScheduleGate`, since phase 3 empties the ready queue in every step), and an
attempt that can succeed, repeated for ever, does so (`SF` of `Succeeds`: the
draws are independent). With `abort_probability = 1` no attempt can, and
nothing is claimed. `sampling` has weak fairness of the job: the caller waits,
and rayon's workers do not sleep while tasks are left.

## 4. What is proved

**The engine.** `EngineProofs` and `ExecutionProofs` prove, for every
value of the constants that satisfies `SizesAssumption`,
`InputsAssumption` and `TimingAssumption` (positive number of operations and
factories, positive capacity, any finite or infinite set of well-typed inputs,
each with its factory outcomes and its limit, any delays):

* `TypeCorrect`: `Spec => []TypeOK`. The invariant is inductive as it stands
  because it says of every queue and successor list that its members are keys
  in use (`Known`, which grows with each fixup), and of every pending
  activation that it belongs to a measurement with a hook (`HookedOps`): those two facts
  are what makes the look-ups in `complete_gate` and `activate_hook` total.
* `Conservation`: `Spec => []StatesConserved`, from the type invariant.
* `NoGateWaitsBesideAState`: `Spec => []NoIdleStock`. Phase 2 leaves with an
  empty queue or an empty buffer, and phase 3 can only take from the buffer or
  add to the queue when the buffer is empty.
* `ImplementsSupply`: `Spec => ServesInOrder`, i.e. the engine refines
  `MagicSupply`. A stalled gate maps to a waiting one, `served` to the grants.
  Every step maps to a step or a stutter; a gate served in phase 3 overtakes
  nobody, which is where `NoIdleStock` is needed: there is a state, so nobody
  is stalled. `GatesOf` and its lemmas relate the projected queue's head, tail
  and append to those of the stalled queue.

* `ClockMovesForward`: `Spec => TimeMonotone`. The invariant behind it is
  `InTime`: the event queue is ordered by cycle and holds nothing before `now`.
  `ScheduledKeeps` shows that `Scheduled` inserts at the right place: in an
  ordered queue the events that are not later are the first ones (`FirstOnes`).
  Induction over positions is done with the least counterexample (`LeastNumber`).
* `LimitIsKept`: `Spec => []WithinLimit`, with `StepWithinLimit`: a step that
  has been entered is below the limit.
* `StallsTakeTime`: `Spec => StallTakesTime`, without hypotheses. `StallInv` says
  that in phases 2 and 3 no factory outcome is due in this cycle any more, and that
  as long as a gate that stalled in this cycle waits, the buffer is empty and
  no outcome is due: not even the second pass through a cycle, which free work
  causes, can serve it.
* `FactoriesStayBusy`: `Spec => []FactoriesBusy`. Popping takes an outcome from
  the factory it belongs to only, scheduling adds one to that factory; at the
  start there are as many places as factories and no factory takes two.

The lemmas on the way say of each helper what type it keeps: `PushedType`,
`ScheduledType`, `ReleasedCountsType`, `ActivatedCountsType`, and so on.

What the dependency graph is for, `ExecutionProofs` proves under hypotheses on
the circuits (`EngineProperties`). `SameEdges`, that both adjacency lists come
from one dependency list, is what `from_circuit` builds; `Acyclic` is what
`validate` ensures; the others nobody checks. `find_open_circuit` shows that
`ActivationClosed` is needed, `find_instant_feedback` that `TargetsIndependent`
is, and section 5 what happens without `ActivatedOnce`.

| theorem | hypothesis | argument |
|---|---|---|
| `NoOperationTwice`: `[]ExecutedOnce` | `ActivatedOnce` | `Placed`: an operation is in at most one of the ready queue, the stalled queue, the pending completions and the finished set, and has no outstanding count there. It is pushed only when its count drops to zero, which a second drop cannot do, and `Activations` ties what is activated to one measurement that has finished |
| `RunEndsDone`: `[]NothingLeftBehind` | `ActivatedOnce` | `Totals`: `total_ops` counts the operations active or about to be (`Expected`), `completed_ops` the finished ones, and the second are among the first; equal cardinalities make the sets equal |
| `DependenciesKept`: `[]DependencyOrder` | `SameEdges`, no hooks | `CountsHigh`: the count of an operation is no less than the number of entries of its predecessor list that are outstanding, entries and not predecessors, so that repeats count. An entry stands until its operation has finished and the fixup that took over its list has too (`Resolved`, `Repairs`) |
| `FeedbackKeepsOrder`: `[]FeedbackOrder` | `SameEdges`, `ActivatedOnce`, and `TargetsIndependent` where feedback is instant | the same up to the first fixup: `activate_ops` recomputes the count from the list, and no entry it leaves out is counted down again later |
| `NeverStuck`: `[]WorkRemains` | `SameEdges`, `Acyclic`, `ActivatedOnce`, `ActivationClosed` | `CountsLow` and `HeldBack`: the counts are never more than what is outstanding either, and an active operation in no queue has a positive one, so that the first of these in the order of `Acyclic` waits for an operation that is in a queue; `Branches` says that what is active is what some outcome of the measurements made so far activates, which is where `ActivationClosed` applies |

**The profile.** `ProfileProofs` proves

* `StallsListed`: `TracedSpec => []StallsReported` when an operation is activated
  by one measurement (`ActivatedOnce`). Two halves
  meet. `PassExists` shows that the fold over the trace is one pass over its
  records, an array `a` with `a[i]` the analyzer's state after `i` of them
  (`Pass`), so that the least record after which something is wrong leads to a
  contradiction; hence the list has one entry for every service with a positive
  wait (`ListedOnce`). `Stories` ties the trace to the engine: stall and
  service records are of gates that stalled or were served, no gate stalls
  twice (`Accounted`), a service with a wait has its stall that many cycles
  earlier and one without has none (`Matched`), and the stalls that have no
  service yet are as many as the stalled queue holds (`Counted`). It needs that
  no gate is served twice (`Placed`) and that no gate is served in the cycle in
  which it stalled (`StallInv`): the analyzer takes a wait of zero for no stall.
* `StatesAccounted`: `TracedSpec => []MagicAccounted`, without hypotheses. `Stocked`
  ties the trace to the buffer: its services are as many as the states
  `consumed`, and the last level it records is the `occupancy`. The pass keeps
  the sum of the buckets equal to the services so far and the last level in its
  bucket (`BufferUpto`). A sum is a fold that picks one element after the other
  (`SumOf`); what holds of the empty set and is kept by adding the element that
  is picked holds of every finite set (`PickInduction`, from the least number of
  elements for which it fails), and so a number that grows by `d` makes the sum
  grow by `d` (`SumChange`).
* `AttemptsCounted`: `TracedSpec => []ActivityCounted`, without hypotheses.
  In a trace starts and outcomes of a factory alternate (`Alternating`) and
  cycles ascend (`Ascending`). Every outcome has the start since the one before
  (`Closes`), the pass remembers the cycle of exactly the start that is open
  (`StartsUpto`, `OpenOnce`), and the prefix sums of the difference array count
  the attempts that have ended and span the bucket (`DeltasUpto`, `ActiveSum`:
  one entry up and one down make every prefix between them greater by one). What
  still runs is added by a fold over the factories (`FilledSums`). At the end both
  parts match the attempts one to one (`AttemptsSplit`), so the sum is not
  negative and cutting it off at zero changes nothing.
* `NoFactoryIdle`: `TracedSpec => []NeverIdle`, without hypotheses. `Restarted`:
  every factory starts in the first cycle and again in the cycle of each outcome.
  Hence a factory's last start by bucket `b` is still running in `b`, for an
  outcome before `b` would have been followed by a start by `b` (`BusyIn`), and
  the factories map into the attempts counted in `b`.
* `SummaryAgrees`: `TracedSpec => []ReductionsAgree`, without hypotheses. The
  summary's fold is a second pass (`TallyPass`), taken side by side with the
  profile's: after every record the two agree on errors, fixups and starts
  (`Agree`), and the summary's waits are the sum over the profile's list
  (`WaitsTold`, `WaitsFollowed`). The cycles it counts as active are the sum
  over the attempts that have ended so far (`ActiveAdded`), and attempts of one factory
  follow each other, so that a factory's share never exceeds the time
  of its last outcome (`Limits`). `Repaired` ties the trace to the engine:
  there is one error record per injected fixup.
* `FixupsCost`: `TracedSpec => []FixupTimeIsCost`, without hypotheses. `Scheduling`
  says of the engine that a fixup in the ready queue was inserted in this cycle
  and never stalls, since phase 3 empties that queue in the step that
  injects it, and that its completion is due its cost after its insertion.
  `Mending` says the same of the trace: an insertion for every fixup, and for
  every finished one a completion its cost later. The pass keeps the
  insertions that have no completion yet (`Unpaid`) and the sum of the costs of
  those that have (`FixupsUpto`).

The only assumption on the constants besides those of the engine is
`NoStartAssumption`: `None` in `factory_starts` is no cycle.

**Circuits.** `CircuitProofs` proves

* `KahnDecides`: `ValidateSpec => []KahnCorrect`, for any circuit and any order
  in which the queue is emptied. The invariant `KahnInv` says that the in-degree
  of a node is the number of incoming list entries (`Pending`, entries and not
  predecessors, so repeats count) whose source was not popped, that the queue
  holds the unpopped nodes that wait for none, and that no node of a set in
  which everyone waits for another member is ever popped. When the queue is
  empty the unpopped nodes are such a set if there are any, so the pass rejects
  exactly the circuits that have one.
* `OrderKept`: `Spec => []ProgramOrder` for all programs that are `WellFormed`.
  The adapters keep only the last operation of each qubit. The invariant
  (`Builds`) says that this is an emitted operation, and that every earlier
  operation on a tracked qubit is the last one or leads to it. `Leads` asks
  for membership in every closed set, so that extending a chain by an edge needs
  no induction over its length; blocks may be nested and repeated as they like.
* `DepthMeasured`: `Spec => []DepthIsLongestChain` for programs that are
  `WellFormed` and `InRange` (sizes and indices are numbers, operands are those
  of the circuit; TLC evaluates this too, `InRangeAssumption`). The builder keeps
  a depth per qubit and never looks at a chain. `Level`, the longest chain
  by recursion on operations, is determined by its equation when no dependency
  points backwards (`LevelUnique`); the invariant `Measured` says that some
  function satisfies the equation and that each qubit's depth is its value at the last
  operation on that qubit, and that every level is reached by some qubit. An emitted
  operation extends the function by one place and changes no earlier one.
* `AdaptersPass`: `Spec => [](source.frontend # "testkit" => AdaptersAccepted)`
  under the same hypotheses, for all five adapters and all eleven checks. What an
  adapter hands over is `Sound`: operations are numbered by their places, active
  and without hooks, qubits are in range or hardware qubits of the program, and no set of
  operations waits only for itself (`NoCycle`), unless a gate names a qubit
  twice. On these only the checks for an empty circuit and for the range of
  qubits can fail (`FailingOnly`), and `KahnDecides` gives the rest. The
  dependencies of OpenQASM and TKET circuits point forward
  (`ForwardNoCycle`), and so do Qiskit's when the objects of its nodes are stable;
  when they are not, no two mistaken dependencies meet (`FoundNoCycle`). Those of a Qualtran bloq need not, because its parts come in any order
  and a connection may lead from a part walked later to one walked earlier. The invariant
  `Extracted` says instead that every finished part of every call in progress
  covers a run of consecutive operations, that these runs do not meet (`Spans`),
  and that a dependency that ends inside a run begins inside it (`Closed`). A
  cycle would therefore pass from run to run along connections, and among
  the parts it touches there is one that no other of them is connected to
  (`Unordered`, `ConnectedNoCycle`).
* `BloqCountKept`: `Spec => []TCountKept` for bloqs that are `InRange` and
  `Additive` (Qualtran's T count of a bloq that decomposes is the sum of its parts',
  and zero for one that is skipped; TLC evaluates this, `AdditiveAssumption`).
  A leaf may have any T count: what the adapter makes of a Toffoli or a
  controlled swap differs from it, and the theorem says that the circuit's count
  differs from the bloq's by the sum of these differences over the leaves
  walked (`missed`), and by nothing else. The adapter never adds counts up: it emits a
  chain for what it leaves opaque and recounts the operations at the end. The
  invariant (`Balanced`) says that the T gates emitted, those missed, and those
  still owed by the parts on the lists of all calls in progress (`Owed`) make up
  the bloq's count, and that a part a call has entered is no longer on its list,
  so that the return from it pays nothing twice.

**Sweeps.** `SupplyProofs` rests on `NumbersAssumption` (scale, grid of exact
decimals), `GridAssumption` and `RequestsAssumption` (any base models, spaces
and points):

* `JudgedAsAWhole`: `Spec => []SweptAsAWhole`. The invariant `Sweep` says
  that the changes still to be made are a tail of the list of all changes and
  that the model is the base with the others applied (`PartlyApplied`, `After`);
  the checks of the space make the names distinct, so that no change undoes
  another and the order does not matter.
* `ValuesWithinBounds`: `Spec => []MappedWithinBounds`, from bounds on the
  rounded part of an integer interval (`WholePart`, `ShareBounds`,
  `RoundedBounds`) for each kind of parameter.
* `StartsOnSoundHardware`: `Spec => []FitsEngine`. `HardwareAccepted` turns
  the checks of `validate`, which are comparisons that NaN fails, into facts
  about numbers; `Productive` gets a possible outcome for each factory from
  them.
* `HeapIsStable`: `Spec /\ []WithinDelay => QueueInOrder`, i.e. the heap
  implements `EventOrder` for any number of pending events. `WithinDelay` says
  that `LongestDelay`, which only bounds the delays TLC tries, is no less than
  any delay. `HeapInv`: no two pending events share a number, all numbers are
  below the next one, and the heap can be laid out in one line (`Orders`), which
  is then unique (`OrdersUnique`: the place of an event is the number of events
  before it). An event scheduled last goes behind those that are not later
  (`SplicedOrders`); a pop takes the head, and renumbering the others changes
  no comparison (`Ranks`, `MovedKeepsOrder`). `FitsEngine` is used on the way: an
  outcome names a factory that exists.

**Many simulations.** `AnalysisProofs` rests on `JobsAssumption` and
`ModulusAssumption`:

* `BatchKept`: the parallel evaluation implements `Batch`, for any number of
  tasks and workers. `PoolInv` says that a task is pending, running, answered in
  its own place or failed, and in only one of these.
* `SeedsDisjoint`: `SeedsApart` for every base seed, wrapping included, as long
  as there are no more seeds than the range has.
* `EstimatorsPaired`: the flat batch is the concatenation of A, B and the AB
  blocks, place `i * n + r` holds row `r` of block `i`, and each estimator takes
  its three values from one row, resampled or not.
* `EffectsBelong`: `Spec => []EffectsIsolated`. `Drawable` has every trajectory
  the generator can draw: the level of a coordinate moves by half the levels
  when its turn comes (`Stride`), and since their number is even exactly one
  direction stays inside (`StepStays`), so nothing is clamped. The permutation
  gives every coordinate its turn (`EveryTurn`), and `MorrisInv` keeps the batch
  in the order of the trajectories, which is where the extraction looks.
* `OrderStatistics`: `AnalysisSpec => []PercentilesOrdered` for any number of
  replicas and any metric values. `SortedValues` is given by its order statistics:
  the value at place `i` has fewer than `i` values below it and at least `i` no
  greater. Counting shows that there is such a value at every place (the least
  one that at least `i` values do not exceed, `PlaceTaken`) and that places
  ascend (`SortedInOrder`); the positions of the percentiles ascend with their
  rank and stay in range (`PercentilesPlaced`). `MetricTaken` finds the value of
  a replica also where its seed has wrapped.

Only model-checked: `AdaptersAccepted` for the circuits of the test kit;
`Stratified`, which is arithmetic on bits; and liveness (`Terminates`,
`FactoriesProduce`, `GatesComplete`), which the prover does not handle.

## 5. Where documentation and code part

* `find_fixup_hook`: `inject_fixup` documents `gate -> fixup -> successors`,
  but leaves the predecessor lists alone; a hook that activates such a
  successor recomputes its count from them and lets it start before the fixup.
* `find_instant_feedback`: with feedback delay 0 a target that depends on its
  own measurement is counted down by the activation and again by
  `release_successors`, and starts before its other predecessor.
* `find_open_circuit`: "If `Engine::new` returns `Ok`, `Engine::run` is
  guaranteed to terminate" does not hold for a valid circuit in which an active
  operation depends on one that is never activated.
* `find_stall_buckets`: a bucket is `FactoryThroughput` when "T-gates are
  waiting for magic states", but only the bucket in which a stalled gate is
  served is marked, not those in which it waited.
* `find_else_branch`: "Gates inside conditional blocks are included
  unconditionally — pirx profiles the maximum execution path"
  (`openqasm.rs:155`), but only the then branch of an `if` is walked (`:176`). A
  program whose else branch has more T gates is given a T count below that of
  an execution.
* `find_lost_wires`: the tests of the Qiskit adapter say of a gate that it
  "depends on 0 (same qubit)" (`python/tests/test_qiskit_adapter.py:139`) and
  count operations only. The adapter looks the nodes of the edges up by the
  `id()` of objects that an earlier call returned (`qiskit.py:91`, `:104`). Since
  Qiskit 1.3 they are other objects: dependencies are lost, or join whatever
  operations had those identities. Where the objects are stable, the edges at a
  skipped node are still dropped, and with them the order of two gates around a
  barrier.
* `find_shared_streams`: replicas are called independent (`monte_carlo.rs:1`,
  `:39`, `:135`), but they are seeded one apart, and so are the factories of one
  (`engine/mod.rs:155`): factory `i + 1` of a replica and factory `i` of the next
  draw from one stream.

Met on the way, without a run of its own:

* The Qiskit adapter says that "Classical-only edges are ignored", but takes
  every edge of `dag.edges()`, those of classical bits included
  (`python/pirx/adapters/qiskit.py:78` and `:103`).
* `validate` accepts two measurements with one hook (`ActivatedOnce` excludes
  it). Its operations are then pushed by each activation (`dispatch.rs:178`), run
  twice and release their successors twice, so that a successor may start before
  its other predecessor.
* "If `Engine::new` returns `Ok`, `Engine::run` is guaranteed to terminate"
  (`engine/mod.rs:37`) does not hold either for a distillation factory with
  `rounds = 0` or `cycles_per_round = 0`, which `HardwareModel::validate` admits
  (`hw/model.rs:79`): its outcome is due in the cycle in which it starts, and phase 1
  of that cycle never ends. Nor need it hold with `abort_probability = 1`
  (`hw/model.rs:83`): no state is ever produced.
* Qualtran counts T gates in a Toffoli, a controlled swap and a controlled swap
  of registers; the adapter makes each one Clifford gate (`qualtran.py:33`, `:42`,
  `:44`, `:108`). It warns when its count is off, "This may indicate incomplete
  decomposition" (`qualtran.py:366`); `TCountKept` says that the leaves alone are
  the cause.
* The front ends do not agree on every gate: `U1`, `Collapse`, conditional
  gates and very large angles are classified by one and rejected or classified
  otherwise by another.
* Qualtran's adapter joins the last operation of one part with the first of the
  next, which keeps one edge of the order and not all of it.
* `generate_trajectories` says that base points come from `{0, step, ..., 1-Δ}`
  (`morris.rs:83`); they come from the whole grid, and the sign is what keeps a
  step inside.
* `sobol_sequence` asks for a `dim` in `1..=31` (`sobol_sequence.rs:51`) and
  accepts 30. Above 15 dimensions `sobol.rs:57` speaks of splitting 2N points by
  rows; the code takes B from a Latin hypercube (`:83`). Dimensions 1 and 20 of
  the sequence agree on their first 128 points, so the columns of one matrix, or
  of A and B, can be equal where independent samples are asked for.
* `replicas` has `config.replicas` entries (`monte_carlo.rs:105`), except that 0
  runs one replica.
* With seed 0 the stream of factory 0 is that of the engine itself. A Morris
  design is drawn from the seed of its first point's simulation (`morris.rs:257`).
* Without qubit positions every qubit is at the origin and routing is free of
  latency (`routing.rs:58`).
* `ParameterSpace::validate` compares with `min >= max`, which NaN bounds pass
  (`parameter.rs:158`); the model that is swept is still judged, see
  `FitsEngine`.

## 6. Abstractions

In `Engine` times are integers in cycles, as in the code; the conversions from
microseconds and floating point happen in `Engine::new` and are constants of
that module. `Supply` models them (`MeasurementCycles`, `FeedbackDelay`).
Cycle arithmetic and counters saturate in the code and are unbounded here, so
nothing is said about runs near 2^32 or 2^64 cycles. Rotation angles are left
out: nothing reads them during a run. A factory attempt is an element of
`Draws`; probabilities are not modelled. The trace has the records a reduction
reads and the stalls; five kinds that nothing reads are left out (see
`TracedEngine`). Utilizations are the counts before they are divided; the
infidelities, products with a constant, are left out. The errors `Engine::new`
returns are excluded by the assumptions.

A summary counts no active cycles for an attempt that is still running at the
end, while a profile fills its buckets: the two utilizations of one run differ
by design of the reductions. `ReductionsAgree` states the summary's as it is.

The engine looks at its first ready gates in phase 3 of its first step, which
waits for the first factory outcome; with a limit before that, even free gates
are truncated at cycle 0. `WithinLimit` accepts this: it speaks of the limit only.

A float is a whole number of `1 / Scale`, or `NaN`: comparisons, rounding and
clamping are exact on these, and rounding errors are not modelled. Infinities are
left out, though the checks of a hardware model let some of them pass. The heap is a set with
its order `Precedes`; cycles and sequence numbers are rebased at each pop, which
keeps the set of states finite and no comparison can see. Kahn's queue is a set
and any member may be next, which is more than the code does. Points, rows and
simulation results are named by where they come from. rayon is external: its
workers take any pending task and finish in any order, and after a failure they
may drop what they have not begun.

## 7. Not modelled, and what is left

* **Command line** (`crates/pirx-cli/src/main.rs`): each command is one chain of
  reading, parsing, validating, one library call and writing. It keeps no state
  between these, the library calls are modelled, and the rest is text.
* **Python bindings** (`python/src/`), other than `from_adapter_data` and
  `read_json`: wrappers that copy field by field.
* **Test kit**: only its fixtures are modelled (floats rounded up to a whole number
  of `1 / Scale`); its other helpers are assertions of tests.
* **Parsers**: OpenQASM and TKET files are parsed by third-party libraries, TOML
  and JSON by serde; what they deliver is the input of the models.
* **Real arithmetic**: means, standard deviations, `mu_star` and `sigma`, the
  Sobol indices, their confidence intervals and rankings,
  `logical_error_rate`. What is modelled is which values enter them.
* **The sequential loop on wasm**: it is the parallel evaluation with one worker.
* **Saturation** of cycles and counters near their 32 and 64 bits.

Left to prove: that `validate` accepts the circuits of the test kit, whose hooks
and positions go through the checks that adapters never reach.
