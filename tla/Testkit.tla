------------------------------ MODULE Testkit ------------------------------
(***************************************************************************)
(* The circuits and hardware models the repository's tests are written     *)
(* with (pirx-testkit).  Circuits have the form of module Circuit, models  *)
(* the form of module Hardware.                                            *)
(***************************************************************************)
EXTENDS Integers, Sequences, TLC

CONSTANTS
  NoHook, NoPositions,   \* as in module Circuit
  Scale                  \* as in module Hardware: the fineness of the floats

-----------------------------------------------------------------------------
(* Circuits. *)

Op(id, kind, qubits) ==
  [id |-> id, kind |-> kind, hook |-> NoHook, qubits |-> qubits, active |-> TRUE]
Measuring(hook) == [Op(0, "measurement", <<0>>) EXCEPT !.hook = hook]
Dormant(id, kind) == [Op(id, kind, <<0>>) EXCEPT !.active = FALSE]
Dep(x, y) == [from |-> x, to |-> y]

BlankMeta == [counts |-> [tgate |-> 0, clifford |-> 0, rotation |-> 0], depth |-> 0]

(* A circuit of n qubits without positions and hooks. *)
Circuit(ops, deps, n) ==
  [ops |-> ops, deps |-> deps, qubits |-> n, positions |-> NoPositions, hooks |-> <<>>] @@ BlankMeta
Counted(circuit, kind, n, depth) == [circuit EXCEPT !.counts[kind] = n, !.depth = depth]

(* n gates of one kind, one after another on qubit 0. *)
Chain(kind, n) ==
  Circuit([i \in 1 .. n |-> Op(i - 1, kind, <<0>>)], [i \in 1 .. n - 1 |-> Dep(i - 1, i)], 1)

TwoQubitGrid(n) ==
  LET pairs == Circuit([i \in 1 .. n |-> Op(i - 1, "clifford", <<2 * i - 2, 2 * i - 1>>)], <<>>, 2 * n)
  IN  Counted([pairs EXCEPT !.positions = [q \in 1 .. 2 * n |-> q - 1]], "clifford", n, 1)

SingleClifford == Counted(Chain("clifford", 1), "clifford", 1, 1)
SingleTGate == Chain("tgate", 1)
SingleRotation == Counted(Chain("rotation", 1), "rotation", 1, 1)
TwoParallelTGates == Circuit(<<Op(0, "tgate", <<0>>), Op(1, "tgate", <<1>>)>>, <<>>, 2)
ParallelCliffords(n) == Circuit([i \in 1 .. n |-> Op(i - 1, "clifford", <<i - 1>>)], <<>>, n)
CliffordChain(n) == Chain("clifford", n)
TGateChain(n) == Counted(Chain("tgate", n), "tgate", n, n)
CliffordTMeasurementChain ==
  [Chain("clifford", 3) EXCEPT !.ops[2].kind = "tgate", !.ops[3].kind = "measurement"]

(* Measurement 0 with hook 0 activates operations that depend on it. *)
Feedback(targets) ==
  [Circuit(<<Measuring(0)>> \o targets, [i \in DOMAIN targets |-> Dep(0, targets[i].id)], 1)
     EXCEPT !.hooks = <<[id |-> 0, activates |-> [i \in DOMAIN targets |-> targets[i].id]]>>]

MeasurementWithOneHook == Feedback(<<Dormant(1, "clifford")>>)
MeasurementWithBothOutcomes == Feedback(<<Dormant(1, "clifford"), Dormant(2, "clifford")>>)
HookActivatesTGate == Feedback(<<Dormant(1, "tgate")>>)

-----------------------------------------------------------------------------
(* Hardware models.  A float is rounded up to the fineness of the model,   *)
(* so that what is positive stays so.                                      *)
Float(numerator, denominator) == (numerator * Scale + denominator - 1) \div denominator

SurfaceCodeQec(distance) ==
  [code_distance |-> distance, physical_error_rate |-> Float(1, 1000),
   error_correction_threshold |-> Float(1, 100), logical_error_prefactor |-> Float(38, 1000)]

DefaultTiming ==
  [cycle_time_us |-> Float(1, 1), measurement_time_us |-> Float(1, 2),
   feedback_latency_us |-> Float(1, 1)]

Injection == [injection_error_probability |-> Float(1, 2), fixup_cost_cycles |-> 1]
Buffer(capacity, preload) == [buffer_capacity |-> capacity, buffer_preload |-> preload]

Machine(factory, attempt, distance, count, buffer) ==
  [factory |-> factory, routing |-> "scalar",
   value |-> SurfaceCodeQec(distance) @@ DefaultTiming @@ Injection @@ buffer @@ attempt
               @@ [factory_count |-> count, overhead_cycles |-> 5]]

Cultivating == [lambda_raw |-> Float(2, 1000), fault_distance |-> 3]
Distilling(cycles, abort) ==
  [cycles_per_round |-> cycles, rounds |-> 3, abort_probability |-> abort]

CultivationHw == Machine("cultivation", Cultivating, 7, 1, Buffer(4, 0))
DistillationHw == Machine("distillation", Distilling(10, Float(1, 100)), 7, 1, Buffer(4, 0))
DeterministicDistillationHw(count, capacity, preload) ==
  Machine("distillation", Distilling(18, 0), 7, count, Buffer(capacity, preload))
RzSynthesisHw ==
  Machine("rz_synthesis", [distinct_angles |-> 1, mean_cycles_per_state |-> Float(30, 1)],
          17, 1, Buffer(4, 0))
ManhattanHw(width, height) ==
  LET scalar == CultivationHw.value
      grid == [grid_width |-> width, grid_height |-> height, cycles_per_hop |-> 1]
  IN  [CultivationHw EXCEPT !.routing = "manhattan",
         !.value = grid @@ [f \in DOMAIN scalar \ {"overhead_cycles"} |-> scalar[f]]]
=============================================================================
