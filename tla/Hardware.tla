------------------------------ MODULE Hardware ------------------------------
(***************************************************************************)
(* The hardware model (pirx-hw): what a TOML file says of the machine, and *)
(* what validate accepts.  A model is                                      *)
(*   [factory |-> its type, routing |-> its model, value |-> field values] *)
(* with the fields of that factory and that routing.  A field that is a    *)
(* float counts Scale to the unit and may be NaN; the others are integers. *)
(***************************************************************************)
EXTENDS Integers, Sequences, SequencesExt

CONSTANTS
  NaN,       \* the float that is not a number
  Scale,     \* the fineness of the floats
  MaxCount   \* u16::MAX, the most factories

ASSUME NumbersAssumption ==
  /\ Scale \in Nat \ {0} /\ MaxCount \in Nat \ {0}
  /\ NaN \notin Int

FactoryFields ==
  [distillation |-> {"cycles_per_round", "rounds", "abort_probability"},
   cultivation  |-> {"lambda_raw", "fault_distance"},
   rz_synthesis |-> {"mean_cycles_per_state", "distinct_angles"}]
RoutingFields ==
  [scalar    |-> {"overhead_cycles"},
   manhattan |-> {"grid_width", "grid_height", "cycles_per_hop"}]
CommonFields ==
  {"code_distance", "physical_error_rate", "error_correction_threshold",
   "logical_error_prefactor", "cycle_time_us", "measurement_time_us",
   "feedback_latency_us", "factory_count", "injection_error_probability",
   "fixup_cost_cycles", "buffer_capacity", "buffer_preload"}
Fields(factory, routing) ==
  CommonFields \cup FactoryFields[factory] \cup RoutingFields[routing]

IntegerFields ==
  {"code_distance", "factory_count", "fault_distance", "cycles_per_round", "rounds",
   "distinct_angles", "fixup_cost_cycles", "overhead_cycles", "buffer_capacity",
   "buffer_preload", "grid_width", "grid_height", "cycles_per_hop"}

(* What a file may say: integer fields are unsigned, a float is any. *)
Floats == Int \cup {NaN}
IsModel(hw) ==
  /\ hw = [factory |-> hw.factory, routing |-> hw.routing, value |-> hw.value]
  /\ hw.factory \in DOMAIN FactoryFields /\ hw.routing \in DOMAIN RoutingFields
  /\ hw.value \in [Fields(hw.factory, hw.routing) -> Floats]
  /\ \A f \in DOMAIN hw.value \cap IntegerFields : hw.value[f] \in Nat

(* What the file may leave out. *)
Defaults ==
  [error_correction_threshold |-> Scale \div 100, measurement_time_us |-> Scale \div 2,
   feedback_latency_us |-> Scale, injection_error_probability |-> Scale \div 2,
   fixup_cost_cycles |-> 1, overhead_cycles |-> 5, cycles_per_hop |-> 1, buffer_preload |-> 0]

-----------------------------------------------------------------------------
(* The domain checks, in the code's order, with the error each returns. *)

NotPositive(x) == x = NaN \/ x <= 0
NotOpenUnit(x) == NotPositive(x) \/ x >= Scale
NotClosedUnit(x) == x = NaN \/ x < 0 \/ x > Scale

HardwareChecks(hw) ==
  LET v == hw.value
  IN  <<[fails |-> v["code_distance"] < 3 \/ v["code_distance"] % 2 = 0,
                                                        error |-> "InvalidCodeDistance"],
        [fails |-> NotOpenUnit(v["physical_error_rate"]),
                                                        error |-> "InvalidPhysicalErrorRate"],
        [fails |-> NotOpenUnit(v["error_correction_threshold"]),
                                              error |-> "InvalidErrorCorrectionThreshold"],
        [fails |-> NotPositive(v["logical_error_prefactor"]),
                                                  error |-> "InvalidLogicalErrorPrefactor"],
        [fails |-> NotPositive(v["cycle_time_us"]),     error |-> "InvalidCycleTime"],
        [fails |-> NotPositive(v["measurement_time_us"]), error |-> "InvalidMeasurementTime"],
        [fails |-> v["feedback_latency_us"] = NaN \/ v["feedback_latency_us"] < 0,
                                                        error |-> "InvalidFeedbackLatency"],
        [fails |-> v["factory_count"] = 0,              error |-> "ZeroFactories"],
        [fails |-> v["factory_count"] > MaxCount,       error |-> "FactoryCountExceedsLimit"],
        [fails |-> hw.factory = "cultivation" /\ NotPositive(v["lambda_raw"]),
                                                        error |-> "InvalidLambdaRaw"],
        [fails |-> hw.factory = "distillation" /\ NotClosedUnit(v["abort_probability"]),
                                                        error |-> "InvalidAbortProbability"],
        [fails |-> hw.factory = "rz_synthesis" /\ NotPositive(v["mean_cycles_per_state"]),
                                                        error |-> "InvalidMeanCyclesPerState"],
        [fails |-> hw.factory = "rz_synthesis" /\ v["distinct_angles"] = 0,
                                                        error |-> "ZeroDistinctAngles"],
        [fails |-> NotClosedUnit(v["injection_error_probability"]),
                                                      error |-> "InvalidInjectionProbability"],
        [fails |-> hw.routing = "manhattan" /\ 0 \in {v["grid_width"], v["grid_height"]},
                                                        error |-> "ZeroGridDimension"],
        [fails |-> hw.routing = "manhattan" /\ v["cycles_per_hop"] = 0,
                                                        error |-> "ZeroCyclesPerHop"],
        [fails |-> v["buffer_capacity"] = 0,            error |-> "ZeroBufferCapacity"],
        [fails |-> v["buffer_preload"] > v["buffer_capacity"],
                                                        error |-> "PreloadExceedsCapacity"]>>

(* The error of the first check that fails. *)
FirstError(checks) ==
  LET i == SelectInSeq(checks, LAMBDA c : c.fails)
  IN  IF i = 0 THEN "none" ELSE checks[i].error

HardwareError(hw) == FirstError(HardwareChecks(hw))
=============================================================================
