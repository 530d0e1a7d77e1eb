----------------------------- MODULE Factories -----------------------------
(***************************************************************************)
(* The factory models (factory/): the outcomes one production attempt may  *)
(* have, each with the cycles it takes.  Random draws are choices: a draw  *)
(* below a probability is possible unless it is 0, and certain if it is 1. *)
(***************************************************************************)
EXTENDS Hardware

CONSTANT RawTimes   \* the samples an exponential distribution may give

Attempt(type, delay) == [type |-> type, delay |-> delay]

(* Each round may abort; the first that does ends the attempt. *)
Distillation(v) ==
  {Attempt("failed", v["cycles_per_round"] * (round + 1)) :
     round \in IF v["abort_probability"] > 0 THEN 0 .. v["rounds"] - 1 ELSE {}}
  \cup
  {Attempt("produced", v["cycles_per_round"] * n) :
     n \in IF v["abort_probability"] < Scale \/ v["rounds"] = 0 THEN {v["rounds"]} ELSE {}}

CeilDiv(a, b) == (a + b - 1) \div b
AtLeastOne(n) == IF n < 1 THEN 1 ELSE n

(* Fault: a sample of zero takes no time. *)
ServiceTimeFree(raw, per) == CeilDiv(raw, per)
ServiceTime(raw, per) == AtLeastOne(CeilDiv(raw, per))

Cultivation(v) == {Attempt("produced", ServiceTime(t, v["code_distance"])) : t \in RawTimes}
RzSynthesis(v) == {Attempt("produced", ServiceTime(t, 1)) : t \in RawTimes}

ScheduleProduction(hw) ==
  CASE hw.factory = "distillation" -> Distillation(hw.value)
    [] hw.factory = "cultivation"  -> Cultivation(hw.value)
    [] OTHER                       -> RzSynthesis(hw.value)

CreateFactories(hw) == 0 .. hw.value["factory_count"] - 1
=============================================================================
