------------------------------ MODULE MCSupply ------------------------------
(***************************************************************************)
(* Hardware around every boundary of validate, sweeps over the parameters  *)
(* the checks tell apart, and small circuits to run on what is accepted.   *)
(***************************************************************************)
EXTENDS SupplyProperties

Base(factory, routing) ==
  [factory |-> factory, routing |-> routing,
   value |-> [f \in Fields(factory, routing) |->
     CASE f = "code_distance"        -> 3
       [] f \in DOMAIN Defaults      -> IF f = "error_correction_threshold" THEN 1 ELSE Defaults[f]
       [] f = "factory_count"        -> 2
       [] f = "rounds"               -> 2
       [] f = "cycles_per_round"     -> 1
       [] f = "abort_probability"    -> Scale \div 2
       [] f = "physical_error_rate"  -> 1
       [] f = "cycle_time_us"        -> 3
       [] f = "buffer_capacity"      -> 2
       [] f \in IntegerFields        -> 1
       [] OTHER                      -> Scale]]
Set(model, f, v) == [model EXCEPT !.value[f] = v]

Distilling == Base("distillation", "scalar")
Cultivating == Base("cultivation", "manhattan")
Synthesizing == Base("rz_synthesis", "scalar")

(* One field at a time, at and beyond each of its limits. *)
Limits(f) ==
  IF f \in IntegerFields THEN {0, 1, 3, 4} ELSE {NaN, -1, 0, Scale, Scale + 1}
Plain(model) == [base |-> model, space |-> <<>>, point |-> <<>>, run |-> FALSE]
PlainRequests ==
  UNION {UNION {{Plain(Set(model, f, v)) : v \in Limits(f)} : f \in DOMAIN model.value} :
           model \in {Distilling, Cultivating, Synthesizing}}

Param(name, min, max, kind) == [name |-> name, min |-> min, max |-> max, kind |-> kind]
Distance == Param("code_distance", 3 * Scale, 9 * Scale, "odd_integer")
Capacity == Param("buffer_capacity", 0, 4 * Scale, "integer")
Preload == Param("buffer_preload", Scale, 4 * Scale, "integer")
Abort == Param("abort_probability", 0, Scale, "continuous")
Count == Param("factory_count", 0, 3 * Scale, "continuous")
Cost == Param("fixup_cost_cycles", NaN, Scale, "continuous")
OtherSpaces ==
  {<<Preload, Preload>>, <<Param("rounds", Scale, Scale, "integer")>>,
   <<Param("rounds", -1, Scale, "integer")>>, <<Param("rounds", 1, Scale, "integer")>>,
   <<Param("code_distance", 3 * Scale, 6 * Scale, "odd_integer")>>,
   <<Param("lambda_raw", 0, Scale, "continuous")>>, <<Param("grid_width", 0, Scale, "integer")>>,
   <<Param("overhead_cycles", 0, Scale, "integer")>>, <<Distance, Distance, Abort>>, <<>>}
Points(n) == [1 .. n -> 0 .. Grid]

Swept(model, spaces, n) == 
  {[base |-> model, space |-> s, point |-> p, run |-> FALSE] : s \in spaces, p \in Points(n)}
SweptRequests ==
  Swept(Distilling, {<<Preload, Capacity>>, <<Distance, Abort>>, <<Count, Cost>>}, 2)
    \cup Swept(Cultivating, {<<Distance>>} \cup OtherSpaces, 1)
    \cup Swept(Distilling, OtherSpaces, 2)
    \cup {[base |-> Distilling, space |-> <<Distance>>, point |-> <<u>>, run |-> FALSE] : u \in {-1, Grid + 1}}

(* The models a simulation is started on. *)
Started ==
  {Distilling, Cultivating, Synthesizing, Set(Distilling, "abort_probability", 0),
   Set(Distilling, "abort_probability", Scale), Set(Distilling, "rounds", 0)}

(* The models of the test kit. *)
Kit == INSTANCE Testkit WITH NoHook <- "none", NoPositions <- "none"
Fixtures ==
  {Kit!CultivationHw, Kit!DistillationHw, Kit!RzSynthesisHw} \cup
  {Kit!DeterministicDistillationHw(n, capacity, preload) :
     n \in {0, 1, 3, 4}, capacity \in {0, 2}, preload \in {0, 2, 3}} \cup
  {Kit!ManhattanHw(width, height) : width, height \in {0, 3}}

MCRequests ==
  PlainRequests \cup SweptRequests \cup {Plain(model) : model \in Fixtures} \cup {[Plain(model) EXCEPT !.run = TRUE] : model \in Started}
    \cup {[base |-> Set(Distilling, "abort_probability", 0), space |-> <<Count, Distance>>,
            point |-> <<Grid, 0>>, run |-> TRUE]}
At(q, row, col) == [qubit |-> q, row |-> row, col |-> col]
MCLayouts == {<<At(0, 0, 0), At(1, 2, 1), At(2, 0, 1)>>}
MCGates == <<<<0>>, <<1, 2, 0>>>>
MCRawTimes == {0, 1, 4}
=============================================================================
