--------------------------- MODULE ParameterSpace ---------------------------
(***************************************************************************)
(* The space a sensitivity analysis sweeps (parameter.rs): a sequence of   *)
(* parameters [name, min, max, kind], and the point of the hardware a      *)
(* point of the unit cube stands for.  A coordinate u counts Grid to the   *)
(* unit; bounds are floats.                                                *)
(***************************************************************************)
EXTENDS Hardware

CONSTANT Grid   \* the fineness of the unit interval

ASSUME GridAssumption == Grid \in Nat \ {0}

Parameters ==
  [name : STRING, min : Floats, max : Floats, kind : {"continuous", "integer", "odd_integer"}]

Sweepable ==
  CommonFields \cup FactoryFields.cultivation \cup FactoryFields.distillation
    \cup FactoryFields.rz_synthesis \cup RoutingFields.scalar

-----------------------------------------------------------------------------
(* The mapping. *)

(* f64::round of n / d, for n not negative: halves go up. *)
RoundedDiv(n, d) == (2 * n + d) \div (2 * d)

Clamped(u) == CASE u < 0 -> 0 [] u > Grid -> Grid [] OTHER -> u
Along(p, u) ==
  IF NaN \in {p.min, p.max} THEN NaN ELSE p.min + (u * (p.max - p.min)) \div Grid
Odds(p) == (p.max - p.min) \div (2 * Scale) + 1

(* Fault: the interval is cut into as many steps as there are odd values. *)
MapUnitPastEnd(p, u) ==
  CASE p.kind = "continuous" -> Along(p, Clamped(u))
    [] p.kind = "integer"    -> Scale * RoundedDiv(Along(p, Clamped(u)), Scale)
    [] OTHER                 -> p.min + 2 * Scale * RoundedDiv(Clamped(u) * Odds(p), Grid)

MapUnit(p, u) ==
  CASE p.kind = "continuous" -> Along(p, Clamped(u))
    [] p.kind = "integer"    ->
         IF Along(p, u) = NaN THEN NaN ELSE Scale * RoundedDiv(Along(p, Clamped(u)), Scale)
    [] OTHER                 ->
         p.min + 2 * Scale * RoundedDiv(Clamped(u) * (Odds(p) - 1), Grid)

-----------------------------------------------------------------------------
(* The checks of a space.  Nothing compares with NaN. *)

AtLeast(x, y) == NaN \notin {x, y} /\ x >= y
Fractional(x) == x # NaN /\ x % Scale # 0
OddWhole(x) == x # NaN /\ x % (2 * Scale) = Scale

ParamChecks(space, i) ==
  LET p == space[i]
  IN  <<[fails |-> \E j \in 1 .. i - 1 : space[j].name = p.name,
                                                     error |-> "DuplicateParameter"],
        [fails |-> AtLeast(p.min, p.max),            error |-> "InvalidRange"],
        [fails |-> ~AtLeast(p.min, 0) /\ p.min # NaN, error |-> "NegativeBound"],
        [fails |-> p.kind = "integer" /\ (Fractional(p.min) \/ Fractional(p.max)),
                                                     error |-> "NonIntegerBound"],
        [fails |-> p.kind = "odd_integer" /\
                     ~(OddWhole(p.min) /\ OddWhole(p.max) /\ p.min >= 3 * Scale),
                                                     error |-> "NonOddBound"]>>

(* The error of the first parameter that has one. *)
FirstOf(errors) ==
  LET i == SelectInSeq(errors, LAMBDA e : e # "none")
  IN  IF i = 0 THEN "none" ELSE errors[i]

InternalError(space) ==
  IF space = <<>> THEN "EmptyParameterSpace"
  ELSE FirstOf([i \in DOMAIN space |-> FirstError(ParamChecks(space, i))])

(* Whether the hardware has the fields the space names. *)
FitChecks(hw, p) ==
  <<[fails |-> p.name \notin Sweepable, error |-> "UnknownParameter"],
    [fails |-> \E t \in DOMAIN FactoryFields : p.name \in FactoryFields[t] /\ hw.factory # t,
                                        error |-> "FactoryTypeMismatch"],
    [fails |-> p.name \in RoutingFields.scalar /\ hw.routing # "scalar",
                                        error |-> "RoutingTypeMismatch"]>>
FitError(hw, space) == FirstOf([i \in DOMAIN space |-> FirstError(FitChecks(hw, space[i]))])

SpaceError(hw, space) ==
  IF InternalError(space) # "none" THEN InternalError(space) ELSE FitError(hw, space)
=============================================================================
