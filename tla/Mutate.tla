------------------------------- MODULE Mutate -------------------------------
(***************************************************************************)
(* From a hardware file, a parameter space and a point of the unit cube to *)
(* the hardware a sample runs on: load, validate, map_point and            *)
(* mutate_hw_multi, which overrides one field after another and validates  *)
(* once at the end.                                                        *)
(***************************************************************************)
EXTENDS ParameterSpace

VARIABLES
  request,   \* what is asked: the model to load, the space, the point
  hw,        \* the model being built
  todo,      \* the parameters not applied yet
  phase      \* where the run is, or the error it stopped with

base == request.base
space == request.space
point == request.point     \* a point of the unit cube
mutateVars == <<request, hw, todo, phase>>

Load ==
  /\ phase = "read"
  /\ phase' = IF HardwareError(base) = "none" THEN "loaded" ELSE HardwareError(base)
  /\ UNCHANGED <<request, hw, todo>>

(* A run without a sweep uses the model as it is. *)
UseBase ==
  /\ phase = "loaded" /\ space = <<>> /\ point = <<>>
  /\ phase' = "ready"
  /\ UNCHANGED <<request, hw, todo>>

RefuseSpace ==
  /\ phase = "loaded" /\ point # <<>>
  /\ SpaceError(base, space) # "none"
  /\ phase' = SpaceError(base, space)
  /\ UNCHANGED <<request, hw, todo>>

MapPoint ==
  /\ phase = "loaded" /\ point # <<>>
  /\ SpaceError(base, space) = "none"
  /\ IF Len(point) = Len(space)
       THEN /\ phase' = "applying"
            /\ todo' = [i \in DOMAIN space |->
                          [name |-> space[i].name, value |-> MapUnit(space[i], point[i])]]
       ELSE phase' = "DimensionMismatch" /\ UNCHANGED todo
  /\ UNCHANGED <<request, hw>>

(* `value.round() as u32`, where NaN becomes 0; a float is stored as it is. *)
Stored(name, value) ==
  IF name \notin IntegerFields THEN value
  ELSE IF value = NaN THEN 0 ELSE RoundedDiv(value, Scale)

Overridden(model, p) == [model EXCEPT !.value[p.name] = Stored(p.name, p.value)]

(* Fault: the model is validated after every override. *)
ApplySingleEager ==
  /\ phase = "applying" /\ todo # <<>>
  /\ hw' = Overridden(hw, Head(todo))
  /\ todo' = Tail(todo)
  /\ phase' = IF HardwareError(hw') = "none" THEN phase ELSE HardwareError(hw')
  /\ UNCHANGED request

ApplySingle ==
  /\ phase = "applying" /\ todo # <<>>
  /\ hw' = Overridden(hw, Head(todo))
  /\ todo' = Tail(todo)
  /\ UNCHANGED <<request, phase>>

(* Fault: the finished model is taken on trust. *)
ConcludeUnchecked ==
  /\ phase = "applying" /\ todo = <<>>
  /\ phase' = "ready"
  /\ UNCHANGED <<request, hw, todo>>

ConcludeMutation ==
  /\ phase = "applying" /\ todo = <<>>
  /\ phase' = IF HardwareError(hw) = "none" THEN "ready" ELSE HardwareError(hw)
  /\ UNCHANGED <<request, hw, todo>>

MutateStep ==
  Load \/ UseBase \/ RefuseSpace \/ MapPoint \/ ApplySingle \/ ConcludeMutation
=============================================================================
