---------------------------- MODULE TracedEngine ----------------------------
(***************************************************************************)
(* The engine with the trace it records (pirx-core, trace.rs and the calls *)
(* of TraceCollector::record in engine/).  A record carries the cycle it   *)
(* was made in, its kind, the operation or factory it is about and, for    *)
(* some kinds, a number: the occupancy, the wait or the latency.           *)
(*                                                                         *)
(* Kinds that no reduction of a trace reads and that no property needs     *)
(* (GateReady, GateScheduled, RoutingStarted, MeasurementOutcome,          *)
(* OpsActivated) are left out.                                             *)
(***************************************************************************)
EXTENDS EngineProperties

VARIABLE trace
tracedVars == <<vars, trace>>

Rec(kind, id, n) == [cycle |-> now, kind |-> kind, id |-> id, n |-> n]

(* TraceCollector::record, for each record of rs. *)
Record(rs) == trace' = trace \o rs

(* The records of total_gate_cost. *)
Routing(k) ==
  LET latency == input.route[QubitsOf(k)]
  IN  IF latency > 0 THEN <<Rec("routed", k, latency)>> ELSE <<>>

(* Fault: the completion of a fixup is recorded like that of any gate. *)
CompletionAlike(k) == <<Rec("completed", k, 0)>>

(* The first record of GateCompleted. *)
Completion(k) ==
  <<Rec(IF KindOf(k) = "fixup" THEN "fixup_completed" ELSE "completed", k, 0)>>

TracedInit ==
  /\ Init
  /\ trace = [i \in 1 .. NumFactories |-> Rec("started", i - 1, 0)]

-----------------------------------------------------------------------------
TracedProduced ==
  LET f == Head(events).id
  IN  /\ FactoryProduced
      /\ Record(<<Rec("produced", f, 0),
                  IF occupancy < Capacity THEN Rec("enqueue", f, occupancy')
                                          ELSE Rec("full", f, 0),
                  Rec("started", f, 0)>>)

TracedFailed ==
  LET f == Head(events).id
  IN  /\ FactoryFailed
      /\ Record(<<Rec("failed", f, 0), Rec("started", f, 0)>>)

TracedInjection ==
  LET gate == Head(events).id
  IN  /\ InjectionError
      /\ Record(Completion(gate)
                  \o <<Rec("error", gate, 0),
                       Rec("fixup", FixupKey(Len(fixups')), 0)>>)

TracedCompletion ==
  /\ GateCompleted \/ MeasuredDeferred \/ MeasuredInstant
  /\ Record(Completion(Head(events).id))

(* The two records of a served gate, then those of its routing. *)
Service(gate, wait) ==
  <<Rec("dequeue", gate, occupancy'), Rec("served", gate, wait)>> \o Routing(gate)

TracedServeStalled ==
  /\ ServeStalled
  /\ Record(Service(Head(stalled).gate, now - Head(stalled).since))

TracedServeReady ==
  /\ ServeReady
  /\ Record(Service(Head(ready), 0))

TracedStallReady ==
  /\ StallReady
  /\ Record(<<Rec("stalled", Head(ready), 0)>>)

TracedScheduleReady ==
  /\ ScheduleReady
  /\ Record(Routing(Head(ready)))

TracedNext ==
  \/ TracedProduced \/ TracedFailed
  \/ TracedInjection \/ TracedCompletion
  \/ TracedServeStalled \/ TracedServeReady \/ TracedStallReady \/ TracedScheduleReady
  \/ /\ \/ Finish \/ Truncate \/ BeginStep \/ HookActivation
        \/ EndEvents \/ EndServe \/ EndStep \/ Returned
     /\ UNCHANGED trace

TracedSpec == TracedInit /\ [][TracedNext]_tracedVars
=============================================================================
