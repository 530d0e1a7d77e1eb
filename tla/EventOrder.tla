----------------------------- MODULE EventOrder -----------------------------
(***************************************************************************)
(* What the engine relies on from its event queue: events are delivered by *)
(* cycle and, within a cycle, in the order in which they were scheduled.   *)
(* Cycles count from the last delivery.                                    *)
(***************************************************************************)
EXTENDS Integers, Sequences

CONSTANTS Events, Delays

VARIABLES
  line,       \* the events to come, the next one first
  delivered   \* the event last delivered, or <<>> when it was dealt with
orderVars == <<line, delivered>>

OrderInit == line = <<>> /\ delivered = <<>>

(* A new event goes behind every event that is not later. *)
Enter(event, delay) ==
  \E k \in 0 .. Len(line) :
    /\ \A i \in DOMAIN line : i <= k <=> line[i].cycle <= delay
    /\ line' = SubSeq(line, 1, k) \o <<[cycle |-> delay, event |-> event]>>
                 \o SubSeq(line, k + 1, Len(line))

Deliver ==
  /\ line # <<>> /\ delivered = <<>>
  /\ delivered' = <<Head(line).event>>
  /\ line' = [i \in DOMAIN Tail(line) |-> [Tail(line)[i] EXCEPT !.cycle = @ - Head(line).cycle]]

Dealt == delivered # <<>> /\ delivered' = <<>>

OrderNext ==
  \/ Deliver
  \/ UNCHANGED line /\ Dealt
  \/ \E event \in Events, delay \in Delays :
       /\ Enter(event, delay)
       /\ Dealt \/ UNCHANGED delivered

OrderSpec == OrderInit /\ [][OrderNext]_orderVars
=============================================================================
