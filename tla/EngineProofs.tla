---------------------------- MODULE EngineProofs ----------------------------
(***************************************************************************)
(* Proofs about the engine, for every circuit, hardware and outcome of the *)
(* random draws that the assumptions of module Engine allow: its types and *)
(* its magic states; and simulated time, whose event queue is ordered and  *)
(* never holds an event of the past, with what follows from that for the   *)
(* clock, the cycle limit, the stall records and the factories.            *)
(***************************************************************************)
EXTENDS EngineProperties, TLAPS, SequenceTheorems, FiniteSetTheorems,
        WellFoundedInduction

-----------------------------------------------------------------------------
(* Sequences. *)

(* The positions pushed are positions of the list, so a queue stays a     *)
(* queue of the same things (FifoReadyQueue::push in the loops of          *)
(* release_successors and activate_ops).                                   *)
LEMMA PushedType ==
  ASSUME NEW S, NEW q \in Seq(S), NEW list \in Seq(S),
         NEW I \in SUBSET DOMAIN list, NEW r \in Pushed(q, list, I)
  PROVE  r \in Seq(S)
<1>1. DOMAIN list = 1 .. Len(list) /\ Len(list) \in Nat
  BY LenProperties
<1>2. IsFiniteSet(I) /\ Cardinality(I) \in Nat
  <2>1. IsFiniteSet(1 .. Len(list))
    BY <1>1, FS_Interval
  <2>2. IsFiniteSet(I)
    BY <1>1, <2>1, FS_Subset
  <2> QED
    BY <2>2, FS_CardinalityType
<1>3. PICK f \in InOrder(I) : r = q \o [k \in 1 .. Cardinality(I) |-> list[f[k]]]
  BY DEF Pushed
<1>4. f \in [1 .. Cardinality(I) -> I]
  BY <1>3 DEF InOrder
<1>5. [k \in 1 .. Cardinality(I) |-> list[f[k]]] \in [1 .. Cardinality(I) -> S]
  BY <1>1, <1>4
<1>6. [k \in 1 .. Cardinality(I) |-> list[f[k]]] \in Seq(S)
  BY <1>2, <1>5
<1> QED
  BY <1>3, <1>6, ConcatProperties

LEMMA InsertAtType ==
  ASSUME NEW S, NEW q \in Seq(S), NEW i \in 1 .. Len(q) + 1, NEW e \in S
  PROVE  InsertAt(q, i, e) \in Seq(S)
<1>1. SubSeq(q, 1, i - 1) \in Seq(S)
  <2>1. \A j \in 1 .. i - 1 : q[j] \in S
    BY ElementOfSeq
  <2> QED
    BY <2>1, SubSeqProperties
<1>2. SubSeq(q, i, Len(q)) \in Seq(S)
  <2>1. \A j \in i .. Len(q) : q[j] \in S
    BY ElementOfSeq
  <2> QED
    BY <2>1, SubSeqProperties
<1>3. SubSeq(q, 1, i - 1) \o <<e>> \o SubSeq(q, i, Len(q)) \in Seq(S)
  BY <1>1, <1>2, ConcatProperties
<1> QED
  BY <1>3 DEF InsertAt

(* EventQueue::schedule adds the event and keeps the others. *)
LEMMA ScheduledType ==
  ASSUME NEW S, NEW q \in Seq(S), NEW e \in S
  PROVE  Scheduled(q, e) \in Seq(S)
<1> DEFINE before == {i \in DOMAIN q : q[i].at <= e.at}
<1>1. DOMAIN q = 1 .. Len(q) /\ Len(q) \in Nat
  BY LenProperties
<1>2. IsFiniteSet(1 .. Len(q)) /\ Cardinality(1 .. Len(q)) = Len(q)
  BY <1>1, FS_Interval
<1>3. IsFiniteSet(before) /\ Cardinality(before) <= Len(q)
  BY <1>1, <1>2, FS_Subset
<1>4. Cardinality(before) + 1 \in 1 .. Len(q) + 1
  BY <1>1, <1>3, FS_CardinalityType
<1>5. InsertAt(q, Cardinality(before) + 1, e) \in Seq(S)
  BY <1>4, InsertAtType
<1> QED
  BY <1>5 DEF Scheduled

-----------------------------------------------------------------------------
(* The parts of the state. *)

LEMMA KnownKeys ==
  ASSUME TypeOK
  PROVE  /\ Len(fixups) \in Nat
         /\ Ops \subseteq Known
         /\ Known \subseteq Key
<1>1. fixups \in Seq(Ops) /\ Len(fixups) <= MaxFixups
  BY DEF TypeOK
<1>2. Len(fixups) \in Nat
  BY <1>1, LenProperties
<1> QED
  BY <1>1, <1>2, SizesAssumption DEF Ops, Known, Key

(* What the event at the head of the queue is about, by its type. *)
LEMMA HeadEvent ==
  ASSUME TypeOK, NEW t, Due(t)
  PROVE  /\ Tail(events) \in Seq(Event)
         /\ t \in {"produced", "failed"} => Head(events).id \in FactoryIds
         /\ t = "gate" => Head(events).id \in Known
         /\ t = "hook" => /\ Head(events).id \in HookedOps
                          /\ Head(events).outcome \in Outcomes
<1>1. Head(events) \in Event /\ Tail(events) \in Seq(Event)
  BY HeadTailProperties DEF TypeOK, Due
<1>2. Head(events).type = t
  BY DEF Due
<1> QED
  BY <1>1, <1>2 DEF Event, FactoryEvent, GateEvent, HookEvent

LEMMA FactoryOutcomeType ==
  ASSUME input \in Input, NEW f \in FactoryIds, NEW draw \in Draws, NEW at \in Nat
  PROVE  FactoryOutcome(f, draw, at) \in FactoryEvent
<1>1. draw \in [type : {"produced", "failed"}, delay : Nat]
  BY DEF Draws, Input
<1>2. at + draw.delay \in Nat
  BY <1>1
<1> QED
  BY <1>1, <1>2 DEF FactoryOutcome, FactoryEvent

(* start_factory puts the factory's next outcome into the queue. *)
LEMMA StartFactoryType ==
  ASSUME TypeOK, NEW t \in {"produced", "failed"}, Due(t),
         StartFactory(Head(events).id)
  PROVE  events' \in Seq(Event)
<1>1. PICK draw \in Draws :
        events' = Scheduled(Tail(events), FactoryOutcome(Head(events).id, draw, now))
  BY DEF StartFactory
<1>2. Head(events).id \in FactoryIds /\ Tail(events) \in Seq(Event)
  BY HeadEvent
<1>3. now \in Nat /\ input \in Input
  BY DEF TypeOK
<1>4. FactoryOutcome(Head(events).id, draw, now) \in Event
  BY <1>2, <1>3, FactoryOutcomeType DEF Event
<1> QED
  BY <1>1, <1>2, <1>4, ScheduledType

(* The cost of every operation in use is a number of cycles: a fixup's     *)
(* routing is that of the gate it repairs.                                 *)
LEMMA CostType ==
  ASSUME TypeOK, NEW k \in Known
  PROVE  TotalGateCost(k) \in Nat
<1>1. QubitsOf(k) \in Ops
  <2>1. CASE k \in Ops
    BY <2>1 DEF QubitsOf
  <2>2. CASE k \notin Ops
    <3>1. k - NumOps \in 1 .. Len(fixups)
      BY <2>2, SizesAssumption, KnownKeys DEF Known, Ops
    <3>2. fixups[k - NumOps] \in Ops
      BY <3>1, ElementOfSeq DEF TypeOK
    <3> QED
      BY <2>2, <3>2 DEF QubitsOf
  <2> QED
    BY <2>1, <2>2
<1>2. input.route[QubitsOf(k)] \in Nat
  BY <1>1 DEF TypeOK, Input
<1>3. BaseCost(k) \in Nat
  BY TimingAssumption DEF BaseCost
<1> QED
  BY <1>2, <1>3 DEF TotalGateCost

LEMMA GateCompletionType ==
  ASSUME TypeOK, NEW k \in Known
  PROVE  Scheduled(events, GateCompletion(k)) \in Seq(Event)
<1>1. now + TotalGateCost(k) \in Nat
  BY CostType DEF TypeOK
<1>2. GateCompletion(k) \in Event
  BY <1>1 DEF GateCompletion, Event, GateEvent
<1> QED
  BY <1>2, ScheduledType DEF TypeOK

(* The counts after release_successors and after activate_ops are counts. *)
LEMMA OccurrencesType ==
  ASSUME NEW S, NEW list \in Seq(S), NEW x
  PROVE  Occurrences(list, x) \in Nat
<1>1. DOMAIN list = 1 .. Len(list) /\ Len(list) \in Nat
  BY LenProperties
<1>2. IsFiniteSet(1 .. Len(list))
  BY <1>1, FS_Interval
<1>3. IsFiniteSet({i \in DOMAIN list : list[i] = x})
  BY <1>1, <1>2, FS_Subset
<1> QED
  BY <1>3, FS_CardinalityType DEF Occurrences

LEMMA ReleasedCountsType ==
  ASSUME NEW D, NEW counts \in [D -> Nat], NEW S, NEW list \in Seq(S)
  PROVE  ReleasedCounts(counts, list) \in [D -> Nat]
<1>1. \A k \in D : Occurrences(list, k) \in Nat
  BY OccurrencesType
<1> QED
  BY <1>1 DEF ReleasedCounts

LEMMA ActivatedCountsType ==
  ASSUME NEW counts \in [Key -> Nat], NEW keys \in Seq(Ops),
         NEW preds \in [Ops -> Seq(Ops)], NEW done
  PROVE  ActivatedCounts(counts, keys, preds, done) \in [Key -> Nat]
<1>1. ASSUME NEW k \in ToSet(keys)
      PROVE  LivePredecessors(preds[k], done) \in Nat
  <2>1. k \in Ops
    BY <1>1, ElementOfSeq, LenProperties DEF ToSet
  <2>2. DOMAIN preds[k] = 1 .. Len(preds[k]) /\ Len(preds[k]) \in Nat
    BY <2>1, LenProperties
  <2>3. IsFiniteSet(1 .. Len(preds[k]))
    BY <2>2, FS_Interval
  <2>4. IsFiniteSet({i \in DOMAIN preds[k] : preds[k][i] \notin done})
    BY <2>2, <2>3, FS_Subset
  <2> QED
    BY <2>4, FS_CardinalityType DEF LivePredecessors
<1> QED
  BY <1>1 DEF ActivatedCounts

(* What a hook activates, for a measurement that has one. *)
LEMMA TargetsType ==
  ASSUME TypeOK, NEW gate \in HookedOps, NEW o \in Outcomes
  PROVE  /\ gate \in Ops
         /\ input.targets[input.hook[gate]][o] \in Seq(Ops)
         /\ input.targets[input.hook[gate]][o] \in Seq(Known)
         /\ Len(input.targets[input.hook[gate]][o]) \in Nat
         /\ ToSet(input.targets[input.hook[gate]][o]) \subseteq Known
<1>1. input.hook[gate] \in HookIds
  BY DEF TypeOK, Input, HookedOps
<1>2. input.targets[input.hook[gate]][o] \in Seq(Ops)
  BY <1>1 DEF TypeOK, Input
<1>3. input.targets[input.hook[gate]][o] \in Seq(Known)
  BY <1>2, KnownKeys, SeqMonotonic
<1> QED
  BY <1>2, <1>3, ElementOfSeq, LenProperties DEF ToSet, HookedOps

-----------------------------------------------------------------------------
(* Type correctness. *)

LEMMA InOrderType ==
  ASSUME NEW n \in Nat, NEW I \in SUBSET (1 .. n), NEW f \in InOrder(I)
  PROVE  f \in Seq(1 .. n)
<1>1. IsFiniteSet(1 .. n)
  BY FS_Interval
<1>2. IsFiniteSet(I)
  BY <1>1, FS_Subset
<1>3. Cardinality(I) \in Nat
  BY <1>2, FS_CardinalityType
<1>4. f \in [1 .. Cardinality(I) -> 1 .. n]
  BY DEF InOrder
<1> QED
  BY <1>3, <1>4

LEMMA TypeInit == Init => TypeOK
<1> SUFFICES ASSUME Init PROVE TypeOK
  OBVIOUS
<1> USE SizesAssumption
<1>1. input \in Input /\ active \subseteq Ops
  BY InputsAssumption DEF Init, Input
<1>2. fixups = <<>> /\ Len(fixups) = 0 /\ Known = Ops /\ Ops \subseteq Key
  BY DEF Init, Known, Ops, Key
<1>3. pending \in [Key -> Nat]
  <2>1. \A k \in Key : PredsOf(k) \in Seq(Ops)
    BY <1>1 DEF PredsOf, Input
  <2>2. \A k \in Key : Len(PredsOf(k)) \in Nat
    BY <2>1, LenProperties
  <2> QED
    BY <2>2 DEF Init, PredecessorCount
<1>4. succs \in [Key -> Seq(Known)]
  BY <1>1, <1>2 DEF Init, Input
<1>5. ready \in Seq(Known)
  <2>1. InitialReadySet(pending, active) \in SUBSET (1 .. NumOps)
    BY <1>1 DEF InitialReadySet, Ops
  <2>2. ready \in InOrder(InitialReadySet(pending, active))
    BY DEF Init
  <2>3. ready \in Seq(1 .. NumOps)
    BY <2>1, <2>2, InOrderType
  <2> QED
    BY <1>2, <2>3 DEF Ops
<1>6. events \in Seq(Event)
  <2>1. PICK draw \in [FactoryIds -> Draws] :
          events \in [1 .. NumFactories ->
                        {FactoryOutcome(f, draw[f], 0) : f \in FactoryIds}]
    BY DEF Init
  <2>2. \A f \in FactoryIds : FactoryOutcome(f, draw[f], 0) \in Event
    BY <1>1, FactoryOutcomeType DEF Event
  <2>3. events \in [1 .. NumFactories -> Event]
    BY <2>1, <2>2
  <2> QED
    BY <2>3
<1>7. total \in Nat
  <2>1. IsFiniteSet(Ops)
    BY FS_Interval DEF Ops
  <2>2. IsFiniteSet(active)
    BY <1>1, <2>1, FS_Subset
  <2> QED
    BY <2>2, FS_CardinalityType DEF Init
<1>8. occupancy \in 0 .. Capacity
  BY DEF Init
<1> QED
  BY <1>1, <1>2, <1>3, <1>4, <1>5, <1>6, <1>7, <1>8 DEF Init, TypeOK

(* The two loops over the ready queue and the stalled queue hand a gate a *)
(* state and schedule its completion.                                      *)
LEMMA ServeType ==
  ASSUME TypeOK, NEW k \in Known, Serve(k)
  PROVE  /\ events' \in Seq(Event)
         /\ occupancy' \in 0 .. Capacity
         /\ consumed' \in Nat
         /\ enqueued' \in Nat
         /\ served' \in Seq(Known)
<1>1. events' \in Seq(Event)
  BY GateCompletionType DEF Serve
<1>2. served' \in Seq(Known)
  BY AppendProperties DEF Serve, TypeOK
<1> QED
  BY <1>1, <1>2, SizesAssumption DEF Serve, TypeOK

(* What release_successors leaves: the counts and the queue. *)
LEMMA ReleaseType ==
  ASSUME NEW D, NEW counts \in [D -> Nat], NEW S, NEW q \in Seq(S),
         NEW list \in Seq(S), NEW act, NEW r \in Pushed(q, list, ReleasedAt(counts, act, list))
  PROVE  /\ ReleasedCounts(counts, list) \in [D -> Nat]
         /\ r \in Seq(S)
<1>1. ReleasedAt(counts, act, list) \in SUBSET DOMAIN list
  BY DEF ReleasedAt
<1> QED
  BY <1>1, PushedType, ReleasedCountsType

(* The completion of any gate. *)
LEMMA CompletionType ==
  ASSUME TypeOK, Due("gate"), CountCompletion(Head(events).id)
  PROVE  /\ Head(events).id \in Known
         /\ Head(events).id \in Key
         /\ Tail(events) \in Seq(Event)
         /\ succs[Head(events).id] \in Seq(Known)
         /\ completed' \in Nat
         /\ finished' \subseteq Known
<1>1. Head(events).id \in Known /\ Tail(events) \in Seq(Event)
  BY HeadEvent
<1> QED
  BY <1>1, KnownKeys DEF TypeOK, CountCompletion

(* An injected fixup is a new key, so what was known stays known. *)
LEMMA InjectionType == TypeOK /\ InjectionError => TypeOK'
<1> SUFFICES ASSUME TypeOK, InjectionError PROVE TypeOK'
  OBVIOUS
<1> DEFINE gate == Head(events).id
           fixup == FixupKey(Len(fixups) + 1)
<1>1. Due("gate") /\ CountCompletion(gate) /\ NeedsMagicState(gate)
  BY DEF InjectionError
<1>2. gate \in Known /\ Tail(events) \in Seq(Event) /\ completed' \in Nat
        /\ finished' \subseteq Known
  BY <1>1, CompletionType
<1>3. gate \in Ops
  BY <1>1 DEF NeedsMagicState, KindOf
<1>4. fixups' = Append(fixups, gate) /\ Len(fixups) < MaxFixups
  BY DEF InjectionError
<1>5. /\ fixups' \in Seq(Ops)
      /\ Len(fixups') = Len(fixups) + 1
      /\ Len(fixups') <= MaxFixups
  BY <1>3, <1>4, KnownKeys, SizesAssumption, AppendProperties DEF TypeOK
<1>6. /\ Known \subseteq Known'
      /\ fixup \in Known'
      /\ fixup \in Key
  BY <1>5, <1>4, KnownKeys, SizesAssumption DEF Known, FixupKey, Key
<1>7. Event \subseteq Event'
  <2>1. UNCHANGED input
    BY DEF InjectionError
  <2> QED
    BY <1>6, <2>1 DEF Event, FactoryEvent, GateEvent, HookEvent, HookedOps
<1>8. events' \in Seq(Event)'
  BY <1>2, <1>7, SeqMonotonic DEF InjectionError
<1>9. ready' \in Seq(Known)'
  <2>1. ready \in Seq(Known')
    BY <1>6, SeqMonotonic DEF TypeOK
  <2> QED
    BY <1>6, <2>1, AppendProperties DEF InjectionError
<1>10. stalled' \in Seq([gate : Known, since : Nat])'
  <2>1. [gate : Known, since : Nat] \subseteq [gate : Known', since : Nat]
    BY <1>6
  <2> QED
    BY <2>1, SeqMonotonic DEF InjectionError, TypeOK
<1>11. served' \in Seq(Known)'
  <2>1. served \in Seq(Known) /\ served' = served
    BY DEF InjectionError, bufferVars, TypeOK
  <2> QED
    BY <1>6, <2>1, SeqMonotonic
<1>12. succs' \in [Key -> Seq(Known)]'
  <2>1. succs \in [Key -> Seq(Known')]
    BY <1>6, SeqMonotonic DEF TypeOK
  <2>2. gate \in Key
    BY <1>2, KnownKeys
  <2>3. succs' = [succs EXCEPT ![fixup] = succs[gate], ![gate] = <<fixup>>]
    BY DEF InjectionError, WithFixup
  <2>4. <<fixup>> \in Seq(Known')
    BY <1>6
  <2> QED
    BY <1>6, <2>1, <2>2, <2>3, <2>4
<1>13. active' \subseteq Known' /\ finished' \subseteq Known'
  BY <1>2, <1>6 DEF InjectionError, TypeOK
<1>14. pending' \in [Key -> Nat]
  BY <1>6 DEF InjectionError, TypeOK
<1>15. total' \in Nat
  BY DEF InjectionError, TypeOK
<1> QED
  BY <1>2, <1>5, <1>8, <1>9, <1>10, <1>11, <1>12, <1>13, <1>14, <1>15
  DEF InjectionError, bufferVars, TypeOK

LEMMA TypeNext == TypeOK /\ [Next]_vars => TypeOK'
<1> SUFFICES ASSUME TypeOK, [Next]_vars PROVE TypeOK'
  OBVIOUS
<1> USE DEF dagVars, bufferVars, countVars
<1>a. ASSUME UNCHANGED <<input, fixups>>
      PROVE  Known' = Known /\ HookedOps' = HookedOps /\ Event' = Event
  BY <1>a DEF Known, HookedOps, Event, FactoryEvent, GateEvent, HookEvent
<1>1. CASE Finish
  BY <1>1, <1>a DEF Finish, TypeOK
<1>2. CASE Truncate
  BY <1>2, <1>a DEF Truncate, TypeOK
<1>3. CASE BeginStep
  <2>1. Head(events) \in Event
    BY <1>3, HeadTailProperties DEF BeginStep, TypeOK
  <2>2. Head(events).at \in Nat
    BY <2>1 DEF Event, FactoryEvent, GateEvent, HookEvent
  <2> QED
    BY <1>3, <1>a, <2>2 DEF BeginStep, TypeOK
<1>4. CASE FactoryProduced
  <2>1. events' \in Seq(Event)
    BY <1>4, StartFactoryType DEF FactoryProduced
  <2>2. occupancy' \in 0 .. Capacity /\ enqueued' \in Nat
    BY <1>4, SizesAssumption DEF FactoryProduced, TypeOK
  <2> QED
    BY <1>4, <1>a, <2>1, <2>2 DEF FactoryProduced, TypeOK
<1>5. CASE FactoryFailed
  <2>1. events' \in Seq(Event)
    BY <1>5, StartFactoryType DEF FactoryFailed
  <2> QED
    BY <1>5, <1>a, <2>1 DEF FactoryFailed, TypeOK
<1>6. CASE InjectionError
  BY <1>6, InjectionType
<1>7. CASE GateCompleted
  <2>1. Due("gate") /\ CountCompletion(Head(events).id)
    BY <1>7 DEF GateCompleted
  <2>2. /\ Tail(events) \in Seq(Event)
        /\ succs[Head(events).id] \in Seq(Known)
        /\ completed' \in Nat
        /\ finished' \subseteq Known
    BY <2>1, CompletionType
  <2>3. pending' \in [Key -> Nat] /\ ready' \in Seq(Known)
    BY <1>7, <2>2, ReleaseType DEF GateCompleted, TypeOK
  <2> QED
    BY <1>7, <1>a, <2>2, <2>3 DEF GateCompleted, TypeOK
<1>8. CASE MeasuredDeferred
  <2> DEFINE gate == Head(events).id
  <2>1. Due("gate") /\ CountCompletion(gate) /\ gate \in HookedOps
    BY <1>8 DEF MeasuredDeferred, HookedOps
  <2>2. /\ Tail(events) \in Seq(Event)
        /\ succs[gate] \in Seq(Known)
        /\ completed' \in Nat
        /\ finished' \subseteq Known
    BY <2>1, CompletionType
  <2>3. pending' \in [Key -> Nat] /\ ready' \in Seq(Known)
    <3>1. /\ pending' = ReleasedCounts(pending, succs[gate])
          /\ ready' \in Pushed(ready, succs[gate], ReleasedAt(pending, active, succs[gate]))
      BY <1>8 DEF MeasuredDeferred
    <3>2. pending \in [Key -> Nat] /\ ready \in Seq(Known)
      BY DEF TypeOK
    <3> QED
      BY <2>2, <3>1, <3>2, ReleaseType
  <2>4. PICK o \in Outcomes :
          /\ total' = total + Len(input.targets[input.hook[gate]][o])
          /\ events' = Scheduled(Tail(events), [at |-> now + input.feedback,
                                   type |-> "hook", id |-> gate, outcome |-> o])
    BY <1>8 DEF MeasuredDeferred
  <2>5. total' \in Nat
    <3> DEFINE activated == Len(input.targets[input.hook[gate]][o])
    <3>1. activated \in Nat
      BY <2>1, TargetsType
    <3>2. total' = total + activated
      BY <2>4
    <3> HIDE DEF activated
    <3> QED
      BY <3>1, <3>2 DEF TypeOK
  <2>6. now + input.feedback \in Nat
    BY DEF TypeOK, Input
  <2>7. [at |-> now + input.feedback, type |-> "hook", id |-> gate, outcome |-> o]
           \in Event
    BY <2>1, <2>6 DEF Event, HookEvent
  <2>8. events' \in Seq(Event)
    BY <2>2, <2>4, <2>7, ScheduledType
  <2> QED
    BY <1>8, <1>a, <2>2, <2>3, <2>5, <2>8 DEF MeasuredDeferred, TypeOK
<1>9. CASE MeasuredInstant
  <2> DEFINE gate == Head(events).id
  <2>1. Due("gate") /\ CountCompletion(gate) /\ gate \in HookedOps
    BY <1>9 DEF MeasuredInstant, HookedOps
  <2>2. /\ Tail(events) \in Seq(Event)
        /\ succs[gate] \in Seq(Known)
        /\ completed' \in Nat
        /\ finished' \subseteq Known
    BY <2>1, CompletionType
  <2>3. PICK o \in Outcomes :
          LET keys == input.targets[input.hook[gate]][o]
              counts == ActivatedCounts(pending, keys, input.preds, CompletedSet')
          IN  /\ total' = total + Len(keys)
              /\ active' = active \cup ToSet(keys)
              /\ pending' = ReleasedCounts(counts, succs[gate])
              /\ \E q \in Pushed(ready, keys,
                                 ActivatedAt(keys, input.preds, CompletedSet')) :
                   ready' \in Pushed(q, succs[gate],
                                     ReleasedAt(counts, active', succs[gate]))
    BY <1>9 DEF MeasuredInstant
  <2> DEFINE keys == input.targets[input.hook[gate]][o]
             counts == ActivatedCounts(pending, keys, input.preds, CompletedSet')
  <2>4. /\ keys \in Seq(Ops) /\ keys \in Seq(Known)
        /\ Len(keys) \in Nat /\ ToSet(keys) \subseteq Known
    BY <2>1, TargetsType
  <2>5. counts \in [Key -> Nat]
    BY <2>4, ActivatedCountsType DEF TypeOK, Input
  <2>6. PICK q \in Pushed(ready, keys, ActivatedAt(keys, input.preds, CompletedSet')) :
          ready' \in Pushed(q, succs[gate], ReleasedAt(counts, active', succs[gate]))
    BY <2>3
  <2>7. ActivatedAt(keys, input.preds, CompletedSet') \in SUBSET DOMAIN keys
    BY DEF ActivatedAt
  <2>8. q \in Seq(Known)
    BY <2>4, <2>7, PushedType DEF TypeOK
  <2>9. ready' \in Seq(Known) /\ pending' \in [Key -> Nat]
    <3>1. pending' = ReleasedCounts(counts, succs[gate])
      BY <2>3
    <3>2. ReleasedCounts(counts, succs[gate]) \in [Key -> Nat]
      BY <2>2, <2>5, ReleasedCountsType
    <3>3. ReleasedAt(counts, active', succs[gate]) \in SUBSET DOMAIN succs[gate]
      BY DEF ReleasedAt
    <3>4. ready' \in Seq(Known)
      BY <2>2, <2>6, <2>8, <3>3, PushedType
    <3> QED
      BY <3>1, <3>2, <3>4
  <2>10. total' \in Nat /\ active' \subseteq Known
    <3>1. total' = total + Len(keys) /\ active' = active \cup ToSet(keys)
      BY <2>3
    <3> HIDE DEF keys
    <3> QED
      BY <3>1, <2>4 DEF TypeOK
  <2> QED
    BY <1>9, <1>a, <2>2, <2>9, <2>10 DEF MeasuredInstant, TypeOK
<1>10. CASE HookActivation
  <2> DEFINE gate == Head(events).id
             keys == input.targets[input.hook[gate]][Head(events).outcome]
  <2>1. gate \in HookedOps /\ Head(events).outcome \in Outcomes
          /\ Tail(events) \in Seq(Event)
    BY <1>10, HeadEvent DEF HookActivation
  <2>2. keys \in Seq(Ops) /\ keys \in Seq(Known) /\ ToSet(keys) \subseteq Known
    BY <2>1, TargetsType
  <2>3. pending' \in [Key -> Nat]
    BY <1>10, <2>2, ActivatedCountsType DEF HookActivation, TypeOK, Input
  <2>4. ActivatedAt(keys, input.preds, CompletedSet) \in SUBSET DOMAIN keys
    BY DEF ActivatedAt
  <2>5. ready' \in Seq(Known)
    BY <1>10, <2>2, <2>4, PushedType DEF HookActivation, TypeOK
  <2> QED
    BY <1>10, <1>a, <2>1, <2>2, <2>3, <2>5 DEF HookActivation, TypeOK
<1>11. CASE EndEvents
  BY <1>11, <1>a DEF EndEvents, TypeOK
<1>12. CASE ServeStalled
  <2>1. /\ Head(stalled) \in [gate : Known, since : Nat]
        /\ Tail(stalled) \in Seq([gate : Known, since : Nat])
    BY <1>12, HeadTailProperties DEF ServeStalled, TypeOK
  <2>2. Head(stalled).gate \in Known /\ Serve(Head(stalled).gate)
    BY <1>12, <2>1 DEF ServeStalled
  <2> QED
    BY <1>12, <1>a, <2>1, <2>2, ServeType DEF ServeStalled, TypeOK
<1>13. CASE EndServe
  BY <1>13, <1>a DEF EndServe, TypeOK
<1>14. CASE ServeReady
  <2>1. Head(ready) \in Known /\ Tail(ready) \in Seq(Known)
    BY <1>14, HeadTailProperties DEF ServeReady, TypeOK
  <2>2. Serve(Head(ready))
    BY <1>14 DEF ServeReady
  <2> QED
    BY <1>14, <1>a, <2>1, <2>2, ServeType DEF ServeReady, TypeOK
<1>15. CASE StallReady
  <2>1. Head(ready) \in Known /\ Tail(ready) \in Seq(Known)
    BY <1>15, HeadTailProperties DEF StallReady, TypeOK
  <2>2. [gate |-> Head(ready), since |-> now] \in [gate : Known, since : Nat]
    BY <2>1 DEF TypeOK
  <2>3. stalled' \in Seq([gate : Known, since : Nat])
    BY <1>15, <2>2, AppendProperties DEF StallReady, TypeOK
  <2> QED
    BY <1>15, <1>a, <2>1, <2>3 DEF StallReady, TypeOK
<1>16. CASE ScheduleReady
  <2>1. Head(ready) \in Known /\ Tail(ready) \in Seq(Known)
    BY <1>16, HeadTailProperties DEF ScheduleReady, TypeOK
  <2>2. events' \in Seq(Event)
    BY <1>16, <2>1, GateCompletionType DEF ScheduleReady
  <2> QED
    BY <1>16, <1>a, <2>1, <2>2 DEF ScheduleReady, TypeOK
<1>17. CASE EndStep
  BY <1>17, <1>a DEF EndStep, TypeOK
<1>18. CASE Returned \/ UNCHANGED vars
  BY <1>18, <1>a DEF Returned, vars, TypeOK
<1> QED
  BY <1>1, <1>2, <1>3, <1>4, <1>5, <1>6, <1>7, <1>8, <1>9, <1>10, <1>11, <1>12,
     <1>13, <1>14, <1>15, <1>16, <1>17, <1>18 DEF Next

(* Whatever the circuit, the hardware and the draws: the state of the      *)
(* engine stays well-typed, the buffer within its capacity, and every key  *)
(* in a queue or a successor list is the key of an existing operation.     *)
THEOREM TypeCorrect == Spec => []TypeOK
BY TypeInit, TypeNext, PTL DEF Spec

-----------------------------------------------------------------------------
(* Magic states. *)

(* Each state that was in the buffer at the start or recorded as enqueued  *)
(* is in the buffer or was consumed by one served gate: the update of the  *)
(* occupancy, the counter and the trace records go together on every path  *)
(* of process_event, try_serve_stalled_gates and schedule_ready_gates.     *)
LEMMA ConservedStep == TypeOK /\ StatesConserved /\ [Next]_vars => StatesConserved'
<1> SUFFICES ASSUME TypeOK, StatesConserved, [Next]_vars PROVE StatesConserved'
  OBVIOUS
<1> USE DEF StatesConserved, InitialStock
<1>1. CASE FactoryProduced
  <2>1. /\ occupancy \in Nat /\ consumed \in Nat /\ enqueued \in Nat
        /\ InitialStock \in Nat /\ Len(served) \in Nat
    BY SizesAssumption, LenProperties DEF TypeOK
  <2>2. /\ consumed' = consumed /\ served' = served /\ input' = input
        /\ \/ occupancy' = occupancy + 1 /\ enqueued' = enqueued + 1
           \/ occupancy' = occupancy /\ enqueued' = enqueued
    BY <1>1 DEF FactoryProduced
  <2>3. InitialStock' = InitialStock
    BY <2>2
  <2> HIDE DEF InitialStock
  <2> QED
    BY <2>1, <2>2, <2>3
<1>2. ASSUME NEW k \in Known, Serve(k)
      PROVE  StatesConserved'
  <2>1. Len(served') = Len(served) + 1
    BY <1>2, AppendProperties DEF Serve, TypeOK
  <2>2. /\ occupancy' = occupancy - 1
        /\ consumed' = consumed + 1
        /\ enqueued' = enqueued
    BY <1>2 DEF Serve
  <2>3. /\ occupancy \in Nat /\ consumed \in Nat /\ enqueued \in Nat
        /\ InitialStock \in Nat
    BY SizesAssumption DEF TypeOK
  <2> HIDE DEF InitialStock
  <2> QED
    BY <2>1, <2>2, <2>3
<1>3. CASE ServeStalled
  <2>1. Head(stalled) \in [gate : Known, since : Nat]
    BY <1>3, HeadTailProperties DEF ServeStalled, TypeOK
  <2>2. Head(stalled).gate \in Known /\ Serve(Head(stalled).gate)
    BY <1>3, <2>1 DEF ServeStalled
  <2> QED
    BY <1>2, <2>2
<1>4. CASE ServeReady
  <2>1. ready \in Seq(Known) /\ ready # <<>>
    BY <1>4 DEF ServeReady, TypeOK
  <2>2. Head(ready) \in Known
    BY <2>1, HeadTailProperties
  <2>3. Serve(Head(ready))
    BY <1>4 DEF ServeReady
  <2> QED
    BY <1>2, <2>2, <2>3
<1>5. CASE UNCHANGED bufferVars
  BY <1>5 DEF bufferVars
<1> QED
  BY <1>1, <1>3, <1>4, <1>5
  DEF Next, vars, Finish, Truncate, BeginStep, FactoryFailed, InjectionError,
      GateCompleted, MeasuredDeferred, MeasuredInstant, HookActivation, EndEvents,
      EndServe, StallReady, ScheduleReady, EndStep, Returned

THEOREM Conservation == Spec => []StatesConserved
<1>1. Init => StatesConserved
  BY SizesAssumption DEF Init, StatesConserved, InitialStock
<1> QED
  BY <1>1, ConservedStep, TypeCorrect, PTL DEF Spec

(* No gate is left waiting beside a state: phase 2 ends only when one of   *)
(* the two is exhausted, phase 3 stalls a gate only without states, and    *)
(* only phase 1 adds states.                                               *)
LEMMA NoIdleStockStep == TypeOK /\ NoIdleStock /\ [Next]_vars => NoIdleStock'
<1> SUFFICES ASSUME TypeOK, NoIdleStock, [Next]_vars PROVE NoIdleStock'
  OBVIOUS
<1> USE DEF NoIdleStock
<1>1. CASE FactoryProduced \/ ServeStalled
  BY <1>1 DEF FactoryProduced, ServeStalled, Due
<1>2. CASE EndServe
  BY <1>2 DEF EndServe, bufferVars
<1>3. CASE ServeReady
  BY <1>3 DEF ServeReady, Serve
<1>4. CASE StallReady
  BY <1>4 DEF StallReady, bufferVars
<1>5. CASE BeginStep \/ EndEvents
  BY <1>5 DEF BeginStep, EndEvents
<1>6. CASE pc = "events" /\ UNCHANGED pc
  BY <1>6
<1>7. CASE /\ pc \notin {"events", "serve"}
           /\ UNCHANGED <<stalled, occupancy>>
  BY <1>7
<1>8. CASE UNCHANGED vars
  BY <1>8 DEF vars, bufferVars
<1> QED
  BY <1>1, <1>2, <1>3, <1>4, <1>5, <1>6, <1>7, <1>8
  DEF Next, bufferVars, Finish, Truncate, FactoryFailed, InjectionError,
      GateCompleted, MeasuredDeferred, MeasuredInstant, HookActivation, Due,
      ScheduleReady, EndStep, Returned

THEOREM NoGateWaitsBesideAState == Spec => []NoIdleStock
<1>1. Init => NoIdleStock
  BY DEF Init, NoIdleStock
<1> QED
  BY <1>1, NoIdleStockStep, TypeCorrect, PTL DEF Spec

-----------------------------------------------------------------------------
(* The engine implements the magic-state supply. *)

GatesOf(q) == [i \in DOMAIN q |-> q[i].gate]

(* Taking gates commutes with the operations of the stalled queue. *)
LEMMA GatesOfQueue ==
  ASSUME NEW K, NEW q \in Seq([gate : K, since : Nat])
  PROVE  /\ GatesOf(q) \in Seq(K)
         /\ Len(GatesOf(q)) = Len(q)
         /\ GatesOf(q) = <<>> <=> q = <<>>
<1>1. DOMAIN q = 1 .. Len(q) /\ Len(q) \in Nat
  BY LenProperties
<1>2. \A i \in 1 .. Len(q) : q[i] \in [gate : K, since : Nat]
  BY ElementOfSeq
<1>3. GatesOf(q) \in [1 .. Len(q) -> K]
  BY <1>1, <1>2 DEF GatesOf
<1>4. GatesOf(q) \in Seq(K) /\ Len(GatesOf(q)) = Len(q)
  BY <1>1, <1>3
<1> QED
  BY <1>4, EmptySeq

LEMMA GatesOfTail ==
  ASSUME NEW K, NEW q \in Seq([gate : K, since : Nat]), q # <<>>
  PROVE  /\ Head(GatesOf(q)) = Head(q).gate
         /\ GatesOf(Tail(q)) = Tail(GatesOf(q))
<1> DEFINE R == [gate : K, since : Nat]
           g == GatesOf(q)
<1>1. DOMAIN q = 1 .. Len(q) /\ Len(q) \in Nat \ {0}
  BY LenProperties, EmptySeq
<1>2. g \in Seq(K) /\ Len(g) = Len(q) /\ g # <<>>
  BY GatesOfQueue
<1>3. Head(g) = Head(q).gate
  BY <1>1, <1>2 DEF GatesOf
<1>4. /\ Tail(q) \in Seq(R)
      /\ Len(Tail(q)) = Len(q) - 1
      /\ \A i \in 1 .. Len(Tail(q)) : Tail(q)[i] = q[i + 1]
  BY HeadTailProperties
<1>5. /\ Tail(g) \in Seq(K)
      /\ Len(Tail(g)) = Len(g) - 1
      /\ \A i \in 1 .. Len(Tail(g)) : Tail(g)[i] = g[i + 1]
  BY <1>2, HeadTailProperties
<1>6. GatesOf(Tail(q)) \in Seq(K) /\ Len(GatesOf(Tail(q))) = Len(q) - 1
  BY <1>4, GatesOfQueue
<1>7. ASSUME NEW i \in 1 .. Len(q) - 1
      PROVE  GatesOf(Tail(q))[i] = Tail(g)[i]
  <2>1. DOMAIN Tail(q) = 1 .. Len(q) - 1
    BY <1>4, LenProperties
  <2>2. GatesOf(Tail(q))[i] = q[i + 1].gate
    BY <1>4, <2>1 DEF GatesOf
  <2>3. i + 1 \in 1 .. Len(q)
    BY <1>1
  <2>4. g[i + 1] = q[i + 1].gate
    BY <1>1, <2>3 DEF GatesOf
  <2> QED
    BY <1>2, <1>5, <2>2, <2>4
<1>8. GatesOf(Tail(q)) = Tail(g)
  <2> HIDE DEF g
  <2> QED
    BY <1>2, <1>5, <1>6, <1>7, SeqEqual
<1> QED
  BY <1>3, <1>8

LEMMA GatesOfAppend ==
  ASSUME NEW K, NEW q \in Seq([gate : K, since : Nat]), NEW e \in [gate : K, since : Nat]
  PROVE  GatesOf(Append(q, e)) = Append(GatesOf(q), e.gate)
<1> DEFINE R == [gate : K, since : Nat]
           g == GatesOf(q)
           a == GatesOf(Append(q, e))
<1>1. DOMAIN q = 1 .. Len(q) /\ Len(q) \in Nat
  BY LenProperties
<1>2. g \in Seq(K) /\ Len(g) = Len(q)
  BY GatesOfQueue
<1>3. /\ Append(q, e) \in Seq(R)
      /\ Len(Append(q, e)) = Len(q) + 1
      /\ \A i \in 1 .. Len(q) : Append(q, e)[i] = q[i]
      /\ Append(q, e)[Len(q) + 1] = e
  BY AppendProperties
<1>4. /\ Append(g, e.gate) \in Seq(K)
      /\ Len(Append(g, e.gate)) = Len(q) + 1
      /\ \A i \in 1 .. Len(q) : Append(g, e.gate)[i] = g[i]
      /\ Append(g, e.gate)[Len(q) + 1] = e.gate
  BY <1>2, AppendProperties
<1>5. a \in Seq(K) /\ Len(a) = Len(q) + 1
  BY <1>3, GatesOfQueue
<1>6. ASSUME NEW i \in 1 .. Len(q) + 1
      PROVE  a[i] = Append(g, e.gate)[i]
  <2>1. DOMAIN Append(q, e) = 1 .. Len(q) + 1
    BY <1>3, LenProperties
  <2>2. a[i] = Append(q, e)[i].gate
    BY <2>1 DEF GatesOf
  <2>3. CASE i \in 1 .. Len(q)
    <3>1. g[i] = q[i].gate
      BY <1>1, <2>3 DEF GatesOf
    <3>2. Append(g, e.gate)[i] = g[i] /\ Append(q, e)[i] = q[i]
      BY <1>3, <1>4, <2>3
    <3> QED
      BY <2>2, <3>1, <3>2
  <2>4. CASE i = Len(q) + 1
    <3>1. Append(g, e.gate)[i] = e.gate /\ Append(q, e)[i] = e
      BY <1>3, <1>4, <2>4
    <3> QED
      BY <2>2, <3>1
  <2>5. i \in 1 .. Len(q) \/ i = Len(q) + 1
    BY <1>1
  <2> HIDE DEF a, g
  <2> QED
    BY <2>3, <2>4, <2>5
<1> HIDE DEF a, g
<1>7. a = Append(g, e.gate)
  BY <1>4, <1>5, <1>6, SeqEqual
<1> QED
  BY <1>7 DEF a, g

(* Every step of the engine is a step of the supply or leaves it alone.    *)
(* NoIdleStock gives AskAndGrant its guard: in phase 3 a state in the      *)
(* buffer means that no gate is waiting, so a ready gate overtakes nobody. *)
LEMMA SupplyStep == TypeOK /\ NoIdleStock /\ [Next]_vars
                      => [Supply!SupplyNext]_(Supply!supplyVars)
<1> SUFFICES ASSUME TypeOK, NoIdleStock, [Next]_vars
             PROVE  [Supply!SupplyNext]_(Supply!supplyVars)
  OBVIOUS
<1> DEFINE waiting == GatesOf(stalled)
           waitingNext == GatesOf(stalled')
<1>1. stalled \in Seq([gate : Known, since : Nat])
  BY DEF TypeOK
<1>2. CASE UNCHANGED <<occupancy, served, stalled>>
  BY <1>2 DEF Supply!supplyVars
<1>3. CASE FactoryProduced
  <2>1. UNCHANGED <<served, stalled>>
    BY <1>3 DEF FactoryProduced
  <2>2. CASE occupancy < Capacity
    <3>1. occupancy' = occupancy + 1
      BY <1>3, <2>2 DEF FactoryProduced
    <3>2. Supply!Replenish
      BY <2>1, <2>2, <3>1 DEF Supply!Replenish
    <3> QED
      BY <3>2 DEF Supply!SupplyNext
  <2>3. CASE ~(occupancy < Capacity)
    BY <1>2, <1>3, <2>1, <2>3 DEF FactoryProduced
  <2> QED
    BY <2>2, <2>3
<1>4. CASE ServeStalled
  <2>1. stalled # <<>> /\ Serve(Head(stalled).gate) /\ stalled' = Tail(stalled)
    BY <1>4 DEF ServeStalled
  <2>2. waiting # <<>>
    BY <1>1, <2>1, GatesOfQueue
  <2>3. Head(waiting) = Head(stalled).gate /\ waitingNext = Tail(waiting)
    BY <1>1, <2>1, GatesOfTail
  <2>4. occupancy > 0 /\ occupancy' = occupancy - 1
    BY <2>1 DEF Serve
  <2>5. served' = Append(served, Head(waiting))
    BY <2>1, <2>3 DEF Serve
  <2>6. Supply!Grant
    BY <2>2, <2>3, <2>4, <2>5 DEF Supply!Grant, GatesOf
  <2> QED
    BY <2>6 DEF Supply!SupplyNext
<1>5. CASE ServeReady
  <2>1. Head(ready) \in Key
    <3>1. ready \in Seq(Known) /\ ready # <<>>
      BY <1>5 DEF ServeReady, TypeOK
    <3> QED
      BY <3>1, HeadTailProperties, KnownKeys
  <2>2. Serve(Head(ready)) /\ UNCHANGED stalled
    BY <1>5 DEF ServeReady
  <2>3. stalled = <<>>
    BY <1>5, <2>2 DEF ServeReady, NoIdleStock, Serve
  <2>4. waiting = <<>>
    BY <1>1, <2>3, GatesOfQueue
  <2>5. Supply!AskAndGrant(Head(ready))
    BY <2>2, <2>4 DEF Supply!AskAndGrant, Serve, GatesOf
  <2> QED
    BY <2>1, <2>5 DEF Supply!SupplyNext
<1>6. CASE StallReady
  <2>1. Head(ready) \in Known
    <3>1. ready \in Seq(Known) /\ ready # <<>>
      BY <1>6 DEF StallReady, TypeOK
    <3> QED
      BY <3>1, HeadTailProperties
  <2> DEFINE e == [gate |-> Head(ready), since |-> now]
  <2>2. /\ occupancy = 0 /\ UNCHANGED <<occupancy, served>>
        /\ stalled' = Append(stalled, e)
    BY <1>6 DEF StallReady, bufferVars
  <2>3. e \in [gate : Known, since : Nat]
    BY <2>1 DEF TypeOK
  <2>4. waitingNext = Append(waiting, e.gate)
    BY <1>1, <2>2, <2>3, GatesOfAppend
  <2>5. PICK g \in Key : g = Head(ready)
    BY <2>1, KnownKeys
  <2>6. Supply!Ask(g)
    BY <2>2, <2>4, <2>5 DEF Supply!Ask, GatesOf
  <2> HIDE DEF e, waiting, waitingNext
  <2> QED
    BY <2>6 DEF Supply!SupplyNext
<1> QED
  BY <1>2, <1>3, <1>4, <1>5, <1>6
  DEF Next, vars, bufferVars, Finish, Truncate, BeginStep, FactoryFailed,
      InjectionError, GateCompleted, MeasuredDeferred, MeasuredInstant,
      HookActivation, EndEvents, EndServe, ScheduleReady, EndStep, Returned

(* try_serve_stalled_gates and schedule_ready_gates together hand out the  *)
(* states first come, first served: the engine implements MagicSupply.     *)
THEOREM ImplementsSupply == Spec => ServesInOrder
<1>1. Init => Supply!SupplyInit
  <2> SUFFICES ASSUME Init PROVE Supply!SupplyInit
    OBVIOUS
  <2>1. stalled = <<>> /\ served = <<>> /\ occupancy = InitialStock
    BY DEF Init, InitialStock
  <2>2. stalled \in Seq([gate : Known, since : Nat])
    BY <2>1
  <2>3. GatesOf(stalled) = <<>>
    BY <2>1, <2>2, GatesOfQueue
  <2> QED
    BY <2>1, <2>3 DEF Supply!SupplyInit, GatesOf
<1> QED
  BY <1>1, SupplyStep, TypeCorrect, NoGateWaitsBesideAState, PTL
  DEF Spec, ServesInOrder, Supply!SupplySpec

-----------------------------------------------------------------------------
(* Sequences ordered by time. *)

(* The events of q in order of their cycles, the first not before t. *)
OrderedFrom(q, t) ==
  /\ \A i \in DOMAIN q : q[i].at >= t
  /\ \A i, j \in DOMAIN q : i < j => q[i].at <= q[j].at

LEMMA LeastNumber ==
  ASSUME NEW T \in SUBSET Nat, T # {}
  PROVE  \E m \in T : \A n \in T : m <= n
<1>1. PICK m \in T : \A n \in T : ~(<<n, m>> \in OpToRel(<, Nat))
  BY NatLessThanWellFounded, WFMin
<1>2. \A n \in T : ~(n < m)
  BY <1>1 DEF OpToRel
<1> QED
  BY <1>2

(* r is q with e at place p. *)
Inserted(r, q, p, e) ==
  /\ Len(r) = Len(q) + 1
  /\ \A j \in 1 .. Len(q) + 1 :
       r[j] = IF j < p THEN q[j] ELSE IF j = p THEN e ELSE q[j - 1]

LEMMA InsertAtElements ==
  ASSUME NEW S, NEW q \in Seq(S), NEW p \in 1 .. Len(q) + 1, NEW e \in S
  PROVE  InsertAt(q, p, e) \in Seq(S) /\ Inserted(InsertAt(q, p, e), q, p, e)
<1> DEFINE front == SubSeq(q, 1, p - 1)
           back == SubSeq(q, p, Len(q))
<1>0. Len(q) \in Nat
  BY LenProperties
<1>1. /\ front \in Seq(S) /\ Len(front) = p - 1
      /\ \A j \in 1 .. p - 1 : front[j] = q[j]
  <2>1. \A j \in 1 .. p - 1 : q[j] \in S
    BY ElementOfSeq
  <2> QED
    BY <1>0, <2>1, SubSeqProperties
<1>2. /\ back \in Seq(S) /\ Len(back) = Len(q) - p + 1
      /\ \A j \in 1 .. Len(q) - p + 1 : back[j] = q[p + j - 1]
  <2>1. \A j \in p .. Len(q) : q[j] \in S
    BY ElementOfSeq
  <2> QED
    BY <1>0, <2>1, SubSeqProperties
<1>3. InsertAt(q, p, e) = (front \o <<e>>) \o back
  BY DEF InsertAt
<1> HIDE DEF front, back
<1>4. /\ front \o <<e>> \in Seq(S) /\ Len(front \o <<e>>) = p
      /\ \A j \in 1 .. p : (front \o <<e>>)[j] = IF j < p THEN q[j] ELSE e
  BY <1>1
<1> DEFINE start == front \o <<e>>
<1>5. /\ start \o back \in Seq(S) /\ Len(start \o back) = Len(q) + 1
      /\ \A j \in 1 .. Len(q) + 1 :
           (start \o back)[j] = IF j <= p THEN start[j] ELSE back[j - p]
  <2> HIDE DEF start
  <2>1. start \in Seq(S) /\ Len(start) = p
    BY <1>4 DEF start
  <2>2. start \o back \in Seq(S) /\ Len(start \o back) = Len(start) + Len(back)
    BY <2>1, <1>2, ConcatProperties
  <2>3. \A j \in 1 .. Len(start) + Len(back) :
          (start \o back)[j] = IF j <= Len(start) THEN start[j] ELSE back[j - Len(start)]
    BY <2>1, <1>2, ConcatProperties
  <2>4. Len(start) + Len(back) = Len(q) + 1
    BY <2>1, <1>0, <1>2
  <2> QED
    BY <2>1, <2>2, <2>3, <2>4
<1>6. \A j \in 1 .. Len(q) + 1 : j > p => back[j - p] = q[j - 1]
  <2> TAKE j \in 1 .. Len(q) + 1
  <2> HAVE j > p
  <2>1. j - p \in 1 .. Len(q) - p + 1 /\ p + (j - p) - 1 = j - 1
    BY <1>0
  <2> QED
    BY <1>2, <2>1
<1> QED
  BY <1>0, <1>3, <1>4, <1>5, <1>6 DEF Inserted

(* In an ordered queue the events not after a cycle are the first ones. *)
LEMMA FirstOnes ==
  ASSUME NEW q \in Seq(Event), NEW t \in Nat, OrderedFrom(q, 0), NEW u \in Nat
  PROVE  LET before == {i \in DOMAIN q : q[i].at <= u}
         IN  /\ Cardinality(before) \in 0 .. Len(q)
             /\ before = 1 .. Cardinality(before)
<1> DEFINE before == {i \in DOMAIN q : q[i].at <= u}
<1>1. DOMAIN q = 1 .. Len(q) /\ Len(q) \in Nat
  BY LenProperties
<1>2. \A i \in DOMAIN q : q[i].at \in Nat
  <2>1. \A i \in DOMAIN q : q[i] \in Event
    BY <1>1, ElementOfSeq
  <2> QED
    BY <2>1 DEF Event, FactoryEvent, GateEvent, HookEvent
<1>3. SUFFICES \E c \in 0 .. Len(q) : before = 1 .. c
  <2>1. \A c \in 0 .. Len(q) : Cardinality(1 .. c) = c
    BY <1>1, FS_Interval
  <2> QED
    BY <2>1
<1>4. CASE before = DOMAIN q
  BY <1>1, <1>4
<1>5. CASE before # DOMAIN q
  <2>1. DOMAIN q \ before # {} /\ DOMAIN q \ before \subseteq Nat
    BY <1>1, <1>5
  <2>2. PICK m \in DOMAIN q \ before : \A n \in DOMAIN q \ before : m <= n
    BY <2>1, LeastNumber
  <2>3. \A i \in DOMAIN q : i < m => i \in before
    BY <1>1, <2>2
  <2>4. \A i \in DOMAIN q : i >= m => i \notin before
    BY <1>1, <1>2, <2>2 DEF OrderedFrom
  <2>5. before = 1 .. m - 1
    BY <1>1, <2>2, <2>3, <2>4
  <2> QED
    BY <1>1, <2>2, <2>5
<1> QED
  BY <1>4, <1>5

LEMMA EventTime == \A x \in Event : x.at \in Nat
BY DEF Event, FactoryEvent, GateEvent, HookEvent

(* EventQueue::schedule keeps the order; what it adds is the event only. *)
LEMMA ScheduledKeeps ==
  ASSUME NEW q \in Seq(Event), NEW t \in Nat, OrderedFrom(q, t),
         NEW e \in Event, e.at >= t
  PROVE  /\ OrderedFrom(Scheduled(q, e), t)
         /\ \A i \in DOMAIN Scheduled(q, e) :
              \/ Scheduled(q, e)[i] = e
              \/ \E j \in DOMAIN q : Scheduled(q, e)[i] = q[j]
<1> DEFINE before == {i \in DOMAIN q : q[i].at <= e.at}
           c == Cardinality(before)
           p == c + 1
           r == InsertAt(q, p, e)
<1>1. DOMAIN q = 1 .. Len(q) /\ Len(q) \in Nat
  BY LenProperties
<1>2. \A i \in DOMAIN q : q[i] \in Event /\ q[i].at \in Nat
  BY <1>1, ElementOfSeq, EventTime
<1>3. e.at \in Nat
  BY EventTime
<1>4. /\ p \in 1 .. Len(q) + 1
      /\ \A i \in 1 .. Len(q) : i < p <=> i \in before
  <2>1. OrderedFrom(q, 0)
    BY <1>2 DEF OrderedFrom
  <2>2. c \in 0 .. Len(q) /\ before = 1 .. c
    BY <2>1, <1>3, FirstOnes
  <2> HIDE DEF before, c
  <2> QED
    BY <1>1, <2>2
<1>5. /\ r \in Seq(Event) /\ Len(r) = Len(q) + 1
      /\ \A j \in 1 .. Len(q) + 1 :
           r[j] = IF j < p THEN q[j] ELSE IF j = p THEN e ELSE q[j - 1]
  <2> HIDE DEF before, c, p
  <2>1. r \in Seq(Event) /\ Inserted(r, q, p, e)
    BY <1>4, InsertAtElements
  <2> QED
    BY <2>1 DEF Inserted
<1>6. \A i \in 1 .. Len(q) : i < p <=> q[i].at <= e.at
  <2>1. \A i \in 1 .. Len(q) : i \in before <=> q[i].at <= e.at
    BY <1>1
  <2> HIDE DEF before, c, p
  <2> QED
    BY <1>4, <2>1
<1> HIDE DEF before, c, p, r
<1>7. DOMAIN r = 1 .. Len(q) + 1
  BY <1>5, LenProperties
<1>8. \A i \in DOMAIN r : r[i] = e \/ \E j \in DOMAIN q : r[i] = q[j]
  <2> SUFFICES ASSUME NEW i \in 1 .. Len(q) + 1, i # p
               PROVE  \E j \in DOMAIN q : r[i] = q[j]
    BY <1>4, <1>5, <1>7
  <2>1. CASE i < p
    BY <1>1, <1>4, <1>5, <2>1
  <2>2. CASE i > p
    <3>1. i - 1 \in DOMAIN q /\ r[i] = q[i - 1]
      BY <1>1, <1>4, <1>5, <2>2
    <3> QED
      BY <3>1
  <2> QED
    BY <1>4, <2>1, <2>2
<1>9. \A i \in DOMAIN r : r[i].at >= t
  BY <1>8 DEF OrderedFrom
<1>10. \A i, j \in DOMAIN r : i < j => r[i].at <= r[j].at
  <2> SUFFICES ASSUME NEW i \in 1 .. Len(q) + 1, NEW j \in 1 .. Len(q) + 1, i < j
               PROVE  r[i].at <= r[j].at
    BY <1>7
  <2>1. CASE j < p
    <3>1. r[i] = q[i] /\ r[j] = q[j] /\ i \in DOMAIN q /\ j \in DOMAIN q
      BY <1>1, <1>4, <1>5, <2>1
    <3> QED
      BY <3>1 DEF OrderedFrom
  <2>2. CASE j = p
    <3>1. r[i] = q[i] /\ r[j] = e /\ i \in 1 .. Len(q) /\ i < p
      BY <1>1, <1>4, <1>5, <2>2
    <3> QED
      BY <3>1, <1>6
  <2>3. CASE j > p /\ i < p
    <3>1. /\ r[i] = q[i] /\ r[j] = q[j - 1]
          /\ i \in 1 .. Len(q) /\ j - 1 \in 1 .. Len(q) /\ i < p /\ ~(j - 1 < p)
      BY <1>1, <1>4, <1>5, <2>3
    <3>2. q[i].at <= e.at /\ ~(q[j - 1].at <= e.at)
      BY <3>1, <1>6
    <3> QED
      BY <1>1, <1>2, <1>3, <3>1, <3>2
  <2>4. CASE i = p
    <3>1. r[i] = e /\ r[j] = q[j - 1] /\ j - 1 \in 1 .. Len(q) /\ ~(j - 1 < p)
      BY <1>1, <1>4, <1>5, <2>4
    <3>2. ~(q[j - 1].at <= e.at)
      BY <3>1, <1>6
    <3> QED
      BY <1>1, <1>2, <1>3, <3>1, <3>2
  <2>5. CASE i > p
    <3>1. /\ r[i] = q[i - 1] /\ r[j] = q[j - 1]
          /\ i - 1 \in DOMAIN q /\ j - 1 \in DOMAIN q /\ i - 1 < j - 1
      BY <1>1, <1>4, <1>5, <2>5
    <3> QED
      BY <3>1 DEF OrderedFrom
  <2> QED
    BY <1>4, <2>1, <2>2, <2>3, <2>4, <2>5
<1>11. Scheduled(q, e) = r
  BY DEF Scheduled, r, p, c, before
<1> QED
  BY <1>8, <1>9, <1>10, <1>11 DEF OrderedFrom

(* So does EventQueue::pop. *)
LEMMA TailKeeps ==
  ASSUME NEW q \in Seq(Event), q # <<>>, NEW t \in Nat, OrderedFrom(q, t)
  PROVE  /\ OrderedFrom(Tail(q), t)
         /\ OrderedFrom(q, Head(q).at)
         /\ Head(q) \in Event
         /\ Head(q).at >= t
         /\ \A i \in DOMAIN Tail(q) : \E j \in DOMAIN q : Tail(q)[i] = q[j]
<1>1. DOMAIN q = 1 .. Len(q) /\ Len(q) \in Nat \ {0} /\ Head(q) = q[1]
  BY EmptySeq, LenProperties
<1>2. /\ DOMAIN Tail(q) = 1 .. Len(q) - 1
      /\ \A i \in 1 .. Len(q) - 1 : Tail(q)[i] = q[i + 1]
  BY <1>1, HeadTailProperties, LenProperties
<1>3. \A i \in 1 .. Len(q) - 1 : i + 1 \in DOMAIN q /\ Tail(q)[i] = q[i + 1]
  BY <1>1, <1>2
<1>4. OrderedFrom(Tail(q), t)
  <2>1. \A i \in DOMAIN Tail(q) : Tail(q)[i].at >= t
    BY <1>2, <1>3 DEF OrderedFrom
  <2>2. \A i, j \in DOMAIN Tail(q) : i < j => Tail(q)[i].at <= Tail(q)[j].at
    <3> SUFFICES ASSUME NEW i \in 1 .. Len(q) - 1, NEW j \in 1 .. Len(q) - 1, i < j
                 PROVE  Tail(q)[i].at <= Tail(q)[j].at
      BY <1>2
    <3>1. i + 1 < j + 1
      OBVIOUS
    <3> QED
      BY <1>3, <3>1 DEF OrderedFrom
  <2> QED
    BY <2>1, <2>2 DEF OrderedFrom
<1>5. \A i \in DOMAIN q : q[i] \in Event /\ q[i].at \in Nat
  BY <1>1, ElementOfSeq, EventTime
<1>6. OrderedFrom(q, Head(q).at) /\ Head(q) \in Event /\ Head(q).at >= t
  BY <1>1, <1>5 DEF OrderedFrom
<1> QED
  BY <1>2, <1>3, <1>4, <1>6

-----------------------------------------------------------------------------
(* The clock. *)

(* The event queue holds nothing of the past. *)
InTime == OrderedFrom(events, now)

LEMMA EventsType ==
  ASSUME TypeOK
  PROVE  events \in Seq(Event) /\ now \in Nat /\ input \in Input
BY DEF TypeOK

(* What is put into the queue while this cycle is processed is due in this *)
(* cycle or later: outcomes, completions, activations.                     *)
LEMMA ScheduledInTime ==
  ASSUME TypeOK, InTime, NEW e \in Event, e.at >= now,
         NEW q \in Seq(Event), q = events \/ (events # <<>> /\ q = Tail(events))
  PROVE  OrderedFrom(Scheduled(q, e), now)
<1>1. OrderedFrom(q, now)
  BY EventsType, TailKeeps DEF InTime
<1> QED
  BY <1>1, EventsType, ScheduledKeeps

LEMMA FactoryInTime ==
  ASSUME TypeOK, InTime, NEW t \in {"produced", "failed"}, Due(t),
         StartFactory(Head(events).id)
  PROVE  OrderedFrom(events', now)
<1>1. PICK draw \in Draws :
        events' = Scheduled(Tail(events), FactoryOutcome(Head(events).id, draw, now))
  BY DEF StartFactory
<1> DEFINE e == FactoryOutcome(Head(events).id, draw, now)
<1>2. Head(events).id \in FactoryIds /\ Tail(events) \in Seq(Event)
  BY HeadEvent
<1>3. e \in Event
  BY <1>2, EventsType, FactoryOutcomeType DEF Event
<1>4. e.at >= now
  <2>1. draw.delay \in Nat
    BY EventsType DEF Draws, Input
  <2>2. e.at = now + draw.delay
    BY DEF FactoryOutcome
  <2> QED
    BY <2>1, <2>2, EventsType
<1>5. events # <<>>
  BY DEF Due
<1> HIDE DEF e
<1>6. OrderedFrom(Scheduled(Tail(events), e), now)
  BY <1>2, <1>3, <1>4, <1>5, ScheduledInTime
<1> QED
  BY <1>1, <1>6 DEF e

LEMMA GateInTime ==
  ASSUME TypeOK, InTime, NEW k \in Known
  PROVE  OrderedFrom(Scheduled(events, GateCompletion(k)), now)
<1>1. TotalGateCost(k) \in Nat
  BY CostType
<1>2. GateCompletion(k) \in Event /\ GateCompletion(k).at >= now
  BY <1>1, EventsType DEF GateCompletion, Event, GateEvent
<1> QED
  BY <1>2, EventsType, ScheduledInTime

LEMMA InTimeStep == TypeOK /\ InTime /\ [Next]_vars => InTime' /\ now' >= now
<1> SUFFICES ASSUME TypeOK, InTime, [Next]_vars PROVE InTime' /\ now' >= now
  OBVIOUS
<1> USE DEF InTime
<1>a. events \in Seq(Event) /\ now \in Nat
  BY EventsType
<1>1. CASE UNCHANGED <<events, now>>
  BY <1>1, <1>a DEF OrderedFrom
<1>2. CASE BeginStep
  <2>1. events # <<>> /\ now' = Head(events).at /\ events' = events
    BY <1>2 DEF BeginStep
  <2> QED
    BY <2>1, <1>a, TailKeeps
<1>3. CASE FactoryProduced \/ FactoryFailed
  <2>1. now' = now /\ OrderedFrom(events', now)
    BY <1>3, FactoryInTime DEF FactoryProduced, FactoryFailed
  <2> QED
    BY <2>1, <1>a
<1>4. CASE events # <<>> /\ events' = Tail(events) /\ now' = now
  BY <1>4, <1>a, TailKeeps
<1>5. CASE MeasuredDeferred
  <2>1. PICK o \in Outcomes :
          events' = Scheduled(Tail(events), [at |-> now + input.feedback,
                      type |-> "hook", id |-> Head(events).id, outcome |-> o])
    BY <1>5 DEF MeasuredDeferred
  <2> DEFINE e == [at |-> now + input.feedback,
                   type |-> "hook", id |-> Head(events).id, outcome |-> o]
  <2>2. Due("gate") /\ Head(events).id \in HookedOps /\ now' = now /\ events # <<>>
    BY <1>5 DEF MeasuredDeferred, HookedOps, Due
  <2>3. input.feedback \in Nat
    BY DEF TypeOK, Input
  <2>4. e \in Event
    BY <1>a, <2>2, <2>3 DEF Event, HookEvent
  <2>5. e.at >= now
    BY <1>a, <2>3
  <2>6. Tail(events) \in Seq(Event)
    BY <2>2, HeadEvent
  <2> HIDE DEF e
  <2>7. OrderedFrom(Scheduled(Tail(events), e), now)
    BY <2>2, <2>4, <2>5, <2>6, ScheduledInTime
  <2>8. events' = Scheduled(Tail(events), e)
    BY <2>1 DEF e
  <2> QED
    BY <1>a, <2>2, <2>7, <2>8
<1>6. ASSUME NEW k \in Known, events' = Scheduled(events, GateCompletion(k)), now' = now
      PROVE  InTime' /\ now' >= now
  BY <1>6, <1>a, GateInTime
<1>7. CASE ServeStalled
  <2>1. Head(stalled) \in [gate : Known, since : Nat]
    BY <1>7, HeadTailProperties DEF ServeStalled, TypeOK
  <2>2. Head(stalled).gate \in Known
    BY <2>1
  <2>3. events' = Scheduled(events, GateCompletion(Head(stalled).gate)) /\ now' = now
    BY <1>7 DEF ServeStalled, Serve
  <2> QED
    BY <1>6, <2>2, <2>3
<1>8. CASE ServeReady \/ ScheduleReady
  <2>1. ready # <<>> /\ ready \in Seq(Known)
    BY <1>8 DEF ServeReady, ScheduleReady, TypeOK
  <2>2. Head(ready) \in Known
    BY <2>1, HeadTailProperties
  <2>3. events' = Scheduled(events, GateCompletion(Head(ready))) /\ now' = now
    BY <1>8 DEF ServeReady, ScheduleReady, Serve
  <2> QED
    BY <1>6, <2>2, <2>3
<1>9. CASE InjectionError \/ GateCompleted \/ MeasuredInstant \/ HookActivation
  BY <1>9, <1>4
  DEF InjectionError, GateCompleted, MeasuredInstant, HookActivation, Due
<1> QED
  BY <1>1, <1>2, <1>3, <1>5, <1>7, <1>8, <1>9
  DEF Next, vars, Finish, Truncate, EndEvents, EndServe, StallReady, EndStep, Returned

(* A queue each of whose events is not after the next one is ordered. *)
LEMMA NeighboursSuffice ==
  ASSUME NEW q \in Seq(Event),
         \A i \in 1 .. Len(q) - 1 : q[i].at <= q[i + 1].at
  PROVE  OrderedFrom(q, 0)
<1>1. DOMAIN q = 1 .. Len(q) /\ Len(q) \in Nat
  BY LenProperties
<1>2. \A i \in DOMAIN q : q[i].at \in Nat
  BY <1>1, ElementOfSeq, EventTime
<1>3. ASSUME NEW i \in DOMAIN q, NEW j \in DOMAIN q, i < j, ~(q[i].at <= q[j].at)
      PROVE  FALSE
  <2> DEFINE T == {n \in DOMAIN q : i < n /\ q[n].at < q[i].at}
  <2>1. T # {} /\ T \in SUBSET Nat
    BY <1>1, <1>2, <1>3
  <2>2. PICK m \in T : \A n \in T : m <= n
    BY <2>1, LeastNumber
  <2>3. /\ m \in DOMAIN q /\ i < m /\ q[m].at < q[i].at
        /\ m - 1 \in DOMAIN q /\ m - 1 \in 1 .. Len(q) - 1 /\ m - 1 \notin T
    BY <1>1, <2>2
  <2>4. q[m - 1].at <= q[m].at
    <3>1. (m - 1) + 1 = m
      BY <1>1, <2>3
    <3> QED
      BY <2>3, <3>1
  <2>5. q[m - 1].at < q[i].at
    BY <1>2, <2>3, <2>4
  <2>6. ~(i < m - 1)
    BY <2>3, <2>5
  <2>7. m - 1 = i
    BY <1>1, <2>3, <2>6
  <2> QED
    BY <1>2, <2>5, <2>7
<1>4. \A i \in DOMAIN q : q[i].at >= 0
  BY <1>2
<1> QED
  BY <1>3, <1>4 DEF OrderedFrom

LEMMA InTimeInit == Init => InTime
<1> SUFFICES ASSUME Init PROVE InTime
  OBVIOUS
<1>1. events \in Seq(Event)
  BY TypeInit DEF TypeOK
<1>2. PICK draw \in [FactoryIds -> Draws] :
        events \in {q \in [1 .. NumFactories ->
                            {FactoryOutcome(f, draw[f], 0) : f \in FactoryIds}] :
                     \A i \in 1 .. NumFactories - 1 : EarlierEvent(q[i], q[i + 1])}
  BY DEF Init
<1>3. Len(events) = NumFactories
  <2>1. DOMAIN events = 1 .. NumFactories
    BY <1>2
  <2> QED
    BY <1>1, <2>1, SizesAssumption, LenProperties
<1>4. \A i \in 1 .. Len(events) - 1 : EarlierEvent(events[i], events[i + 1])
  BY <1>2, <1>3
<1>5. \A i \in 1 .. Len(events) - 1 : events[i].at <= events[i + 1].at
  <2> TAKE i \in 1 .. Len(events) - 1
  <2>1. i \in 1 .. Len(events) /\ i + 1 \in 1 .. Len(events)
    BY <1>1, LenProperties
  <2>2. events[i].at \in Nat /\ events[i + 1].at \in Nat
    BY <1>1, <2>1, ElementOfSeq, EventTime
  <2> QED
    BY <1>4, <2>2 DEF EarlierEvent
<1>6. now = 0
  BY DEF Init
<1> QED
  BY <1>1, <1>5, <1>6, NeighboursSuffice DEF InTime

LEMMA AlwaysInTime == Spec => []InTime
BY InTimeInit, InTimeStep, TypeCorrect, PTL DEF Spec

(* Engine::step only ever moves current_cycle forwards, although work of   *)
(* no cost is scheduled in the cycle being processed: the queue is ordered *)
(* and never holds an event of the past.                                   *)
THEOREM ClockMovesForward == Spec => TimeMonotone
<1>1. TypeOK /\ InTime /\ [Next]_vars => [now' >= now]_vars
  BY InTimeStep
<1> QED
  BY <1>1, TypeCorrect, AlwaysInTime, PTL DEF Spec, TimeMonotone

-----------------------------------------------------------------------------
(* The limit. *)

(* A step that has been entered is below the limit. *)
StepWithinLimit ==
  /\ WithinLimit
  /\ (MaxCycles # NoLimit /\ pc \in {"events", "serve", "ready"}) => now < MaxCycles

(* run tests the limit against the cycle of the next event before it       *)
(* enters a step, and returns a truncated trace only with operations       *)
(* outstanding: no event of a cycle at or past max_cycles is processed.    *)
THEOREM LimitIsKept == Spec => []WithinLimit
<1>1. Init => StepWithinLimit
  BY DEF Init, StepWithinLimit, WithinLimit
<1>2. TypeOK /\ StepWithinLimit /\ [Next]_vars => StepWithinLimit'
  <2> SUFFICES ASSUME TypeOK, StepWithinLimit, [Next]_vars, MaxCycles # NoLimit,
                      MaxCycles' = MaxCycles
               PROVE  StepWithinLimit'
    <3>1. ASSUME [Next]_vars PROVE input' = input
      BY <3>1 DEF Next, vars, Finish, Truncate, BeginStep, FactoryProduced, FactoryFailed,
                  InjectionError, GateCompleted, MeasuredDeferred, MeasuredInstant,
                  HookActivation, EndEvents, ServeStalled, EndServe, ServeReady, StallReady,
                  ScheduleReady, EndStep, Returned
    <3> QED
      BY <3>1 DEF StepWithinLimit, WithinLimit, MaxCycles
  <2> USE DEF StepWithinLimit, WithinLimit
  <2>1. MaxCycles \in Nat
    BY DEF MaxCycles, TypeOK, Input
  <2>2. CASE Truncate
    BY <2>2 DEF Truncate, IsComplete, countVars, TypeOK
  <2>3. CASE BeginStep
    <3>1. Head(events) \in Event
      BY <2>3, HeadTailProperties DEF BeginStep, TypeOK
    <3>2. now' < MaxCycles
      BY <2>1, <2>3, <3>1, EventTime DEF BeginStep, LimitReached
    <3> QED
      BY <2>3, <3>2 DEF BeginStep
  <2>4. CASE InjectionError \/ GateCompleted \/ MeasuredDeferred \/ MeasuredInstant
    <3>1. pc = "events" /\ pc' = pc /\ now' = now
      BY <2>4 DEF InjectionError, GateCompleted, MeasuredDeferred, MeasuredInstant, Due
    <3> QED
      BY <3>1
  <2>5. CASE UNCHANGED <<now, pc, countVars>>
    BY <2>5 DEF countVars
  <2>6. CASE Finish \/ EndEvents \/ EndServe \/ EndStep
    BY <2>6 DEF Finish, EndEvents, EndServe, EndStep, countVars
  <2> QED
    BY <2>2, <2>3, <2>4, <2>5, <2>6
    DEF Next, vars, FactoryProduced, FactoryFailed, HookActivation, ServeStalled,
        ServeReady, StallReady, ScheduleReady, Returned
<1>3. StepWithinLimit => WithinLimit
  BY DEF StepWithinLimit
<1> QED
  BY <1>1, <1>2, <1>3, TypeCorrect, PTL DEF Spec

-----------------------------------------------------------------------------
(* Stalls. *)

IsOutcome(e) == e.type \in {"produced", "failed"}
NoOutcomeDue == \A i \in DOMAIN events : IsOutcome(events[i]) => events[i].at > now

(* All outcomes of a cycle come before its stalls, and a gate stalls only  *)
(* when nothing is in the buffer: a gate that stalled in this cycle finds  *)
(* the buffer empty until the next.                                        *)
StallInv ==
  /\ \A i \in DOMAIN stalled : stalled[i].since <= now
  /\ pc \in {"serve", "ready"} => NoOutcomeDue
  /\ (\E i \in DOMAIN stalled : stalled[i].since = now) => occupancy = 0 /\ NoOutcomeDue

(* The entries of a popped queue of stalled gates were there before. *)
LEMMA StalledTail ==
  ASSUME TypeOK, stalled # <<>>
  PROVE  /\ Head(stalled) = stalled[1] /\ 1 \in DOMAIN stalled
         /\ Head(stalled) \in [gate : Known, since : Nat]
         /\ \A i \in DOMAIN Tail(stalled) :
              \E j \in DOMAIN stalled : Tail(stalled)[i] = stalled[j]
<1>1. stalled \in Seq([gate : Known, since : Nat])
  BY DEF TypeOK
<1>2. DOMAIN stalled = 1 .. Len(stalled) /\ Len(stalled) \in Nat \ {0}
  BY <1>1, EmptySeq, LenProperties
<1>3. /\ DOMAIN Tail(stalled) = 1 .. Len(stalled) - 1
      /\ \A i \in 1 .. Len(stalled) - 1 : Tail(stalled)[i] = stalled[i + 1]
  BY <1>1, <1>2, HeadTailProperties, LenProperties
<1>4. \A i \in 1 .. Len(stalled) - 1 : i + 1 \in DOMAIN stalled
  BY <1>2
<1>5. Head(stalled) = stalled[1]
  BY <1>1, <1>2
<1>6. Head(stalled) \in [gate : Known, since : Nat]
  <2>1. stalled # <<>>
    OBVIOUS
  <2> QED
    BY <1>1, <2>1, HeadTailProperties
<1> QED
  BY <1>2, <1>3, <1>4, <1>5, <1>6

(* Taking an event from the queue, or adding one that is not an outcome,   *)
(* makes no outcome due.                                                   *)
LEMMA OutcomesKept ==
  ASSUME TypeOK, InTime, NoOutcomeDue,
         NEW q \in Seq(Event), q = events \/ (events # <<>> /\ q = Tail(events))
  PROVE  /\ \A i \in DOMAIN q : IsOutcome(q[i]) => q[i].at > now
         /\ \A e \in Event : e.at >= now /\ ~IsOutcome(e) =>
              \A i \in DOMAIN Scheduled(q, e) :
                IsOutcome(Scheduled(q, e)[i]) => Scheduled(q, e)[i].at > now
<1>1. \A i \in DOMAIN q : \E j \in DOMAIN events : q[i] = events[j]
  BY EventsType, TailKeeps DEF InTime
<1>2. \A i \in DOMAIN q : IsOutcome(q[i]) => q[i].at > now
  BY <1>1 DEF NoOutcomeDue
<1>3. OrderedFrom(q, now)
  BY EventsType, TailKeeps DEF InTime
<1>4. ASSUME NEW e \in Event, e.at >= now, ~IsOutcome(e)
      PROVE  \A i \in DOMAIN Scheduled(q, e) :
                IsOutcome(Scheduled(q, e)[i]) => Scheduled(q, e)[i].at > now
  <2>1. \A i \in DOMAIN Scheduled(q, e) :
          Scheduled(q, e)[i] = e \/ \E j \in DOMAIN q : Scheduled(q, e)[i] = q[j]
    BY <1>3, <1>4, EventsType, ScheduledKeeps
  <2> QED
    BY <1>2, <1>4, <2>1
<1> QED
  BY <1>2, <1>4

(* At the end of phase 1 no event of the cycle is left. *)
LEMMA PhaseOneOver ==
  ASSUME TypeOK, InTime, EndEvents
  PROVE  NoOutcomeDue
<1>1. events \in Seq(Event) /\ now \in Nat
  BY EventsType
<1>2. CASE events = <<>>
  BY <1>2 DEF NoOutcomeDue
<1>3. CASE events # <<>>
  <2>1. Head(events).at # now /\ Head(events).at \in Nat /\ Head(events).at >= now
    BY <1>1, <1>3, TailKeeps, EventTime DEF EndEvents, InTime
  <2>2. \A i \in DOMAIN events : events[i].at >= Head(events).at
    BY <1>1, <1>3, TailKeeps DEF InTime, OrderedFrom
  <2>3. \A i \in DOMAIN events : events[i].at \in Nat
    BY <1>1, ElementOfSeq, LenProperties, EventTime
  <2> QED
    BY <1>1, <2>1, <2>2, <2>3 DEF NoOutcomeDue
<1> QED
  BY <1>2, <1>3

LEMMA StallStep ==
  ASSUME TypeOK, InTime, StallInv, [Next]_vars
  PROVE  StallInv'
<1> USE DEF StallInv
<1>a. /\ events \in Seq(Event) /\ now \in Nat
      /\ stalled \in Seq([gate : Known, since : Nat])
  BY DEF TypeOK
<1>b. \A i \in DOMAIN stalled : stalled[i].since \in Nat
  <2>1. \A i \in DOMAIN stalled : stalled[i] \in [gate : Known, since : Nat]
    BY <1>a, ElementOfSeq, LenProperties
  <2> QED
    BY <2>1
<1>1. CASE UNCHANGED <<events, now, pc, stalled, occupancy>>
  BY <1>1 DEF NoOutcomeDue
<1>2. CASE Finish \/ Truncate \/ EndServe \/ EndStep
  BY <1>2 DEF Finish, Truncate, EndServe, EndStep, NoOutcomeDue, bufferVars
<1>3. CASE BeginStep
  <2>1. /\ UNCHANGED <<events, stalled, occupancy>> /\ pc = "loop" /\ pc' = "events"
        /\ events # <<>> /\ now' = Head(events).at
    BY <1>3 DEF BeginStep, bufferVars
  <2>2. now' \in Nat /\ now' >= now
    BY <1>a, <2>1, TailKeeps, EventTime DEF InTime
  <2>3. \A i \in DOMAIN stalled : stalled[i].since = now' => now' = now
    BY <1>a, <1>b, <2>2
  <2>4. \A i \in DOMAIN stalled' : stalled'[i].since <= now'
    BY <1>a, <1>b, <2>1, <2>2
  <2>5. (\E i \in DOMAIN stalled' : stalled'[i].since = now')
           => occupancy' = 0 /\ NoOutcomeDue'
    BY <2>1, <2>3 DEF NoOutcomeDue
  <2> QED
    BY <2>1, <2>4, <2>5
<1>4. CASE FactoryProduced \/ FactoryFailed
  <2>1. /\ events # <<>> /\ Head(events).at = now /\ IsOutcome(Head(events))
        /\ pc' = "events" /\ UNCHANGED <<now, stalled>>
    BY <1>4 DEF FactoryProduced, FactoryFailed, Due, IsOutcome
  <2>2. ~NoOutcomeDue
    <3>1. Head(events) = events[1] /\ 1 \in DOMAIN events
      BY <1>a, <2>1, EmptySeq, LenProperties
    <3> QED
      BY <1>a, <2>1, <3>1 DEF NoOutcomeDue
  <2>3. \A i \in DOMAIN stalled : stalled[i].since # now
    BY <2>2
  <2> QED
    BY <2>1, <2>3
<1>5. CASE InjectionError \/ GateCompleted \/ MeasuredInstant \/ HookActivation
  <2>1. /\ events # <<>> /\ events' = Tail(events) /\ pc' = "events"
        /\ UNCHANGED <<now, stalled, occupancy>>
    BY <1>5 DEF InjectionError, GateCompleted, MeasuredInstant, HookActivation, Due,
                bufferVars
  <2>2. Tail(events) \in Seq(Event)
    BY <1>a, <2>1, HeadTailProperties
  <2>3. NoOutcomeDue => NoOutcomeDue'
    BY <2>1, <2>2, OutcomesKept DEF NoOutcomeDue
  <2> QED
    BY <2>1, <2>3
<1>6. CASE MeasuredDeferred
  <2>1. PICK o \in Outcomes :
          events' = Scheduled(Tail(events), [at |-> now + input.feedback,
                      type |-> "hook", id |-> Head(events).id, outcome |-> o])
    BY <1>6 DEF MeasuredDeferred
  <2> DEFINE e == [at |-> now + input.feedback,
                   type |-> "hook", id |-> Head(events).id, outcome |-> o]
  <2>2. /\ Due("gate") /\ Head(events).id \in HookedOps /\ events # <<>>
        /\ pc' = "events" /\ UNCHANGED <<now, stalled, occupancy>>
    BY <1>6 DEF MeasuredDeferred, HookedOps, Due, bufferVars
  <2>3. input.feedback \in Nat
    BY DEF TypeOK, Input
  <2>4. e \in Event /\ e.at >= now /\ ~IsOutcome(e)
    <3>1. e \in Event
      BY <1>a, <2>2, <2>3 DEF Event, HookEvent
    <3>2. e.at >= now /\ e.type = "hook"
      BY <1>a, <2>3
    <3> QED
      BY <3>1, <3>2 DEF IsOutcome
  <2>5. Tail(events) \in Seq(Event)
    BY <2>2, HeadEvent
  <2>6. events' = Scheduled(Tail(events), e)
    BY <2>1
  <2> HIDE DEF e
  <2>7. NoOutcomeDue => NoOutcomeDue'
    BY <2>2, <2>4, <2>5, <2>6, OutcomesKept DEF NoOutcomeDue
  <2> QED
    BY <2>2, <2>7
<1>7. CASE EndEvents
  <2>1. NoOutcomeDue /\ UNCHANGED <<events, now, stalled, occupancy>>
    BY <1>7, PhaseOneOver DEF EndEvents, bufferVars
  <2>2. NoOutcomeDue'
    BY <2>1 DEF NoOutcomeDue
  <2> QED
    BY <2>1, <2>2
<1>8. ASSUME NEW k \in Known, events' = Scheduled(events, GateCompletion(k)),
             now' = now, pc \in {"serve", "ready"}
      PROVE  NoOutcomeDue'
  <2>1. TotalGateCost(k) \in Nat
    BY CostType
  <2>2. GateCompletion(k) \in Event /\ GateCompletion(k).at >= now
    BY <1>a, <2>1 DEF GateCompletion, Event, GateEvent
  <2>3. ~IsOutcome(GateCompletion(k))
    BY DEF GateCompletion, IsOutcome
  <2> QED
    BY <1>8, <1>a, <2>2, <2>3, OutcomesKept DEF NoOutcomeDue
<1>9. CASE ServeStalled
  <2>1. /\ stalled # <<>> /\ stalled' = Tail(stalled) /\ occupancy > 0
        /\ events' = Scheduled(events, GateCompletion(Head(stalled).gate))
        /\ pc = "serve" /\ UNCHANGED <<now, pc>>
    BY <1>9 DEF ServeStalled, Serve
  <2>2. /\ Head(stalled).gate \in Known
        /\ \A i \in DOMAIN Tail(stalled) :
              \E j \in DOMAIN stalled : Tail(stalled)[i] = stalled[j]
    BY <2>1, StalledTail
  <2>3. NoOutcomeDue'
    BY <1>8, <2>1, <2>2
  <2>4. \A i \in DOMAIN stalled : stalled[i].since # now
    BY <2>1
  <2> QED
    BY <2>1, <2>2, <2>3, <2>4
<1>10. CASE ServeReady \/ ScheduleReady
  <2>1. /\ ready # <<>> /\ ready \in Seq(Known)
        /\ pc = "ready" /\ UNCHANGED <<now, pc, stalled>>
        /\ events' = Scheduled(events, GateCompletion(Head(ready)))
    BY <1>10 DEF ServeReady, ScheduleReady, Serve, TypeOK
  <2>2. Head(ready) \in Known
    BY <2>1, HeadTailProperties
  <2>3. NoOutcomeDue'
    BY <1>8, <2>1, <2>2
  <2>4. occupancy' = occupancy \/ \A i \in DOMAIN stalled : stalled[i].since # now
    BY <1>10 DEF ServeReady, ScheduleReady, Serve, bufferVars
  <2> QED
    BY <2>1, <2>3, <2>4
<1>11. CASE StallReady
  <2> DEFINE e == [gate |-> Head(ready), since |-> now]
  <2>1. /\ pc = "ready" /\ UNCHANGED <<now, pc, events, occupancy>> /\ occupancy = 0
        /\ stalled' = Append(stalled, e)
    BY <1>11 DEF StallReady, bufferVars
  <2>2. NoOutcomeDue'
    BY <2>1 DEF NoOutcomeDue
  <2>3. \A i \in DOMAIN stalled' :
          stalled'[i] = e \/ \E j \in DOMAIN stalled : stalled'[i] = stalled[j]
    <3> HIDE DEF e
    <3> QED
      BY <1>a, <2>1
  <2>4. \A i \in DOMAIN stalled' : stalled'[i].since <= now
    BY <1>a, <2>3
  <2> QED
    BY <2>1, <2>2, <2>4
<1> QED
  BY <1>1, <1>2, <1>3, <1>4, <1>5, <1>6, <1>7, <1>9, <1>10, <1>11
  DEF Next, vars, bufferVars, Returned

LEMMA AlwaysStallInv == Spec => []StallInv
<1>1. Init => StallInv
  BY DEF Init, StallInv
<1>2. TypeOK /\ InTime /\ StallInv /\ [Next]_vars => StallInv'
  BY StallStep
<1> QED
  BY <1>1, <1>2, TypeCorrect, AlwaysInTime, PTL DEF Spec

(* A gate that stalls is served in a later cycle, also when attempts take  *)
(* no time: phase 1 goes on until no outcome is due.  The GateServed       *)
(* record of try_serve_stalled_gates carries a positive wait.              *)
THEOREM StallsTakeTime == Spec => StallTakesTime
<1>1. TypeOK /\ StallInv /\ [Next]_vars
         => [(pc = "serve" /\ served' # served) => Head(stalled).since < now]_vars
  <2> SUFFICES ASSUME TypeOK, StallInv, Next, pc = "serve", served' # served
               PROVE  Head(stalled).since < now
    OBVIOUS
  <2>1. ServeStalled
    BY DEF Next, Finish, Truncate, BeginStep, FactoryProduced, FactoryFailed, InjectionError,
           GateCompleted, MeasuredDeferred, MeasuredInstant, HookActivation, EndEvents,
           EndServe, ServeReady, StallReady, ScheduleReady, EndStep, Returned, Due,
           bufferVars, vars
  <2>2. occupancy > 0 /\ stalled # <<>>
    BY <2>1 DEF ServeStalled, Serve
  <2>3. /\ Head(stalled) = stalled[1] /\ 1 \in DOMAIN stalled
        /\ Head(stalled) \in [gate : Known, since : Nat]
    BY <2>2, StalledTail
  <2>4. Head(stalled).since <= now /\ Head(stalled).since # now
    BY <2>2, <2>3 DEF StallInv
  <2> QED
    BY <2>3, <2>4 DEF TypeOK
<1> QED
  BY <1>1, AlwaysStallInv, TypeCorrect, PTL DEF Spec, StallTakesTime

-----------------------------------------------------------------------------
(* Every factory is always at work: in every state each of them has exactly *)
(* one outcome in the event queue.                                         *)

(* Where the queue q holds an outcome of factory f. *)
IsOutcomeOf(e, f) == IsOutcome(e) /\ e.id = f
PlacesOf(q, f) == {i \in DOMAIN q : IsOutcomeOf(q[i], f)}
OneOutcome(q, f) == \E i \in DOMAIN q : PlacesOf(q, f) = {i}

LEMMA ScheduledShape ==
  ASSUME NEW q \in Seq(Event), NEW e \in Event
  PROVE  \E p \in 1 .. Len(q) + 1 : Scheduled(q, e) = InsertAt(q, p, e)
<1> DEFINE before == {i \in DOMAIN q : q[i].at <= e.at}
<1>1. DOMAIN q = 1 .. Len(q) /\ Len(q) \in Nat
  BY LenProperties
<1>2. IsFiniteSet(1 .. Len(q)) /\ Cardinality(1 .. Len(q)) = Len(q)
  BY <1>1, FS_Interval
<1>3. IsFiniteSet(before) /\ Cardinality(before) <= Len(q)
  BY <1>1, <1>2, FS_Subset
<1>4. Cardinality(before) + 1 \in 1 .. Len(q) + 1
  BY <1>1, <1>3, FS_CardinalityType
<1> QED
  BY <1>4 DEF Scheduled

LEMMA ScheduledInserted ==
  ASSUME NEW q \in Seq(Event), NEW e \in Event
  PROVE  \E p \in 1 .. Len(q) + 1 :
           Scheduled(q, e) \in Seq(Event) /\ Inserted(Scheduled(q, e), q, p, e)
<1>1. PICK p \in 1 .. Len(q) + 1 : Scheduled(q, e) = InsertAt(q, p, e)
  BY ScheduledShape
<1>2. InsertAt(q, p, e) \in Seq(Event) /\ Inserted(InsertAt(q, p, e), q, p, e)
  BY InsertAtElements
<1> QED
  BY <1>1, <1>2

(* Scheduling an event of another kind, or of another factory, leaves a    *)
(* factory its one outcome.                                                *)
LEMMA ScheduledOther ==
  ASSUME NEW q \in Seq(Event), NEW e \in Event, NEW f,
         OneOutcome(q, f), ~IsOutcomeOf(e, f)
  PROVE  OneOutcome(Scheduled(q, e), f)
<1> DEFINE r == Scheduled(q, e)
<1>1. PICK p \in 1 .. Len(q) + 1 : r \in Seq(Event) /\ Inserted(r, q, p, e)
  BY ScheduledInserted
<1> HIDE DEF r
<1>2. DOMAIN q = 1 .. Len(q) /\ Len(q) \in Nat
  BY LenProperties
<1>3. /\ r \in Seq(Event) /\ Len(r) = Len(q) + 1
      /\ \A j \in 1 .. Len(q) + 1 :
           r[j] = IF j < p THEN q[j] ELSE IF j = p THEN e ELSE q[j - 1]
  BY <1>1 DEF Inserted
<1>4. DOMAIN r = 1 .. Len(q) + 1
  BY <1>3, LenProperties
<1>5. PICK i \in DOMAIN q : PlacesOf(q, f) = {i}
  BY DEF OneOutcome
<1>6. \A j \in DOMAIN q : IsOutcomeOf(q[j], f) <=> j = i
  BY <1>5 DEF PlacesOf
<1> DEFINE k == IF i < p THEN i ELSE i + 1
<1>7. k \in DOMAIN r
  BY <1>2, <1>4, <1>5
<1>8. \A j \in DOMAIN r : IsOutcomeOf(r[j], f) <=> j = k
  <2> TAKE j \in DOMAIN r
  <2>1. CASE j < p
    <3>1. j \in DOMAIN q /\ r[j] = q[j]
      BY <1>2, <1>3, <1>4, <2>1
    <3>2. j = i <=> j = k
      BY <1>2, <1>5, <2>1, <3>1
    <3> QED
      BY <1>6, <3>1, <3>2
  <2>2. CASE j = p
    <3>1. r[j] = e /\ j # k
      BY <1>2, <1>3, <1>4, <1>5, <2>2
    <3> QED
      BY <3>1
  <2>3. CASE j > p
    <3>1. j - 1 \in DOMAIN q /\ r[j] = q[j - 1]
      BY <1>2, <1>3, <1>4, <2>3
    <3>2. j - 1 = i <=> j = k
      BY <1>2, <1>4, <1>5, <2>3, <3>1
    <3> QED
      BY <1>6, <3>1, <3>2
  <2> QED
    BY <1>2, <1>4, <2>1, <2>2, <2>3
<1>9. PlacesOf(r, f) = {k}
  <2> HIDE DEF k
  <2> QED
    BY <1>7, <1>8 DEF PlacesOf
<1> QED
  BY <1>7, <1>9 DEF OneOutcome, r

(* Scheduling the outcome of a factory that has none gives it one. *)
LEMMA ScheduledOwn ==
  ASSUME NEW q \in Seq(Event), NEW e \in Event, NEW f,
         PlacesOf(q, f) = {}, IsOutcomeOf(e, f)
  PROVE  OneOutcome(Scheduled(q, e), f)
<1> DEFINE r == Scheduled(q, e)
<1>1. PICK p \in 1 .. Len(q) + 1 : r \in Seq(Event) /\ Inserted(r, q, p, e)
  BY ScheduledInserted
<1> HIDE DEF r
<1>2. DOMAIN q = 1 .. Len(q) /\ Len(q) \in Nat
  BY LenProperties
<1>3. /\ r \in Seq(Event) /\ Len(r) = Len(q) + 1
      /\ \A j \in 1 .. Len(q) + 1 :
           r[j] = IF j < p THEN q[j] ELSE IF j = p THEN e ELSE q[j - 1]
  BY <1>1 DEF Inserted
<1>4. DOMAIN r = 1 .. Len(q) + 1
  BY <1>3, LenProperties
<1>5. \A j \in DOMAIN q : ~IsOutcomeOf(q[j], f)
  BY DEF PlacesOf
<1>6. \A j \in DOMAIN r : IsOutcomeOf(r[j], f) <=> j = p
  <2> TAKE j \in DOMAIN r
  <2>1. CASE j = p
    BY <1>3, <1>4, <2>1
  <2>2. CASE j # p
    <3>1. \E i \in DOMAIN q : r[j] = q[i]
      <4>1. CASE j < p
        BY <1>2, <1>3, <1>4, <4>1
      <4>2. CASE j > p
        <5>1. j - 1 \in DOMAIN q /\ r[j] = q[j - 1]
          BY <1>2, <1>3, <1>4, <4>2
        <5> QED
          BY <5>1
      <4> QED
        BY <1>2, <1>4, <2>2, <4>1, <4>2
    <3> QED
      BY <1>5, <2>2, <3>1
  <2> QED
    BY <2>1, <2>2
<1>7. p \in DOMAIN r /\ PlacesOf(r, f) = {p}
  BY <1>4, <1>6 DEF PlacesOf
<1> QED
  BY <1>7 DEF OneOutcome, r

(* Popping an event takes an outcome from the factory it belongs to and    *)
(* from no other.                                                          *)
LEMMA Popped ==
  ASSUME NEW q \in Seq(Event), q # <<>>, NEW f, OneOutcome(q, f)
  PROVE  /\ IsOutcomeOf(Head(q), f) => PlacesOf(Tail(q), f) = {}
         /\ ~IsOutcomeOf(Head(q), f) => OneOutcome(Tail(q), f)
<1>1. DOMAIN q = 1 .. Len(q) /\ Len(q) \in Nat \ {0} /\ Head(q) = q[1]
  BY EmptySeq, LenProperties
<1>2. /\ DOMAIN Tail(q) = 1 .. Len(q) - 1
      /\ \A i \in 1 .. Len(q) - 1 : Tail(q)[i] = q[i + 1]
  BY <1>1, HeadTailProperties, LenProperties
<1>3. PICK i \in DOMAIN q : PlacesOf(q, f) = {i}
  BY DEF OneOutcome
<1>4. \A j \in DOMAIN q : IsOutcomeOf(q[j], f) <=> j = i
  BY <1>3 DEF PlacesOf
<1>5. \A j \in DOMAIN Tail(q) : IsOutcomeOf(Tail(q)[j], f) <=> j = i - 1
  <2> TAKE j \in DOMAIN Tail(q)
  <2>1. j + 1 \in DOMAIN q /\ Tail(q)[j] = q[j + 1]
    BY <1>1, <1>2
  <2>2. j + 1 = i <=> j = i - 1
    BY <1>1, <1>2, <1>3
  <2> QED
    BY <1>4, <2>1, <2>2
<1>6. IsOutcomeOf(Head(q), f) <=> i = 1
  BY <1>1, <1>4
<1>7. CASE i = 1
  <2>1. \A j \in DOMAIN Tail(q) : j # i - 1
    BY <1>1, <1>2, <1>7
  <2> QED
    BY <1>5, <1>6, <1>7, <2>1 DEF PlacesOf
<1>8. CASE i # 1
  <2>1. i - 1 \in DOMAIN Tail(q)
    BY <1>1, <1>2, <1>3, <1>8
  <2>2. PlacesOf(Tail(q), f) = {i - 1}
    BY <1>5, <2>1 DEF PlacesOf
  <2> QED
    BY <1>6, <1>8, <2>1, <2>2 DEF OneOutcome
<1> QED
  BY <1>7, <1>8

-----------------------------------------------------------------------------
Busy == \A f \in FactoryIds : OneOutcome(events, f)

(* Engine::new starts every factory once: the queue has as many places as  *)
(* there are factories, and no factory takes two.                          *)
LEMMA BusyInit == Init => Busy
<1> SUFFICES ASSUME Init PROVE Busy
  OBVIOUS
<1>1. events \in Seq(Event)
  BY TypeInit DEF TypeOK
<1>2. PICK draw \in [FactoryIds -> Draws] :
        events \in {q \in [1 .. NumFactories ->
                            {FactoryOutcome(f, draw[f], 0) : f \in FactoryIds}] :
                     \A i \in 1 .. NumFactories - 1 : EarlierEvent(q[i], q[i + 1])}
  BY DEF Init
<1>3. DOMAIN events = 1 .. NumFactories /\ NumFactories \in Nat \ {0}
  BY <1>2, SizesAssumption
<1>4. \A i \in 1 .. NumFactories - 1 : EarlierEvent(events[i], events[i + 1])
  BY <1>2
<1>5. \A i \in 1 .. NumFactories : \E f \in FactoryIds :
        events[i] = FactoryOutcome(f, draw[f], 0)
  BY <1>2
<1>6. \A i \in 1 .. NumFactories :
        /\ events[i].id \in FactoryIds
        /\ events[i] = FactoryOutcome(events[i].id, draw[events[i].id], 0)
        /\ IsOutcome(events[i])
        /\ events[i].at \in Nat
  <2> TAKE i \in 1 .. NumFactories
  <2>1. PICK f \in FactoryIds : events[i] = FactoryOutcome(f, draw[f], 0)
    BY <1>5
  <2>2. events[i].id = f
    BY <2>1 DEF FactoryOutcome
  <2>3. events[i] \in FactoryEvent
    <3>1. input \in Input /\ draw[f] \in Draws /\ 0 \in Nat
      BY <1>2, InputsAssumption DEF Init
    <3> QED
      BY <2>1, <3>1, FactoryOutcomeType
  <2> QED
    BY <2>1, <2>2, <2>3 DEF FactoryEvent, IsOutcome
<1>7. \A i, j \in 1 .. NumFactories : i < j => events[i].at <= events[j].at
  <2>1. Len(events) = NumFactories
    BY <1>1, <1>3, LenProperties
  <2>2. now = 0 /\ InTime
    BY InTimeInit DEF Init
  <2> QED
    BY <1>3, <2>2 DEF InTime, OrderedFrom
<1>8. ASSUME NEW i \in 1 .. NumFactories, NEW j \in 1 .. NumFactories, i < j,
             events[i].id = events[j].id
      PROVE  FALSE
  <2>1. events[i].at = events[j].at
    BY <1>6, <1>8
  <2> DEFINE T == {n \in 1 .. NumFactories :
                     i < n /\ n <= j /\ events[n].id <= events[i].id}
  <2>2. \A n \in 1 .. NumFactories : events[n].id \in Nat
    BY <1>6, <1>3 DEF FactoryIds
  <2>3. j \in T /\ T \in SUBSET Nat
    BY <1>8, <2>2
  <2>4. PICK m \in T : \A n \in T : m <= n
    BY <2>3, LeastNumber
  <2>5. /\ m \in 1 .. NumFactories /\ i < m /\ m <= j
        /\ events[m].id <= events[i].id
        /\ m - 1 \in 1 .. NumFactories - 1 /\ (m - 1) + 1 = m
        /\ m - 1 \notin T
    BY <1>3, <2>4
  <2>6. EarlierEvent(events[m - 1], events[m])
    BY <1>4, <2>5
  <2>7. m - 1 = i \/ (i < m - 1 /\ ~(events[m - 1].id <= events[i].id))
    BY <1>3, <2>5
  <2>8. events[m - 1].at = events[m].at
    <3>1. /\ m - 1 \in 1 .. NumFactories
          /\ m - 1 = i \/ events[i].at <= events[m - 1].at
          /\ m = j \/ events[m].at <= events[j].at
      BY <1>3, <1>7, <2>5, <2>7
    <3>2. events[m - 1].at <= events[m].at
      BY <1>7, <2>5, <3>1
    <3>3. /\ events[m - 1].at \in Nat /\ events[m].at \in Nat
          /\ events[i].at \in Nat /\ events[j].at \in Nat
      BY <1>6, <2>5, <3>1
    <3>4. events[i].at <= events[m - 1].at /\ events[m].at <= events[j].at
      BY <3>1, <3>3
    <3> QED
      BY <2>1, <3>2, <3>3, <3>4
  <2>9. events[m - 1].id < events[m].id
    BY <1>6, <2>5, <2>6, <2>8 DEF EarlierEvent
  <2>10. m - 1 \in 1 .. NumFactories
    BY <1>3, <2>5
  <2>11. /\ events[m - 1].id \in Nat /\ events[m].id \in Nat /\ events[i].id \in Nat
    BY <2>2, <2>5, <2>10
  <2> QED
    BY <2>5, <2>7, <2>9, <2>11
<1> DEFINE g == [i \in 1 .. NumFactories |-> events[i].id]
<1>9. g \in Injection(1 .. NumFactories, FactoryIds)
  <2>1. g \in [1 .. NumFactories -> FactoryIds]
    BY <1>6
  <2>2. \A a, b \in 1 .. NumFactories : g[a] = g[b] => a = b
    BY <1>3, <1>8
  <2> QED
    BY <2>1, <2>2 DEF Injection, IsInjective
<1>10. g \in Surjection(1 .. NumFactories, FactoryIds)
  <2>1. /\ IsFiniteSet(FactoryIds) /\ Cardinality(FactoryIds) = NumFactories
        /\ Cardinality(1 .. NumFactories) = NumFactories
    BY <1>3, FS_Interval DEF FactoryIds
  <2> HIDE DEF g
  <2> QED
    BY <1>9, <2>1, FS_Injection
<1>11. ASSUME NEW f \in FactoryIds PROVE OneOutcome(events, f)
  <2>1. PICK i \in 1 .. NumFactories : g[i] = f
    BY <1>10 DEF Surjection
  <2>2. \A j \in 1 .. NumFactories : events[j].id = f <=> j = i
    BY <1>3, <1>8, <2>1
  <2>3. PlacesOf(events, f) = {i}
    BY <1>3, <1>6, <2>2 DEF PlacesOf, IsOutcomeOf
  <2> QED
    BY <1>3, <2>3 DEF OneOutcome
<1> QED
  BY <1>11 DEF Busy

(* start_factory follows every outcome. *)
LEMMA RestartStep ==
  ASSUME TypeOK, Busy, NEW t \in {"produced", "failed"}, Due(t),
         StartFactory(Head(events).id)
  PROVE  Busy'
<1>1. PICK draw \in Draws :
        events' = Scheduled(Tail(events), FactoryOutcome(Head(events).id, draw, now))
  BY DEF StartFactory
<1> DEFINE own == Head(events).id
           e == FactoryOutcome(own, draw, now)
<1>2. own \in FactoryIds /\ Tail(events) \in Seq(Event) /\ events \in Seq(Event)
  BY HeadEvent, EventsType
<1>3. events # <<>> /\ IsOutcomeOf(Head(events), own)
  BY DEF Due, IsOutcomeOf, IsOutcome
<1>4. e \in FactoryEvent
  BY <1>2, EventsType, FactoryOutcomeType
<1>5. e \in Event /\ IsOutcome(e) /\ e.id = own
  BY <1>4 DEF FactoryOutcome, FactoryEvent, Event, IsOutcome
<1>6. events' = Scheduled(Tail(events), e)
  BY <1>1
<1> HIDE DEF e
<1>7. ASSUME NEW f \in FactoryIds PROVE OneOutcome(events', f)
  <2>1. OneOutcome(events, f)
    BY DEF Busy
  <2>2. CASE f = own
    <3>1. PlacesOf(Tail(events), f) = {}
      BY <1>2, <1>3, <2>1, <2>2, Popped
    <3>2. OneOutcome(Scheduled(Tail(events), e), f)
      BY <1>2, <1>5, <2>2, <3>1, ScheduledOwn DEF IsOutcomeOf
    <3> QED
      BY <1>6, <3>2
  <2>3. CASE f # own
    <3>1. OneOutcome(Tail(events), f)
      BY <1>2, <1>3, <2>1, <2>3, Popped DEF IsOutcomeOf
    <3>2. OneOutcome(Scheduled(Tail(events), e), f)
      BY <1>2, <1>5, <2>3, <3>1, ScheduledOther DEF IsOutcomeOf
    <3> QED
      BY <1>6, <3>2
  <2> QED
    BY <2>2, <2>3
<1> QED
  BY <1>7 DEF Busy

LEMMA BusyStep == TypeOK /\ Busy /\ [Next]_vars => Busy'
<1> SUFFICES ASSUME TypeOK, Busy, [Next]_vars PROVE Busy'
  OBVIOUS
<1>a. events \in Seq(Event) /\ now \in Nat
  BY EventsType
<1>1. CASE UNCHANGED events
  BY <1>1 DEF Busy
<1>2. CASE FactoryProduced \/ FactoryFailed
  BY <1>2, RestartStep DEF FactoryProduced, FactoryFailed
<1>3. ASSUME NEW t \in {"gate", "hook"}, Due(t), NEW f \in FactoryIds
      PROVE  OneOutcome(Tail(events), f) /\ Tail(events) \in Seq(Event)
  <2>1. events # <<>> /\ ~IsOutcomeOf(Head(events), f)
    BY <1>3 DEF Due, IsOutcomeOf, IsOutcome
  <2>2. OneOutcome(events, f)
    BY DEF Busy
  <2> QED
    BY <1>3, <1>a, <2>1, <2>2, Popped, HeadEvent
<1>4. CASE InjectionError \/ GateCompleted \/ MeasuredInstant \/ HookActivation
  <2>1. events' = Tail(events) /\ (Due("gate") \/ Due("hook"))
    BY <1>4 DEF InjectionError, GateCompleted, MeasuredInstant, HookActivation
  <2> QED
    BY <1>3, <2>1 DEF Busy
<1>5. CASE MeasuredDeferred
  <2>1. PICK o \in Outcomes :
          events' = Scheduled(Tail(events), [at |-> now + input.feedback,
                      type |-> "hook", id |-> Head(events).id, outcome |-> o])
    BY <1>5 DEF MeasuredDeferred
  <2> DEFINE e == [at |-> now + input.feedback,
                   type |-> "hook", id |-> Head(events).id, outcome |-> o]
  <2>2. Due("gate") /\ Head(events).id \in HookedOps
    BY <1>5 DEF MeasuredDeferred, HookedOps
  <2>3. input.feedback \in Nat
    BY DEF TypeOK, Input
  <2>4. e \in Event
    BY <1>a, <2>2, <2>3 DEF Event, HookEvent
  <2>5. \A f \in FactoryIds : ~IsOutcomeOf(e, f)
    BY DEF IsOutcomeOf, IsOutcome
  <2>6. events' = Scheduled(Tail(events), e)
    BY <2>1
  <2> HIDE DEF e
  <2> QED
    BY <1>3, <2>2, <2>4, <2>5, <2>6, ScheduledOther DEF Busy
<1>6. ASSUME NEW k \in Known, events' = Scheduled(events, GateCompletion(k))
      PROVE  Busy'
  <2>1. TotalGateCost(k) \in Nat
    BY CostType
  <2>2. GateCompletion(k) \in Event
    BY <1>a, <2>1 DEF GateCompletion, Event, GateEvent
  <2>3. \A f \in FactoryIds : ~IsOutcomeOf(GateCompletion(k), f)
    BY DEF GateCompletion, IsOutcomeOf, IsOutcome
  <2> QED
    BY <1>6, <1>a, <2>2, <2>3, ScheduledOther DEF Busy
<1>7. CASE ServeStalled
  <2>1. stalled # <<>> /\ events' = Scheduled(events, GateCompletion(Head(stalled).gate))
    BY <1>7 DEF ServeStalled, Serve
  <2>2. Head(stalled).gate \in Known
    BY <2>1, StalledTail
  <2> QED
    BY <1>6, <2>1, <2>2
<1>8. CASE ServeReady \/ ScheduleReady
  <2>1. /\ ready # <<>> /\ ready \in Seq(Known)
        /\ events' = Scheduled(events, GateCompletion(Head(ready)))
    BY <1>8 DEF ServeReady, ScheduleReady, Serve, TypeOK
  <2>2. Head(ready) \in Known
    BY <2>1, HeadTailProperties
  <2> QED
    BY <1>6, <2>1, <2>2
<1> QED
  BY <1>1, <1>2, <1>4, <1>5, <1>7, <1>8
  DEF Next, vars, Finish, Truncate, BeginStep, EndEvents, EndServe, StallReady, EndStep,
      Returned

(* No factory is forgotten, whatever its last attempt came to, and none is *)
(* started twice: Engine::new and start_factory keep exactly one outcome   *)
(* of each factory in the event queue.                                     *)
THEOREM FactoriesStayBusy == Spec => []FactoriesBusy
<1>1. Busy => FactoriesBusy
  <2> SUFFICES ASSUME Busy, NEW f \in FactoryIds
               PROVE  Cardinality({i \in DOMAIN events :
                        events[i].type \in {"produced", "failed"} /\ events[i].id = f}) = 1
    BY DEF FactoriesBusy
  <2>1. PICK i \in DOMAIN events : PlacesOf(events, f) = {i}
    BY DEF Busy, OneOutcome
  <2> QED
    BY <2>1, FS_Singleton DEF PlacesOf, IsOutcomeOf, IsOutcome
<1> QED
  BY <1>1, BusyInit, BusyStep, TypeCorrect, PTL DEF Spec
=============================================================================
