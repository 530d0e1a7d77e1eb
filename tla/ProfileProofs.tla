---------------------------- MODULE ProfileProofs ----------------------------
(***************************************************************************)
(* Proofs about what a profile tells of the run it was made from.          *)
(***************************************************************************)
EXTENDS ExecutionProofs, ProfileProperties

-----------------------------------------------------------------------------
(* One pass over a trace. *)

(* What analyze does with the record e. *)
Absorb(acc, e, cycles, res) ==
  Observe(acc, e, Bucket(e.cycle, cycles, res), cycles, res)

(* What analyze holds after all of tr. *)
Folded(tr, cycles, res) ==
  FoldLeft(LAMBDA acc, e : Observe(acc, e, Bucket(e.cycle, cycles, res), cycles, res),
           Empty(cycles, FactoryIds, res), tr)

(* a[i] is what analyze holds after the first i records of tr. *)
Pass(a, tr, cycles, res) ==
  /\ a[0] = Empty(cycles, FactoryIds, res)
  /\ \A i \in 1 .. Len(tr) : a[i] = Absorb(a[i - 1], tr[i], cycles, res)

LEMMA LargestOf ==
  ASSUME NEW m \in Nat, NEW s \in SUBSET (1 .. m), m \in s
  PROVE  Max(s) = m
<1>1. \A y \in s : m >= y
  OBVIOUS
<1>2. \A x \in s : (\A y \in s : x >= y) => x = m
  OBVIOUS
<1> QED
  BY <1>1, <1>2 DEF Max

(* FoldLeft is that pass. *)
LEMMA PassExists ==
  ASSUME NEW R, NEW tr \in Seq(R), NEW cycles, NEW res
  PROVE  \E a : Pass(a, tr, cycles, res) /\ Folded(tr, cycles, res) = a[Len(tr)]
<1> DEFINE base == Empty(cycles, FactoryIds, res)
           F(g, s) == IF s = {} THEN base
                      ELSE Absorb(g[s \ {Max(s)}], tr[Max(s)], cycles, res)
           IsIter(g, m) == g = [s \in SUBSET (1 .. m) |-> F(g, s)]
           Missing == {m \in Nat : ~\E g : IsIter(g, m)}
<1> HIDE DEF base
<1>1. DOMAIN tr = 1 .. Len(tr) /\ Len(tr) \in Nat
  BY LenProperties
<1>2. \E g : IsIter(g, 0)
  <2>1. IsIter([s \in SUBSET (1 .. 0) |-> base], 0)
    OBVIOUS
  <2> QED
    BY <2>1
<1>3. ASSUME NEW m \in Nat \ {0}, NEW g, IsIter(g, m - 1)
      PROVE  \E h : IsIter(h, m)
  <2> DEFINE h == [s \in SUBSET (1 .. m) |->
                     IF m \in s THEN Absorb(g[s \ {m}], tr[m], cycles, res) ELSE g[s]]
  <2>1. ASSUME NEW s \in SUBSET (1 .. m), m \in s PROVE h[s] = F(h, s)
    <3>1. Max(s) = m /\ s # {}
      BY <2>1, LargestOf
    <3>2. h[s \ {m}] = g[s \ {m}]
      OBVIOUS
    <3>3. h[s] = Absorb(g[s \ {m}], tr[m], cycles, res)
      BY <2>1
    <3> QED
      BY <3>1, <3>2, <3>3
  <2>2. ASSUME NEW s \in SUBSET (1 .. m), m \notin s PROVE h[s] = F(h, s)
    <3>1. s \in SUBSET (1 .. m - 1)
      BY <2>2
    <3>2. h[s] = F(g, s)
      <4>1. h[s] = g[s]
        BY <2>2
      <4> HIDE DEF h, F
      <4> QED
        BY <1>3, <3>1, <4>1
    <3>3. h[s \ {Max(s)}] = g[s \ {Max(s)}]
      BY <2>2
    <3> HIDE DEF h
    <3> QED
      BY <3>2, <3>3
  <2>3. IsIter(h, m)
    <3>1. \A s \in SUBSET (1 .. m) : h[s] = F(h, s)
      BY <2>1, <2>2
    <3>2. h = [s \in SUBSET (1 .. m) |-> h[s]]
      OBVIOUS
    <3> HIDE DEF h, F
    <3> QED
      BY <3>1, <3>2
  <2> HIDE DEF h, IsIter
  <2> QED
    BY <2>3
<1>4. Missing = {}
  <2> SUFFICES ASSUME Missing # {} PROVE FALSE
    OBVIOUS
  <2> HIDE DEF IsIter
  <2>1. PICK m \in Missing : \A n \in Missing : m <= n
    BY LeastNumber
  <2>2. m \in Nat \ {0}
    BY <1>2, <2>1
  <2>3. m - 1 \in Nat /\ m - 1 \notin Missing
    BY <2>1, <2>2
  <2>4. PICK g : IsIter(g, m - 1)
    BY <2>3
  <2> QED
    BY <1>3, <2>1, <2>2, <2>4
<1> DEFINE iter == CHOOSE g : IsIter(g, Len(tr))
<1>5. IsIter(iter, Len(tr))
  <2> HIDE DEF IsIter
  <2> QED
    BY <1>1, <1>4
<1>6. Folded(tr, cycles, res) = iter[1 .. Len(tr)]
  BY <1>1 DEF Folded, FoldLeft, MapThenFoldSet, Absorb, base
<1> HIDE DEF iter
<1> DEFINE a == [i \in 0 .. Len(tr) |-> iter[1 .. i]]
<1>7. \A s \in SUBSET (1 .. Len(tr)) : iter[s] = F(iter, s)
  <2> HIDE DEF F
  <2> QED
    BY <1>5
<1>8. a[0] = base
  <2>1. 1 .. 0 = {} /\ a[0] = iter[1 .. 0]
    BY <1>1
  <2> QED
    BY <1>7, <2>1
<1>9. ASSUME NEW i \in 1 .. Len(tr)
      PROVE  a[i] = Absorb(a[i - 1], tr[i], cycles, res)
  <2>1. 1 .. i \in SUBSET (1 .. Len(tr)) /\ 1 .. i # {} /\ i \in Nat /\ i \in 1 .. i
    <3>1. i \in Nat /\ i <= Len(tr) /\ i \in 1 .. i
      BY <1>1
    <3>2. \A j \in 1 .. i : j \in 1 .. Len(tr)
      BY <1>1, <3>1
    <3> QED
      BY <3>1, <3>2
  <2>2. Max(1 .. i) = i
    BY <2>1, LargestOf
  <2>3. (1 .. i) \ {i} = 1 .. (i - 1)
    BY <2>1
  <2>4. iter[1 .. i] = Absorb(iter[1 .. (i - 1)], tr[i], cycles, res)
    BY <1>7, <2>1, <2>2, <2>3
  <2> QED
    BY <1>1, <2>4
<1>10. a[Len(tr)] = iter[1 .. Len(tr)]
  BY <1>1
<1> HIDE DEF a
<1>11. Pass(a, tr, cycles, res)
  BY <1>8, <1>9 DEF Pass, base
<1> QED
  BY <1>6, <1>10, <1>11 DEF base

-----------------------------------------------------------------------------
(* The stalls a profile lists. *)

TraceKinds ==
  {"started", "produced", "failed", "enqueue", "full", "dequeue", "stalled", "served",
   "routed", "completed", "error", "fixup", "fixup_completed"}
TraceRecord == [cycle : Nat, kind : TraceKinds, id : Nat, n : Nat]
StallEntry == [cycle : Nat, gate : Nat, wait : Nat]

IsStall(e) == e.kind = "served" /\ e.n > 0
Entry(e) == [cycle |-> e.cycle, gate |-> e.id, wait |-> e.n]

(* The positions up to i of the records that analyze lists as stalls. *)
Listed(tr, i) == {j \in 1 .. i : IsStall(tr[j])}

LEMMA AppendElements ==
  ASSUME NEW S, NEW q \in Seq(S), NEW x \in S
  PROVE  /\ Append(q, x) \in Seq(S) /\ Len(Append(q, x)) = Len(q) + 1
         /\ ToSet(Append(q, x)) = ToSet(q) \cup {x}
<1>1. DOMAIN q = 1 .. Len(q) /\ Len(q) \in Nat
  BY LenProperties
<1>2. /\ Append(q, x) \in Seq(S) /\ Len(Append(q, x)) = Len(q) + 1
      /\ \A i \in 1 .. Len(q) : Append(q, x)[i] = q[i]
      /\ Append(q, x)[Len(q) + 1] = x
      /\ DOMAIN Append(q, x) = 1 .. Len(q) + 1
  BY <1>1, AppendProperties, LenProperties
<1> QED
  BY <1>1, <1>2 DEF ToSet

LEMMA AbsorbStalls ==
  ASSUME NEW acc, "stalls" \in DOMAIN acc, NEW e, NEW cycles, NEW res
  PROVE  /\ "stalls" \in DOMAIN Absorb(acc, e, cycles, res)
         /\ IsStall(e) => Absorb(acc, e, cycles, res).stalls = Append(acc.stalls, Entry(e))
         /\ ~IsStall(e) => Absorb(acc, e, cycles, res).stalls = acc.stalls
<1>1. CASE e.kind = "served"
  BY <1>1 DEF Absorb, Observe, Served, Stalled, IsStall, Entry
<1>2. CASE e.kind # "served"
  BY <1>2 DEF Absorb, Observe, IsStall
<1> QED
  BY <1>1, <1>2

(* What the pass has listed of the first i records. *)
ListsUpto(a, tr, i) ==
  /\ "stalls" \in DOMAIN a[i] /\ a[i].stalls \in Seq(StallEntry)
  /\ ToSet(a[i].stalls) = {Entry(tr[j]) : j \in Listed(tr, i)}
  /\ IsFiniteSet(Listed(tr, i)) /\ Len(a[i].stalls) = Cardinality(Listed(tr, i))

LEMMA ListedOnce ==
  ASSUME NEW tr \in Seq(TraceRecord), NEW cycles, NEW res, NEW a, Pass(a, tr, cycles, res),
         NEW i \in 0 .. Len(tr)
  PROVE  ListsUpto(a, tr, i)
<1> DEFINE Good(m) == ListsUpto(a, tr, m)
           Bad == {m \in 0 .. Len(tr) : ~Good(m)}
<1>1. Len(tr) \in Nat
  BY LenProperties
<1>2. Good(0)
  <2>1. "stalls" \in DOMAIN a[0] /\ a[0].stalls = <<>>
    BY DEF Pass, Empty
  <2>2. Listed(tr, 0) = {}
    BY DEF Listed
  <2>3. <<>> \in Seq(StallEntry) /\ Len(<<>>) = 0 /\ ToSet(<<>>) = {}
    BY DEF ToSet
  <2>4. IsFiniteSet({}) /\ Cardinality({}) = 0
    BY FS_EmptySet
  <2> QED
    BY <2>1, <2>2, <2>3, <2>4 DEF ListsUpto
<1>3. ASSUME NEW m \in 1 .. Len(tr), Good(m - 1) PROVE Good(m)
  <2> DEFINE e == tr[m]
             old == a[m - 1]
  <2>0. /\ "stalls" \in DOMAIN old /\ old.stalls \in Seq(StallEntry)
        /\ ToSet(old.stalls) = {Entry(tr[j]) : j \in Listed(tr, m - 1)}
        /\ IsFiniteSet(Listed(tr, m - 1))
        /\ Len(old.stalls) = Cardinality(Listed(tr, m - 1))
    BY <1>3 DEF ListsUpto
  <2>1. e \in TraceRecord /\ m \in Nat /\ m # 0
    BY <1>1, ElementOfSeq
  <2>2. a[m] = Absorb(old, e, cycles, res)
    BY DEF Pass
  <2>3. CASE ~IsStall(e)
    <3>1. "stalls" \in DOMAIN a[m] /\ a[m].stalls = old.stalls
      BY <2>0, <2>2, <2>3, AbsorbStalls
    <3>2. Listed(tr, m) = Listed(tr, m - 1)
      BY <1>1, <2>1, <2>3 DEF Listed
    <3> QED
      BY <2>0, <3>1, <3>2 DEF ListsUpto
  <2>4. CASE IsStall(e)
    <3>1. "stalls" \in DOMAIN a[m] /\ a[m].stalls = Append(old.stalls, Entry(e))
      BY <2>0, <2>2, <2>4, AbsorbStalls
    <3>2. Entry(e) \in StallEntry
      BY <2>1 DEF Entry, TraceRecord, StallEntry
    <3>3. Listed(tr, m) = Listed(tr, m - 1) \cup {m} /\ m \notin Listed(tr, m - 1)
      BY <1>1, <2>1, <2>4 DEF Listed
    <3>4. /\ IsFiniteSet(Listed(tr, m))
          /\ Cardinality(Listed(tr, m)) = Cardinality(Listed(tr, m - 1)) + 1
      <4>1. IsFiniteSet(Listed(tr, m - 1))
        BY <2>0
      <4> QED
        BY <3>3, <4>1, FS_AddElement
    <3>5. /\ a[m].stalls \in Seq(StallEntry)
          /\ Len(a[m].stalls) = Len(old.stalls) + 1
          /\ ToSet(a[m].stalls) = ToSet(old.stalls) \cup {Entry(e)}
      <4> HIDE DEF old
      <4> QED
        BY <2>0, <3>1, <3>2, AppendElements DEF old
    <3>6. {Entry(tr[j]) : j \in Listed(tr, m)}
            = {Entry(tr[j]) : j \in Listed(tr, m - 1)} \cup {Entry(e)}
      BY <3>3
    <3> QED
      BY <2>0, <3>1, <3>4, <3>5, <3>6 DEF ListsUpto
  <2> QED
    BY <2>3, <2>4
<1>4. Bad = {}
  <2> SUFFICES ASSUME Bad # {} PROVE FALSE
    OBVIOUS
  <2> HIDE DEF Good
  <2>0. Bad \subseteq Nat
    BY <1>1
  <2>1. PICK m \in Bad : \A n \in Bad : m <= n
    BY <2>0, LeastNumber
  <2>2. m \in 1 .. Len(tr) /\ ~Good(m)
    BY <1>1, <1>2, <2>1
  <2>3. m - 1 \in 0 .. Len(tr) /\ m - 1 \notin Bad
    BY <1>1, <2>1, <2>2
  <2> QED
    BY <1>3, <2>2, <2>3
<1> QED
  BY <1>4

-----------------------------------------------------------------------------
(* The records of one kind in a growing trace. *)

Positions(tr, kind) == {i \in DOMAIN tr : tr[i].kind = kind}

LEMMA TraceGrows ==
  ASSUME NEW tr \in Seq(TraceRecord), NEW rs \in Seq(TraceRecord)
  PROVE  /\ tr \o rs \in Seq(TraceRecord) /\ Len(tr) \in Nat /\ Len(rs) \in Nat
         /\ DOMAIN tr = 1 .. Len(tr) /\ DOMAIN rs = 1 .. Len(rs)
         /\ DOMAIN (tr \o rs) = 1 .. Len(tr) + Len(rs)
         /\ \A i \in DOMAIN tr : (tr \o rs)[i] = tr[i]
         /\ \A i \in DOMAIN rs : (tr \o rs)[Len(tr) + i] = rs[i]
         /\ \A i \in DOMAIN (tr \o rs) : i \in DOMAIN tr \/ i - Len(tr) \in DOMAIN rs
<1>1. /\ tr \o rs \in Seq(TraceRecord) /\ Len(tr) \in Nat /\ Len(rs) \in Nat
      /\ DOMAIN tr = 1 .. Len(tr) /\ DOMAIN rs = 1 .. Len(rs)
      /\ Len(tr \o rs) = Len(tr) + Len(rs)
      /\ \A i \in 1 .. Len(tr) + Len(rs) :
           (tr \o rs)[i] = IF i <= Len(tr) THEN tr[i] ELSE rs[i - Len(tr)]
  BY ConcatProperties, LenProperties
<1>2. DOMAIN (tr \o rs) = 1 .. Len(tr) + Len(rs)
  BY <1>1, LenProperties
<1>3. \A i \in DOMAIN tr : (tr \o rs)[i] = tr[i]
  BY <1>1
<1>4. \A i \in DOMAIN rs : (tr \o rs)[Len(tr) + i] = rs[i]
  BY <1>1
<1>5. \A i \in DOMAIN (tr \o rs) : i \in DOMAIN tr \/ i - Len(tr) \in DOMAIN rs
  BY <1>1, <1>2
<1> QED
  BY <1>1, <1>2, <1>3, <1>4, <1>5

LEMMA KindKept ==
  ASSUME NEW tr \in Seq(TraceRecord), NEW rs \in Seq(TraceRecord), NEW kind,
         \A i \in DOMAIN rs : rs[i].kind # kind
  PROVE  Positions(tr \o rs, kind) = Positions(tr, kind)
<1>1. /\ DOMAIN tr = 1 .. Len(tr) /\ Len(tr) \in Nat /\ Len(rs) \in Nat
      /\ DOMAIN (tr \o rs) = 1 .. Len(tr) + Len(rs)
      /\ \A i \in DOMAIN tr : (tr \o rs)[i] = tr[i]
  BY TraceGrows
<1>2. \A i \in DOMAIN (tr \o rs) : i \in DOMAIN tr \/ (tr \o rs)[i].kind # kind
  <2>1. TAKE i \in DOMAIN (tr \o rs)
  <2>2. CASE i - Len(tr) \in DOMAIN rs
    <3>1. (tr \o rs)[Len(tr) + (i - Len(tr))] = rs[i - Len(tr)]
      BY <2>2, TraceGrows
    <3>2. Len(tr) + (i - Len(tr)) = i
      BY <1>1
    <3> QED
      BY <2>2, <3>1, <3>2
  <2> QED
    BY <2>2, TraceGrows
<1>3. DOMAIN tr \subseteq DOMAIN (tr \o rs)
  BY <1>1
<1> QED
  BY <1>1, <1>2, <1>3 DEF Positions

(* At q, all has one more record of this kind than tr, which is e. *)
OneMore(all, tr, kind, q, e) ==
  /\ Positions(all, kind) = Positions(tr, kind) \cup {q}
  /\ q \notin DOMAIN tr /\ all[q] = e

LEMMA KindAdded ==
  ASSUME NEW tr \in Seq(TraceRecord), NEW rs \in Seq(TraceRecord), NEW kind,
         NEW p \in DOMAIN rs, \A i \in DOMAIN rs : rs[i].kind = kind <=> i = p
  PROVE  \E q : OneMore(tr \o rs, tr, kind, q, rs[p])
<1>a. rs[p].kind = kind /\ \A i \in DOMAIN rs : i # p => rs[i].kind # kind
  OBVIOUS
<1>1. /\ DOMAIN tr = 1 .. Len(tr) /\ Len(tr) \in Nat /\ Len(rs) \in Nat
      /\ DOMAIN rs = 1 .. Len(rs) /\ DOMAIN (tr \o rs) = 1 .. Len(tr) + Len(rs)
      /\ \A i \in DOMAIN tr : (tr \o rs)[i] = tr[i]
      /\ (tr \o rs)[Len(tr) + p] = rs[p]
  BY TraceGrows
<1>2. \A i \in DOMAIN (tr \o rs) :
        i \in DOMAIN tr \/ i = Len(tr) + p \/ (tr \o rs)[i].kind # kind
  <2>1. TAKE i \in DOMAIN (tr \o rs)
  <2>2. CASE i - Len(tr) \in DOMAIN rs
    <3>1. (tr \o rs)[Len(tr) + (i - Len(tr))] = rs[i - Len(tr)]
      BY <2>2, TraceGrows
    <3>2. Len(tr) + (i - Len(tr)) = i /\ (i - Len(tr) = p => i = Len(tr) + p)
      BY <1>1
    <3> QED
      BY <1>a, <2>2, <3>1, <3>2
  <2> QED
    BY <2>2, TraceGrows
<1>3. DOMAIN tr \subseteq DOMAIN (tr \o rs) /\ Len(tr) + p \in DOMAIN (tr \o rs)
      /\ Len(tr) + p \notin DOMAIN tr
  BY <1>1
<1> QED
  BY <1>a, <1>1, <1>2, <1>3 DEF Positions, OneMore

-----------------------------------------------------------------------------
(* Where the gates are that a trace tells of. *)

StallAt == Positions(trace, "stalled")
ServiceAt == Positions(trace, "served")
Departed == Flying \cup finished

(* What a step that starts or stalls an operation does to it. *)
LEMMA Departs ==
  ASSUME TypeOK, Placed, Activations, NEW k \in Known, k \in Queued \cup Stalling,
         events' = Scheduled(events, GateCompletion(k)), finished' = finished
  PROVE  Departed' = Departed \cup {k} /\ k \notin Departed
<1>1. k \notin Flying /\ k \notin finished
  BY DEF Placed
<1> QED
  BY <1>1, CompletionScheduled DEF Departed, Flying

LEMMA ServedStalled ==
  ASSUME TypeOK, Placed, Activations, ServeStalled
  PROVE  /\ Head(stalled).gate \in Known
         /\ Departed' = Departed \cup {Head(stalled).gate}
         /\ Stalling \subseteq Stalling' \cup {Head(stalled).gate}
<1> DEFINE k == Head(stalled).gate
<1>1. /\ stalled \in Seq([gate : Known, since : Nat]) /\ stalled # <<>>
      /\ stalled' = Tail(stalled) /\ finished' = finished
      /\ events' = Scheduled(events, GateCompletion(k))
  BY DEF TypeOK, ServeStalled, Serve, countVars
<1>2. /\ GatesOf(stalled) \in Seq(Known) /\ (GatesOf(stalled) = <<>> <=> stalled = <<>>)
  BY <1>1, GatesOfQueue
<1>3. Head(GatesOf(stalled)) = k /\ GatesOf(stalled') = Tail(GatesOf(stalled))
  BY <1>1, GatesOfTail
<1>4. IsInjective(GatesOf(stalled)) /\ GatesOf(stalled) # <<>>
  BY <1>1, <1>2 DEF Placed
<1>5. k \in Known /\ k \in Stalling /\ Stalling' = Stalling \ {k}
  BY <1>2, <1>3, <1>4, QueueTail, HeadTailProperties DEF Stalling
<1> HIDE DEF k
<1>6. Departed' = Departed \cup {k}
  BY <1>1, <1>5, Departs
<1> QED
  BY <1>5, <1>6 DEF k

LEMMA TookReady ==
  ASSUME TypeOK, Placed, Activations, ready # <<>>, ready' = Tail(ready)
  PROVE  Head(ready) \in Known /\ Head(ready) \in Queued
<1>1. ready \in Seq(Known) /\ IsInjective(ready)
  BY DEF TypeOK, Placed
<1> QED
  BY <1>1, QueueTail, HeadTailProperties DEF Queued

LEMMA StartedReady ==
  ASSUME TypeOK, Placed, Activations, ServeReady \/ ScheduleReady
  PROVE  /\ Head(ready) \in Known /\ Head(ready) \in Queued
         /\ Departed' = Departed \cup {Head(ready)}
         /\ stalled' = stalled
<1> DEFINE k == Head(ready)
<1>1. /\ ready # <<>> /\ ready' = Tail(ready) /\ finished' = finished /\ stalled' = stalled
      /\ events' = Scheduled(events, GateCompletion(k))
  BY DEF ServeReady, ScheduleReady, Serve, countVars
<1>2. k \in Known /\ k \in Queued
  BY <1>1, TookReady
<1> HIDE DEF k
<1>3. Departed' = Departed \cup {k}
  BY <1>1, <1>2, Departs
<1> QED
  BY <1>1, <1>2, <1>3 DEF k

LEMMA StalledReady ==
  ASSUME TypeOK, Placed, Activations, StallReady
  PROVE  /\ Head(ready) \in Known /\ Head(ready) \in Queued
         /\ Departed' = Departed /\ Stalling' = Stalling \cup {Head(ready)}
<1> DEFINE entry == [gate |-> Head(ready), since |-> now]
<1>1. /\ ready # <<>> /\ ready' = Tail(ready) /\ finished' = finished /\ events' = events
      /\ stalled' = Append(stalled, entry) /\ now \in Nat
      /\ stalled \in Seq([gate : Known, since : Nat])
  BY DEF StallReady, countVars, TypeOK
<1>2. Head(ready) \in Known /\ Head(ready) \in Queued
  BY <1>1, TookReady
<1>3. entry \in [gate : Known, since : Nat] /\ entry.gate = Head(ready)
  BY <1>1, <1>2
<1> HIDE DEF entry
<1>4. GatesOf(stalled') = Append(GatesOf(stalled), Head(ready))
  BY <1>1, <1>3, GatesOfAppend
<1>5. GatesOf(stalled) \in Seq(Known)
  BY <1>1, GatesOfQueue
<1>6. Stalling' = Stalling \cup {Head(ready)}
  BY <1>2, <1>4, <1>5, AppendElements DEF Stalling
<1>7. Departed' = Departed
  BY <1>1 DEF Departed, Flying
<1> QED
  BY <1>2, <1>6, <1>7

(* The steps of phase 1 and those that lead from one phase to the next     *)
(* start nothing and stall nothing.                                        *)
Settled ==
  Elsewhere \/ InjectionError \/ GateCompleted \/ MeasuredDeferred \/ MeasuredInstant
    \/ HookActivation

LEMMA DepartedStay ==
  ASSUME TypeOK, Placed, Activations, Settled
  PROVE  Departed \subseteq Departed' /\ stalled' = stalled
<1>1. CASE Elsewhere
  <2>1. /\ UNCHANGED <<ready, stalled, finished>> /\ IssuedOps' = IssuedOps /\ Placed'
    BY <1>1, ElsewherePlaced DEF countVars
  <2>2. Queued' = Queued /\ Stalling' = Stalling
    BY <2>1 DEF Queued, Stalling
  <2> QED
    BY <2>1, <2>2 DEF Placed, IssuedOps, Departed
<1>2. CASE InjectionError \/ GateCompleted \/ MeasuredInstant
  <2>1. /\ finished' = finished \cup {Head(events).id} /\ events' = Tail(events) /\ Due("gate")
        /\ stalled' = stalled
    BY <1>2 DEF InjectionError, GateCompleted, MeasuredInstant, CountCompletion
  <2>2. Flying' = Flying \ {Head(events).id}
    BY <2>1, CompletionPopped DEF Flying
  <2> QED
    BY <2>1, <2>2 DEF Departed
<1>3. CASE MeasuredDeferred
  <2>1. /\ finished' = finished \cup {Head(events).id} /\ Due("gate") /\ stalled' = stalled
        /\ Head(events).id \in HookedOps
    BY <1>3 DEF MeasuredDeferred, CountCompletion, HookedOps
  <2>2. PICK o \in Outcomes :
          events' = Scheduled(Tail(events), [at |-> now + input.feedback, type |-> "hook",
                                             id |-> Head(events).id, outcome |-> o])
    BY <1>3 DEF MeasuredDeferred
  <2>3. Flying' = Flying \ {Head(events).id}
    BY <2>1, <2>2, ActivationScheduled DEF Flying
  <2> QED
    BY <2>1, <2>3 DEF Departed
<1>4. CASE HookActivation
  <2>1. finished' = finished /\ events' = Tail(events) /\ Due("hook") /\ stalled' = stalled
    BY <1>4 DEF HookActivation, countVars
  <2>2. Flying' = Flying
    BY <2>1, ActivationPopped DEF Flying
  <2> QED
    BY <2>1, <2>2 DEF Departed
<1> QED
  BY <1>1, <1>2, <1>3, <1>4 DEF Settled

-----------------------------------------------------------------------------
(* What the steps record. *)

(* The records that tell of neither a stall nor a service. *)
QuietRecord == {e \in TraceRecord : e.kind \notin {"stalled", "served"}}

LEMMA RecType ==
  ASSUME TypeOK, NEW kind \in TraceKinds, NEW id \in Nat, NEW n \in Nat
  PROVE  /\ Rec(kind, id, n) \in TraceRecord
         /\ kind \notin {"stalled", "served"} => Rec(kind, id, n) \in QuietRecord
BY DEF TypeOK, Rec, TraceRecord, QuietRecord

LEMMA QuietSeq ==
  ASSUME NEW rs \in Seq(QuietRecord)
  PROVE  /\ rs \in Seq(TraceRecord)
         /\ \A i \in DOMAIN rs : rs[i].kind \notin {"stalled", "served"}
<1>1. \A i \in DOMAIN rs : rs[i] \in QuietRecord
  BY ElementOfSeq, LenProperties
<1>2. rs \in Seq(TraceRecord)
  BY DEF QuietRecord
<1> QED
  BY <1>1, <1>2 DEF QuietRecord

(* Operations and factories are numbered. *)
LEMMA NumbersOf ==
  ASSUME TypeOK
  PROVE  /\ Known \subseteq Nat /\ FactoryIds \subseteq Nat
         /\ \A i \in Nat : FixupKey(i) \in Nat
BY SizesAssumption, KnownKeys DEF Known, FactoryIds, FixupKey

LEMMA RoutingQuiet ==
  ASSUME TypeOK, NEW k \in Known
  PROVE  Routing(k) \in Seq(QuietRecord)
<1>1. QubitsOf(k) \in Ops
  <2>1. CASE k \in Ops
    BY <2>1 DEF QubitsOf
  <2>2. CASE k \notin Ops
    <3>1. k - NumOps \in 1 .. Len(fixups)
      BY <2>2, SizesAssumption, KnownKeys DEF Known, Ops
    <3>2. fixups[k - NumOps] \in Ops
      BY <3>1, ElementOfSeq DEF TypeOK
    <3> QED
      BY <2>2, <3>2 DEF QubitsOf
  <2> QED
    BY <2>1, <2>2
<1>2. input.route[QubitsOf(k)] \in Nat
  BY <1>1 DEF TypeOK, Input
<1>3. Rec("routed", k, input.route[QubitsOf(k)]) \in QuietRecord
  BY <1>2, NumbersOf, RecType DEF TraceKinds
<1>4. <<Rec("routed", k, input.route[QubitsOf(k)])>> \in Seq(QuietRecord)
  BY <1>3
<1>5. <<>> \in Seq(QuietRecord)
  OBVIOUS
<1> QED
  BY <1>4, <1>5 DEF Routing

LEMMA CompletionQuiet ==
  ASSUME TypeOK, NEW k \in Known
  PROVE  Completion(k) \in Seq(QuietRecord)
<1>1. k \in Nat
  BY NumbersOf
<1>2. Rec("fixup_completed", k, 0) \in QuietRecord /\ Rec("completed", k, 0) \in QuietRecord
  BY <1>1, RecType DEF TraceKinds
<1> QED
  BY <1>2 DEF Completion

(* The steps that neither stall nor serve a gate. *)
QuietSteps ==
  \/ TracedProduced \/ TracedFailed \/ TracedInjection \/ TracedCompletion
  \/ TracedScheduleReady \/ UNCHANGED trace

LEMMA QuietRecords ==
  ASSUME TypeOK, TypeOK', trace \in Seq(TraceRecord), QuietSteps
  PROVE  \E rs \in Seq(QuietRecord) : trace' = trace \o rs
<1>1. CASE TracedProduced
  <2> DEFINE f == Head(events).id
             x == Rec("produced", f, 0)
             y == IF occupancy < Capacity THEN Rec("enqueue", f, occupancy')
                                          ELSE Rec("full", f, 0)
             z == Rec("started", f, 0)
  <2>1. trace' = trace \o <<x, y, z>>
    BY <1>1 DEF TracedProduced, Record
  <2>2. f \in Nat /\ occupancy' \in Nat
    <3>1. f \in FactoryIds
      BY <1>1, HeadEvent DEF TracedProduced, FactoryProduced
    <3>2. occupancy' \in Nat
      BY DEF TypeOK
    <3> QED
      BY <3>1, <3>2, NumbersOf
  <2> HIDE DEF f
  <2>3. x \in QuietRecord /\ y \in QuietRecord /\ z \in QuietRecord
    BY <2>2, RecType DEF TraceKinds
  <2> HIDE DEF x, y, z
  <2>4. <<x, y, z>> \in Seq(QuietRecord)
    BY <2>3
  <2> QED
    BY <2>1, <2>4
<1>2. CASE TracedFailed
  <2> DEFINE f == Head(events).id
             x == Rec("failed", f, 0)
             y == Rec("started", f, 0)
  <2>1. trace' = trace \o <<x, y>>
    BY <1>2 DEF TracedFailed, Record
  <2>2. f \in Nat
    BY <1>2, HeadEvent, NumbersOf DEF TracedFailed, FactoryFailed
  <2> HIDE DEF f
  <2>3. x \in QuietRecord /\ y \in QuietRecord
    BY <2>2, RecType DEF TraceKinds
  <2> HIDE DEF x, y
  <2>4. <<x, y>> \in Seq(QuietRecord)
    BY <2>3
  <2> QED
    BY <2>1, <2>4
<1>3. CASE TracedInjection
  <2> DEFINE gate == Head(events).id
             x == Rec("error", gate, 0)
             y == Rec("fixup", FixupKey(Len(fixups')), 0)
  <2>1. trace' = trace \o (Completion(gate) \o <<x, y>>)
    BY <1>3 DEF TracedInjection, Record
  <2>2. gate \in Known
    BY <1>3, HeadEvent DEF TracedInjection, InjectionError
  <2>3. gate \in Nat /\ FixupKey(Len(fixups')) \in Nat
    <3>1. fixups' \in Seq(Ops)
      BY DEF TypeOK
    <3>2. Len(fixups') \in Nat
      BY <3>1, LenProperties
    <3> QED
      BY <2>2, <3>2, NumbersOf
  <2> HIDE DEF gate
  <2>4. x \in QuietRecord /\ y \in QuietRecord
    BY <2>3, RecType DEF TraceKinds
  <2>5. Completion(gate) \in Seq(QuietRecord)
    BY <2>2, CompletionQuiet
  <2> HIDE DEF x, y
  <2>6. <<x, y>> \in Seq(QuietRecord)
    BY <2>4
  <2>7. Completion(gate) \o <<x, y>> \in Seq(QuietRecord)
    BY <2>5, <2>6, ConcatProperties
  <2> QED
    BY <2>1, <2>7
<1>4. CASE TracedCompletion
  <2>1. trace' = trace \o Completion(Head(events).id)
    BY <1>4 DEF TracedCompletion, Record
  <2>2. Head(events).id \in Known
    BY <1>4, HeadEvent DEF TracedCompletion, GateCompleted, MeasuredDeferred, MeasuredInstant
  <2> QED
    BY <2>1, <2>2, CompletionQuiet
<1>5. CASE TracedScheduleReady
  <2>1. trace' = trace \o Routing(Head(ready))
    BY <1>5 DEF TracedScheduleReady, Record
  <2>2. Head(ready) \in Known
    BY <1>5, HeadTailProperties DEF TracedScheduleReady, ScheduleReady, TypeOK
  <2> QED
    BY <2>1, <2>2, RoutingQuiet
<1>6. CASE UNCHANGED trace
  <2>1. trace \o <<>> = trace
    BY ConcatEmptySeq
  <2>2. <<>> \in Seq(QuietRecord)
    OBVIOUS
  <2> QED
    BY <1>6, <2>1, <2>2
<1> QED
  BY <1>1, <1>2, <1>3, <1>4, <1>5, <1>6 DEF QuietSteps

(* A service is told by two records, then those of its routing. *)
LEMMA ServiceRecords ==
  ASSUME TypeOK, TypeOK', NEW gate \in Known, NEW wait \in Nat
  PROVE  LET rs == Service(gate, wait)
         IN  /\ rs \in Seq(TraceRecord)
             /\ 2 \in DOMAIN rs /\ rs[2] = Rec("served", gate, wait)
             /\ \A i \in DOMAIN rs : /\ rs[i].kind # "stalled"
                                     /\ i # 2 => rs[i].kind # "served"
<1> DEFINE x == Rec("dequeue", gate, occupancy')
           y == Rec("served", gate, wait)
           rs == Service(gate, wait)
<1>1. gate \in Nat /\ occupancy' \in Nat
  <2>1. occupancy' \in Nat
    BY DEF TypeOK
  <2> QED
    BY <2>1, NumbersOf
<1>2. /\ x \in TraceRecord /\ y \in TraceRecord
      /\ x.kind = "dequeue" /\ y.kind = "served"
  <2>1. x \in TraceRecord /\ y \in TraceRecord
    BY <1>1, RecType DEF TraceKinds
  <2> QED
    BY <2>1 DEF Rec
<1>3. rs = <<x, y>> \o Routing(gate)
  BY DEF Service
<1>4. Routing(gate) \in Seq(TraceRecord)
      /\ \A i \in DOMAIN Routing(gate) : Routing(gate)[i].kind \notin {"stalled", "served"}
  BY RoutingQuiet, QuietSeq
<1> HIDE DEF x, y, rs
<1>5. <<x, y>> \in Seq(TraceRecord) /\ Len(<<x, y>>) = 2 /\ DOMAIN <<x, y>> = 1 .. 2
      /\ <<x, y>>[1] = x /\ <<x, y>>[2] = y
  BY <1>2
<1> DEFINE t == <<x, y>>
<1> HIDE DEF t
<1>6. /\ t \in Seq(TraceRecord) /\ Len(t) = 2 /\ DOMAIN t = 1 .. 2 /\ t[1] = x /\ t[2] = y
      /\ rs = t \o Routing(gate)
  BY <1>3, <1>5 DEF t
<1>a. Len(t) = 2 /\ t \in Seq(TraceRecord) /\ Routing(gate) \in Seq(TraceRecord)
  BY <1>4, <1>6
<1>b. /\ t \o Routing(gate) \in Seq(TraceRecord) /\ Len(Routing(gate)) \in Nat
      /\ DOMAIN t = 1 .. Len(t) /\ DOMAIN (t \o Routing(gate)) = 1 .. Len(t) + Len(Routing(gate))
      /\ \A i \in DOMAIN t : (t \o Routing(gate))[i] = t[i]
      /\ \A i \in DOMAIN Routing(gate) : (t \o Routing(gate))[Len(t) + i] = Routing(gate)[i]
      /\ \A i \in DOMAIN (t \o Routing(gate)) :
           i \in DOMAIN t \/ i - Len(t) \in DOMAIN Routing(gate)
  BY <1>a, TraceGrows
<1>7. /\ rs \in Seq(TraceRecord)
      /\ DOMAIN rs = 1 .. 2 + Len(Routing(gate)) /\ Len(Routing(gate)) \in Nat
      /\ \A i \in 1 .. 2 : rs[i] = t[i]
      /\ \A i \in DOMAIN Routing(gate) : rs[2 + i] = Routing(gate)[i]
      /\ \A i \in DOMAIN rs : i \in 1 .. 2 \/ i - 2 \in DOMAIN Routing(gate)
  BY <1>6, <1>a, <1>b
<1>8. rs[1] = x /\ rs[2] = y /\ 2 \in DOMAIN rs
  BY <1>6, <1>7
<1>9. ASSUME NEW i \in DOMAIN rs
      PROVE  rs[i].kind # "stalled" /\ (i # 2 => rs[i].kind # "served")
  <2>1. CASE i \in 1 .. 2
    <3>1. i = 1 \/ i = 2
      BY <2>1
    <3> QED
      BY <1>2, <1>8, <3>1
  <2>2. CASE i - 2 \in DOMAIN Routing(gate)
    <3>1. rs[2 + (i - 2)] = Routing(gate)[i - 2] /\ 2 + (i - 2) = i
      BY <1>7, <2>2
    <3> QED
      BY <1>4, <2>2, <3>1
  <2> QED
    BY <1>7, <2>1, <2>2
<1> QED
  BY <1>7, <1>8, <1>9 DEF rs, y

-----------------------------------------------------------------------------
(* The stories a trace tells of its gates. *)

(* The services that carry a wait. *)
LateAt == {i \in ServiceAt : trace[i].n > 0}

(* Where the gates in the records are, and that none stalls twice.         *)
Accounted ==
  /\ trace \in Seq(TraceRecord)
  /\ \A i \in StallAt : trace[i].id \in Stalling \cup Departed
  /\ \A i, j \in StallAt : trace[i].id = trace[j].id => i = j
  /\ \A i \in ServiceAt : trace[i].id \in Departed

(* A service carries the wait since its gate stalled, and none when it did *)
(* not stall; a stalled gate has its record.                               *)
Matched ==
  /\ \A i \in LateAt : \E s \in StallAt :
       trace[s].id = trace[i].id /\ trace[s].cycle + trace[i].n = trace[i].cycle
  /\ \A i \in ServiceAt \ LateAt : \A s \in StallAt : trace[s].id # trace[i].id
  /\ \A d \in DOMAIN stalled : \E s \in StallAt :
       trace[s].id = stalled[d].gate /\ trace[s].cycle = stalled[d].since

Counted == Cardinality(StallAt) = Len(stalled) + Cardinality(LateAt)

Stories == Accounted /\ Matched /\ Counted

LEMMA RecordsFinite ==
  ASSUME trace \in Seq(TraceRecord)
  PROVE  /\ DOMAIN trace = 1 .. Len(trace) /\ Len(trace) \in Nat
         /\ StallAt \subseteq DOMAIN trace /\ ServiceAt \subseteq DOMAIN trace
         /\ LateAt \subseteq DOMAIN trace
         /\ IsFiniteSet(StallAt) /\ IsFiniteSet(ServiceAt) /\ IsFiniteSet(LateAt)
         /\ Cardinality(StallAt) \in Nat /\ Cardinality(LateAt) \in Nat
         /\ \A i \in DOMAIN trace : trace[i] \in TraceRecord
<1>1. DOMAIN trace = 1 .. Len(trace) /\ Len(trace) \in Nat
  BY LenProperties
<1>2. /\ StallAt \subseteq DOMAIN trace /\ ServiceAt \subseteq DOMAIN trace
      /\ LateAt \subseteq DOMAIN trace
  BY DEF StallAt, ServiceAt, LateAt, Positions
<1>3. IsFiniteSet(DOMAIN trace)
  BY <1>1, FS_Interval
<1>4. IsFiniteSet(StallAt) /\ IsFiniteSet(ServiceAt) /\ IsFiniteSet(LateAt)
  BY <1>2, <1>3, FS_Subset
<1>5. Cardinality(StallAt) \in Nat /\ Cardinality(LateAt) \in Nat
  BY <1>4, FS_CardinalityType
<1>6. \A i \in DOMAIN trace : trace[i] \in TraceRecord
  BY <1>1, ElementOfSeq
<1> QED
  BY <1>1, <1>2, <1>4, <1>5, <1>6

LEMMA StoriesInit == TracedInit => Stories
<1> SUFFICES ASSUME TracedInit PROVE Stories
  OBVIOUS
<1>1. TypeOK /\ stalled = <<>> /\ NumFactories \in Nat
  BY TypeInit, SizesAssumption DEF TracedInit, Init
<1>2. trace = [i \in 1 .. NumFactories |-> Rec("started", i - 1, 0)]
  BY DEF TracedInit
<1>3. \A i \in 1 .. NumFactories :
        Rec("started", i - 1, 0) \in TraceRecord /\ Rec("started", i - 1, 0).kind = "started"
  <2>1. TAKE i \in 1 .. NumFactories
  <2>2. i - 1 \in Nat
    BY <1>1
  <2>3. Rec("started", i - 1, 0) \in TraceRecord
    BY <1>1, <2>2, RecType DEF TraceKinds
  <2> QED
    BY <2>3 DEF Rec
<1>4. trace \in Seq(TraceRecord)
  BY <1>1, <1>2, <1>3
<1>5. StallAt = {} /\ ServiceAt = {} /\ LateAt = {}
  BY <1>2, <1>3 DEF StallAt, ServiceAt, LateAt, Positions
<1>6. Len(stalled) = 0 /\ DOMAIN stalled = {}
  BY <1>1
<1>7. Cardinality({}) = 0
  BY FS_EmptySet
<1> QED
  BY <1>4, <1>5, <1>6, <1>7 DEF Stories, Accounted, Matched, Counted

(* Records of neither kind leave the stories as they are. *)
LEMMA QuietStories ==
  ASSUME Stories, NEW rs \in Seq(QuietRecord), trace' = trace \o rs, stalled' = stalled,
         Departed \subseteq Departed'
  PROVE  Stories'
<1> USE DEF Stories
<1>1. trace \in Seq(TraceRecord) /\ rs \in Seq(TraceRecord)
      /\ \A i \in DOMAIN rs : rs[i].kind \notin {"stalled", "served"}
  BY QuietSeq DEF Accounted
<1>2. /\ trace' \in Seq(TraceRecord) /\ \A i \in DOMAIN trace : trace'[i] = trace[i]
  BY <1>1, TraceGrows
<1>3. StallAt' = StallAt /\ ServiceAt' = ServiceAt
  BY <1>1, KindKept DEF StallAt, ServiceAt
<1>4. StallAt \subseteq DOMAIN trace /\ ServiceAt \subseteq DOMAIN trace
      /\ LateAt \subseteq DOMAIN trace
  BY <1>1, RecordsFinite
<1>5. LateAt' = LateAt
  BY <1>2, <1>3, <1>4 DEF LateAt
<1>6. Stalling' = Stalling
  BY DEF Stalling
<1>7. Accounted'
  BY <1>2, <1>3, <1>4, <1>6 DEF Accounted
<1>8. Matched'
  <2>1. ASSUME NEW i \in LateAt'
        PROVE  \E s \in StallAt' :
          trace'[s].id = trace'[i].id /\ trace'[s].cycle + trace'[i].n = trace'[i].cycle
    <3>1. PICK s \in StallAt :
            trace[s].id = trace[i].id /\ trace[s].cycle + trace[i].n = trace[i].cycle
      BY <1>5, <2>1 DEF Matched
    <3>2. trace'[s] = trace[s] /\ trace'[i] = trace[i]
      BY <1>2, <1>4, <1>5
    <3> QED
      BY <1>3, <3>1, <3>2
  <2>2. \A i \in ServiceAt' \ LateAt' : \A s \in StallAt' : trace'[s].id # trace'[i].id
    BY <1>2, <1>3, <1>4, <1>5 DEF Matched
  <2>3. ASSUME NEW d \in DOMAIN stalled'
        PROVE  \E s \in StallAt' :
          trace'[s].id = stalled'[d].gate /\ trace'[s].cycle = stalled'[d].since
    <3>1. PICK s \in StallAt : trace[s].id = stalled[d].gate /\ trace[s].cycle = stalled[d].since
      BY DEF Matched
    <3> QED
      BY <1>2, <1>3, <1>4, <3>1
  <2> QED
    BY <2>1, <2>2, <2>3 DEF Matched
<1>9. Counted'
  BY <1>3, <1>5 DEF Counted
<1> QED
  BY <1>7, <1>8, <1>9

LEMMA StallStories ==
  ASSUME TypeOK, Placed, Activations, Stories, TracedStallReady
  PROVE  Stories'
<1> USE DEF Stories
<1> DEFINE k == Head(ready)
           e == Rec("stalled", k, 0)
           entry == [gate |-> k, since |-> now]
<1>1. /\ k \in Known /\ k \in Queued /\ Departed' = Departed
      /\ Stalling' = Stalling \cup {k}
  BY StalledReady DEF TracedStallReady
<1>2. /\ stalled' = Append(stalled, entry) /\ trace' = trace \o <<e>>
      /\ stalled \in Seq([gate : Known, since : Nat]) /\ now \in Nat
      /\ trace \in Seq(TraceRecord)
  BY DEF TracedStallReady, StallReady, Record, TypeOK, Accounted
<1>3. e \in TraceRecord /\ e.kind = "stalled" /\ e.id = k /\ e.cycle = now
  <2>1. e \in TraceRecord
    BY <1>1, NumbersOf, RecType DEF TraceKinds
  <2> QED
    BY <2>1 DEF Rec
<1>4. entry \in [gate : Known, since : Nat] /\ entry.gate = k /\ entry.since = now
  BY <1>1, <1>2
<1> HIDE DEF k, e, entry
<1>5. <<e>> \in Seq(TraceRecord) /\ DOMAIN <<e>> = {1} /\ <<e>>[1] = e
  BY <1>3
<1>6. PICK new : /\ StallAt' = StallAt \cup {new} /\ new \notin DOMAIN trace
                 /\ trace'[new] = e /\ ServiceAt' = ServiceAt
  <2> DEFINE rs == <<e>>
  <2>1. /\ rs \in Seq(TraceRecord) /\ 1 \in DOMAIN rs /\ rs[1].kind = "stalled" /\ rs[1] = e
        /\ \A i \in DOMAIN rs : rs[i].kind # "served" /\ (i # 1 => rs[i].kind # "stalled")
        /\ trace' = trace \o rs
    BY <1>2, <1>3, <1>5
  <2> HIDE DEF rs
  <2>2. Positions(trace \o rs, "served") = Positions(trace, "served")
    BY <1>2, <2>1, KindKept
  <2>3. \E q : OneMore(trace', trace, "stalled", q, rs[1])
    <3>1. \A i \in DOMAIN rs : rs[i].kind = "stalled" <=> i = 1
      BY <2>1
    <3> QED
      BY <1>2, <2>1, <3>1, KindAdded
  <2> QED
    BY <2>1, <2>2, <2>3 DEF StallAt, ServiceAt, OneMore
<1>7. /\ trace' \in Seq(TraceRecord) /\ \A i \in DOMAIN trace : trace'[i] = trace[i]
  BY <1>2, <1>5, TraceGrows
<1>8. /\ StallAt \subseteq DOMAIN trace /\ ServiceAt \subseteq DOMAIN trace
      /\ LateAt \subseteq DOMAIN trace /\ IsFiniteSet(StallAt)
      /\ Cardinality(StallAt) \in Nat /\ Cardinality(LateAt) \in Nat
  BY <1>2, RecordsFinite
<1>9. LateAt' = LateAt
  BY <1>6, <1>7, <1>8 DEF LateAt
<1>10. k \notin Stalling \cup Departed
  BY <1>1 DEF Placed, Departed
<1>11. Accounted'
  BY <1>1, <1>3, <1>6, <1>7, <1>8, <1>10 DEF Accounted
<1>12. /\ DOMAIN stalled = 1 .. Len(stalled) /\ Len(stalled) \in Nat
       /\ DOMAIN stalled' = 1 .. Len(stalled) + 1 /\ Len(stalled') = Len(stalled) + 1
       /\ \A d \in DOMAIN stalled : stalled'[d] = stalled[d]
       /\ stalled'[Len(stalled) + 1] = entry
  BY <1>2, <1>4, AppendProperties, LenProperties
<1>13. Matched'
  <2>1. \A i \in LateAt' : \E s \in StallAt' :
          trace'[s].id = trace'[i].id /\ trace'[s].cycle + trace'[i].n = trace'[i].cycle
    BY <1>6, <1>7, <1>8, <1>9 DEF Matched
  <2>2. \A i \in ServiceAt' \ LateAt' : \A s \in StallAt' : trace'[s].id # trace'[i].id
    <3>1. TAKE i \in ServiceAt' \ LateAt'
    <3>2. i \in ServiceAt \ LateAt /\ trace'[i] = trace[i] /\ trace[i].id # k
      BY <1>6, <1>7, <1>8, <1>9, <1>10 DEF Accounted
    <3> QED
      BY <1>3, <1>6, <1>7, <1>8, <3>2 DEF Matched
  <2>3. \A d \in DOMAIN stalled' : \E s \in StallAt' :
          trace'[s].id = stalled'[d].gate /\ trace'[s].cycle = stalled'[d].since
    <3>1. TAKE d \in DOMAIN stalled'
    <3>2. CASE d \in DOMAIN stalled
      BY <1>6, <1>7, <1>8, <1>12, <3>2 DEF Matched
    <3>3. CASE d = Len(stalled) + 1
      BY <1>3, <1>4, <1>6, <1>12, <3>3
    <3> QED
      BY <1>12, <3>2, <3>3
  <2> QED
    BY <2>1, <2>2, <2>3 DEF Matched
<1>14. Counted'
  <2>1. Cardinality(StallAt') = Cardinality(StallAt) + 1
    BY <1>6, <1>8, FS_AddElement
  <2> QED
    BY <1>8, <1>9, <1>12, <2>1 DEF Counted
<1> QED
  BY <1>11, <1>13, <1>14

(* What a service of k with this wait adds. *)
LEMMA ServiceAdds ==
  ASSUME TypeOK, TypeOK', NEW k \in Known, NEW wait \in Nat, trace \in Seq(TraceRecord),
         trace' = trace \o Service(k, wait)
  PROVE  \E new : /\ StallAt' = StallAt /\ ServiceAt' = ServiceAt \cup {new}
                  /\ new \notin DOMAIN trace /\ trace'[new] = Rec("served", k, wait)
                  /\ trace' \in Seq(TraceRecord)
                  /\ \A i \in DOMAIN trace : trace'[i] = trace[i]
<1> DEFINE rs == Service(k, wait)
<1>1. /\ rs \in Seq(TraceRecord) /\ 2 \in DOMAIN rs /\ rs[2] = Rec("served", k, wait)
      /\ \A i \in DOMAIN rs : rs[i].kind # "stalled" /\ (i # 2 => rs[i].kind # "served")
      /\ trace' = trace \o rs
  BY ServiceRecords
<1>2. rs[2].kind = "served"
  BY <1>1 DEF Rec
<1> HIDE DEF rs
<1>3. StallAt' = StallAt
  BY <1>1, KindKept DEF StallAt
<1>4. \E q : /\ ServiceAt' = ServiceAt \cup {q} /\ q \notin DOMAIN trace
             /\ trace'[q] = rs[2]
  <2>1. \E q : OneMore(trace', trace, "served", q, rs[2])
    <3>1. \A i \in DOMAIN rs : rs[i].kind = "served" <=> i = 2
      BY <1>1, <1>2
    <3> QED
      BY <1>1, <3>1, KindAdded
  <2> QED
    BY <1>1, <2>1 DEF ServiceAt, OneMore
<1>5. trace' \in Seq(TraceRecord) /\ \A i \in DOMAIN trace : trace'[i] = trace[i]
  BY <1>1, TraceGrows
<1> QED
  BY <1>1, <1>3, <1>4, <1>5

LEMMA PromptStories ==
  ASSUME TypeOK, TypeOK', Placed, Activations, Stories, TracedServeReady
  PROVE  Stories'
<1> USE DEF Stories
<1> DEFINE k == Head(ready)
<1>1. /\ k \in Known /\ k \in Queued /\ Departed' = Departed \cup {k} /\ stalled' = stalled
      /\ trace' = trace \o Service(k, 0) /\ trace \in Seq(TraceRecord)
  BY StartedReady DEF TracedServeReady, Record, Accounted
<1> HIDE DEF k
<1>2. PICK new : /\ StallAt' = StallAt /\ ServiceAt' = ServiceAt \cup {new}
                 /\ new \notin DOMAIN trace /\ trace'[new] = Rec("served", k, 0)
                 /\ trace' \in Seq(TraceRecord)
                 /\ \A i \in DOMAIN trace : trace'[i] = trace[i]
  BY <1>1, ServiceAdds
<1>3. trace'[new].id = k /\ trace'[new].n = 0
  BY <1>2 DEF Rec
<1>4. /\ StallAt \subseteq DOMAIN trace /\ ServiceAt \subseteq DOMAIN trace
      /\ LateAt \subseteq DOMAIN trace
  BY <1>1, RecordsFinite
<1>5. LateAt' = LateAt
  BY <1>2, <1>3, <1>4 DEF LateAt
<1>6. Stalling' = Stalling /\ k \notin Stalling \cup Departed
  BY <1>1 DEF Stalling, Placed, Departed, Queued
<1>7. Accounted'
  <2>1. \A i \in StallAt' : trace'[i].id \in Stalling' \cup Departed'
    BY <1>1, <1>2, <1>4, <1>6 DEF Accounted
  <2>2. \A i, j \in StallAt' : trace'[i].id = trace'[j].id => i = j
    BY <1>2, <1>4 DEF Accounted
  <2>3. \A i \in ServiceAt' : trace'[i].id \in Departed'
    BY <1>1, <1>2, <1>3, <1>4 DEF Accounted
  <2> QED
    BY <1>2, <2>1, <2>2, <2>3 DEF Accounted
<1>8. Matched'
  <2>1. \A i \in LateAt' : \E s \in StallAt' :
          trace'[s].id = trace'[i].id /\ trace'[s].cycle + trace'[i].n = trace'[i].cycle
    BY <1>2, <1>4, <1>5 DEF Matched
  <2>2. \A i \in ServiceAt' \ LateAt' : \A s \in StallAt' : trace'[s].id # trace'[i].id
    <3>1. TAKE i \in ServiceAt' \ LateAt'
    <3>2. CASE i = new
      BY <1>2, <1>3, <1>4, <1>6, <3>2 DEF Accounted
    <3>3. CASE i \in ServiceAt \ LateAt
      BY <1>2, <1>4, <3>3 DEF Matched
    <3> QED
      BY <1>2, <1>5, <3>2, <3>3
  <2>3. \A d \in DOMAIN stalled' : \E s \in StallAt' :
          trace'[s].id = stalled'[d].gate /\ trace'[s].cycle = stalled'[d].since
    <3>1. \A d \in DOMAIN stalled : \E s \in StallAt :
            trace[s].id = stalled[d].gate /\ trace[s].cycle = stalled[d].since
      BY DEF Matched
    <3>2. stalled' = stalled /\ StallAt' = StallAt
      BY <1>1, <1>2
    <3>3. \A s \in StallAt : trace'[s] = trace[s]
      BY <1>2, <1>4
    <3> QED
      BY <3>1, <3>2, <3>3
  <2> QED
    BY <2>1, <2>2, <2>3 DEF Matched
<1>9. Counted'
  BY <1>1, <1>2, <1>5 DEF Counted
<1> QED
  BY <1>7, <1>8, <1>9

LEMMA LateStories ==
  ASSUME TypeOK, TypeOK', Placed, Activations, StallInv, Stories, TracedServeStalled
  PROVE  Stories'
<1> USE DEF Stories
<1> DEFINE k == Head(stalled).gate
           wait == now - Head(stalled).since
<1>1. /\ k \in Known /\ Departed' = Departed \cup {k} /\ Stalling \subseteq Stalling' \cup {k}
  BY ServedStalled DEF TracedServeStalled
<1>2. /\ stalled # <<>> /\ stalled' = Tail(stalled) /\ occupancy > 0
      /\ trace' = trace \o Service(k, wait) /\ trace \in Seq(TraceRecord)
      /\ stalled \in Seq([gate : Known, since : Nat]) /\ now \in Nat
  BY DEF TracedServeStalled, ServeStalled, Serve, Record, Accounted, TypeOK
<1>3. /\ Head(stalled) = stalled[1] /\ 1 \in DOMAIN stalled
      /\ Head(stalled) \in [gate : Known, since : Nat]
      /\ \A i \in DOMAIN Tail(stalled) : \E j \in DOMAIN stalled : Tail(stalled)[i] = stalled[j]
  BY <1>2, StalledTail
<1>4. /\ wait \in Nat /\ wait > 0 /\ stalled[1].since + wait = now /\ k = stalled[1].gate
  BY <1>2, <1>3 DEF StallInv
<1> HIDE DEF k, wait
<1>5. PICK new : /\ StallAt' = StallAt /\ ServiceAt' = ServiceAt \cup {new}
                 /\ new \notin DOMAIN trace /\ trace'[new] = Rec("served", k, wait)
                 /\ trace' \in Seq(TraceRecord)
                 /\ \A i \in DOMAIN trace : trace'[i] = trace[i]
  BY <1>1, <1>2, <1>4, ServiceAdds
<1>6. trace'[new].id = k /\ trace'[new].n = wait /\ trace'[new].cycle = now
  BY <1>5 DEF Rec
<1>7. /\ StallAt \subseteq DOMAIN trace /\ ServiceAt \subseteq DOMAIN trace
      /\ LateAt \subseteq DOMAIN trace /\ IsFiniteSet(LateAt) /\ new \notin LateAt
      /\ Cardinality(StallAt) \in Nat /\ Cardinality(LateAt) \in Nat
  BY <1>2, <1>5, RecordsFinite
<1>8. LateAt' = LateAt \cup {new}
  BY <1>4, <1>5, <1>6, <1>7 DEF LateAt
<1>9. Accounted'
  BY <1>1, <1>5, <1>6, <1>7 DEF Accounted
<1>10. Matched'
  <2>1. \A i \in LateAt' : \E s \in StallAt' :
          trace'[s].id = trace'[i].id /\ trace'[s].cycle + trace'[i].n = trace'[i].cycle
    <3>1. TAKE i \in LateAt'
    <3>2. CASE i = new
      <4>1. PICK s \in StallAt : trace[s].id = k /\ trace[s].cycle = stalled[1].since
        BY <1>3, <1>4 DEF Matched
      <4> QED
        BY <1>4, <1>5, <1>6, <1>7, <3>2, <4>1
    <3>3. CASE i \in LateAt
      BY <1>5, <1>7, <3>3 DEF Matched
    <3> QED
      BY <1>8, <3>2, <3>3
  <2>2. \A i \in ServiceAt' \ LateAt' : \A s \in StallAt' : trace'[s].id # trace'[i].id
    BY <1>5, <1>7, <1>8 DEF Matched
  <2>3. \A d \in DOMAIN stalled' : \E s \in StallAt' :
          trace'[s].id = stalled'[d].gate /\ trace'[s].cycle = stalled'[d].since
    <3>1. TAKE d \in DOMAIN stalled'
    <3>2. PICK j \in DOMAIN stalled : stalled'[d] = stalled[j]
      BY <1>2, <1>3
    <3>3. PICK s \in StallAt : trace[s].id = stalled[j].gate /\ trace[s].cycle = stalled[j].since
      BY DEF Matched
    <3> QED
      BY <1>5, <1>7, <3>2, <3>3
  <2> QED
    BY <2>1, <2>2, <2>3 DEF Matched
<1>11. Counted'
  <2>1. Cardinality(LateAt') = Cardinality(LateAt) + 1
    BY <1>7, <1>8, FS_AddElement
  <2>2. Len(stalled') = Len(stalled) - 1 /\ Len(stalled) \in Nat
    BY <1>2, HeadTailProperties, LenProperties
  <2> QED
    BY <1>5, <1>7, <2>1, <2>2 DEF Counted
<1> QED
  BY <1>9, <1>10, <1>11

LEMMA StoriesStep ==
  ASSUME TypeOK, TypeOK', Placed, Activations, StallInv, Stories, [TracedNext]_tracedVars
  PROVE  Stories'
<1>1. CASE TracedStallReady
  BY <1>1, StallStories
<1>2. CASE TracedServeReady
  BY <1>2, PromptStories
<1>3. CASE TracedServeStalled
  BY <1>3, LateStories
<1>4. ASSUME QuietSteps, Departed \subseteq Departed', stalled' = stalled PROVE Stories'
  <2>1. trace \in Seq(TraceRecord)
    BY DEF Stories, Accounted
  <2> QED
    BY <1>4, <2>1, QuietRecords, QuietStories
<1>5. CASE TracedScheduleReady
  <2>1. ScheduleReady
    BY <1>5 DEF TracedScheduleReady
  <2> QED
    BY <1>4, <1>5, <2>1, StartedReady DEF QuietSteps
<1>6. CASE TracedProduced \/ TracedFailed \/ TracedInjection \/ TracedCompletion
  <2>1. Settled
    BY <1>6 DEF TracedProduced, TracedFailed, TracedInjection, TracedCompletion, Settled,
                Elsewhere
  <2> QED
    BY <1>4, <1>6, <2>1, DepartedStay DEF QuietSteps
<1>7. CASE /\ \/ Finish \/ Truncate \/ BeginStep \/ HookActivation
              \/ EndEvents \/ EndServe \/ EndStep \/ Returned \/ UNCHANGED vars
           /\ UNCHANGED trace
  <2>1. Settled
    BY <1>7 DEF Settled, Elsewhere, Returned
  <2> QED
    BY <1>4, <1>7, <2>1, DepartedStay DEF QuietSteps
<1> QED
  BY <1>1, <1>2, <1>3, <1>5, <1>6, <1>7 DEF TracedNext, tracedVars

(* The trace is recorded beside the run: it takes no part in it. *)
LEMMA TracedIsEngine ==
  /\ TracedInit => Init
  /\ [TracedNext]_tracedVars => [Next]_vars
BY DEF TracedInit, TracedNext, TracedProduced, TracedFailed, TracedInjection, TracedCompletion,
       TracedServeStalled, TracedServeReady, TracedStallReady, TracedScheduleReady, Next,
       tracedVars

-----------------------------------------------------------------------------
(* What analyze makes of the stories. *)

LEMMA WaitsMatch ==
  ASSUME Stories
  PROVE  /\ \A w \in Waits :
              /\ w[2] \in LateAt /\ w[1] \in DOMAIN trace /\ w[2] \in DOMAIN trace
              /\ trace[w[1]].cycle + trace[w[2]].n = trace[w[2]].cycle
         /\ \A i \in LateAt : \E w \in Waits : w[2] = i
         /\ \A v, w \in Waits : v[2] = w[2] => v = w
<1> USE DEF Stories
<1>1. trace \in Seq(TraceRecord)
  BY DEF Accounted
<1>2. /\ StallAt \subseteq DOMAIN trace /\ LateAt \subseteq DOMAIN trace
      /\ LateAt \subseteq ServiceAt
  BY <1>1, RecordsFinite DEF LateAt
<1>3. ASSUME NEW w \in Waits
      PROVE  /\ w[1] \in StallAt /\ w[2] \in ServiceAt /\ w = <<w[1], w[2]>>
             /\ trace[w[1]].id = trace[w[2]].id
             /\ w[1] \in DOMAIN trace /\ w[2] \in DOMAIN trace
  BY DEF Waits, StallAt, ServiceAt, Positions
<1>4. ASSUME NEW w \in Waits PROVE w[2] \in LateAt
  BY <1>3 DEF Matched
<1>5. ASSUME NEW w \in Waits
      PROVE  trace[w[1]].cycle + trace[w[2]].n = trace[w[2]].cycle
  <2>1. PICK s \in StallAt : /\ trace[s].id = trace[w[2]].id
                             /\ trace[s].cycle + trace[w[2]].n = trace[w[2]].cycle
    BY <1>4 DEF Matched
  <2>2. s = w[1]
    BY <1>3, <2>1 DEF Accounted
  <2> QED
    BY <2>1, <2>2
<1>6. ASSUME NEW i \in LateAt PROVE \E w \in Waits : w[2] = i
  <2>1. PICK s \in StallAt : trace[s].id = trace[i].id
    BY DEF Matched
  <2>2. trace[s].kind = "stalled" /\ trace[i].kind = "served"
    BY <1>2, <2>1 DEF StallAt, ServiceAt, Positions
  <2>3. <<s, i>> \in Waits
    BY <1>2, <2>1, <2>2 DEF Waits
  <2> QED
    BY <2>3
<1>7. ASSUME NEW v \in Waits, NEW w \in Waits, v[2] = w[2] PROVE v = w
  <2>1. v[1] = w[1]
    BY <1>3, <1>7 DEF Accounted
  <2> QED
    BY <1>3, <1>7, <2>1
<1> QED
  BY <1>3, <1>4, <1>5, <1>6, <1>7

LEMMA WaitsNumber ==
  ASSUME Stories
  PROVE  Cardinality(Waits) = Cardinality(LateAt)
<1> DEFINE f == [i \in LateAt |-> CHOOSE w \in Waits : w[2] = i]
<1>1. \A i \in LateAt : f[i] \in Waits /\ f[i][2] = i
  BY WaitsMatch
<1>2. \A w \in Waits : w[2] \in LateAt /\ f[w[2]] = w
  BY <1>1, WaitsMatch
<1>3. f \in [LateAt -> Waits]
  BY <1>1
<1> HIDE DEF f
<1>4. f \in Bijection(LateAt, Waits)
  <2>1. \A i, j \in LateAt : f[i] = f[j] => i = j
    BY <1>1
  <2>2. \A w \in Waits : \E i \in LateAt : f[i] = w
    BY <1>2
  <2> QED
    BY <1>3, <2>1, <2>2 DEF Bijection, Injection, Surjection, IsInjective
<1>5. IsFiniteSet(LateAt)
  BY RecordsFinite DEF Stories, Accounted
<1> QED
  BY <1>4, <1>5, FS_Bijection DEF ExistsBijection

LEMMA StoriesReported == TypeOK /\ Stories => StallsReported
<1> SUFFICES ASSUME TypeOK, Stories, NEW res \in Resolutions
             PROVE  LET stalls == ProfileOf(res).stalls
                    IN  /\ ToSet(stalls) =
                             {[cycle |-> trace[w[2]].cycle, gate |-> trace[w[2]].id,
                               wait |-> trace[w[2]].cycle - trace[w[1]].cycle] : w \in Waits}
                        /\ Len(stalls) = Cardinality(Waits)
                        /\ Len(stalls) + Len(stalled)
                             = Cardinality({i \in DOMAIN trace : trace[i].kind = "stalled"})
  BY DEF StallsReported
<1> DEFINE stalls == ProfileOf(res).stalls
<1>1. trace \in Seq(TraceRecord)
  BY DEF Stories, Accounted
<1>2. PICK a : Pass(a, trace, now, res) /\ Folded(trace, now, res) = a[Len(trace)]
  BY <1>1, PassExists
<1>3. stalls = a[Len(trace)].stalls
  <2>1. stalls = Folded(trace, now, res).stalls
    BY DEF ProfileOf, Analyze, Folded
  <2> QED
    BY <1>2, <2>1
<1>4. /\ DOMAIN trace = 1 .. Len(trace) /\ Len(trace) \in Nat
      /\ LateAt \subseteq DOMAIN trace /\ Cardinality(LateAt) \in Nat
      /\ \A i \in DOMAIN trace : trace[i] \in TraceRecord
  BY <1>1, RecordsFinite
<1>5. Listed(trace, Len(trace)) = LateAt
  BY <1>4 DEF Listed, LateAt, ServiceAt, Positions, IsStall
<1>6. ToSet(stalls) = {Entry(trace[j]) : j \in LateAt} /\ Len(stalls) = Cardinality(LateAt)
  <2>1. Len(trace) \in 0 .. Len(trace)
    BY <1>4
  <2>2. ListsUpto(a, trace, Len(trace))
    BY <1>1, <1>2, <2>1, ListedOnce
  <2> HIDE DEF stalls
  <2> QED
    BY <1>3, <1>5, <2>2 DEF ListsUpto
<1> HIDE DEF stalls
<1>7. ASSUME NEW w \in Waits
      PROVE  /\ w[2] \in LateAt
             /\ Entry(trace[w[2]]) =
                  [cycle |-> trace[w[2]].cycle, gate |-> trace[w[2]].id,
                   wait |-> trace[w[2]].cycle - trace[w[1]].cycle]
  <2>1. /\ w[2] \in LateAt /\ trace[w[1]].cycle + trace[w[2]].n = trace[w[2]].cycle
        /\ trace[w[1]] \in TraceRecord /\ trace[w[2]] \in TraceRecord
    BY <1>4, WaitsMatch
  <2>2. trace[w[2]].n = trace[w[2]].cycle - trace[w[1]].cycle
    BY <2>1 DEF TraceRecord
  <2> QED
    BY <2>1, <2>2 DEF Entry
<1>8. {Entry(trace[j]) : j \in LateAt} =
        {[cycle |-> trace[w[2]].cycle, gate |-> trace[w[2]].id,
          wait |-> trace[w[2]].cycle - trace[w[1]].cycle] : w \in Waits}
  <2>1. {Entry(trace[j]) : j \in LateAt} = {Entry(trace[w[2]]) : w \in Waits}
    BY <1>7, WaitsMatch
  <2> QED
    BY <1>7, <2>1
<1>9. Cardinality({i \in DOMAIN trace : trace[i].kind = "stalled"})
        = Len(stalled) + Cardinality(LateAt)
  BY DEF Stories, Counted, StallAt, Positions
<1>10. Len(stalled) \in Nat
  BY LenProperties DEF TypeOK
<1> QED
  BY <1>4, <1>6, <1>8, <1>9, <1>10, WaitsNumber DEF stalls

(* ProfileAnalyzer::analyze lists every gate that stalled and was served,  *)
(* once and with the cycles between, and no other: for every circuit in    *)
(* which an operation is activated by one measurement.                     *)
THEOREM StallsListed ==
  (\A c \in Inputs : ActivatedOnce(c)) => (TracedSpec => []StallsReported)
<1> SUFFICES ASSUME \A c \in Inputs : ActivatedOnce(c)
             PROVE  TracedSpec => []StallsReported
  OBVIOUS
<1>1. TracedSpec => Spec
  BY TracedIsEngine, PTL DEF TracedSpec, Spec
<1>2. Spec => [](Chosen /\ Placed /\ Activations)
  BY AlwaysPlaced
<1>3. Spec => []StallInv
  BY AlwaysStallInv
<1>4. TypeOK /\ TypeOK' /\ (Chosen /\ Placed /\ Activations) /\ StallInv /\ Stories
        /\ [TracedNext]_tracedVars => Stories'
  BY StoriesStep
<1>5. TypeOK /\ Stories => StallsReported
  BY StoriesReported
<1> QED
  BY <1>1, <1>2, <1>3, <1>4, <1>5, StoriesInit, TypeCorrect, PTL DEF TracedSpec

-----------------------------------------------------------------------------
(* Sums over a set. *)

(* The one that a fold takes next. *)
Pick(s) == CHOOSE x \in s : TRUE

SumOf(g, s) == MapThenSumSet(LAMBDA x : g[x], s)

LEMMA PickIn ==
  ASSUME NEW s, s # {}
  PROVE  Pick(s) \in s
BY DEF Pick

(* What holds of the empty set, and of a set when it holds of what is left *)
(* after the first pick, holds of every finite set.                        *)
LEMMA PickInduction ==
  ASSUME NEW S, IsFiniteSet(S), NEW G \in SUBSET (SUBSET S), {} \in G,
         \A s \in SUBSET S : s # {} /\ s \ {Pick(s)} \in G => s \in G
  PROVE  G = SUBSET S
<1> DEFINE Sizes == {Cardinality(s) : s \in (SUBSET S) \ G}
<1>1. ASSUME NEW s \in SUBSET S
      PROVE  /\ IsFiniteSet(s) /\ Cardinality(s) \in Nat
             /\ \A x \in s : Cardinality(s \ {x}) = Cardinality(s) - 1
  <2>1. IsFiniteSet(s)
    BY FS_Subset
  <2> QED
    BY <2>1, FS_CardinalityType, FS_RemoveElement
<1> SUFFICES ASSUME Sizes # {} PROVE FALSE
  OBVIOUS
<1>2. Sizes \in SUBSET Nat
  BY <1>1
<1> HIDE DEF Sizes
<1>3. PICK m \in Sizes : \A n \in Sizes : m <= n
  BY <1>2, LeastNumber
<1> USE DEF Sizes
<1>4. PICK s \in (SUBSET S) \ G : Cardinality(s) = m
  BY <1>3
<1>5. s # {} /\ Pick(s) \in s
  BY <1>4, PickIn
<1>6. s \ {Pick(s)} \in SUBSET S /\ Cardinality(s \ {Pick(s)}) = m - 1 /\ m \in Nat
  BY <1>1, <1>4, <1>5
<1>7. s \ {Pick(s)} \in G
  BY <1>3, <1>6
<1> QED
  BY <1>4, <1>5, <1>7

(* h folds the subsets of S, each from what is left after its first pick. *)
FoldsBy(h, S, base, step) ==
  /\ h[{}] = base
  /\ \A s \in SUBSET S : s # {} => h[s] = step[<<Pick(s), h[s \ {Pick(s)}]>>]

LEMMA FoldExists ==
  ASSUME NEW S, IsFiniteSet(S), NEW T, NEW base \in T, NEW step \in [S \X T -> T]
  PROVE  \E h \in [SUBSET S -> T] : FoldsBy(h, S, base, step)
<1> DEFINE AtMost(k) == {s \in SUBSET S : Cardinality(s) <= k}
           F(h, s) == IF s = {} THEN base ELSE step[<<Pick(s), h[s \ {Pick(s)}]>>]
           IsFold(h, k) == h \in [AtMost(k) -> T] /\ \A s \in AtMost(k) : h[s] = F(h, s)
           Missing == {k \in Nat : ~\E h : IsFold(h, k)}
<1>1. ASSUME NEW s \in SUBSET S
      PROVE  /\ IsFiniteSet(s) /\ Cardinality(s) \in Nat
             /\ \A x \in s : Cardinality(s \ {x}) = Cardinality(s) - 1
             /\ Cardinality(s) = 0 <=> s = {}
  <2>1. IsFiniteSet(s)
    BY FS_Subset
  <2> QED
    BY <2>1, FS_CardinalityType, FS_RemoveElement, FS_EmptySet
<1>2. \E h : IsFold(h, 0)
  <2>1. \A s \in AtMost(0) : s = {}
    BY <1>1
  <2>2. IsFold([s \in AtMost(0) |-> base], 0)
    BY <2>1
  <2> QED
    BY <2>2
<1>3. ASSUME NEW k \in Nat \ {0}, NEW g, IsFold(g, k - 1)
      PROVE  \E h : IsFold(h, k)
  <2> DEFINE h == [s \in AtMost(k) |-> F(g, s)]
  <2>1. \A s \in AtMost(k - 1) : s \in AtMost(k) /\ g[s] = F(g, s) /\ g[s] \in T
    BY <1>1, <1>3
  <2>2. ASSUME NEW s \in AtMost(k), s # {}
        PROVE  s \ {Pick(s)} \in AtMost(k - 1) /\ Pick(s) \in S
    <3>1. Pick(s) \in s
      BY <2>2, PickIn
    <3> QED
      BY <1>1, <2>2, <3>1
  <2>3. \A s \in AtMost(k - 1) : h[s] = g[s]
    BY <2>1
  <2>4. \A s \in AtMost(k) : F(g, s) = F(h, s) /\ F(g, s) \in T
    <3>1. TAKE s \in AtMost(k)
    <3>2. CASE s = {}
      BY <3>2
    <3>3. CASE s # {}
      <4>1. /\ s \ {Pick(s)} \in AtMost(k - 1) /\ Pick(s) \in S
            /\ h[s \ {Pick(s)}] = g[s \ {Pick(s)}] /\ g[s \ {Pick(s)}] \in T
        BY <2>1, <2>2, <2>3, <3>3
      <4> HIDE DEF h, AtMost
      <4>2. step[<<Pick(s), g[s \ {Pick(s)}]>>] \in T
        BY <4>1
      <4> QED
        BY <3>3, <4>1, <4>2
    <3> QED
      BY <3>2, <3>3
  <2>5. h \in [AtMost(k) -> T] /\ \A s \in AtMost(k) : h[s] = F(g, s)
    BY <2>4
  <2> HIDE DEF h, F, AtMost
  <2> QED
    BY <2>4, <2>5
<1>4. Missing = {}
  <2> SUFFICES ASSUME Missing # {} PROVE FALSE
    OBVIOUS
  <2> HIDE DEF IsFold
  <2>1. PICK m \in Missing : \A n \in Missing : m <= n
    BY LeastNumber
  <2>2. m \in Nat \ {0}
    BY <1>2, <2>1
  <2>3. m - 1 \in Nat /\ m - 1 \notin Missing
    BY <2>1, <2>2
  <2>4. PICK g : IsFold(g, m - 1)
    BY <2>3
  <2> QED
    BY <1>3, <2>1, <2>2, <2>4
<1>5. Cardinality(S) \in Nat
  BY FS_CardinalityType
<1>6. PICK h : IsFold(h, Cardinality(S))
  <2> HIDE DEF IsFold
  <2> QED
    BY <1>4, <1>5
<1>7. AtMost(Cardinality(S)) = SUBSET S
  BY FS_Subset
<1>8. h \in [SUBSET S -> T] /\ \A s \in SUBSET S : h[s] = F(h, s)
  BY <1>6, <1>7
<1> QED
  BY <1>8 DEF FoldsBy

(* Two folds agree. *)
LEMMA FoldsAgree ==
  ASSUME NEW S, IsFiniteSet(S), NEW base, NEW step, NEW g, FoldsBy(g, S, base, step),
         NEW h, FoldsBy(h, S, base, step)
  PROVE  \A s \in SUBSET S : g[s] = h[s]
<1> DEFINE G == {s \in SUBSET S : g[s] = h[s]}
<1>1. {} \in G
  BY DEF FoldsBy
<1>2. \A s \in SUBSET S : s # {} /\ s \ {Pick(s)} \in G => s \in G
  BY DEF FoldsBy
<1>3. G \in SUBSET (SUBSET S)
  OBVIOUS
<1> HIDE DEF G
<1>4. G = SUBSET S
  BY <1>1, <1>2, <1>3, PickInduction
<1> QED
  BY <1>4 DEF G

(* h sums g over the subsets of S. *)
Sums(h, g, S) ==
  /\ h \in [SUBSET S -> Int] /\ h[{}] = 0
  /\ \A s \in SUBSET S : s # {} => h[s] = g[Pick(s)] + h[s \ {Pick(s)}]

LEMMA SumExists ==
  ASSUME NEW S, IsFiniteSet(S), NEW g, \A x \in S : g[x] \in Int
  PROVE  \E h : Sums(h, g, S) /\ SumOf(g, S) = h[S]
<1> DEFINE step == [p \in S \X Int |-> g[p[1]] + p[2]]
           IsIter(it) == it = [s \in SUBSET S |->
                                 IF s = {} THEN 0 ELSE g[Pick(s)] + it[s \ {Pick(s)}]]
<1>1. step \in [S \X Int -> Int]
  OBVIOUS
<1>2. PICK h \in [SUBSET S -> Int] : FoldsBy(h, S, 0, step)
  <2> DEFINE base == 0
  <2>1. base \in Int
    OBVIOUS
  <2> HIDE DEF step, base
  <2>2. \E h \in [SUBSET S -> Int] : FoldsBy(h, S, base, step)
    BY <1>1, <2>1, FoldExists
  <2> QED
    BY <2>2 DEF base
<1>3. \A s \in SUBSET S : s # {} => Pick(s) \in S /\ s \ {Pick(s)} \in SUBSET S
  BY PickIn
<1>4. \A s \in SUBSET S : s # {} => h[s] = g[Pick(s)] + h[s \ {Pick(s)}]
  BY <1>2, <1>3 DEF FoldsBy
<1>5. Sums(h, g, S)
  BY <1>2, <1>4 DEF FoldsBy, Sums
<1>6. IsIter(h)
  <2>1. \A s \in SUBSET S : h[s] = IF s = {} THEN 0 ELSE g[Pick(s)] + h[s \ {Pick(s)}]
    BY <1>5 DEF Sums
  <2>2. h = [s \in SUBSET S |-> h[s]]
    BY <1>2
  <2> QED
    BY <2>1, <2>2
<1> DEFINE iter == CHOOSE it : IsIter(it)
<1>7. IsIter(iter)
  <2> HIDE DEF IsIter
  <2> QED
    BY <1>6
<1>8. SumOf(g, S) = iter[S]
  BY DEF SumOf, MapThenSumSet, MapThenFoldSet, Pick
<1> HIDE DEF iter
<1>9. \A s \in SUBSET S : iter[s] = IF s = {} THEN 0 ELSE g[Pick(s)] + iter[s \ {Pick(s)}]
  BY <1>7
<1> DEFINE G == {s \in SUBSET S : iter[s] = h[s]}
<1>10. G = SUBSET S
  <2>1. {} \in G
    BY <1>5, <1>9 DEF Sums
  <2>2. \A s \in SUBSET S : s # {} /\ s \ {Pick(s)} \in G => s \in G
    BY <1>4, <1>9
  <2>3. G \in SUBSET (SUBSET S)
    OBVIOUS
  <2> HIDE DEF G
  <2> QED
    BY <2>1, <2>2, <2>3, PickInduction
<1>11. iter[S] = h[S]
  BY <1>10
<1> QED
  BY <1>5, <1>8, <1>11

LEMMA SumType ==
  ASSUME NEW S, IsFiniteSet(S), NEW g, \A x \in S : g[x] \in Int
  PROVE  SumOf(g, S) \in Int
<1>1. PICK h : Sums(h, g, S) /\ SumOf(g, S) = h[S]
  BY SumExists
<1> QED
  BY <1>1 DEF Sums

LEMMA SumZero ==
  ASSUME NEW S, IsFiniteSet(S), NEW g, \A x \in S : g[x] = 0
  PROVE  SumOf(g, S) = 0
<1>1. PICK h : Sums(h, g, S) /\ SumOf(g, S) = h[S]
  BY SumExists
<1> DEFINE G == {s \in SUBSET S : h[s] = 0}
<1>2. {} \in G
  BY <1>1 DEF Sums
<1>3. \A s \in SUBSET S : s # {} /\ s \ {Pick(s)} \in G => s \in G
  BY <1>1, PickIn DEF Sums
<1>4. G \in SUBSET (SUBSET S)
  OBVIOUS
<1> HIDE DEF G
<1>5. G = SUBSET S
  BY <1>2, <1>3, <1>4, PickInduction
<1> QED
  BY <1>1, <1>5 DEF G

(* Where one number grows by d, so does the sum. *)
LEMMA SumChange ==
  ASSUME NEW S, IsFiniteSet(S), NEW g, NEW h, NEW y, NEW d \in Int,
         \A x \in S : g[x] \in Int,
         \A x \in S : h[x] = IF x = y THEN g[x] + d ELSE g[x]
  PROVE  SumOf(h, S) = SumOf(g, S) + (IF y \in S THEN d ELSE 0)
<1>1. \A x \in S : h[x] \in Int
  OBVIOUS
<1>2. PICK p : Sums(p, g, S) /\ SumOf(g, S) = p[S]
  BY SumExists
<1>3. PICK q : Sums(q, h, S) /\ SumOf(h, S) = q[S]
  BY <1>1, SumExists
<1> DEFINE G == {s \in SUBSET S : q[s] = p[s] + (IF y \in s THEN d ELSE 0)}
<1>4. {} \in G
  BY <1>2, <1>3 DEF Sums
<1>5. ASSUME NEW s \in SUBSET S, s # {}, s \ {Pick(s)} \in G PROVE s \in G
  <2> DEFINE x == Pick(s)
             t == s \ {Pick(s)}
  <2>1. x \in s /\ x \in S /\ t \in SUBSET S /\ t \in G
    BY <1>5, PickIn
  <2>2. p[s] = g[x] + p[t] /\ q[s] = h[x] + q[t] /\ p[t] \in Int /\ q[t] \in Int
        /\ g[x] \in Int
    BY <1>2, <1>3, <1>5, <2>1 DEF Sums
  <2>3. q[t] = p[t] + (IF y \in t THEN d ELSE 0)
    BY <2>1
  <2>4. y \in s <=> (y \in t \/ y = x)
    BY <2>1
  <2>5. y \in t => y # x
    OBVIOUS
  <2> HIDE DEF x, t
  <2>6. q[s] = p[s] + (IF y \in s THEN d ELSE 0)
    BY <2>1, <2>2, <2>3, <2>4, <2>5
  <2> QED
    BY <2>6
<1>6. G \in SUBSET (SUBSET S)
  OBVIOUS
<1> HIDE DEF G
<1>7. G = SUBSET S
  BY <1>4, <1>5, <1>6, PickInduction
<1> QED
  BY <1>2, <1>3, <1>7 DEF G

-----------------------------------------------------------------------------
(* The kinds of records that each step makes. *)

RecordOf(K) == {e \in TraceRecord : e.kind \in K /\ e.cycle = now}
KindsAt(tr, K) == {i \in DOMAIN tr : tr[i].kind \in K}

(* The records of steps that neither end an attempt nor take a state. *)
IdleKinds == {"stalled", "routed", "completed", "error", "fixup", "fixup_completed"}
ServiceKinds == {"dequeue", "served", "routed"}
GateKinds == IdleKinds \cup ServiceKinds

LEMMA RecIsOf ==
  ASSUME TypeOK, NEW K, NEW kind \in TraceKinds, kind \in K, NEW id \in Nat, NEW n \in Nat
  PROVE  Rec(kind, id, n) \in RecordOf(K)
<1>1. Rec(kind, id, n) \in TraceRecord
  BY RecType
<1> QED
  BY <1>1 DEF Rec, RecordOf

LEMMA RecordsOf ==
  ASSUME NEW K, NEW rs \in Seq(RecordOf(K))
  PROVE  /\ rs \in Seq(TraceRecord) /\ DOMAIN rs = 1 .. Len(rs) /\ Len(rs) \in Nat
         /\ \A i \in DOMAIN rs : rs[i].kind \in K /\ rs[i].cycle = now
<1>1. DOMAIN rs = 1 .. Len(rs) /\ Len(rs) \in Nat
  BY LenProperties
<1>2. \A i \in DOMAIN rs : rs[i] \in RecordOf(K)
  BY <1>1, ElementOfSeq
<1>3. rs \in Seq(TraceRecord)
  BY DEF RecordOf
<1> QED
  BY <1>1, <1>2, <1>3 DEF RecordOf

(* What the records rs add to those of the kinds K. *)
LEMMA KindsGrow ==
  ASSUME NEW tr \in Seq(TraceRecord), NEW rs \in Seq(TraceRecord), NEW K
  PROVE  KindsAt(tr \o rs, K) = KindsAt(tr, K) \cup {Len(tr) + i : i \in KindsAt(rs, K)}
<1>1. /\ Len(tr) \in Nat /\ Len(rs) \in Nat
      /\ DOMAIN tr = 1 .. Len(tr) /\ DOMAIN rs = 1 .. Len(rs)
      /\ DOMAIN (tr \o rs) = 1 .. Len(tr) + Len(rs)
      /\ \A i \in DOMAIN tr : (tr \o rs)[i] = tr[i]
      /\ \A i \in DOMAIN rs : (tr \o rs)[Len(tr) + i] = rs[i]
      /\ \A i \in DOMAIN (tr \o rs) : i \in DOMAIN tr \/ i - Len(tr) \in DOMAIN rs
  BY TraceGrows
<1> DEFINE all == tr \o rs
           A == KindsAt(all, K)
           B == KindsAt(tr, K)
           C == {Len(tr) + i : i \in KindsAt(rs, K)}
<1>2. ASSUME NEW i \in A PROVE i \in B \cup C
  <2>1. i \in DOMAIN all /\ all[i].kind \in K
    BY DEF KindsAt
  <2>2. CASE i \in DOMAIN tr
    BY <1>1, <2>1, <2>2 DEF KindsAt
  <2>3. CASE i - Len(tr) \in DOMAIN rs
    <3>1. Len(tr) + (i - Len(tr)) = i
      BY <1>1, <2>1
    <3>2. i - Len(tr) \in KindsAt(rs, K)
      BY <1>1, <2>1, <2>3, <3>1 DEF KindsAt
    <3> QED
      BY <3>1, <3>2
  <2> QED
    BY <1>1, <2>1, <2>2, <2>3
<1>3. ASSUME NEW i \in B PROVE i \in A
  BY <1>1 DEF KindsAt
<1>4. ASSUME NEW i \in KindsAt(rs, K) PROVE Len(tr) + i \in A
  BY <1>1 DEF KindsAt
<1> QED
  BY <1>2, <1>3, <1>4

LEMMA RoutingOf ==
  ASSUME TypeOK, NEW k \in Known, NEW K, "routed" \in K
  PROVE  Routing(k) \in Seq(RecordOf(K))
<1>1. QubitsOf(k) \in Ops
  <2>1. CASE k \in Ops
    BY <2>1 DEF QubitsOf
  <2>2. CASE k \notin Ops
    <3>1. k - NumOps \in 1 .. Len(fixups)
      BY <2>2, SizesAssumption, KnownKeys DEF Known, Ops
    <3>2. fixups[k - NumOps] \in Ops
      BY <3>1, ElementOfSeq DEF TypeOK
    <3> QED
      BY <2>2, <3>2 DEF QubitsOf
  <2> QED
    BY <2>1, <2>2
<1>2. input.route[QubitsOf(k)] \in Nat
  BY <1>1 DEF TypeOK, Input
<1>3. Rec("routed", k, input.route[QubitsOf(k)]) \in RecordOf(K)
  BY <1>2, NumbersOf, RecIsOf DEF TraceKinds
<1>4. <<Rec("routed", k, input.route[QubitsOf(k)])>> \in Seq(RecordOf(K))
  BY <1>3
<1>5. <<>> \in Seq(RecordOf(K))
  OBVIOUS
<1> QED
  BY <1>4, <1>5 DEF Routing

LEMMA CompletionOf ==
  ASSUME TypeOK, NEW k \in Known
  PROVE  Completion(k) \in Seq(RecordOf(IdleKinds))
<1>1. k \in Nat
  BY NumbersOf
<1>2. /\ Rec("fixup_completed", k, 0) \in RecordOf(IdleKinds)
      /\ Rec("completed", k, 0) \in RecordOf(IdleKinds)
  BY <1>1, RecIsOf DEF TraceKinds, IdleKinds
<1> QED
  BY <1>2 DEF Completion

(* The steps that concern neither factories nor magic states. *)
IdleSteps ==
  \/ TracedInjection \/ TracedCompletion \/ TracedStallReady \/ TracedScheduleReady
  \/ UNCHANGED trace

LEMMA IdleRecords ==
  ASSUME TypeOK, TypeOK', trace \in Seq(TraceRecord), IdleSteps
  PROVE  \E rs \in Seq(RecordOf(IdleKinds)) : trace' = trace \o rs
<1>1. CASE TracedInjection
  <2> DEFINE gate == Head(events).id
             x == Rec("error", gate, 0)
             y == Rec("fixup", FixupKey(Len(fixups')), 0)
  <2>1. trace' = trace \o (Completion(gate) \o <<x, y>>)
    BY <1>1 DEF TracedInjection, Record
  <2>2. gate \in Known
    BY <1>1, HeadEvent DEF TracedInjection, InjectionError
  <2>3. gate \in Nat /\ FixupKey(Len(fixups')) \in Nat
    <3>1. fixups' \in Seq(Ops)
      BY DEF TypeOK
    <3>2. Len(fixups') \in Nat
      BY <3>1, LenProperties
    <3> QED
      BY <2>2, <3>2, NumbersOf
  <2> HIDE DEF gate
  <2>4. x \in RecordOf(IdleKinds) /\ y \in RecordOf(IdleKinds)
    BY <2>3, RecIsOf DEF TraceKinds, IdleKinds
  <2>5. Completion(gate) \in Seq(RecordOf(IdleKinds))
    BY <2>2, CompletionOf
  <2> HIDE DEF x, y
  <2>6. <<x, y>> \in Seq(RecordOf(IdleKinds))
    BY <2>4
  <2>7. Completion(gate) \o <<x, y>> \in Seq(RecordOf(IdleKinds))
    BY <2>5, <2>6, ConcatProperties
  <2> QED
    BY <2>1, <2>7
<1>2. CASE TracedCompletion
  <2>1. trace' = trace \o Completion(Head(events).id)
    BY <1>2 DEF TracedCompletion, Record
  <2>2. Head(events).id \in Known
    BY <1>2, HeadEvent DEF TracedCompletion, GateCompleted, MeasuredDeferred, MeasuredInstant
  <2> QED
    BY <2>1, <2>2, CompletionOf
<1>3. CASE TracedStallReady
  <2> DEFINE x == Rec("stalled", Head(ready), 0)
  <2>1. trace' = trace \o <<x>>
    BY <1>3 DEF TracedStallReady, Record
  <2>2. Head(ready) \in Nat
    BY <1>3, HeadTailProperties, NumbersOf DEF TracedStallReady, StallReady, TypeOK
  <2>3. x \in RecordOf(IdleKinds)
    BY <2>2, RecIsOf DEF TraceKinds, IdleKinds
  <2> HIDE DEF x
  <2>4. <<x>> \in Seq(RecordOf(IdleKinds))
    BY <2>3
  <2> QED
    BY <2>1, <2>4
<1>4. CASE TracedScheduleReady
  <2>1. trace' = trace \o Routing(Head(ready))
    BY <1>4 DEF TracedScheduleReady, Record
  <2>2. Head(ready) \in Known
    BY <1>4, HeadTailProperties DEF TracedScheduleReady, ScheduleReady, TypeOK
  <2>3. Routing(Head(ready)) \in Seq(RecordOf(IdleKinds))
    BY <2>2, RoutingOf DEF IdleKinds
  <2> QED
    BY <2>1, <2>3
<1>5. CASE UNCHANGED trace
  <2>1. trace \o <<>> = trace
    BY ConcatEmptySeq
  <2>2. <<>> \in Seq(RecordOf(IdleKinds))
    OBVIOUS
  <2> QED
    BY <1>5, <2>1, <2>2
<1> QED
  BY <1>1, <1>2, <1>3, <1>4, <1>5 DEF IdleSteps

(* A service: the state is taken, the gate is served, its routing follows. *)
LEMMA ServiceOf ==
  ASSUME TypeOK, TypeOK', NEW gate \in Known, NEW wait \in Nat
  PROVE  LET rs == Service(gate, wait)
         IN  /\ rs \in Seq(RecordOf(ServiceKinds))
             /\ KindsAt(rs, {"served"}) = {2}
             /\ KindsAt(rs, {"enqueue", "dequeue"}) = {1} /\ rs[1].n = occupancy'
<1> DEFINE x == Rec("dequeue", gate, occupancy')
           y == Rec("served", gate, wait)
           rt == Routing(gate)
           rs == Service(gate, wait)
<1>1. gate \in Nat /\ occupancy' \in Nat
  <2>1. occupancy' \in Nat
    BY DEF TypeOK
  <2> QED
    BY <2>1, NumbersOf
<1>2. /\ x \in RecordOf(ServiceKinds) /\ y \in RecordOf(ServiceKinds)
      /\ x.kind = "dequeue" /\ y.kind = "served" /\ x.n = occupancy'
  <2>1. x \in RecordOf(ServiceKinds) /\ y \in RecordOf(ServiceKinds)
    BY <1>1, RecIsOf DEF TraceKinds, ServiceKinds
  <2> QED
    BY <2>1 DEF Rec
<1>3. rs = <<x, y>> \o rt
  BY DEF Service
<1>4. rt \in Seq(RecordOf({"routed"})) /\ rt \in Seq(RecordOf(ServiceKinds))
  BY RoutingOf DEF ServiceKinds
<1> HIDE DEF x, y, rs, rt
<1> DEFINE t == <<x, y>>
<1>5. t \in Seq(RecordOf(ServiceKinds)) /\ Len(t) = 2 /\ DOMAIN t = 1 .. 2
      /\ t[1] = x /\ t[2] = y
  BY <1>2
<1>6. rs = t \o rt
  BY <1>3
<1> HIDE DEF t
<1>7. rs \in Seq(RecordOf(ServiceKinds))
  BY <1>4, <1>5, <1>6, ConcatProperties
<1>8. t \in Seq(TraceRecord) /\ rt \in Seq(TraceRecord)
      /\ \A i \in DOMAIN rt : rt[i].kind = "routed"
  BY <1>4, <1>5, RecordsOf
<1>9. KindsAt(t, {"served"}) = {2} /\ KindsAt(t, {"enqueue", "dequeue"}) = {1}
  <2>1. \A i \in DOMAIN t : i = 1 \/ i = 2
    BY <1>5
  <2> QED
    BY <1>2, <1>5, <2>1 DEF KindsAt
<1>10. KindsAt(rt, {"served"}) = {} /\ KindsAt(rt, {"enqueue", "dequeue"}) = {}
  BY <1>8 DEF KindsAt
<1>11. KindsAt(rs, {"served"}) = {2} /\ KindsAt(rs, {"enqueue", "dequeue"}) = {1}
  <2>1. KindsAt(rs, {"served"}) = {2} \cup {Len(t) + i : i \in {}}
    BY <1>6, <1>8, <1>9, <1>10, KindsGrow
  <2>2. KindsAt(rs, {"enqueue", "dequeue"}) = {1} \cup {Len(t) + i : i \in {}}
    BY <1>6, <1>8, <1>9, <1>10, KindsGrow
  <2> QED
    BY <2>1, <2>2
<1>12. rs[1] = x
  <2>1. 1 \in DOMAIN t
    BY <1>5
  <2> QED
    BY <1>5, <1>6, <1>8, <2>1, TraceGrows
<1> QED
  BY <1>2, <1>7, <1>11, <1>12 DEF rs

LEMMA FirstRecords ==
  ASSUME TracedInit
  PROVE  /\ TypeOK /\ now = 0 /\ trace \in Seq(TraceRecord) /\ DOMAIN trace = 1 .. NumFactories
         /\ \A i \in DOMAIN trace :
              /\ trace[i].kind = "started" /\ trace[i].id = i - 1 /\ trace[i].cycle = 0
              /\ trace[i].id \in FactoryIds
<1>1. TypeOK /\ now = 0 /\ NumFactories \in Nat
  BY TypeInit, SizesAssumption DEF TracedInit, Init
<1>2. trace = [i \in 1 .. NumFactories |-> Rec("started", i - 1, 0)]
  BY DEF TracedInit
<1>3. \A i \in 1 .. NumFactories :
        /\ Rec("started", i - 1, 0) \in TraceRecord /\ Rec("started", i - 1, 0).kind = "started"
        /\ Rec("started", i - 1, 0).id = i - 1 /\ Rec("started", i - 1, 0).cycle = 0
        /\ i - 1 \in FactoryIds
  <2>1. TAKE i \in 1 .. NumFactories
  <2>2. i - 1 \in Nat /\ i - 1 \in FactoryIds
    BY <1>1 DEF FactoryIds
  <2>3. Rec("started", i - 1, 0) \in TraceRecord
    BY <1>1, <2>2, RecType DEF TraceKinds
  <2> QED
    BY <1>1, <2>2, <2>3 DEF Rec
<1>4. trace \in Seq(TraceRecord)
  BY <1>1, <1>2, <1>3
<1> QED
  BY <1>1, <1>2, <1>3, <1>4

-----------------------------------------------------------------------------
(* The buffer in the trace. *)

Levels == {"enqueue", "dequeue"}

(* The services are the states consumed, and the last record of the        *)
(* buffer's level gives it.                                                *)
Stocked ==
  /\ trace \in Seq(TraceRecord)
  /\ Cardinality(KindsAt(trace, {"served"})) = consumed
  /\ \A i \in KindsAt(trace, Levels) :
       (\A j \in KindsAt(trace, Levels) : j <= i) => trace[i].n = occupancy

LEMMA KindsFinite ==
  ASSUME NEW tr \in Seq(TraceRecord), NEW K
  PROVE  /\ KindsAt(tr, K) \subseteq 1 .. Len(tr) /\ Len(tr) \in Nat /\ DOMAIN tr = 1 .. Len(tr)
         /\ IsFiniteSet(KindsAt(tr, K)) /\ Cardinality(KindsAt(tr, K)) \in Nat
<1>1. DOMAIN tr = 1 .. Len(tr) /\ Len(tr) \in Nat
  BY LenProperties
<1>2. KindsAt(tr, K) \subseteq 1 .. Len(tr)
  BY <1>1 DEF KindsAt
<1>3. IsFiniteSet(KindsAt(tr, K))
  <2>1. IsFiniteSet(1 .. Len(tr))
    BY <1>1, FS_Interval
  <2> QED
    BY <1>2, <2>1, FS_Subset
<1> QED
  BY <1>1, <1>2, <1>3, FS_CardinalityType

LEMMA StockedInit == TracedInit => Stocked
<1> SUFFICES ASSUME TracedInit PROVE Stocked
  OBVIOUS
<1>1. trace \in Seq(TraceRecord) /\ \A i \in DOMAIN trace : trace[i].kind = "started"
  BY FirstRecords
<1>2. KindsAt(trace, {"served"}) = {} /\ KindsAt(trace, Levels) = {}
  BY <1>1 DEF KindsAt, Levels
<1>3. Cardinality({}) = 0 /\ consumed = 0
  BY FS_EmptySet DEF TracedInit, Init
<1> QED
  BY <1>1, <1>2, <1>3 DEF Stocked

LEMMA StockedKeeps ==
  ASSUME Stocked, NEW rs \in Seq(TraceRecord), trace' = trace \o rs,
         KindsAt(rs, {"served"}) = {}, KindsAt(rs, Levels) = {},
         occupancy' = occupancy, consumed' = consumed
  PROVE  Stocked'
<1>1. trace' \in Seq(TraceRecord) /\ \A i \in DOMAIN trace : trace'[i] = trace[i]
  BY TraceGrows DEF Stocked
<1>2. /\ KindsAt(trace', {"served"}) = KindsAt(trace, {"served"})
      /\ KindsAt(trace', Levels) = KindsAt(trace, Levels)
  <2>1. \A K : KindsAt(rs, K) = {} => KindsAt(trace', K) = KindsAt(trace, K)
    <3>1. TAKE K
    <3>2. HAVE KindsAt(rs, K) = {}
    <3>3. trace' = trace \o rs /\ trace \in Seq(TraceRecord)
      BY DEF Stocked
    <3>4. KindsAt(trace', K) = KindsAt(trace, K) \cup {Len(trace) + i : i \in KindsAt(rs, K)}
      BY <3>3, KindsGrow
    <3> QED
      BY <3>2, <3>4
  <2> QED
    BY <2>1
<1>3. KindsAt(trace, Levels) \subseteq DOMAIN trace
  BY DEF KindsAt
<1> QED
  BY <1>1, <1>2, <1>3 DEF Stocked

(* One record of the level, which is the last of them. *)
LEMMA LevelRecorded ==
  ASSUME trace \in Seq(TraceRecord), NEW rs \in Seq(TraceRecord), trace' = trace \o rs,
         NEW p, KindsAt(rs, Levels) = {p}, rs[p].n = occupancy'
  PROVE  /\ trace' \in Seq(TraceRecord)
         /\ \A i \in KindsAt(trace', Levels) :
              (\A j \in KindsAt(trace', Levels) : j <= i) => trace'[i].n = occupancy'
<1>1. p \in DOMAIN rs
  BY DEF KindsAt
<1>2. /\ trace' \in Seq(TraceRecord) /\ trace'[Len(trace) + p] = rs[p]
      /\ Len(trace) \in Nat /\ p \in Nat \ {0} /\ DOMAIN trace = 1 .. Len(trace)
  BY <1>1, TraceGrows
<1>3. KindsAt(trace', Levels) = KindsAt(trace, Levels) \cup {Len(trace) + p}
  BY KindsGrow
<1>4. \A i \in KindsAt(trace, Levels) : i \in 1 .. Len(trace)
  BY <1>2 DEF KindsAt
<1>5. ASSUME NEW i \in KindsAt(trace', Levels), \A j \in KindsAt(trace', Levels) : j <= i
      PROVE  trace'[i].n = occupancy'
  <2>1. Len(trace) + p <= i
    BY <1>3, <1>5
  <2>2. i = Len(trace) + p
    BY <1>2, <1>3, <1>4, <2>1
  <2> QED
    BY <1>2, <2>2
<1> QED
  BY <1>2, <1>5

LEMMA ProducedStocked ==
  ASSUME TypeOK, TypeOK', Stocked, TracedProduced
  PROVE  Stocked'
<1> DEFINE f == Head(events).id
           x == Rec("produced", f, 0)
           y == IF occupancy < Capacity THEN Rec("enqueue", f, occupancy')
                                        ELSE Rec("full", f, 0)
           z == Rec("started", f, 0)
           rs == <<x, y, z>>
<1>1. /\ trace' = trace \o rs /\ consumed' = consumed /\ trace \in Seq(TraceRecord)
      /\ ~(occupancy < Capacity) => occupancy' = occupancy
  BY DEF TracedProduced, FactoryProduced, Record, Stocked
<1>2. f \in Nat /\ occupancy' \in Nat
  <2>1. f \in FactoryIds
    BY HeadEvent DEF TracedProduced, FactoryProduced
  <2>2. occupancy' \in Nat
    BY DEF TypeOK
  <2> QED
    BY <2>1, <2>2, NumbersOf
<1> HIDE DEF f
<1>3. /\ x \in TraceRecord /\ y \in TraceRecord /\ z \in TraceRecord
      /\ x.kind = "produced" /\ z.kind = "started"
      /\ y.kind = IF occupancy < Capacity THEN "enqueue" ELSE "full"
      /\ occupancy < Capacity => y.n = occupancy'
  <2>1. x \in TraceRecord /\ y \in TraceRecord /\ z \in TraceRecord
    BY <1>2, RecType DEF TraceKinds
  <2> QED
    BY <2>1 DEF Rec
<1> HIDE DEF x, y, z
<1>4. /\ rs \in Seq(TraceRecord) /\ DOMAIN rs = 1 .. 3
      /\ rs[1] = x /\ rs[2] = y /\ rs[3] = z
  BY <1>3
<1> HIDE DEF rs
<1>5. \A i \in DOMAIN rs : i = 1 \/ i = 2 \/ i = 3
  BY <1>4
<1>6. KindsAt(rs, {"served"}) = {}
  BY <1>3, <1>4, <1>5 DEF KindsAt
<1>7. CASE occupancy < Capacity
  <2>1. KindsAt(rs, Levels) = {2}
    BY <1>3, <1>4, <1>5, <1>7 DEF KindsAt, Levels
  <2>2. rs[2].n = occupancy'
    BY <1>3, <1>4, <1>7
  <2>3. KindsAt(trace', {"served"}) = KindsAt(trace, {"served"})
    <3>1. KindsAt(trace', {"served"})
            = KindsAt(trace, {"served"}) \cup {Len(trace) + i : i \in KindsAt(rs, {"served"})}
      BY <1>1, <1>4, KindsGrow
    <3> QED
      BY <1>6, <3>1
  <2>4. /\ trace' \in Seq(TraceRecord)
        /\ \A i \in KindsAt(trace', Levels) :
              (\A j \in KindsAt(trace', Levels) : j <= i) => trace'[i].n = occupancy'
    BY <1>1, <1>4, <2>1, <2>2, LevelRecorded
  <2> QED
    BY <1>1, <2>3, <2>4 DEF Stocked
<1>8. CASE ~(occupancy < Capacity)
  <2>1. KindsAt(rs, Levels) = {}
    BY <1>3, <1>4, <1>5, <1>8 DEF KindsAt, Levels
  <2> QED
    BY <1>1, <1>4, <1>6, <1>8, <2>1, StockedKeeps
<1> QED
  BY <1>7, <1>8

LEMMA FailedStocked ==
  ASSUME TypeOK, TypeOK', Stocked, TracedFailed
  PROVE  Stocked'
<1> DEFINE f == Head(events).id
           x == Rec("failed", f, 0)
           y == Rec("started", f, 0)
           rs == <<x, y>>
<1>1. /\ trace' = trace \o rs /\ consumed' = consumed /\ trace \in Seq(TraceRecord)
      /\ occupancy' = occupancy
  BY DEF TracedFailed, FactoryFailed, Record, Stocked, bufferVars
<1>2. f \in Nat
  BY HeadEvent, NumbersOf DEF TracedFailed, FactoryFailed
<1> HIDE DEF f
<1>3. /\ x \in TraceRecord /\ y \in TraceRecord /\ x.kind = "failed" /\ y.kind = "started"
  <2>1. x \in TraceRecord /\ y \in TraceRecord
    BY <1>2, RecType DEF TraceKinds
  <2> QED
    BY <2>1 DEF Rec
<1> HIDE DEF x, y
<1>4. rs \in Seq(TraceRecord) /\ DOMAIN rs = 1 .. 2 /\ rs[1] = x /\ rs[2] = y
  BY <1>3
<1> HIDE DEF rs
<1>5. \A i \in DOMAIN rs : i = 1 \/ i = 2
  BY <1>4
<1>6. KindsAt(rs, {"served"}) = {} /\ KindsAt(rs, Levels) = {}
  BY <1>3, <1>4, <1>5 DEF KindsAt, Levels
<1> QED
  BY <1>1, <1>4, <1>6, StockedKeeps

LEMMA ServiceStocked ==
  ASSUME TypeOK, TypeOK', Stocked, NEW gate \in Known, NEW wait \in Nat,
         trace' = trace \o Service(gate, wait), consumed' = consumed + 1
  PROVE  Stocked'
<1> DEFINE rs == Service(gate, wait)
<1>1. /\ rs \in Seq(RecordOf(ServiceKinds)) /\ KindsAt(rs, {"served"}) = {2}
      /\ KindsAt(rs, Levels) = {1} /\ rs[1].n = occupancy' /\ trace' = trace \o rs
  BY ServiceOf DEF Levels
<1> HIDE DEF rs
<1>2. rs \in Seq(TraceRecord) /\ trace \in Seq(TraceRecord)
  BY <1>1, RecordsOf DEF Stocked
<1>3. KindsAt(trace', {"served"}) = KindsAt(trace, {"served"}) \cup {Len(trace) + 2}
  <2>1. KindsAt(trace', {"served"})
          = KindsAt(trace, {"served"}) \cup {Len(trace) + i : i \in KindsAt(rs, {"served"})}
    BY <1>1, <1>2, KindsGrow
  <2> QED
    BY <1>1, <2>1
<1>4. /\ IsFiniteSet(KindsAt(trace, {"served"})) /\ Len(trace) \in Nat
      /\ KindsAt(trace, {"served"}) \subseteq 1 .. Len(trace)
  BY <1>2, KindsFinite
<1>5. Cardinality(KindsAt(trace', {"served"})) = Cardinality(KindsAt(trace, {"served"})) + 1
  <2>1. Len(trace) + 2 \notin KindsAt(trace, {"served"})
    BY <1>4
  <2> QED
    BY <1>3, <1>4, <2>1, FS_AddElement
<1>6. /\ trace' \in Seq(TraceRecord)
      /\ \A i \in KindsAt(trace', Levels) :
              (\A j \in KindsAt(trace', Levels) : j <= i) => trace'[i].n = occupancy'
  BY <1>1, <1>2, LevelRecorded
<1> QED
  BY <1>5, <1>6 DEF Stocked

LEMMA IdleStocked ==
  ASSUME TypeOK, TypeOK', Stocked, IdleSteps, occupancy' = occupancy, consumed' = consumed
  PROVE  Stocked'
<1>1. PICK rs \in Seq(RecordOf(IdleKinds)) : trace' = trace \o rs
  BY IdleRecords DEF Stocked
<1>2. rs \in Seq(TraceRecord) /\ \A i \in DOMAIN rs : rs[i].kind \in IdleKinds
  BY RecordsOf
<1>3. KindsAt(rs, {"served"}) = {} /\ KindsAt(rs, Levels) = {}
  BY <1>2 DEF KindsAt, Levels, IdleKinds
<1> QED
  BY <1>1, <1>2, <1>3, StockedKeeps

(* Where a gate that is served comes from. *)
LEMMA ServedGate ==
  ASSUME TypeOK, InTime
  PROVE  /\ TracedServeStalled =>
              /\ Head(stalled).gate \in Known
              /\ consumed' = consumed + 1
         /\ TracedServeReady => Head(ready) \in Known /\ consumed' = consumed + 1
<1>1. ASSUME TracedServeStalled
      PROVE  Head(stalled).gate \in Known /\ consumed' = consumed + 1
  <2>1. stalled \in Seq([gate : Known, since : Nat]) /\ stalled # <<>>
    BY <1>1 DEF TypeOK, TracedServeStalled, ServeStalled
  <2>2. Head(stalled) \in [gate : Known, since : Nat]
    BY <2>1, HeadTailProperties
  <2> QED
    BY <1>1, <2>2 DEF TracedServeStalled, ServeStalled, Serve
<1>2. ASSUME TracedServeReady PROVE Head(ready) \in Known /\ consumed' = consumed + 1
  <2>1. ready \in Seq(Known) /\ ready # <<>>
    BY <1>2 DEF TypeOK, TracedServeReady, ServeReady
  <2> QED
    BY <1>2, <2>1, HeadTailProperties DEF TracedServeReady, ServeReady, Serve
<1> QED
  BY <1>1, <1>2

(* A gate has not stalled in the future. *)
SinceBounded == \A i \in DOMAIN stalled : stalled[i].since <= now

LEMMA SinceStep ==
  ASSUME TypeOK, InTime, SinceBounded, [Next]_vars
  PROVE  SinceBounded'
<1> USE DEF SinceBounded
<1>1. now \in Nat /\ stalled \in Seq([gate : Known, since : Nat])
  BY DEF TypeOK
<1>2. \A i \in DOMAIN stalled : stalled[i].since \in Nat
  <2>1. \A i \in DOMAIN stalled : stalled[i] \in [gate : Known, since : Nat]
    BY <1>1, ElementOfSeq, LenProperties
  <2> QED
    BY <2>1
<1>3. CASE UNCHANGED <<stalled, now>>
  BY <1>3
<1>4. CASE BeginStep
  <2>1. stalled' = stalled /\ events # <<>> /\ now' = Head(events).at
    BY <1>4 DEF BeginStep
  <2>2. now' \in Nat /\ now' >= now
    BY <2>1, EventsType, TailKeeps, EventTime DEF InTime
  <2> QED
    BY <1>1, <1>2, <2>1, <2>2
<1>5. CASE ServeStalled
  <2>1. stalled # <<>> /\ stalled' = Tail(stalled) /\ now' = now
    BY <1>5 DEF ServeStalled
  <2>2. \A i \in DOMAIN Tail(stalled) : \E j \in DOMAIN stalled : Tail(stalled)[i] = stalled[j]
    BY <2>1, StalledTail
  <2> QED
    BY <2>1, <2>2
<1>6. CASE StallReady
  <2> DEFINE e == [gate |-> Head(ready), since |-> now]
  <2>1. /\ stalled' = Append(stalled, e) /\ now' = now
    BY <1>6 DEF StallReady
  <2>2. e.since = now
    OBVIOUS
  <2>3. e \in [gate : Known, since : Nat]
    BY <1>1, <1>6, HeadTailProperties DEF StallReady, TypeOK
  <2> HIDE DEF e
  <2>4. /\ DOMAIN stalled = 1 .. Len(stalled) /\ Len(stalled) \in Nat
        /\ DOMAIN stalled' = 1 .. Len(stalled) + 1
        /\ \A d \in DOMAIN stalled : stalled'[d] = stalled[d]
        /\ stalled'[Len(stalled) + 1] = e
    BY <1>1, <2>1, <2>3, AppendProperties, LenProperties
  <2> QED
    BY <1>1, <2>1, <2>2, <2>4
<1> QED
  BY <1>3, <1>4, <1>5, <1>6
  DEF Next, vars, Finish, Truncate, FactoryProduced, FactoryFailed, InjectionError,
      GateCompleted, MeasuredDeferred, MeasuredInstant, HookActivation, EndEvents, EndServe,
      ServeReady, ScheduleReady, EndStep, Returned

LEMMA AlwaysSinceBounded == Spec => []SinceBounded
<1>1. Init => SinceBounded
  BY DEF Init, SinceBounded
<1>2. TypeOK /\ InTime /\ SinceBounded /\ [Next]_vars => SinceBounded'
  BY SinceStep
<1> QED
  BY <1>1, <1>2, TypeCorrect, AlwaysInTime, PTL DEF Spec

LEMMA StockedStep ==
  ASSUME TypeOK, TypeOK', InTime, SinceBounded, Stocked, [TracedNext]_tracedVars
  PROVE  Stocked'
<1>1. CASE TracedProduced
  BY <1>1, ProducedStocked
<1>2. CASE TracedFailed
  BY <1>2, FailedStocked
<1>3. CASE TracedServeReady
  <2>1. Head(ready) \in Known /\ consumed' = consumed + 1
    BY <1>3, ServedGate
  <2>2. trace' = trace \o Service(Head(ready), 0)
    BY <1>3 DEF TracedServeReady, Record
  <2> DEFINE wait == 0
  <2>3. wait \in Nat /\ trace' = trace \o Service(Head(ready), wait)
    BY <2>2
  <2> HIDE DEF wait
  <2> QED
    BY <2>1, <2>3, ServiceStocked
<1>4. CASE TracedServeStalled
  <2> DEFINE wait == now - Head(stalled).since
  <2>1. Head(stalled).gate \in Known /\ consumed' = consumed + 1
    BY <1>4, ServedGate
  <2>2. trace' = trace \o Service(Head(stalled).gate, wait)
    BY <1>4 DEF TracedServeStalled, Record
  <2>3. wait \in Nat
    <3>1. stalled # <<>>
      BY <1>4 DEF TracedServeStalled, ServeStalled
    <3>2. /\ Head(stalled) \in [gate : Known, since : Nat] /\ Head(stalled) = stalled[1]
          /\ 1 \in DOMAIN stalled
      BY <3>1, StalledTail
    <3>3. Head(stalled).since \in Nat /\ Head(stalled).since <= now /\ now \in Nat
      BY <3>2 DEF SinceBounded, TypeOK
    <3> QED
      BY <3>3
  <2> HIDE DEF wait
  <2> QED
    BY <2>1, <2>2, <2>3, ServiceStocked
<1>5. ASSUME IdleSteps, UNCHANGED bufferVars PROVE Stocked'
  BY <1>5, IdleStocked DEF bufferVars
<1>6. CASE TracedInjection
  BY <1>5, <1>6 DEF TracedInjection, InjectionError, IdleSteps
<1>7. CASE TracedCompletion
  BY <1>5, <1>7 DEF TracedCompletion, GateCompleted, MeasuredDeferred, MeasuredInstant, IdleSteps
<1>8. CASE TracedStallReady \/ TracedScheduleReady
  BY <1>5, <1>8 DEF TracedStallReady, TracedScheduleReady, StallReady, ScheduleReady, IdleSteps
<1>9. CASE /\ \/ Finish \/ Truncate \/ BeginStep \/ HookActivation
              \/ EndEvents \/ EndServe \/ EndStep \/ Returned \/ UNCHANGED vars
           /\ UNCHANGED trace
  BY <1>5, <1>9 DEF Finish, Truncate, BeginStep, HookActivation, EndEvents, EndServe, EndStep,
                    Returned, vars, IdleSteps
<1> QED
  BY <1>1, <1>2, <1>3, <1>4, <1>6, <1>7, <1>8, <1>9 DEF TracedNext, tracedVars

LEMMA AlwaysStocked == TracedSpec => []Stocked
<1>1. TracedSpec => Spec
  BY TracedIsEngine, PTL DEF TracedSpec, Spec
<1>2. TypeOK /\ TypeOK' /\ InTime /\ SinceBounded /\ Stocked /\ [TracedNext]_tracedVars
        => Stocked'
  BY StockedStep
<1> QED
  BY <1>1, <1>2, StockedInit, TypeCorrect, AlwaysInTime, AlwaysSinceBounded, PTL DEF TracedSpec

-----------------------------------------------------------------------------
(* Buckets. *)

LEMMA Quotients ==
  ASSUME NEW r \in Nat \ {0}
  PROVE  /\ \A x \in Nat : x \div r \in Nat
         /\ \A x, y \in Nat : x <= y => x \div r <= y \div r
         /\ 0 \div r = 0
<1>1. \A x \in Nat : x \div r \in Nat
  OBVIOUS
<1>2. ASSUME NEW x \in Nat, NEW y \in Nat, x <= y PROVE x \div r <= y \div r
  BY <1>2
<1>3. 0 \div r = 0
  OBVIOUS
<1> QED
  BY <1>1, <1>2, <1>3

Slots(cycles, res) == 0 .. NumBuckets(cycles, res) - 1

LEMMA BucketRange ==
  ASSUME NEW cycles \in Nat, NEW res \in Nat
  PROVE  /\ NumBuckets(cycles, res) \in Nat \ {0}
         /\ \A c \in Nat : Bucket(c, cycles, res) \in Slots(cycles, res)
         /\ \A c, d \in Nat : c <= d => Bucket(c, cycles, res) <= Bucket(d, cycles, res)
         /\ Bucket(0, cycles, res) = 0
         /\ Bucket(cycles, cycles, res) = NumBuckets(cycles, res) - 1
         /\ IsFiniteSet(Slots(cycles, res))
<1> DEFINE r == Resolution(res)
<1>1. r \in Nat \ {0}
  BY DEF Resolution
<1> HIDE DEF r
<1>2. /\ \A x \in Nat : x \div r \in Nat
      /\ \A x, y \in Nat : x <= y => x \div r <= y \div r
      /\ 0 \div r = 0
  BY <1>1, Quotients
<1> DEFINE q == [x \in Nat |-> x \div r]
<1>3. NumBuckets(cycles, res) = q[cycles] + 1 /\ NumBuckets(cycles, res) - 1 = q[cycles]
  <2>1. NumBuckets(cycles, res) = cycles \div r + 1 /\ cycles \div r \in Nat
    BY <1>2 DEF NumBuckets, r
  <2> QED
    BY <2>1
<1>a. \A c \in Nat : Bucket(c, cycles, res) = IF q[c] < q[cycles] THEN q[c] ELSE q[cycles]
  <2>1. TAKE c \in Nat
  <2>2. Bucket(c, cycles, res) = Least(q[c], q[cycles])
    BY <1>3 DEF Bucket, r
  <2> HIDE DEF q
  <2> QED
    BY <2>2 DEF Least
<1>4. /\ \A x \in Nat : q[x] \in Nat
      /\ \A x, y \in Nat : x <= y => q[x] <= q[y]
      /\ q[0] = 0
  BY <1>2
<1> HIDE DEF q
<1>5. NumBuckets(cycles, res) \in Nat \ {0}
  BY <1>3, <1>4
<1>b. /\ \A c \in Nat : Bucket(c, cycles, res) \in Slots(cycles, res)
      /\ \A c, d \in Nat : c <= d => Bucket(c, cycles, res) <= Bucket(d, cycles, res)
      /\ Bucket(0, cycles, res) = 0 /\ Bucket(cycles, cycles, res) = q[cycles]
  <2>1. \A c \in Nat : Bucket(c, cycles, res) \in 0 .. q[cycles]
    BY <1>a, <1>4
  <2>2. ASSUME NEW c \in Nat, NEW d \in Nat, c <= d
        PROVE  Bucket(c, cycles, res) <= Bucket(d, cycles, res)
    <3>1. q[c] <= q[d] /\ q[c] \in Nat /\ q[d] \in Nat /\ q[cycles] \in Nat
      BY <1>4, <2>2
    <3> QED
      BY <1>a, <3>1
  <2>3. q[0] <= q[cycles] /\ q[cycles] \in Nat
    BY <1>4
  <2> QED
    BY <1>a, <1>3, <1>4, <2>1, <2>2, <2>3 DEF Slots
<1>6. IsFiniteSet(Slots(cycles, res))
  <2>1. NumBuckets(cycles, res) - 1 \in Int
    BY <1>5
  <2> QED
    BY <2>1, FS_Interval DEF Slots
<1> QED
  BY <1>3, <1>5, <1>6, <1>b

-----------------------------------------------------------------------------
(* What analyze keeps of the buffer. *)

LEMMA AbsorbBuffer ==
  ASSUME NEW acc, {"magic", "occupancy"} \subseteq DOMAIN acc, NEW e, NEW cycles, NEW res
  PROVE  LET new == Absorb(acc, e, cycles, res)
             b == Bucket(e.cycle, cycles, res)
         IN  /\ {"magic", "occupancy"} \subseteq DOMAIN new
             /\ new.magic = IF e.kind = "served" THEN [acc.magic EXCEPT ![b] = @ + 1]
                                                 ELSE acc.magic
             /\ new.occupancy = IF e.kind \in Levels THEN [acc.occupancy EXCEPT ![b] = e.n]
                                                     ELSE acc.occupancy
<1>1. CASE e.kind = "served"
  BY <1>1 DEF Absorb, Observe, Served, Levels
<1>2. CASE e.kind \in Levels
  BY <1>2 DEF Absorb, Observe, Levels
<1>3. CASE e.kind # "served" /\ e.kind \notin Levels
  BY <1>3 DEF Absorb, Observe, Levels
<1> QED
  BY <1>1, <1>2, <1>3

(* The records of these kinds among the first i. *)
Among(tr, K, i) == {j \in 1 .. i : tr[j].kind \in K}

LEMMA AmongNext ==
  ASSUME NEW tr, NEW K, NEW i \in Nat \ {0}
  PROVE  /\ Among(tr, K, i) = IF tr[i].kind \in K THEN Among(tr, K, i - 1) \cup {i}
                              ELSE Among(tr, K, i - 1)
         /\ i \notin Among(tr, K, i - 1) /\ Among(tr, K, i - 1) \subseteq 1 .. i - 1
         /\ IsFiniteSet(Among(tr, K, i - 1))
         /\ Cardinality(Among(tr, K, i)) =
              Cardinality(Among(tr, K, i - 1)) + (IF tr[i].kind \in K THEN 1 ELSE 0)
<1>1. /\ tr[i].kind \in K => Among(tr, K, i) = Among(tr, K, i - 1) \cup {i}
      /\ tr[i].kind \notin K => Among(tr, K, i) = Among(tr, K, i - 1)
      /\ i \notin Among(tr, K, i - 1) /\ Among(tr, K, i - 1) \subseteq 1 .. i - 1
  BY DEF Among
<1>2. IsFiniteSet(Among(tr, K, i - 1))
  <2>1. i - 1 \in Nat
    OBVIOUS
  <2>2. IsFiniteSet(1 .. i - 1)
    BY <2>1, FS_Interval
  <2> QED
    BY <1>1, <2>2, FS_Subset
<1>3. Cardinality(Among(tr, K, i - 1)) \in Nat
  BY <1>2, FS_CardinalityType
<1>4. Cardinality(Among(tr, K, i)) =
              Cardinality(Among(tr, K, i - 1)) + (IF tr[i].kind \in K THEN 1 ELSE 0)
  <2>1. CASE tr[i].kind \in K
    <3>1. Cardinality(Among(tr, K, i)) = Cardinality(Among(tr, K, i - 1)) + 1
      BY <1>1, <1>2, <2>1, FS_AddElement
    <3> QED
      BY <2>1, <3>1
  <2>2. CASE tr[i].kind \notin K
    BY <1>1, <1>3, <2>2
  <2> QED
    BY <2>1, <2>2
<1> QED
  BY <1>1, <1>2, <1>4

(* What analyze knows of the buffer after i records. *)
BufferUpto(a, tr, cycles, res, i) ==
  /\ {"magic", "occupancy"} \subseteq DOMAIN a[i]
  /\ a[i].magic \in [Slots(cycles, res) -> Int]
  /\ SumOf(a[i].magic, Slots(cycles, res)) = Cardinality(Among(tr, {"served"}, i))
  /\ DOMAIN a[i].occupancy = Slots(cycles, res)
  /\ \A j \in Among(tr, Levels, i) :
       (\A k \in Among(tr, Levels, i) : k <= j) =>
         a[i].occupancy[Bucket(tr[j].cycle, cycles, res)] = tr[j].n

LEMMA BufferFollowed ==
  ASSUME NEW tr \in Seq(TraceRecord), NEW cycles \in Nat, NEW res \in Nat, NEW a,
         Pass(a, tr, cycles, res), NEW i \in 0 .. Len(tr)
  PROVE  BufferUpto(a, tr, cycles, res, i)
<1> DEFINE S == Slots(cycles, res)
           Good(m) == BufferUpto(a, tr, cycles, res, m)
           Bad == {m \in 0 .. Len(tr) : ~Good(m)}
<1>1. Len(tr) \in Nat /\ IsFiniteSet(S)
  BY LenProperties, BucketRange
<1>2. Good(0)
  <2>1. /\ {"magic", "occupancy"} \subseteq DOMAIN a[0]
        /\ a[0].magic = [b \in S |-> 0] /\ a[0].occupancy = [b \in S |-> 0]
    BY DEF Pass, Empty, Slots
  <2>2. Among(tr, {"served"}, 0) = {} /\ Among(tr, Levels, 0) = {}
    BY DEF Among
  <2>3. Cardinality({}) = 0
    BY FS_EmptySet
  <2> DEFINE z == [b \in S |-> 0]
  <2>4. SumOf(z, S) = 0
    <3>1. \A x \in S : z[x] = 0
      OBVIOUS
    <3> HIDE DEF z, S
    <3> QED
      BY <1>1, <3>1, SumZero
  <2>5. z \in [S -> Int]
    OBVIOUS
  <2> QED
    BY <2>1, <2>2, <2>3, <2>4, <2>5 DEF BufferUpto
<1>3. ASSUME NEW m \in 1 .. Len(tr), Good(m - 1) PROVE Good(m)
  <2> DEFINE e == tr[m]
             old == a[m - 1]
             b == Bucket(e.cycle, cycles, res)
  <2>1. e \in TraceRecord /\ m \in Nat \ {0}
    BY <1>1, ElementOfSeq
  <2>2. e.cycle \in Nat /\ b \in S
    BY <2>1, BucketRange DEF TraceRecord
  <2>3. a[m] = Absorb(old, e, cycles, res)
    BY DEF Pass
  <2>4. /\ {"magic", "occupancy"} \subseteq DOMAIN old /\ old.magic \in [S -> Int]
        /\ SumOf(old.magic, S) = Cardinality(Among(tr, {"served"}, m - 1))
        /\ DOMAIN old.occupancy = S
        /\ \A j \in Among(tr, Levels, m - 1) :
             (\A k \in Among(tr, Levels, m - 1) : k <= j) =>
               old.occupancy[Bucket(tr[j].cycle, cycles, res)] = tr[j].n
    BY <1>3 DEF BufferUpto
  <2> HIDE DEF e, old, b, S
  <2>5. /\ {"magic", "occupancy"} \subseteq DOMAIN a[m]
        /\ a[m].magic = IF e.kind = "served" THEN [old.magic EXCEPT ![b] = @ + 1]
                                             ELSE old.magic
        /\ a[m].occupancy = IF e.kind \in Levels THEN [old.occupancy EXCEPT ![b] = e.n]
                                                 ELSE old.occupancy
    BY <2>3, <2>4, AbsorbBuffer DEF b
  <2>6. /\ a[m].magic \in [S -> Int]
        /\ SumOf(a[m].magic, S) = Cardinality(Among(tr, {"served"}, m))
    <3>1. Cardinality(Among(tr, {"served"}, m)) =
            Cardinality(Among(tr, {"served"}, m - 1)) + (IF e.kind = "served" THEN 1 ELSE 0)
      BY <2>1, AmongNext DEF e
    <3>2. CASE e.kind = "served"
      <4> DEFINE g == old.magic
                 h == a[m].magic
      <4>1. h = [g EXCEPT ![b] = @ + 1] /\ h \in [S -> Int]
        BY <2>2, <2>4, <2>5, <3>2
      <4>2. \A x \in S : g[x] \in Int /\ h[x] = IF x = b THEN g[x] + 1 ELSE g[x]
        BY <2>2, <2>4, <4>1
      <4> HIDE DEF g, h
      <4>3. SumOf(h, S) = SumOf(g, S) + (IF b \in S THEN 1 ELSE 0)
        BY <1>1, <4>2, SumChange
      <4> QED
        BY <2>2, <2>4, <3>1, <3>2, <4>1, <4>3 DEF g, h
    <3>3. CASE e.kind # "served"
      <4>1. IsFiniteSet(Among(tr, {"served"}, m - 1))
        BY <2>1, AmongNext
      <4>2. Cardinality(Among(tr, {"served"}, m - 1)) \in Nat
        BY <4>1, FS_CardinalityType
      <4> QED
        BY <2>4, <2>5, <3>1, <3>3, <4>2
    <3> QED
      BY <3>2, <3>3
  <2>7. /\ DOMAIN a[m].occupancy = S
        /\ \A j \in Among(tr, Levels, m) :
             (\A k \in Among(tr, Levels, m) : k <= j) =>
               a[m].occupancy[Bucket(tr[j].cycle, cycles, res)] = tr[j].n
    <3>1. /\ Among(tr, Levels, m) = IF e.kind \in Levels THEN Among(tr, Levels, m - 1) \cup {m}
                                    ELSE Among(tr, Levels, m - 1)
          /\ Among(tr, Levels, m - 1) \subseteq 1 .. m - 1
      BY <2>1, AmongNext DEF e
    <3>2. CASE e.kind \in Levels
      <4>1. a[m].occupancy = [old.occupancy EXCEPT ![b] = e.n]
        BY <2>5, <3>2
      <4>2. a[m].occupancy[b] = e.n /\ DOMAIN a[m].occupancy = S
        BY <2>2, <2>4, <4>1
      <4>3. ASSUME NEW j \in Among(tr, Levels, m), \A k \in Among(tr, Levels, m) : k <= j
            PROVE  j = m
        <5>1. m <= j
          BY <3>1, <3>2, <4>3
        <5> QED
          BY <2>1, <3>1, <3>2, <5>1
      <4> QED
        BY <4>2, <4>3 DEF b, e
    <3>3. CASE e.kind \notin Levels
      BY <2>4, <2>5, <3>1, <3>3
    <3> QED
      BY <3>2, <3>3
  <2> QED
    BY <2>5, <2>6, <2>7 DEF BufferUpto, S
<1>4. Bad = {}
  <2> SUFFICES ASSUME Bad # {} PROVE FALSE
    OBVIOUS
  <2> HIDE DEF Good
  <2>0. Bad \subseteq Nat
    BY <1>1
  <2>1. PICK m \in Bad : \A n \in Bad : m <= n
    BY <2>0, LeastNumber
  <2>2. m \in 1 .. Len(tr) /\ ~Good(m)
    BY <1>1, <1>2, <2>1
  <2>3. m - 1 \in 0 .. Len(tr) /\ m - 1 \notin Bad
    BY <1>1, <2>1, <2>2
  <2> QED
    BY <1>3, <2>2, <2>3
<1> QED
  BY <1>4

(* Every maximum of a finite set of numbers is its Max. *)
LEMMA MaxIs ==
  ASSUME NEW n \in Nat, NEW s \in SUBSET (1 .. n), s # {}
  PROVE  Max(s) \in s /\ \A x \in s : x <= Max(s)
<1> DEFINE Above == {n - x : x \in s}
<1>1. Above \in SUBSET Nat /\ Above # {}
  <2>1. \A x \in s : n - x \in Nat
    OBVIOUS
  <2>2. \E x \in s : n - x \in Above
    OBVIOUS
  <2> QED
    BY <2>1, <2>2
<1> HIDE DEF Above
<1>2. PICK m \in Above : \A k \in Above : m <= k
  BY <1>1, LeastNumber
<1> USE DEF Above
<1>3. PICK x \in s : m = n - x
  BY <1>2
<1>4. \A y \in s : n - x <= n - y
  BY <1>2, <1>3
<1>5. \A y \in s : x >= y
  BY <1>4
<1>6. \E y \in s : \A z \in s : y >= z
  BY <1>5
<1>7. Max(s) \in s /\ \A y \in s : Max(s) >= y
  BY <1>6 DEF Max
<1> QED
  BY <1>7

LEMMA StockedReported == TypeOK /\ Stocked => MagicAccounted
<1> SUFFICES ASSUME TypeOK, Stocked, NEW res \in Resolutions
             PROVE  LET profile == ProfileOf(res)
                        changes == {i \in DOMAIN trace : trace[i].kind \in {"enqueue", "dequeue"}}
                    IN  /\ Cumulative(profile.magic)[NumBuckets(now, res) - 1] = consumed
                        /\ changes # {} =>
                             profile.occupancy[BucketOf(trace[Max(changes)].cycle, res)]
                               = occupancy
  BY DEF MagicAccounted
<1> DEFINE profile == ProfileOf(res)
           changes == {i \in DOMAIN trace : trace[i].kind \in {"enqueue", "dequeue"}}
           n == Len(trace)
           last == NumBuckets(now, res) - 1
<1>1. trace \in Seq(TraceRecord) /\ now \in Nat /\ res \in Nat
  BY ResolutionsAssumption DEF Stocked, TypeOK
<1>2. PICK a : Pass(a, trace, now, res) /\ Folded(trace, now, res) = a[n]
  BY <1>1, PassExists
<1>3. profile.magic = a[n].magic /\ profile.occupancy = a[n].occupancy
  <2>1. profile.magic = Folded(trace, now, res).magic
        /\ profile.occupancy = Folded(trace, now, res).occupancy
    BY DEF ProfileOf, Analyze, Folded
  <2> QED
    BY <1>2, <2>1
<1>4. n \in Nat /\ DOMAIN trace = 1 .. n /\ n \in 0 .. n
  BY <1>1, LenProperties
<1>5. BufferUpto(a, trace, now, res, n)
  <2> HIDE DEF n
  <2>1. n \in 0 .. Len(trace)
    BY <1>4 DEF n
  <2> QED
    BY <1>1, <1>2, <2>1, BufferFollowed
<1>6. /\ Among(trace, {"served"}, n) = KindsAt(trace, {"served"})
      /\ Among(trace, Levels, n) = KindsAt(trace, Levels)
      /\ changes = KindsAt(trace, Levels) /\ changes \subseteq 1 .. n
  BY <1>4 DEF Among, KindsAt, Levels
<1>7. /\ NumBuckets(now, res) \in Nat \ {0}
      /\ Slots(now, res) = 0 .. last /\ last \in Slots(now, res)
  <2>1. NumBuckets(now, res) \in Nat \ {0}
    BY <1>1, BucketRange
  <2> QED
    BY <2>1 DEF Slots
<1> HIDE DEF n, last, profile
<1>8. Cumulative(profile.magic)[last] = consumed
  <2>1. a[n].magic \in [Slots(now, res) -> Int]
        /\ SumOf(a[n].magic, Slots(now, res)) = consumed
    BY <1>5, <1>6 DEF BufferUpto, Stocked
  <2>2. DOMAIN a[n].magic = Slots(now, res)
    BY <2>1
  <2>3. Cumulative(a[n].magic)[last] = SumOf(a[n].magic, 0 .. last)
    BY <1>7, <2>2 DEF Cumulative, SumOf
  <2> QED
    BY <1>3, <1>7, <2>1, <2>3
<1>9. ASSUME changes # {}
      PROVE  profile.occupancy[BucketOf(trace[Max(changes)].cycle, res)] = occupancy
  <2> DEFINE top == Max(changes)
  <2>1. top \in changes /\ \A k \in changes : k <= top
    BY <1>4, <1>6, <1>9, MaxIs
  <2> HIDE DEF top, changes
  <2>2. trace[top].n = occupancy
    BY <1>6, <2>1 DEF Stocked
  <2>3. a[n].occupancy[Bucket(trace[top].cycle, now, res)] = trace[top].n
    BY <1>5, <1>6, <2>1 DEF BufferUpto
  <2> QED
    BY <1>3, <2>2, <2>3 DEF BucketOf, top
<1> QED
  BY <1>8, <1>9 DEF profile, last

(* ProfileAnalyzer::analyze counts every magic state consumed in one       *)
(* bucket, and the occupancy it keeps of the bucket in which the buffer    *)
(* last changed is what the buffer holds when the run is over.             *)
THEOREM StatesAccounted == TracedSpec => []MagicAccounted
<1>1. TracedSpec => Spec
  BY TracedIsEngine, PTL DEF TracedSpec, Spec
<1> QED
  BY <1>1, AlwaysStocked, StockedReported, TypeCorrect, PTL

-----------------------------------------------------------------------------
(* The attempts of the factories in the trace. *)

Ends == {"produced", "failed"}
StartAt(tr) == KindsAt(tr, {"started"})
EndAt(tr) == KindsAt(tr, Ends)

(* Between two starts of a factory there is an end, and an end has a start *)
(* since the one before.                                                   *)
Alternating(tr) ==
  /\ tr \in Seq(TraceRecord)
  /\ \A i \in StartAt(tr) \cup EndAt(tr) : tr[i].id \in FactoryIds
  /\ \A s, t \in StartAt(tr) : s < t /\ tr[s].id = tr[t].id =>
       \E e \in EndAt(tr) : s < e /\ e < t /\ tr[e].id = tr[s].id
  /\ \A e \in EndAt(tr) : \E s \in StartAt(tr) :
       /\ s < e /\ tr[s].id = tr[e].id
       /\ \A d \in EndAt(tr) : tr[d].id = tr[e].id => d < s \/ d >= e

Ascending(tr) ==
  /\ \A i, j \in DOMAIN tr : i <= j => tr[i].cycle <= tr[j].cycle
  /\ \A i \in DOMAIN tr : tr[i].cycle <= now

(* Every factory starts in the first cycle, starts again in the cycle in   *)
(* which an attempt ends, and so has one under way.                        *)
Restarted(tr) ==
  /\ \A f \in FactoryIds : \E s \in StartAt(tr) : tr[s].id = f /\ tr[s].cycle = 0
  /\ \A e \in EndAt(tr) : \E s \in StartAt(tr) :
       s > e /\ tr[s].id = tr[e].id /\ tr[s].cycle = tr[e].cycle
  /\ \A f \in FactoryIds : \E s \in StartAt(tr) :
       tr[s].id = f /\ \A e \in EndAt(tr) : tr[e].id = f => e < s

Runs == Alternating(trace) /\ Ascending(trace) /\ Restarted(trace)

LEMMA RunsInit == TracedInit => Runs
<1> SUFFICES ASSUME TracedInit PROVE Runs
  OBVIOUS
<1>1. /\ trace \in Seq(TraceRecord) /\ now = 0 /\ DOMAIN trace = 1 .. NumFactories
      /\ \A i \in DOMAIN trace :
              /\ trace[i].kind = "started" /\ trace[i].id = i - 1 /\ trace[i].cycle = 0
              /\ trace[i].id \in FactoryIds
  BY FirstRecords
<1>2. StartAt(trace) = DOMAIN trace /\ EndAt(trace) = {}
  BY <1>1 DEF StartAt, EndAt, KindsAt, Ends
<1>3. \A f \in FactoryIds : f + 1 \in DOMAIN trace /\ trace[f + 1].id = f
  BY <1>1, SizesAssumption DEF FactoryIds
<1>4. Alternating(trace)
  <2>1. \A s, t \in DOMAIN trace : s < t => trace[s].id # trace[t].id
    BY <1>1
  <2> QED
    BY <1>1, <1>2, <2>1 DEF Alternating
<1>5. Ascending(trace)
  BY <1>1 DEF Ascending
<1>6. Restarted(trace)
  BY <1>1, <1>2, <1>3 DEF Restarted
<1> QED
  BY <1>4, <1>5, <1>6 DEF Runs

(* Time does not run backwards in the trace. *)
LEMMA AscendingGrows ==
  ASSUME Ascending(trace), trace \in Seq(TraceRecord), NEW rs \in Seq(TraceRecord),
         \A i \in DOMAIN rs : rs[i].cycle = now, trace' = trace \o rs,
         now \in Nat, now' \in Nat, now' >= now
  PROVE  Ascending(trace)'
<1>1. /\ Len(trace) \in Nat /\ Len(rs) \in Nat
      /\ DOMAIN trace = 1 .. Len(trace) /\ DOMAIN rs = 1 .. Len(rs)
      /\ DOMAIN trace' = 1 .. Len(trace) + Len(rs)
      /\ \A i \in DOMAIN trace : trace'[i] = trace[i]
      /\ \A i \in DOMAIN rs : trace'[Len(trace) + i] = rs[i]
  BY TraceGrows
<1>2. \A i \in DOMAIN trace : trace[i].cycle \in Nat
  <2>1. \A i \in DOMAIN trace : trace[i] \in TraceRecord
    BY <1>1, ElementOfSeq
  <2> QED
    BY <2>1 DEF TraceRecord
<1>3. \A i \in DOMAIN trace' : i \in DOMAIN trace \/ (i > Len(trace) /\ trace'[i].cycle = now)
  <2>1. TAKE i \in DOMAIN trace'
  <2>2. CASE i > Len(trace)
    <3>1. i - Len(trace) \in DOMAIN rs /\ Len(trace) + (i - Len(trace)) = i
      BY <1>1, <2>2
    <3> QED
      BY <1>1, <2>2, <3>1
  <2> QED
    BY <1>1, <2>2
<1>4. ASSUME NEW i \in DOMAIN trace', NEW j \in DOMAIN trace', i <= j
      PROVE  trace'[i].cycle <= trace'[j].cycle
  <2>1. CASE i \in DOMAIN trace /\ j \in DOMAIN trace
    BY <1>1, <1>4, <2>1 DEF Ascending
  <2>2. CASE i \in DOMAIN trace /\ trace'[j].cycle = now
    BY <1>1, <2>2 DEF Ascending
  <2>3. CASE i > Len(trace) /\ trace'[i].cycle = now
    <3>1. trace'[j].cycle = now
      BY <1>1, <1>3, <1>4, <2>3
    <3> QED
      BY <2>3, <3>1
  <2> QED
    BY <1>3, <2>1, <2>2, <2>3
<1>5. ASSUME NEW i \in DOMAIN trace' PROVE trace'[i].cycle <= now'
  <2>1. CASE i \in DOMAIN trace
    BY <1>1, <1>2, <2>1 DEF Ascending
  <2>2. CASE trace'[i].cycle = now
    BY <2>2
  <2> QED
    BY <1>3, <2>1, <2>2
<1> QED
  BY <1>4, <1>5 DEF Ascending

LEMMA SameRuns ==
  ASSUME NEW tr, NEW tn \in Seq(TraceRecord), StartAt(tn) = StartAt(tr), EndAt(tn) = EndAt(tr),
         \A i \in StartAt(tr) \cup EndAt(tr) : tn[i] = tr[i], Alternating(tr), Restarted(tr)
  PROVE  Alternating(tn) /\ Restarted(tn)
<1> DEFINE A == StartAt(tr)
           E == EndAt(tr)
<1>1. StartAt(tn) = A /\ EndAt(tn) = E /\ \A i \in A \cup E : tn[i] = tr[i]
  OBVIOUS
<1> HIDE DEF A, E
<1>2. \A i \in A \cup E : tn[i].id \in FactoryIds
  BY <1>1 DEF Alternating, A, E
<1>3. \A s, t \in A : s < t /\ tn[s].id = tn[t].id =>
        \E e \in E : s < e /\ e < t /\ tn[e].id = tn[s].id
  <2>1. \A s, t \in A : s < t /\ tr[s].id = tr[t].id =>
          \E e \in E : s < e /\ e < t /\ tr[e].id = tr[s].id
    BY DEF Alternating, A, E
  <2> QED
    BY <1>1, <2>1
<1>4. \A e \in E : \E s \in A :
        /\ s < e /\ tn[s].id = tn[e].id
        /\ \A d \in E : tn[d].id = tn[e].id => d < s \/ d >= e
  <2>1. \A e \in E : \E s \in A :
          /\ s < e /\ tr[s].id = tr[e].id
          /\ \A d \in E : tr[d].id = tr[e].id => d < s \/ d >= e
    BY DEF Alternating, A, E
  <2> QED
    BY <1>1, <2>1
<1>5. \A f \in FactoryIds : \E s \in A : tn[s].id = f /\ tn[s].cycle = 0
  <2>1. \A f \in FactoryIds : \E s \in A : tr[s].id = f /\ tr[s].cycle = 0
    BY DEF Restarted, A
  <2> QED
    BY <1>1, <2>1
<1>6. \A e \in E : \E s \in A : s > e /\ tn[s].id = tn[e].id /\ tn[s].cycle = tn[e].cycle
  <2>1. \A e \in E : \E s \in A : s > e /\ tr[s].id = tr[e].id /\ tr[s].cycle = tr[e].cycle
    BY DEF Restarted, A, E
  <2> QED
    BY <1>1, <2>1
<1>7. \A f \in FactoryIds : \E s \in A :
        tn[s].id = f /\ \A e \in E : tn[e].id = f => e < s
  <2>1. \A f \in FactoryIds : \E s \in A :
          tr[s].id = f /\ \A e \in E : tr[e].id = f => e < s
    BY DEF Restarted, A, E
  <2> QED
    BY <1>1, <2>1
<1>8. Alternating(tn)
  BY <1>1, <1>2, <1>3, <1>4 DEF Alternating
<1>9. Restarted(tn)
  BY <1>1, <1>5, <1>6, <1>7 DEF Restarted
<1> QED
  BY <1>8, <1>9

LEMMA RunsKeep ==
  ASSUME Runs, NEW rs \in Seq(RecordOf(GateKinds)), trace' = trace \o rs,
         now \in Nat, now' \in Nat, now' >= now
  PROVE  Runs'
<1>1. /\ rs \in Seq(TraceRecord) /\ trace \in Seq(TraceRecord)
      /\ \A i \in DOMAIN rs : rs[i].kind \in GateKinds /\ rs[i].cycle = now
  BY RecordsOf DEF Runs, Alternating
<1>2. KindsAt(rs, {"started"}) = {} /\ KindsAt(rs, Ends) = {}
  BY <1>1 DEF KindsAt, GateKinds, IdleKinds, ServiceKinds, Ends
<1>3. StartAt(trace') = StartAt(trace) /\ EndAt(trace') = EndAt(trace)
  <2>1. StartAt(trace')
          = StartAt(trace) \cup {Len(trace) + i : i \in KindsAt(rs, {"started"})}
    BY <1>1, KindsGrow DEF StartAt
  <2>2. EndAt(trace') = EndAt(trace) \cup {Len(trace) + i : i \in KindsAt(rs, Ends)}
    BY <1>1, KindsGrow DEF EndAt
  <2> QED
    BY <1>2, <2>1, <2>2
<1>4. trace' \in Seq(TraceRecord) /\ \A i \in DOMAIN trace : trace'[i] = trace[i]
  BY <1>1, TraceGrows
<1>5. /\ StartAt(trace) \subseteq DOMAIN trace /\ EndAt(trace) \subseteq DOMAIN trace
      /\ \A i \in StartAt(trace) \cup EndAt(trace) : trace'[i] = trace[i]
  BY <1>4 DEF StartAt, EndAt, KindsAt
<1>6. Alternating(trace)' /\ Restarted(trace)'
  <2> DEFINE tn == trace'
  <2>1. /\ tn \in Seq(TraceRecord) /\ StartAt(tn) = StartAt(trace) /\ EndAt(tn) = EndAt(trace)
        /\ \A i \in StartAt(trace) \cup EndAt(trace) : tn[i] = trace[i]
    BY <1>3, <1>4, <1>5
  <2> HIDE DEF tn
  <2>2. Alternating(tn) /\ Restarted(tn)
    BY <2>1, SameRuns DEF Runs
  <2> QED
    BY <2>2 DEF tn
<1>8. Ascending(trace)'
  BY <1>1, AscendingGrows DEF Runs
<1> QED
  BY <1>6, <1>8 DEF Runs

(* An outcome of a factory, what it does to the buffer, and the next       *)
(* attempt.                                                                *)
Restart(rs, f, p) ==
  /\ rs \in Seq(TraceRecord) /\ f \in FactoryIds
  /\ KindsAt(rs, Ends) = {1} /\ KindsAt(rs, {"started"}) = {p} /\ p > 1
  /\ rs[1].id = f /\ rs[p].id = f
  /\ \A i \in DOMAIN rs : rs[i].cycle = now

LEMMA RestartedGrows ==
  ASSUME NEW tr, Alternating(tr), Restarted(tr), NEW rs, NEW f, NEW p, Restart(rs, f, p),
         NEW tn, tn = tr \o rs
  PROVE  Alternating(tn) /\ Restarted(tn)
<1> DEFINE A == StartAt(tr)
           E == EndAt(tr)
           e0 == Len(tr) + 1
           s0 == Len(tr) + p
<1>1. /\ rs \in Seq(TraceRecord) /\ tr \in Seq(TraceRecord) /\ f \in FactoryIds
      /\ KindsAt(rs, Ends) = {1} /\ KindsAt(rs, {"started"}) = {p} /\ p > 1
      /\ rs[1].id = f /\ rs[p].id = f /\ rs[1].cycle = rs[p].cycle
  <2>1. 1 \in DOMAIN rs /\ p \in DOMAIN rs
    BY DEF Restart, KindsAt
  <2> QED
    BY <2>1 DEF Restart, Alternating
<1>2. /\ StartAt(tn) = A \cup {s0} /\ EndAt(tn) = E \cup {e0}
  <2>1. StartAt(tn) = StartAt(tr) \cup {Len(tr) + i : i \in KindsAt(rs, {"started"})}
    BY <1>1, KindsGrow DEF StartAt
  <2>2. EndAt(tn) = EndAt(tr) \cup {Len(tr) + i : i \in KindsAt(rs, Ends)}
    BY <1>1, KindsGrow DEF EndAt
  <2> QED
    BY <1>1, <2>1, <2>2
<1>3. /\ tn \in Seq(TraceRecord) /\ \A i \in DOMAIN tr : tn[i] = tr[i]
      /\ DOMAIN tr = 1 .. Len(tr) /\ Len(tr) \in Nat
      /\ \A i \in DOMAIN rs : tn[Len(tr) + i] = rs[i]
      /\ 1 \in DOMAIN rs /\ p \in DOMAIN rs /\ DOMAIN rs = 1 .. Len(rs) /\ Len(rs) \in Nat
  BY <1>1, TraceGrows DEF KindsAt
<1>4. /\ A \subseteq 1 .. Len(tr) /\ E \subseteq 1 .. Len(tr)
      /\ \A i \in A \cup E : tn[i] = tr[i]
  BY <1>3 DEF StartAt, EndAt, KindsAt
<1>5. /\ tn[e0].id = f /\ tn[s0].id = f /\ tn[e0].cycle = tn[s0].cycle
      /\ e0 < s0 /\ e0 \in Nat /\ s0 \in Nat /\ \A i \in A \cup E : i < e0 /\ i \in Nat
  BY <1>1, <1>3, <1>4
<1> HIDE DEF A, E, e0, s0
<1>a. /\ \A i \in A \cup E : tr[i].id \in FactoryIds
      /\ \A s, t \in A : s < t /\ tr[s].id = tr[t].id =>
           \E e \in E : s < e /\ e < t /\ tr[e].id = tr[s].id
      /\ \A e \in E : \E s \in A :
           /\ s < e /\ tr[s].id = tr[e].id
           /\ \A d \in E : tr[d].id = tr[e].id => d < s \/ d >= e
  BY DEF Alternating, A, E
<1>b. /\ \A g \in FactoryIds : \E s \in A : tr[s].id = g /\ tr[s].cycle = 0
      /\ \A e \in E : \E s \in A : s > e /\ tr[s].id = tr[e].id /\ tr[s].cycle = tr[e].cycle
      /\ \A g \in FactoryIds : \E s \in A :
           tr[s].id = g /\ \A e \in E : tr[e].id = g => e < s
  BY DEF Restarted, A, E
<1> DEFINE A1 == A \cup {s0}
           E1 == E \cup {e0}
<1>6. \A i \in A1 \cup E1 : tn[i].id \in FactoryIds
  BY <1>1, <1>4, <1>5, <1>a
<1>7. \A s, t \in A1 : s < t /\ tn[s].id = tn[t].id =>
        \E e \in E1 : s < e /\ e < t /\ tn[e].id = tn[s].id
  <2>1. TAKE s \in A1, t \in A1
  <2>2. HAVE s < t /\ tn[s].id = tn[t].id
  <2>3. CASE t = s0
    <3>1. s \in A
      BY <1>5, <2>2, <2>3
    <3> QED
      BY <1>5, <2>2, <2>3, <3>1
  <2>4. CASE t \in A
    <3>1. s \in A
      BY <1>5, <2>2, <2>4
    <3>2. PICK e \in E : s < e /\ e < t /\ tr[e].id = tr[s].id
      BY <1>4, <1>a, <2>2, <2>4, <3>1
    <3> QED
      BY <1>4, <3>1, <3>2
  <2> QED
    BY <2>3, <2>4
<1>8. \A e \in E1 : \E s \in A1 :
        /\ s < e /\ tn[s].id = tn[e].id
        /\ \A d \in E1 : tn[d].id = tn[e].id => d < s \/ d >= e
  <2>1. TAKE e \in E1
  <2>2. CASE e = e0
    <3>1. PICK s \in A : tr[s].id = f /\ \A d \in E : tr[d].id = f => d < s
      BY <1>1, <1>b
    <3>2. s < e /\ tn[s].id = tn[e].id
      BY <1>4, <1>5, <2>2, <3>1
    <3>3. ASSUME NEW d \in E1, tn[d].id = tn[e].id PROVE d < s \/ d >= e
      <4>1. CASE d = e0
        BY <1>5, <2>2, <4>1
      <4>2. CASE d \in E
        <5>1. tr[d].id = f
          BY <1>4, <1>5, <2>2, <3>3, <4>2
        <5> QED
          BY <3>1, <4>2, <5>1
      <4> QED
        BY <4>1, <4>2
    <3> QED
      BY <3>2, <3>3
  <2>3. CASE e \in E
    <3>1. PICK s \in A : /\ s < e /\ tr[s].id = tr[e].id
                         /\ \A d \in E : tr[d].id = tr[e].id => d < s \/ d >= e
      BY <1>a, <2>3
    <3>2. s < e /\ tn[s].id = tn[e].id
      BY <1>4, <2>3, <3>1
    <3>3. ASSUME NEW d \in E1, tn[d].id = tn[e].id PROVE d < s \/ d >= e
      <4>1. CASE d = e0
        BY <1>5, <2>3, <4>1
      <4>2. CASE d \in E
        BY <1>4, <2>3, <3>1, <3>3, <4>2
      <4> QED
        BY <4>1, <4>2
    <3> QED
      BY <3>2, <3>3
  <2> QED
    BY <2>2, <2>3
<1>9. \A g \in FactoryIds : \E s \in A1 : tn[s].id = g /\ tn[s].cycle = 0
  BY <1>4, <1>b
<1>10. \A e \in E1 : \E s \in A1 :
         s > e /\ tn[s].id = tn[e].id /\ tn[s].cycle = tn[e].cycle
  <2>1. TAKE e \in E1
  <2>2. CASE e = e0
    BY <1>5, <2>2
  <2>3. CASE e \in E
    BY <1>4, <1>b, <2>3
  <2> QED
    BY <2>2, <2>3
<1>11. \A g \in FactoryIds : \E s \in A1 :
         tn[s].id = g /\ \A e \in E1 : tn[e].id = g => e < s
  <2>1. TAKE g \in FactoryIds
  <2>2. CASE g = f
    <3>1. \A e \in E1 : e < s0
      BY <1>5
    <3>2. tn[s0].id = g /\ s0 \in A1
      BY <1>5, <2>2
    <3> QED
      BY <3>1, <3>2
  <2>3. CASE g # f
    <3>1. PICK s \in A : tr[s].id = g /\ \A e \in E : tr[e].id = g => e < s
      BY <1>b
    <3>2. ASSUME NEW e \in E1, tn[e].id = g PROVE e < s
      <4>1. e \in E /\ tr[e].id = g
        BY <1>4, <1>5, <2>3, <3>2
      <4> QED
        BY <3>1, <4>1
    <3>3. tn[s].id = g /\ s \in A1
      BY <1>4, <3>1
    <3> QED
      BY <3>2, <3>3
  <2> QED
    BY <2>2, <2>3
<1>12. StartAt(tn) = A1 /\ EndAt(tn) = E1
  BY <1>2
<1> HIDE DEF A1, E1
<1>13. Alternating(tn)
  <2>1. \A i \in StartAt(tn) \cup EndAt(tn) : tn[i].id \in FactoryIds
    BY <1>6, <1>12
  <2>2. \A s, t \in StartAt(tn) : s < t /\ tn[s].id = tn[t].id =>
          \E e \in EndAt(tn) : s < e /\ e < t /\ tn[e].id = tn[s].id
    <3>1. TAKE s, t \in StartAt(tn)
    <3>2. s \in A1 /\ t \in A1
      BY <1>12
    <3>3. HAVE s < t /\ tn[s].id = tn[t].id
    <3>4. PICK e \in E1 : s < e /\ e < t /\ tn[e].id = tn[s].id
      BY <1>7, <3>2, <3>3
    <3> QED
      BY <1>12, <3>4
  <2>3. \A e \in EndAt(tn) : \E s \in StartAt(tn) :
          /\ s < e /\ tn[s].id = tn[e].id
          /\ \A d \in EndAt(tn) : tn[d].id = tn[e].id => d < s \/ d >= e
    BY <1>8, <1>12
  <2> QED
    BY <1>3, <2>1, <2>2, <2>3 DEF Alternating
<1>14. Restarted(tn)
  BY <1>9, <1>10, <1>11, <1>12 DEF Restarted
<1> QED
  BY <1>13, <1>14

LEMMA RecordsWiden ==
  ASSUME NEW K, NEW L, K \subseteq L, NEW rs \in Seq(RecordOf(K))
  PROVE  rs \in Seq(RecordOf(L))
<1>1. \A e \in RecordOf(K) : e \in RecordOf(L)
  BY DEF RecordOf
<1> QED
  BY <1>1

LEMMA ProducedRestarts ==
  ASSUME TypeOK, TypeOK', TracedProduced
  PROVE  \E rs, f, p : Restart(rs, f, p) /\ trace' = trace \o rs /\ now' = now
<1> DEFINE f == Head(events).id
           x == Rec("produced", f, 0)
           y == IF occupancy < Capacity THEN Rec("enqueue", f, occupancy')
                                        ELSE Rec("full", f, 0)
           z == Rec("started", f, 0)
           rs == <<x, y, z>>
<1>1. trace' = trace \o rs /\ now' = now
  BY DEF TracedProduced, FactoryProduced, Record
<1>2. f \in FactoryIds /\ f \in Nat /\ occupancy' \in Nat
  <2>1. f \in FactoryIds
    BY HeadEvent DEF TracedProduced, FactoryProduced
  <2>2. occupancy' \in Nat
    BY DEF TypeOK
  <2> QED
    BY <2>1, <2>2, NumbersOf
<1> HIDE DEF f
<1>3. /\ x \in TraceRecord /\ y \in TraceRecord /\ z \in TraceRecord
      /\ x.kind = "produced" /\ z.kind = "started" /\ y.kind \in {"enqueue", "full"}
      /\ x.id = f /\ z.id = f /\ x.cycle = now /\ y.cycle = now /\ z.cycle = now
  <2>1. x \in TraceRecord /\ y \in TraceRecord /\ z \in TraceRecord
    BY <1>2, RecType DEF TraceKinds
  <2> QED
    BY <2>1 DEF Rec
<1> HIDE DEF x, y, z
<1>4. /\ rs \in Seq(TraceRecord) /\ DOMAIN rs = 1 .. 3
      /\ rs[1] = x /\ rs[2] = y /\ rs[3] = z
  BY <1>3
<1> HIDE DEF rs
<1>5. \A i \in DOMAIN rs : i = 1 \/ i = 2 \/ i = 3
  BY <1>4
<1>6. KindsAt(rs, Ends) = {1} /\ KindsAt(rs, {"started"}) = {3}
  BY <1>3, <1>4, <1>5 DEF KindsAt, Ends
<1>7. \A i \in DOMAIN rs : rs[i].cycle = now
  BY <1>3, <1>4, <1>5
<1>8. Restart(rs, f, 3)
  BY <1>2, <1>3, <1>4, <1>6, <1>7 DEF Restart
<1> QED
  BY <1>1, <1>8

LEMMA FailedRestarts ==
  ASSUME TypeOK, TypeOK', TracedFailed
  PROVE  \E rs, f, p : Restart(rs, f, p) /\ trace' = trace \o rs /\ now' = now
<1> DEFINE f == Head(events).id
           x == Rec("failed", f, 0)
           z == Rec("started", f, 0)
           rs == <<x, z>>
<1>1. trace' = trace \o rs /\ now' = now
  BY DEF TracedFailed, FactoryFailed, Record
<1>2. f \in FactoryIds /\ f \in Nat
  BY HeadEvent, NumbersOf DEF TracedFailed, FactoryFailed
<1> HIDE DEF f
<1>3. /\ x \in TraceRecord /\ z \in TraceRecord
      /\ x.kind = "failed" /\ z.kind = "started"
      /\ x.id = f /\ z.id = f /\ x.cycle = now /\ z.cycle = now
  <2>1. x \in TraceRecord /\ z \in TraceRecord
    BY <1>2, RecType DEF TraceKinds
  <2> QED
    BY <2>1 DEF Rec
<1> HIDE DEF x, z
<1>4. rs \in Seq(TraceRecord) /\ DOMAIN rs = 1 .. 2 /\ rs[1] = x /\ rs[2] = z
  BY <1>3
<1> HIDE DEF rs
<1>5. \A i \in DOMAIN rs : i = 1 \/ i = 2
  BY <1>4
<1>6. KindsAt(rs, Ends) = {1} /\ KindsAt(rs, {"started"}) = {2}
  BY <1>3, <1>4, <1>5 DEF KindsAt, Ends
<1>7. \A i \in DOMAIN rs : rs[i].cycle = now
  BY <1>3, <1>4, <1>5
<1>8. Restart(rs, f, 2)
  BY <1>2, <1>3, <1>4, <1>6, <1>7 DEF Restart
<1> QED
  BY <1>1, <1>8

(* What the other steps record concerns gates. *)
LEMMA GateRecords ==
  ASSUME TypeOK, TypeOK', SinceBounded, InTime, trace \in Seq(TraceRecord),
         IdleSteps \/ TracedServeReady \/ TracedServeStalled
  PROVE  \E rs \in Seq(RecordOf(GateKinds)) : trace' = trace \o rs
<1>1. CASE IdleSteps
  <2>1. PICK rs \in Seq(RecordOf(IdleKinds)) : trace' = trace \o rs
    BY <1>1, IdleRecords
  <2>2. rs \in Seq(RecordOf(GateKinds))
    BY RecordsWiden DEF GateKinds
  <2> QED
    BY <2>1, <2>2
<1>2. ASSUME NEW gate \in Known, NEW wait \in Nat, trace' = trace \o Service(gate, wait)
      PROVE  \E rs \in Seq(RecordOf(GateKinds)) : trace' = trace \o rs
  <2>1. Service(gate, wait) \in Seq(RecordOf(ServiceKinds))
    BY ServiceOf
  <2> DEFINE rs == Service(gate, wait)
  <2> HIDE DEF rs
  <2>2. rs \in Seq(RecordOf(GateKinds))
    <3>1. ServiceKinds \subseteq GateKinds
      BY DEF GateKinds
    <3> QED
      BY <2>1, <3>1, RecordsWiden DEF rs
  <2> QED
    BY <1>2, <2>2 DEF rs
<1>3. CASE TracedServeReady
  <2>1. Head(ready) \in Known
    BY <1>3, ServedGate
  <2> DEFINE wait == 0
  <2>2. wait \in Nat /\ trace' = trace \o Service(Head(ready), wait)
    BY <1>3 DEF TracedServeReady, Record
  <2> HIDE DEF wait
  <2> QED
    BY <1>2, <2>1, <2>2
<1>4. CASE TracedServeStalled
  <2> DEFINE wait == now - Head(stalled).since
  <2>1. Head(stalled).gate \in Known
    BY <1>4, ServedGate
  <2>2. trace' = trace \o Service(Head(stalled).gate, wait)
    BY <1>4 DEF TracedServeStalled, Record
  <2>3. wait \in Nat
    <3>1. stalled # <<>>
      BY <1>4 DEF TracedServeStalled, ServeStalled
    <3>2. /\ Head(stalled) \in [gate : Known, since : Nat] /\ Head(stalled) = stalled[1]
          /\ 1 \in DOMAIN stalled
      BY <3>1, StalledTail
    <3>3. Head(stalled).since \in Nat /\ Head(stalled).since <= now /\ now \in Nat
      BY <3>2 DEF SinceBounded, TypeOK
    <3> QED
      BY <3>3
  <2> HIDE DEF wait
  <2> QED
    BY <1>2, <2>1, <2>2, <2>3
<1> QED
  BY <1>1, <1>3, <1>4

LEMMA RunsStep ==
  ASSUME TypeOK, TypeOK', InTime, SinceBounded, Runs, [TracedNext]_tracedVars
  PROVE  Runs'
<1>1. now \in Nat /\ now' \in Nat /\ now' >= now
  <2>1. now \in Nat /\ now' \in Nat
    BY DEF TypeOK
  <2>2. [now' >= now]_vars
    BY TracedIsEngine, InTimeStep
  <2> QED
    BY <2>1, <2>2 DEF vars
<1>2. ASSUME NEW rs, NEW f, NEW p, Restart(rs, f, p), trace' = trace \o rs, now' = now
      PROVE  Runs'
  <2> DEFINE tn == trace'
  <2>1. tn = trace \o rs /\ Alternating(trace) /\ Restarted(trace)
    BY <1>2 DEF Runs
  <2> HIDE DEF tn
  <2>2. Alternating(tn) /\ Restarted(tn)
    BY <1>2, <2>1, RestartedGrows
  <2>3. Ascending(trace)'
    <3>1. /\ rs \in Seq(TraceRecord) /\ \A i \in DOMAIN rs : rs[i].cycle = now
          /\ trace \in Seq(TraceRecord) /\ Ascending(trace)
      BY <1>2 DEF Restart, Runs, Alternating
    <3> QED
      BY <1>1, <1>2, <3>1, AscendingGrows
  <2> QED
    BY <2>2, <2>3 DEF Runs, tn
<1>3. CASE TracedProduced
  BY <1>2, <1>3, ProducedRestarts
<1>4. CASE TracedFailed
  BY <1>2, <1>4, FailedRestarts
<1>5. ASSUME IdleSteps \/ TracedServeReady \/ TracedServeStalled PROVE Runs'
  <2>1. trace \in Seq(TraceRecord)
    BY DEF Runs, Alternating
  <2>2. PICK rs \in Seq(RecordOf(GateKinds)) : trace' = trace \o rs
    BY <1>5, <2>1, GateRecords
  <2> QED
    BY <1>1, <2>2, RunsKeep
<1> QED
  BY <1>3, <1>4, <1>5 DEF TracedNext, tracedVars, IdleSteps

LEMMA AlwaysRuns == TracedSpec => []Runs
<1>1. TracedSpec => Spec
  BY TracedIsEngine, PTL DEF TracedSpec, Spec
<1>2. TypeOK /\ TypeOK' /\ InTime /\ SinceBounded /\ Runs /\ [TracedNext]_tracedVars => Runs'
  BY RunsStep
<1> QED
  BY <1>1, <1>2, RunsInit, TypeCorrect, AlwaysInTime, AlwaysSinceBounded, PTL DEF TracedSpec

-----------------------------------------------------------------------------
(* The difference array. *)

(* h is g but for the number at y, which has grown by d. *)
Raised(h, g, S, y, d) ==
  /\ d \in Int /\ \A x \in S : g[x] \in Int
  /\ \A x \in S : h[x] = IF x = y THEN g[x] + d ELSE g[x]

LEMMA SumRaised ==
  ASSUME NEW S, IsFiniteSet(S), NEW h, NEW g, NEW y, NEW d, Raised(h, g, S, y, d)
  PROVE  SumOf(h, S) = SumOf(g, S) + (IF y \in S THEN d ELSE 0)
BY SumChange DEF Raised

(* The prefix sums of new and old differ by an attempt active from bucket *)
(* from to bucket to.                                                     *)
Adds(new, old, n, from, to) ==
  /\ new \in [0 .. n -> Int]
  /\ \A b \in 0 .. n - 1 :
       SumOf(new, 0 .. b) = SumOf(old, 0 .. b) + (IF from <= b /\ b <= to THEN 1 ELSE 0)

LEMMA ActiveSum ==
  ASSUME NEW n \in Nat, NEW deltas \in [0 .. n -> Int],
         NEW from \in 0 .. n - 1, NEW to \in 0 .. n - 1, from <= to
  PROVE  Adds(Active(deltas, from, to), deltas, n, from, to)
<1> DEFINE up == [deltas EXCEPT ![from] = @ + 1]
           both == [up EXCEPT ![to + 1] = @ + (-1)]
<1>1. from \in 0 .. n /\ to + 1 \in 0 .. n /\ from # to + 1
  OBVIOUS
<1>2. up \in [0 .. n -> Int] /\ both \in [0 .. n -> Int]
  BY <1>1
<1>3. Active(deltas, from, to) = both
  BY <1>1 DEF Active
<1>5. \A x \in 0 .. n : deltas[x] \in Int /\ up[x] = IF x = from THEN deltas[x] + 1 ELSE deltas[x]
  BY <1>1
<1> HIDE DEF up
<1>6. \A x \in 0 .. n : both[x] = IF x = to + 1 THEN up[x] + (-1) ELSE up[x]
  BY <1>1, <1>2
<1> HIDE DEF both
<1>4. ASSUME NEW b \in 0 .. n - 1
      PROVE  SumOf(both, 0 .. b) = SumOf(deltas, 0 .. b) + (IF from <= b /\ b <= to THEN 1 ELSE 0)
  <2> DEFINE S == 0 .. b
  <2>5. IsFiniteSet(S)
    <3>1. 0 \in Int /\ b \in Int
      OBVIOUS
    <3> QED
      BY <3>1, FS_Interval
  <2>6. S \subseteq 0 .. n /\ (from \in S <=> from <= b)
    OBVIOUS
  <2>1. /\ IsFiniteSet(S) /\ S \subseteq 0 .. n
        /\ from \in S <=> from <= b
        /\ to + 1 \in S <=> to < b
    BY <2>5, <2>6
  <2> HIDE DEF S
  <2>2. SumOf(up, S) = SumOf(deltas, S) + (IF from \in S THEN 1 ELSE 0)
    <3>1. \A x \in S : deltas[x] \in Int /\ up[x] = IF x = from THEN deltas[x] + 1 ELSE deltas[x]
      BY <1>5, <2>1
    <3>2. Raised(up, deltas, S, from, 1)
      BY <3>1 DEF Raised
    <3> QED
      BY <2>1, <3>2, SumRaised
  <2>3. SumOf(both, S) = SumOf(up, S) + (IF to + 1 \in S THEN -1 ELSE 0)
    <3>1. \A x \in S : up[x] \in Int /\ both[x] = IF x = to + 1 THEN up[x] + (-1) ELSE up[x]
      BY <1>2, <1>6, <2>1
    <3>2. Raised(both, up, S, to + 1, -1)
      BY <3>1 DEF Raised
    <3> QED
      BY <2>1, <3>2, SumRaised
  <2>4. SumOf(deltas, S) \in Int
    <3>1. \A x \in S : deltas[x] \in Int
      BY <2>1
    <3> QED
      BY <2>1, <3>1, SumType
  <2> QED
    BY <2>1, <2>2, <2>3, <2>4 DEF S
<1> QED
  BY <1>2, <1>3, <1>4 DEF Adds

-----------------------------------------------------------------------------
(* Where an attempt that ends has started. *)

Closes(cl, tr) ==
  /\ cl \in [EndAt(tr) -> StartAt(tr)]
  /\ \A e \in EndAt(tr) :
       /\ cl[e] < e /\ tr[cl[e]].id = tr[e].id
       /\ \A d \in EndAt(tr) : tr[d].id = tr[e].id => d < cl[e] \/ d >= e

LEMMA ClosesExists ==
  ASSUME NEW tr, Alternating(tr)
  PROVE  \E cl : Closes(cl, tr)
<1> DEFINE A == StartAt(tr)
           E == EndAt(tr)
           Ok(s, e) == /\ s < e /\ tr[s].id = tr[e].id
                       /\ \A d \in E : tr[d].id = tr[e].id => d < s \/ d >= e
           cl == [e \in E |-> CHOOSE s \in A : Ok(s, e)]
<1>1. \A e \in E : \E s \in A : Ok(s, e)
  BY DEF Alternating
<1> HIDE DEF A, E, Ok
<1>2. \A e \in E : cl[e] \in A /\ Ok(cl[e], e)
  BY <1>1
<1>3. cl \in [E -> A]
  BY <1>2
<1> HIDE DEF cl
<1>4. Closes(cl, tr)
  BY <1>2, <1>3 DEF Closes, A, E, Ok
<1> QED
  BY <1>4

(* No end of its factory since the start s, of the first i records. *)
Open(tr, s, i) ==
  /\ s \in StartAt(tr) /\ s <= i
  /\ \A e \in EndAt(tr) : tr[e].id = tr[s].id => e < s \/ e > i

LEMMA OpenOnce ==
  ASSUME NEW tr, Alternating(tr), NEW i \in Nat, NEW s, Open(tr, s, i),
         NEW t, Open(tr, t, i), tr[s].id = tr[t].id
  PROVE  s = t
<1>1. StartAt(tr) \subseteq Nat /\ EndAt(tr) \subseteq Nat
  BY LenProperties DEF StartAt, EndAt, KindsAt, Alternating
<1>2. s \in Nat /\ t \in Nat /\ s <= i /\ t <= i
  BY <1>1 DEF Open
<1>3. ~(s < t)
  <2> SUFFICES ASSUME s < t PROVE FALSE
    OBVIOUS
  <2>1. PICK e \in EndAt(tr) : s < e /\ e < t /\ tr[e].id = tr[s].id
    BY DEF Alternating, Open
  <2> QED
    BY <1>1, <1>2, <2>1 DEF Open
<1>4. ~(t < s)
  <2> SUFFICES ASSUME t < s PROVE FALSE
    OBVIOUS
  <2>1. PICK e \in EndAt(tr) : t < e /\ e < s /\ tr[e].id = tr[t].id
    BY DEF Alternating, Open
  <2> QED
    BY <1>1, <1>2, <2>1 DEF Open
<1> QED
  BY <1>2, <1>3, <1>4
(* What the next record opens and closes. *)
LEMMA OpenNext ==
  ASSUME NEW tr, Alternating(tr), NEW cl, Closes(cl, tr), NEW m \in DOMAIN tr
  PROVE  /\ m \in StartAt(tr) =>
              /\ Open(tr, m, m)
              /\ \A s : s # m =>
                   (Open(tr, s, m) <=> Open(tr, s, m - 1) /\ tr[s].id # tr[m].id)
         /\ m \in EndAt(tr) =>
              /\ Open(tr, cl[m], m - 1)
              /\ \A s : Open(tr, s, m) <=> Open(tr, s, m - 1) /\ tr[s].id # tr[m].id
         /\ m \notin StartAt(tr) \cup EndAt(tr) =>
              \A s : Open(tr, s, m) <=> Open(tr, s, m - 1)
<1> DEFINE A == StartAt(tr)
           E == EndAt(tr)
<1>1. A \subseteq Nat /\ E \subseteq Nat /\ m \in Nat /\ m >= 1
  BY LenProperties DEF StartAt, EndAt, KindsAt, Alternating
<1>2. A \cap E = {}
  BY DEF StartAt, EndAt, KindsAt, Ends
<1>3. \A s, i : Open(tr, s, i) <=>
        /\ s \in A /\ s <= i
        /\ \A e \in E : tr[e].id = tr[s].id => e < s \/ e > i
  BY DEF Open
<1>4. ASSUME NEW s \in A, NEW t \in A, s < t, tr[s].id = tr[t].id
      PROVE  \E e \in E : s < e /\ e < t /\ tr[e].id = tr[s].id
  BY <1>4 DEF Alternating
<1>5. \A e \in E : /\ cl[e] \in A /\ cl[e] < e /\ tr[cl[e]].id = tr[e].id
                   /\ \A d \in E : tr[d].id = tr[e].id => d < cl[e] \/ d >= e
  BY DEF Closes
<1> HIDE DEF A, E
<1>6. ASSUME m \in A
      PROVE  /\ Open(tr, m, m)
             /\ \A s : s # m => (Open(tr, s, m) <=> Open(tr, s, m - 1) /\ tr[s].id # tr[m].id)
  <2>1. Open(tr, m, m)
    <3>1. \A e \in E : e # m
      BY <1>2, <1>6
    <3> QED
      BY <1>1, <1>3, <1>6, <3>1
  <2>2. ASSUME NEW s, s # m, Open(tr, s, m)
        PROVE  Open(tr, s, m - 1) /\ tr[s].id # tr[m].id
    <3>4. s \in A /\ s <= m /\ \A e \in E : tr[e].id = tr[s].id => e < s \/ e > m
      BY <1>3, <2>2
    <3>5. s \in Nat /\ s # m
      BY <1>1, <2>2, <3>4
    <3>1. s \in A /\ s <= m - 1 /\ \A e \in E : tr[e].id = tr[s].id => e < s \/ e > m
      BY <1>1, <3>4, <3>5
    <3>2. Open(tr, s, m - 1)
      BY <1>1, <1>3, <3>1
    <3>3. ASSUME tr[s].id = tr[m].id PROVE FALSE
      <4>1. PICK e \in E : s < e /\ e < m /\ tr[e].id = tr[s].id
        BY <1>1, <1>4, <1>6, <3>1, <3>3
      <4> QED
        BY <1>1, <3>1, <4>1
    <3> QED
      BY <3>2, <3>3
  <2>3. ASSUME NEW s, s # m, Open(tr, s, m - 1)
        PROVE  Open(tr, s, m)
    <3>1. s \in A /\ s <= m - 1 /\ \A e \in E : tr[e].id = tr[s].id => e < s \/ e > m - 1
      BY <1>3, <2>3
    <3>2. \A e \in E : e # m
      BY <1>2, <1>6
    <3> QED
      BY <1>1, <1>3, <3>1, <3>2
  <2> QED
    BY <2>1, <2>2, <2>3
<1>7. ASSUME m \in E
      PROVE  /\ Open(tr, cl[m], m - 1)
             /\ \A s : Open(tr, s, m) <=> Open(tr, s, m - 1) /\ tr[s].id # tr[m].id
  <2> DEFINE open == cl[m]
  <2>0. /\ open \in A /\ open < m /\ tr[open].id = tr[m].id
        /\ \A d \in E : tr[d].id = tr[m].id => d < open \/ d >= m
    BY <1>5, <1>7
  <2> HIDE DEF open
  <2>4. open \in Nat /\ open <= m - 1 /\ \A d \in E : tr[d].id = tr[open].id => d < open \/ d > m - 1
    BY <1>1, <2>0
  <2>5. Open(tr, open, m - 1)
    BY <1>3, <2>0, <2>4
  <2>1. Open(tr, cl[m], m - 1)
    BY <2>5 DEF open
  <2>2. ASSUME NEW s, Open(tr, s, m)
        PROVE  Open(tr, s, m - 1) /\ tr[s].id # tr[m].id
    <3>1. s \in A /\ s <= m /\ \A e \in E : tr[e].id = tr[s].id => e < s \/ e > m
      BY <1>3, <2>2
    <3>2. tr[s].id # tr[m].id /\ s # m
      BY <1>1, <1>2, <1>7, <3>1
    <3> QED
      BY <1>1, <1>3, <3>1, <3>2
  <2>3. ASSUME NEW s, Open(tr, s, m - 1), tr[s].id # tr[m].id
        PROVE  Open(tr, s, m)
    <3>1. s \in A /\ s <= m - 1 /\ \A e \in E : tr[e].id = tr[s].id => e < s \/ e > m - 1
      BY <1>3, <2>3
    <3>2. \A e \in E : tr[e].id = tr[s].id => e # m
      BY <2>3
    <3> QED
      BY <1>1, <1>3, <3>1, <3>2
  <2> QED
    BY <2>1, <2>2, <2>3
<1>8. ASSUME m \notin A, m \notin E, NEW s
      PROVE  Open(tr, s, m) <=> Open(tr, s, m - 1)
  <2>1. \A e \in E : e > m - 1 <=> e > m
    BY <1>1, <1>8
  <2>2. s \in A => (s <= m - 1 <=> s <= m)
    BY <1>1, <1>8
  <2> QED
    BY <1>3, <2>1, <2>2
<1> QED
  BY <1>6, <1>7, <1>8 DEF A, E

(* Bucket b is between those of the two cycles. *)
Spans(from, to, cycles, res, b) ==
  Bucket(from, cycles, res) <= b /\ b <= Bucket(to, cycles, res)

(* The attempts with a cycle in bucket b that end in the first i records, *)
(* told by their ends.                                                    *)
Closed(tr, cl, cycles, res, b, i) ==
  {e \in EndAt(tr) : e <= i /\ Spans(tr[cl[e]].cycle, tr[e].cycle, cycles, res, b)}

LEMMA ClosedNext ==
  ASSUME NEW tr \in Seq(TraceRecord), NEW cl, NEW cycles, NEW res, NEW b, NEW m \in DOMAIN tr
  PROVE  Cardinality(Closed(tr, cl, cycles, res, b, m)) =
           Cardinality(Closed(tr, cl, cycles, res, b, m - 1)) +
             (IF m \in EndAt(tr) /\ Spans(tr[cl[m]].cycle, tr[m].cycle, cycles, res, b)
                THEN 1 ELSE 0)
<1> DEFINE new == Closed(tr, cl, cycles, res, b, m)
           old == Closed(tr, cl, cycles, res, b, m - 1)
           counts == m \in EndAt(tr) /\ Spans(tr[cl[m]].cycle, tr[m].cycle, cycles, res, b)
<1>1. EndAt(tr) \subseteq 1 .. Len(tr) /\ m \in Nat /\ Len(tr) \in Nat
  BY LenProperties DEF EndAt, KindsAt
<1>2. \A e \in EndAt(tr) : e <= m <=> e <= m - 1 \/ e = m
  BY <1>1
<1>3. \A e \in EndAt(tr) : e <= m - 1 => e # m
  BY <1>1
<1>4. /\ counts => new = old \cup {m}
      /\ ~counts => new = old
      /\ m \notin old
  BY <1>2, <1>3 DEF Closed
<1>5. IsFiniteSet(old)
  <2>1. IsFiniteSet(1 .. Len(tr)) /\ old \in SUBSET (1 .. Len(tr))
    BY <1>1, FS_Interval DEF Closed
  <2> QED
    BY <2>1, FS_Subset
<1> HIDE DEF new, old, counts
<1>6. Cardinality(old) \in Nat
  BY <1>5, FS_CardinalityType
<1>7. Cardinality(new) = Cardinality(old) + (IF counts THEN 1 ELSE 0)
  <2>1. CASE counts
    BY <1>4, <1>5, <2>1, FS_AddElement
  <2>2. CASE ~counts
    BY <1>4, <1>6, <2>2
  <2> QED
    BY <2>1, <2>2
<1> QED
  BY <1>7 DEF new, old, counts

-----------------------------------------------------------------------------
(* What analyze keeps of the attempts. *)

(* What the record e makes of old. *)
Follows(new, old, e, cycles, res) ==
  /\ {"deltas", "starts"} \subseteq DOMAIN new
  /\ e.kind = "started" =>
       /\ new.starts = [old.starts EXCEPT ![e.id] = e.cycle]
       /\ new.deltas = old.deltas
  /\ e.kind \in Ends /\ old.starts[e.id] # NoStart =>
       /\ new.starts = [old.starts EXCEPT ![e.id] = NoStart]
       /\ new.deltas = Active(old.deltas, Bucket(old.starts[e.id], cycles, res),
                              Bucket(e.cycle, cycles, res))
  /\ e.kind \notin Ends \cup {"started"} =>
       new.starts = old.starts /\ new.deltas = old.deltas

LEMMA AbsorbActive ==
  ASSUME NEW old, {"deltas", "starts"} \subseteq DOMAIN old, NEW e, NEW cycles, NEW res
  PROVE  Follows(Absorb(old, e, cycles, res), old, e, cycles, res)
<1>1. CASE e.kind = "started"
  BY <1>1 DEF Follows, Absorb, Observe, Ends
<1>2. CASE e.kind \in Ends /\ old.starts[e.id] # NoStart
  BY <1>2 DEF Follows, Absorb, Observe, Ends
<1>3. CASE e.kind \in Ends /\ old.starts[e.id] = NoStart
  BY <1>3 DEF Follows, Absorb, Observe, Ends
<1>4. CASE e.kind \notin Ends \cup {"started"}
  BY <1>4 DEF Follows, Absorb, Observe, Served, Ends
<1> QED
  BY <1>1, <1>2, <1>3, <1>4

(* What analyze knows of the attempts after i records. *)
StartsUpto(a, tr, i) ==
  /\ a[i].starts \in [FactoryIds -> Nat \cup {NoStart}]
  /\ \A s : Open(tr, s, i) => a[i].starts[tr[s].id] = tr[s].cycle
  /\ \A f \in FactoryIds : a[i].starts[f] # NoStart => \E s : Open(tr, s, i) /\ tr[s].id = f

DeltasUpto(a, tr, cl, cycles, res, i) ==
  /\ a[i].deltas \in [0 .. NumBuckets(cycles, res) -> Int]
  /\ \A b \in Slots(cycles, res) :
       SumOf(a[i].deltas, 0 .. b) = Cardinality(Closed(tr, cl, cycles, res, b, i))

ActiveUpto(a, tr, cl, cycles, res, i) ==
  /\ {"deltas", "starts"} \subseteq DOMAIN a[i]
  /\ StartsUpto(a, tr, i)
  /\ DeltasUpto(a, tr, cl, cycles, res, i)

Ordered(tr) == \A i, j \in DOMAIN tr : i <= j => tr[i].cycle <= tr[j].cycle

LEMMA DeltasKept ==
  ASSUME NEW tr \in Seq(TraceRecord), NEW cl, NEW cycles, NEW res, NEW a, NEW m \in DOMAIN tr,
         m \notin EndAt(tr), a[m].deltas = a[m - 1].deltas,
         DeltasUpto(a, tr, cl, cycles, res, m - 1)
  PROVE  DeltasUpto(a, tr, cl, cycles, res, m)
<1>1. ASSUME NEW b
      PROVE  Cardinality(Closed(tr, cl, cycles, res, b, m)) =
               Cardinality(Closed(tr, cl, cycles, res, b, m - 1))
  <2>1. m \in Nat /\ EndAt(tr) \subseteq Nat
    BY LenProperties DEF EndAt, KindsAt
  <2>2. \A e \in EndAt(tr) : e <= m <=> e <= m - 1
    BY <2>1
  <2>3. Closed(tr, cl, cycles, res, b, m) = Closed(tr, cl, cycles, res, b, m - 1)
    BY <2>2 DEF Closed
  <2> QED
    BY <2>3
<1> QED
  BY <1>1 DEF DeltasUpto

LEMMA ActiveNext ==
  ASSUME NEW tr, Alternating(tr), Ordered(tr), NEW cl, Closes(cl, tr),
         NEW cycles \in Nat, NEW res \in Nat, NEW a, Pass(a, tr, cycles, res),
         NEW m \in 1 .. Len(tr), ActiveUpto(a, tr, cl, cycles, res, m - 1)
  PROVE  ActiveUpto(a, tr, cl, cycles, res, m)
<1> DEFINE e == tr[m]
           f == e.id
           old == a[m - 1]
           new == a[m]
<1>1. /\ tr \in Seq(TraceRecord) /\ m \in DOMAIN tr /\ e \in TraceRecord
      /\ m \in Nat
  <2>1. tr \in Seq(TraceRecord) /\ Len(tr) \in Nat /\ DOMAIN tr = 1 .. Len(tr)
    BY LenProperties DEF Alternating
  <2> QED
    BY <2>1, ElementOfSeq
<1>2. e.cycle \in Nat
  BY <1>1 DEF TraceRecord
<1>3. /\ m \in StartAt(tr) <=> e.kind = "started"
      /\ m \in EndAt(tr) <=> e.kind \in Ends
      /\ m \in StartAt(tr) \cup EndAt(tr) => f \in FactoryIds
  BY <1>1 DEF StartAt, EndAt, KindsAt, Alternating
<1>4. new = Absorb(old, e, cycles, res)
  BY DEF Pass
<1>5. /\ {"deltas", "starts"} \subseteq DOMAIN old
      /\ StartsUpto(a, tr, m - 1) /\ DeltasUpto(a, tr, cl, cycles, res, m - 1)
  BY DEF ActiveUpto
<1>6. /\ old.starts \in [FactoryIds -> Nat \cup {NoStart}]
      /\ \A s : Open(tr, s, m - 1) => old.starts[tr[s].id] = tr[s].cycle
      /\ \A g \in FactoryIds : old.starts[g] # NoStart =>
           \E s : Open(tr, s, m - 1) /\ tr[s].id = g
  BY <1>5 DEF StartsUpto
<1> HIDE DEF new, old
<1>7. /\ {"deltas", "starts"} \subseteq DOMAIN new
      /\ e.kind = "started" =>
           /\ new.starts = [old.starts EXCEPT ![f] = e.cycle]
           /\ new.deltas = old.deltas
      /\ e.kind \in Ends /\ old.starts[f] # NoStart =>
           /\ new.starts = [old.starts EXCEPT ![f] = NoStart]
           /\ new.deltas = Active(old.deltas, Bucket(old.starts[f], cycles, res),
                                  Bucket(e.cycle, cycles, res))
      /\ e.kind \notin Ends \cup {"started"} =>
           new.starts = old.starts /\ new.deltas = old.deltas
  <2>1. Follows(new, old, e, cycles, res)
    BY <1>4, <1>5, AbsorbActive
  <2> QED
    BY <2>1 DEF Follows
<1>8. /\ m \in StartAt(tr) =>
           /\ Open(tr, m, m)
           /\ \A s : s # m => (Open(tr, s, m) <=> Open(tr, s, m - 1) /\ tr[s].id # f)
      /\ m \in EndAt(tr) =>
           /\ Open(tr, cl[m], m - 1)
           /\ \A s : Open(tr, s, m) <=> Open(tr, s, m - 1) /\ tr[s].id # f
      /\ m \notin StartAt(tr) \cup EndAt(tr) =>
           \A s : Open(tr, s, m) <=> Open(tr, s, m - 1)
  BY <1>1, OpenNext
<1>9. \A s, i : Open(tr, s, i) => tr[s].id \in FactoryIds
  BY DEF Open, Alternating
<1>10. CASE m \in StartAt(tr)
  <2>1. new.starts = [old.starts EXCEPT ![f] = e.cycle] /\ new.deltas = old.deltas
    BY <1>3, <1>7, <1>10
  <2>2. StartsUpto(a, tr, m)
    <3>1. new.starts \in [FactoryIds -> Nat \cup {NoStart}]
      BY <1>2, <1>6, <2>1
    <3>2. ASSUME NEW s, Open(tr, s, m) PROVE new.starts[tr[s].id] = tr[s].cycle
      <4>1. CASE s = m
        BY <1>3, <1>6, <1>10, <2>1, <4>1
      <4>2. CASE s # m
        BY <1>6, <1>8, <1>9, <1>10, <2>1, <3>2, <4>2
      <4> QED
        BY <4>1, <4>2
    <3>3. ASSUME NEW g \in FactoryIds, new.starts[g] # NoStart
          PROVE  \E s : Open(tr, s, m) /\ tr[s].id = g
      <4>1. CASE g = f
        BY <1>8, <1>10, <4>1
      <4>2. CASE g # f
        <5>1. PICK s : Open(tr, s, m - 1) /\ tr[s].id = g
          BY <1>6, <2>1, <3>3, <4>2
        <5>2. s # m /\ tr[s].id # f
          BY <4>2, <5>1
        <5> QED
          BY <1>8, <1>10, <5>1, <5>2
      <4> QED
        BY <4>1, <4>2
    <3> QED
      BY <3>1, <3>2, <3>3 DEF StartsUpto, new
  <2>3. m \notin EndAt(tr)
    BY <1>3, <1>10 DEF Ends
  <2>4. DeltasUpto(a, tr, cl, cycles, res, m)
    BY <1>1, <1>5, <2>1, <2>3, DeltasKept DEF new, old
  <2> QED
    BY <1>7, <2>2, <2>4 DEF ActiveUpto, new
<1>11. CASE m \in EndAt(tr)
  <2> DEFINE s0 == cl[m]
             from == Bucket(tr[s0].cycle, cycles, res)
             to == Bucket(e.cycle, cycles, res)
             n == NumBuckets(cycles, res)
  <2>1. Open(tr, s0, m - 1) /\ tr[s0].id = f /\ s0 \in DOMAIN tr /\ s0 <= m
    <3>1. s0 \in StartAt(tr) /\ tr[s0].id = f /\ s0 < m
      BY <1>11 DEF Closes
    <3>2. s0 \in DOMAIN tr /\ s0 \in Nat
      BY <1>1, <3>1, LenProperties DEF StartAt, KindsAt
    <3> QED
      BY <1>1, <1>8, <1>11, <3>1, <3>2
  <2>2. tr[s0].cycle \in Nat /\ tr[s0].cycle <= e.cycle
    <3>1. tr[s0] \in TraceRecord
      BY <1>1, <2>1, ElementOfSeq, LenProperties
    <3> QED
      BY <1>1, <2>1, <3>1 DEF Ordered, TraceRecord
  <2>3. old.starts[f] = tr[s0].cycle /\ old.starts[f] # NoStart
    BY <1>6, <2>1, <2>2, NoStartAssumption
  <2>4. /\ new.starts = [old.starts EXCEPT ![f] = NoStart]
        /\ new.deltas = Active(old.deltas, from, to)
    BY <1>3, <1>7, <1>11, <2>3
  <2>5. StartsUpto(a, tr, m)
    <3>1. new.starts \in [FactoryIds -> Nat \cup {NoStart}]
      BY <1>6, <2>4
    <3>2. ASSUME NEW s, Open(tr, s, m) PROVE new.starts[tr[s].id] = tr[s].cycle
      BY <1>6, <1>8, <1>9, <1>11, <2>4, <3>2
    <3>3. ASSUME NEW g \in FactoryIds, new.starts[g] # NoStart
          PROVE  \E s : Open(tr, s, m) /\ tr[s].id = g
      <4>1. g # f
        BY <1>6, <2>4, <3>3
      <4>2. PICK s : Open(tr, s, m - 1) /\ tr[s].id = g
        BY <1>6, <2>4, <3>3, <4>1
      <4> QED
        BY <1>8, <1>11, <4>1, <4>2
    <3> QED
      BY <3>1, <3>2, <3>3 DEF StartsUpto, new
  <2>6. /\ n \in Nat /\ from \in 0 .. n - 1 /\ to \in 0 .. n - 1 /\ from <= to
        /\ Slots(cycles, res) = 0 .. n - 1
    <3>1. NumBuckets(cycles, res) \in Nat \ {0}
      BY BucketRange
    <3>2. from \in Slots(cycles, res) /\ to \in Slots(cycles, res) /\ from <= to
      BY <1>2, <2>2, BucketRange
    <3> QED
      BY <3>1, <3>2 DEF Slots
  <2>7. /\ old.deltas \in [0 .. n -> Int]
        /\ \A b \in 0 .. n - 1 :
             SumOf(old.deltas, 0 .. b) = Cardinality(Closed(tr, cl, cycles, res, b, m - 1))
    BY <1>5, <2>6 DEF DeltasUpto, old
  <2>8. /\ new.deltas \in [0 .. n -> Int]
        /\ \A b \in 0 .. n - 1 :
             SumOf(new.deltas, 0 .. b) =
               SumOf(old.deltas, 0 .. b) + (IF from <= b /\ b <= to THEN 1 ELSE 0)
    <3> DEFINE d == old.deltas
    <3>1. d \in [0 .. n -> Int] /\ new.deltas = Active(d, from, to)
      BY <2>4, <2>7
    <3> HIDE DEF d, from, to, n
    <3>2. Adds(Active(d, from, to), d, n, from, to)
      BY <2>6, <3>1, ActiveSum
    <3> QED
      BY <3>1, <3>2 DEF Adds, d
  <2>9. \A b : Cardinality(Closed(tr, cl, cycles, res, b, m)) =
                 Cardinality(Closed(tr, cl, cycles, res, b, m - 1)) +
                   (IF from <= b /\ b <= to THEN 1 ELSE 0)
    <3>1. ASSUME NEW b
          PROVE  Cardinality(Closed(tr, cl, cycles, res, b, m)) =
                   Cardinality(Closed(tr, cl, cycles, res, b, m - 1)) +
                     (IF from <= b /\ b <= to THEN 1 ELSE 0)
      <4>1. Cardinality(Closed(tr, cl, cycles, res, b, m)) =
              Cardinality(Closed(tr, cl, cycles, res, b, m - 1)) +
                (IF m \in EndAt(tr) /\ Spans(tr[cl[m]].cycle, tr[m].cycle, cycles, res, b)
                   THEN 1 ELSE 0)
        BY <1>1, ClosedNext
      <4> QED
        BY <1>11, <4>1 DEF Spans
    <3> QED
      BY <3>1
  <2>10. DeltasUpto(a, tr, cl, cycles, res, m)
    <3> HIDE DEF from, to
    <3>1. \A b \in 0 .. n - 1 :
            SumOf(new.deltas, 0 .. b) = Cardinality(Closed(tr, cl, cycles, res, b, m))
      BY <2>7, <2>8, <2>9
    <3> QED
      BY <2>6, <2>8, <3>1 DEF DeltasUpto, new
  <2> QED
    BY <1>7, <2>5, <2>10 DEF ActiveUpto, new
<1>12. CASE m \notin StartAt(tr) \cup EndAt(tr)
  <2>1. new.starts = old.starts /\ new.deltas = old.deltas
    BY <1>3, <1>7, <1>12
  <2>2. StartsUpto(a, tr, m)
    <3>1. \A s : Open(tr, s, m) <=> Open(tr, s, m - 1)
      BY <1>8, <1>12
    <3> QED
      BY <1>6, <2>1, <3>1 DEF StartsUpto, new
  <2>3. DeltasUpto(a, tr, cl, cycles, res, m)
    BY <1>1, <1>5, <1>12, <2>1, DeltasKept DEF new, old
  <2> QED
    BY <1>7, <2>2, <2>3 DEF ActiveUpto, new
<1> QED
  BY <1>10, <1>11, <1>12

LEMMA ActiveFollowed ==
  ASSUME NEW tr, Alternating(tr), Ordered(tr), NEW cl, Closes(cl, tr),
         NEW cycles \in Nat, NEW res \in Nat, NEW a, Pass(a, tr, cycles, res),
         NEW i \in 0 .. Len(tr)
  PROVE  ActiveUpto(a, tr, cl, cycles, res, i)
<1> DEFINE Good(m) == ActiveUpto(a, tr, cl, cycles, res, m)
           Bad == {m \in 0 .. Len(tr) : ~Good(m)}
           n == NumBuckets(cycles, res)
<1>1. Len(tr) \in Nat /\ StartAt(tr) \subseteq 1 .. Len(tr) /\ EndAt(tr) \subseteq 1 .. Len(tr)
  BY LenProperties DEF Alternating, StartAt, EndAt, KindsAt
<1>2. Good(0)
  <2>1. /\ {"deltas", "starts"} \subseteq DOMAIN a[0]
        /\ a[0].deltas = [b \in 0 .. n |-> 0]
        /\ a[0].starts = [f \in FactoryIds |-> NoStart]
    BY DEF Pass, Empty
  <2>2. \A s : ~Open(tr, s, 0)
    BY <1>1 DEF Open
  <2>3. StartsUpto(a, tr, 0)
    BY <2>1, <2>2 DEF StartsUpto
  <2>4. DeltasUpto(a, tr, cl, cycles, res, 0)
    <3>1. n \in Nat
      BY BucketRange
    <3>2. ASSUME NEW b \in Slots(cycles, res)
          PROVE  SumOf(a[0].deltas, 0 .. b) = Cardinality(Closed(tr, cl, cycles, res, b, 0))
      <4> DEFINE z == a[0].deltas
                 S == 0 .. b
      <4>1. IsFiniteSet(S) /\ \A x \in S : z[x] = 0
        <5>1. b \in Int /\ S \subseteq 0 .. n
          BY <3>1 DEF Slots
        <5>2. IsFiniteSet(S)
          BY <5>1, FS_Interval
        <5> HIDE DEF S, n
        <5> QED
          BY <2>1, <5>1, <5>2
      <4> HIDE DEF z, S
      <4>2. SumOf(z, S) = 0
        BY <4>1, SumZero
      <4>3. Closed(tr, cl, cycles, res, b, 0) = {}
        BY <1>1 DEF Closed
      <4> QED
        BY <4>2, <4>3, FS_EmptySet DEF z, S
    <3> QED
      BY <2>1, <3>1, <3>2 DEF DeltasUpto
  <2> QED
    BY <2>1, <2>3, <2>4 DEF ActiveUpto
<1>3. ASSUME NEW m \in 1 .. Len(tr), Good(m - 1) PROVE Good(m)
  BY <1>3, ActiveNext
<1>4. Bad = {}
  <2> SUFFICES ASSUME Bad # {} PROVE FALSE
    OBVIOUS
  <2> HIDE DEF Good
  <2>0. Bad \subseteq Nat
    BY <1>1
  <2>1. PICK m \in Bad : \A k \in Bad : m <= k
    BY <2>0, LeastNumber
  <2>2. m \in 1 .. Len(tr) /\ ~Good(m)
    BY <1>1, <1>2, <2>1
  <2>3. m - 1 \in 0 .. Len(tr) /\ m - 1 \notin Bad
    BY <1>1, <2>1, <2>2
  <2> QED
    BY <1>3, <2>2, <2>3
<1> QED
  BY <1>4

(* h fills the difference array for the attempts still running of the *)
(* factories of each subset of R, each active from its bucket on.     *)
Fills(h, R, n, base, from) ==
  /\ IsFiniteSet(R) /\ n \in Nat \ {0}
  /\ base \in [0 .. n -> Int] /\ from \in [R -> 0 .. n - 1]
  /\ \A s \in SUBSET R :
       h[s] = IF s = {} THEN base ELSE Active(h[s \ {Pick(s)}], from[Pick(s)], n - 1)

LEMMA FillExists ==
  ASSUME NEW R, IsFiniteSet(R), NEW n \in Nat \ {0}, NEW base \in [0 .. n -> Int],
         NEW from \in [R -> 0 .. n - 1]
  PROVE  \E h : /\ DOMAIN h = SUBSET R /\ h = [s \in SUBSET R |-> h[s]]
               /\ Fills(h, R, n, base, from)
<1> DEFINE T == [0 .. n -> Int]
           step == [p \in R \X T |-> Active(p[2], from[p[1]], n - 1)]
<1>1. ASSUME NEW f \in R, NEW d \in T PROVE Active(d, from[f], n - 1) \in T
  <2> DEFINE k == from[f]
             l == n - 1
  <2>1. k \in 0 .. n - 1 /\ l \in 0 .. n - 1 /\ k <= l /\ n \in Nat
    OBVIOUS
  <2> HIDE DEF k, l
  <2>2. Adds(Active(d, k, l), d, n, k, l)
    BY <2>1, ActiveSum
  <2> QED
    BY <2>2 DEF Adds, k, l
<1>2. step \in [R \X T -> T] /\ base \in T
  BY <1>1
<1> HIDE DEF T
<1>3. PICK h \in [SUBSET R -> T] : FoldsBy(h, R, base, step)
  <2> HIDE DEF step
  <2> QED
    BY <1>2, FoldExists
<1>4. ASSUME NEW s \in SUBSET R, s # {}
      PROVE  h[s] = Active(h[s \ {Pick(s)}], from[Pick(s)], n - 1)
  <2> DEFINE x == Pick(s)
             t == s \ {Pick(s)}
  <2>1. x \in R /\ t \in SUBSET R /\ h[t] \in T
    BY <1>3, <1>4, PickIn
  <2>2. h[s] = step[<<x, h[t]>>]
    BY <1>3, <1>4 DEF FoldsBy
  <2> HIDE DEF x, t
  <2>3. step[<<x, h[t]>>] = Active(h[t], from[x], n - 1)
    BY <2>1
  <2> QED
    BY <2>2, <2>3 DEF x, t
<1>5. h[{}] = base
  BY <1>3 DEF FoldsBy
<1> HIDE DEF step
<1>6. Fills(h, R, n, base, from)
  BY <1>4, <1>5 DEF Fills
<1> QED
  BY <1>3, <1>6

(* The factories of s whose attempts under way have begun by bucket b. *)
Begun(from, s, b) == {f \in s : from[f] <= b}

LEMMA BegunNext ==
  ASSUME NEW R, IsFiniteSet(R), NEW from, NEW b, NEW s \in SUBSET R, NEW x \in s
  PROVE  /\ Cardinality(Begun(from, s, b)) =
              Cardinality(Begun(from, s \ {x}, b)) + (IF from[x] <= b THEN 1 ELSE 0)
         /\ Cardinality(Begun(from, s \ {x}, b)) \in Nat
<1> DEFINE new == Begun(from, s, b)
           old == Begun(from, s \ {x}, b)
<1>1. /\ from[x] <= b => new = old \cup {x}
      /\ ~(from[x] <= b) => new = old
      /\ x \notin old /\ old \in SUBSET R
  BY DEF Begun
<1> HIDE DEF new, old
<1>2. IsFiniteSet(old)
  BY <1>1, FS_Subset
<1>3. Cardinality(old) \in Nat
  BY <1>2, FS_CardinalityType
<1>4. CASE from[x] <= b
  BY <1>1, <1>2, <1>3, <1>4, FS_AddElement DEF new, old
<1>5. CASE ~(from[x] <= b)
  BY <1>1, <1>3, <1>5 DEF new, old
<1> QED
  BY <1>4, <1>5

(* The sums of new are those of base and of the attempts begun. *)
Fuller(new, R, n, base, from) ==
  \A b \in 0 .. n - 1 : SumOf(new, 0 .. b) = SumOf(base, 0 .. b) + Cardinality(Begun(from, R, b))

LEMMA FillSums ==
  ASSUME NEW h, NEW R, NEW n, NEW base, NEW from, Fills(h, R, n, base, from)
  PROVE  Fuller(h[R], R, n, base, from)
<1> SUFFICES ASSUME NEW b \in 0 .. n - 1
             PROVE  SumOf(h[R], 0 .. b) = SumOf(base, 0 .. b) + Cardinality(Begun(from, R, b))
  BY DEF Fuller
<1>0. /\ IsFiniteSet(R) /\ n \in Nat \ {0}
      /\ base \in [0 .. n -> Int] /\ from \in [R -> 0 .. n - 1]
  BY DEF Fills
<1> DEFINE S == 0 .. b
           T == [0 .. n -> Int]
           G == {s \in SUBSET R : /\ h[s] \in T
                                  /\ SumOf(h[s], S) =
                                       SumOf(base, S) + Cardinality(Begun(from, s, b))}
<1>1. SumOf(base, S) \in Int
  <2>1. b \in Int /\ S \subseteq 0 .. n
    BY <1>0
  <2>2. IsFiniteSet(S)
    BY <2>1, FS_Interval
  <2> HIDE DEF S
  <2>3. \A x \in S : base[x] \in Int
    BY <1>0, <2>1
  <2> QED
    BY <2>2, <2>3, SumType
<1>2. {} \in G
  <2>1. Begun(from, {}, b) = {} /\ h[{}] = base
    BY DEF Begun, Fills
  <2>2. base \in T
    BY <1>0
  <2> DEFINE sum == SumOf(base, S)
             few == Cardinality(Begun(from, {}, b))
  <2>4. few = 0
    BY <2>1, FS_EmptySet
  <2>5. SumOf(h[{}], S) = sum
    BY <2>1
  <2>6. sum \in Int
    BY <1>1
  <2> HIDE DEF sum, few
  <2>7. sum = sum + few
    BY <2>4, <2>6
  <2> HIDE DEF S, T
  <2>3. SumOf(h[{}], S) = SumOf(base, S) + Cardinality(Begun(from, {}, b))
    BY <2>5, <2>7 DEF sum, few
  <2> QED
    BY <2>1, <2>2, <2>3
<1>3. ASSUME NEW s \in SUBSET R, s # {}, s \ {Pick(s)} \in G PROVE s \in G
  <2> DEFINE x == Pick(s)
             t == s \ {Pick(s)}
             k == from[x]
             l == n - 1
             d == h[t]
  <2>1. x \in s /\ x \in R /\ h[s] = Active(d, k, l)
    BY <1>3, PickIn DEF Fills
  <2>8. k \in 0 .. n - 1
    BY <1>0, <2>1
  <2>9. d \in [0 .. n -> Int]
    BY <1>3
  <2>2. /\ k \in 0 .. n - 1 /\ l \in 0 .. n - 1 /\ k <= l /\ n \in Nat /\ b <= l
        /\ d \in [0 .. n -> Int]
    <3> HIDE DEF k, d
    <3> QED
      BY <1>0, <2>8, <2>9
  <2>3. SumOf(d, S) = SumOf(base, S) + Cardinality(Begun(from, t, b))
    BY <1>3
  <2>4. /\ Cardinality(Begun(from, s, b)) =
             Cardinality(Begun(from, t, b)) + (IF k <= b THEN 1 ELSE 0)
        /\ Cardinality(Begun(from, t, b)) \in Nat
    BY <1>0, <2>1, BegunNext
  <2> HIDE DEF x, t, k, l, d
  <2>5. Adds(Active(d, k, l), d, n, k, l)
    BY <2>2, ActiveSum
  <2>6. h[s] \in T /\ SumOf(h[s], S) = SumOf(d, S) + (IF k <= b THEN 1 ELSE 0)
    BY <2>1, <2>2, <2>5 DEF Adds
  <2> HIDE DEF S, T
  <2>7. SumOf(h[s], S) = SumOf(base, S) + Cardinality(Begun(from, s, b))
    BY <1>1, <2>3, <2>4, <2>6
  <2> QED
    BY <2>6, <2>7
<1>4. G \in SUBSET (SUBSET R)
  OBVIOUS
<1> HIDE DEF G
<1>5. G = SUBSET R
  BY <1>0, <1>2, <1>3, <1>4, PickInduction
<1>6. R \in G
  BY <1>5
<1> QED
  BY <1>6 DEF G

(* The factories whose attempts analyze holds to be under way. *)
UnderWay(acc) == {f \in FactoryIds : acc.starts[f] # NoStart}
BegunBy(acc, cycles, res, b) == {f \in UnderWay(acc) : Bucket(acc.starts[f], cycles, res) <= b}

LEMMA FactoriesNumber == IsFiniteSet(FactoryIds) /\ Cardinality(FactoryIds) = NumFactories
<1> DEFINE n == NumFactories - 1
<1>1. n \in Int /\ 0 \in Int /\ ~(0 > n) /\ n - 0 + 1 = NumFactories
  BY SizesAssumption
<1> HIDE DEF n
<1>2. IsFiniteSet(0 .. n) /\ Cardinality(0 .. n) = IF 0 > n THEN 0 ELSE n - 0 + 1
  BY <1>1, FS_Interval
<1> QED
  BY <1>1, <1>2 DEF FactoryIds, n

LEMMA FilledSums ==
  ASSUME NEW acc, NEW cycles \in Nat, NEW res \in Nat,
         acc.starts \in [FactoryIds -> Nat \cup {NoStart}],
         acc.deltas \in [0 .. NumBuckets(cycles, res) -> Int],
         NEW b \in Slots(cycles, res)
  PROVE  SumOf(RunningFilled(acc, cycles, res), 0 .. b) =
           SumOf(acc.deltas, 0 .. b) + Cardinality(BegunBy(acc, cycles, res, b))
<1> DEFINE R == UnderWay(acc)
           n == NumBuckets(cycles, res)
           base == acc.deltas
           from == [f \in R |-> Bucket(acc.starts[f], cycles, res)]
           last == n - 1
           F(h, s) == IF s = {} THEN base
                      ELSE Active(h[s \ {Pick(s)}], Bucket(acc.starts[Pick(s)], cycles, res), last)
           IsIter(h) == h = [s \in SUBSET R |-> F(h, s)]
<1>1. IsFiniteSet(R)
  <2>2. IsFiniteSet(FactoryIds)
    BY FactoriesNumber
  <2>3. R \in SUBSET FactoryIds
    BY DEF UnderWay
  <2> QED
    BY <2>2, <2>3, FS_Subset
<1>2. /\ n \in Nat \ {0} /\ Bucket(cycles, cycles, res) = last /\ b \in 0 .. n - 1
      /\ base \in [0 .. n -> Int]
  BY BucketRange DEF Slots
<1>3. from \in [R -> 0 .. n - 1]
  <2>1. \A f \in R : acc.starts[f] \in Nat
    BY DEF UnderWay
  <2>2. \A f \in R : Bucket(acc.starts[f], cycles, res) \in Slots(cycles, res)
    BY <2>1, BucketRange
  <2> QED
    BY <2>2 DEF Slots
<1>4. \A s \in SUBSET R : s # {} => Pick(s) \in R
  BY PickIn
<1>5. \A s \in SUBSET R : s # {} => Bucket(acc.starts[Pick(s)], cycles, res) = from[Pick(s)]
  BY <1>4
<1>6. R = {f \in DOMAIN acc.starts : acc.starts[f] # NoStart}
  BY DEF UnderWay
<1>7. Cardinality(BegunBy(acc, cycles, res, b)) = Cardinality(Begun(from, R, b))
  BY DEF Begun, BegunBy
<1> HIDE DEF R, n, from
<1>8. PICK h : DOMAIN h = SUBSET R /\ h = [s \in SUBSET R |-> h[s]] /\ Fills(h, R, n, base, from)
  <2> HIDE DEF base
  <2> QED
    BY <1>1, <1>2, <1>3, FillExists
<1>9. IsIter(h)
  <2>1. \A s \in SUBSET R : h[s] = F(h, s)
    BY <1>2, <1>5, <1>8 DEF Fills
  <2> HIDE DEF F
  <2> QED
    BY <1>8, <2>1
<1> DEFINE iter == CHOOSE g : IsIter(g)
<1>10. IsIter(iter)
  <2> HIDE DEF IsIter
  <2> QED
    BY <1>9
<1>11. RunningFilled(acc, cycles, res) = iter[R]
  BY <1>2, <1>6 DEF RunningFilled, FoldSet, MapThenFoldSet, Pick
<1> HIDE DEF iter
<1>12. Fills(iter, R, n, base, from)
  <2>1. \A s \in SUBSET R : iter[s] = F(iter, s)
    <3> HIDE DEF F
    <3> QED
      BY <1>10
  <2> QED
    BY <1>1, <1>2, <1>3, <1>5, <2>1 DEF Fills
<1>13. Fuller(iter[R], R, n, base, from)
  BY <1>12, FillSums
<1>14. SumOf(iter[R], 0 .. b) = SumOf(base, 0 .. b) + Cardinality(Begun(from, R, b))
  BY <1>2, <1>13 DEF Fuller
<1> QED
  BY <1>7, <1>11, <1>14 DEF R

-----------------------------------------------------------------------------
(* The attempts of a trace, by their ends. *)

LEMMA MinIs ==
  ASSUME NEW s \in SUBSET Nat, NEW m \in s, \A x \in s : m <= x
  PROVE  Min(s) = m
<1>1. \A x \in s : (\A y \in s : x <= y) => x = m
  OBVIOUS
<1>2. m \in s /\ \A y \in s : m <= y
  OBVIOUS
<1> QED
  BY <1>1, <1>2 DEF Min

LEMMA AttemptEnds ==
  ASSUME Alternating(trace), NEW cl, Closes(cl, trace)
  PROVE  /\ \A e \in EndAt(trace) :
              EndsAt(cl[e]) = trace[e].cycle /\ ~Open(trace, cl[e], Len(trace))
         /\ \A s : Open(trace, s, Len(trace)) => EndsAt(s) = now
         /\ \A s \in StartAt(trace) :
              Open(trace, s, Len(trace)) \/ \E e \in EndAt(trace) : cl[e] = s
         /\ \A d, e \in EndAt(trace) : cl[d] = cl[e] => d = e
<1> DEFINE n == Len(trace)
           A == StartAt(trace)
           E == EndAt(trace)
           After(s) == {j \in E : j > s /\ trace[j].id = trace[s].id}
<1>1. /\ A \subseteq Nat /\ E \subseteq Nat /\ n \in Nat
      /\ A \cap E = {} /\ A \subseteq 1 .. n /\ E \subseteq 1 .. n
  BY LenProperties DEF StartAt, EndAt, KindsAt, Alternating, Ends
<1>2. \A s : EndsAt(s) = IF After(s) = {} THEN now ELSE trace[Min(After(s))].cycle
  <2>1. \A s : After(s) = {j \in DOMAIN trace : /\ j > s /\ trace[j].kind \in {"produced", "failed"}
                                                /\ trace[j].id = trace[s].id}
    BY DEF EndAt, KindsAt, Ends
  <2> HIDE DEF After
  <2> QED
    BY <2>1 DEF EndsAt
<1>3. \A s, i : Open(trace, s, i) <=>
        /\ s \in A /\ s <= i
        /\ \A e \in E : trace[e].id = trace[s].id => e < s \/ e > i
  BY DEF Open
<1>4. \A s, t \in A : s < t /\ trace[s].id = trace[t].id =>
        \E e \in E : s < e /\ e < t /\ trace[e].id = trace[s].id
  BY DEF Alternating
<1>5. \A e \in E : /\ cl[e] \in A /\ cl[e] < e /\ trace[cl[e]].id = trace[e].id
                   /\ \A d \in E : trace[d].id = trace[e].id => d < cl[e] \/ d >= e
  BY DEF Closes
<1> HIDE DEF A, E, n
<1>10. \A t \in A : t \in Nat /\ t <= n
  BY <1>1
<1>6. ASSUME NEW e \in E
      PROVE  EndsAt(cl[e]) = trace[e].cycle /\ ~Open(trace, cl[e], n)
  <2> DEFINE s == cl[e]
  <2>1. /\ s \in A /\ s < e /\ trace[s].id = trace[e].id
        /\ \A d \in E : trace[d].id = trace[e].id => d < s \/ d >= e
    BY <1>5
  <2> HIDE DEF s
  <2>6. s \in Nat /\ e \in Nat
    BY <1>1, <2>1
  <2>7. After(s) \in SUBSET Nat /\ e \in After(s)
    BY <1>1, <2>1, <2>6
  <2>8. ASSUME NEW x \in After(s) PROVE e <= x
    <3>1. x \in E /\ x > s /\ trace[x].id = trace[e].id /\ x \in Nat
      BY <1>1, <2>1
    <3>2. x < s \/ x >= e
      BY <2>1, <3>1
    <3> QED
      BY <2>6, <3>1, <3>2
  <2>2. After(s) \in SUBSET Nat /\ e \in After(s) /\ \A x \in After(s) : e <= x
    BY <2>7, <2>8
  <2>3. Min(After(s)) = e
    <3> HIDE DEF After
    <3> QED
      BY <2>2, MinIs
  <2>4. EndsAt(s) = trace[e].cycle
    BY <1>2, <2>2, <2>3
  <2>5. ~Open(trace, s, n)
    BY <1>1, <1>3, <2>1
  <2> QED
    BY <2>4, <2>5 DEF s
<1>7. ASSUME NEW s, Open(trace, s, n) PROVE EndsAt(s) = now
  <2>1. \A e \in E : trace[e].id = trace[s].id => e < s
    BY <1>1, <1>3, <1>7
  <2>2. s \in Nat
    BY <1>1, <1>3, <1>7
  <2>4. ASSUME NEW e \in After(s) PROVE FALSE
    <3>1. e \in E /\ e > s /\ trace[e].id = trace[s].id /\ e \in Nat
      BY <1>1
    <3>2. e < s
      BY <2>1, <3>1
    <3> QED
      BY <2>2, <3>1, <3>2
  <2>3. After(s) = {}
    BY <2>4
  <2> QED
    BY <1>2, <2>3
<1>8. ASSUME NEW s \in A, ~Open(trace, s, n) PROVE \E e \in E : cl[e] = s
  <2>9. s \in A /\ s \in Nat /\ s <= n
    BY <1>10
  <2>10. ~\A e \in E : trace[e].id = trace[s].id => e < s \/ e > n
    BY <1>3, <1>8, <2>9
  <2>1. PICK d \in E : trace[d].id = trace[s].id /\ ~(d < s)
    BY <2>10
  <2>11. d \in Nat /\ d # s
    BY <1>1, <2>9
  <2>14. d > s
    BY <2>1, <2>9, <2>11
  <2>2. d \in After(s) /\ After(s) \in SUBSET Nat
    BY <1>1, <2>1, <2>14
  <2>3. PICK e \in After(s) : \A x \in After(s) : e <= x
    <3> HIDE DEF After
    <3> QED
      BY <2>2, LeastNumber
  <2> DEFINE t == cl[e]
  <2>4. /\ e \in E /\ s < e /\ trace[e].id = trace[s].id
        /\ \A x \in E : x > s /\ trace[x].id = trace[s].id => e <= x
    BY <2>3
  <2>5. /\ t \in A /\ t < e /\ trace[t].id = trace[s].id
        /\ \A x \in E : trace[x].id = trace[s].id => x < t \/ x >= e
    BY <1>5, <2>4
  <2> HIDE DEF t
  <2>6. ~(t < s)
    <3> SUFFICES ASSUME t < s PROVE FALSE
      OBVIOUS
    <3>1. PICK x \in E : t < x /\ x < s /\ trace[x].id = trace[t].id
      BY <1>4, <2>5
    <3> QED
      BY <1>1, <2>4, <2>5, <3>1
  <2>7. ~(s < t)
    <3> SUFFICES ASSUME s < t PROVE FALSE
      OBVIOUS
    <3>1. PICK x \in E : s < x /\ x < t /\ trace[x].id = trace[s].id
      BY <1>4, <2>5
    <3> QED
      BY <1>1, <2>4, <2>5, <3>1
  <2>8. t = s
    BY <1>1, <2>5, <2>6, <2>7
  <2> QED
    BY <2>4, <2>8 DEF t
<1>9. ASSUME NEW d \in E, NEW e \in E, cl[d] = cl[e] PROVE d = e
  <2> DEFINE t == cl[e]
  <2>1. /\ t \in A /\ t < e /\ t < d /\ trace[d].id = trace[e].id
        /\ \A x \in E : trace[x].id = trace[e].id => (x < t \/ x >= e) /\ (x < t \/ x >= d)
    BY <1>5, <1>9
  <2> HIDE DEF t
  <2>2. d >= e /\ e >= d
    BY <1>1, <2>1
  <2> QED
    BY <1>1, <2>2
<1> QED
  BY <1>6, <1>7, <1>8, <1>9 DEF A, E, n

(* The attempts with a cycle in bucket b. *)
AttemptsIn(res, b) ==
  {i \in Attempts : BucketOf(trace[i].cycle, res) <= b /\ b <= BucketOf(EndsAt(i), res)}

LEMMA AttemptsFinite ==
  ASSUME Alternating(trace), NEW res, NEW b
  PROVE  IsFiniteSet(AttemptsIn(res, b)) /\ Cardinality(AttemptsIn(res, b)) \in Nat
<1>1. Len(trace) \in Nat /\ DOMAIN trace = 1 .. Len(trace)
  BY LenProperties DEF Alternating
<1>2. IsFiniteSet(DOMAIN trace)
  BY <1>1, FS_Interval
<1>3. AttemptsIn(res, b) \in SUBSET DOMAIN trace
  BY DEF AttemptsIn, Attempts
<1>4. IsFiniteSet(AttemptsIn(res, b))
  BY <1>2, <1>3, FS_Subset
<1> QED
  BY <1>4, FS_CardinalityType

(* Those that have ended are as many as their ends, and those that still *)
(* run as many as the factories in which they do.                        *)
LEMMA AttemptsSplit ==
  ASSUME Alternating(trace), NEW cl, Closes(cl, trace), NEW res \in Nat, now \in Nat,
         NEW b \in Slots(now, res), NEW starts, NEW Y,
         \A s : Open(trace, s, Len(trace)) => starts[trace[s].id] = trace[s].cycle,
         \A f \in Y : f \in FactoryIds /\ Bucket(starts[f], now, res) <= b,
         \A f \in Y : \E s : Open(trace, s, Len(trace)) /\ trace[s].id = f,
         \A s : Open(trace, s, Len(trace)) =>
                 (Bucket(trace[s].cycle, now, res) <= b => trace[s].id \in Y)
  PROVE  Cardinality(AttemptsIn(res, b)) =
           Cardinality(Closed(trace, cl, now, res, b, Len(trace))) + Cardinality(Y)
<1> DEFINE n == Len(trace)
           A == StartAt(trace)
           E == EndAt(trace)
           X == Closed(trace, cl, now, res, b, n)
           Z == AttemptsIn(res, b)
           Z1 == {s \in Z : ~Open(trace, s, n)}
           Z2 == {s \in Z : Open(trace, s, n)}
<1>1. /\ n \in Nat /\ A \subseteq 1 .. n /\ E \subseteq 1 .. n /\ Attempts = A
  BY LenProperties DEF StartAt, EndAt, KindsAt, Alternating, Attempts
<1>2. /\ \A e \in E : EndsAt(cl[e]) = trace[e].cycle /\ ~Open(trace, cl[e], n)
      /\ \A s : Open(trace, s, n) => EndsAt(s) = now
      /\ \A s \in A : Open(trace, s, n) \/ \E e \in E : cl[e] = s
      /\ \A d, e \in E : cl[d] = cl[e] => d = e
  BY AttemptEnds
<1>3. \A e \in E : cl[e] \in A /\ e <= n
  BY <1>1 DEF Closes
<1>4. \A s \in A : s \in Z <=>
        Bucket(trace[s].cycle, now, res) <= b /\ b <= Bucket(EndsAt(s), now, res)
  BY <1>1 DEF AttemptsIn, BucketOf
<1>5. Z \subseteq A
  BY <1>1 DEF AttemptsIn
<1>6. \A e : e \in X <=>
        /\ e \in E
        /\ Bucket(trace[cl[e]].cycle, now, res) <= b /\ b <= Bucket(trace[e].cycle, now, res)
  BY <1>3 DEF Closed, Spans
<1>7. b <= Bucket(now, now, res)
  BY BucketRange DEF Slots
<1>8. \A s : Open(trace, s, n) => s \in A /\ trace[s].id \in FactoryIds
  BY DEF Open, Alternating
<1>9. \A s, t : Open(trace, s, n) /\ Open(trace, t, n) /\ trace[s].id = trace[t].id => s = t
  BY <1>1, OpenOnce
<1>10. /\ \A s : Open(trace, s, n) => starts[trace[s].id] = trace[s].cycle
       /\ \A f \in Y : \E s : Open(trace, s, n) /\ trace[s].id = f
       /\ \A s : Open(trace, s, n) => (Bucket(trace[s].cycle, now, res) <= b => trace[s].id \in Y)
  OBVIOUS
<1> HIDE DEF n, A, E, X, Z
<1>11. IsFiniteSet(Z1) /\ IsFiniteSet(Z2) /\ IsFiniteSet(X) /\ Z1 \cap Z2 = {} /\ Z = Z1 \cup Z2
  <2>1. IsFiniteSet(1 .. n)
    BY <1>1, FS_Interval
  <2>2. Z1 \in SUBSET (1 .. n) /\ Z2 \in SUBSET (1 .. n) /\ X \in SUBSET (1 .. n)
    BY <1>1, <1>5, <1>6
  <2>3. Z1 \cap Z2 = {} /\ Z = Z1 \cup Z2
    OBVIOUS
  <2> HIDE DEF Z1, Z2
  <2> QED
    BY <2>1, <2>2, <2>3, FS_Subset
<1>12. Cardinality(Z1) = Cardinality(X)
  <2> DEFINE g == [e \in X |-> cl[e]]
  <2>1. \A e \in X : g[e] \in Z1
    BY <1>2, <1>3, <1>4, <1>6
  <2>2. \A d, e \in X : g[d] = g[e] => d = e
    BY <1>2, <1>6
  <2>3. \A s \in Z1 : \E e \in X : g[e] = s
    <3>1. TAKE s \in Z1
    <3>2. s \in A /\ s \in Z
      BY <1>5
    <3>3. PICK e \in E : cl[e] = s
      BY <1>2, <3>2
    <3>4. e \in X
      BY <1>2, <1>4, <1>6, <3>2, <3>3
    <3> QED
      BY <3>3, <3>4
  <2>4. g \in [X -> Z1]
    BY <2>1
  <2> HIDE DEF g, Z1
  <2>5. g \in Bijection(X, Z1)
    BY <2>2, <2>3, <2>4 DEF Bijection, Injection, Surjection, IsInjective
  <2> QED
    BY <1>11, <2>5, FS_Bijection DEF ExistsBijection
<1>13. Cardinality(Z2) = Cardinality(Y)
  <2> DEFINE g == [s \in Z2 |-> trace[s].id]
  <2>1. \A s \in Z2 : g[s] \in Y
    BY <1>4, <1>5, <1>10
  <2>2. \A s, t \in Z2 : g[s] = g[t] => s = t
    BY <1>9
  <2>3. \A f \in Y : \E s \in Z2 : g[s] = f
    <3>1. TAKE f \in Y
    <3>2. PICK s : Open(trace, s, n) /\ trace[s].id = f
      BY <1>10
    <3>3. s \in A /\ EndsAt(s) = now /\ starts[f] = trace[s].cycle
      BY <1>2, <1>8, <1>10, <3>2
    <3>4. Bucket(trace[s].cycle, now, res) <= b
      BY <3>3
    <3>5. s \in Z2
      BY <1>4, <1>7, <3>2, <3>3, <3>4
    <3> QED
      BY <3>2, <3>5
  <2>4. g \in [Z2 -> Y]
    BY <2>1
  <2> HIDE DEF g, Z2
  <2>5. g \in Bijection(Z2, Y)
    BY <2>2, <2>3, <2>4 DEF Bijection, Injection, Surjection, IsInjective
  <2> QED
    BY <1>11, <2>5, FS_Bijection DEF ExistsBijection
<1> HIDE DEF Z1, Z2
<1>14. Cardinality(Z) = Cardinality(Z1) + Cardinality(Z2)
  <2>1. Cardinality(Z1 \cup Z2) = Cardinality(Z1) + Cardinality(Z2) - Cardinality(Z1 \cap Z2)
    BY <1>11, FS_Union
  <2>2. Cardinality(Z1 \cap Z2) = 0
    BY <1>11, FS_EmptySet
  <2>3. Cardinality(Z1) \in Nat /\ Cardinality(Z2) \in Nat
    BY <1>11, FS_CardinalityType
  <2> QED
    BY <1>11, <2>1, <2>2, <2>3
<1> QED
  BY <1>12, <1>13, <1>14 DEF X, Z, n

LEMMA CountsOf ==
  ASSUME TypeOK, Runs, NEW res \in Nat, NEW b \in Slots(now, res)
  PROVE  ProfileOf(res).active[b] = Cardinality(AttemptsIn(res, b))
<1> DEFINE n == Len(trace)
<1>1. trace \in Seq(TraceRecord) /\ now \in Nat /\ Alternating(trace) /\ Ordered(trace)
  BY DEF Runs, Alternating, Ascending, Ordered, TypeOK
<1>2. PICK a : Pass(a, trace, now, res) /\ Folded(trace, now, res) = a[n]
  BY <1>1, PassExists
<1>3. PICK cl : Closes(cl, trace)
  BY <1>1, ClosesExists
<1> DEFINE acc == a[n]
           filled == RunningFilled(acc, now, res)
           Y == BegunBy(acc, now, res, b)
           sum == SumOf(filled, 0 .. b)
<1>4. ActiveUpto(a, trace, cl, now, res, n)
  <2>1. n \in 0 .. Len(trace)
    BY <1>1, LenProperties
  <2> QED
    BY <1>1, <1>2, <1>3, <2>1, ActiveFollowed
<1>5. StartsUpto(a, trace, n) /\ DeltasUpto(a, trace, cl, now, res, n)
  BY <1>4 DEF ActiveUpto
<1>6. /\ acc.starts \in [FactoryIds -> Nat \cup {NoStart}]
      /\ \A s : Open(trace, s, n) => acc.starts[trace[s].id] = trace[s].cycle
      /\ \A f \in FactoryIds :
           acc.starts[f] # NoStart => \E s : Open(trace, s, n) /\ trace[s].id = f
      /\ acc.deltas \in [0 .. NumBuckets(now, res) -> Int]
      /\ SumOf(acc.deltas, 0 .. b) = Cardinality(Closed(trace, cl, now, res, b, n))
  BY <1>5 DEF StartsUpto, DeltasUpto
<1>7. ProfileOf(res).active = ActiveCounts(filled, now, res)
  BY <1>2 DEF ProfileOf, Analyze, Folded
<1>8. ActiveCounts(filled, now, res)[b] = IF sum > 0 THEN sum ELSE 0
  BY DEF ActiveCounts, SumOf, Slots
<1>9. sum = SumOf(acc.deltas, 0 .. b) + Cardinality(Y)
  <2> HIDE DEF acc
  <2> QED
    BY <1>1, <1>6, FilledSums
<1>10. \A s : Open(trace, s, n) => trace[s].id \in FactoryIds /\ trace[s].cycle \in Nat
  <2>1. \A s \in StartAt(trace) : s \in DOMAIN trace /\ trace[s].id \in FactoryIds
    BY <1>1 DEF Alternating, StartAt, KindsAt
  <2>2. ASSUME NEW s \in DOMAIN trace PROVE trace[s].cycle \in Nat
    <3>1. s \in 1 .. Len(trace)
      BY <1>1, LenProperties
    <3>2. trace[s] \in TraceRecord
      BY <1>1, <3>1, ElementOfSeq
    <3> QED
      BY <3>2 DEF TraceRecord
  <2> QED
    BY <2>1, <2>2 DEF Open
<1> HIDE DEF acc, filled, sum, n, Y
<1>11. \A f : f \in Y <=> /\ f \in FactoryIds /\ acc.starts[f] # NoStart
                          /\ Bucket(acc.starts[f], now, res) <= b
  BY DEF UnderWay, BegunBy, Y
<1>15. ASSUME NEW s, Open(trace, s, n), Bucket(trace[s].cycle, now, res) <= b
       PROVE  trace[s].id \in Y
  <2>1. acc.starts[trace[s].id] = trace[s].cycle /\ trace[s].id \in FactoryIds
        /\ acc.starts[trace[s].id] # NoStart
    BY <1>6, <1>10, <1>15, NoStartAssumption
  <2> QED
    BY <1>11, <1>15, <2>1
<1>16. ASSUME NEW f \in Y PROVE \E s : Open(trace, s, n) /\ trace[s].id = f
  BY <1>6, <1>11
<1>17. \A f \in Y : f \in FactoryIds /\ Bucket(acc.starts[f], now, res) <= b
  BY <1>11
<1> DEFINE Z == AttemptsIn(res, b)
           X == Closed(trace, cl, now, res, b, n)
<1>12. Cardinality(Z) = Cardinality(X) + Cardinality(Y)
  <2> DEFINE st == acc.starts
  <2>1. \A s : Open(trace, s, Len(trace)) => st[trace[s].id] = trace[s].cycle
    BY <1>6 DEF n
  <2>2. \A f \in Y : f \in FactoryIds /\ Bucket(st[f], now, res) <= b
    BY <1>17
  <2>3. \A f \in Y : \E s : Open(trace, s, Len(trace)) /\ trace[s].id = f
    BY <1>16 DEF n
  <2>4. \A s : Open(trace, s, Len(trace)) =>
                (Bucket(trace[s].cycle, now, res) <= b => trace[s].id \in Y)
    BY <1>15 DEF n
  <2> HIDE DEF st
  <2>5. Cardinality(AttemptsIn(res, b)) =
          Cardinality(Closed(trace, cl, now, res, b, Len(trace))) + Cardinality(Y)
    BY <1>1, <1>3, <2>1, <2>2, <2>3, <2>4, AttemptsSplit
  <2> QED
    BY <2>5 DEF n
<1>13. Cardinality(Z) \in Nat
  BY <1>1, AttemptsFinite
<1>14. sum = Cardinality(Z)
  BY <1>6, <1>9, <1>12
<1> HIDE DEF Z, X
<1> QED
  BY <1>7, <1>8, <1>13, <1>14 DEF Z

LEMMA RunsCounted == TypeOK /\ Runs => ActivityCounted
<1> SUFFICES ASSUME TypeOK, Runs, NEW res \in Resolutions, NEW b \in Buckets(res)
             PROVE  ProfileOf(res).active[b] =
                      Cardinality({i \in Attempts : /\ BucketOf(trace[i].cycle, res) <= b
                                                    /\ b <= BucketOf(EndsAt(i), res)})
  BY DEF ActivityCounted
<1>1. res \in Nat /\ b \in Slots(now, res)
  BY ResolutionsAssumption DEF Buckets, Slots
<1>2. ProfileOf(res).active[b] = Cardinality(AttemptsIn(res, b))
  BY <1>1, CountsOf
<1> QED
  BY <1>2 DEF AttemptsIn

(* A factory's last start by bucket b: what ends its attempt before b has  *)
(* started another by b.                                                   *)
LEMMA BusyIn ==
  ASSUME TypeOK, Runs, NEW res \in Nat, NEW b \in Slots(now, res), NEW f \in FactoryIds
  PROVE  \E s \in AttemptsIn(res, b) : trace[s].id = f
<1> DEFINE A == StartAt(trace)
           E == EndAt(trace)
           n == Len(trace)
           B(c) == Bucket(c, now, res)
           Begins == {s \in A : trace[s].id = f /\ B(trace[s].cycle) <= b}
           After(s) == {j \in DOMAIN trace : /\ j > s /\ trace[j].kind \in {"produced", "failed"}
                                             /\ trace[j].id = trace[s].id}
<1>1. /\ n \in Nat /\ A \subseteq 1 .. n /\ DOMAIN trace = 1 .. n /\ now \in Nat
      /\ Attempts = A
  BY LenProperties DEF Runs, Alternating, StartAt, KindsAt, Attempts, TypeOK
<1>2. b \in Nat /\ B(now) >= b /\ B(0) <= b
  <2>1. NumBuckets(now, res) \in Nat /\ B(0) = 0 /\ B(now) = NumBuckets(now, res) - 1
    BY <1>1, BucketRange
  <2> QED
    BY <2>1 DEF Slots
<1>3. \E s \in A : trace[s].id = f /\ trace[s].cycle = 0
  BY DEF Runs, Restarted
<1>4. \A e \in E : \E s \in A :
        s > e /\ trace[s].id = trace[e].id /\ trace[s].cycle = trace[e].cycle
  BY DEF Runs, Restarted
<1> HIDE DEF A, B, n
<1>5. Begins # {} /\ Begins \in SUBSET (1 .. n)
  <2>1. \E s \in A : s \in Begins
    BY <1>2, <1>3
  <2> QED
    BY <1>1, <2>1
<1> DEFINE s == Max(Begins)
<1>6. s \in Begins /\ \A x \in Begins : x <= s
  <2> HIDE DEF Begins
  <2> QED
    BY <1>1, <1>5, MaxIs
<1> HIDE DEF s
<1>7. s \in A /\ trace[s].id = f /\ B(trace[s].cycle) <= b /\ s \in Nat
  BY <1>1, <1>6
<1>8. b <= B(EndsAt(s))
  <2>1. CASE After(s) = {}
    BY <1>2, <2>1 DEF EndsAt
  <2>2. CASE After(s) # {}
    <3> DEFINE e == Min(After(s))
    <3>1. e \in After(s) /\ EndsAt(s) = trace[e].cycle
      <4>1. After(s) \in SUBSET Nat
        BY <1>1
      <4> HIDE DEF After
      <4>2. PICK m \in After(s) : \A x \in After(s) : m <= x
        BY <2>2, <4>1, LeastNumber
      <4>3. e = m
        BY <4>1, <4>2, MinIs
      <4> QED
        BY <2>2, <4>2, <4>3 DEF EndsAt, After
    <3> HIDE DEF e
    <3>2. e \in E /\ e > s /\ trace[e].id = f /\ e \in Nat
      BY <1>1, <1>7, <3>1 DEF EndAt, KindsAt, Ends
    <3>3. PICK t \in A : t > e /\ trace[t].id = f /\ trace[t].cycle = trace[e].cycle
      BY <1>4, <3>2
    <3>4. t \in Nat /\ t > s
      BY <1>1, <1>7, <3>2, <3>3
    <3>5. t \notin Begins
      BY <1>6, <1>7, <3>4
    <3>6. ~(B(trace[e].cycle) <= b)
      BY <3>3, <3>5
    <3>7. B(trace[e].cycle) \in Int
      <4>1. trace[e].cycle \in Nat
        <5>1. trace \in Seq(TraceRecord) /\ e \in 1 .. Len(trace)
          BY <1>1, <3>1 DEF Runs, Alternating, n
        <5>2. trace[e] \in TraceRecord
          BY <5>1, ElementOfSeq
        <5> QED
          BY <5>2 DEF TraceRecord
      <4>2. B(trace[e].cycle) \in Slots(now, res)
        BY <1>1, <4>1, BucketRange DEF B
      <4> QED
        BY <1>1, <4>2, BucketRange DEF Slots
    <3> QED
      BY <1>2, <3>1, <3>6, <3>7
  <2> QED
    BY <2>1, <2>2
<1>9. s \in AttemptsIn(res, b)
  BY <1>1, <1>7, <1>8 DEF AttemptsIn, BucketOf, B
<1> QED
  BY <1>7, <1>9

LEMMA RunsBusy == TypeOK /\ Runs => NeverIdle
<1> SUFFICES ASSUME TypeOK, Runs, NEW res \in Resolutions, NEW b \in Buckets(res)
             PROVE  ProfileOf(res).active[b] >= NumFactories
  BY DEF NeverIdle
<1> DEFINE Z == AttemptsIn(res, b)
           g == [f \in FactoryIds |-> CHOOSE s \in Z : trace[s].id = f]
<1>1. res \in Nat /\ b \in Slots(now, res)
  BY ResolutionsAssumption DEF Buckets, Slots
<1>2. ProfileOf(res).active[b] = Cardinality(Z)
  BY <1>1, CountsOf
<1>3. \A f \in FactoryIds : \E s \in Z : trace[s].id = f
  BY <1>1, BusyIn
<1>4. IsFiniteSet(Z) /\ Cardinality(Z) \in Nat
  BY AttemptsFinite DEF Runs
<1> HIDE DEF Z
<1>5. \A f \in FactoryIds : g[f] \in Z /\ trace[g[f]].id = f
  BY <1>3
<1>6. g \in [FactoryIds -> Z]
  BY <1>5
<1> HIDE DEF g
<1>7. g \in Injection(FactoryIds, Z)
  BY <1>5, <1>6 DEF Injection, IsInjective
<1>8. Cardinality(FactoryIds) <= Cardinality(Z)
  BY <1>4, <1>7, FS_Injection
<1>9. Cardinality(Z) \in Nat /\ NumFactories \in Nat
  BY <1>4, SizesAssumption
<1> QED
  BY <1>2, <1>8, <1>9, FactoriesNumber

(* The active factories that ProfileAnalyzer::analyze counts in a bucket   *)
(* are the attempts with a cycle in it, in every trace the engine records  *)
(* and at every resolution.                                                *)
THEOREM AttemptsCounted == TracedSpec => []ActivityCounted
<1>1. TracedSpec => Spec
  BY TracedIsEngine, PTL DEF TracedSpec, Spec
<1> QED
  BY <1>1, AlwaysRuns, RunsCounted, TypeCorrect, PTL

(* No bucket of a profile has fewer active factories than there are: the   *)
(* engine starts every one at once, and again in the cycle of each         *)
(* outcome.                                                                *)
THEOREM NoFactoryIdle == TracedSpec => []NeverIdle
<1>1. TracedSpec => Spec
  BY TracedIsEngine, PTL DEF TracedSpec, Spec
<1> QED
  BY <1>1, AlwaysRuns, RunsBusy, TypeCorrect, PTL

-----------------------------------------------------------------------------
(* Sums that grow. *)

(* What holds of a set when it holds of every smaller part of it holds of *)
(* every finite set.                                                      *)
LEMMA PartInduction ==
  ASSUME NEW S, IsFiniteSet(S), NEW G \in SUBSET (SUBSET S),
         \A s \in SUBSET S : (\A t \in SUBSET s : t # s => t \in G) => s \in G
  PROVE  G = SUBSET S
<1> DEFINE Sizes == {Cardinality(s) : s \in (SUBSET S) \ G}
<1>1. ASSUME NEW s \in SUBSET S
      PROVE  /\ IsFiniteSet(s) /\ Cardinality(s) \in Nat
             /\ \A t \in SUBSET s : t # s => t \in SUBSET S /\ Cardinality(t) < Cardinality(s)
  <2>1. IsFiniteSet(s)
    BY FS_Subset
  <2>2. ASSUME NEW t \in SUBSET s, t # s PROVE Cardinality(t) < Cardinality(s)
    <3>1. Cardinality(t) <= Cardinality(s) /\ (Cardinality(s) = Cardinality(t) => s = t)
      BY <2>1, FS_Subset
    <3>2. IsFiniteSet(t)
      BY <2>1, FS_Subset
    <3>3. Cardinality(t) \in Nat /\ Cardinality(s) \in Nat
      BY <2>1, <3>2, FS_CardinalityType
    <3> QED
      BY <2>2, <3>1, <3>3
  <2> QED
    BY <2>1, <2>2, FS_CardinalityType
<1> SUFFICES ASSUME Sizes # {} PROVE FALSE
  OBVIOUS
<1>2. Sizes \in SUBSET Nat
  BY <1>1
<1> HIDE DEF Sizes
<1>3. PICK m \in Sizes : \A n \in Sizes : m <= n
  BY <1>2, LeastNumber
<1> USE DEF Sizes
<1>4. PICK s \in (SUBSET S) \ G : Cardinality(s) = m
  BY <1>3
<1>5. ASSUME NEW t \in SUBSET s, t # s PROVE t \in G
  <2>1. t \in SUBSET S /\ Cardinality(t) < Cardinality(s)
    BY <1>1, <1>4, <1>5
  <2>2. Cardinality(t) \in Nat /\ Cardinality(s) \in Nat
    BY <1>1, <1>4, <2>1
  <2> QED
    BY <1>3, <1>4, <2>1, <2>2
<1> QED
  BY <1>4, <1>5

(* A sum is that of one element and of the rest, whichever it is. *)
LEMMA SumRest ==
  ASSUME NEW S, IsFiniteSet(S), NEW g, \A x \in S : g[x] \in Int, NEW h, Sums(h, g, S),
         NEW s \in SUBSET S, NEW x \in s
  PROVE  h[s] = g[x] + h[s \ {x}]
<1> DEFINE G == {r \in SUBSET S : \A y \in r : h[r] = g[y] + h[r \ {y}]}
<1>1. ASSUME NEW r \in SUBSET S, \A t \in SUBSET r : t # r => t \in G
      PROVE  r \in G
  <2> SUFFICES ASSUME NEW y \in r PROVE h[r] = g[y] + h[r \ {y}]
    OBVIOUS
  <2> DEFINE z == Pick(r)
  <2>1. z \in r /\ h[r] = g[z] + h[r \ {z}]
    BY PickIn DEF Sums
  <2> HIDE DEF z
  <2>2. CASE y = z
    BY <2>1, <2>2
  <2>3. CASE y # z
    <3>1. r \ {z} \in G /\ r \ {y} \in G
      BY <1>1, <2>1
    <3>2. h[r \ {z}] = g[y] + h[(r \ {z}) \ {y}]
      BY <2>3, <3>1
    <3>3. h[r \ {y}] = g[z] + h[(r \ {y}) \ {z}]
      BY <2>1, <2>3, <3>1
    <3>4. (r \ {z}) \ {y} = (r \ {y}) \ {z} /\ (r \ {z}) \ {y} \in SUBSET S
      OBVIOUS
    <3>5. h[(r \ {z}) \ {y}] \in Int /\ g[y] \in Int /\ g[z] \in Int
      BY <2>1, <3>4 DEF Sums
    <3> DEFINE w == h[(r \ {z}) \ {y}]
    <3>6. h[r] = g[z] + (g[y] + w) /\ h[r \ {y}] = g[z] + w
      BY <2>1, <3>2, <3>3, <3>4
    <3>7. w \in Int
      BY <3>5
    <3> HIDE DEF w
    <3> QED
      BY <3>5, <3>6, <3>7
  <2> QED
    BY <2>2, <2>3
<1>2. G \in SUBSET (SUBSET S)
  OBVIOUS
<1> HIDE DEF G
<1>3. G = SUBSET S
  BY <1>1, <1>2, PartInduction
<1>4. s \in G
  BY <1>3
<1> QED
  BY <1>4 DEF G

LEMMA SumAdds ==
  ASSUME NEW S, IsFiniteSet(S), NEW y, y \notin S, NEW g, \A x \in S \cup {y} : g[x] \in Int
  PROVE  SumOf(g, S \cup {y}) = SumOf(g, S) + g[y]
<1> DEFINE T == S \cup {y}
<1>1. IsFiniteSet(T) /\ S \in SUBSET T /\ y \in T /\ T \ {y} = S
  BY FS_AddElement
<1>2. \A x \in T : g[x] \in Int
  OBVIOUS
<1> HIDE DEF T
<1>3. PICK p : Sums(p, g, T) /\ SumOf(g, T) = p[T]
  BY <1>1, <1>2, SumExists
<1>4. PICK q : Sums(q, g, S) /\ SumOf(g, S) = q[S]
  BY <1>1, <1>2, SumExists
<1>5. p[T] = g[y] + p[S]
  <2>1. T \in SUBSET T
    OBVIOUS
  <2>2. p[T] = g[y] + p[T \ {y}]
    BY <1>1, <1>2, <1>3, <2>1, SumRest
  <2> QED
    BY <1>1, <2>2
<1> DEFINE G == {s \in SUBSET S : p[s] = q[s]}
<1>6. {} \in G
  BY <1>3, <1>4 DEF Sums
<1>7. ASSUME NEW s \in SUBSET S, s # {}, s \ {Pick(s)} \in G PROVE s \in G
  <2>1. p[s] = g[Pick(s)] + p[s \ {Pick(s)}]
    BY <1>1, <1>3, <1>7 DEF Sums
  <2>2. q[s] = g[Pick(s)] + q[s \ {Pick(s)}]
    BY <1>4, <1>7 DEF Sums
  <2> QED
    BY <1>7, <2>1, <2>2
<1>8. G \in SUBSET (SUBSET S)
  OBVIOUS
<1> HIDE DEF G
<1>9. G = SUBSET S
  BY <1>6, <1>7, <1>8, PickInduction
<1>10. p[S] = q[S]
  BY <1>9 DEF G
<1>11. q[S] \in Int /\ g[y] \in Int
  BY <1>1, <1>2, <1>4 DEF Sums
<1> QED
  BY <1>3, <1>4, <1>5, <1>10, <1>11 DEF T

LEMMA SumsAgree ==
  ASSUME NEW S, IsFiniteSet(S), NEW g, NEW h, \A x \in S : g[x] \in Int /\ h[x] = g[x]
  PROVE  SumOf(h, S) = SumOf(g, S)
<1> DEFINE d == 0
<1>1. d \in Int /\ \A x \in S : g[x] \in Int
  OBVIOUS
<1>2. \A x \in S : h[x] = IF x = S THEN g[x] + d ELSE g[x]
  OBVIOUS
<1>3. SumOf(g, S) \in Int
  BY <1>1, SumType
<1> HIDE DEF d
<1>4. SumOf(h, S) = SumOf(g, S) + (IF S \in S THEN d ELSE 0)
  BY <1>1, <1>2, SumChange
<1> QED
  BY <1>3, <1>4 DEF d

LEMMA SumBounded ==
  ASSUME NEW S, IsFiniteSet(S), NEW g, NEW c \in Int, \A x \in S : g[x] \in Int /\ g[x] <= c
  PROVE  SumOf(g, S) <= Cardinality(S) * c
<1>1. PICK h : Sums(h, g, S) /\ SumOf(g, S) = h[S]
  BY SumExists
<1> DEFINE G == {s \in SUBSET S : h[s] <= Cardinality(s) * c}
<1>2. {} \in G
  BY <1>1, FS_EmptySet DEF Sums
<1>3. ASSUME NEW s \in SUBSET S, s # {}, s \ {Pick(s)} \in G PROVE s \in G
  <2> DEFINE x == Pick(s)
             t == s \ {x}
             n == Cardinality(t)
  <2>1. x \in s /\ t \in SUBSET S /\ IsFiniteSet(t) /\ IsFiniteSet(s)
    BY <1>3, PickIn, FS_Subset
  <2>2. n \in Nat /\ Cardinality(s) = n + 1
    <3>1. Cardinality(t) = Cardinality(s) - 1 /\ Cardinality(t) \in Nat /\ Cardinality(s) \in Nat
      BY <2>1, FS_RemoveElement, FS_CardinalityType
    <3> QED
      BY <3>1
  <2>3. h[s] = g[x] + h[t] /\ h[t] \in Int /\ g[x] \in Int /\ g[x] <= c
    BY <1>1, <1>3, <2>1 DEF Sums
  <2>4. h[t] <= n * c
    BY <1>3
  <2> HIDE DEF x, t, n
  <2>5. n * c \in Int /\ (n + 1) * c = n * c + c
    BY <2>2
  <2>6. h[s] <= (n + 1) * c
    BY <2>3, <2>4, <2>5
  <2> QED
    BY <2>2, <2>6
<1>4. G \in SUBSET (SUBSET S)
  OBVIOUS
<1> HIDE DEF G
<1>5. G = SUBSET S
  BY <1>2, <1>3, <1>4, PickInduction
<1> QED
  BY <1>1, <1>5 DEF G

-----------------------------------------------------------------------------
(* The pass of extract_summary. *)

NoTally ==
  [stalls |-> 0, waited |-> 0, longest |-> 0, errors |-> 0, inserted |-> 0,
   full |-> 0, active |-> 0, starts |-> [f \in FactoryIds |-> NoStart]]

(* t[i] is what extract_summary holds after the first i records of tr. *)
TallyPass(t, tr) ==
  /\ t[0] = NoTally
  /\ \A i \in 1 .. Len(tr) : t[i] = Tally(t[i - 1], tr[i])

LEMMA TallyExists ==
  ASSUME NEW R, NEW tr \in Seq(R)
  PROVE  \E t : TallyPass(t, tr) /\ Summary(tr, FactoryIds) = t[Len(tr)]
<1> DEFINE F(g, s) == IF s = {} THEN NoTally ELSE Tally(g[s \ {Max(s)}], tr[Max(s)])
           IsIter(g, m) == g = [s \in SUBSET (1 .. m) |-> F(g, s)]
           Missing == {m \in Nat : ~\E g : IsIter(g, m)}
<1>1. DOMAIN tr = 1 .. Len(tr) /\ Len(tr) \in Nat
  BY LenProperties
<1>2. \E g : IsIter(g, 0)
  <2>1. IsIter([s \in SUBSET (1 .. 0) |-> NoTally], 0)
    OBVIOUS
  <2> QED
    BY <2>1
<1>3. ASSUME NEW m \in Nat \ {0}, NEW g, IsIter(g, m - 1)
      PROVE  \E h : IsIter(h, m)
  <2> DEFINE h == [s \in SUBSET (1 .. m) |-> IF m \in s THEN Tally(g[s \ {m}], tr[m]) ELSE g[s]]
  <2>1. ASSUME NEW s \in SUBSET (1 .. m), m \in s PROVE h[s] = F(h, s)
    <3>1. Max(s) = m /\ s # {}
      BY <2>1, LargestOf
    <3>2. h[s \ {m}] = g[s \ {m}]
      OBVIOUS
    <3>3. h[s] = Tally(g[s \ {m}], tr[m])
      BY <2>1
    <3> QED
      BY <3>1, <3>2, <3>3
  <2>2. ASSUME NEW s \in SUBSET (1 .. m), m \notin s PROVE h[s] = F(h, s)
    <3>1. s \in SUBSET (1 .. m - 1)
      BY <2>2
    <3>2. h[s] = F(g, s)
      <4>1. h[s] = g[s]
        BY <2>2
      <4> HIDE DEF h, F
      <4> QED
        BY <1>3, <3>1, <4>1
    <3>3. h[s \ {Max(s)}] = g[s \ {Max(s)}]
      BY <2>2
    <3> HIDE DEF h
    <3> QED
      BY <3>2, <3>3
  <2>3. IsIter(h, m)
    <3>1. \A s \in SUBSET (1 .. m) : h[s] = F(h, s)
      BY <2>1, <2>2
    <3>2. h = [s \in SUBSET (1 .. m) |-> h[s]]
      OBVIOUS
    <3> HIDE DEF h, F
    <3> QED
      BY <3>1, <3>2
  <2> HIDE DEF h, IsIter
  <2> QED
    BY <2>3
<1>4. Missing = {}
  <2> SUFFICES ASSUME Missing # {} PROVE FALSE
    OBVIOUS
  <2> HIDE DEF IsIter
  <2>1. PICK m \in Missing : \A n \in Missing : m <= n
    BY LeastNumber
  <2>2. m \in Nat \ {0}
    BY <1>2, <2>1
  <2>3. m - 1 \in Nat /\ m - 1 \notin Missing
    BY <2>1, <2>2
  <2>4. PICK g : IsIter(g, m - 1)
    BY <2>3
  <2> QED
    BY <1>3, <2>1, <2>2, <2>4
<1> DEFINE iter == CHOOSE g : IsIter(g, Len(tr))
<1>5. IsIter(iter, Len(tr))
  <2> HIDE DEF IsIter
  <2> QED
    BY <1>1, <1>4
<1>6. Summary(tr, FactoryIds) = iter[1 .. Len(tr)]
  BY <1>1 DEF Summary, NoTally, FoldLeft, MapThenFoldSet
<1> HIDE DEF iter
<1> DEFINE t == [i \in 0 .. Len(tr) |-> iter[1 .. i]]
<1>7. \A s \in SUBSET (1 .. Len(tr)) : iter[s] = F(iter, s)
  <2> HIDE DEF F
  <2> QED
    BY <1>5
<1>8. t[0] = NoTally
  <2>1. 1 .. 0 = {} /\ t[0] = iter[1 .. 0]
    BY <1>1
  <2> QED
    BY <1>7, <2>1
<1>9. ASSUME NEW i \in 1 .. Len(tr)
      PROVE  t[i] = Tally(t[i - 1], tr[i])
  <2>1. 1 .. i \in SUBSET (1 .. Len(tr)) /\ 1 .. i # {} /\ i \in Nat /\ i \in 1 .. i
    <3>1. i \in Nat /\ i <= Len(tr) /\ i \in 1 .. i
      BY <1>1
    <3>2. \A j \in 1 .. i : j \in 1 .. Len(tr)
      BY <1>1, <3>1
    <3> QED
      BY <3>1, <3>2
  <2>2. Max(1 .. i) = i
    BY <2>1, LargestOf
  <2>3. (1 .. i) \ {i} = 1 .. (i - 1)
    BY <2>1
  <2>4. iter[1 .. i] = Tally(iter[1 .. (i - 1)], tr[i])
    BY <1>7, <2>1, <2>2, <2>3
  <2> QED
    BY <1>1, <2>4
<1>10. t[Len(tr)] = iter[1 .. Len(tr)]
  BY <1>1
<1> HIDE DEF t
<1>11. TallyPass(t, tr)
  BY <1>8, <1>9 DEF TallyPass
<1> QED
  BY <1>6, <1>10, <1>11

(* The numbers of a summary that one record changes. *)
TallyFields == {"stalls", "waited", "longest", "errors", "inserted", "full", "active", "starts"}

Tallied(new, old, e) ==
  /\ DOMAIN new = TallyFields
  /\ IsStall(e) => /\ new.stalls = old.stalls + 1 /\ new.waited = old.waited + e.n
                   /\ new.longest = IF old.longest > e.n THEN old.longest ELSE e.n
  /\ ~IsStall(e) => /\ new.stalls = old.stalls /\ new.waited = old.waited
                    /\ new.longest = old.longest
  /\ new.errors = IF e.kind = "error" THEN old.errors + 1 ELSE old.errors
  /\ new.inserted = IF e.kind = "fixup" THEN old.inserted + 1 ELSE old.inserted
  /\ e.kind = "started" =>
       new.starts = [old.starts EXCEPT ![e.id] = e.cycle] /\ new.active = old.active
  /\ e.kind \in Ends /\ old.starts[e.id] # NoStart =>
       /\ new.starts = [old.starts EXCEPT ![e.id] = NoStart]
       /\ new.active = old.active + (e.cycle - old.starts[e.id])
  /\ e.kind \in Ends /\ old.starts[e.id] = NoStart =>
       new.starts = old.starts /\ new.active = old.active
  /\ e.kind \notin Ends \cup {"started"} =>
       new.starts = old.starts /\ new.active = old.active

LEMMA TallyOf ==
  ASSUME NEW old, DOMAIN old = TallyFields, NEW e
  PROVE  Tallied(Tally(old, e), old, e)
<1>1. CASE e.kind = "served" /\ e.n > 0
  BY <1>1 DEF Tallied, Tally, IsStall, Ends, TallyFields
<1>2. CASE e.kind = "error"
  BY <1>2 DEF Tallied, Tally, IsStall, Ends, TallyFields
<1>3. CASE e.kind = "fixup"
  BY <1>3 DEF Tallied, Tally, IsStall, Ends, TallyFields
<1>4. CASE e.kind = "full"
  BY <1>4 DEF Tallied, Tally, IsStall, Ends, TallyFields
<1>5. CASE e.kind = "started"
  BY <1>5 DEF Tallied, Tally, IsStall, Ends, TallyFields
<1>6. CASE e.kind \in Ends /\ old.starts[e.id] # NoStart
  BY <1>6 DEF Tallied, Tally, Ended, IsStall, Ends, TallyFields
<1>7. CASE e.kind \in Ends /\ old.starts[e.id] = NoStart
  BY <1>7 DEF Tallied, Tally, IsStall, Ends, TallyFields
<1>8. CASE /\ ~(e.kind = "served" /\ e.n > 0) /\ e.kind \notin {"error", "fixup", "full", "started"}
           /\ e.kind \notin Ends
  BY <1>8 DEF Tallied, Tally, IsStall, Ends
<1> QED
  BY <1>1, <1>2, <1>3, <1>4, <1>5, <1>6, <1>7, <1>8

(* And what analyze keeps of the same. *)
Noted(new, old, e) ==
  /\ {"errors", "inserted", "starts"} \subseteq DOMAIN new
  /\ new.errors = IF e.kind = "error" THEN old.errors + 1 ELSE old.errors
  /\ new.inserted = IF e.kind = "fixup" THEN old.inserted + 1 ELSE old.inserted
  /\ e.kind = "started" => new.starts = [old.starts EXCEPT ![e.id] = e.cycle]
  /\ e.kind \in Ends => new.starts = IF old.starts[e.id] # NoStart
                                       THEN [old.starts EXCEPT ![e.id] = NoStart]
                                       ELSE old.starts
  /\ e.kind \notin Ends \cup {"started"} => new.starts = old.starts

LEMMA AbsorbOf ==
  ASSUME NEW old, {"errors", "inserted", "starts"} \subseteq DOMAIN old,
         NEW e, NEW cycles, NEW res
  PROVE  Noted(Absorb(old, e, cycles, res), old, e)
<1>1. CASE e.kind = "started"
  BY <1>1 DEF Noted, Absorb, Observe, Ends
<1>2. CASE e.kind \in Ends /\ old.starts[e.id] # NoStart
  BY <1>2 DEF Noted, Absorb, Observe, Ends
<1>3. CASE e.kind \in Ends /\ old.starts[e.id] = NoStart
  BY <1>3 DEF Noted, Absorb, Observe, Ends
<1>4. CASE e.kind = "error"
  BY <1>4 DEF Noted, Absorb, Observe, Ends
<1>5. CASE e.kind = "fixup"
  BY <1>5 DEF Noted, Absorb, Observe, Ends
<1>6. CASE e.kind \notin Ends \cup {"started", "error", "fixup"}
  BY <1>6 DEF Noted, Absorb, Observe, Served, Ends
<1> QED
  BY <1>1, <1>2, <1>3, <1>4, <1>5, <1>6

(* What holds of 0, and of an index when it holds of the one before, holds *)
(* of all of them.                                                         *)
LEMMA IndexInduction ==
  ASSUME NEW n \in Nat, NEW G \in SUBSET (0 .. n), 0 \in G, \A i \in 1 .. n : i - 1 \in G => i \in G
  PROVE  G = 0 .. n
<1> DEFINE Bad == {i \in 0 .. n : i \notin G}
<1> SUFFICES ASSUME Bad # {} PROVE FALSE
  OBVIOUS
<1>1. PICK m \in Bad : \A k \in Bad : m <= k
  <2>1. Bad \subseteq Nat
    OBVIOUS
  <2> QED
    BY <2>1, LeastNumber
<1>2. m \in 1 .. n /\ m - 1 \in 0 .. n
  BY <1>1
<1>3. m - 1 \in G
  BY <1>1, <1>2
<1> QED
  BY <1>1, <1>2, <1>3

(* The two passes count alike. *)
Agree(a, t, tr, i) ==
  /\ DOMAIN t[i] = TallyFields /\ {"errors", "inserted", "starts"} \subseteq DOMAIN a[i]
  /\ t[i].errors = a[i].errors /\ t[i].inserted = a[i].inserted /\ t[i].starts = a[i].starts
  /\ t[i].errors = Cardinality(Among(tr, {"error"}, i))

LEMMA PassesAgree ==
  ASSUME NEW tr \in Seq(TraceRecord), NEW cycles, NEW res, NEW a, Pass(a, tr, cycles, res),
         NEW t, TallyPass(t, tr), NEW i \in 0 .. Len(tr)
  PROVE  Agree(a, t, tr, i)
<1> DEFINE G == {m \in 0 .. Len(tr) : Agree(a, t, tr, m)}
<1>1. Len(tr) \in Nat
  BY LenProperties
<1>2. 0 \in G
  <2>1. a[0].errors = 0 /\ a[0].inserted = 0 /\ a[0].starts = [f \in FactoryIds |-> NoStart]
        /\ {"errors", "inserted", "starts"} \subseteq DOMAIN a[0]
    BY DEF Pass, Empty
  <2>2. t[0].errors = 0 /\ t[0].inserted = 0 /\ t[0].starts = [f \in FactoryIds |-> NoStart]
        /\ DOMAIN t[0] = TallyFields
    BY DEF TallyPass, NoTally, TallyFields
  <2>3. Among(tr, {"error"}, 0) = {} /\ Cardinality({}) = 0
    BY FS_EmptySet DEF Among
  <2>4. Agree(a, t, tr, 0)
    BY <2>1, <2>2, <2>3 DEF Agree
  <2> QED
    BY <1>1, <2>4
<1>3. ASSUME NEW m \in 1 .. Len(tr), m - 1 \in G PROVE m \in G
  <2> DEFINE e == tr[m]
             olda == a[m - 1]
             oldt == t[m - 1]
  <2>1. /\ DOMAIN oldt = TallyFields /\ {"errors", "inserted", "starts"} \subseteq DOMAIN olda
        /\ oldt.errors = olda.errors /\ oldt.inserted = olda.inserted
        /\ oldt.starts = olda.starts
        /\ oldt.errors = Cardinality(Among(tr, {"error"}, m - 1))
    BY <1>3 DEF Agree
  <2>2. a[m] = Absorb(olda, e, cycles, res) /\ t[m] = Tally(oldt, e)
    BY DEF Pass, TallyPass
  <2>3. /\ Cardinality(Among(tr, {"error"}, m)) =
             Cardinality(Among(tr, {"error"}, m - 1)) + (IF e.kind = "error" THEN 1 ELSE 0)
        /\ Cardinality(Among(tr, {"error"}, m - 1)) \in Nat
    <3>1. m \in Nat \ {0}
      BY <1>1
    <3>2. IsFiniteSet(Among(tr, {"error"}, m - 1))
      BY <3>1, AmongNext
    <3>3. Cardinality(Among(tr, {"error"}, m - 1)) \in Nat
      BY <3>2, FS_CardinalityType
    <3> QED
      BY <3>1, <3>3, AmongNext
  <2> HIDE DEF e, olda, oldt
  <2>4. /\ {"errors", "inserted", "starts"} \subseteq DOMAIN a[m]
        /\ a[m].errors = IF e.kind = "error" THEN olda.errors + 1 ELSE olda.errors
        /\ a[m].inserted = IF e.kind = "fixup" THEN olda.inserted + 1 ELSE olda.inserted
        /\ e.kind = "started" => a[m].starts = [olda.starts EXCEPT ![e.id] = e.cycle]
        /\ e.kind \in Ends => a[m].starts = IF olda.starts[e.id] # NoStart
                                              THEN [olda.starts EXCEPT ![e.id] = NoStart]
                                              ELSE olda.starts
        /\ e.kind \notin Ends \cup {"started"} => a[m].starts = olda.starts
    <3>1. Noted(a[m], olda, e)
      BY <2>1, <2>2, AbsorbOf
    <3> QED
      BY <3>1 DEF Noted
  <2>5. /\ DOMAIN t[m] = TallyFields
        /\ t[m].errors = IF e.kind = "error" THEN oldt.errors + 1 ELSE oldt.errors
        /\ t[m].inserted = IF e.kind = "fixup" THEN oldt.inserted + 1 ELSE oldt.inserted
        /\ e.kind = "started" => t[m].starts = [oldt.starts EXCEPT ![e.id] = e.cycle]
        /\ e.kind \in Ends /\ oldt.starts[e.id] # NoStart =>
             t[m].starts = [oldt.starts EXCEPT ![e.id] = NoStart]
        /\ e.kind \in Ends /\ oldt.starts[e.id] = NoStart => t[m].starts = oldt.starts
        /\ e.kind \notin Ends \cup {"started"} => t[m].starts = oldt.starts
    <3>1. Tallied(t[m], oldt, e)
      BY <2>1, <2>2, TallyOf
    <3> QED
      BY <3>1 DEF Tallied
  <2>6. t[m].starts = a[m].starts
    BY <2>1, <2>4, <2>5
  <2>7. t[m].errors = a[m].errors /\ t[m].inserted = a[m].inserted
    BY <2>1, <2>4, <2>5
  <2>8. t[m].errors = Cardinality(Among(tr, {"error"}, m))
    BY <2>1, <2>3, <2>5
  <2> QED
    BY <1>1, <2>4, <2>5, <2>6, <2>7, <2>8 DEF Agree
<1>4. G \in SUBSET (0 .. Len(tr))
  OBVIOUS
<1> HIDE DEF G
<1>5. G = 0 .. Len(tr)
  BY <1>1, <1>2, <1>3, <1>4, IndexInduction
<1>6. i \in G
  BY <1>5
<1> QED
  BY <1>6 DEF G

-----------------------------------------------------------------------------
(* The waits that a summary adds up. *)

WaitOf(list) == [k \in DOMAIN list |-> list[k].wait]

LEMMA WaitAdded ==
  ASSUME NEW list \in Seq(StallEntry), NEW y \in StallEntry
  PROVE  /\ SumOf(WaitOf(list), DOMAIN list) \in Int
         /\ SumOf(WaitOf(Append(list, y)), DOMAIN Append(list, y))
              = SumOf(WaitOf(list), DOMAIN list) + y.wait
         /\ \A k \in DOMAIN Append(list, y) :
              \/ Append(list, y)[k].wait = y.wait
              \/ k \in DOMAIN list /\ Append(list, y)[k].wait = list[k].wait
<1> DEFINE n == Len(list)
           new == Append(list, y)
           S == DOMAIN list
           g == WaitOf(list)
           h == WaitOf(new)
<1>1. /\ n \in Nat /\ S = 1 .. n /\ DOMAIN new = 1 .. n + 1
      /\ \A k \in 1 .. n : new[k] = list[k]
      /\ new[n + 1] = y
  BY AppendProperties, LenProperties
<1>2. DOMAIN new = S \cup {n + 1} /\ n + 1 \notin S
  BY <1>1
<1>3. IsFiniteSet(S)
  BY <1>1, FS_Interval
<1>4. \A k \in S : list[k].wait \in Nat
  <2>1. TAKE k \in S
  <2>2. list[k] \in StallEntry
    BY <1>1, ElementOfSeq
  <2> QED
    BY <2>2 DEF StallEntry
<1>5. y.wait \in Nat
  BY DEF StallEntry
<1>6. \A k \in S : g[k] \in Int /\ h[k] = g[k]
  BY <1>1, <1>2, <1>4 DEF WaitOf
<1>7. h[n + 1] = y.wait
  BY <1>1, <1>2 DEF WaitOf
<1> HIDE DEF n, new, S, g, h
<1>8. SumOf(h, S \cup {n + 1}) = SumOf(h, S) + h[n + 1]
  <2>1. \A x \in S \cup {n + 1} : h[x] \in Int
    BY <1>5, <1>6, <1>7
  <2> QED
    BY <1>2, <1>3, <2>1, SumAdds
<1>9. SumOf(h, S) = SumOf(g, S) /\ SumOf(g, S) \in Int
  BY <1>3, <1>6, SumsAgree, SumType
<1>10. \A k \in DOMAIN new : new[k].wait = y.wait \/ (k \in S /\ new[k].wait = list[k].wait)
  BY <1>1, <1>2
<1>11. SumOf(h, DOMAIN new) = SumOf(g, S) + y.wait
  BY <1>2, <1>7, <1>8, <1>9
<1> QED
  BY <1>9, <1>10, <1>11 DEF new, S, g, h

(* What the summary tells of the stalls that the profile lists. *)
WaitsTold(a, t, i) ==
  /\ DOMAIN t[i] = TallyFields
  /\ t[i].stalls = Len(a[i].stalls)
  /\ t[i].waited = SumOf(WaitOf(a[i].stalls), DOMAIN a[i].stalls)
  /\ t[i].longest \in Nat
  /\ \A k \in DOMAIN a[i].stalls : a[i].stalls[k].wait <= t[i].longest

LEMMA WaitsFollowed ==
  ASSUME NEW tr \in Seq(TraceRecord), NEW cycles, NEW res, NEW a, Pass(a, tr, cycles, res),
         NEW t, TallyPass(t, tr), NEW i \in 0 .. Len(tr)
  PROVE  WaitsTold(a, t, i)
<1> DEFINE G == {m \in 0 .. Len(tr) : WaitsTold(a, t, m)}
<1>1. Len(tr) \in Nat
  BY LenProperties
<1>2. 0 \in G
  <2> DEFINE list == a[0].stalls
  <2>1. list = <<>>
    BY DEF Pass, Empty
  <2>2. t[0].stalls = 0 /\ t[0].waited = 0 /\ t[0].longest = 0 /\ DOMAIN t[0] = TallyFields
    BY DEF TallyPass, NoTally, TallyFields
  <2>3. DOMAIN list = {} /\ Len(list) = 0
    BY <2>1
  <2> HIDE DEF list
  <2>4. SumOf(WaitOf(list), DOMAIN list) = 0
    <3> DEFINE S == DOMAIN list
               g == WaitOf(list)
    <3>1. IsFiniteSet(S) /\ \A x \in S : g[x] = 0
      BY <2>3, FS_EmptySet
    <3> HIDE DEF S, g
    <3>2. SumOf(g, S) = 0
      BY <3>1, SumZero
    <3> QED
      BY <3>2 DEF S, g
  <2> QED
    BY <1>1, <2>2, <2>3, <2>4 DEF WaitsTold, list
<1>3. ASSUME NEW m \in 1 .. Len(tr), m - 1 \in G PROVE m \in G
  <2> DEFINE e == tr[m]
             old == t[m - 1]
             list == a[m - 1].stalls
             more == a[m].stalls
  <2>1. /\ DOMAIN old = TallyFields /\ old.stalls = Len(list)
        /\ old.waited = SumOf(WaitOf(list), DOMAIN list) /\ old.longest \in Nat
        /\ \A k \in DOMAIN list : list[k].wait <= old.longest
    BY <1>3 DEF WaitsTold
  <2>2. e \in TraceRecord /\ m - 1 \in 0 .. Len(tr)
    BY <1>1, ElementOfSeq
  <2>3. ListsUpto(a, tr, m - 1)
    BY <2>2, ListedOnce
  <2>4. "stalls" \in DOMAIN a[m - 1] /\ list \in Seq(StallEntry)
    BY <2>3 DEF ListsUpto
  <2>5. /\ IsStall(e) => more = Append(list, Entry(e))
        /\ ~IsStall(e) => more = list
    <3>1. a[m] = Absorb(a[m - 1], e, cycles, res)
      BY DEF Pass
    <3> QED
      BY <2>4, <3>1, AbsorbStalls
  <2>6. t[m] = Tally(old, e)
    BY DEF TallyPass
  <2>7. Entry(e) \in StallEntry /\ Entry(e).wait = e.n /\ e.n \in Nat
    BY <2>2 DEF Entry, TraceRecord, StallEntry
  <2> HIDE DEF e, old, list, more
  <2>8. /\ DOMAIN t[m] = TallyFields
        /\ IsStall(e) => /\ t[m].stalls = old.stalls + 1 /\ t[m].waited = old.waited + e.n
                         /\ t[m].longest = IF old.longest > e.n THEN old.longest ELSE e.n
        /\ ~IsStall(e) => /\ t[m].stalls = old.stalls /\ t[m].waited = old.waited
                          /\ t[m].longest = old.longest
    <3>1. Tallied(t[m], old, e)
      BY <2>1, <2>6, TallyOf
    <3> QED
      BY <3>1 DEF Tallied
  <2>9. CASE ~IsStall(e)
    <3>1. WaitsTold(a, t, m)
      BY <2>1, <2>5, <2>8, <2>9 DEF WaitsTold, more
    <3> QED
      BY <1>1, <3>1
  <2>10. CASE IsStall(e)
    <3>1. Len(more) = Len(list) + 1
      BY <2>4, <2>5, <2>7, <2>10, AppendElements
    <3>2. /\ SumOf(WaitOf(more), DOMAIN more) = SumOf(WaitOf(list), DOMAIN list) + e.n
          /\ \A k \in DOMAIN more :
               more[k].wait = e.n \/ (k \in DOMAIN list /\ more[k].wait = list[k].wait)
      <4> DEFINE y == Entry(e)
      <4>1. y \in StallEntry /\ y.wait = e.n /\ more = Append(list, y)
        BY <2>5, <2>7, <2>10
      <4> HIDE DEF y
      <4> QED
        BY <2>4, <4>1, WaitAdded
    <3>3. /\ t[m].longest \in Nat /\ t[m].longest >= e.n /\ t[m].longest >= old.longest
      BY <2>1, <2>7, <2>8, <2>10
    <3>4. ASSUME NEW k \in DOMAIN more PROVE more[k].wait <= t[m].longest
      <4>1. CASE more[k].wait = e.n
        BY <3>3, <4>1
      <4>2. CASE k \in DOMAIN list /\ more[k].wait = list[k].wait
        <5>1. list[k].wait <= old.longest
          BY <2>1, <4>2
        <5>2. list[k].wait \in Nat
          <6>1. k \in 1 .. Len(list)
            BY <2>4, <4>2, LenProperties
          <6>2. list[k] \in StallEntry
            BY <2>4, <6>1, ElementOfSeq
          <6> QED
            BY <6>2 DEF StallEntry
        <5> QED
          BY <2>1, <3>3, <4>2, <5>1, <5>2
      <4> QED
        BY <3>2, <4>1, <4>2
    <3>5. t[m].stalls = Len(more) /\ t[m].waited = SumOf(WaitOf(more), DOMAIN more)
      BY <2>1, <2>8, <2>10, <3>1, <3>2
    <3>6. WaitsTold(a, t, m)
      BY <2>8, <3>3, <3>4, <3>5 DEF WaitsTold, more
    <3> QED
      BY <1>1, <3>6
  <2> QED
    BY <2>9, <2>10
<1>4. G \in SUBSET (0 .. Len(tr))
  OBVIOUS
<1> HIDE DEF G
<1>5. G = 0 .. Len(tr)
  BY <1>1, <1>2, <1>3, <1>4, IndexInduction
<1>6. i \in G
  BY <1>5
<1> QED
  BY <1>6 DEF G

-----------------------------------------------------------------------------
(* The cycles that a summary counts as active. *)

Spent == [s \in Attempts |-> EndsAt(s) - trace[s].cycle]

(* The attempts that end in the first i records. *)
EndedBy(cl, i) == {cl[e] : e \in {d \in EndAt(trace) : d <= i}}

LEMMA CycleType ==
  ASSUME trace \in Seq(TraceRecord), NEW i \in DOMAIN trace
  PROVE  trace[i].cycle \in Nat /\ i \in 1 .. Len(trace) /\ i \in Nat
<1>1. i \in 1 .. Len(trace) /\ i \in Nat
  BY LenProperties
<1>2. trace[i] \in TraceRecord
  BY <1>1, ElementOfSeq
<1> QED
  BY <1>1, <1>2 DEF TraceRecord

LEMMA ActiveChange ==
  ASSUME Alternating(trace), Ordered(trace), now \in Nat, NEW cl, Closes(cl, trace),
         NEW res \in Nat, NEW a, Pass(a, trace, now, res), NEW t, TallyPass(t, trace),
         NEW m \in 1 .. Len(trace)
  PROVE  /\ m \in EndAt(trace) =>
              t[m].active = t[m - 1].active + (trace[m].cycle - trace[cl[m]].cycle)
         /\ m \notin EndAt(trace) => t[m].active = t[m - 1].active
<1> DEFINE e == trace[m]
           old == t[m - 1]
<1>1. /\ trace \in Seq(TraceRecord) /\ m \in DOMAIN trace /\ m \in Nat
      /\ m - 1 \in 0 .. Len(trace) /\ m \in EndAt(trace) <=> e.kind \in Ends
  <2>1. trace \in Seq(TraceRecord) /\ Len(trace) \in Nat /\ DOMAIN trace = 1 .. Len(trace)
    BY LenProperties DEF Alternating
  <2> QED
    BY <2>1 DEF EndAt, KindsAt
<1>2. Agree(a, t, trace, m - 1)
  BY <1>1, PassesAgree
<1>3. DOMAIN old = TallyFields /\ old.starts = a[m - 1].starts
  BY <1>2 DEF Agree
<1>4. t[m] = Tally(old, e)
  BY DEF TallyPass
<1> HIDE DEF old, e
<1>5. Tallied(t[m], old, e)
  BY <1>3, <1>4, TallyOf
<1>6. CASE m \notin EndAt(trace)
  <2>1. e.kind \notin Ends
    BY <1>1, <1>6
  <2>2. t[m].active = old.active
    BY <1>5, <2>1 DEF Tallied
  <2> QED
    BY <1>6, <2>2 DEF old
<1>7. CASE m \in EndAt(trace)
  <2> DEFINE s == cl[m]
  <2>1. Open(trace, s, m - 1) /\ trace[s].id = e.id /\ trace[s].cycle \in Nat
    <3>1. Open(trace, s, m - 1)
      BY <1>1, <1>7, OpenNext
    <3>2. s \in StartAt(trace) /\ trace[s].id = e.id
      BY <1>7 DEF Closes, e
    <3>3. trace[s].cycle \in Nat
      BY <1>1, <3>2, CycleType DEF StartAt, KindsAt
    <3> QED
      BY <3>1, <3>2, <3>3
  <2> HIDE DEF s
  <2>2. ActiveUpto(a, trace, cl, now, res, m - 1)
    BY <1>1, ActiveFollowed
  <2>3. a[m - 1].starts[trace[s].id] = trace[s].cycle
    BY <2>1, <2>2 DEF ActiveUpto, StartsUpto
  <2>4. old.starts[e.id] = trace[s].cycle /\ old.starts[e.id] # NoStart
    BY <1>3, <2>1, <2>3, NoStartAssumption
  <2>5. t[m].active = old.active + (e.cycle - trace[s].cycle)
    BY <1>1, <1>5, <1>7, <2>4 DEF Tallied
  <2> QED
    BY <1>7, <2>5 DEF old, e, s
<1> QED
  BY <1>6, <1>7

LEMMA ActiveAdded ==
  ASSUME Alternating(trace), Ordered(trace), now \in Nat, NEW cl, Closes(cl, trace),
         NEW res \in Nat, NEW a, Pass(a, trace, now, res), NEW t, TallyPass(t, trace),
         NEW i \in 0 .. Len(trace)
  PROVE  t[i].active = SumOf(Spent, EndedBy(cl, i))
<1> DEFINE n == Len(trace)
           A == StartAt(trace)
           E == EndAt(trace)
           G == {m \in 0 .. n : t[m].active = SumOf(Spent, EndedBy(cl, m))}
<1>1. /\ trace \in Seq(TraceRecord) /\ n \in Nat /\ DOMAIN trace = 1 .. n /\ Attempts = A
      /\ A \subseteq 1 .. n /\ E \subseteq 1 .. n
  BY LenProperties DEF Alternating, StartAt, EndAt, KindsAt, Attempts
<1>2. \A e \in E : cl[e] \in A /\ EndsAt(cl[e]) = trace[e].cycle
  BY AttemptEnds DEF Closes
<1>3. \A d, e \in E : cl[d] = cl[e] => d = e
  BY AttemptEnds
<1>4. \A e \in E : /\ Spent[cl[e]] = trace[e].cycle - trace[cl[e]].cycle
                   /\ Spent[cl[e]] \in Int
  <2>1. TAKE e \in E
  <2>2. trace[e].cycle \in Nat /\ trace[cl[e]].cycle \in Nat
    <3>1. e \in DOMAIN trace /\ cl[e] \in DOMAIN trace
      BY <1>1, <1>2
    <3> QED
      BY <1>1, <3>1, CycleType
  <2>3. Spent[cl[e]] = EndsAt(cl[e]) - trace[cl[e]].cycle
    BY <1>1, <1>2 DEF Spent
  <2> QED
    BY <1>2, <2>2, <2>3
<1>5. \A m : EndedBy(cl, m) \subseteq 1 .. n /\ \A x \in EndedBy(cl, m) : Spent[x] \in Int
  BY <1>1, <1>2, <1>4 DEF EndedBy
<1>6. \A m : IsFiniteSet(EndedBy(cl, m))
  <2>1. IsFiniteSet(1 .. n)
    BY <1>1, FS_Interval
  <2> QED
    BY <1>5, <2>1, FS_Subset
<1>7. 0 \in G
  <2> DEFINE S == EndedBy(cl, 0)
  <2>1. S = {}
    BY <1>1 DEF EndedBy
  <2> HIDE DEF S
  <2>2. IsFiniteSet(S) /\ \A x \in S : Spent[x] = 0
    BY <2>1, FS_EmptySet
  <2>3. SumOf(Spent, S) = 0
    BY <2>2, SumZero
  <2>4. t[0].active = 0
    BY DEF TallyPass, NoTally
  <2> QED
    BY <1>1, <2>3, <2>4 DEF S
<1>8. ASSUME NEW m \in 1 .. n, m - 1 \in G PROVE m \in G
  <2> DEFINE S == EndedBy(cl, m - 1)
  <2>1. t[m - 1].active = SumOf(Spent, S)
    BY <1>8
  <2>2. m \in Nat /\ \A d \in E : d <= m <=> d <= m - 1 \/ d = m
    BY <1>1
  <2>3. CASE m \notin E
    <3>1. EndedBy(cl, m) = S
      BY <2>2, <2>3 DEF EndedBy
    <3>2. t[m].active = t[m - 1].active
      BY <2>3, ActiveChange
    <3> HIDE DEF S
    <3>3. t[m].active = SumOf(Spent, EndedBy(cl, m))
      BY <2>1, <3>1, <3>2
    <3> QED
      BY <1>1, <3>3
  <2>4. CASE m \in E
    <3> DEFINE y == cl[m]
    <3>1. EndedBy(cl, m) = S \cup {y}
      BY <2>2, <2>4 DEF EndedBy
    <3>2. y \notin S
      <4> SUFFICES ASSUME y \in S PROVE FALSE
        OBVIOUS
      <4>1. PICK d \in E : d <= m - 1 /\ cl[d] = y
        BY DEF EndedBy
      <4>2. d = m
        BY <1>3, <2>4, <4>1
      <4> QED
        BY <2>2, <4>1, <4>2
    <3>3. t[m].active = t[m - 1].active + Spent[y]
      BY <1>4, <2>4, ActiveChange
    <3>4. IsFiniteSet(S) /\ \A x \in S \cup {y} : Spent[x] \in Int
      BY <1>4, <1>5, <1>6, <2>4
    <3> HIDE DEF S, y
    <3>5. SumOf(Spent, S \cup {y}) = SumOf(Spent, S) + Spent[y]
      BY <3>2, <3>4, SumAdds
    <3>6. t[m].active = SumOf(Spent, EndedBy(cl, m))
      BY <2>1, <3>1, <3>3, <3>5
    <3> QED
      BY <1>1, <3>6
  <2> QED
    BY <2>3, <2>4
<1>9. G \in SUBSET (0 .. n)
  OBVIOUS
<1> HIDE DEF G, n
<1>10. G = 0 .. n
  BY <1>1, <1>7, <1>8, <1>9, IndexInduction
<1>11. i \in G
  BY <1>10 DEF n
<1> QED
  BY <1>11 DEF G

(* No factory has been active for longer than up to its last end. *)
Limits(last, t, i) ==
  /\ last \in [FactoryIds -> Nat]
  /\ t[i].active \in Int /\ t[i].active <= SumOf(last, FactoryIds)
  /\ \A f \in FactoryIds : last[f] <= now /\ \A j \in DOMAIN trace : j > i => last[f] <= trace[j].cycle
  /\ \A s : Open(trace, s, i) => last[trace[s].id] <= trace[s].cycle

LEMMA ActiveLimited ==
  ASSUME Alternating(trace), Ascending(trace), now \in Nat, NEW cl, Closes(cl, trace),
         NEW res \in Nat, NEW a, Pass(a, trace, now, res), NEW t, TallyPass(t, trace),
         NEW i \in 0 .. Len(trace)
  PROVE  \E last : Limits(last, t, i)
<1> DEFINE n == Len(trace)
           A == StartAt(trace)
           E == EndAt(trace)
           G == {m \in 0 .. n : \E last : Limits(last, t, m)}
<1>0. Ordered(trace) /\ \A j \in DOMAIN trace : trace[j].cycle <= now
  BY DEF Ascending, Ordered
<1>1. /\ trace \in Seq(TraceRecord) /\ n \in Nat /\ DOMAIN trace = 1 .. n
      /\ A \subseteq 1 .. n /\ E \subseteq 1 .. n /\ A \cap E = {}
      /\ \A s \in A \cup E : trace[s].id \in FactoryIds
  BY LenProperties DEF Alternating, StartAt, EndAt, KindsAt, Ends
<1>2. \A j \in DOMAIN trace : trace[j].cycle \in Nat
  BY <1>1, CycleType
<1>3. IsFiniteSet(FactoryIds)
  BY FactoriesNumber
<1>4. 0 \in G
  <2> DEFINE last == [f \in FactoryIds |-> 0]
  <2>1. last \in [FactoryIds -> Nat] /\ \A f \in FactoryIds : last[f] = 0
    OBVIOUS
  <2> HIDE DEF last
  <2>2. SumOf(last, FactoryIds) = 0
    BY <1>3, <2>1, SumZero
  <2>3. t[0].active = 0
    BY DEF TallyPass, NoTally
  <2>4. \A s : ~Open(trace, s, 0)
    BY <1>1 DEF Open
  <2>5. \A f \in FactoryIds : /\ last[f] <= now
                              /\ \A j \in DOMAIN trace : j > 0 => last[f] <= trace[j].cycle
    BY <1>2, <2>1
  <2>6. Limits(last, t, 0)
    BY <2>1, <2>2, <2>3, <2>4, <2>5 DEF Limits
  <2> QED
    BY <1>1, <2>6
<1>5. ASSUME NEW m \in 1 .. n, m - 1 \in G PROVE m \in G
  <2> DEFINE e == trace[m]
             f == e.id
  <2>1. PICK last : Limits(last, t, m - 1)
    BY <1>5
  <2>2. /\ last \in [FactoryIds -> Nat]
        /\ t[m - 1].active \in Int /\ t[m - 1].active <= SumOf(last, FactoryIds)
        /\ \A g \in FactoryIds :
             last[g] <= now /\ \A j \in DOMAIN trace : j > m - 1 => last[g] <= trace[j].cycle
        /\ \A s : Open(trace, s, m - 1) => last[trace[s].id] <= trace[s].cycle
    BY <2>1 DEF Limits
  <2>3. m \in Nat /\ m \in DOMAIN trace /\ e.cycle \in Nat /\ e.cycle <= now
    BY <1>0, <1>1, <1>2
  <2>4. \A g \in FactoryIds :
           last[g] <= now /\ \A j \in DOMAIN trace : j > m => last[g] <= trace[j].cycle
    <3>1. \A j \in DOMAIN trace : j > m => j > m - 1
      BY <1>1, <2>3
    <3> QED
      BY <2>2, <3>1
  <2>5. /\ m \in A =>
              /\ Open(trace, m, m)
              /\ \A s : s # m =>
                   (Open(trace, s, m) <=> Open(trace, s, m - 1) /\ trace[s].id # trace[m].id)
        /\ m \in E =>
              /\ Open(trace, cl[m], m - 1)
              /\ \A s : Open(trace, s, m) <=> Open(trace, s, m - 1) /\ trace[s].id # trace[m].id
        /\ m \notin A \cup E => \A s : Open(trace, s, m) <=> Open(trace, s, m - 1)
    BY <2>3, OpenNext
  <2>6. CASE m \notin E
    <3>1. t[m].active = t[m - 1].active
      BY <1>0, <2>6, ActiveChange
    <3>2. ASSUME NEW s, Open(trace, s, m) PROVE last[trace[s].id] <= trace[s].cycle
      <4>1. CASE Open(trace, s, m - 1)
        BY <2>2, <4>1
      <4>2. CASE ~Open(trace, s, m - 1)
        <5>1. s = m /\ m \in A
          BY <2>5, <2>6, <3>2, <4>2
        <5>2. f \in FactoryIds
          BY <1>1, <5>1
        <5>3. m > m - 1
          BY <2>3
        <5>4. last[f] <= e.cycle
          BY <2>2, <2>3, <5>2, <5>3
        <5> QED
          BY <5>1, <5>4
      <4> QED
        BY <4>1, <4>2
    <3>3. Limits(last, t, m)
      BY <2>2, <2>4, <3>1, <3>2 DEF Limits
    <3> QED
      BY <1>1, <3>3
  <2>7. CASE m \in E
    <3> DEFINE s0 == cl[m]
               from == trace[s0].cycle
               next == [last EXCEPT ![f] = e.cycle]
               d == e.cycle - last[f]
               sum == SumOf(last, FactoryIds)
    <3>1. f \in FactoryIds
      BY <1>1, <2>7
    <3>2. trace[s0].id = f /\ from \in Nat /\ last[f] <= from
      <4>1. s0 \in A /\ trace[s0].id = f
        BY <2>7 DEF Closes
      <4>2. from \in Nat
        BY <1>1, <1>2, <4>1
      <4> QED
        BY <2>2, <2>5, <2>7, <4>1, <4>2
    <3>3. t[m].active = t[m - 1].active + (e.cycle - from)
      BY <1>0, <2>7, ActiveChange
    <3>4. last[f] \in Nat /\ d \in Int /\ sum \in Int
      <4>1. last[f] \in Nat /\ \A g \in FactoryIds : last[g] \in Int
        BY <2>2, <3>1
      <4> QED
        BY <1>3, <2>3, <4>1, SumType
    <3>5. next \in [FactoryIds -> Nat]
          /\ \A g \in FactoryIds : next[g] = IF g = f THEN e.cycle ELSE last[g]
      BY <2>2, <2>3, <3>1
    <3>6. SumOf(next, FactoryIds) = sum + d
      <4>1. \A g \in FactoryIds : last[g] \in Int
        BY <2>2
      <4>2. \A g \in FactoryIds : next[g] = IF g = f THEN last[g] + d ELSE last[g]
        BY <2>3, <3>4, <3>5
      <4> HIDE DEF next, d, e, f
      <4>3. SumOf(next, FactoryIds) = sum + (IF f \in FactoryIds THEN d ELSE 0)
        BY <1>3, <3>4, <4>1, <4>2, SumChange
      <4> QED
        BY <3>1, <4>3
    <3>7. t[m].active \in Int /\ t[m].active <= SumOf(next, FactoryIds)
      <4> DEFINE new == t[m].active
                 old == t[m - 1].active
                 x == e.cycle
                 y == last[f]
      <4>1. new = old + (x - from) /\ old \in Int /\ old <= sum /\ x \in Nat /\ from \in Nat
            /\ y \in Nat /\ y <= from /\ sum \in Int
        BY <2>2, <2>3, <3>2, <3>3, <3>4
      <4>2. SumOf(next, FactoryIds) = sum + (x - y)
        BY <3>6
      <4> HIDE DEF new, old, x, y, from, sum, next
      <4>3. new \in Int /\ new <= SumOf(next, FactoryIds)
        BY <4>1, <4>2
      <4> QED
        BY <4>3 DEF new
    <3>8. ASSUME NEW g \in FactoryIds
          PROVE  next[g] <= now /\ \A j \in DOMAIN trace : j > m => next[g] <= trace[j].cycle
      <4>1. CASE g = f
        <5>1. \A j \in DOMAIN trace : j > m => e.cycle <= trace[j].cycle
          <6>1. \A j \in DOMAIN trace : j > m => m <= j
            BY <1>1, <2>3
          <6> QED
            BY <1>0, <2>3, <6>1 DEF Ordered
        <5> QED
          BY <2>3, <3>5, <4>1, <5>1
      <4>2. CASE g # f
        BY <2>4, <3>5, <4>2
      <4> QED
        BY <4>1, <4>2
    <3>9. ASSUME NEW s, Open(trace, s, m) PROVE next[trace[s].id] <= trace[s].cycle
      <4>1. Open(trace, s, m - 1) /\ trace[s].id # f
        BY <2>5, <2>7, <3>9
      <4>2. trace[s].id \in FactoryIds
        BY <1>1, <4>1 DEF Open
      <4> QED
        BY <2>2, <3>5, <4>1, <4>2
    <3>10. Limits(next, t, m)
      BY <3>5, <3>7, <3>8, <3>9 DEF Limits
    <3> QED
      BY <1>1, <3>10
  <2> QED
    BY <2>6, <2>7
<1>6. G \in SUBSET (0 .. n)
  OBVIOUS
<1> HIDE DEF G, n
<1>7. G = 0 .. n
  BY <1>1, <1>4, <1>5, <1>6, IndexInduction
<1>8. i \in G
  BY <1>7 DEF n
<1> QED
  BY <1>8 DEF G

-----------------------------------------------------------------------------
(* Sums as the properties write them. *)

(* it is the function whose value at S the sum of g over S is. *)
Iterates(it, g, S) ==
  it = [s \in SUBSET S |-> IF s = {} THEN 0 ELSE g[Pick(s)] + it[s \ {Pick(s)}]]

LEMMA IterateSums ==
  ASSUME NEW S, IsFiniteSet(S), NEW g, \A x \in S : g[x] \in Int
  PROVE  /\ \E it : Iterates(it, g, S)
         /\ \A it : Iterates(it, g, S) => it[S] = SumOf(g, S)
<1>1. PICK h : Sums(h, g, S) /\ SumOf(g, S) = h[S]
  BY SumExists
<1>2. Iterates(h, g, S)
  <2>1. \A s \in SUBSET S : h[s] = IF s = {} THEN 0 ELSE g[Pick(s)] + h[s \ {Pick(s)}]
    BY <1>1 DEF Sums
  <2>2. h = [s \in SUBSET S |-> h[s]]
    BY <1>1 DEF Sums
  <2> QED
    BY <2>1, <2>2 DEF Iterates
<1>3. ASSUME NEW it, Iterates(it, g, S) PROVE it[S] = SumOf(g, S)
  <2> DEFINE G == {s \in SUBSET S : it[s] = h[s]}
  <2>1. \A s \in SUBSET S : it[s] = IF s = {} THEN 0 ELSE g[Pick(s)] + it[s \ {Pick(s)}]
    BY <1>3 DEF Iterates
  <2>2. {} \in G
    BY <1>1, <2>1 DEF Sums
  <2>3. \A s \in SUBSET S : s # {} /\ s \ {Pick(s)} \in G => s \in G
    BY <1>1, <2>1 DEF Sums
  <2>4. G \in SUBSET (SUBSET S)
    OBVIOUS
  <2> HIDE DEF G
  <2>5. G = SUBSET S
    BY <2>2, <2>3, <2>4, PickInduction
  <2> QED
    BY <1>1, <2>5 DEF G
<1> QED
  BY <1>2, <1>3

LEMMA WaitSum ==
  ASSUME NEW list \in Seq(StallEntry)
  PROVE  MapThenSumSet(LAMBDA i : list[i].wait, DOMAIN list) = SumOf(WaitOf(list), DOMAIN list)
<1> DEFINE S == DOMAIN list
           g == WaitOf(list)
           IsIter(it) == it = [s \in SUBSET S |->
                                 IF s = {} THEN 0 ELSE list[Pick(s)].wait + it[s \ {Pick(s)}]]
           iter == CHOOSE it : IsIter(it)
<1>1. MapThenSumSet(LAMBDA i : list[i].wait, S) = iter[S]
  BY DEF MapThenSumSet, MapThenFoldSet, Pick
<1>2. IsFiniteSet(S) /\ \A x \in S : g[x] \in Int
  <2>1. S = 1 .. Len(list) /\ Len(list) \in Nat
    BY LenProperties
  <2>2. ASSUME NEW x \in S PROVE g[x] \in Int
    <3>1. list[x] \in StallEntry
      BY <2>1, ElementOfSeq
    <3> QED
      BY <3>1 DEF WaitOf, StallEntry
  <2> QED
    BY <2>1, <2>2, FS_Interval
<1>3. \A s \in SUBSET S : s # {} => g[Pick(s)] = list[Pick(s)].wait
  BY PickIn DEF WaitOf
<1> HIDE DEF S, g, iter
<1>4. ASSUME NEW it PROVE IsIter(it) <=> Iterates(it, g, S)
  BY <1>3 DEF Iterates
<1>5. \E it : IsIter(it)
  <2>1. PICK it : Iterates(it, g, S)
    BY <1>2, IterateSums
  <2> QED
    BY <1>4, <2>1
<1>6. IsIter(iter)
  <2> HIDE DEF IsIter
  <2> QED
    BY <1>5 DEF iter
<1>7. iter[S] = SumOf(g, S)
  BY <1>2, <1>4, <1>6, IterateSums
<1> QED
  BY <1>1, <1>7 DEF S, g

LEMMA SpentSum ==
  ASSUME NEW S \in SUBSET Attempts, IsFiniteSet(S), \A x \in S : Spent[x] \in Int
  PROVE  MapThenSumSet(LAMBDA i : EndsAt(i) - trace[i].cycle, S) = SumOf(Spent, S)
<1> DEFINE IsIter(it) == it = [s \in SUBSET S |->
                                 IF s = {} THEN 0
                                 ELSE (EndsAt(Pick(s)) - trace[Pick(s)].cycle) + it[s \ {Pick(s)}]]
           iter == CHOOSE it : IsIter(it)
<1>1. MapThenSumSet(LAMBDA i : EndsAt(i) - trace[i].cycle, S) = iter[S]
  BY DEF MapThenSumSet, MapThenFoldSet, Pick
<1>3. \A s \in SUBSET S : s # {} => Spent[Pick(s)] = EndsAt(Pick(s)) - trace[Pick(s)].cycle
  BY PickIn DEF Spent
<1> HIDE DEF iter
<1>4. ASSUME NEW it PROVE IsIter(it) <=> Iterates(it, Spent, S)
  BY <1>3 DEF Iterates
<1>5. \E it : IsIter(it)
  <2>1. PICK it : Iterates(it, Spent, S)
    BY IterateSums
  <2> QED
    BY <1>4, <2>1
<1>6. IsIter(iter)
  <2> HIDE DEF IsIter
  <2> QED
    BY <1>5 DEF iter
<1>7. iter[S] = SumOf(Spent, S)
  BY <1>4, <1>6, IterateSums
<1> QED
  BY <1>1, <1>7

-----------------------------------------------------------------------------
(* The errors of a trace. *)

(* Each error has injected one fixup. *)
Repaired ==
  /\ trace \in Seq(TraceRecord)
  /\ Cardinality(KindsAt(trace, {"error"})) = Len(fixups)

LEMMA RepairedInit == TracedInit => Repaired
<1> SUFFICES ASSUME TracedInit PROVE Repaired
  OBVIOUS
<1>1. trace \in Seq(TraceRecord) /\ \A i \in DOMAIN trace : trace[i].kind = "started"
  BY FirstRecords
<1>2. KindsAt(trace, {"error"}) = {}
  BY <1>1 DEF KindsAt
<1>3. Cardinality({}) = 0 /\ fixups = <<>>
  BY FS_EmptySet DEF TracedInit, Init
<1> QED
  BY <1>1, <1>2, <1>3 DEF Repaired

(* The completion of an operation is one record. *)
LEMMA CompletionRecord ==
  ASSUME TypeOK, NEW k \in Known
  PROVE  \E e \in TraceRecord :
           /\ Completion(k) = <<e>> /\ e.id = k /\ e.cycle = now
           /\ e.kind = IF k \in Ops THEN "completed" ELSE "fixup_completed"
<1>1. KindOf(k) = "fixup" <=> k \notin Ops
  <2>1. CASE k \in Ops
    <3>1. input.kind[k] \in Kinds
      BY <2>1 DEF TypeOK, Input
    <3> QED
      BY <2>1, <3>1 DEF KindOf, Kinds
  <2>2. CASE k \notin Ops
    BY <2>2 DEF KindOf
  <2> QED
    BY <2>1, <2>2
<1> DEFINE kind == IF k \in Ops THEN "completed" ELSE "fixup_completed"
           e == Rec(kind, k, 0)
<1>2. Completion(k) = <<e>>
  BY <1>1 DEF Completion
<1>3. kind \in TraceKinds /\ k \in Nat
  BY NumbersOf DEF TraceKinds
<1>4. e \in TraceRecord
  <2> HIDE DEF kind
  <2> QED
    BY <1>3, RecType
<1>5. e.id = k /\ e.cycle = now /\ e.kind = kind
  BY DEF Rec
<1> QED
  BY <1>2, <1>4, <1>5

PlainKinds == TraceKinds \ {"error", "fixup", "fixup_completed"}

(* The steps that complete no operation record neither errors nor fixups. *)
LEMMA PlainRecords ==
  ASSUME TypeOK, TypeOK', InTime, SinceBounded, trace \in Seq(TraceRecord),
         [TracedNext]_tracedVars, ~TracedInjection, ~TracedCompletion
  PROVE  \E rs \in Seq(RecordOf(PlainKinds)) : trace' = trace \o rs
<1> DEFINE K == PlainKinds
<1>0. /\ K \subseteq TraceKinds
      /\ {"started", "produced", "failed", "enqueue", "full", "stalled", "routed"} \subseteq K
      /\ ServiceKinds \subseteq K
  BY DEF PlainKinds, TraceKinds, ServiceKinds
<1> HIDE DEF K
<1>1. CASE TracedProduced
  <2> DEFINE f == Head(events).id
             x == Rec("produced", f, 0)
             y == IF occupancy < Capacity THEN Rec("enqueue", f, occupancy')
                                          ELSE Rec("full", f, 0)
             z == Rec("started", f, 0)
  <2>1. trace' = trace \o <<x, y, z>>
    BY <1>1 DEF TracedProduced, Record
  <2>2. f \in Nat /\ occupancy' \in Nat
    <3>1. f \in FactoryIds
      BY <1>1, HeadEvent DEF TracedProduced, FactoryProduced
    <3>2. occupancy' \in Nat
      BY DEF TypeOK
    <3> QED
      BY <3>1, <3>2, NumbersOf
  <2> HIDE DEF f
  <2>3. x \in RecordOf(K) /\ y \in RecordOf(K) /\ z \in RecordOf(K)
    BY <1>0, <2>2, RecIsOf
  <2> HIDE DEF x, y, z
  <2>4. <<x, y, z>> \in Seq(RecordOf(K))
    BY <2>3
  <2> QED
    BY <2>1, <2>4 DEF K
<1>2. CASE TracedFailed
  <2> DEFINE f == Head(events).id
             x == Rec("failed", f, 0)
             y == Rec("started", f, 0)
  <2>1. trace' = trace \o <<x, y>>
    BY <1>2 DEF TracedFailed, Record
  <2>2. f \in Nat
    BY <1>2, HeadEvent, NumbersOf DEF TracedFailed, FactoryFailed
  <2> HIDE DEF f
  <2>3. x \in RecordOf(K) /\ y \in RecordOf(K)
    BY <1>0, <2>2, RecIsOf
  <2> HIDE DEF x, y
  <2>4. <<x, y>> \in Seq(RecordOf(K))
    BY <2>3
  <2> QED
    BY <2>1, <2>4 DEF K
<1>3. CASE TracedStallReady
  <2> DEFINE x == Rec("stalled", Head(ready), 0)
  <2>1. trace' = trace \o <<x>>
    BY <1>3 DEF TracedStallReady, Record
  <2>2. Head(ready) \in Nat
    BY <1>3, HeadTailProperties, NumbersOf DEF TracedStallReady, StallReady, TypeOK
  <2>3. x \in RecordOf(K)
    BY <1>0, <2>2, RecIsOf
  <2> HIDE DEF x
  <2>4. <<x>> \in Seq(RecordOf(K))
    BY <2>3
  <2> QED
    BY <2>1, <2>4 DEF K
<1>4. CASE TracedScheduleReady
  <2>1. trace' = trace \o Routing(Head(ready))
    BY <1>4 DEF TracedScheduleReady, Record
  <2>2. Head(ready) \in Known
    BY <1>4, HeadTailProperties DEF TracedScheduleReady, ScheduleReady, TypeOK
  <2>3. Routing(Head(ready)) \in Seq(RecordOf(K))
    BY <1>0, <2>2, RoutingOf
  <2> QED
    BY <2>1, <2>3 DEF K
<1>5. ASSUME NEW gate \in Known, NEW wait \in Nat, trace' = trace \o Service(gate, wait)
      PROVE  \E rs \in Seq(RecordOf(K)) : trace' = trace \o rs
  <2> DEFINE rs == Service(gate, wait)
  <2>1. rs \in Seq(RecordOf(ServiceKinds))
    BY ServiceOf
  <2> HIDE DEF rs
  <2>2. rs \in Seq(RecordOf(K))
    BY <1>0, <2>1, RecordsWiden
  <2> QED
    BY <1>5, <2>2 DEF rs
<1>6. CASE TracedServeReady
  <2> DEFINE wait == 0
  <2>1. Head(ready) \in Known
    BY <1>6, ServedGate
  <2>2. wait \in Nat /\ trace' = trace \o Service(Head(ready), wait)
    BY <1>6 DEF TracedServeReady, Record
  <2> HIDE DEF wait
  <2> QED
    BY <1>5, <2>1, <2>2 DEF K
<1>7. CASE TracedServeStalled
  <2> DEFINE wait == now - Head(stalled).since
  <2>1. Head(stalled).gate \in Known
    BY <1>7, ServedGate
  <2>2. trace' = trace \o Service(Head(stalled).gate, wait)
    BY <1>7 DEF TracedServeStalled, Record
  <2>3. wait \in Nat
    <3>1. stalled # <<>>
      BY <1>7 DEF TracedServeStalled, ServeStalled
    <3>2. /\ Head(stalled) \in [gate : Known, since : Nat] /\ Head(stalled) = stalled[1]
          /\ 1 \in DOMAIN stalled
      BY <3>1, StalledTail
    <3>3. Head(stalled).since \in Nat /\ Head(stalled).since <= now /\ now \in Nat
      BY <3>2 DEF SinceBounded, TypeOK
    <3> QED
      BY <3>3
  <2> HIDE DEF wait
  <2> QED
    BY <1>5, <2>1, <2>2, <2>3 DEF K
<1>8. CASE UNCHANGED trace
  <2>1. trace \o <<>> = trace
    BY ConcatEmptySeq
  <2>2. <<>> \in Seq(RecordOf(K))
    OBVIOUS
  <2> QED
    BY <1>8, <2>1, <2>2 DEF K
<1> QED
  BY <1>1, <1>2, <1>3, <1>4, <1>6, <1>7, <1>8 DEF TracedNext, tracedVars

(* Only an injection adds a fixup. *)
LEMMA FixupsStay ==
  ASSUME [TracedNext]_tracedVars, ~TracedInjection
  PROVE  fixups' = fixups /\ input' = input
<1>1. TracedProduced \/ TracedFailed => fixups' = fixups /\ input' = input
  BY DEF TracedProduced, TracedFailed, FactoryProduced, FactoryFailed, dagVars
<1>2. TracedCompletion => fixups' = fixups /\ input' = input
  <2>1. GateCompleted => fixups' = fixups /\ input' = input
    BY DEF GateCompleted
  <2>2. MeasuredDeferred => fixups' = fixups /\ input' = input
    BY DEF MeasuredDeferred
  <2>3. MeasuredInstant => fixups' = fixups /\ input' = input
    BY DEF MeasuredInstant
  <2> QED
    BY <2>1, <2>2, <2>3 DEF TracedCompletion
<1>3. TracedServeStalled \/ TracedServeReady => fixups' = fixups /\ input' = input
  BY DEF TracedServeStalled, TracedServeReady, ServeStalled, ServeReady, dagVars
<1>4. TracedStallReady \/ TracedScheduleReady => fixups' = fixups /\ input' = input
  BY DEF TracedStallReady, TracedScheduleReady, StallReady, ScheduleReady, dagVars
<1>5. HookActivation => fixups' = fixups /\ input' = input
  BY DEF HookActivation
<1>6. Finish \/ Truncate \/ BeginStep => fixups' = fixups /\ input' = input
  BY DEF Finish, Truncate, BeginStep, dagVars
<1>7. EndEvents \/ EndServe \/ EndStep => fixups' = fixups /\ input' = input
  BY DEF EndEvents, EndServe, EndStep, dagVars
<1>8. Returned \/ UNCHANGED vars => fixups' = fixups /\ input' = input
  BY DEF Returned, vars, dagVars
<1>9. UNCHANGED tracedVars => UNCHANGED vars
  BY DEF tracedVars
<1> QED
  BY <1>1, <1>2, <1>3, <1>4, <1>5, <1>6, <1>7, <1>8, <1>9 DEF TracedNext

LEMMA RepairedStep ==
  ASSUME TypeOK, TypeOK', InTime, SinceBounded, Repaired, [TracedNext]_tracedVars
  PROVE  Repaired'
<1>1. CASE TracedInjection
  <2> DEFINE gate == Head(events).id
             x == Rec("error", gate, 0)
             y == Rec("fixup", FixupKey(Len(fixups')), 0)
             c == Completion(gate)
             rs == c \o <<x, y>>
             L == {"completed", "fixup_completed"}
  <2>1. trace' = trace \o rs
    BY <1>1 DEF TracedInjection, Record
  <2>2. gate \in Known /\ Len(fixups') = Len(fixups) + 1
    <3>1. fixups \in Seq(Ops) /\ fixups' \in Seq(Ops) /\ fixups' = Append(fixups, gate)
      BY <1>1 DEF TypeOK, TracedInjection, InjectionError
    <3>2. Len(fixups') = Len(fixups) + 1
      <4>1. fixups \in Seq(Ops \cup {gate})
        BY <3>1
      <4> HIDE DEF gate
      <4> QED
        BY <3>1, <4>1, AppendProperties
    <3> QED
      BY <1>1, <3>2, HeadEvent DEF TracedInjection, InjectionError
  <2>3. gate \in Nat /\ FixupKey(Len(fixups')) \in Nat
    <3>1. fixups' \in Seq(Ops)
      BY DEF TypeOK
    <3>2. Len(fixups') \in Nat
      BY <3>1, LenProperties
    <3> QED
      BY <2>2, <3>2, NumbersOf
  <2>4. c \in Seq(RecordOf(L))
    <3>1. /\ Rec("fixup_completed", gate, 0) \in RecordOf(L)
          /\ Rec("completed", gate, 0) \in RecordOf(L)
      BY <2>3, RecIsOf DEF TraceKinds
    <3> HIDE DEF gate, L
    <3> QED
      BY <3>1 DEF Completion
  <2>5. /\ x \in TraceRecord /\ y \in TraceRecord /\ x.kind = "error" /\ y.kind = "fixup"
    <3>1. x \in TraceRecord /\ y \in TraceRecord
      BY <2>3, RecType DEF TraceKinds
    <3> QED
      BY <3>1 DEF Rec
  <2>6. c \in Seq(TraceRecord) /\ KindsAt(c, {"error"}) = {}
    <3> HIDE DEF c
    <3>1. c \in Seq(TraceRecord) /\ \A i \in DOMAIN c : c[i].kind \in L
      BY <2>4, RecordsOf
    <3> QED
      BY <3>1 DEF KindsAt
  <2> HIDE DEF c, x, y
  <2> DEFINE xy == <<x, y>>
  <2>7. xy \in Seq(TraceRecord) /\ KindsAt(xy, {"error"}) = {1}
    <3>1. xy \in Seq(TraceRecord) /\ DOMAIN xy = 1 .. 2 /\ xy[1] = x /\ xy[2] = y
      BY <2>5
    <3> HIDE DEF xy
    <3>2. \A i \in DOMAIN xy : i = 1 \/ i = 2
      BY <3>1
    <3> QED
      BY <2>5, <3>1, <3>2 DEF KindsAt
  <2>8. rs = c \o xy
    OBVIOUS
  <2> HIDE DEF xy, rs
  <2>9. rs \in Seq(TraceRecord) /\ KindsAt(rs, {"error"}) = {Len(c) + 1}
    <3>1. KindsAt(c \o xy, {"error"})
            = KindsAt(c, {"error"}) \cup {Len(c) + i : i \in KindsAt(xy, {"error"})}
      BY <2>6, <2>7, KindsGrow
    <3>2. KindsAt(rs, {"error"}) = {Len(c) + 1}
      BY <2>6, <2>7, <2>8, <3>1
    <3> QED
      BY <2>6, <2>7, <2>8, <3>2, ConcatProperties
  <2>10. KindsAt(trace', {"error"}) = KindsAt(trace, {"error"}) \cup {Len(trace) + (Len(c) + 1)}
    <3>1. trace \in Seq(TraceRecord)
      BY DEF Repaired
    <3>2. KindsAt(trace \o rs, {"error"})
            = KindsAt(trace, {"error"}) \cup {Len(trace) + i : i \in KindsAt(rs, {"error"})}
      BY <2>9, <3>1, KindsGrow
    <3> QED
      BY <2>1, <2>9, <3>2
  <2>11. /\ KindsAt(trace, {"error"}) \subseteq 1 .. Len(trace) /\ Len(trace) \in Nat
         /\ IsFiniteSet(KindsAt(trace, {"error"})) /\ Len(c) \in Nat
    BY <2>6, KindsFinite, LenProperties DEF Repaired
  <2>12. Cardinality(KindsAt(trace', {"error"})) = Cardinality(KindsAt(trace, {"error"})) + 1
    <3>1. Len(trace) + (Len(c) + 1) \notin KindsAt(trace, {"error"})
      BY <2>11
    <3> QED
      BY <2>10, <2>11, <3>1, FS_AddElement
  <2>13. trace' \in Seq(TraceRecord)
    BY <2>1, <2>9, ConcatProperties DEF Repaired
  <2> QED
    BY <2>2, <2>12, <2>13 DEF Repaired
<1>2. CASE ~TracedInjection
  <2>1. PICK rs \in Seq(TraceRecord) :
          trace' = trace \o rs /\ \A i \in DOMAIN rs : rs[i].kind # "error"
    <3>1. CASE TracedCompletion
      <4> DEFINE k == Head(events).id
      <4>1. k \in Known /\ trace' = trace \o Completion(k)
        BY <3>1, HeadEvent
           DEF TracedCompletion, Record, GateCompleted, MeasuredDeferred, MeasuredInstant
      <4> HIDE DEF k
      <4>2. PICK e \in TraceRecord :
              Completion(k) = <<e>> /\ e.kind \in {"completed", "fixup_completed"}
        BY <4>1, CompletionRecord
      <4>3. <<e>> \in Seq(TraceRecord) /\ \A i \in DOMAIN <<e>> : <<e>>[i] = e
        OBVIOUS
      <4>4. \A i \in DOMAIN <<e>> : <<e>>[i].kind # "error"
        BY <4>2, <4>3
      <4>5. trace' = trace \o <<e>>
        BY <4>1, <4>2
      <4> QED
        BY <4>3, <4>4, <4>5
    <3>2. CASE ~TracedCompletion
      <4>1. PICK rs \in Seq(RecordOf(PlainKinds)) : trace' = trace \o rs
        BY <1>2, <3>2, PlainRecords DEF Repaired
      <4>2. rs \in Seq(TraceRecord) /\ \A i \in DOMAIN rs : rs[i].kind \in PlainKinds
        BY RecordsOf
      <4> QED
        BY <4>1, <4>2 DEF PlainKinds
    <3> QED
      BY <3>1, <3>2
  <2>2. rs \in Seq(TraceRecord)
    OBVIOUS
  <2>3. KindsAt(rs, {"error"}) = {}
    BY <2>1 DEF KindsAt
  <2>4. trace' \in Seq(TraceRecord) /\ KindsAt(trace', {"error"}) = KindsAt(trace, {"error"})
    <3>1. trace \in Seq(TraceRecord)
      BY DEF Repaired
    <3>2. KindsAt(trace \o rs, {"error"})
            = KindsAt(trace, {"error"}) \cup {Len(trace) + i : i \in KindsAt(rs, {"error"})}
      BY <2>2, <3>1, KindsGrow
    <3> QED
      BY <2>1, <2>2, <2>3, <3>1, <3>2, ConcatProperties
  <2>5. fixups' = fixups
    BY <1>2, FixupsStay
  <2> QED
    BY <2>4, <2>5 DEF Repaired
<1> QED
  BY <1>1, <1>2

LEMMA AlwaysRepaired == TracedSpec => []Repaired
<1>1. TracedSpec => Spec
  BY TracedIsEngine, PTL DEF TracedSpec, Spec
<1>2. TypeOK /\ TypeOK' /\ InTime /\ SinceBounded /\ Repaired /\ [TracedNext]_tracedVars
        => Repaired'
  BY RepairedStep
<1> QED
  BY <1>1, <1>2, RepairedInit, TypeCorrect, AlwaysInTime, AlwaysSinceBounded, PTL DEF TracedSpec

-----------------------------------------------------------------------------
LEMMA AmongAll ==
  ASSUME NEW tr \in Seq(TraceRecord), NEW K
  PROVE  Among(tr, K, Len(tr)) = KindsAt(tr, K)
BY LenProperties DEF Among, KindsAt

(* The attempts that have ended are those that no longer run. *)
LEMMA EndedNotRunning ==
  ASSUME Alternating(trace), NEW cl, Closes(cl, trace)
  PROVE  EndedBy(cl, Len(trace)) = {i \in Attempts : ~Running(i)}
<1> DEFINE n == Len(trace)
           A == StartAt(trace)
           E == EndAt(trace)
           Z == {i \in Attempts : ~Running(i)}
<1>1. /\ n \in Nat /\ DOMAIN trace = 1 .. n /\ Attempts = A /\ A \cap E = {}
      /\ A \subseteq 1 .. n /\ E \subseteq 1 .. n
  BY LenProperties DEF Alternating, StartAt, EndAt, KindsAt, Attempts, Ends
<1>2. ASSUME NEW s \in A PROVE Open(trace, s, n) <=> Running(s)
  <2>1. Running(s) <=> \A e \in E : ~(e > s /\ trace[e].id = trace[s].id)
    BY <1>1 DEF Running, EndAt, KindsAt, Ends
  <2>2. Open(trace, s, n) <=> \A e \in E : trace[e].id = trace[s].id => e < s \/ e > n
    BY <1>1 DEF Open
  <2>3. \A e \in E : e < s \/ e > n <=> ~(e > s)
    <3>1. TAKE e \in E
    <3>2. e \in Nat /\ s \in Nat /\ e <= n /\ e # s
      BY <1>1
    <3> QED
      BY <1>1, <3>2
  <2> QED
    BY <2>1, <2>2, <2>3
<1>3. /\ \A e \in E : cl[e] \in A /\ ~Open(trace, cl[e], n) /\ e <= n
      /\ \A s \in A : Open(trace, s, n) \/ \E e \in E : cl[e] = s
  BY <1>1, AttemptEnds DEF Closes
<1>4. EndedBy(cl, n) = {cl[e] : e \in E}
  BY <1>3 DEF EndedBy
<1> HIDE DEF A, E, n
<1>5. {cl[e] : e \in E} = Z
  BY <1>1, <1>2, <1>3
<1> QED
  BY <1>4, <1>5 DEF n

LEMMA RunsReduced == TypeOK /\ Runs /\ Repaired => ReductionsAgree
<1> DEFINE n == Len(trace)
<1> SUFFICES ASSUME TypeOK, Runs, Repaired, NEW res \in Resolutions
             PROVE  LET profile == ProfileOf(res)
                        stalls == profile.stalls
                        summary == SummaryOf
                    IN  /\ summary.stalls = Len(stalls)
                        /\ summary.waited = MapThenSumSet(LAMBDA i : stalls[i].wait, DOMAIN stalls)
                        /\ \A i \in DOMAIN stalls : stalls[i].wait <= summary.longest
                        /\ summary.errors = profile.errors /\ summary.inserted = profile.inserted
                        /\ summary.errors = Len(fixups)
                        /\ summary.active = MapThenSumSet(LAMBDA i : EndsAt(i) - trace[i].cycle,
                                                          {i \in Attempts : ~Running(i)})
                        /\ summary.active <= NumFactories * now
  BY DEF ReductionsAgree
<1>1. /\ trace \in Seq(TraceRecord) /\ now \in Nat /\ Alternating(trace) /\ Ascending(trace)
      /\ Ordered(trace) /\ res \in Nat /\ n \in 0 .. Len(trace)
  BY ResolutionsAssumption, LenProperties DEF Runs, Alternating, Ascending, Ordered, TypeOK
<1>2. PICK a : Pass(a, trace, now, res) /\ Folded(trace, now, res) = a[n]
  BY <1>1, PassExists
<1>3. PICK t : TallyPass(t, trace) /\ Summary(trace, FactoryIds) = t[n]
  BY <1>1, TallyExists
<1>4. PICK cl : Closes(cl, trace)
  BY <1>1, ClosesExists
<1> DEFINE list == ProfileOf(res).stalls
           S == {i \in Attempts : ~Running(i)}
<1>5. /\ list = a[n].stalls
      /\ ProfileOf(res).errors = a[n].errors
      /\ ProfileOf(res).inserted = a[n].inserted
  BY <1>2 DEF ProfileOf, Analyze, Folded
<1>6. SummaryOf = t[n]
  BY <1>3 DEF SummaryOf
<1>7. t[n].errors = a[n].errors /\ t[n].inserted = a[n].inserted /\ t[n].errors = Len(fixups)
  <2>1. Agree(a, t, trace, n)
    BY <1>1, <1>2, <1>3, PassesAgree
  <2>2. Among(trace, {"error"}, n) = KindsAt(trace, {"error"})
    BY <1>1, AmongAll
  <2> QED
    BY <2>1, <2>2 DEF Agree, Repaired
<1>8. /\ t[n].stalls = Len(list) /\ t[n].waited = SumOf(WaitOf(list), DOMAIN list)
      /\ \A i \in DOMAIN list : list[i].wait <= t[n].longest
  <2>1. WaitsTold(a, t, n)
    BY <1>1, <1>2, <1>3, WaitsFollowed
  <2> QED
    BY <1>5, <2>1 DEF WaitsTold
<1>9. MapThenSumSet(LAMBDA i : list[i].wait, DOMAIN list) = SumOf(WaitOf(list), DOMAIN list)
  <2>1. ListsUpto(a, trace, n)
    BY <1>1, <1>2, ListedOnce
  <2>2. list \in Seq(StallEntry)
    BY <1>5, <2>1 DEF ListsUpto
  <2> HIDE DEF list
  <2> QED
    BY <2>2, WaitSum
<1>10. t[n].active = SumOf(Spent, S)
  <2>1. t[n].active = SumOf(Spent, EndedBy(cl, n))
    BY <1>1, <1>2, <1>3, <1>4, ActiveAdded
  <2>2. EndedBy(cl, n) = S
    BY <1>1, <1>4, EndedNotRunning
  <2> QED
    BY <2>1, <2>2
<1>11. MapThenSumSet(LAMBDA i : EndsAt(i) - trace[i].cycle, S) = SumOf(Spent, S)
  <2>1. S \in SUBSET Attempts /\ Attempts = StartAt(trace)
    BY DEF Attempts, StartAt, KindsAt
  <2>2. IsFiniteSet(S)
    <3>1. S \in SUBSET StartAt(trace) /\ IsFiniteSet(StartAt(trace))
      BY <1>1, <2>1, KindsFinite DEF StartAt
    <3> QED
      BY <3>1, FS_Subset
  <2>3. ASSUME NEW s \in S PROVE Spent[s] \in Int
    <3>1. S = EndedBy(cl, Len(trace))
      BY <1>1, <1>4, EndedNotRunning
    <3>2. PICK e \in EndAt(trace) : cl[e] = s
      BY <3>1 DEF EndedBy
    <3>3. EndsAt(s) = trace[e].cycle
      BY <1>1, <1>4, <3>2, AttemptEnds
    <3>4. e \in DOMAIN trace /\ s \in DOMAIN trace
      BY DEF EndAt, KindsAt, Attempts
    <3>5. trace[e].cycle \in Nat /\ trace[s].cycle \in Nat
      BY <1>1, <3>4, CycleType
    <3> QED
      BY <3>3, <3>5 DEF Spent
  <2> HIDE DEF S
  <2> QED
    BY <2>1, <2>2, <2>3, SpentSum
<1>12. t[n].active <= NumFactories * now
  <2>1. PICK last : Limits(last, t, n)
    BY <1>1, <1>2, <1>3, <1>4, ActiveLimited
  <2> DEFINE sum == SumOf(last, FactoryIds)
             most == Cardinality(FactoryIds) * now
  <2>2. t[n].active \in Int /\ t[n].active <= sum
    BY <2>1 DEF Limits
  <2>3. \A f \in FactoryIds : last[f] \in Int /\ last[f] <= now
    BY <2>1 DEF Limits
  <2>4. sum <= most
    <3>1. IsFiniteSet(FactoryIds) /\ now \in Int
      BY <1>1, FactoriesNumber
    <3> QED
      BY <2>3, <3>1, SumBounded
  <2>5. sum \in Int
    BY <2>3, FactoriesNumber, SumType
  <2>6. most = NumFactories * now /\ NumFactories \in Nat
    BY FactoriesNumber, SizesAssumption
  <2>7. most \in Int
    BY <1>1, <2>6
  <2> HIDE DEF sum, most
  <2>8. t[n].active <= most
    BY <2>2, <2>4, <2>5, <2>7
  <2> QED
    BY <2>6, <2>8
<1> DEFINE sum == SummaryOf
           waits == MapThenSumSet(LAMBDA i : list[i].wait, DOMAIN list)
           spent == MapThenSumSet(LAMBDA i : EndsAt(i) - trace[i].cycle, S)
<1>13. /\ sum.stalls = Len(list)
       /\ sum.waited = waits
       /\ \A i \in DOMAIN list : list[i].wait <= sum.longest
       /\ sum.errors = ProfileOf(res).errors /\ sum.inserted = ProfileOf(res).inserted
       /\ sum.errors = Len(fixups)
       /\ sum.active = spent
       /\ sum.active <= NumFactories * now
  <2> HIDE DEF list, S, n, sum
  <2>1. sum = t[n]
    BY <1>6 DEF sum
  <2>2. waits = SumOf(WaitOf(list), DOMAIN list) /\ spent = SumOf(Spent, S)
    BY <1>9, <1>11
  <2> HIDE DEF waits, spent
  <2> QED
    BY <1>5, <1>7, <1>8, <1>10, <1>12, <2>1, <2>2
<1> QED
  BY <1>13

(* extract_summary and ProfileAnalyzer::analyze agree on the stalls and    *)
(* errors of every trace, and the active cycles of a summary are those of  *)
(* the finished attempts, within what the factories had.                   *)
THEOREM SummaryAgrees == TracedSpec => []ReductionsAgree
<1>1. TracedSpec => Spec
  BY TracedIsEngine, PTL DEF TracedSpec, Spec
<1> QED
  BY <1>1, AlwaysRuns, AlwaysRepaired, RunsReduced, TypeCorrect, PTL

-----------------------------------------------------------------------------
(* The fixups in a trace. *)

FixKeys == Known \ Ops
InsertionAt == Positions(trace, "fixup")
MendAt == Positions(trace, "fixup_completed")

(* The fixup k was injected in cycle c. *)
InsertedAt(k, c) == \E p \in InsertionAt : trace[p].id = k /\ trace[p].cycle = c

(* A fixup waits in the ready queue only during the step that injected it, *)
(* and is due as many cycles after that as it costs.                       *)
Prompt ==
  {k \in Known : k \in Ops \/ (pc \in {"events", "serve", "ready"} /\ InsertedAt(k, now))}
Timely ==
  {e \in Event : e.type = "gate" /\ e.id \notin Ops =>
                   \E c \in Nat : InsertedAt(e.id, c) /\ e.at = c + TotalGateCost(e.id)}

Scheduling ==
  /\ ready \in Seq(Prompt)
  /\ stalled \in Seq([gate : Ops, since : Nat])
  /\ events \in Seq(Timely)
  /\ \A k \in FixKeys : pending[k] = 0

(* Record d is about a finished fixup, which was injected as many cycles   *)
(* before as it costs.                                                     *)
Mends(d) ==
  /\ trace[d].id \in FixKeys \cap finished
  /\ \E p \in InsertionAt : /\ p < d /\ trace[p].id = trace[d].id
                            /\ trace[p].cycle + TotalGateCost(trace[d].id) = trace[d].cycle

(* Each fixup is injected once, and completes after what it costs. *)
Mending ==
  /\ trace \in Seq(TraceRecord)
  /\ \A p \in InsertionAt : trace[p].id \in FixKeys
  /\ \A p, q \in InsertionAt : trace[p].id = trace[q].id => p = q
  /\ \A d \in MendAt : Mends(d)
  /\ \A k \in FixKeys \cap finished : \E d \in MendAt : trace[d].id = k

LEMMA TypesApart ==
  ASSUME NEW e \in Event
  PROVE  /\ e.at \in Nat
         /\ e.type = "gate" => e \in GateEvent /\ e.id \in Known
BY DEF Event, FactoryEvent, GateEvent, HookEvent

LEMMA MendingInit == TracedInit => Scheduling /\ Mending
<1> SUFFICES ASSUME TracedInit PROVE Scheduling /\ Mending
  OBVIOUS
<1>1. /\ TypeOK /\ trace \in Seq(TraceRecord) /\ InsertionAt = {} /\ MendAt = {}
  BY FirstRecords DEF InsertionAt, MendAt, Positions
<1>2. fixups = <<>> /\ stalled = <<>> /\ finished = {}
  BY DEF TracedInit, Init
<1>3. Known = Ops /\ FixKeys = {}
  BY <1>2, SizesAssumption DEF Known, Ops, FixKeys
<1>4. ready \in Seq(Prompt)
  <2>1. Known \subseteq Prompt
    BY <1>3 DEF Prompt
  <2> QED
    BY <1>1, <2>1, SeqMonotonic DEF TypeOK
<1>5. events \in Seq(Timely)
  <2>1. ASSUME NEW e \in Event PROVE e \in Timely
    <3>1. e.type = "gate" => e.id \in Ops
      BY <1>3, TypesApart
    <3> QED
      BY <3>1 DEF Timely
  <2>2. Event \subseteq Timely
    BY <2>1
  <2> HIDE DEF Timely
  <2> QED
    BY <1>1, <2>2, SeqMonotonic DEF TypeOK
<1> QED
  BY <1>1, <1>2, <1>3, <1>4, <1>5 DEF Scheduling, Mending

(* What the steps record of fixups. *)
RecordsKept ==
  /\ trace' \in Seq(TraceRecord)
  /\ \A i \in DOMAIN trace : i \in DOMAIN trace' /\ trace'[i] = trace[i]

LEMMA KeptBy ==
  ASSUME trace \in Seq(TraceRecord), NEW rs \in Seq(TraceRecord), trace' = trace \o rs
  PROVE  RecordsKept
<1>1. /\ trace' \in Seq(TraceRecord) /\ Len(trace) \in Nat /\ Len(rs) \in Nat
      /\ DOMAIN trace = 1 .. Len(trace) /\ DOMAIN trace' = 1 .. Len(trace) + Len(rs)
      /\ \A i \in DOMAIN trace : trace'[i] = trace[i]
  BY TraceGrows
<1> QED
  BY <1>1 DEF RecordsKept

LEMMA PlainMends ==
  ASSUME TypeOK, TypeOK', InTime, SinceBounded, trace \in Seq(TraceRecord),
         [TracedNext]_tracedVars, ~TracedInjection, ~TracedCompletion
  PROVE  RecordsKept /\ InsertionAt' = InsertionAt /\ MendAt' = MendAt
<1>1. PICK rs \in Seq(RecordOf(PlainKinds)) : trace' = trace \o rs
  BY PlainRecords
<1>2. /\ rs \in Seq(TraceRecord)
      /\ \A i \in DOMAIN rs : rs[i].kind # "fixup" /\ rs[i].kind # "fixup_completed"
  BY RecordsOf DEF PlainKinds
<1> QED
  BY <1>1, <1>2, KeptBy, KindKept DEF InsertionAt, MendAt

LEMMA CompletionMends ==
  ASSUME TypeOK, trace \in Seq(TraceRecord), TracedCompletion
  PROVE  LET k == Head(events).id
         IN  /\ k \in Known /\ RecordsKept /\ InsertionAt' = InsertionAt
             /\ k \in Ops => MendAt' = MendAt
             /\ k \notin Ops => \E q : /\ MendAt' = MendAt \cup {q} /\ q \notin DOMAIN trace
                                       /\ trace'[q].id = k /\ trace'[q].cycle = now
<1> DEFINE k == Head(events).id
<1>1. k \in Known /\ trace' = trace \o Completion(k)
  BY HeadEvent DEF TracedCompletion, Record, GateCompleted, MeasuredDeferred, MeasuredInstant
<1> HIDE DEF k
<1>2. PICK e \in TraceRecord :
        /\ Completion(k) = <<e>> /\ e.id = k /\ e.cycle = now
        /\ e.kind = IF k \in Ops THEN "completed" ELSE "fixup_completed"
  BY <1>1, CompletionRecord
<1> DEFINE rs == <<e>>
<1>3. /\ rs \in Seq(TraceRecord) /\ DOMAIN rs = {1} /\ rs[1] = e
  OBVIOUS
<1> HIDE DEF rs
<1>4. trace' = trace \o rs
  BY <1>1, <1>2 DEF rs
<1>5. InsertionAt' = InsertionAt
  <2>1. \A i \in DOMAIN rs : rs[i].kind # "fixup"
    BY <1>2, <1>3
  <2> QED
    BY <1>3, <1>4, <2>1, KindKept DEF InsertionAt
<1>6. ASSUME k \in Ops PROVE MendAt' = MendAt
  <2>1. \A i \in DOMAIN rs : rs[i].kind # "fixup_completed"
    BY <1>2, <1>3, <1>6
  <2> QED
    BY <1>3, <1>4, <2>1, KindKept DEF MendAt
<1>7. ASSUME k \notin Ops
      PROVE  \E q : /\ MendAt' = MendAt \cup {q} /\ q \notin DOMAIN trace
                    /\ trace'[q].id = k /\ trace'[q].cycle = now
  <2>1. 1 \in DOMAIN rs /\ \A i \in DOMAIN rs : rs[i].kind = "fixup_completed" <=> i = 1
    BY <1>2, <1>3, <1>7
  <2>2. PICK q : OneMore(trace \o rs, trace, "fixup_completed", q, rs[1])
    BY <1>3, <2>1, KindAdded
  <2> QED
    BY <1>2, <1>3, <1>4, <2>2 DEF OneMore, MendAt
<1> QED
  BY <1>1, <1>3, <1>4, <1>5, <1>6, <1>7, KeptBy DEF k

LEMMA InjectionMends ==
  ASSUME TypeOK, TypeOK', trace \in Seq(TraceRecord), TracedInjection
  PROVE  /\ RecordsKept /\ MendAt' = MendAt
         /\ \E q : /\ InsertionAt' = InsertionAt \cup {q} /\ q \notin DOMAIN trace
                   /\ trace'[q].id = FixupKey(Len(fixups')) /\ trace'[q].cycle = now
<1> DEFINE gate == Head(events).id
           fixup == FixupKey(Len(fixups'))
           x == Rec("error", gate, 0)
           y == Rec("fixup", fixup, 0)
<1>1. gate \in Ops
  <2>1. gate \in Known /\ NeedsMagicState(gate)
    BY HeadEvent DEF TracedInjection, InjectionError
  <2> QED
    BY <2>1 DEF NeedsMagicState, KindOf
<1>2. trace' = trace \o (Completion(gate) \o <<x, y>>)
  BY DEF TracedInjection, Record
<1>3. gate \in Known /\ gate \in Nat /\ fixup \in Nat
  <2>1. fixups' \in Seq(Ops)
    BY DEF TypeOK
  <2>2. Len(fixups') \in Nat
    BY <2>1, LenProperties
  <2> QED
    BY <1>1, <2>2, NumbersOf, KnownKeys
<1> HIDE DEF gate, fixup
<1>4. PICK e \in TraceRecord : Completion(gate) = <<e>> /\ e.kind = "completed"
  BY <1>1, <1>3, CompletionRecord
<1>5. /\ x \in TraceRecord /\ x.kind = "error"
      /\ y \in TraceRecord /\ y.kind = "fixup" /\ y.id = fixup /\ y.cycle = now
  <2>1. x \in TraceRecord /\ y \in TraceRecord
    BY <1>3, RecType DEF TraceKinds
  <2> QED
    BY <2>1 DEF Rec
<1> HIDE DEF x, y
<1> DEFINE rs == <<e>> \o <<x, y>>
<1>6. rs \in Seq(TraceRecord) /\ DOMAIN rs = 1 .. 3 /\ rs[1] = e /\ rs[2] = x /\ rs[3] = y
  BY <1>5
<1>7. trace' = trace \o rs
  BY <1>2, <1>4
<1> HIDE DEF rs
<1>8. \A i \in DOMAIN rs : i = 1 \/ i = 2 \/ i = 3
  BY <1>6
<1>9. \A i \in DOMAIN rs : /\ rs[i].kind # "fixup_completed"
                           /\ rs[i].kind = "fixup" <=> i = 3
  BY <1>4, <1>5, <1>6, <1>8
<1>10. PICK q : OneMore(trace \o rs, trace, "fixup", q, rs[3])
  <2>1. 3 \in DOMAIN rs
    BY <1>6
  <2> QED
    BY <1>6, <1>9, <2>1, KindAdded
<1>11. MendAt' = MendAt
  BY <1>6, <1>7, <1>9, KindKept DEF MendAt
<1>12. /\ InsertionAt' = InsertionAt \cup {q} /\ q \notin DOMAIN trace
       /\ trace'[q].id = fixup /\ trace'[q].cycle = now
  BY <1>5, <1>6, <1>7, <1>10 DEF OneMore, InsertionAt
<1> QED
  BY <1>6, <1>7, <1>11, <1>12, KeptBy DEF fixup

(* A step forgets neither an insertion nor what a fixup costs. *)
LEMMA MendsGrow ==
  ASSUME TypeOK, TypeOK', InTime, SinceBounded, trace \in Seq(TraceRecord),
         [TracedNext]_tracedVars
  PROVE  /\ RecordsKept /\ InsertionAt \subseteq InsertionAt' /\ MendAt \subseteq MendAt'
         /\ ~TracedInjection => InsertionAt' = InsertionAt
         /\ \A k, c : InsertedAt(k, c) => InsertedAt(k, c)'
<1>1. /\ RecordsKept /\ InsertionAt \subseteq InsertionAt' /\ MendAt \subseteq MendAt'
      /\ ~TracedInjection => InsertionAt' = InsertionAt
  <2>1. CASE TracedInjection
    BY <2>1, InjectionMends
  <2>2. CASE ~TracedInjection /\ TracedCompletion
    <3> DEFINE k == Head(events).id
    <3>1. /\ RecordsKept /\ InsertionAt' = InsertionAt
          /\ MendAt' = MendAt \/ \E q : MendAt' = MendAt \cup {q}
      BY <2>2, CompletionMends
    <3> QED
      BY <2>2, <3>1
  <2>3. CASE ~TracedInjection /\ ~TracedCompletion
    BY <2>3, PlainMends
  <2> QED
    BY <2>1, <2>2, <2>3
<1>2. ASSUME NEW k, NEW c, InsertedAt(k, c) PROVE InsertedAt(k, c)'
  <2>1. PICK p \in InsertionAt : trace[p].id = k /\ trace[p].cycle = c
    BY <1>2 DEF InsertedAt
  <2>2. p \in DOMAIN trace
    BY DEF InsertionAt, Positions
  <2>3. p \in InsertionAt' /\ trace'[p] = trace[p]
    BY <1>1, <2>2 DEF RecordsKept
  <2> QED
    BY <2>1, <2>3 DEF InsertedAt
<1> QED
  BY <1>1, <1>2

LEMMA InjectedKey ==
  ASSUME TypeOK, TypeOK', TracedInjection
  PROVE  /\ input' = input /\ fixups' = Append(fixups, Head(events).id)
         /\ Len(fixups') = Len(fixups) + 1
         /\ \A i \in DOMAIN fixups : fixups'[i] = fixups[i]
         /\ FixupKey(Len(fixups')) \in FixKeys' \ Known
         /\ FixKeys' = FixKeys \cup {FixupKey(Len(fixups'))}
<1>1. /\ input' = input /\ fixups' = Append(fixups, Head(events).id)
  BY DEF TracedInjection, InjectionError
<1>2. fixups \in Seq(Ops) /\ fixups' \in Seq(Ops) /\ NumOps \in Nat
  BY SizesAssumption DEF TypeOK
<1> DEFINE gate == Head(events).id
<1>3. fixups' = Append(fixups, gate)
  BY <1>1
<1> HIDE DEF gate
<1>4. /\ Len(fixups') = Len(fixups) + 1 /\ Len(fixups) \in Nat
      /\ \A i \in 1 .. Len(fixups) : fixups'[i] = fixups[i]
  <2>1. fixups \in Seq(Ops \cup {gate})
    BY <1>2
  <2> QED
    BY <1>2, <1>3, <2>1, AppendProperties, LenProperties
<1>5. DOMAIN fixups = 1 .. Len(fixups)
  BY <1>2, LenProperties
<1>6. FixKeys = NumOps + 1 .. NumOps + Len(fixups)
      /\ FixKeys' = NumOps + 1 .. NumOps + Len(fixups')
  BY <1>2, <1>4 DEF FixKeys, Known, Ops
<1>7. FixupKey(Len(fixups')) = NumOps + Len(fixups) + 1
      /\ NumOps + Len(fixups) + 1 \notin Known
  BY <1>2, <1>4 DEF FixupKey, Known
<1>8. FixKeys' = FixKeys \cup {NumOps + Len(fixups) + 1}
  BY <1>2, <1>4, <1>6
<1> QED
  BY <1>1, <1>4, <1>5, <1>7, <1>8

LEMMA CostsKept ==
  ASSUME TypeOK, TypeOK', [TracedNext]_tracedVars
  PROVE  /\ input' = input /\ Known \subseteq Known' /\ FixKeys \subseteq FixKeys'
         /\ \A k \in Known : TotalGateCost(k)' = TotalGateCost(k)
         /\ Event \subseteq Event'
         /\ ~TracedInjection => Known' = Known /\ FixKeys' = FixKeys
<1>1. input' = input /\ NumOps \in Nat /\ Len(fixups) \in Nat
      /\ (TracedInjection => Len(fixups') = Len(fixups) + 1)
      /\ (~TracedInjection => fixups' = fixups)
      /\ \A i \in DOMAIN fixups : fixups'[i] = fixups[i]
  BY FixupsStay, InjectedKey, FixupKeys
<1>2. Known \subseteq Known' /\ (~TracedInjection => Known' = Known)
  BY <1>1 DEF Known
<1>3. ASSUME NEW k \in Known PROVE TotalGateCost(k)' = TotalGateCost(k)
  <2>1. QubitsOf(k)' = QubitsOf(k)
    <3>1. CASE k \in Ops
      BY <3>1 DEF QubitsOf
    <3>2. CASE k \notin Ops
      <4>1. k - NumOps \in DOMAIN fixups
        BY <3>2, FixupKeys
      <4> QED
        BY <1>1, <3>2, <4>1 DEF QubitsOf
    <3> QED
      BY <3>1, <3>2
  <2>2. BaseCost(k)' = BaseCost(k)
    BY <1>1 DEF BaseCost, KindOf
  <2> QED
    BY <1>1, <2>1, <2>2 DEF TotalGateCost
<1>4. Event \subseteq Event'
  <2>1. HookedOps' = HookedOps
    BY <1>1 DEF HookedOps
  <2>2. GateEvent \subseteq GateEvent' /\ HookEvent' = HookEvent
    BY <1>2, <2>1 DEF GateEvent, HookEvent
  <2> QED
    BY <2>2 DEF Event
<1> QED
  BY <1>1, <1>2, <1>3, <1>4 DEF FixKeys

LEMMA TimelyGrows ==
  ASSUME TypeOK, TypeOK', InTime, SinceBounded, trace \in Seq(TraceRecord),
         [TracedNext]_tracedVars
  PROVE  Timely \subseteq Timely'
<1> SUFFICES ASSUME NEW e \in Timely PROVE e \in Timely'
  OBVIOUS
<1>1. e \in Event /\ e \in Event'
  BY CostsKept DEF Timely
<1>2. ASSUME e.type = "gate", e.id \notin Ops
      PROVE  \E c \in Nat : InsertedAt(e.id, c)' /\ e.at = c + TotalGateCost(e.id)'
  <2>1. PICK c \in Nat : InsertedAt(e.id, c) /\ e.at = c + TotalGateCost(e.id)
    BY <1>2 DEF Timely
  <2>2. e.id \in Known
    BY <1>1, <1>2, TypesApart
  <2> DEFINE k == e.id
  <2> HIDE DEF k
  <2>3. k \in Known /\ InsertedAt(k, c)
    BY <2>1, <2>2 DEF k
  <2>4. InsertedAt(k, c)' /\ TotalGateCost(k)' = TotalGateCost(k)
    BY <2>3, MendsGrow, CostsKept
  <2> QED
    BY <2>1, <2>4 DEF k
<1> QED
  BY <1>1, <1>2 DEF Timely

(* The events that a step schedules. *)
LEMMA PromptTimely ==
  ASSUME TypeOK, NEW k \in Prompt
  PROVE  k \in Known /\ GateCompletion(k) \in Timely
<1> DEFINE e == GateCompletion(k)
<1>1. k \in Known
  BY DEF Prompt
<1>2. e.at = now + TotalGateCost(k) /\ e.type = "gate" /\ e.id = k
  BY DEF GateCompletion
<1>3. e \in Event
  <2>1. now + TotalGateCost(k) \in Nat
    BY <1>1, CostType DEF TypeOK
  <2> QED
    BY <1>1, <2>1 DEF GateCompletion, Event, GateEvent
<1>4. k \notin Ops => InsertedAt(k, now) /\ now \in Nat
  BY DEF Prompt, TypeOK
<1> HIDE DEF e
<1>5. e \in Timely
  BY <1>2, <1>3, <1>4 DEF Timely
<1> QED
  BY <1>1, <1>5 DEF e

LEMMA OpsPrompt ==
  ASSUME TypeOK
  PROVE  /\ Ops \subseteq Prompt
         /\ \A e \in Event : e.type # "gate" => e \in Timely
BY KnownKeys DEF Prompt, Timely

LEMMA EventsTimely ==
  ASSUME TypeOK, TypeOK', Scheduling, [Next]_vars
  PROVE  events' \in Seq(Timely)
<1>1. events \in Seq(Timely) /\ ready \in Seq(Prompt) /\ stalled \in Seq([gate : Ops, since : Nat])
  BY DEF Scheduling
<1>2. ASSUME events # <<>> PROVE Tail(events) \in Seq(Timely)
  BY <1>1, <1>2, HeadTailProperties
<1>3. CASE FactoryProduced \/ FactoryFailed
  <2>1. PICK t \in {"produced", "failed"} : Due(t) /\ StartFactory(Head(events).id)
    BY <1>3 DEF FactoryProduced, FactoryFailed
  <2>2. PICK draw \in Draws :
          events' = Scheduled(Tail(events), FactoryOutcome(Head(events).id, draw, now))
    BY <2>1 DEF StartFactory
  <2> DEFINE e == FactoryOutcome(Head(events).id, draw, now)
  <2>3. e \in Timely
    <3>1. e \in FactoryEvent
      BY <2>1, HeadEvent, FactoryOutcomeType DEF TypeOK
    <3> HIDE DEF e
    <3>2. e \in Event /\ e.type # "gate"
      BY <3>1 DEF Event, FactoryEvent
    <3> QED
      BY <3>2, OpsPrompt
  <2>4. Tail(events) \in Seq(Timely)
    BY <1>2, <2>1 DEF Due
  <2> HIDE DEF e
  <2>5. Scheduled(Tail(events), e) \in Seq(Timely)
    BY <2>3, <2>4, ScheduledType
  <2> QED
    BY <2>2, <2>5 DEF e
<1>4. CASE InjectionError \/ GateCompleted \/ MeasuredInstant \/ HookActivation
  <2>1. events' = Tail(events) /\ events # <<>>
    BY <1>4 DEF InjectionError, GateCompleted, MeasuredInstant, HookActivation, Due
  <2> QED
    BY <1>2, <2>1
<1>5. CASE MeasuredDeferred
  <2>1. Due("gate") /\ Head(events).id \in HookedOps
    BY <1>5 DEF MeasuredDeferred, HookedOps
  <2>2. PICK o \in Outcomes :
          events' = Scheduled(Tail(events), [at |-> now + input.feedback, type |-> "hook",
                                             id |-> Head(events).id, outcome |-> o])
    BY <1>5 DEF MeasuredDeferred
  <2> DEFINE e == [at |-> now + input.feedback, type |-> "hook",
                   id |-> Head(events).id, outcome |-> o]
  <2>3. e \in Event /\ e.type # "gate"
    <3>1. now + input.feedback \in Nat
      <4>1. now \in Nat /\ input \in Input
        BY DEF TypeOK
      <4>2. input.feedback \in Nat
        BY <4>1 DEF Input
      <4> QED
        BY <4>1, <4>2
    <3>2. e \in HookEvent
      BY <2>1, <3>1 DEF HookEvent
    <3> QED
      BY <3>2 DEF Event
  <2>4. Tail(events) \in Seq(Timely)
    BY <1>2, <2>1 DEF Due
  <2>5. events' = Scheduled(Tail(events), e)
    BY <2>2
  <2> HIDE DEF e
  <2>6. e \in Timely
    BY <2>3, OpsPrompt
  <2> QED
    BY <2>4, <2>5, <2>6, ScheduledType
<1>6. ASSUME NEW k \in Prompt, events' = Scheduled(events, GateCompletion(k))
      PROVE  events' \in Seq(Timely)
  BY <1>1, <1>6, PromptTimely, ScheduledType
<1>7. CASE ServeStalled
  <2>1. /\ stalled # <<>> /\ events' = Scheduled(events, GateCompletion(Head(stalled).gate))
    BY <1>7 DEF ServeStalled, Serve
  <2>2. Head(stalled) \in [gate : Ops, since : Nat]
    BY <1>1, <2>1, HeadTailProperties
  <2>3. Head(stalled).gate \in Prompt
    BY <2>2, OpsPrompt
  <2> QED
    BY <1>6, <2>1, <2>3
<1>8. CASE ServeReady \/ ScheduleReady
  <2>1. /\ ready # <<>> /\ events' = Scheduled(events, GateCompletion(Head(ready)))
    BY <1>8 DEF ServeReady, ScheduleReady, Serve
  <2>2. Head(ready) \in Prompt
    BY <1>1, <2>1, HeadTailProperties
  <2> QED
    BY <1>6, <2>1, <2>2
<1>9. CASE StallReady \/ Elsewhere \/ UNCHANGED vars
  <2>1. events' = events \/ FactoryProduced \/ FactoryFailed
    BY <1>9 DEF StallReady, Elsewhere, Finish, Truncate, BeginStep, EndEvents, EndServe, EndStep,
                Returned, vars
  <2> QED
    BY <1>1, <1>3, <2>1
<1> QED
  BY <1>3, <1>4, <1>5, <1>7, <1>8, <1>9, Steps DEF Issuing

(* The gates that a step makes ready: never a fixup, whose count is 0. *)
LEMMA PushedWithin ==
  ASSUME NEW S, NEW T, S \subseteq T, NEW q \in Seq(S), NEW list \in Seq(T),
         NEW I \in SUBSET DOMAIN list, \A i \in I : list[i] \in S,
         NEW r \in Pushed(q, list, I)
  PROVE  r \in Seq(S)
<1>1. DOMAIN list = 1 .. Len(list) /\ Len(list) \in Nat
  BY LenProperties
<1>2. IsFiniteSet(I) /\ Cardinality(I) \in Nat
  <2>1. IsFiniteSet(1 .. Len(list))
    BY <1>1, FS_Interval
  <2>2. IsFiniteSet(I)
    BY <1>1, <2>1, FS_Subset
  <2> QED
    BY <2>2, FS_CardinalityType
<1>3. PICK f \in InOrder(I) : r = q \o [k \in 1 .. Cardinality(I) |-> list[f[k]]]
  BY DEF Pushed
<1>4. f \in [1 .. Cardinality(I) -> I]
  BY <1>3 DEF InOrder
<1>5. [k \in 1 .. Cardinality(I) |-> list[f[k]]] \in [1 .. Cardinality(I) -> S]
  BY <1>4
<1>6. [k \in 1 .. Cardinality(I) |-> list[f[k]]] \in Seq(S)
  BY <1>2, <1>5
<1> QED
  BY <1>3, <1>6, ConcatProperties

(* No count of a fixup is above 0. *)
NoneWaits(counts) == counts \in [Key -> Nat] /\ \A k \in FixKeys : counts[k] = 0

LEMMA ReleasedPrompt ==
  ASSUME TypeOK, NEW counts, NoneWaits(counts), NEW gate \in Known, NEW act,
         NEW q \in Seq(Prompt), NEW r \in Pushed(q, succs[gate], ReleasedAt(counts, act, succs[gate]))
  PROVE  r \in Seq(Prompt) /\ NoneWaits(ReleasedCounts(counts, succs[gate]))
<1> DEFINE list == succs[gate]
           I == ReleasedAt(counts, act, list)
<1>1. list \in Seq(Known) /\ counts \in [Key -> Nat] /\ Known \subseteq Key /\ FixKeys \subseteq Key
  BY KnownKeys DEF TypeOK, NoneWaits, FixKeys
<1> HIDE DEF list
<1>2. HoldOnce(list, I, Freed(counts, act, list))
  BY <1>1, ReleasedOnce
<1>3. I \in SUBSET DOMAIN list /\ \A i \in I : list[i] \in Freed(counts, act, list)
  BY <1>2 DEF HoldOnce
<1>4. ASSUME NEW i \in I PROVE list[i] \in Prompt
  <2>1. counts[list[i]] > 0
    BY <1>3, <1>4 DEF Freed
  <2>2. list[i] \in Known
    BY <1>1, <1>3, <1>4
  <2>3. list[i] \notin FixKeys
    BY <2>1 DEF NoneWaits
  <2> QED
    BY <2>2, <2>3, OpsPrompt DEF FixKeys
<1>5. r \in Seq(Prompt)
  <2>1. Prompt \subseteq Known
    BY DEF Prompt
  <2>2. r \in Pushed(q, list, I)
    BY DEF list
  <2> HIDE DEF I
  <2> QED
    BY <1>1, <1>3, <1>4, <2>1, <2>2, PushedWithin
<1>6. NoneWaits(ReleasedCounts(counts, list))
  <2>1. ReleasedCounts(counts, list) \in [Key -> Nat]
    BY <1>1, ReleasedCountsType
  <2>2. \A k \in FixKeys : ReleasedCounts(counts, list)[k] = 0
    BY <1>1, ReleasedZero DEF NoneWaits
  <2> QED
    BY <2>1, <2>2 DEF NoneWaits
<1> QED
  BY <1>5, <1>6 DEF list

LEMMA ActivatedPrompt ==
  ASSUME TypeOK, NoneWaits(pending), NEW gate \in HookedOps, NEW o \in Outcomes, NEW done,
         NEW q \in Seq(Prompt),
         NEW r \in Pushed(q, input.targets[input.hook[gate]][o],
                          ActivatedAt(input.targets[input.hook[gate]][o], input.preds, done))
  PROVE  /\ r \in Seq(Prompt)
         /\ NoneWaits(ActivatedCounts(pending, input.targets[input.hook[gate]][o],
                                      input.preds, done))
<1> DEFINE keys == input.targets[input.hook[gate]][o]
           I == ActivatedAt(keys, input.preds, done)
           counts == ActivatedCounts(pending, keys, input.preds, done)
<1>1. keys \in Seq(Ops)
  BY TargetsType
<1>2. r \in Pushed(q, keys, I)
  OBVIOUS
<1> HIDE DEF keys
<1>3. I \in SUBSET DOMAIN keys
  BY DEF ActivatedAt
<1>4. r \in Seq(Prompt)
  <2>1. keys \in Seq(Prompt)
    BY <1>1, OpsPrompt, SeqMonotonic
  <2> HIDE DEF I
  <2> QED
    BY <1>2, <1>3, <2>1, PushedType
<1>5. pending \in [Key -> Nat] /\ FixKeys \subseteq Key
  BY KnownKeys DEF TypeOK, FixKeys
<1>6. counts \in [Key -> Nat]
  BY <1>1, <1>5, ActivatedCountsType DEF TypeOK, Input
<1>7. ASSUME NEW k \in FixKeys PROVE counts[k] = 0
  <2>1. k \notin ToSet(keys)
    BY <1>1, ElementOfSeq, LenProperties DEF ToSet, FixKeys
  <2> QED
    BY <1>5, <2>1 DEF ActivatedCounts, NoneWaits
<1> QED
  BY <1>4, <1>6, <1>7 DEF NoneWaits, keys

LEMMA ReadyPrompt ==
  ASSUME TypeOK, Scheduling, [Next]_vars, ~InjectionError
  PROVE  ready' \in Seq(Prompt) /\ NoneWaits(pending')
<1>1. ready \in Seq(Prompt) /\ NoneWaits(pending)
  BY DEF Scheduling, NoneWaits, TypeOK
<1>2. CASE Elsewhere
  BY <1>1, <1>2 DEF Elsewhere, Finish, Truncate, BeginStep, FactoryProduced, FactoryFailed,
                    EndEvents, EndServe, EndStep, vars, dagVars
<1>3. CASE Issuing
  <2>1. pending' = pending /\ (ready' = ready \/ (ready # <<>> /\ ready' = Tail(ready)))
    BY <1>3 DEF Issuing, ServeStalled, ServeReady, StallReady, ScheduleReady, dagVars
  <2>2. ready # <<>> => Tail(ready) \in Seq(Prompt)
    BY <1>1, HeadTailProperties
  <2> QED
    BY <1>1, <2>1, <2>2
<1>4. CASE GateCompleted \/ MeasuredDeferred
  <2> DEFINE gate == Head(events).id
             list == succs[gate]
  <2>1. gate \in Known
    BY <1>4, HeadEvent DEF GateCompleted, MeasuredDeferred
  <2>2. /\ pending' = ReleasedCounts(pending, list)
        /\ ready' \in Pushed(ready, list, ReleasedAt(pending, active, list))
    BY <1>4 DEF GateCompleted, MeasuredDeferred
  <2> HIDE DEF gate
  <2> QED
    BY <1>1, <2>1, <2>2, ReleasedPrompt
<1>5. CASE MeasuredInstant
  <2> DEFINE gate == Head(events).id
             list == succs[gate]
  <2>1. gate \in Known /\ gate \in HookedOps
    BY <1>5, HeadEvent DEF MeasuredInstant, HookedOps
  <2>2. PICK o \in Outcomes :
          LET keys == input.targets[input.hook[gate]][o]
              counts == ActivatedCounts(pending, keys, input.preds, CompletedSet')
          IN  /\ pending' = ReleasedCounts(counts, list)
              /\ \E q \in Pushed(ready, keys,
                                 ActivatedAt(keys, input.preds, CompletedSet')) :
                   ready' \in Pushed(q, list, ReleasedAt(counts, active', list))
    BY <1>5 DEF MeasuredInstant
  <2> DEFINE keys == input.targets[input.hook[gate]][o]
             counts == ActivatedCounts(pending, keys, input.preds, CompletedSet')
  <2>3. PICK q \in Pushed(ready, keys, ActivatedAt(keys, input.preds, CompletedSet')) :
          ready' \in Pushed(q, list, ReleasedAt(counts, active', list))
    BY <2>2
  <2> HIDE DEF gate
  <2>4. q \in Seq(Prompt) /\ NoneWaits(counts)
    BY <1>1, <2>1, <2>3, ActivatedPrompt
  <2>5. pending' = ReleasedCounts(counts, list)
    BY <2>2
  <2> HIDE DEF counts, keys
  <2> QED
    BY <2>1, <2>3, <2>4, <2>5, ReleasedPrompt
<1>6. CASE HookActivation
  <2> DEFINE gate == Head(events).id
             o == Head(events).outcome
             keys == input.targets[input.hook[gate]][o]
  <2>1. gate \in HookedOps /\ o \in Outcomes
    BY <1>6, HeadEvent DEF HookActivation
  <2>2. /\ pending' = ActivatedCounts(pending, keys, input.preds, CompletedSet)
        /\ ready' \in Pushed(ready, keys, ActivatedAt(keys, input.preds, CompletedSet))
    BY <1>6 DEF HookActivation
  <2> HIDE DEF gate, o
  <2> QED
    BY <1>1, <2>1, <2>2, ActivatedPrompt
<1> QED
  BY <1>2, <1>3, <1>4, <1>5, <1>6, Steps

(* The clock stands while a step is under way. *)
LEMMA PromptGrows ==
  ASSUME TypeOK, TypeOK', InTime, SinceBounded, trace \in Seq(TraceRecord),
         [TracedNext]_tracedVars, ~EndStep
  PROVE  Prompt \subseteq Prompt'
<1> DEFINE Under == pc \in {"events", "serve", "ready"}
<1>1. [Next]_vars
  BY TracedIsEngine
<1>2. Under => Under' /\ now' = now
  BY <1>1 DEF Next, Finish, Truncate, BeginStep, FactoryProduced, FactoryFailed, InjectionError,
              GateCompleted, MeasuredDeferred, MeasuredInstant, HookActivation, EndEvents,
              ServeStalled, EndServe, ServeReady, StallReady, ScheduleReady, Returned, vars
<1>3. Known \subseteq Known'
  BY CostsKept
<1>4. \A k : InsertedAt(k, now) => InsertedAt(k, now)'
                                   \/ now' # now
  <2>1. ASSUME NEW k, InsertedAt(k, now), now' = now PROVE InsertedAt(k, now)'
    <3>1. ASSUME NEW c, InsertedAt(k, c) PROVE InsertedAt(k, c)'
      BY <3>1, MendsGrow
    <3>2. PICK p \in InsertionAt : trace[p].id = k /\ trace[p].cycle = now
      BY <2>1 DEF InsertedAt
    <3>3. PICK c : c = now
      OBVIOUS
    <3>4. InsertedAt(k, c)
      BY <3>2, <3>3 DEF InsertedAt
    <3>5. InsertedAt(k, c)'
      BY <3>1, <3>4
    <3> QED
      BY <2>1, <3>3, <3>5 DEF InsertedAt
  <2> QED
    BY <2>1
<1> QED
  BY <1>2, <1>3, <1>4 DEF Prompt

LEMMA StalledOps ==
  ASSUME TypeOK, Scheduling, [Next]_vars
  PROVE  stalled' \in Seq([gate : Ops, since : Nat])
<1> DEFINE S == [gate : Ops, since : Nat]
<1> SUFFICES stalled' \in Seq(S)
  OBVIOUS
<1>1. stalled \in Seq(S)
  BY DEF Scheduling
<1>2. CASE stalled' = stalled
  BY <1>1, <1>2
<1>3. CASE ServeStalled
  <2>1. stalled # <<>> /\ stalled' = Tail(stalled)
    BY <1>3 DEF ServeStalled
  <2> HIDE DEF S
  <2> QED
    BY <1>1, <2>1, HeadTailProperties
<1>4. CASE StallReady
  <2> DEFINE e == [gate |-> Head(ready), since |-> now]
  <2>1. /\ ready # <<>> /\ stalled' = Append(stalled, e) /\ NeedsMagicState(Head(ready))
    BY <1>4 DEF StallReady
  <2>2. Head(ready) \in Ops
    BY <2>1 DEF NeedsMagicState, KindOf
  <2>3. e \in S
    BY <2>2 DEF TypeOK
  <2> HIDE DEF e, S
  <2> QED
    BY <1>1, <2>1, <2>3, AppendProperties
<1> QED
  BY <1>2, <1>3, <1>4 DEF Next, Finish, Truncate, BeginStep, FactoryProduced, FactoryFailed,
       InjectionError, GateCompleted, MeasuredDeferred, MeasuredInstant, HookActivation,
       EndEvents, EndServe, ServeReady, ScheduleReady, EndStep, Returned, vars

LEMMA NoOtherInjection ==
  ASSUME TypeOK, TypeOK', [TracedNext]_tracedVars, InjectionError
  PROVE  TracedInjection
<1> SUFFICES ASSUME ~TracedInjection PROVE FALSE
  OBVIOUS
<1>1. fixups' = fixups
  BY FixupsStay
<1> DEFINE gate == Head(events).id
<1>2. fixups' = Append(fixups, gate) /\ gate \in Known /\ NeedsMagicState(gate)
  BY HeadEvent DEF InjectionError
<1>3. gate \in Ops /\ fixups \in Seq(Ops)
  BY <1>2 DEF NeedsMagicState, KindOf, TypeOK
<1> HIDE DEF gate
<1>4. Len(Append(fixups, gate)) = Len(fixups) + 1 /\ Len(fixups) \in Nat
  BY <1>3, AppendProperties, LenProperties
<1> QED
  BY <1>1, <1>2, <1>4

LEMMA SchedulingStep ==
  ASSUME TypeOK, TypeOK', InTime, SinceBounded, trace \in Seq(TraceRecord), Scheduling,
         [TracedNext]_tracedVars
  PROVE  Scheduling'
<1>1. [Next]_vars
  BY TracedIsEngine
<1>2. stalled' \in Seq([gate : Ops, since : Nat])
  BY <1>1, StalledOps
<1>3. events' \in Seq(Timely')
  <2>1. events' \in Seq(Timely) /\ Timely \subseteq Timely'
    BY <1>1, EventsTimely, TimelyGrows
  <2> HIDE DEF Timely
  <2> QED
    BY <2>1, SeqMonotonic
<1>4. ASSUME ~TracedInjection
      PROVE  ready' \in Seq(Prompt') /\ \A k \in FixKeys' : pending'[k] = 0
  <2>1. ~InjectionError
    BY <1>4, NoOtherInjection
  <2>2. ready' \in Seq(Prompt) /\ NoneWaits(pending') /\ FixKeys' = FixKeys
    BY <1>1, <1>4, <2>1, ReadyPrompt, CostsKept
  <2>3. ready' \in Seq(Prompt')
    <3>1. CASE EndStep
      <4>1. ready' = <<>>
        BY <3>1 DEF EndStep
      <4> HIDE DEF Prompt
      <4> QED
        BY <4>1
    <3>2. CASE ~EndStep
      <4>1. Prompt \subseteq Prompt'
        BY <3>2, PromptGrows
      <4> HIDE DEF Prompt
      <4> QED
        BY <2>2, <4>1, SeqMonotonic
    <3> QED
      BY <3>1, <3>2
  <2> QED
    BY <2>2, <2>3 DEF NoneWaits
<1>5. ASSUME TracedInjection
      PROVE  ready' \in Seq(Prompt') /\ \A k \in FixKeys' : pending'[k] = 0
  <2>. PICK fixup : fixup = FixupKey(Len(fixups'))
    OBVIOUS
  <2>1. InjectionError /\ ~EndStep /\ fixup = FixupKey(Len(fixups) + 1)
    BY <1>5, InjectedKey DEF TracedInjection, InjectionError, Due, EndStep
  <2>2. /\ ready' = Append(ready, fixup) /\ pending' = [pending EXCEPT ![fixup] = 0]
        /\ pc = "events" /\ pc' = pc /\ now' = now
    BY <2>1 DEF InjectionError, Due
  <2>3. fixup \in FixKeys' /\ FixKeys' = FixKeys \cup {fixup}
    BY <1>5, InjectedKey
  <2>4. PICK q \in InsertionAt' : trace'[q].id = fixup /\ trace'[q].cycle = now
    BY <1>5, InjectionMends
  <2>5. fixup \in Prompt'
    <3>1. InsertedAt(fixup, now)'
      BY <2>2, <2>4 DEF InsertedAt
    <3> QED
      BY <2>2, <2>3, <3>1 DEF Prompt, FixKeys
  <2>6. ready \in Seq(Prompt')
    <3>1. Prompt \subseteq Prompt' /\ ready \in Seq(Prompt)
      BY <2>1, PromptGrows DEF Scheduling
    <3> HIDE DEF Prompt
    <3> QED
      BY <3>1, SeqMonotonic
  <2>7. ready' \in Seq(Prompt')
    <3> HIDE DEF Prompt
    <3> QED
      BY <2>2, <2>5, <2>6, AppendProperties
  <2>8. \A k \in FixKeys' : pending'[k] = 0
    <3>1. pending \in [Key -> Nat] /\ \A k \in FixKeys : pending[k] = 0
      BY DEF TypeOK, Scheduling
    <3>2. fixups' \in Seq(Ops) /\ Len(fixups') <= MaxFixups
      BY DEF TypeOK
    <3>3. Len(fixups') \in Nat
      BY <3>2, LenProperties
    <3>4. FixKeys' \subseteq Key
      BY <3>2, <3>3, SizesAssumption DEF FixKeys, Known, Key
    <3> QED
      BY <2>2, <2>3, <3>1, <3>4
  <2> QED
    BY <2>7, <2>8
<1> QED
  BY <1>2, <1>3, <1>4, <1>5 DEF Scheduling

LEMMA FinishedGrows ==
  ASSUME [TracedNext]_tracedVars
  PROVE  /\ TracedInjection \/ TracedCompletion => finished' = finished \cup {Head(events).id}
         /\ ~TracedInjection /\ ~TracedCompletion => finished' = finished
<1>1. TracedInjection \/ TracedCompletion => finished' = finished \cup {Head(events).id}
  BY DEF TracedInjection, InjectionError, TracedCompletion, GateCompleted, MeasuredDeferred,
         MeasuredInstant, CountCompletion
<1>2. ASSUME ~TracedInjection, ~TracedCompletion PROVE finished' = finished
  <2>1. CASE TracedProduced \/ TracedFailed
    BY <2>1 DEF TracedProduced, TracedFailed, FactoryProduced, FactoryFailed, countVars
  <2>2. CASE TracedServeStalled \/ TracedServeReady \/ TracedStallReady \/ TracedScheduleReady
    BY <2>2 DEF TracedServeStalled, TracedServeReady, TracedStallReady, TracedScheduleReady,
                ServeStalled, ServeReady, StallReady, ScheduleReady, countVars
  <2>3. CASE \/ Finish \/ Truncate \/ BeginStep \/ HookActivation
             \/ EndEvents \/ EndServe \/ EndStep \/ Returned \/ UNCHANGED vars
    BY <2>3 DEF Finish, Truncate, BeginStep, HookActivation, EndEvents, EndServe, EndStep,
                Returned, vars, countVars
  <2> QED
    BY <1>2, <2>1, <2>2, <2>3 DEF TracedNext, tracedVars
<1> QED
  BY <1>1, <1>2

(* What was told of the fixups stays true. *)
LEMMA MendsKept ==
  ASSUME TypeOK, TypeOK', InTime, SinceBounded, Mending, [TracedNext]_tracedVars
  PROVE  /\ \A d \in MendAt : Mends(d)'
         /\ \A k \in FixKeys \cap finished : \E d \in MendAt' : trace'[d].id = k
         /\ \A i \in InsertionAt \cup MendAt : trace'[i] = trace[i]
<1>1. /\ RecordsKept /\ InsertionAt \subseteq InsertionAt' /\ MendAt \subseteq MendAt'
  BY MendsGrow DEF Mending
<1>2. /\ FixKeys \subseteq FixKeys' /\ \A k \in Known : TotalGateCost(k)' = TotalGateCost(k)
      /\ finished \subseteq finished'
  BY CostsKept, FinishedGrows
<1>3. \A i \in InsertionAt \cup MendAt : trace'[i] = trace[i]
  BY <1>1 DEF RecordsKept, InsertionAt, MendAt, Positions
<1>4. ASSUME NEW d \in MendAt PROVE Mends(d)'
  <2>1. Mends(d)
    BY DEF Mending
  <2>2. PICK k \in FixKeys \cap finished : trace[d].id = k
    BY <2>1 DEF Mends
  <2>3. PICK p \in InsertionAt : /\ p < d /\ trace[p].id = k
                                /\ trace[p].cycle + TotalGateCost(k) = trace[d].cycle
    BY <2>1, <2>2 DEF Mends
  <2>4. trace'[d] = trace[d] /\ trace'[p] = trace[p] /\ p \in InsertionAt'
    BY <1>1, <1>3
  <2>5. k \in FixKeys' /\ k \in finished' /\ TotalGateCost(k)' = TotalGateCost(k)
    BY <1>2, <2>2 DEF FixKeys
  <2>6. /\ trace'[d].id = k /\ trace'[p].id = k
        /\ trace'[p].cycle + TotalGateCost(k)' = trace'[d].cycle
    BY <2>2, <2>3, <2>4, <2>5
  <2> QED
    BY <2>3, <2>4, <2>5, <2>6 DEF Mends
<1>5. ASSUME NEW k \in FixKeys \cap finished PROVE \E d \in MendAt' : trace'[d].id = k
  BY <1>1, <1>3 DEF Mending
<1> QED
  BY <1>3, <1>4, <1>5

LEMMA MendingStep ==
  ASSUME TypeOK, TypeOK', InTime, SinceBounded, Scheduling, Mending, [TracedNext]_tracedVars
  PROVE  Mending'
<1>1. /\ RecordsKept /\ InsertionAt \subseteq InsertionAt' /\ MendAt \subseteq MendAt'
      /\ ~TracedInjection => InsertionAt' = InsertionAt
      /\ trace \in Seq(TraceRecord) /\ trace' \in Seq(TraceRecord)
  BY MendsGrow DEF Mending, RecordsKept
<1>2. /\ \A d \in MendAt : Mends(d)'
      /\ \A k \in FixKeys \cap finished : \E d \in MendAt' : trace'[d].id = k
      /\ \A i \in InsertionAt \cup MendAt : trace'[i] = trace[i]
  BY MendsKept
<1>3. /\ \A p \in InsertionAt : trace[p].id \in FixKeys
      /\ \A p, q \in InsertionAt : trace[p].id = trace[q].id => p = q
  BY DEF Mending
<1>4. /\ FixKeys \subseteq FixKeys' /\ (~TracedInjection => FixKeys' = FixKeys)
      /\ finished \subseteq Known
  BY CostsKept DEF TypeOK
<1>5. CASE ~TracedInjection /\ ~TracedCompletion
  <2>1. MendAt' = MendAt /\ finished' = finished
    BY <1>1, <1>5, PlainMends, FinishedGrows
  <2> QED
    BY <1>1, <1>2, <1>3, <1>4, <1>5, <2>1 DEF Mending
<1>6. CASE ~TracedInjection /\ TracedCompletion
  <2>. PICK k : k = Head(events).id
    OBVIOUS
  <2>1. /\ k \in Known /\ finished' = finished \cup {k}
        /\ k \in Ops => MendAt' = MendAt
        /\ k \notin Ops => \E q : /\ MendAt' = MendAt \cup {q} /\ q \notin DOMAIN trace
                                  /\ trace'[q].id = k /\ trace'[q].cycle = now
    BY <1>1, <1>6, CompletionMends, FinishedGrows
  <2>2. CASE k \in Ops
    <3>1. FixKeys' \cap finished' = FixKeys \cap finished
      BY <1>4, <1>6, <2>1, <2>2 DEF FixKeys
    <3> QED
      BY <1>1, <1>2, <1>3, <1>4, <1>6, <2>1, <2>2, <3>1 DEF Mending
  <2>3. CASE k \notin Ops
    <3>1. PICK q : /\ MendAt' = MendAt \cup {q} /\ q \notin DOMAIN trace
                   /\ trace'[q].id = k /\ trace'[q].cycle = now
      BY <2>1, <2>3
    <3>2. k \in FixKeys' \cap finished'
      BY <1>4, <1>6, <2>1, <2>3 DEF FixKeys
    <3>3. PICK p \in InsertionAt : trace[p].id = k /\ trace[p].cycle + TotalGateCost(k) = now
      <4>1. Due("gate") /\ events # <<>> /\ Head(events).at = now /\ Head(events).type = "gate"
        BY <1>6 DEF TracedCompletion, GateCompleted, MeasuredDeferred, MeasuredInstant, Due
      <4>2. Head(events) \in Timely
        BY <4>1, HeadTailProperties DEF Scheduling
      <4>3. PICK c \in Nat : InsertedAt(k, c) /\ now = c + TotalGateCost(k)
        BY <2>3, <4>1, <4>2 DEF Timely
      <4> QED
        BY <4>3 DEF InsertedAt
    <3>4. p < q
      <4>1. p \in DOMAIN trace /\ q \in DOMAIN trace'
        BY <3>1 DEF InsertionAt, MendAt, Positions
      <4>2. /\ DOMAIN trace = 1 .. Len(trace) /\ Len(trace) \in Nat
            /\ DOMAIN trace' = 1 .. Len(trace') /\ Len(trace') \in Nat
        BY <1>1, LenProperties
      <4> QED
        BY <3>1, <4>1, <4>2
    <3>5. TotalGateCost(k)' = TotalGateCost(k)
      BY <2>1, CostsKept
    <3>6. Mends(q)'
      BY <1>2, <1>6, <1>1, <3>1, <3>2, <3>3, <3>4, <3>5 DEF Mends
    <3>7. \A j \in FixKeys' \cap finished' : \E d \in MendAt' : trace'[d].id = j
      BY <1>2, <1>4, <1>6, <2>1, <3>1
    <3> QED
      BY <1>1, <1>2, <1>3, <1>4, <1>6, <3>1, <3>6, <3>7 DEF Mending
  <2> QED
    BY <2>2, <2>3
<1>7. CASE TracedInjection
  <2>. PICK fixup : fixup = FixupKey(Len(fixups'))
    OBVIOUS
  <2>. PICK gate : gate = Head(events).id
    OBVIOUS
  <2>1. fixup \in FixKeys' \ Known /\ FixKeys' = FixKeys \cup {fixup}
    BY <1>7, InjectedKey
  <2>2. PICK q : /\ InsertionAt' = InsertionAt \cup {q} /\ q \notin DOMAIN trace
                 /\ trace'[q].id = fixup
    BY <1>1, <1>7, InjectionMends
  <2>3. MendAt' = MendAt
    BY <1>1, <1>7, InjectionMends
  <2>4. gate \in Ops /\ finished' = finished \cup {gate}
    <3>1. gate \in Known /\ NeedsMagicState(gate)
      BY <1>7, HeadEvent DEF TracedInjection, InjectionError
    <3> QED
      BY <1>7, <3>1, FinishedGrows DEF NeedsMagicState, KindOf
  <2>5. FixKeys' \cap finished' = FixKeys \cap finished
    <3>1. Ops \subseteq Known
      BY KnownKeys
    <3> QED
      BY <1>4, <2>1, <2>4, <3>1 DEF FixKeys
  <2>6. \A p \in InsertionAt' : trace'[p].id \in FixKeys'
    BY <1>2, <1>3, <1>4, <2>1, <2>2
  <2>7. \A p \in InsertionAt : trace'[p].id # fixup
    BY <1>2, <1>3, <2>1 DEF FixKeys
  <2>8. ASSUME NEW p \in InsertionAt', NEW r \in InsertionAt', trace'[p].id = trace'[r].id
        PROVE  p = r
    <3>1. CASE p \in InsertionAt /\ r \in InsertionAt
      <4>1. trace[p].id = trace[r].id
        BY <1>2, <2>8, <3>1
      <4> QED
        BY <1>3, <3>1, <4>1
    <3> QED
      BY <2>2, <2>7, <2>8, <3>1
  <2> QED
    BY <1>1, <1>2, <2>3, <2>5, <2>6, <2>8 DEF Mending
<1> QED
  BY <1>5, <1>6, <1>7

LEMMA AlwaysMending == TracedSpec => [](Scheduling /\ Mending)
<1>1. TracedSpec => Spec
  BY TracedIsEngine, PTL DEF TracedSpec, Spec
<1>2. TypeOK /\ TypeOK' /\ InTime /\ SinceBounded /\ (Scheduling /\ Mending)
        /\ [TracedNext]_tracedVars => (Scheduling /\ Mending)'
  <2> SUFFICES ASSUME TypeOK, TypeOK', InTime, SinceBounded, Scheduling, Mending,
                      [TracedNext]_tracedVars
               PROVE  Scheduling' /\ Mending'
    OBVIOUS
  <2>1. trace \in Seq(TraceRecord)
    BY DEF Mending
  <2> QED
    BY <2>1, SchedulingStep, MendingStep
<1> QED
  BY <1>1, <1>2, MendingInit, TypeCorrect, AlwaysInTime, AlwaysSinceBounded, PTL DEF TracedSpec

-----------------------------------------------------------------------------
(* The extension that analyze adds up. *)

(* What Observe makes of the fixups. *)
FixupsNoted(new, old, e) ==
  LET known == \E p \in old.fixups : p[1] = e.id
      start == (CHOOSE p \in old.fixups : p[1] = e.id)[2]
      others == {p \in old.fixups : p[1] # e.id}
  IN  /\ {"fixups", "extension"} \subseteq DOMAIN new
      /\ e.kind = "fixup" => /\ new.fixups = others \cup {<<e.id, e.cycle>>}
                             /\ new.extension = old.extension
      /\ e.kind = "fixup_completed" /\ known =>
           /\ new.fixups = others
           /\ new.extension = old.extension + (e.cycle - start)
      /\ e.kind # "fixup" /\ ~(e.kind = "fixup_completed" /\ known) =>
           new.fixups = old.fixups /\ new.extension = old.extension

LEMMA AbsorbFixups ==
  ASSUME NEW old, {"fixups", "extension"} \subseteq DOMAIN old,
         NEW e, NEW cycles, NEW res
  PROVE  FixupsNoted(Absorb(old, e, cycles, res), old, e)
<1>1. CASE e.kind = "fixup"
  BY <1>1 DEF FixupsNoted, Absorb, Observe
<1>2. CASE e.kind = "fixup_completed" /\ \E p \in old.fixups : p[1] = e.id
  BY <1>2 DEF FixupsNoted, Absorb, Observe
<1>3. CASE e.kind = "fixup_completed" /\ ~\E p \in old.fixups : p[1] = e.id
  BY <1>3 DEF FixupsNoted, Absorb, Observe
<1>4. CASE e.kind = "served"
  BY <1>4 DEF FixupsNoted, Absorb, Observe, Served
<1>5. CASE e.kind \notin {"fixup", "fixup_completed", "served"}
  BY <1>5 DEF FixupsNoted, Absorb, Observe
<1> QED
  BY <1>1, <1>2, <1>3, <1>4, <1>5

(* The fixups that the first i records see completed, and by number. *)
Paid(i) == {trace[d].id : d \in {d \in MendAt : d <= i}}
PaidFixups(i) == {j \in DOMAIN fixups : FixupKey(j) \in Paid(i)}
Costs == [j \in DOMAIN fixups |-> TotalGateCost(FixupKey(j))]

(* Those that they see inserted only, with the cycle. *)
Unpaid(i) ==
  {<<trace[p].id, trace[p].cycle>> :
     p \in {p \in InsertionAt : p <= i /\ trace[p].id \notin Paid(i)}}

FixupsUpto(a, i) ==
  /\ {"fixups", "extension"} \subseteq DOMAIN a[i]
  /\ a[i].fixups = Unpaid(i)
  /\ a[i].extension = SumOf(Costs, PaidFixups(i))

LEMMA FixupCosts ==
  ASSUME TypeOK
  PROVE  /\ \A j \in DOMAIN fixups : Costs[j] \in Int
         /\ IsFiniteSet(DOMAIN fixups)
         /\ \A i : PaidFixups(i) \in SUBSET DOMAIN fixups /\ IsFiniteSet(PaidFixups(i))
<1>1. DOMAIN fixups = 1 .. Len(fixups) /\ Len(fixups) \in Nat
  BY FixupKeys
<1>2. IsFiniteSet(DOMAIN fixups)
  BY <1>1, FS_Interval
<1>3. ASSUME NEW j \in DOMAIN fixups PROVE Costs[j] \in Int
  <2>1. FixupKey(j) \in Known
    BY FixupKeys
  <2> DEFINE k == FixupKey(j)
  <2> HIDE DEF k
  <2>2. TotalGateCost(k) \in Nat
    BY <2>1, CostType DEF k
  <2> QED
    BY <2>2 DEF Costs, k
<1> QED
  BY <1>2, <1>3, FS_Subset DEF PaidFixups

LEMMA InsertionNoted ==
  ASSUME Mending, NEW m \in InsertionAt
  PROVE  LET old == Unpaid(m - 1)
             others == {p \in old : p[1] # trace[m].id}
         IN  /\ Paid(m) = Paid(m - 1)
             /\ Unpaid(m) = others \cup {<<trace[m].id, trace[m].cycle>>}
<1> DEFINE k == trace[m].id
<1>1. /\ m \in Nat /\ InsertionAt \subseteq Nat /\ MendAt \subseteq Nat /\ m \notin MendAt
  BY LenProperties DEF Mending, InsertionAt, MendAt, Positions
<1>2. Paid(m) = Paid(m - 1)
  BY <1>1 DEF Paid
<1>3. \A p \in InsertionAt : trace[p].id = k => p = m
  BY DEF Mending
<1>4. k \notin Paid(m)
  <2> SUFFICES ASSUME NEW d \in MendAt, d <= m, trace[d].id = k PROVE FALSE
    BY DEF Paid
  <2>1. PICK p \in InsertionAt : p < d /\ trace[p].id = k
    BY DEF Mending, Mends
  <2> QED
    BY <1>1, <1>3, <2>1
<1>5. \A p \in InsertionAt : p <= m <=> p <= m - 1 \/ p = m
  BY <1>1
<1>6. \A x \in Unpaid(m - 1) : x[1] # k
  BY <1>1, <1>3 DEF Unpaid
<1> HIDE DEF k
<1>7. Unpaid(m) = Unpaid(m - 1) \cup {<<k, trace[m].cycle>>}
  BY <1>2, <1>4, <1>5 DEF Unpaid, k
<1> QED
  BY <1>2, <1>6, <1>7 DEF k

LEMMA RepeatNoted ==
  ASSUME Mending, NEW m \in MendAt, trace[m].id \in Paid(m - 1)
  PROVE  /\ Paid(m) = Paid(m - 1) /\ Unpaid(m) = Unpaid(m - 1)
         /\ \A p \in Unpaid(m - 1) : p[1] # trace[m].id
<1>1. /\ m \in Nat /\ InsertionAt \subseteq Nat /\ MendAt \subseteq Nat /\ m \notin InsertionAt
  BY LenProperties DEF Mending, InsertionAt, MendAt, Positions
<1>2. \A d \in MendAt : d <= m <=> d <= m - 1 \/ d = m
  BY <1>1
<1>3. Paid(m) = Paid(m - 1)
  BY <1>2 DEF Paid
<1>4. \A p \in InsertionAt : p <= m <=> p <= m - 1
  BY <1>1
<1> QED
  BY <1>3, <1>4 DEF Unpaid

LEMMA MendNoted ==
  ASSUME TypeOK, Mending, NEW m \in MendAt, trace[m].id \notin Paid(m - 1)
  PROVE  LET old == Unpaid(m - 1)
             k == trace[m].id
         IN  /\ Paid(m) = Paid(m - 1) \cup {k}
             /\ Unpaid(m) = {p \in old : p[1] # k}
             /\ \E p \in old : p[1] = k
             /\ \A p \in old : p[1] = k =>
                  p[2] \in Nat /\ trace[m].cycle - p[2] = TotalGateCost(k)
<1>. PICK k : k = trace[m].id
  OBVIOUS
<1>1. /\ m \in Nat /\ InsertionAt \subseteq Nat /\ MendAt \subseteq Nat /\ m \notin InsertionAt
      /\ InsertionAt \subseteq DOMAIN trace
  BY LenProperties DEF Mending, InsertionAt, MendAt, Positions
<1>2. \A d \in MendAt : d <= m <=> d <= m - 1 \/ d = m
  BY <1>1
<1>3. Paid(m) = Paid(m - 1) \cup {k}
  BY <1>2 DEF Paid
<1>4. \A p \in InsertionAt : p <= m <=> p <= m - 1
  BY <1>1
<1>5. Unpaid(m) = {p \in Unpaid(m - 1) : p[1] # k}
  BY <1>3, <1>4 DEF Unpaid
<1>6. PICK q \in InsertionAt : /\ q < m /\ trace[q].id = k
                              /\ trace[q].cycle + TotalGateCost(k) = trace[m].cycle
  BY DEF Mending, Mends
<1>7. \A p \in InsertionAt : trace[p].id = k => p = q
  BY <1>6 DEF Mending
<1>8. <<k, trace[q].cycle>> \in Unpaid(m - 1)
  <2>1. q <= m - 1
    BY <1>1, <1>6
  <2> QED
    BY <1>6, <2>1 DEF Unpaid
<1>9. \A p \in Unpaid(m - 1) : p[1] = k => p[2] = trace[q].cycle
  BY <1>7 DEF Unpaid
<1>10. trace[q].cycle \in Nat
  BY <1>1, CycleType DEF Mending
<1>11. TotalGateCost(k) \in Nat
  <2>1. k \in Known
    BY DEF Mending, Mends, FixKeys
  <2> QED
    BY <2>1, CostType
<1>12. trace[m].cycle - trace[q].cycle = TotalGateCost(k)
  BY <1>6, <1>10, <1>11
<1> QED
  BY <1>3, <1>5, <1>8, <1>9, <1>10, <1>12

LEMMA FixupsNext ==
  ASSUME TypeOK, Mending, NEW cycles, NEW res, NEW a, Pass(a, trace, cycles, res),
         NEW m \in 1 .. Len(trace), FixupsUpto(a, m - 1)
  PROVE  FixupsUpto(a, m)
<1>. PICK old : old = a[m - 1]
  OBVIOUS
<1>. PICK new : new = a[m]
  OBVIOUS
<1>. PICK e : e = trace[m]
  OBVIOUS
<1> DEFINE known == \E p \in old.fixups : p[1] = e.id
           start == (CHOOSE p \in old.fixups : p[1] = e.id)[2]
           others == {p \in old.fixups : p[1] # e.id}
<1>1. /\ {"fixups", "extension"} \subseteq DOMAIN old
      /\ old.fixups = Unpaid(m - 1) /\ old.extension = SumOf(Costs, PaidFixups(m - 1))
  BY DEF FixupsUpto
<1>2. /\ {"fixups", "extension"} \subseteq DOMAIN new
      /\ e.kind = "fixup" => /\ new.fixups = others \cup {<<e.id, e.cycle>>}
                             /\ new.extension = old.extension
      /\ e.kind = "fixup_completed" /\ known =>
           /\ new.fixups = others
           /\ new.extension = old.extension + (e.cycle - start)
      /\ e.kind # "fixup" /\ ~(e.kind = "fixup_completed" /\ known) =>
           new.fixups = old.fixups /\ new.extension = old.extension
  <2>1. new = Absorb(old, e, cycles, res)
    BY DEF Pass
  <2>2. FixupsNoted(new, old, e)
    BY <1>1, <2>1, AbsorbFixups
  <2> QED
    BY <2>2 DEF FixupsNoted
<1>3. /\ m \in DOMAIN trace /\ m \in Nat
      /\ m \in InsertionAt <=> e.kind = "fixup"
      /\ m \in MendAt <=> e.kind = "fixup_completed"
      /\ \A x \in InsertionAt \cup MendAt : x \in Nat
  BY LenProperties DEF Mending, InsertionAt, MendAt, Positions
<1> SUFFICES /\ new.fixups = Unpaid(m)
             /\ new.extension = SumOf(Costs, PaidFixups(m))
  BY <1>2 DEF FixupsUpto
<1>4. CASE e.kind = "fixup"
  <2>1. /\ Paid(m) = Paid(m - 1)
        /\ Unpaid(m) = {p \in Unpaid(m - 1) : p[1] # e.id} \cup {<<e.id, e.cycle>>}
    BY <1>3, <1>4, InsertionNoted
  <2> QED
    BY <1>1, <1>2, <1>4, <2>1 DEF PaidFixups
<1>5. CASE e.kind = "fixup_completed" /\ e.id \in Paid(m - 1)
  <2>1. /\ Paid(m) = Paid(m - 1) /\ Unpaid(m) = Unpaid(m - 1)
        /\ \A p \in Unpaid(m - 1) : p[1] # e.id
    BY <1>3, <1>5, RepeatNoted
  <2> QED
    BY <1>1, <1>2, <1>5, <2>1 DEF PaidFixups
<1>6. CASE e.kind = "fixup_completed" /\ e.id \notin Paid(m - 1)
  <2>. PICK k : k = e.id
    OBVIOUS
  <2>1. /\ Paid(m) = Paid(m - 1) \cup {k}
        /\ Unpaid(m) = {p \in old.fixups : p[1] # k}
        /\ \E p \in old.fixups : p[1] = k
        /\ \A p \in old.fixups : p[1] = k =>
             p[2] \in Nat /\ e.cycle - p[2] = TotalGateCost(k)
    BY <1>1, <1>3, <1>6, MendNoted
  <2>2. new.fixups = Unpaid(m) /\ new.extension = old.extension + (e.cycle - start)
    BY <1>2, <1>6, <2>1
  <2>3. e.cycle - start = TotalGateCost(k)
    <3>1. (CHOOSE p \in old.fixups : p[1] = e.id) \in {p \in old.fixups : p[1] = e.id}
      BY <2>1
    <3> QED
      BY <2>1, <3>1
  <2>4. k \in FixKeys
    BY <1>3, <1>6 DEF Mending, Mends
  <2>. PICK j : j = k - NumOps
    OBVIOUS
  <2>5. j \in DOMAIN fixups /\ k = FixupKey(j) /\ \A x \in DOMAIN fixups : FixupKey(x) = k => x = j
    BY <2>4, FixupKeys DEF FixKeys
  <2>6. PaidFixups(m) = PaidFixups(m - 1) \cup {j} /\ j \notin PaidFixups(m - 1)
    BY <1>6, <2>1, <2>5 DEF PaidFixups
  <2>7. Costs[j] = TotalGateCost(k)
    BY <2>5 DEF Costs
  <2>. PICK S : S = PaidFixups(m - 1)
    OBVIOUS
  <2>8. SumOf(Costs, S \cup {j}) = SumOf(Costs, S) + Costs[j]
    <3>1. IsFiniteSet(S) /\ j \notin S /\ \A x \in S \cup {j} : Costs[x] \in Int
      BY <2>5, <2>6, FixupCosts
    <3> QED
      BY <3>1, SumAdds
  <2> QED
    BY <1>1, <2>2, <2>3, <2>6, <2>7, <2>8
<1>7. CASE e.kind \notin {"fixup", "fixup_completed"}
  <2>1. /\ \A d \in MendAt : d <= m <=> d <= m - 1
        /\ \A p \in InsertionAt : p <= m <=> p <= m - 1
    BY <1>3, <1>7
  <2>2. Paid(m) = Paid(m - 1)
    BY <2>1 DEF Paid
  <2>3. Unpaid(m) = Unpaid(m - 1)
    BY <2>1, <2>2 DEF Unpaid
  <2> QED
    BY <1>1, <1>2, <1>7, <2>2, <2>3 DEF PaidFixups
<1> QED
  BY <1>4, <1>5, <1>6, <1>7

LEMMA FixupsFollowed ==
  ASSUME TypeOK, Mending, NEW cycles, NEW res, NEW a, Pass(a, trace, cycles, res)
  PROVE  FixupsUpto(a, Len(trace))
<1>. PICK n : n = Len(trace)
  OBVIOUS
<1> DEFINE G == {m \in 0 .. n : FixupsUpto(a, m)}
<1>1. n \in Nat
  BY LenProperties DEF Mending
<1>2. FixupsUpto(a, 0)
  <2>1. a[0].fixups = {} /\ a[0].extension = 0 /\ {"fixups", "extension"} \subseteq DOMAIN a[0]
    BY DEF Pass, Empty
  <2>2. \A i \in InsertionAt \cup MendAt : ~(i <= 0)
    BY LenProperties DEF Mending, InsertionAt, MendAt, Positions
  <2>3. Paid(0) = {} /\ Unpaid(0) = {}
    BY <2>2 DEF Paid, Unpaid
  <2>4. PaidFixups(0) = {}
    BY <2>3 DEF PaidFixups
  <2>5. SumOf(Costs, {}) = 0
    BY FS_EmptySet, SumZero
  <2> QED
    BY <2>1, <2>3, <2>4, <2>5 DEF FixupsUpto
<1>3. \A m \in 1 .. n : m - 1 \in G => m \in G
  BY <1>1, FixupsNext
<1>4. 0 \in G /\ G \in SUBSET (0 .. n)
  BY <1>1, <1>2
<1> HIDE DEF G
<1>5. G = 0 .. n
  BY <1>1, <1>3, <1>4, IndexInduction
<1>6. n \in G
  BY <1>1, <1>5
<1> QED
  BY <1>6 DEF G

LEMMA CostSum ==
  ASSUME NEW S \in SUBSET DOMAIN fixups, IsFiniteSet(S), \A x \in S : Costs[x] \in Int
  PROVE  MapThenSumSet(LAMBDA i : TotalGateCost(FixupKey(i)), S) = SumOf(Costs, S)
<1> DEFINE IsIter(it) == it = [s \in SUBSET S |->
                                 IF s = {} THEN 0
                                 ELSE TotalGateCost(FixupKey(Pick(s))) + it[s \ {Pick(s)}]]
           iter == CHOOSE it : IsIter(it)
<1>1. MapThenSumSet(LAMBDA i : TotalGateCost(FixupKey(i)), S) = iter[S]
  BY DEF MapThenSumSet, MapThenFoldSet, Pick
<1>2. \A s \in SUBSET S : s # {} => Costs[Pick(s)] = TotalGateCost(FixupKey(Pick(s)))
  BY PickIn DEF Costs
<1> HIDE DEF iter
<1>3. ASSUME NEW it PROVE IsIter(it) <=> Iterates(it, Costs, S)
  BY <1>2 DEF Iterates
<1>4. \E it : IsIter(it)
  <2>1. PICK it : Iterates(it, Costs, S)
    BY IterateSums
  <2> QED
    BY <1>3, <2>1
<1>5. IsIter(iter)
  <2> HIDE DEF IsIter
  <2> QED
    BY <1>4 DEF iter
<1>6. iter[S] = SumOf(Costs, S)
  BY <1>3, <1>5, IterateSums
<1> QED
  BY <1>1, <1>6

LEMMA MendingReported == TypeOK /\ Mending => FixupTimeIsCost
<1> SUFFICES ASSUME TypeOK, Mending, NEW res \in Resolutions
             PROVE  ProfileOf(res).extension =
                      MapThenSumSet(LAMBDA i : TotalGateCost(FixupKey(i)),
                                    {i \in DOMAIN fixups : FixupKey(i) \in finished})
  BY DEF FixupTimeIsCost
<1>. PICK n : n = Len(trace)
  OBVIOUS
<1> DEFINE S == {i \in DOMAIN fixups : FixupKey(i) \in finished}
<1>1. trace \in Seq(TraceRecord) /\ n \in Nat /\ DOMAIN trace = 1 .. n
  BY LenProperties DEF Mending
<1>2. PICK a : Pass(a, trace, now, res) /\ Folded(trace, now, res) = a[n]
  BY <1>1, PassExists
<1>3. ProfileOf(res).extension = a[n].extension
  BY <1>2 DEF ProfileOf, Analyze, Folded
<1>4. a[n].extension = SumOf(Costs, PaidFixups(n))
  <2>1. FixupsUpto(a, n)
    BY <1>2, FixupsFollowed
  <2> QED
    BY <2>1 DEF FixupsUpto
<1>5. PaidFixups(n) = S
  <2>1. Paid(n) = {trace[d].id : d \in MendAt}
    BY <1>1 DEF Paid, MendAt, Positions
  <2>2. ASSUME NEW k \in FixKeys PROVE k \in Paid(n) <=> k \in finished
    BY <2>1 DEF Mending, Mends
  <2>3. \A i \in DOMAIN fixups : FixupKey(i) \in FixKeys
    BY FixupKeys DEF FixKeys
  <2> QED
    BY <2>2, <2>3 DEF PaidFixups
<1>6. S \in SUBSET DOMAIN fixups /\ IsFiniteSet(S) /\ \A x \in S : Costs[x] \in Int
  BY <1>5, FixupCosts
<1> HIDE DEF S
<1>7. MapThenSumSet(LAMBDA i : TotalGateCost(FixupKey(i)), S) = SumOf(Costs, S)
  BY <1>6, CostSum
<1>8. ProfileOf(res).extension = MapThenSumSet(LAMBDA i : TotalGateCost(FixupKey(i)), S)
  BY <1>3, <1>4, <1>5, <1>7
<1> QED
  BY <1>8 DEF S

(* The extension that ProfileAnalyzer::analyze reports is the cost of the  *)
(* fixups that have completed: a fixup is scheduled in the step that       *)
(* injects it, so no cycle of waiting is counted.                          *)
THEOREM FixupsCost == TracedSpec => []FixupTimeIsCost
<1>1. TracedSpec => Spec
  BY TracedIsEngine, PTL DEF TracedSpec, Spec
<1> QED
  BY <1>1, AlwaysMending, MendingReported, TypeCorrect, PTL
=============================================================================
