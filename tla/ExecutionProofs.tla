-------------------------- MODULE ExecutionProofs --------------------------
(***************************************************************************)
(* Proofs about the order and the number of executions, for every circuit, *)
(* hooks and injected fixups included: no operation runs twice, none runs  *)
(* before what it depends on, and run ends exactly when all work is done.  *)
(***************************************************************************)
EXTENDS EngineProofs

-----------------------------------------------------------------------------
(* Pushing elements of a list onto a queue. *)

(* f numbers the elements of I, each of them once. *)
Numbers(f, I) ==
  /\ Cardinality(I) \in Nat
  /\ f \in [1 .. Cardinality(I) -> I]
  /\ \A a, b \in 1 .. Cardinality(I) : f[a] = f[b] => a = b
  /\ \A i \in I : \E a \in 1 .. Cardinality(I) : f[a] = i

(* An increasing enumeration of a set of positions reaches each of them.   *)
LEMMA InOrderOnto ==
  ASSUME NEW n \in Nat, NEW I \in SUBSET (1 .. n), NEW f \in InOrder(I)
  PROVE  Numbers(f, I)
<1> DEFINE c == Cardinality(I)
<1>1. IsFiniteSet(I) /\ c \in Nat
  <2>1. IsFiniteSet(1 .. n)
    BY FS_Interval
  <2>2. IsFiniteSet(I)
    BY <2>1, FS_Subset
  <2> QED
    BY <2>2, FS_CardinalityType
<1>2. f \in [1 .. c -> I] /\ \A a, b \in 1 .. c : a < b => f[a] < f[b]
  BY DEF InOrder
<1> HIDE DEF c
<1>3. \A a, b \in 1 .. c : f[a] = f[b] => a = b
  <2> TAKE a, b \in 1 .. c
  <2>1. f[a] \in I /\ f[b] \in I /\ I \subseteq Nat
    BY <1>2
  <2>2. f[a] \in Nat /\ f[b] \in Nat
    BY <2>1
  <2>3. a < b \/ a = b \/ b < a
    BY <1>1
  <2> QED
    BY <1>2, <2>2, <2>3
<1>4. f \in Injection(1 .. c, I)
  BY <1>2, <1>3 DEF Injection, IsInjective
<1>5. Cardinality(1 .. c) = Cardinality(I)
  BY <1>1, FS_Interval DEF c
<1>6. f \in Surjection(1 .. c, I)
  BY <1>1, <1>4, <1>5, FS_Injection
<1> QED
  BY <1>1, <1>2, <1>3, <1>6 DEF Surjection, c, Numbers

(* Distinct new elements keep a queue free of repetitions.                 *)
LEMMA PushedElements ==
  ASSUME NEW S, NEW q \in Seq(S), NEW list \in Seq(S),
         NEW I \in SUBSET DOMAIN list, NEW r \in Pushed(q, list, I),
         IsInjective(q),
         \A i, j \in I : list[i] = list[j] => i = j,
         \A i \in I : list[i] \notin ToSet(q)
  PROVE  /\ r \in Seq(S)
         /\ IsInjective(r)
         /\ ToSet(r) = ToSet(q) \cup {list[i] : i \in I}
<1> DEFINE c == Cardinality(I)
<1>1. DOMAIN list = 1 .. Len(list) /\ Len(list) \in Nat
  BY LenProperties
<1>2. PICK f \in InOrder(I) : r = q \o [k \in 1 .. c |-> list[f[k]]]
  BY DEF Pushed
<1>3. /\ c \in Nat /\ f \in [1 .. c -> I]
      /\ \A a, b \in 1 .. c : f[a] = f[b] => a = b
      /\ \A i \in I : \E a \in 1 .. c : f[a] = i
  <2>1. I \in SUBSET (1 .. Len(list)) /\ Len(list) \in Nat /\ f \in InOrder(I)
    BY <1>1, <1>2
  <2>2. Numbers(f, I)
    BY <2>1, InOrderOnto
  <2> QED
    BY <2>2 DEF Numbers
<1> DEFINE s == [k \in 1 .. c |-> list[f[k]]]
<1>4. s \in Seq(S) /\ Len(s) = c /\ \A k \in 1 .. c : s[k] = list[f[k]]
  <2> HIDE DEF c
  <2>1. \A k \in 1 .. c : list[f[k]] \in S
    BY <1>1, <1>3, ElementOfSeq
  <2>2. s \in [1 .. c -> S]
    BY <2>1
  <2>3. s \in Seq(S) /\ Len(s) = c
    BY <1>3, <2>2
  <2> QED
    BY <2>3
<1> HIDE DEF c, s
<1>5. r = q \o s
  BY <1>2 DEF s
<1>6. Len(q) \in Nat /\ DOMAIN q = 1 .. Len(q)
  BY LenProperties
<1>7. /\ r \in Seq(S) /\ DOMAIN r = 1 .. Len(q) + c
      /\ \A i \in 1 .. Len(q) : r[i] = q[i]
      /\ \A k \in 1 .. c : r[Len(q) + k] = s[k]
  <2>1. r \in Seq(S) /\ Len(r) = Len(q) + c
    <3>1. q \o s \in Seq(S) /\ Len(q \o s) = Len(q) + Len(s)
      BY ONLY q \in Seq(S), <1>4, ConcatProperties
    <3> QED
      BY <1>4, <1>5, <3>1
  <2>2. \A i \in 1 .. Len(q) + c : r[i] = IF i <= Len(q) THEN q[i] ELSE s[i - Len(q)]
    <3>1. \A i \in 1 .. Len(q) + Len(s) :
            (q \o s)[i] = IF i <= Len(q) THEN q[i] ELSE s[i - Len(q)]
      BY <1>4, ConcatProperties
    <3> QED
      BY <1>4, <1>5, <3>1
  <2>3. \A k \in 1 .. c : Len(q) + k \in 1 .. Len(q) + c /\ ~(Len(q) + k <= Len(q))
                            /\ Len(q) + k - Len(q) = k
    BY <1>3, <1>6
  <2>4. \A i \in 1 .. Len(q) : i \in 1 .. Len(q) + c /\ i <= Len(q)
    BY <1>3, <1>6
  <2> QED
    BY <2>1, <2>2, <2>3, <2>4, LenProperties
<1>8. \A x \in DOMAIN r : x \in 1 .. Len(q) \/ \E k \in 1 .. c : x = Len(q) + k
  <2> TAKE x \in DOMAIN r
  <2>1. CASE x <= Len(q)
    BY <1>6, <1>7, <2>1
  <2>2. CASE x > Len(q)
    <3>1. x - Len(q) \in 1 .. c /\ x = Len(q) + (x - Len(q))
      BY <1>3, <1>6, <1>7, <2>2
    <3> QED
      BY <3>1
  <2> QED
    BY <1>3, <1>6, <1>7, <2>1, <2>2
<1>9. \A k \in 1 .. c : s[k] \notin ToSet(q) /\ f[k] \in I /\ s[k] = list[f[k]]
  BY <1>3, <1>4
<1>10. IsInjective(r)
  <2> SUFFICES ASSUME NEW x \in DOMAIN r, NEW y \in DOMAIN r, r[x] = r[y] PROVE x = y
    BY DEF IsInjective
  <2>1. \A i \in 1 .. Len(q) : r[i] \in ToSet(q)
    BY <1>6, <1>7 DEF ToSet
  <2>2. CASE x \in 1 .. Len(q) /\ y \in 1 .. Len(q)
    BY <1>6, <1>7, <2>2 DEF IsInjective
  <2>3. CASE \E k, m \in 1 .. c : x = Len(q) + k /\ y = Len(q) + m
    <3>1. PICK k \in 1 .. c, m \in 1 .. c : x = Len(q) + k /\ y = Len(q) + m
      BY <2>3
    <3>2. list[f[k]] = list[f[m]]
      BY <1>4, <1>7, <3>1
    <3> QED
      BY <1>3, <1>9, <3>1, <3>2
  <2>4. \A k \in 1 .. c : r[Len(q) + k] \notin ToSet(q)
    BY <1>7, <1>9
  <2>5. ~(x \in 1 .. Len(q) /\ \E k \in 1 .. c : y = Len(q) + k)
    BY <2>1, <2>4
  <2>6. ~(y \in 1 .. Len(q) /\ \E k \in 1 .. c : x = Len(q) + k)
    BY <2>1, <2>4
  <2> QED
    BY <1>8, <2>2, <2>3, <2>5, <2>6
<1>11. ASSUME NEW x
       PROVE  x \in ToSet(r) <=> x \in ToSet(q) \cup {list[i] : i \in I}
  <2>1. ASSUME x \in ToSet(r) PROVE x \in ToSet(q) \cup {list[i] : i \in I}
    <3>1. PICK y \in DOMAIN r : r[y] = x
      BY <2>1 DEF ToSet
    <3> QED
      BY <1>6, <1>7, <1>8, <1>9, <3>1 DEF ToSet
  <2>2. ASSUME x \in ToSet(q) PROVE x \in ToSet(r)
    <3>1. PICK y \in 1 .. Len(q) : q[y] = x
      BY <1>6, <2>2 DEF ToSet
    <3>2. y \in DOMAIN r
      BY <1>3, <1>6, <1>7
    <3> QED
      BY <1>7, <3>1, <3>2 DEF ToSet
  <2>3. ASSUME NEW i \in I, x = list[i] PROVE x \in ToSet(r)
    <3>1. PICK a \in 1 .. c : f[a] = i
      BY <1>3
    <3>2. Len(q) + a \in DOMAIN r /\ r[Len(q) + a] = x
      BY <1>3, <1>4, <1>6, <1>7, <2>3, <3>1
    <3> QED
      BY <3>2 DEF ToSet
  <2> QED
    BY <2>1, <2>2, <2>3
<1> QED
  BY <1>7, <1>10, <1>11

(* A queue loses its head, and a new element is appended.                  *)
LEMMA QueueTail ==
  ASSUME NEW S, NEW q \in Seq(S), q # <<>>, IsInjective(q)
  PROVE  /\ IsInjective(Tail(q))
         /\ Head(q) \in ToSet(q)
         /\ ToSet(Tail(q)) = ToSet(q) \ {Head(q)}
<1>1. DOMAIN q = 1 .. Len(q) /\ Len(q) \in Nat \ {0} /\ Head(q) = q[1]
  BY EmptySeq, LenProperties
<1>2. /\ DOMAIN Tail(q) = 1 .. Len(q) - 1
      /\ \A i \in 1 .. Len(q) - 1 : Tail(q)[i] = q[i + 1]
  BY <1>1, HeadTailProperties, LenProperties
<1>3. \A i \in 1 .. Len(q) - 1 : i + 1 \in DOMAIN q /\ i + 1 # 1
  BY <1>1
<1>4. ToSet(Tail(q)) = {q[i + 1] : i \in 1 .. Len(q) - 1}
  BY <1>2 DEF ToSet
<1>5. \A j \in DOMAIN q : j = 1 \/ (j - 1 \in 1 .. Len(q) - 1 /\ j = (j - 1) + 1)
  BY <1>1
<1>6. ToSet(Tail(q)) = ToSet(q) \ {Head(q)}
  <2>1. ASSUME NEW x \in ToSet(Tail(q)) PROVE x \in ToSet(q) \ {Head(q)}
    <3>1. PICK i \in 1 .. Len(q) - 1 : x = q[i + 1]
      BY <1>4
    <3>2. i + 1 \in DOMAIN q /\ i + 1 # 1 /\ 1 \in DOMAIN q
      BY <1>1, <1>3
    <3> QED
      BY <1>1, <3>1, <3>2 DEF IsInjective, ToSet
  <2>2. ASSUME NEW x \in ToSet(q) \ {Head(q)} PROVE x \in ToSet(Tail(q))
    <3>1. PICK j \in DOMAIN q : x = q[j]
      BY DEF ToSet
    <3>2. j # 1
      BY <1>1, <3>1
    <3> QED
      BY <1>4, <1>5, <3>1, <3>2
  <2> QED
    BY <2>1, <2>2
<1>7. IsInjective(Tail(q))
  <2> SUFFICES ASSUME NEW i \in 1 .. Len(q) - 1, NEW j \in 1 .. Len(q) - 1,
                      Tail(q)[i] = Tail(q)[j]
               PROVE  i = j
    BY <1>2 DEF IsInjective
  <2>1. q[i + 1] = q[j + 1]
    BY <1>2
  <2>2. i + 1 = j + 1
    BY <1>3, <2>1 DEF IsInjective
  <2> QED
    BY <1>1, <2>2
<1>8. 1 \in DOMAIN q
  BY <1>1
<1>9. Head(q) \in ToSet(q)
  BY <1>1, <1>8 DEF ToSet
<1> QED
  BY <1>6, <1>7, <1>9

LEMMA QueueAppend ==
  ASSUME NEW S, NEW q \in Seq(S), NEW x \in S, IsInjective(q), x \notin ToSet(q)
  PROVE  /\ IsInjective(Append(q, x))
         /\ ToSet(Append(q, x)) = ToSet(q) \cup {x}
<1>1. DOMAIN q = 1 .. Len(q) /\ Len(q) \in Nat
  BY LenProperties
<1>2. /\ DOMAIN Append(q, x) = 1 .. Len(q) + 1
      /\ \A i \in 1 .. Len(q) : Append(q, x)[i] = q[i]
      /\ Append(q, x)[Len(q) + 1] = x
  BY AppendProperties, LenProperties
<1>3. \A i \in 1 .. Len(q) + 1 : i \in 1 .. Len(q) \/ i = Len(q) + 1
  BY <1>1
<1>4. \A i \in 1 .. Len(q) : q[i] # x /\ i \in 1 .. Len(q) + 1
  BY <1>1 DEF ToSet
<1>5. Len(q) + 1 \in 1 .. Len(q) + 1
  BY <1>1
<1>6. IsInjective(Append(q, x))
  BY <1>1, <1>2, <1>3, <1>4 DEF IsInjective
<1>7. ASSUME NEW y PROVE y \in ToSet(Append(q, x)) <=> y \in ToSet(q) \cup {x}
  BY <1>1, <1>2, <1>3, <1>4, <1>5 DEF ToSet
<1> QED
  BY <1>6, <1>7

(* As many elements as places. *)
LEMMA InjectiveLength ==
  ASSUME NEW S, NEW q \in Seq(S), IsInjective(q)
  PROVE  IsFiniteSet(ToSet(q)) /\ Cardinality(ToSet(q)) = Len(q)
<1>1. DOMAIN q = 1 .. Len(q) /\ Len(q) \in Nat
  BY LenProperties
<1>2. IsFiniteSet(1 .. Len(q)) /\ Cardinality(1 .. Len(q)) = Len(q)
  BY <1>1, FS_Interval
<1>3. q \in [1 .. Len(q) -> ToSet(q)]
  BY <1>1 DEF ToSet
<1>4. q \in Injection(1 .. Len(q), ToSet(q))
  BY <1>1, <1>3 DEF Injection, IsInjective
<1>5. q \in Surjection(1 .. Len(q), ToSet(q))
  BY <1>1, <1>3 DEF Surjection, ToSet
<1> QED
  BY <1>2, <1>4, <1>5, FS_Surjection

-----------------------------------------------------------------------------
(* The events of one type. *)

EventsOf(q, t) == {q[i] : i \in {j \in DOMAIN q : q[j].type = t}}
IdsOf(q, t) == {e.id : e \in EventsOf(q, t)}
OncePerId(q, t) ==
  \A i, j \in DOMAIN q :
    q[i].type = t /\ q[j].type = t /\ q[i].id = q[j].id => i = j

(* EventQueue::pop takes the head away and nothing else.                   *)
LEMMA EventsTail ==
  ASSUME NEW q \in Seq(Event), q # <<>>, NEW t, OncePerId(q, t)
  PROVE  /\ OncePerId(Tail(q), t)
         /\ Head(q).type # t => EventsOf(Tail(q), t) = EventsOf(q, t)
         /\ Head(q).type = t =>
              /\ Head(q) \in EventsOf(q, t)
              /\ EventsOf(Tail(q), t) = EventsOf(q, t) \ {Head(q)}
              /\ IdsOf(Tail(q), t) = IdsOf(q, t) \ {Head(q).id}
<1>1. DOMAIN q = 1 .. Len(q) /\ Len(q) \in Nat \ {0} /\ Head(q) = q[1] /\ 1 \in DOMAIN q
  BY EmptySeq, LenProperties
<1>2. /\ DOMAIN Tail(q) = 1 .. Len(q) - 1
      /\ \A i \in 1 .. Len(q) - 1 : Tail(q)[i] = q[i + 1]
  BY <1>1, HeadTailProperties, LenProperties
<1>3. \A i \in 1 .. Len(q) - 1 : i + 1 \in DOMAIN q /\ i + 1 # 1
  BY <1>1
<1>4. \A j \in DOMAIN q : j = 1 \/ (j - 1 \in 1 .. Len(q) - 1 /\ j = (j - 1) + 1)
  BY <1>1
<1>5. OncePerId(Tail(q), t)
  <2> SUFFICES ASSUME NEW i \in 1 .. Len(q) - 1, NEW j \in 1 .. Len(q) - 1,
                      Tail(q)[i].type = t, Tail(q)[j].type = t,
                      Tail(q)[i].id = Tail(q)[j].id
               PROVE  i = j
    BY <1>2 DEF OncePerId
  <2>1. q[i + 1].type = t /\ q[j + 1].type = t /\ q[i + 1].id = q[j + 1].id
    BY <1>2
  <2>2. i + 1 = j + 1
    BY <1>3, <2>1 DEF OncePerId
  <2> QED
    BY <1>1, <2>2
<1>6. \A x : x \in EventsOf(Tail(q), t) <=>
               \E j \in DOMAIN q : j # 1 /\ q[j].type = t /\ x = q[j]
  <2> TAKE x
  <2>1. ASSUME x \in EventsOf(Tail(q), t)
        PROVE  \E j \in DOMAIN q : j # 1 /\ q[j].type = t /\ x = q[j]
    <3>1. PICK i \in 1 .. Len(q) - 1 : Tail(q)[i].type = t /\ x = Tail(q)[i]
      BY <1>2, <2>1 DEF EventsOf
    <3> QED
      BY <1>2, <1>3, <3>1
  <2>2. ASSUME NEW j \in DOMAIN q, j # 1, q[j].type = t, x = q[j]
        PROVE  x \in EventsOf(Tail(q), t)
    <3>1. j - 1 \in DOMAIN Tail(q) /\ Tail(q)[j - 1] = q[j]
      BY <1>1, <1>2, <1>4, <2>2
    <3> QED
      BY <2>2, <3>1 DEF EventsOf
  <2> QED
    BY <2>1, <2>2
<1>7. \A x : x \in EventsOf(q, t) <=> \E j \in DOMAIN q : q[j].type = t /\ x = q[j]
  BY DEF EventsOf
<1>8. CASE Head(q).type # t
  <2>1. \A x : x \in EventsOf(Tail(q), t) <=> x \in EventsOf(q, t)
    BY <1>1, <1>6, <1>7, <1>8
  <2>2. EventsOf(Tail(q), t) = EventsOf(q, t)
    BY <2>1
  <2> QED
    BY <1>5, <1>8, <2>2
<1>9. CASE Head(q).type = t
  <2>1. \A j \in DOMAIN q : q[j].type = t /\ j # 1 => q[j].id # Head(q).id
    BY <1>1, <1>9 DEF OncePerId
  <2>2. EventsOf(Tail(q), t) = EventsOf(q, t) \ {Head(q)}
    BY <1>1, <1>6, <1>7, <2>1
  <2>3. \A e \in EventsOf(q, t) : e = Head(q) \/ e.id # Head(q).id
    BY <1>1, <1>7, <2>1
  <2>4. IdsOf(Tail(q), t) = IdsOf(q, t) \ {Head(q).id}
    BY <2>2, <2>3 DEF IdsOf
  <2> QED
    BY <1>1, <1>5, <1>7, <1>9, <2>2, <2>4
<1> QED
  BY <1>8, <1>9

(* EventQueue::schedule adds its event and nothing else.                   *)
LEMMA EventsScheduled ==
  ASSUME NEW q \in Seq(Event), NEW e \in Event, NEW t, OncePerId(q, t)
  PROVE  /\ e.type # t => /\ OncePerId(Scheduled(q, e), t)
                          /\ EventsOf(Scheduled(q, e), t) = EventsOf(q, t)
         /\ e.type = t => EventsOf(Scheduled(q, e), t) = EventsOf(q, t) \cup {e}
         /\ e.type = t /\ e.id \notin IdsOf(q, t) => OncePerId(Scheduled(q, e), t)
<1> DEFINE r == Scheduled(q, e)
<1>1. PICK p \in 1 .. Len(q) + 1 : r \in Seq(Event) /\ Inserted(r, q, p, e)
  BY ScheduledInserted
<1> HIDE DEF r
<1>2. DOMAIN q = 1 .. Len(q) /\ Len(q) \in Nat
  BY LenProperties
<1>3. /\ r \in Seq(Event) /\ Len(r) = Len(q) + 1
      /\ \A j \in 1 .. Len(q) + 1 :
           r[j] = IF j < p THEN q[j] ELSE IF j = p THEN e ELSE q[j - 1]
  BY <1>1 DEF Inserted
<1>4. DOMAIN r = 1 .. Len(q) + 1
  BY <1>2, <1>3, LenProperties
<1> DEFINE Old(j) == IF j < p THEN j ELSE j - 1
<1>5. r[p] = e /\ p \in DOMAIN r
  BY <1>3, <1>4
<1>6. \A j \in DOMAIN r : j # p => Old(j) \in DOMAIN q /\ r[j] = q[Old(j)]
  BY <1>2, <1>3, <1>4
<1>7. \A i, j \in DOMAIN r : i # p /\ j # p /\ Old(i) = Old(j) => i = j
  BY <1>2, <1>4
<1>8. \A i \in DOMAIN q : \E j \in DOMAIN r : j # p /\ r[j] = q[i]
  <2> TAKE i \in DOMAIN q
  <2>1. CASE i < p
    <3>1. i \in DOMAIN r /\ r[i] = q[i] /\ i # p
      BY <1>2, <1>3, <1>4, <2>1
    <3> QED
      BY <3>1
  <2>2. CASE ~(i < p)
    <3>1. i + 1 \in 1 .. Len(q) + 1 /\ ~(i + 1 < p) /\ i + 1 # p /\ i + 1 - 1 = i
      BY <1>2, <2>2
    <3>2. i + 1 \in DOMAIN r /\ r[i + 1] = q[i]
      BY <1>3, <1>4, <3>1
    <3> QED
      BY <3>1, <3>2
  <2> QED
    BY <2>1, <2>2
<1> HIDE DEF Old
<1>9. ASSUME NEW x
      PROVE  x \in EventsOf(r, t) <=> x \in EventsOf(q, t) \/ (x = e /\ e.type = t)
  BY <1>5, <1>6, <1>8 DEF EventsOf
<1>10. ASSUME e.type # t \/ e.id \notin IdsOf(q, t)
       PROVE  OncePerId(r, t)
  <2> SUFFICES ASSUME NEW i \in DOMAIN r, NEW j \in DOMAIN r,
                      r[i].type = t, r[j].type = t, r[i].id = r[j].id
               PROVE  i = j
    BY DEF OncePerId
  <2>1. CASE i # p /\ j # p
    <3>1. Old(i) \in DOMAIN q /\ r[i] = q[Old(i)] /\ Old(j) \in DOMAIN q /\ r[j] = q[Old(j)]
      BY <1>6, <2>1
    <3>2. Old(i) = Old(j)
      BY <3>1 DEF OncePerId
    <3> QED
      BY <1>7, <2>1, <3>2
  <2>2. \A k \in DOMAIN r : k # p /\ r[k].type = t => r[k].id \in IdsOf(q, t)
    BY <1>6 DEF IdsOf, EventsOf
  <2> QED
    BY <1>5, <1>10, <2>1, <2>2
<1> QED
  BY <1>9, <1>10 DEF r

-----------------------------------------------------------------------------
(* release_successors and activate_ops. *)

(* The positions up to i at which x is listed. *)
Upto(list, i, x) == {j \in 1 .. i : list[j] = x}

LEMMA UptoCount ==
  ASSUME NEW S, NEW list \in Seq(S), NEW i \in 1 .. Len(list), NEW x
  PROVE  /\ Occurrences(SubSeq(list, 1, i), x) = Cardinality(Upto(list, i, x))
         /\ Cardinality(Upto(list, i, x)) \in Nat
         /\ Cardinality(Upto(list, i, x)) <= Occurrences(list, x)
         /\ Cardinality(Upto(list, i, x)) =
              Cardinality(Upto(list, i - 1, x)) + (IF list[i] = x THEN 1 ELSE 0)
         /\ Cardinality(Upto(list, i - 1, x)) \in Nat
<1>1. DOMAIN list = 1 .. Len(list) /\ Len(list) \in Nat
  BY LenProperties
<1>2. IsFiniteSet(1 .. i) /\ IsFiniteSet(1 .. Len(list)) /\ IsFiniteSet(1 .. i - 1)
  BY <1>1, FS_Interval
<1>3. /\ IsFiniteSet(Upto(list, i, x)) /\ IsFiniteSet(Upto(list, i - 1, x))
      /\ IsFiniteSet({j \in DOMAIN list : list[j] = x})
  BY <1>1, <1>2, FS_Subset DEF Upto
<1>4. Occurrences(SubSeq(list, 1, i), x) = Cardinality(Upto(list, i, x))
  <2>1. \A j \in 1 .. i : list[j] \in S
    BY <1>1, ElementOfSeq
  <2>2. /\ SubSeq(list, 1, i) \in Seq(S) /\ Len(SubSeq(list, 1, i)) = i
        /\ \A j \in 1 .. i : SubSeq(list, 1, i)[j] = list[j]
    BY <1>1, <2>1, SubSeqProperties
  <2>3. DOMAIN SubSeq(list, 1, i) = 1 .. i
    BY <2>2, LenProperties
  <2>4. {j \in DOMAIN SubSeq(list, 1, i) : SubSeq(list, 1, i)[j] = x} = Upto(list, i, x)
    BY <2>2, <2>3 DEF Upto
  <2> QED
    BY <2>4 DEF Occurrences
<1>5. Upto(list, i, x) \subseteq {j \in DOMAIN list : list[j] = x}
  BY <1>1 DEF Upto
<1>6. Cardinality(Upto(list, i, x)) <= Occurrences(list, x)
  BY <1>3, <1>5, FS_Subset DEF Occurrences
<1>7. Cardinality(Upto(list, i, x)) \in Nat /\ Cardinality(Upto(list, i - 1, x)) \in Nat
  BY <1>3, FS_CardinalityType
<1>8. i \notin Upto(list, i - 1, x)
  BY <1>1 DEF Upto
<1>9. CASE list[i] = x
  <2>1. Upto(list, i, x) = Upto(list, i - 1, x) \cup {i}
    BY <1>1, <1>9 DEF Upto
  <2>2. Cardinality(Upto(list, i - 1, x) \cup {i}) = Cardinality(Upto(list, i - 1, x)) + 1
    BY <1>3, <1>8, FS_AddElement
  <2> QED
    BY <1>4, <1>6, <1>7, <1>9, <2>1, <2>2
<1>10. CASE list[i] # x
  <2>1. Upto(list, i, x) = Upto(list, i - 1, x)
    BY <1>1, <1>10 DEF Upto
  <2> QED
    BY <1>4, <1>6, <1>7, <1>10, <2>1
<1> QED
  BY <1>9, <1>10

LEMMA UptoGrows ==
  ASSUME NEW S, NEW list \in Seq(S), NEW x,
         NEW i \in 1 .. Len(list), NEW j \in 1 .. Len(list), i < j, list[j] = x
  PROVE  Cardinality(Upto(list, i, x)) < Cardinality(Upto(list, j, x))
<1>1. Len(list) \in Nat
  BY LenProperties
<1>2. IsFiniteSet(1 .. j - 1)
  BY <1>1, FS_Interval
<1>3. IsFiniteSet(Upto(list, j - 1, x)) /\ Upto(list, i, x) \subseteq Upto(list, j - 1, x)
  BY <1>1, <1>2, FS_Subset DEF Upto
<1>4. Cardinality(Upto(list, i, x)) <= Cardinality(Upto(list, j - 1, x))
  BY <1>3, FS_Subset
<1>5. Cardinality(Upto(list, j, x)) = Cardinality(Upto(list, j - 1, x)) + 1
      /\ Cardinality(Upto(list, j - 1, x)) \in Nat
  BY UptoCount
<1>6. Cardinality(Upto(list, i, x)) \in Nat
  BY UptoCount
<1> QED
  BY <1>4, <1>5, <1>6

(* The operations whose last predecessor entries the list stands for. *)
Freed(counts, act, list) ==
  {k \in act \cap ToSet(list) : counts[k] > 0 /\ counts[k] <= Occurrences(list, k)}

(* The positions I of a list hold the elements of K, each of them once. *)
HoldOnce(list, I, K) ==
  /\ I \in SUBSET DOMAIN list
  /\ \A i, j \in I : list[i] = list[j] => i = j
  /\ {list[i] : i \in I} = K

(* Each of them is pushed exactly once, at the entry that takes its count  *)
(* to zero, however often it is listed.                                    *)
LEMMA ReleasedOnce ==
  ASSUME NEW D, NEW counts \in [D -> Nat], NEW S, S \subseteq D,
         NEW list \in Seq(S), NEW act
  PROVE  HoldOnce(list, ReleasedAt(counts, act, list), Freed(counts, act, list))
<1> DEFINE I == ReleasedAt(counts, act, list)
           n(i, x) == Cardinality(Upto(list, i, x))
<1>1. DOMAIN list = 1 .. Len(list) /\ Len(list) \in Nat
      /\ \A i \in DOMAIN list : list[i] \in S /\ list[i] \in D
  BY LenProperties, ElementOfSeq
<1>2. \A i : i \in I <=> i \in 1 .. Len(list) /\ list[i] \in act
                           /\ n(i, list[i]) = counts[list[i]]
  BY <1>1, UptoCount DEF ReleasedAt
<1> HIDE DEF I
<1>3. ASSUME NEW i \in I, NEW j \in I, list[i] = list[j] PROVE i = j
  <2>1. i \in 1 .. Len(list) /\ j \in 1 .. Len(list) /\ n(i, list[i]) = n(j, list[i])
        /\ n(i, list[i]) \in Nat
    BY <1>2, <1>3, UptoCount
  <2>2. ~(i < j)
    BY <1>3, <2>1, UptoGrows
  <2>3. ~(j < i)
    BY <1>3, <2>1, UptoGrows
  <2> QED
    BY <1>1, <2>1, <2>2, <2>3
<1>4. ASSUME NEW i \in I PROVE list[i] \in Freed(counts, act, list)
  <2>1. i \in 1 .. Len(list) /\ list[i] \in act /\ n(i, list[i]) = counts[list[i]]
    BY <1>2
  <2>2. n(i, list[i]) = n(i - 1, list[i]) + 1 /\ n(i - 1, list[i]) \in Nat
        /\ n(i, list[i]) <= Occurrences(list, list[i])
    BY <2>1, UptoCount
  <2>3. list[i] \in ToSet(list) /\ counts[list[i]] \in Nat
    BY <1>1, <2>1 DEF ToSet
  <2> HIDE DEF n
  <2>4. counts[list[i]] > 0 /\ counts[list[i]] <= Occurrences(list, list[i])
    BY <2>1, <2>2, <2>3
  <2> QED
    BY <2>1, <2>3, <2>4 DEF Freed
<1>5. ASSUME NEW x \in Freed(counts, act, list) PROVE \E i \in I : list[i] = x
  <2>1. x \in act /\ counts[x] > 0 /\ counts[x] <= Occurrences(list, x) /\ counts[x] \in Nat
    BY <1>1 DEF Freed, ToSet
  <2> DEFINE T == {i \in 1 .. Len(list) : n(i, x) >= counts[x]}
  <2>2. \A i \in 1 .. Len(list) : n(i, x) \in Nat /\ n(i - 1, x) \in Nat
                                  /\ n(i, x) = n(i - 1, x) + (IF list[i] = x THEN 1 ELSE 0)
    BY UptoCount
  <2>3. Len(list) \in T
    <3>1. Len(list) \in 1 .. Len(list)
      BY <1>1 DEF Freed, ToSet
    <3>2. Upto(list, Len(list), x) = {j \in DOMAIN list : list[j] = x}
      BY <1>1 DEF Upto
    <3> QED
      BY <2>1, <2>2, <3>1, <3>2 DEF Occurrences
  <2>4. T \in SUBSET Nat /\ T # {}
    BY <1>1, <2>3
  <2>5. PICK m \in T : \A i \in T : m <= i
    BY <2>4, LeastNumber
  <2>6. n(m - 1, x) < counts[x]
    <3>1. CASE m = 1
      <4>1. Upto(list, 0, x) = {}
        BY DEF Upto
      <4>2. n(m - 1, x) = n(0, x)
        BY <3>1
      <4>3. n(0, x) = 0
        BY <4>1, FS_EmptySet
      <4> HIDE DEF n
      <4> QED
        BY <2>1, <4>2, <4>3
    <3>2. CASE m # 1
      <4>1. m - 1 \in 1 .. Len(list) /\ m - 1 \notin T
        BY <1>1, <2>5, <3>2
      <4> QED
        BY <2>1, <2>2, <4>1
    <3> QED
      BY <3>1, <3>2
  <2>7. m \in 1 .. Len(list) /\ n(m, x) >= counts[x]
    BY <2>5
  <2> HIDE DEF T, n
  <2>8. list[m] = x /\ n(m, x) = counts[x]
    BY <2>1, <2>2, <2>6, <2>7
  <2> QED
    BY <1>2, <2>1, <2>7, <2>8
<1>6. I \in SUBSET DOMAIN list
  BY <1>1, <1>2
<1> QED
  BY <1>3, <1>4, <1>5, <1>6 DEF I, HoldOnce

LEMMA ReleasedQueue ==
  ASSUME NEW D, NEW counts \in [D -> Nat], NEW S, S \subseteq D,
         NEW q \in Seq(S), NEW list \in Seq(S), NEW act,
         NEW r \in Pushed(q, list, ReleasedAt(counts, act, list)),
         IsInjective(q), \A k \in ToSet(q) : counts[k] = 0
  PROVE  /\ r \in Seq(S)
         /\ IsInjective(r)
         /\ ToSet(r) = ToSet(q) \cup Freed(counts, act, list)
<1> DEFINE I == ReleasedAt(counts, act, list)
<1>1. /\ I \in SUBSET DOMAIN list
      /\ \A i, j \in I : list[i] = list[j] => i = j
      /\ {list[i] : i \in I} = Freed(counts, act, list)
  <2>1. HoldOnce(list, I, Freed(counts, act, list))
    BY ReleasedOnce
  <2> HIDE DEF I
  <2> QED
    BY <2>1 DEF HoldOnce
<1>2. r \in Pushed(q, list, I)
  OBVIOUS
<1> HIDE DEF I
<1>3. \A i \in I : list[i] \notin ToSet(q)
  BY <1>1 DEF Freed
<1>4. /\ r \in Seq(S)
      /\ IsInjective(r)
      /\ ToSet(r) = ToSet(q) \cup {list[i] : i \in I}
  <2>1. I \in SUBSET DOMAIN list /\ \A i, j \in I : list[i] = list[j] => i = j
    BY <1>1
  <2> QED
    BY ONLY IsInjective(q), <1>2, <1>3, <2>1, PushedElements,
            q \in Seq(S), list \in Seq(S)
<1> QED
  BY <1>1, <1>4, Zenon

LEMMA ReleasedZero ==
  ASSUME NEW D, NEW counts \in [D -> Nat], NEW S, NEW list \in Seq(S), NEW act, NEW k \in D
  PROVE  /\ counts[k] = 0 => ReleasedCounts(counts, list)[k] = 0
         /\ k \in Freed(counts, act, list) => ReleasedCounts(counts, list)[k] = 0
         /\ k \in act /\ counts[k] > 0 /\ ReleasedCounts(counts, list)[k] = 0
              => k \in Freed(counts, act, list)
<1>1. Occurrences(list, k) \in Nat
  BY OccurrencesType
<1>2. ReleasedCounts(counts, list)[k] =
        IF counts[k] > Occurrences(list, k) THEN counts[k] - Occurrences(list, k) ELSE 0
  BY DEF ReleasedCounts
<1>3. Occurrences(list, k) > 0 => k \in ToSet(list)
  <2>1. k \notin ToSet(list) => {i \in DOMAIN list : list[i] = k} = {}
    BY DEF ToSet
  <2>2. k \notin ToSet(list) => Occurrences(list, k) = 0
    BY <2>1, FS_EmptySet DEF Occurrences
  <2> QED
    BY <2>2
<1> QED
  BY <1>1, <1>2, <1>3 DEF Freed

(* activate_ops pushes the targets that wait for nobody. *)
LEMMA ActivatedQueue ==
  ASSUME NEW S, NEW q \in Seq(S), NEW keys \in Seq(S), NEW preds, NEW done,
         NEW r \in Pushed(q, keys, ActivatedAt(keys, preds, done)),
         IsInjective(q), IsInjective(keys), ToSet(q) \cap ToSet(keys) = {}
  PROVE  /\ r \in Seq(S)
         /\ IsInjective(r)
         /\ ToSet(r) = ToSet(q) \cup
                       {k \in ToSet(keys) : LivePredecessors(preds[k], done) = 0}
<1> DEFINE I == ActivatedAt(keys, preds, done)
<1>1. /\ I \in SUBSET DOMAIN keys
      /\ \A i, j \in I : keys[i] = keys[j] => i = j
  BY DEF ActivatedAt, IsInjective
<1>2. {keys[i] : i \in I} = {k \in ToSet(keys) : LivePredecessors(preds[k], done) = 0}
  BY DEF ActivatedAt, ToSet
<1>3. r \in Pushed(q, keys, I)
  OBVIOUS
<1>4. \A i \in I : keys[i] \notin ToSet(q)
  BY <1>1 DEF ToSet
<1> HIDE DEF I
<1> QED
  BY <1>1, <1>2, <1>3, <1>4, PushedElements

-----------------------------------------------------------------------------
(* Where the operations are. *)

Queued == ToSet(ready)
Stalling == ToSet(GatesOf(stalled))
Flying == IdsOf(events, "gate")
IssuedOps == Queued \cup Stalling \cup Flying \cup finished

(* The activations on their way, and what they will activate. *)
Awaited == EventsOf(events, "hook")
Coming == UNION {ToSet(TargetsOf(input, e.id, e.outcome)) : e \in Awaited}

(* Every operation is in one place, and only when it waits for nobody.     *)
Placed ==
  /\ IsInjective(ready) /\ IsInjective(GatesOf(stalled)) /\ OncePerId(events, "gate")
  /\ Queued \cap Stalling = {} /\ Queued \cap Flying = {} /\ Queued \cap finished = {}
  /\ Stalling \cap Flying = {} /\ Stalling \cap finished = {} /\ Flying \cap finished = {}
  /\ IssuedOps \subseteq active
  /\ \A k \in IssuedOps : pending[k] = 0

(* An activation belongs to a finished measurement, and whatever has been  *)
(* activated belongs to a measurement whose activation is over.            *)
Activations ==
  /\ OncePerId(events, "hook")
  /\ \A e \in Awaited : e.id \in finished
  /\ input.active \subseteq active
  /\ \A k \in (active \cap Ops) \ input.active :
       \E m \in HookedOps \cap finished, o \in Outcomes :
         k \in ToSet(TargetsOf(input, m, o)) /\ \A e \in Awaited : e.id # m

(* run was given one of the inputs and keeps to it. *)
Chosen == input \in Inputs

LEMMA PlacedInit == Init => Placed /\ Activations
<1> SUFFICES ASSUME Init PROVE Placed /\ Activations
  OBVIOUS
<1>1. /\ stalled = <<>> /\ finished = {} /\ active = input.active
      /\ active \subseteq Ops /\ events \in Seq(Event) /\ Ops \subseteq Key
      /\ NumOps \in Nat /\ MaxFixups \in Nat
  BY TypeInit, SizesAssumption, KnownKeys DEF Init, TypeOK, Input
<1>2. \A i \in DOMAIN events : events[i].type \in {"produced", "failed"}
  <2>1. PICK draw \in [FactoryIds -> Draws] :
          events \in [1 .. NumFactories -> {FactoryOutcome(f, draw[f], 0) : f \in FactoryIds}]
    BY DEF Init
  <2>2. \A d \in Draws : d.type \in {"produced", "failed"}
    BY InputsAssumption DEF Init, Draws, Input
  <2> QED
    BY <2>1, <2>2 DEF FactoryOutcome
<1>3. EventsOf(events, "gate") = {} /\ EventsOf(events, "hook") = {}
      /\ OncePerId(events, "gate") /\ OncePerId(events, "hook")
  BY <1>2 DEF EventsOf, OncePerId
<1>4. Flying = {} /\ Awaited = {}
  BY <1>3 DEF Flying, IdsOf, Awaited
<1>5. IsInjective(GatesOf(stalled)) /\ Stalling = {}
  BY <1>1 DEF GatesOf, Stalling, ToSet, IsInjective
<1>6. IsInjective(ready) /\ ToSet(ready) \subseteq InitialReadySet(pending, active)
  <2> DEFINE I == InitialReadySet(pending, active)
  <2>1. I \in SUBSET (1 .. NumOps) /\ ready \in InOrder(I)
    BY <1>1 DEF Init, InitialReadySet, Ops
  <2>2. Numbers(ready, I)
    BY <1>1, <2>1, InOrderOnto
  <2> HIDE DEF I
  <2>3. IsInjective(ready) /\ ToSet(ready) \subseteq I
    BY <2>2 DEF Numbers, IsInjective, ToSet
  <2> QED
    BY <2>3 DEF I
<1>7. Queued \subseteq active /\ \A k \in Queued : pending[k] = 0
  BY <1>6 DEF Queued, InitialReadySet
<1> QED
  BY <1>1, <1>3, <1>4, <1>5, <1>6, <1>7 DEF Placed, Activations, IssuedOps

(* The targets of a measurement that is about to activate them: distinct,  *)
(* and not active yet.                                                     *)
LEMMA TargetsFresh ==
  ASSUME TypeOK, Activations, ActivatedOnce(input),
         NEW m \in HookedOps, NEW o \in Outcomes,
         m \notin finished \/ \E e \in Awaited : e.id = m
  PROVE  /\ IsInjective(TargetsOf(input, m, o))
         /\ ToSet(TargetsOf(input, m, o)) \cap active = {}
         /\ ToSet(TargetsOf(input, m, o)) \subseteq Ops
<1>1. TargetsOf(input, m, o) \in Seq(Ops)
  BY TargetsType DEF TargetsOf
<1>2. ToSet(TargetsOf(input, m, o)) \subseteq Ops
  BY <1>1, ElementOfSeq, LenProperties DEF ToSet
<1>3. m \in Measurements(input)
  BY DEF HookedOps, Measurements
<1>4. IsInjective(TargetsOf(input, m, o))
  BY <1>3 DEF ActivatedOnce, IsInjective
<1>5. ASSUME NEW k \in ToSet(TargetsOf(input, m, o)), k \in active PROVE FALSE
  <2>1. k \notin input.active
    BY <1>3, <1>5 DEF ActivatedOnce
  <2>2. PICK n \in HookedOps \cap finished, p \in Outcomes :
          k \in ToSet(TargetsOf(input, n, p)) /\ \A e \in Awaited : e.id # n
    BY <1>2, <1>5, <2>1 DEF Activations
  <2>3. n \in Measurements(input)
    BY <2>2 DEF HookedOps, Measurements
  <2>4. m = n
    BY <1>3, <1>5, <2>2, <2>3 DEF ActivatedOnce, ToSet
  <2> QED
    BY <2>2, <2>4
<1> QED
  BY <1>2, <1>4, <1>5

(* What each kind of event, popped or scheduled, does to the two sets.     *)
Distinct(q) == OncePerId(q, "gate") /\ OncePerId(q, "hook")

LEMMA OutcomeReplaced ==
  ASSUME TypeOK, Placed, Activations, NEW t \in {"produced", "failed"}, Due(t),
         StartFactory(Head(events).id)
  PROVE  Distinct(events') /\ Flying' = Flying /\ Awaited' = Awaited
<1>1. PICK draw \in Draws :
        events' = Scheduled(Tail(events), FactoryOutcome(Head(events).id, draw, now))
  BY DEF StartFactory
<1> DEFINE e == FactoryOutcome(Head(events).id, draw, now)
<1>2. e \in Event /\ Tail(events) \in Seq(Event) /\ events \in Seq(Event)
      /\ events # <<>> /\ Head(events).type = t
  BY HeadEvent, EventsType, FactoryOutcomeType DEF Event, Due
<1>3. e.type \in {"produced", "failed"}
  BY EventsType DEF FactoryOutcome, Draws, Input
<1> HIDE DEF e
<1>4. ASSUME NEW u \in {"gate", "hook"}, OncePerId(events, u)
      PROVE  OncePerId(events', u) /\ EventsOf(events', u) = EventsOf(events, u)
  <2>1. t # u /\ e.type # u
    BY <1>3
  <2>2. OncePerId(Tail(events), u) /\ EventsOf(Tail(events), u) = EventsOf(events, u)
    BY <1>2, <1>4, <2>1, EventsTail
  <2>3. OncePerId(Scheduled(Tail(events), e), u)
        /\ EventsOf(Scheduled(Tail(events), e), u) = EventsOf(Tail(events), u)
    BY <1>2, <2>1, <2>2, EventsScheduled
  <2> QED
    BY <1>1, <2>2, <2>3 DEF e
<1> QED
  BY <1>4 DEF Placed, Activations, Distinct, Flying, IdsOf, Awaited

LEMMA CompletionPopped ==
  ASSUME TypeOK, Placed, Activations, Due("gate")
  PROVE  /\ Distinct(Tail(events))
         /\ Head(events).id \in Flying
         /\ IdsOf(Tail(events), "gate") = Flying \ {Head(events).id}
         /\ EventsOf(Tail(events), "hook") = Awaited
<1>1. events \in Seq(Event) /\ events # <<>> /\ Head(events).type = "gate"
  BY EventsType DEF Due
<1>2. OncePerId(events, "gate") /\ OncePerId(events, "hook")
  BY DEF Placed, Activations
<1>3. /\ OncePerId(Tail(events), "gate")
      /\ Head(events) \in EventsOf(events, "gate")
      /\ IdsOf(Tail(events), "gate") = IdsOf(events, "gate") \ {Head(events).id}
  BY <1>1, <1>2, EventsTail
<1>4. /\ OncePerId(Tail(events), "hook")
      /\ EventsOf(Tail(events), "hook") = EventsOf(events, "hook")
  BY <1>1, <1>2, EventsTail
<1> QED
  BY <1>3, <1>4 DEF Distinct, Flying, Awaited, IdsOf

LEMMA ActivationPopped ==
  ASSUME TypeOK, Placed, Activations, Due("hook")
  PROVE  /\ Distinct(Tail(events))
         /\ Head(events) \in Awaited
         /\ IdsOf(Tail(events), "gate") = Flying
         /\ EventsOf(Tail(events), "hook") = Awaited \ {Head(events)}
         /\ Head(events).id \notin IdsOf(Tail(events), "hook")
<1>1. events \in Seq(Event) /\ events # <<>> /\ Head(events).type = "hook"
  BY EventsType DEF Due
<1>2. OncePerId(events, "gate") /\ OncePerId(events, "hook")
  BY DEF Placed, Activations
<1>3. /\ OncePerId(Tail(events), "hook")
      /\ Head(events) \in EventsOf(events, "hook")
      /\ EventsOf(Tail(events), "hook") = EventsOf(events, "hook") \ {Head(events)}
      /\ IdsOf(Tail(events), "hook") = IdsOf(events, "hook") \ {Head(events).id}
  BY <1>1, <1>2, EventsTail
<1>4. /\ OncePerId(Tail(events), "gate")
      /\ EventsOf(Tail(events), "gate") = EventsOf(events, "gate")
  BY <1>1, <1>2, EventsTail
<1> QED
  BY <1>3, <1>4 DEF Distinct, Flying, Awaited, IdsOf

LEMMA CompletionScheduled ==
  ASSUME TypeOK, Placed, Activations, NEW k \in Known, k \notin Flying
  PROVE  LET q == Scheduled(events, GateCompletion(k))
         IN  /\ Distinct(q)
             /\ IdsOf(q, "gate") = Flying \cup {k}
             /\ EventsOf(q, "hook") = Awaited
<1> DEFINE e == GateCompletion(k)
<1>1. events \in Seq(Event)
  BY EventsType
<1>2. e \in Event /\ e.type = "gate" /\ e.id = k
  <2>1. now + TotalGateCost(k) \in Nat
    BY CostType DEF TypeOK
  <2> QED
    BY <2>1 DEF GateCompletion, Event, GateEvent
<1> HIDE DEF e
<1>3. OncePerId(events, "gate") /\ OncePerId(events, "hook")
  BY DEF Placed, Activations
<1>4. /\ OncePerId(Scheduled(events, e), "gate")
      /\ EventsOf(Scheduled(events, e), "gate") = EventsOf(events, "gate") \cup {e}
  BY <1>1, <1>2, <1>3, EventsScheduled DEF Flying
<1>5. /\ OncePerId(Scheduled(events, e), "hook")
      /\ EventsOf(Scheduled(events, e), "hook") = EventsOf(events, "hook")
  BY <1>1, <1>2, <1>3, EventsScheduled
<1> QED
  BY <1>2, <1>4, <1>5 DEF Distinct, IdsOf, Flying, Awaited, e

LEMMA ActivationScheduled ==
  ASSUME TypeOK, Placed, Activations, Due("gate"), NEW o \in Outcomes,
         Head(events).id \in HookedOps
  PROVE  LET e == [at |-> now + input.feedback, type |-> "hook",
                   id |-> Head(events).id, outcome |-> o]
             q == Scheduled(Tail(events), e)
         IN  /\ Distinct(q)
             /\ IdsOf(q, "gate") = Flying \ {Head(events).id}
             /\ EventsOf(q, "hook") = Awaited \cup {e}
<1> DEFINE e == [at |-> now + input.feedback, type |-> "hook",
                 id |-> Head(events).id, outcome |-> o]
           rest == Tail(events)
<1>1. rest \in Seq(Event)
  BY HeadEvent
<1>2. e \in Event /\ e.type = "hook" /\ e.id = Head(events).id
  BY DEF TypeOK, Input, Event, HookEvent
<1>3. Distinct(rest) /\ IdsOf(rest, "gate") = Flying \ {Head(events).id}
      /\ EventsOf(rest, "hook") = Awaited /\ Head(events).id \notin finished
  BY CompletionPopped DEF Placed
<1> HIDE DEF e, rest
<1>4. e.id \notin IdsOf(rest, "hook")
  BY <1>2, <1>3 DEF IdsOf, Activations
<1>5. /\ OncePerId(Scheduled(rest, e), "hook")
      /\ EventsOf(Scheduled(rest, e), "hook") = EventsOf(rest, "hook") \cup {e}
  BY <1>1, <1>2, <1>3, <1>4, EventsScheduled DEF Distinct
<1>6. /\ OncePerId(Scheduled(rest, e), "gate")
      /\ EventsOf(Scheduled(rest, e), "gate") = EventsOf(rest, "gate")
  BY <1>1, <1>2, <1>3, EventsScheduled DEF Distinct
<1>7. IdsOf(Scheduled(rest, e), "gate") = IdsOf(rest, "gate")
  BY <1>6 DEF IdsOf
<1> QED
  BY <1>3, <1>5, <1>6, <1>7 DEF Distinct, e, rest

-----------------------------------------------------------------------------
(* No operation runs twice. *)

(* A ready queue q beside the stalled gates, the completions in flight and *)
(* the finished operations: with these counts and active flags, every      *)
(* operation is in one place.                                              *)
FreeQueue(q, counts, act) ==
  /\ q \in Seq(Known) /\ IsInjective(q)
  /\ counts \in [Key -> Nat]
  /\ ToSet(q) \cap (Stalling \cup Flying \cup finished) = {}
  /\ ToSet(q) \cup Stalling \cup Flying \cup finished \subseteq act
  /\ \A k \in ToSet(q) \cup Stalling \cup Flying \cup finished : counts[k] = 0

LEMMA PlacedQueue == TypeOK /\ Placed => FreeQueue(ready, pending, active)
BY DEF TypeOK, Placed, FreeQueue, IssuedOps, Queued

(* What activate_ops pushes has not been anywhere. *)
LEMMA ActivatedFree ==
  ASSUME TypeOK, Placed, NEW keys \in Seq(Ops), IsInjective(keys),
         ToSet(keys) \cap active = {}, NEW done,
         NEW q \in Pushed(ready, keys, ActivatedAt(keys, input.preds, done))
  PROVE  /\ FreeQueue(q, ActivatedCounts(pending, keys, input.preds, done),
                      active \cup ToSet(keys))
         /\ ToSet(q) = Queued \cup
                       {k \in ToSet(keys) : LivePredecessors(input.preds[k], done) = 0}
<1> DEFINE counts == ActivatedCounts(pending, keys, input.preds, done)
           new == {k \in ToSet(keys) : LivePredecessors(input.preds[k], done) = 0}
<1>1. /\ ready \in Seq(Known) /\ keys \in Seq(Known) /\ pending \in [Key -> Nat]
      /\ input.preds \in [Ops -> Seq(Ops)] /\ IsInjective(ready)
  BY KnownKeys, SeqMonotonic DEF TypeOK, Input, Placed
<1>2. ToSet(ready) \cap ToSet(keys) = {}
  BY DEF Placed, IssuedOps, Queued
<1>3. q \in Seq(Known) /\ IsInjective(q) /\ ToSet(q) = Queued \cup new
  <2>1. q \in Seq(Known) /\ IsInjective(q) /\ ToSet(q) = ToSet(ready) \cup new
    BY <1>1, <1>2, ActivatedQueue
  <2> QED
    BY <2>1 DEF Queued
<1>4. counts \in [Key -> Nat]
  BY <1>1, ActivatedCountsType
<1>5. new \cap IssuedOps = {} /\ IssuedOps \cap ToSet(keys) = {}
  BY DEF Placed
<1>6. \A k \in Known : k \in IssuedOps => counts[k] = 0
  <2> TAKE k \in Known
  <2>1. k \in DOMAIN pending
    BY <1>1, KnownKeys
  <2> QED
    BY <1>5, <2>1 DEF ActivatedCounts, Placed
<1>7. \A k \in new : counts[k] = 0
  <2> TAKE k \in new
  <2>1. k \in DOMAIN pending
    BY <1>1, KnownKeys, ElementOfSeq, LenProperties DEF ToSet
  <2> QED
    BY <2>1 DEF ActivatedCounts
<1>8. IssuedOps \subseteq Known
  BY DEF Placed, TypeOK
<1>9. ToSet(q) \cup Stalling \cup Flying \cup finished = IssuedOps \cup new
  BY <1>3 DEF IssuedOps
<1>10. ToSet(q) \cap (Stalling \cup Flying \cup finished) = {}
  BY <1>3, <1>5 DEF IssuedOps, Placed
<1> HIDE DEF counts
<1>11. IssuedOps \cup new \subseteq active \cup ToSet(keys)
  BY DEF Placed
<1>12. \A k \in IssuedOps \cup new : counts[k] = 0
  BY <1>6, <1>7, <1>8
<1> QED
  BY <1>3, <1>4, <1>9, <1>10, <1>11, <1>12 DEF FreeQueue, counts

(* The gate whose completion is processed moves to the finished ones, and  *)
(* release_successors pushes what has not been anywhere either: a count    *)
(* that falls to zero was positive.                                        *)
LEMMA ReleasePlaced ==
  ASSUME TypeOK, Placed, NEW gate \in Flying, NEW q, NEW counts,
         FreeQueue(q, counts, active'), NEW list \in Seq(Known),
         finished' = finished \cup {gate}, stalled' = stalled,
         Flying' = Flying \ {gate}, OncePerId(events', "gate"),
         pending' = ReleasedCounts(counts, list),
         ready' \in Pushed(q, list, ReleasedAt(counts, active', list))
  PROVE  /\ Placed'
         /\ IssuedOps' = ToSet(q) \cup Stalling \cup Flying \cup finished
                           \cup Freed(counts, active', list)
<1> DEFINE new == Freed(counts, active', list)
           before == ToSet(q) \cup Stalling \cup Flying \cup finished
<1>1. /\ q \in Seq(Known) /\ IsInjective(q) /\ counts \in [Key -> Nat]
      /\ ToSet(q) \cap (Stalling \cup Flying \cup finished) = {}
      /\ before \subseteq active' /\ \A k \in before : counts[k] = 0
  BY DEF FreeQueue
<1>2. IsInjective(ready') /\ Queued' = ToSet(q) \cup new
  <2>1. Known \subseteq Key /\ \A k \in ToSet(q) : counts[k] = 0
    BY <1>1, KnownKeys
  <2>2. IsInjective(ready') /\ ToSet(ready') = ToSet(q) \cup new
    <3>1. ready' \in Pushed(q, list, ReleasedAt(counts, active', list))
      OBVIOUS
    <3>2. /\ q \in Seq(Known) /\ list \in Seq(Known) /\ IsInjective(q)
          /\ counts \in [Key -> Nat]
      BY <1>1
    <3> QED
      BY <2>1, <3>1, <3>2, ReleasedQueue
  <2> QED
    BY <2>2 DEF Queued
<1>3. new \cap before = {}
  BY <1>1 DEF Freed
<1>4. new \subseteq active'
  BY DEF Freed
<1>5. Stalling' = Stalling /\ GatesOf(stalled') = GatesOf(stalled)
  BY DEF Stalling
<1>6. IssuedOps' = before \cup new
  BY <1>2, <1>5 DEF IssuedOps
<1>7. before \subseteq Key /\ new \subseteq Key
  <2>1. Stalling \cup Flying \cup finished \subseteq Known
    BY DEF Placed, IssuedOps, TypeOK
  <2>2. ToSet(q) \subseteq Known /\ ToSet(list) \subseteq Known
    BY <1>1, ElementOfSeq, LenProperties DEF ToSet
  <2> QED
    BY <2>1, <2>2, KnownKeys DEF Freed
<1>8. \A k \in before \cup new : pending'[k] = 0
  <2> TAKE k \in before \cup new
  <2>1. k \in Key
    BY <1>7
  <2>2. k \in before => counts[k] = 0
    BY <1>1
  <2>3. /\ counts[k] = 0 => ReleasedCounts(counts, list)[k] = 0
        /\ k \in new => ReleasedCounts(counts, list)[k] = 0
    BY <1>1, <2>1, ReleasedZero
  <2> HIDE DEF new, before
  <2> QED
    BY <2>2, <2>3
<1>9. /\ Queued' \cap Stalling' = {} /\ Queued' \cap Flying' = {}
      /\ Queued' \cap finished' = {} /\ Stalling' \cap Flying' = {}
      /\ Stalling' \cap finished' = {} /\ Flying' \cap finished' = {}
  <2>1. /\ Stalling \cap Flying = {} /\ Stalling \cap finished = {}
        /\ Flying \cap finished = {} /\ gate \in Flying
    BY DEF Placed
  <2> HIDE DEF new
  <2> QED
    BY <1>1, <1>2, <1>3, <1>5, <2>1
<1>10. IssuedOps' \subseteq active'
  BY <1>1, <1>4, <1>6
<1>11. IsInjective(GatesOf(stalled'))
  BY <1>5 DEF Placed
<1> HIDE DEF new, before
<1> QED
  BY <1>2, <1>6, <1>8, <1>9, <1>10, <1>11 DEF Placed, new, before

(* The actions, as moves between the places; gateDone is the operation of  *)
(* the event being processed.                                              *)
gateDone == Head(events).id

LEMMA CompletionPlaced ==
  ASSUME TypeOK, Placed, Activations, GateCompleted \/ MeasuredDeferred
  PROVE  /\ Placed'
         /\ IssuedOps' = IssuedOps \cup Freed(pending, active, succs[gateDone])
         /\ gateDone \in Flying
<1> DEFINE list == succs[gateDone]
<1>1. /\ Due("gate") /\ CountCompletion(gateDone) /\ UNCHANGED <<active, stalled>>
      /\ pending' = ReleasedCounts(pending, list)
      /\ ready' \in Pushed(ready, list, ReleasedAt(pending, active, list))
  BY DEF GateCompleted, MeasuredDeferred, gateDone
<1>2. gateDone \in Flying /\ list \in Seq(Known) /\ finished' = finished \cup {gateDone}
  BY <1>1, CompletionPopped, CompletionType DEF CountCompletion, gateDone
<1>3. Flying' = Flying \ {gateDone} /\ OncePerId(events', "gate")
  <2>1. CASE events' = Tail(events)
    BY <1>1, <2>1, CompletionPopped DEF Flying, Distinct, gateDone
  <2>2. CASE MeasuredDeferred
    <3>1. gateDone \in HookedOps
      BY <2>2 DEF MeasuredDeferred, HookedOps, gateDone
    <3>2. PICK o \in Outcomes :
            events' = Scheduled(Tail(events), [at |-> now + input.feedback, type |-> "hook",
                                               id |-> Head(events).id, outcome |-> o])
      BY <2>2 DEF MeasuredDeferred
    <3> QED
      BY <1>1, <3>1, <3>2, ActivationScheduled DEF Flying, Distinct, gateDone
  <2> QED
    BY <2>1, <2>2 DEF GateCompleted
<1>4. FreeQueue(ready, pending, active')
  BY <1>1, PlacedQueue
<1> HIDE DEF list
<1>5. /\ Placed'
      /\ IssuedOps' = ToSet(ready) \cup Stalling \cup Flying \cup finished
                        \cup Freed(pending, active', list)
  BY <1>1, <1>2, <1>3, <1>4, ReleasePlaced
<1> QED
  BY <1>1, <1>2, <1>5 DEF IssuedOps, Queued, list

LEMMA InstantPlaced ==
  ASSUME TypeOK, Placed, Activations, ActivatedOnce(input), MeasuredInstant
  PROVE  /\ gateDone \in Flying /\ gateDone \in HookedOps
         /\ Placed'
         /\ \E o \in Outcomes :
              LET keys == TargetsOf(input, gateDone, o)
                  counts == ActivatedCounts(pending, keys, input.preds, CompletedSet')
              IN  /\ total' = total + Len(keys)
                  /\ active' = active \cup ToSet(keys)
                  /\ pending' = ReleasedCounts(counts, succs[gateDone])
                  /\ IssuedOps' =
                       IssuedOps
                         \cup {k \in ToSet(keys) :
                                 LivePredecessors(input.preds[k], CompletedSet') = 0}
                         \cup Freed(counts, active', succs[gateDone])
<1> DEFINE list == succs[gateDone]
<1>1. PICK o \in Outcomes :
        LET keys == TargetsOf(input, gateDone, o)
            counts == ActivatedCounts(pending, keys, input.preds, CompletedSet')
        IN  /\ total' = total + Len(keys)
            /\ active' = active \cup ToSet(keys)
            /\ pending' = ReleasedCounts(counts, list)
            /\ \E q \in Pushed(ready, keys,
                               ActivatedAt(keys, input.preds, CompletedSet')) :
                 ready' \in Pushed(q, list, ReleasedAt(counts, active', list))
  BY DEF MeasuredInstant, TargetsOf, gateDone
<1>2. /\ Due("gate") /\ CountCompletion(gateDone) /\ stalled' = stalled
      /\ events' = Tail(events) /\ gateDone \in HookedOps
  BY DEF MeasuredInstant, gateDone, HookedOps
<1>3. gateDone \in Flying /\ list \in Seq(Known) /\ finished' = finished \cup {gateDone}
  BY <1>2, CompletionPopped, CompletionType DEF CountCompletion, gateDone
<1>4. Flying' = Flying \ {gateDone} /\ OncePerId(events', "gate")
  BY <1>2, CompletionPopped DEF Flying, Distinct, gateDone
<1> DEFINE keys == TargetsOf(input, gateDone, o)
           done == CompletedSet'
           counts == ActivatedCounts(pending, keys, input.preds, done)
           new == {k \in ToSet(keys) : LivePredecessors(input.preds[k], done) = 0}
<1>5. gateDone \notin finished
  BY <1>3 DEF Placed
<1>6. IsInjective(keys) /\ ToSet(keys) \cap active = {} /\ keys \in Seq(Ops)
  BY <1>2, <1>5, TargetsFresh, TargetsType DEF TargetsOf
<1>7. PICK q \in Pushed(ready, keys, ActivatedAt(keys, input.preds, done)) :
        ready' \in Pushed(q, list, ReleasedAt(counts, active', list))
  BY <1>1
<1>8. /\ active' = active \cup ToSet(keys) /\ pending' = ReleasedCounts(counts, list)
      /\ total' = total + Len(keys)
  BY <1>1
<1> HIDE DEF keys, list, done
<1>9. FreeQueue(q, counts, active') /\ ToSet(q) = Queued \cup new
  BY <1>6, <1>8, ActivatedFree
<1> HIDE DEF counts, new
<1>10. /\ Placed'
       /\ IssuedOps' = ToSet(q) \cup Stalling \cup Flying \cup finished
                         \cup Freed(counts, active', list)
  BY <1>2, <1>3, <1>4, <1>7, <1>8, <1>9, ReleasePlaced
<1>11. IssuedOps' = IssuedOps \cup new \cup Freed(counts, active', list)
  BY <1>9, <1>10 DEF IssuedOps
<1> QED
  BY <1>2, <1>3, <1>8, <1>10, <1>11 DEF counts, new, keys, list, done

LEMMA ActivationPlaced ==
  ASSUME TypeOK, Placed, Activations, ActivatedOnce(input), HookActivation
  PROVE  LET keys == TargetsOf(input, gateDone, Head(events).outcome)
         IN  /\ Placed'
             /\ IsInjective(keys) /\ ToSet(keys) \cap active = {} /\ keys \in Seq(Ops)
             /\ IssuedOps' = IssuedOps \cup
                  {k \in ToSet(keys) : LivePredecessors(input.preds[k], CompletedSet) = 0}
<1> DEFINE o == Head(events).outcome
           keys == TargetsOf(input, gateDone, o)
           done == CompletedSet
           counts == ActivatedCounts(pending, keys, input.preds, done)
           new == {k \in ToSet(keys) : LivePredecessors(input.preds[k], done) = 0}
<1>1. /\ Due("hook") /\ UNCHANGED <<stalled, finished>>
      /\ active' = active \cup ToSet(keys) /\ pending' = counts
      /\ ready' \in Pushed(ready, keys, ActivatedAt(keys, input.preds, done))
      /\ events' = Tail(events)
  BY DEF HookActivation, TargetsOf, gateDone, countVars
<1>2. gateDone \in HookedOps /\ o \in Outcomes
  BY <1>1, HeadEvent DEF gateDone
<1>3. Head(events) \in Awaited /\ OncePerId(events', "gate") /\ Flying' = Flying
  BY <1>1, ActivationPopped DEF Flying, Distinct
<1>4. IsInjective(keys) /\ ToSet(keys) \cap active = {} /\ keys \in Seq(Ops)
  BY <1>2, <1>3, TargetsFresh, TargetsType DEF TargetsOf, gateDone
<1> HIDE DEF keys, done
<1>5. FreeQueue(ready', counts, active') /\ ToSet(ready') = Queued \cup new
  BY <1>1, <1>4, ActivatedFree
<1>6. Stalling' = Stalling /\ GatesOf(stalled') = GatesOf(stalled) /\ Queued' = Queued \cup new
  BY <1>1, <1>5 DEF Stalling, Queued
<1>7. IssuedOps' = Queued' \cup Stalling \cup Flying \cup finished
  BY <1>1, <1>3, <1>6 DEF IssuedOps
<1> HIDE DEF counts, new
<1>8. /\ IsInjective(ready') /\ Queued' \cap (Stalling \cup Flying \cup finished) = {}
      /\ IssuedOps' \subseteq active' /\ \A k \in IssuedOps' : pending'[k] = 0
  BY <1>1, <1>5, <1>7 DEF FreeQueue, Queued
<1>9. Placed'
  BY <1>1, <1>3, <1>6, <1>8 DEF Placed
<1>10. IssuedOps' = IssuedOps \cup new
  BY <1>6, <1>7 DEF IssuedOps
<1> QED
  BY <1>4, <1>9, <1>10 DEF keys, new, done

LEMMA InjectionPlaced ==
  ASSUME TypeOK, Placed, Activations, InjectionError
  PROVE  /\ Placed'
         /\ gateDone \in Flying /\ gateDone \in Ops
         /\ FixupKey(Len(fixups) + 1) \in Key \ Known
         /\ IssuedOps' = IssuedOps \cup {FixupKey(Len(fixups) + 1)}
<1> DEFINE fixup == FixupKey(Len(fixups) + 1)
<1>1. /\ Due("gate") /\ CountCompletion(gateDone) /\ stalled' = stalled
      /\ pending' = [pending EXCEPT ![fixup] = 0]
      /\ active' = active \cup {fixup} /\ ready' = Append(ready, fixup)
      /\ events' = Tail(events) /\ NeedsMagicState(gateDone) /\ Len(fixups) < MaxFixups
  BY DEF InjectionError, gateDone
<1>2. gateDone \in Flying /\ finished' = finished \cup {gateDone}
      /\ Flying' = Flying \ {gateDone} /\ OncePerId(events', "gate")
  BY <1>1, CompletionPopped DEF CountCompletion, gateDone, Flying, Distinct
<1>3. gateDone \in Ops
  BY <1>1 DEF NeedsMagicState, KindOf
<1>4. fixup \in Key /\ fixup \notin Known
  BY <1>1, KnownKeys, SizesAssumption DEF FixupKey, Key, Known
<1>5. IssuedOps \subseteq Known /\ ready \in Seq(Key) /\ IsInjective(ready)
      /\ pending \in [Key -> Nat]
  BY KnownKeys, SeqMonotonic DEF Placed, TypeOK
<1> HIDE DEF fixup
<1>6. fixup \notin IssuedOps /\ fixup \notin ToSet(ready)
  BY <1>4, <1>5 DEF IssuedOps, Queued
<1>7. IsInjective(ready') /\ Queued' = Queued \cup {fixup}
  BY <1>1, <1>4, <1>5, <1>6, QueueAppend DEF Queued
<1>8. Stalling' = Stalling /\ GatesOf(stalled') = GatesOf(stalled)
  BY <1>1 DEF Stalling
<1>9. IssuedOps' = IssuedOps \cup {fixup}
  BY <1>2, <1>7, <1>8 DEF IssuedOps
<1>10. \A k \in IssuedOps' : pending'[k] = 0
  <2> TAKE k \in IssuedOps'
  <2>1. k \in Key
    BY <1>4, <1>5, <1>9, KnownKeys
  <2> QED
    BY <1>1, <1>4, <1>5, <1>9, <2>1 DEF Placed
<1>11. IssuedOps' \subseteq active'
  BY <1>1, <1>9 DEF Placed
<1>12. Placed'
  BY <1>2, <1>6, <1>7, <1>8, <1>10, <1>11 DEF Placed, IssuedOps
<1> QED
  BY <1>2, <1>3, <1>4, <1>9, <1>12 DEF fixup

(* Phases 2 and 3 hand an operation on. *)
Issuing == ServeStalled \/ ServeReady \/ StallReady \/ ScheduleReady

LEMMA IssuingPlaced ==
  ASSUME TypeOK, Placed, Activations, Issuing
  PROVE  /\ Placed' /\ OncePerId(events', "hook")
         /\ IssuedOps' = IssuedOps /\ Awaited' = Awaited
<1>1. /\ ready \in Seq(Known) /\ stalled \in Seq([gate : Known, since : Nat])
      /\ now \in Nat /\ UNCHANGED <<active, pending, finished>>
      /\ GatesOf(stalled) \in Seq(Known)
      /\ GatesOf(stalled) = <<>> <=> stalled = <<>>
  BY GatesOfQueue DEF TypeOK, Issuing, ServeStalled, ServeReady, StallReady, ScheduleReady,
                      dagVars, countVars
<1>2. /\ IsInjective(ready) /\ IsInjective(GatesOf(stalled))
      /\ Distinct(events)
  BY DEF Placed, Activations, Distinct
<1>3. ASSUME ready # <<>>
      PROVE  /\ Head(ready) \in Known /\ Head(ready) \in Queued
             /\ IsInjective(Tail(ready)) /\ ToSet(Tail(ready)) = Queued \ {Head(ready)}
  BY <1>1, <1>2, <1>3, QueueTail, HeadTailProperties DEF Queued
<1>4. ASSUME NEW k \in Known, k \in Queued \cup Stalling,
             events' = Scheduled(events, GateCompletion(k))
      PROVE  /\ OncePerId(events', "gate") /\ OncePerId(events', "hook")
             /\ Flying' = Flying \cup {k} /\ Awaited' = Awaited
  <2>1. k \notin Flying
    BY <1>4 DEF Placed
  <2> QED
    BY <1>4, <2>1, CompletionScheduled DEF Distinct, Flying, Awaited
<1>5. CASE ServeStalled
  <2> DEFINE k == Head(stalled).gate
  <2>1. stalled # <<>> /\ Serve(k) /\ stalled' = Tail(stalled) /\ ready' = ready
    BY <1>5 DEF ServeStalled
  <2>2. Head(GatesOf(stalled)) = k /\ GatesOf(stalled') = Tail(GatesOf(stalled))
    BY <1>1, <2>1, GatesOfTail
  <2>3. GatesOf(stalled) # <<>>
    BY <1>1, <2>1
  <2>4. k \in Known /\ k \in Stalling
    BY <1>1, <1>2, <2>2, <2>3, QueueTail, HeadTailProperties DEF Stalling
  <2>5. IsInjective(GatesOf(stalled')) /\ Stalling' = Stalling \ {k}
    BY <1>1, <1>2, <2>2, <2>3, QueueTail DEF Stalling
  <2>6. events' = Scheduled(events, GateCompletion(k))
    BY <2>1 DEF Serve
  <2> HIDE DEF k
  <2>7. /\ OncePerId(events', "gate") /\ OncePerId(events', "hook")
        /\ Flying' = Flying \cup {k} /\ Awaited' = Awaited
    BY <1>4, <2>4, <2>6
  <2>8. Queued' = Queued
    BY <2>1 DEF Queued
  <2>9. IssuedOps' = IssuedOps
    BY <1>1, <2>4, <2>5, <2>7, <2>8 DEF IssuedOps
  <2> QED
    BY <1>1, <2>1, <2>4, <2>5, <2>7, <2>8, <2>9 DEF Placed
<1>6. CASE ServeReady \/ ScheduleReady
  <2> DEFINE k == Head(ready)
  <2>1. /\ ready # <<>> /\ stalled' = stalled /\ ready' = Tail(ready)
        /\ events' = Scheduled(events, GateCompletion(k))
    BY <1>6 DEF ServeReady, ScheduleReady, Serve
  <2>2. /\ k \in Known /\ k \in Queued
        /\ IsInjective(ready') /\ Queued' = Queued \ {k}
    BY <1>3, <2>1 DEF Queued
  <2>3. /\ OncePerId(events', "gate") /\ OncePerId(events', "hook")
        /\ Flying' = Flying \cup {k} /\ Awaited' = Awaited
    BY <1>4, <2>1, <2>2
  <2>4. Stalling' = Stalling /\ GatesOf(stalled') = GatesOf(stalled)
    BY <2>1 DEF Stalling
  <2> HIDE DEF k
  <2>5. IssuedOps' = IssuedOps
    BY <1>1, <2>2, <2>3, <2>4 DEF IssuedOps
  <2> QED
    BY <1>1, <2>2, <2>3, <2>4, <2>5 DEF Placed
<1>7. CASE StallReady
  <2> DEFINE k == Head(ready)
             entry == [gate |-> k, since |-> now]
  <2>1. /\ ready # <<>> /\ stalled' = Append(stalled, entry) /\ ready' = Tail(ready)
        /\ events' = events
    BY <1>7 DEF StallReady
  <2>2. /\ k \in Known /\ k \in Queued
        /\ IsInjective(ready') /\ Queued' = Queued \ {k}
    BY <1>3, <2>1 DEF Queued
  <2>3. GatesOf(stalled') = Append(GatesOf(stalled), k)
    <3>1. entry \in [gate : Known, since : Nat] /\ entry.gate = k
      BY <1>1, <2>2
    <3> HIDE DEF entry
    <3>2. GatesOf(Append(stalled, entry)) = Append(GatesOf(stalled), entry.gate)
      BY <1>1, <3>1, GatesOfAppend
    <3> QED
      BY <2>1, <3>1, <3>2
  <2>4. k \notin Stalling
    BY <2>2 DEF Placed
  <2> HIDE DEF k, entry
  <2>5. IsInjective(GatesOf(stalled')) /\ Stalling' = Stalling \cup {k}
    BY <1>1, <1>2, <2>2, <2>3, <2>4, QueueAppend DEF Stalling
  <2>6. Flying' = Flying /\ Awaited' = Awaited /\ OncePerId(events', "gate")
        /\ OncePerId(events', "hook")
    BY <1>2, <2>1 DEF Flying, Awaited, Distinct
  <2>7. IssuedOps' = IssuedOps
    BY <1>1, <2>2, <2>5, <2>6 DEF IssuedOps
  <2> QED
    BY <1>1, <2>2, <2>5, <2>6, <2>7 DEF Placed
<1> QED
  BY <1>5, <1>6, <1>7 DEF Issuing

(* The steps that leave every operation where it is. *)
Elsewhere ==
  \/ Finish \/ Truncate \/ BeginStep \/ FactoryProduced \/ FactoryFailed
  \/ EndEvents \/ EndServe \/ EndStep \/ UNCHANGED vars

LEMMA ElsewherePlaced ==
  ASSUME TypeOK, Placed, Activations, Elsewhere
  PROVE  /\ UNCHANGED <<input, dagVars, ready, stalled, countVars>>
         /\ IssuedOps' = IssuedOps /\ Awaited' = Awaited
         /\ Placed' /\ OncePerId(events', "hook")
<1>1. UNCHANGED <<input, dagVars, ready, stalled, countVars>>
  BY DEF Elsewhere, Finish, Truncate, BeginStep, FactoryProduced, FactoryFailed,
         EndEvents, EndServe, EndStep, vars, dagVars, countVars
<1>2. Distinct(events') /\ Flying' = Flying /\ Awaited' = Awaited
  <2>1. CASE FactoryProduced
    BY <2>1, OutcomeReplaced DEF FactoryProduced
  <2>2. CASE FactoryFailed
    BY <2>2, OutcomeReplaced DEF FactoryFailed
  <2>3. CASE UNCHANGED events
    BY <2>3 DEF Placed, Activations, Distinct, Flying, Awaited
  <2> QED
    BY <2>1, <2>2, <2>3 DEF Elsewhere, Finish, Truncate, BeginStep, EndEvents, EndServe,
                            EndStep, vars
<1>3. Queued' = Queued /\ Stalling' = Stalling /\ GatesOf(stalled') = GatesOf(stalled)
      /\ finished' = finished /\ active' = active /\ pending' = pending
  BY <1>1 DEF Queued, Stalling, dagVars, countVars
<1>4. IssuedOps' = IssuedOps
  BY <1>2, <1>3 DEF IssuedOps
<1>5. IsInjective(ready')
  BY <1>1 DEF Placed
<1> QED
  BY <1>1, <1>2, <1>3, <1>4, <1>5 DEF Placed, Distinct

(* The cases of a step. *)
LEMMA Steps ==
  [Next]_vars => \/ Elsewhere \/ Issuing \/ InjectionError \/ GateCompleted
                 \/ MeasuredDeferred \/ MeasuredInstant \/ HookActivation
BY DEF Next, Elsewhere, Issuing, Returned

LEMMA InputKept == [Next]_vars => input' = input
BY DEF Next, Finish, Truncate, BeginStep, FactoryProduced, FactoryFailed, InjectionError,
       GateCompleted, MeasuredDeferred, MeasuredInstant, HookActivation, EndEvents,
       ServeStalled, EndServe, ServeReady, StallReady, ScheduleReady, EndStep, Returned, vars

LEMMA ChosenStep == Chosen /\ [Next]_vars => Chosen'
BY InputKept DEF Chosen

LEMMA ActivationsStep ==
  ASSUME TypeOK, Placed, Activations, ActivatedOnce(input), [Next]_vars
  PROVE  Activations'
<1> USE DEF TargetsOf
<1>a. input' = input
  BY InputKept
<1>b. HookedOps' = HookedOps
  BY <1>a DEF HookedOps
<1>c. ASSUME OncePerId(events', "hook"), Awaited' = Awaited,
             finished \subseteq finished', active \subseteq active',
             active' \cap Ops = active \cap Ops
      PROVE  Activations'
  BY <1>a, <1>b, <1>c DEF Activations
<1>1. CASE Elsewhere
  BY <1>1, <1>c, ElsewherePlaced DEF dagVars, countVars
<1>2. CASE Issuing
  <2>1. UNCHANGED <<active, finished>>
    BY <1>2 DEF Issuing, ServeStalled, ServeReady, StallReady, ScheduleReady, dagVars, countVars
  <2> QED
    BY <1>2, <1>c, <2>1, IssuingPlaced
<1>3. CASE InjectionError
  <2>1. /\ finished' = finished \cup {gateDone} /\ events' = Tail(events) /\ Due("gate")
        /\ active' = active \cup {FixupKey(Len(fixups) + 1)}
    BY <1>3 DEF InjectionError, CountCompletion, gateDone
  <2>2. FixupKey(Len(fixups) + 1) \notin Ops
    BY <1>3, InjectionPlaced, KnownKeys
  <2>3. OncePerId(events', "hook") /\ Awaited' = Awaited
    BY <2>1, CompletionPopped DEF Distinct, Awaited
  <2> QED
    BY <1>c, <2>1, <2>2, <2>3
<1>4. CASE GateCompleted
  <2>1. /\ finished' = finished \cup {gateDone} /\ events' = Tail(events) /\ Due("gate")
        /\ active' = active
    BY <1>4 DEF GateCompleted, CountCompletion, gateDone
  <2>2. OncePerId(events', "hook") /\ Awaited' = Awaited
    BY <2>1, CompletionPopped DEF Distinct, Awaited
  <2> QED
    BY <1>c, <2>1, <2>2
<1>5. CASE MeasuredDeferred
  <2>1. /\ finished' = finished \cup {gateDone} /\ Due("gate") /\ active' = active
        /\ gateDone \in HookedOps
    BY <1>5 DEF MeasuredDeferred, CountCompletion, gateDone, HookedOps
  <2>2. PICK o \in Outcomes :
          events' = Scheduled(Tail(events), [at |-> now + input.feedback, type |-> "hook",
                                             id |-> Head(events).id, outcome |-> o])
    BY <1>5 DEF MeasuredDeferred
  <2> DEFINE e == [at |-> now + input.feedback, type |-> "hook",
                   id |-> Head(events).id, outcome |-> o]
  <2>3. OncePerId(events', "hook") /\ Awaited' = Awaited \cup {e}
    BY <2>1, <2>2, ActivationScheduled DEF Distinct, Awaited, gateDone
  <2>4. e.id = gateDone /\ gateDone \notin finished
    BY <2>1, CompletionPopped DEF gateDone, Placed
  <2> HIDE DEF e
  <2>5. \A f \in Awaited' : f.id \in finished'
    BY <2>1, <2>3, <2>4 DEF Activations
  <2>6. ASSUME NEW k \in (active' \cap Ops) \ input.active
        PROVE  \E m \in HookedOps \cap finished', p \in Outcomes :
                 k \in ToSet(TargetsOf(input, m, p)) /\ \A f \in Awaited' : f.id # m
    <3>1. PICK m \in HookedOps \cap finished, p \in Outcomes :
            k \in ToSet(TargetsOf(input, m, p)) /\ \A f \in Awaited : f.id # m
      BY <2>1, <2>6 DEF Activations
    <3> QED
      BY <2>1, <2>3, <2>4, <3>1
  <2> QED
    BY <1>a, <1>b, <2>1, <2>3, <2>5, <2>6 DEF Activations
<1>6. CASE MeasuredInstant
  <2>1. /\ finished' = finished \cup {gateDone} /\ Due("gate") /\ events' = Tail(events)
    BY <1>6 DEF MeasuredInstant, CountCompletion, gateDone
  <2>2. gateDone \in HookedOps /\ gateDone \notin finished
    BY <1>6, InstantPlaced DEF Placed
  <2>3. PICK o \in Outcomes : active' = active \cup ToSet(TargetsOf(input, gateDone, o))
    BY <1>6, InstantPlaced
  <2>4. OncePerId(events', "hook") /\ Awaited' = Awaited
    BY <2>1, CompletionPopped DEF Distinct, Awaited
  <2>5. \A f \in Awaited : f.id # gateDone
    BY <2>2 DEF Activations
  <2>6. ASSUME NEW k \in (active' \cap Ops) \ input.active
        PROVE  \E m \in HookedOps \cap finished', p \in Outcomes :
                 k \in ToSet(TargetsOf(input, m, p)) /\ \A f \in Awaited' : f.id # m
    <3>1. CASE k \in active
      <4>1. PICK m \in HookedOps \cap finished, p \in Outcomes :
              k \in ToSet(TargetsOf(input, m, p)) /\ \A f \in Awaited : f.id # m
        BY <2>6, <3>1 DEF Activations
      <4> QED
        BY <2>1, <2>4, <4>1
    <3>2. CASE k \in ToSet(TargetsOf(input, gateDone, o))
      BY <2>1, <2>2, <2>4, <2>5, <3>2
    <3> QED
      BY <2>3, <2>6, <3>1, <3>2
  <2> QED
    BY <1>a, <1>b, <2>1, <2>3, <2>4, <2>6 DEF Activations
<1>7. CASE HookActivation
  <2> DEFINE o == Head(events).outcome
  <2>1. /\ finished' = finished /\ Due("hook") /\ events' = Tail(events)
        /\ active' = active \cup ToSet(TargetsOf(input, gateDone, o))
    BY <1>7 DEF HookActivation, gateDone, countVars
  <2>2. /\ OncePerId(events', "hook") /\ Head(events) \in Awaited
        /\ Awaited' = Awaited \ {Head(events)} /\ gateDone \notin IdsOf(Tail(events), "hook")
    BY <2>1, ActivationPopped DEF Distinct, Awaited, gateDone
  <2>3. \A f \in Awaited' : f.id # gateDone
    BY <2>1, <2>2 DEF IdsOf, Awaited
  <2>4. gateDone \in HookedOps \cap finished /\ o \in Outcomes
    BY <2>1, <2>2, HeadEvent DEF Activations, gateDone
  <2> HIDE DEF o
  <2>5. ASSUME NEW k \in (active' \cap Ops) \ input.active
        PROVE  \E m \in HookedOps \cap finished', p \in Outcomes :
                 k \in ToSet(TargetsOf(input, m, p)) /\ \A f \in Awaited' : f.id # m
    <3>1. CASE k \in active
      <4>1. PICK m \in HookedOps \cap finished, p \in Outcomes :
              k \in ToSet(TargetsOf(input, m, p)) /\ \A f \in Awaited : f.id # m
        BY <2>5, <3>1 DEF Activations
      <4> QED
        BY <2>1, <2>2, <4>1
    <3>2. CASE k \in ToSet(TargetsOf(input, gateDone, o))
      BY <2>1, <2>3, <2>4, <3>2
    <3> QED
      BY <2>1, <2>5, <3>1, <3>2
  <2> QED
    BY <1>a, <1>b, <2>1, <2>2, <2>5 DEF Activations
<1> QED
  BY <1>1, <1>2, <1>3, <1>4, <1>5, <1>6, <1>7, Steps

LEMMA PlacedStep ==
  ASSUME TypeOK, Placed, Activations, ActivatedOnce(input), [Next]_vars
  PROVE  Placed'
BY Steps, ElsewherePlaced, IssuingPlaced, InjectionPlaced, CompletionPlaced, InstantPlaced,
   ActivationPlaced

LEMMA AlwaysPlaced ==
  ASSUME \A c \in Inputs : ActivatedOnce(c)
  PROVE  Spec => [](Chosen /\ Placed /\ Activations)
<1>1. Init => Chosen
  BY DEF Init, Chosen
<1>2. Chosen => ActivatedOnce(input)
  BY DEF Chosen
<1>3. TypeOK /\ Chosen /\ Placed /\ Activations /\ [Next]_vars
        => (Chosen /\ Placed /\ Activations)'
  BY <1>2, ChosenStep, PlacedStep, ActivationsStep
<1> QED
  BY <1>1, <1>3, PlacedInit, TypeCorrect, PTL DEF Spec

LEMMA AtMostOne ==
  ASSUME NEW U, \A i, j \in U : i = j
  PROVE  Cardinality(U) \in {0, 1} /\ (U = {} => Cardinality(U) = 0)
<1>1. CASE U = {}
  BY <1>1, FS_EmptySet
<1>2. CASE U # {}
  <2>1. PICK i \in U : U = {i}
    BY <1>2
  <2> QED
    BY <1>2, <2>1, FS_Singleton
<1> QED
  BY <1>1, <1>2

LEMMA OnePlace == Placed => ExecutedOnce
<1> SUFFICES ASSUME Placed, NEW k \in Key PROVE Places(k) <= 1
  BY DEF ExecutedOnce
<1> DEFINE r == {i \in DOMAIN ready : ready[i] = k}
           s == {i \in DOMAIN stalled : stalled[i].gate = k}
           e == {i \in DOMAIN events : events[i].type = "gate" /\ events[i].id = k}
<1>1. Cardinality(r) \in {0, 1} /\ (k \notin Queued => Cardinality(r) = 0)
  <2>1. \A i, j \in r : i = j
    BY DEF Placed, IsInjective
  <2>2. k \notin Queued => r = {}
    BY DEF Queued, ToSet
  <2> QED
    BY <2>1, <2>2, AtMostOne
<1>2. Cardinality(s) \in {0, 1} /\ (k \notin Stalling => Cardinality(s) = 0)
  <2>1. \A i, j \in s : i = j
    BY DEF Placed, IsInjective, GatesOf
  <2>2. k \notin Stalling => s = {}
    BY DEF Stalling, ToSet, GatesOf
  <2> QED
    BY <2>1, <2>2, AtMostOne
<1>3. Cardinality(e) \in {0, 1} /\ (k \notin Flying => Cardinality(e) = 0)
  <2>1. \A i, j \in e : i = j
    BY DEF Placed, OncePerId
  <2>2. k \notin Flying => e = {}
    BY DEF Flying, IdsOf, EventsOf
  <2> QED
    BY <2>1, <2>2, AtMostOne
<1>4. Places(k) = Cardinality(r) + Cardinality(s) + Cardinality(e)
                    + (IF k \in finished THEN 1 ELSE 0)
  BY DEF Places, Occurrences
<1>5. /\ ~(k \in Queued /\ k \in Stalling) /\ ~(k \in Queued /\ k \in Flying)
      /\ ~(k \in Queued /\ k \in finished) /\ ~(k \in Stalling /\ k \in Flying)
      /\ ~(k \in Stalling /\ k \in finished) /\ ~(k \in Flying /\ k \in finished)
  BY DEF Placed
<1> HIDE DEF r, s, e
<1> QED
  BY <1>1, <1>2, <1>3, <1>4, <1>5

(* complete_gate, activate_hook and inject_fixup push an operation at most *)
(* once between them, for every circuit in which an operation is activated *)
(* by one measurement: no successor list, however it repeats or is handed  *)
(* over to a fixup, makes an operation execute twice.                      *)
THEOREM NoOperationTwice ==
  (\A c \in Inputs : ActivatedOnce(c)) => (Spec => []ExecutedOnce)
<1> SUFFICES ASSUME \A c \in Inputs : ActivatedOnce(c) PROVE Spec => []ExecutedOnce
  OBVIOUS
<1>1. Spec => [](Chosen /\ Placed /\ Activations)
  BY AlwaysPlaced
<1> QED
  BY <1>1, OnePlace, PTL

-----------------------------------------------------------------------------
(* run ends when all work is done. *)

Expected == active \cup Coming

(* total_ops counts what is active or will be, completed_ops what has      *)
(* finished.                                                               *)
Totals ==
  /\ total = Cardinality(Expected)
  /\ completed = Cardinality(finished)
  /\ pc = "finished" => completed >= total

LEMMA FiniteParts ==
  ASSUME TypeOK
  PROVE  /\ IsFiniteSet(active) /\ IsFiniteSet(finished)
         /\ IsFiniteSet(Coming) /\ IsFiniteSet(Expected)
         /\ Coming \subseteq Ops
         /\ Cardinality(Expected) \in Nat /\ Cardinality(finished) \in Nat
<1>1. NumOps + Len(fixups) \in Nat /\ NumOps \in Nat
  BY KnownKeys, SizesAssumption
<1>2. IsFiniteSet(Known) /\ IsFiniteSet(Ops)
  BY <1>1, FS_Interval DEF Known, Ops
<1>3. ASSUME NEW e \in Awaited
      PROVE  ToSet(TargetsOf(input, e.id, e.outcome)) \subseteq Ops
  <2>1. PICK i \in DOMAIN events : e = events[i] /\ e.type = "hook"
    BY <1>3 DEF Awaited, EventsOf
  <2>2. e \in Event
    BY <2>1, EventsType, ElementOfSeq, LenProperties
  <2>3. e.id \in HookedOps /\ e.outcome \in Outcomes
    BY <2>1, <2>2 DEF Event, FactoryEvent, GateEvent, HookEvent
  <2>4. TargetsOf(input, e.id, e.outcome) \in Seq(Ops)
    BY <2>3, TargetsType DEF TargetsOf
  <2> QED
    BY <2>4, ElementOfSeq, LenProperties DEF ToSet
<1>4. Coming \subseteq Ops
  BY <1>3 DEF Coming
<1>5. IsFiniteSet(active) /\ IsFiniteSet(finished) /\ IsFiniteSet(Coming)
  BY <1>2, <1>4, FS_Subset DEF TypeOK
<1>6. IsFiniteSet(Expected)
  BY <1>5, FS_Union DEF Expected
<1> QED
  BY <1>4, <1>5, <1>6, FS_CardinalityType

(* What a measurement adds has neither been counted nor activated.         *)
LEMMA NewlyExpected ==
  ASSUME TypeOK, Activations, ActivatedOnce(input),
         NEW m \in HookedOps \ finished, NEW o \in Outcomes
  PROVE  Cardinality(Expected \cup ToSet(TargetsOf(input, m, o)))
           = Cardinality(Expected) + Len(TargetsOf(input, m, o))
<1> DEFINE keys == TargetsOf(input, m, o)
<1>1. keys \in Seq(Ops) /\ IsInjective(keys) /\ ToSet(keys) \cap active = {}
      /\ Len(keys) \in Nat
  BY TargetsFresh, TargetsType DEF TargetsOf
<1>2. ASSUME NEW k \in ToSet(keys), k \in Coming PROVE FALSE
  <2>1. PICK e \in Awaited : k \in ToSet(TargetsOf(input, e.id, e.outcome))
    BY <1>2 DEF Coming
  <2>2. PICK i \in DOMAIN events : e = events[i] /\ e.type = "hook"
    BY <2>1 DEF Awaited, EventsOf
  <2>3. e \in Event
    BY <2>2, EventsType, ElementOfSeq, LenProperties
  <2>4. e.id \in HookedOps /\ e.outcome \in Outcomes /\ e.id \in finished
    BY <2>1, <2>2, <2>3 DEF Event, FactoryEvent, GateEvent, HookEvent, Activations
  <2>5. e.id \in Measurements(input) /\ m \in Measurements(input)
    BY <2>4 DEF HookedOps, Measurements
  <2>6. m = e.id
    BY <1>2, <2>1, <2>4, <2>5 DEF ActivatedOnce, ToSet
  <2> QED
    BY <2>4, <2>6
<1>3. IsFiniteSet(ToSet(keys)) /\ Cardinality(ToSet(keys)) = Len(keys)
  BY <1>1, InjectiveLength
<1>4. Expected \cap ToSet(keys) = {}
  BY <1>1, <1>2 DEF Expected
<1>5. IsFiniteSet(Expected) /\ Cardinality(Expected) \in Nat
  BY FiniteParts
<1> HIDE DEF keys
<1>6. Cardinality(Expected \cup ToSet(keys))
        = Cardinality(Expected) + Cardinality(ToSet(keys)) - Cardinality(Expected \cap ToSet(keys))
  BY <1>3, <1>5, FS_Union
<1>7. Cardinality(Expected \cap ToSet(keys)) = 0
  BY <1>4, FS_EmptySet
<1> QED
  BY <1>1, <1>3, <1>5, <1>6, <1>7 DEF keys

LEMMA OneMoreCompleted ==
  ASSUME TypeOK, Placed, NEW gate \in Flying, CountCompletion(gate),
         completed = Cardinality(finished)
  PROVE  completed' = Cardinality(finished')
<1>1. gate \notin finished /\ finished' = finished \cup {gate} /\ completed' = completed + 1
  BY DEF Placed, CountCompletion
<1> QED
  BY <1>1, FiniteParts, FS_AddElement

(* Only a measurement and a fixup make more operations expected; an        *)
(* activation makes active what was expected already.                      *)
LEMMA ExpectedKept ==
  ASSUME TypeOK, Placed, Activations, ActivatedOnce(input),
         Elsewhere \/ Issuing \/ GateCompleted \/ HookActivation
  PROVE  Expected' = Expected /\ total' = total
<1>1. input' = input
  BY InputKept DEF Next, Elsewhere, Issuing
<1>2. ASSUME Awaited' = Awaited, active' = active PROVE Expected' = Expected
  BY <1>1, <1>2 DEF Expected, Coming, TargetsOf
<1>3. CASE Elsewhere
  BY <1>2, <1>3, ElsewherePlaced DEF dagVars, countVars
<1>4. CASE Issuing
  <2>1. UNCHANGED <<active, total>>
    BY <1>4 DEF Issuing, ServeStalled, ServeReady, StallReady, ScheduleReady, dagVars, countVars
  <2> QED
    BY <1>2, <1>4, <2>1, IssuingPlaced
<1>5. CASE GateCompleted
  <2>1. UNCHANGED <<active, total>> /\ Due("gate") /\ events' = Tail(events)
    BY <1>5 DEF GateCompleted
  <2>2. Awaited' = Awaited
    BY <2>1, CompletionPopped DEF Awaited
  <2> QED
    BY <1>2, <2>1, <2>2
<1>6. CASE HookActivation
  <2> DEFINE keys == ToSet(TargetsOf(input, gateDone, Head(events).outcome))
  <2>1. /\ active' = active \cup keys /\ total' = total
        /\ Due("hook") /\ events' = Tail(events)
    BY <1>6 DEF HookActivation, TargetsOf, gateDone, countVars
  <2>2. Head(events) \in Awaited /\ Awaited' = Awaited \ {Head(events)}
    BY <2>1, ActivationPopped DEF Awaited
  <2>3. Coming' = UNION {ToSet(TargetsOf(input, e.id, e.outcome)) : e \in Awaited'}
    BY <1>1 DEF Coming, TargetsOf
  <2>4. Coming = Coming' \cup keys
    BY <2>2, <2>3 DEF Coming, gateDone
  <2> QED
    BY <2>1, <2>4 DEF Expected
<1> QED
  BY <1>3, <1>4, <1>5, <1>6

LEMMA ExpectedMeasured ==
  ASSUME TypeOK, Placed, Activations, ActivatedOnce(input),
         MeasuredDeferred \/ MeasuredInstant
  PROVE  /\ gateDone \in HookedOps \ finished /\ gateDone \in Flying
         /\ \E o \in Outcomes :
              /\ Expected' = Expected \cup ToSet(TargetsOf(input, gateDone, o))
              /\ total' = total + Len(TargetsOf(input, gateDone, o))
<1>1. /\ Due("gate") /\ gateDone \in HookedOps /\ input' = input
  BY DEF MeasuredDeferred, MeasuredInstant, gateDone, HookedOps
<1>2. gateDone \in Flying /\ gateDone \notin finished
  BY <1>1, CompletionPopped DEF gateDone, Placed
<1>3. CASE MeasuredDeferred
  <2>1. PICK o \in Outcomes :
          /\ total' = total + Len(TargetsOf(input, gateDone, o))
          /\ events' = Scheduled(Tail(events), [at |-> now + input.feedback, type |-> "hook",
                                             id |-> Head(events).id, outcome |-> o])
    BY <1>3 DEF MeasuredDeferred, TargetsOf, gateDone
  <2> DEFINE e == [at |-> now + input.feedback, type |-> "hook",
                   id |-> Head(events).id, outcome |-> o]
  <2>2. Awaited' = Awaited \cup {e} /\ active' = active
    BY <1>1, <1>3, <2>1, ActivationScheduled DEF Awaited, gateDone, MeasuredDeferred
  <2>3. e.id = gateDone /\ e.outcome = o
    BY DEF gateDone
  <2> HIDE DEF e
  <2>4. Coming' = UNION {ToSet(TargetsOf(input, f.id, f.outcome)) : f \in Awaited'}
    BY <1>1 DEF Coming, TargetsOf
  <2>5. Coming' = Coming \cup ToSet(TargetsOf(input, gateDone, o))
    BY <2>2, <2>3, <2>4 DEF Coming
  <2>6. Expected' = Expected \cup ToSet(TargetsOf(input, gateDone, o))
    BY <2>2, <2>5 DEF Expected
  <2> QED
    BY <1>1, <1>2, <2>1, <2>6
<1>4. CASE MeasuredInstant
  <2>1. PICK o \in Outcomes :
          /\ total' = total + Len(TargetsOf(input, gateDone, o))
          /\ active' = active \cup ToSet(TargetsOf(input, gateDone, o))
    BY <1>4, InstantPlaced
  <2>2. Awaited' = Awaited
    BY <1>1, <1>4, CompletionPopped DEF Awaited, MeasuredInstant
  <2>3. Coming' = Coming
    BY <1>1, <2>2 DEF Coming, TargetsOf
  <2>4. Expected' = Expected \cup ToSet(TargetsOf(input, gateDone, o))
    BY <2>1, <2>3 DEF Expected
  <2> QED
    BY <1>1, <1>2, <2>1, <2>4
<1> QED
  BY <1>3, <1>4

LEMMA ExpectedInjection ==
  ASSUME TypeOK, Placed, Activations, InjectionError
  PROVE  /\ Expected' = Expected \cup {FixupKey(Len(fixups) + 1)}
         /\ FixupKey(Len(fixups) + 1) \notin Expected
         /\ total' = total + 1
<1>1. /\ Due("gate") /\ input' = input /\ events' = Tail(events) /\ total' = total + 1
      /\ active' = active \cup {FixupKey(Len(fixups) + 1)}
  BY DEF InjectionError
<1>2. Awaited' = Awaited
  BY <1>1, CompletionPopped DEF Awaited
<1>3. Coming' = Coming
  BY <1>1, <1>2 DEF Coming, TargetsOf
<1>4. FixupKey(Len(fixups) + 1) \notin Known
  BY InjectionPlaced
<1>5. Expected \subseteq Known
  BY FiniteParts, KnownKeys DEF Expected, TypeOK
<1> QED
  BY <1>1, <1>3, <1>4, <1>5 DEF Expected

LEMMA TotalsStep ==
  ASSUME TypeOK, Placed, Activations, Totals, ActivatedOnce(input), [Next]_vars
  PROVE  Totals'
<1>a. total \in Nat /\ completed \in Nat
  BY DEF TypeOK
<1>1. CASE Elsewhere
  <2>1. UNCHANGED <<total, completed, finished>> /\ Expected' = Expected
    BY <1>1, ElsewherePlaced, ExpectedKept DEF countVars
  <2>2. pc' = "finished" => completed >= total
    BY <1>1 DEF Totals, Elsewhere, Finish, IsComplete, Truncate, BeginStep, FactoryProduced,
                FactoryFailed, EndEvents, EndServe, EndStep, vars, Due
  <2> QED
    BY <2>1, <2>2 DEF Totals
<1>2. CASE Issuing
  <2>1. UNCHANGED <<total, completed, finished>> /\ pc' # "finished"
    BY <1>2 DEF Issuing, ServeStalled, ServeReady, StallReady, ScheduleReady, countVars
  <2> QED
    BY <1>2, <2>1, ExpectedKept DEF Totals
<1>3. CASE GateCompleted
  <2>1. CountCompletion(gateDone) /\ pc' # "finished" /\ gateDone \in Flying
    BY <1>3, CompletionPlaced DEF GateCompleted, Due, gateDone
  <2> QED
    BY <1>3, <2>1, ExpectedKept, OneMoreCompleted DEF Totals
<1>4. CASE HookActivation
  <2>1. UNCHANGED <<total, completed, finished>> /\ pc' # "finished"
    BY <1>4 DEF HookActivation, Due, countVars
  <2> QED
    BY <1>4, <2>1, ExpectedKept DEF Totals
<1>5. CASE MeasuredDeferred \/ MeasuredInstant
  <2>1. CountCompletion(gateDone) /\ pc' # "finished"
    BY <1>5 DEF MeasuredDeferred, MeasuredInstant, Due, gateDone
  <2>2. completed' = Cardinality(finished')
    BY <1>5, <2>1, ExpectedMeasured, OneMoreCompleted DEF Totals
  <2>3. total' = Cardinality(Expected')
    BY <1>5, ExpectedMeasured, NewlyExpected DEF Totals
  <2> QED
    BY <2>1, <2>2, <2>3 DEF Totals
<1>6. CASE InjectionError
  <2>1. CountCompletion(gateDone) /\ pc' # "finished" /\ gateDone \in Flying
    BY <1>6, InjectionPlaced DEF InjectionError, Due, gateDone
  <2>2. completed' = Cardinality(finished')
    BY <2>1, OneMoreCompleted DEF Totals
  <2>3. total' = Cardinality(Expected')
    BY <1>6, FiniteParts, ExpectedInjection, FS_AddElement DEF Totals
  <2> QED
    BY <2>1, <2>2, <2>3 DEF Totals
<1> QED
  BY <1>1, <1>2, <1>3, <1>4, <1>5, <1>6, Steps

LEMMA EmptyList ==
  ASSUME NEW S, NEW q \in Seq(S), ToSet(q) = {}
  PROVE  q = <<>>
<1>1. DOMAIN q = 1 .. Len(q) /\ Len(q) \in Nat
  BY LenProperties
<1>2. Len(q) = 0
  <2>1. Len(q) # 0 => 1 \in DOMAIN q
    BY <1>1
  <2> QED
    BY <2>1 DEF ToSet
<1> QED
  BY <1>2, EmptySeq

LEMMA AllDone ==
  ASSUME TypeOK, Placed, Activations, Totals, ActivatedOnce(input)
  PROVE  NothingLeftBehind
<1> SUFFICES ASSUME pc = "finished"
             PROVE  /\ active = finished
                    /\ ready = <<>> /\ stalled = <<>>
                    /\ \A i \in DOMAIN events :
                         /\ events[i].type # "gate"
                         /\ events[i].type = "hook" =>
                              input.targets[input.hook[events[i].id]][events[i].outcome] = <<>>
  BY DEF NothingLeftBehind
<1>1. finished \subseteq active /\ active \subseteq Expected
  BY DEF Placed, IssuedOps, Expected
<1>2. Cardinality(finished) = Cardinality(Expected)
  <2>1. Cardinality(finished) <= Cardinality(Expected)
    BY <1>1, FiniteParts, FS_Subset
  <2> QED
    BY <2>1, FiniteParts DEF Totals
<1>3. finished = Expected /\ finished = active
  <2>1. finished = Expected
    BY <1>1, <1>2, FiniteParts, FS_Subset
  <2> QED
    BY <1>1, <2>1
<1>4. Queued = {} /\ Stalling = {} /\ Flying = {}
  BY <1>3 DEF Placed, IssuedOps
<1>5. ready = <<>>
  BY <1>4, EmptyList DEF Queued, TypeOK
<1>6. stalled = <<>>
  <2>1. GatesOf(stalled) \in Seq(Known) /\ (GatesOf(stalled) = <<>> <=> stalled = <<>>)
    BY GatesOfQueue DEF TypeOK
  <2> QED
    BY <1>4, <2>1, EmptyList DEF Stalling
<1>7. ASSUME NEW i \in DOMAIN events
      PROVE  /\ events[i].type # "gate"
             /\ events[i].type = "hook" =>
                  input.targets[input.hook[events[i].id]][events[i].outcome] = <<>>
  <2>1. events[i].type # "gate"
    BY <1>4 DEF Flying, IdsOf, EventsOf
  <2>2. ASSUME events[i].type = "hook"
        PROVE  TargetsOf(input, events[i].id, events[i].outcome) = <<>>
    <3>1. events[i] \in Awaited /\ events[i] \in Event
      BY <2>2, EventsType, ElementOfSeq, LenProperties DEF Awaited, EventsOf
    <3>2. events[i].id \in HookedOps /\ events[i].outcome \in Outcomes
      BY <2>2, <3>1 DEF Event, FactoryEvent, GateEvent, HookEvent
    <3> DEFINE keys == TargetsOf(input, events[i].id, events[i].outcome)
    <3>3. keys \in Seq(Ops) /\ ToSet(keys) \cap active = {}
      BY <3>1, <3>2, TargetsFresh, TargetsType DEF TargetsOf
    <3>4. ToSet(keys) \subseteq Expected
      BY <3>1 DEF Coming, Expected
    <3> HIDE DEF keys
    <3>5. keys = <<>>
      BY <1>3, <3>3, <3>4, EmptyList
    <3> QED
      BY <3>5 DEF keys
  <2> QED
    BY <2>1, <2>2 DEF TargetsOf
<1> QED
  BY <1>3, <1>5, <1>6, <1>7

(* Before the first step nothing is on its way. *)
LEMMA NothingAwaited == Init => Awaited = {} /\ Expected = active
<1> SUFFICES ASSUME Init PROVE Awaited = {} /\ Expected = active
  OBVIOUS
<1>1. PICK draw \in [FactoryIds -> Draws] :
        events \in [1 .. NumFactories -> {FactoryOutcome(f, draw[f], 0) : f \in FactoryIds}]
  BY DEF Init
<1>2. \A d \in Draws : d.type \in {"produced", "failed"}
  BY InputsAssumption DEF Init, Draws, Input
<1>3. \A i \in DOMAIN events : events[i].type \in {"produced", "failed"}
  BY <1>1, <1>2 DEF FactoryOutcome
<1>4. Awaited = {}
  BY <1>3 DEF Awaited, EventsOf
<1> QED
  BY <1>4 DEF Expected, Coming

LEMMA AlwaysTotal ==
  ASSUME \A c \in Inputs : ActivatedOnce(c)
  PROVE  Spec => []Totals
<1>1. Spec => [](Chosen /\ Placed /\ Activations)
  BY AlwaysPlaced
<1>2. Chosen => ActivatedOnce(input)
  BY DEF Chosen
<1>3. Init => Totals
  BY NothingAwaited, FS_EmptySet DEF Init, Totals
<1>4. TypeOK /\ Chosen /\ Placed /\ Activations /\ Totals /\ [Next]_vars => Totals'
  BY <1>2, TotalsStep
<1> QED
  BY <1>1, <1>3, <1>4, TypeCorrect, PTL DEF Spec

(* run leaves its loop only when every operation that is or was made       *)
(* active, fixups included, has completed, and nothing an activation would *)
(* still add is on its way: total_ops and completed_ops are kept together  *)
(* by every path of complete_gate.                                         *)
THEOREM RunEndsDone ==
  (\A c \in Inputs : ActivatedOnce(c)) => (Spec => []NothingLeftBehind)
<1> SUFFICES ASSUME \A c \in Inputs : ActivatedOnce(c) PROVE Spec => []NothingLeftBehind
  OBVIOUS
<1>1. Spec => [](Chosen /\ Placed /\ Activations)
  BY AlwaysPlaced
<1>2. Spec => []Totals
  BY AlwaysTotal
<1>3. Chosen => ActivatedOnce(input)
  BY DEF Chosen
<1>4. TypeOK /\ Chosen /\ Placed /\ Activations /\ Totals => NothingLeftBehind
  BY <1>3, AllDone
<1> QED
  BY <1>1, <1>2, <1>4, TypeCorrect, PTL DEF Spec

-----------------------------------------------------------------------------
(* The counts. *)

(* A fixup is injected for a finished operation, once; it stands between   *)
(* the operation and its successors, whose list it has taken over.         *)
Repairs ==
  /\ IsInjective(fixups) /\ ToSet(fixups) \subseteq finished
  /\ \A i \in DOMAIN fixups :
       FixupKey(i) \in IssuedOps /\ succs[FixupKey(i)] = input.succs[fixups[i]]
  /\ \A g \in Ops \ ToSet(fixups) : succs[g] = input.succs[g]

(* The predecessor entries of k that still stand for outstanding work. *)
Outstanding(k) == {j \in DOMAIN input.preds[k] : ~Resolved(input.preds[k][j])}

NotAbove(k) == pending[k] <= Cardinality(Outstanding(k))
NotBelow(k) == Cardinality(Outstanding(k)) <= pending[k]

(* Where an activation looks at the finished operations instead of the     *)
(* resolved ones, the count may fall short by the outstanding fixups.      *)
CountsLow == \A k \in Ops : NotAbove(k)
CountsHigh == fixups = <<>> \/ HookedOps = {} => \A k \in Ops : NotBelow(k)

(* What is active and has not been issued waits for something. *)
HeldBack == \A k \in (active \cap Ops) \ IssuedOps : pending[k] > 0

LEMMA IssuedGrows ==
  ASSUME TypeOK, Placed, Activations, ActivatedOnce(input), [Next]_vars
  PROVE  IssuedOps \subseteq IssuedOps' /\ finished \subseteq finished'
<1>1. CASE Elsewhere
  BY <1>1, ElsewherePlaced DEF countVars
<1>2. CASE Issuing
  <2>1. finished' = finished
    BY <1>2 DEF Issuing, ServeStalled, ServeReady, StallReady, ScheduleReady, countVars
  <2> QED
    BY <1>2, <2>1, IssuingPlaced
<1>3. CASE InjectionError
  BY <1>3, InjectionPlaced DEF InjectionError, CountCompletion
<1>4. CASE GateCompleted \/ MeasuredDeferred
  BY <1>4, CompletionPlaced DEF GateCompleted, MeasuredDeferred, CountCompletion
<1>5. CASE MeasuredInstant
  BY <1>5, InstantPlaced DEF MeasuredInstant, CountCompletion
<1>6. CASE HookActivation
  BY <1>6, ActivationPlaced DEF HookActivation, countVars
<1> QED
  BY <1>1, <1>2, <1>3, <1>4, <1>5, <1>6, Steps

LEMMA FixupsKept ==
  [Next]_vars => InjectionError \/ UNCHANGED <<fixups, succs>>
BY DEF Next, Finish, Truncate, BeginStep, FactoryProduced, FactoryFailed,
       GateCompleted, MeasuredDeferred, MeasuredInstant, HookActivation, EndEvents,
       ServeStalled, EndServe, ServeReady, StallReady, ScheduleReady, EndStep, Returned,
       vars, dagVars

LEMMA FixupKeys ==
  ASSUME TypeOK
  PROVE  /\ DOMAIN fixups = 1 .. Len(fixups) /\ Len(fixups) \in Nat /\ NumOps \in Nat
         /\ \A i \in DOMAIN fixups : /\ FixupKey(i) \in Known \ Ops
                                     /\ fixups[i] \in Ops
                                     /\ FixupKey(i) - NumOps = i
         /\ \A i, j \in DOMAIN fixups : FixupKey(i) = FixupKey(j) => i = j
         /\ \A k \in Known \ Ops : /\ k - NumOps \in DOMAIN fixups
                                   /\ k = FixupKey(k - NumOps)
<1>1. DOMAIN fixups = 1 .. Len(fixups) /\ Len(fixups) \in Nat /\ NumOps \in Nat
      /\ \A i \in DOMAIN fixups : fixups[i] \in Ops
  BY SizesAssumption, LenProperties, ElementOfSeq DEF TypeOK
<1> QED
  BY <1>1 DEF FixupKey, Known, Ops

LEMMA RepairsStep ==
  ASSUME TypeOK, Placed, Activations, ActivatedOnce(input), Repairs, [Next]_vars
  PROVE  Repairs'
<1>1. CASE UNCHANGED <<fixups, succs>>
  <2>1. input' = input /\ IssuedOps \subseteq IssuedOps' /\ finished \subseteq finished'
    BY InputKept, IssuedGrows
  <2> QED
    BY <1>1, <2>1 DEF Repairs, FixupKey
<1>2. CASE InjectionError
  <2> DEFINE n == Len(fixups) + 1
             fixup == FixupKey(n)
  <2>1. /\ fixups' = Append(fixups, gateDone) /\ input' = input
        /\ succs' = WithFixup(succs, gateDone, fixup)
        /\ finished' = finished \cup {gateDone}
    BY <1>2 DEF InjectionError, CountCompletion, gateDone
  <2>2. /\ gateDone \in Flying /\ gateDone \in Ops /\ fixup \in Key \ Known
        /\ IssuedOps' = IssuedOps \cup {fixup}
    BY <1>2, InjectionPlaced
  <2>3. gateDone \notin ToSet(fixups)
    BY <2>2 DEF Repairs, Placed
  <2>4. fixups \in Seq(Ops) /\ succs \in [Key -> Seq(Known)] /\ Ops \subseteq Key
        /\ Ops \subseteq Known /\ Known \subseteq Key
    BY KnownKeys DEF TypeOK
  <2>5. IsInjective(fixups') /\ ToSet(fixups') = ToSet(fixups) \cup {gateDone}
    BY <2>1, <2>2, <2>3, <2>4, QueueAppend DEF Repairs
  <2> HIDE DEF fixup
  <2>6. /\ succs'[fixup] = succs[gateDone]
        /\ \A k \in Key : k # fixup /\ k # gateDone => succs'[k] = succs[k]
    BY <2>1, <2>2, <2>4 DEF WithFixup
  <2>7. succs'[fixup] = input.succs[gateDone]
    BY <2>2, <2>3, <2>6 DEF Repairs
  <2>8. /\ DOMAIN fixups' = 1 .. n /\ fixups'[n] = gateDone /\ Len(fixups) \in Nat
        /\ \A i \in 1 .. Len(fixups) : fixups'[i] = fixups[i]
    BY <2>1, <2>2, <2>4, AppendProperties, LenProperties
  <2>9. ASSUME NEW i \in DOMAIN fixups'
        PROVE  FixupKey(i) \in IssuedOps' /\ succs'[FixupKey(i)] = input.succs[fixups'[i]]
    <3>1. CASE i = n
      BY <2>2, <2>7, <2>8, <3>1 DEF fixup
    <3>2. CASE i # n
      <4>1. i \in DOMAIN fixups /\ fixups'[i] = fixups[i]
        BY <2>8, <3>2, FixupKeys
      <4>2. FixupKey(i) \in Known \ Ops
        BY <4>1, FixupKeys
      <4>3. FixupKey(i) # fixup /\ FixupKey(i) # gateDone /\ FixupKey(i) \in Key
        BY <2>2, <2>4, <4>2
      <4> QED
        BY <2>2, <2>6, <4>1, <4>3 DEF Repairs
    <3> QED
      BY <3>1, <3>2
  <2>10. \A g \in Ops \ ToSet(fixups') : succs'[g] = input.succs[g]
    BY <2>2, <2>4, <2>5, <2>6 DEF Repairs
  <2>11. \A i : FixupKey(i)' = FixupKey(i)
    BY DEF FixupKey
  <2>12. ToSet(fixups') \subseteq finished'
    BY <2>1, <2>5 DEF Repairs
  <2> QED
    BY <2>1, <2>5, <2>9, <2>10, <2>11, <2>12 DEF Repairs
<1> QED
  BY <1>1, <1>2, FixupsKept

(* The completion of an operation, or of its fixup when it has one,        *)
(* resolves this operation and no other, and releases its successors.      *)
LEMMA Resolves ==
  ASSUME TypeOK, Placed, Repairs, NEW gate \in Flying, NEW done, NEW p \in Ops,
         done = finished \cup {gate}
  PROVE  /\ QubitsOf(gate) \in Ops
         /\ succs[gate] = input.succs[QubitsOf(gate)]
         /\ ~Resolved(QubitsOf(gate))
         /\ Resolved(p) \/ p = QubitsOf(gate) <=>
              /\ p \in done
              /\ \A i \in DOMAIN fixups : fixups[i] = p => FixupKey(i) \in done
<1>1. gate \in Known /\ gate \notin finished
  BY DEF Placed, IssuedOps, TypeOK
<1>2. CASE gate \in Ops
  <2>1. QubitsOf(gate) = gate /\ gate \notin ToSet(fixups)
    BY <1>1, <1>2 DEF QubitsOf, Repairs
  <2>2. \A i \in DOMAIN fixups : FixupKey(i) # gate /\ fixups[i] # gate
    BY <1>2, <2>1, FixupKeys DEF ToSet
  <2>3. succs[gate] = input.succs[gate] /\ ~Resolved(gate)
    BY <1>1, <1>2, <2>1 DEF Repairs, Resolved
  <2> QED
    BY <1>2, <2>1, <2>2, <2>3 DEF Resolved
<1>3. CASE gate \notin Ops
  <2> DEFINE n == gate - NumOps
  <2>1. n \in DOMAIN fixups /\ gate = FixupKey(n)
    BY <1>1, <1>3, FixupKeys
  <2>2. QubitsOf(gate) = fixups[n] /\ fixups[n] \in Ops /\ fixups[n] \in finished
    BY <1>3, <2>1, FixupKeys DEF QubitsOf, Repairs, ToSet
  <2>3. succs[gate] = input.succs[fixups[n]]
    BY <2>1 DEF Repairs
  <2> HIDE DEF n
  <2>4. ~Resolved(fixups[n])
    BY <1>1, <2>1 DEF Resolved
  <2>5. \A i \in DOMAIN fixups : fixups[i] = fixups[n] => i = n
    BY <2>1 DEF Repairs, IsInjective
  <2>6. \A i \in DOMAIN fixups : FixupKey(i) = gate => i = n
    BY <2>1, FixupKeys
  <2>7. Resolved(p) \/ p = fixups[n] <=>
              /\ p \in done
              /\ \A i \in DOMAIN fixups : fixups[i] = p => FixupKey(i) \in done
    BY <1>3, <2>1, <2>2, <2>5, <2>6 DEF Resolved
  <2> QED
    BY <2>2, <2>3, <2>4, <2>7
<1> QED
  BY <1>2, <1>3

LEMMA PositionsFinite ==
  ASSUME NEW S, NEW list \in Seq(S), NEW T \in SUBSET DOMAIN list
  PROVE  IsFiniteSet(T) /\ Cardinality(T) \in Nat
<1>1. DOMAIN list = 1 .. Len(list) /\ Len(list) \in Nat
  BY LenProperties
<1>2. IsFiniteSet(1 .. Len(list))
  BY <1>1, FS_Interval
<1>3. IsFiniteSet(T)
  BY <1>1, <1>2, FS_Subset
<1> QED
  BY <1>3, FS_CardinalityType

LEMMA PredsType ==
  ASSUME TypeOK, NEW k \in Ops
  PROVE  /\ input.preds[k] \in Seq(Ops)
         /\ \A j \in DOMAIN input.preds[k] : input.preds[k][j] \in Ops
         /\ Outstanding(k) \in SUBSET DOMAIN input.preds[k]
         /\ Cardinality(Outstanding(k)) \in Nat
<1>1. input.preds[k] \in Seq(Ops)
  BY DEF TypeOK, Input
<1>2. Outstanding(k) \in SUBSET DOMAIN input.preds[k]
  BY DEF Outstanding
<1> QED
  BY <1>1, <1>2, PositionsFinite, ElementOfSeq, LenProperties

(* As many entries stop being outstanding as the released list has.        *)
LEMMA FewerOutstanding ==
  ASSUME TypeOK, Placed, Repairs, SameEdges(input), NEW gate \in Flying,
         UNCHANGED <<input, fixups>>, finished' = finished \cup {gate}, NEW k \in Ops
  PROVE  /\ Occurrences(succs[gate], k) \in Nat
         /\ Cardinality(Outstanding(k)') \in Nat
         /\ Cardinality(Outstanding(k)) =
              Cardinality(Outstanding(k)') + Occurrences(succs[gate], k)
<1> DEFINE op == QubitsOf(gate)
           list == input.preds[k]
           gone == {j \in DOMAIN list : list[j] = op}
<1>1. /\ op \in Ops /\ succs[gate] = input.succs[op] /\ ~Resolved(op)
  BY Resolves
<1>2. list \in Seq(Ops) /\ Outstanding(k) \in SUBSET DOMAIN list
      /\ \A j \in DOMAIN list : list[j] \in Ops
  BY PredsType
<1>3. \A p \in Ops : Resolved(p)' <=> Resolved(p) \/ p = op
  <2> TAKE p \in Ops
  <2>1. Resolved(p)' <=> /\ p \in finished'
                         /\ \A i \in DOMAIN fixups : fixups[i] = p => FixupKey(i) \in finished'
    BY DEF Resolved, FixupKey
  <2> QED
    BY <2>1, Resolves
<1>4. gone = Outstanding(k) \ Outstanding(k)' /\ Outstanding(k)' \subseteq Outstanding(k)
  <2>1. Outstanding(k)' = {j \in DOMAIN list : ~Resolved(list[j])'}
    BY DEF Outstanding
  <2>2. Outstanding(k) = {j \in DOMAIN list : ~Resolved(list[j])}
    BY DEF Outstanding
  <2>3. \A j \in DOMAIN list : Resolved(list[j])' <=> Resolved(list[j]) \/ list[j] = op
    BY <1>2, <1>3
  <2> HIDE DEF list, op
  <2> QED
    BY <1>1, <2>1, <2>2, <2>3
<1>5. Cardinality(gone) = Occurrences(succs[gate], k)
  BY <1>1 DEF SameEdges, Occurrences
<1> HIDE DEF op, list, gone
<1>6. Outstanding(k)' \in SUBSET DOMAIN list /\ gone \in SUBSET DOMAIN list
  BY <1>2, <1>4
<1>7. IsFiniteSet(Outstanding(k)') /\ Cardinality(Outstanding(k)') \in Nat
  BY <1>2, <1>6, PositionsFinite
<1>8. IsFiniteSet(gone) /\ Cardinality(gone) \in Nat
  BY <1>2, <1>6, PositionsFinite
<1>9. Outstanding(k) = Outstanding(k)' \cup gone /\ Outstanding(k)' \cap gone = {}
  BY <1>4
<1>10. Cardinality(Outstanding(k)' \cap gone) = 0
  BY <1>9, FS_EmptySet
<1>11. Cardinality(Outstanding(k)' \cup gone)
         = Cardinality(Outstanding(k)') + Cardinality(gone) - Cardinality(Outstanding(k)' \cap gone)
  BY <1>7, <1>8, FS_Union
<1> QED
  BY <1>5, <1>7, <1>8, <1>9, <1>10, <1>11

(* With a fixup in between, nothing is resolved yet. *)
LEMMA InjectionResolvesNone ==
  ASSUME TypeOK, Placed, Activations, Repairs, InjectionError, NEW k \in Ops
  PROVE  Outstanding(k)' = Outstanding(k)
<1> DEFINE n == Len(fixups) + 1
<1>1. /\ fixups' = Append(fixups, gateDone) /\ input' = input
      /\ finished' = finished \cup {gateDone}
  BY DEF InjectionError, CountCompletion, gateDone
<1>2. /\ gateDone \in Flying /\ gateDone \in Ops /\ FixupKey(n) \in Key \ Known
  BY InjectionPlaced
<1>3. gateDone \notin finished /\ finished \subseteq Known /\ fixups \in Seq(Ops)
      /\ gateDone \in Known
  BY <1>2, KnownKeys DEF Placed, TypeOK
<1>4. /\ DOMAIN fixups' = 1 .. n /\ fixups'[n] = gateDone
      /\ \A i \in 1 .. Len(fixups) : fixups'[i] = fixups[i]
  BY <1>1, <1>2, <1>3, AppendProperties, LenProperties
<1>5. n \in DOMAIN fixups' /\ \A i \in DOMAIN fixups' : i \in DOMAIN fixups \/ i = n
  BY <1>4, FixupKeys
<1>6. DOMAIN fixups \subseteq DOMAIN fixups' /\ \A i \in DOMAIN fixups : fixups'[i] = fixups[i]
  BY <1>4, FixupKeys
<1>7. \A i \in DOMAIN fixups : FixupKey(i) # gateDone
  BY <1>2, FixupKeys
<1>8. \A i : FixupKey(i)' = FixupKey(i)
  BY DEF FixupKey
<1> HIDE DEF n
<1>9. FixupKey(n) \notin finished'
  BY <1>1, <1>2, <1>3
<1>10. ASSUME NEW p \in Ops PROVE Resolved(p)' <=> Resolved(p)
  <2>1. Resolved(p)' <=> /\ p \in finished'
                         /\ \A i \in DOMAIN fixups' : fixups'[i] = p => FixupKey(i) \in finished'
    BY <1>8 DEF Resolved
  <2>2. CASE p = gateDone
    BY <1>3, <1>4, <1>5, <1>9, <2>1, <2>2 DEF Resolved
  <2>3. CASE p # gateDone
    BY <1>1, <1>4, <1>5, <1>6, <1>7, <2>1, <2>3 DEF Resolved
  <2> QED
    BY <2>2, <2>3
<1> QED
  BY <1>1, <1>10, PredsType DEF Outstanding

(* What activate_ops puts down is never too much, and without fixups exact. *)
LiveCounts ==
  \A k \in Ops :
    LET live == LivePredecessors(input.preds[k], finished)
    IN  /\ live \in Nat
        /\ live <= Cardinality(Outstanding(k))
        /\ fixups = <<>> => live = Cardinality(Outstanding(k))

LEMMA LiveCount == TypeOK => LiveCounts
<1> SUFFICES ASSUME TypeOK, NEW k \in Ops
             PROVE  LET live == LivePredecessors(input.preds[k], finished)
                    IN  /\ live \in Nat
                        /\ live <= Cardinality(Outstanding(k))
                        /\ fixups = <<>> => live = Cardinality(Outstanding(k))
  BY DEF LiveCounts
<1> DEFINE T == {j \in DOMAIN input.preds[k] : input.preds[k][j] \notin finished}
<1>1. T \subseteq Outstanding(k)
  BY DEF Outstanding, Resolved
<1>2. fixups = <<>> => T = Outstanding(k)
  BY DEF Outstanding, Resolved
<1>3. IsFiniteSet(T) /\ Cardinality(T) \in Nat
  BY PredsType, PositionsFinite
<1>4. IsFiniteSet(Outstanding(k))
  BY PredsType, PositionsFinite
<1>5. LivePredecessors(input.preds[k], finished) = Cardinality(T)
  BY DEF LivePredecessors
<1> HIDE DEF T
<1>6. Cardinality(T) <= Cardinality(Outstanding(k))
  BY <1>1, <1>4, FS_Subset
<1> QED
  BY <1>2, <1>3, <1>5, <1>6

LEMMA LiveCountNext == TypeOK /\ [Next]_vars => LiveCounts'
BY LiveCount, TypeNext, PTL

(* A release takes as much from the count as becomes resolved. *)
LEMMA ReleaseMoves ==
  ASSUME TypeOK, Placed, Repairs, SameEdges(input), NEW gate \in Flying,
         UNCHANGED <<input, fixups>>, finished' = finished \cup {gate}, NEW k \in Ops,
         NEW counts \in [Key -> Nat], pending' = ReleasedCounts(counts, succs[gate])
  PROVE  /\ counts[k] <= Cardinality(Outstanding(k)) => NotAbove(k)'
         /\ Cardinality(Outstanding(k)) <= counts[k] => NotBelow(k)'
         /\ pending'[k] \in Nat /\ pending'[k] <= counts[k]
         /\ Occurrences(succs[gate], k) = 0 => pending'[k] = counts[k]
<1>1. /\ Occurrences(succs[gate], k) \in Nat
      /\ Cardinality(Outstanding(k)') \in Nat
      /\ Cardinality(Outstanding(k)) =
           Cardinality(Outstanding(k)') + Occurrences(succs[gate], k)
  BY FewerOutstanding
<1>2. k \in Key /\ counts[k] \in Nat
  BY KnownKeys
<1>3. pending'[k] = IF counts[k] > Occurrences(succs[gate], k)
                      THEN counts[k] - Occurrences(succs[gate], k) ELSE 0
  BY <1>2 DEF ReleasedCounts
<1>4. pending'[k] \in Nat
  BY <1>1, <1>2, <1>3
<1>5. (NotAbove(k)' <=> pending'[k] <= Cardinality(Outstanding(k)'))
      /\ (NotBelow(k)' <=> Cardinality(Outstanding(k)') <= pending'[k])
  BY DEF NotAbove, NotBelow
<1> QED
  BY <1>1, <1>2, <1>3, <1>4, <1>5

LEMMA CountsMove ==
  ASSUME TypeOK, Placed, Activations, Repairs, [Next]_vars, NEW k \in Ops,
         SameEdges(input), ActivatedOnce(input)
  PROVE  /\ NotAbove(k) => NotAbove(k)'
         /\ /\ input.feedback = 0 => TargetsIndependent(input)
            /\ fixups' = <<>> \/ HookedOps = {}
            /\ NotBelow(k)
            => NotBelow(k)'
<1>a. input' = input /\ k \in Key /\ k \in Known /\ pending \in [Key -> Nat]
  BY InputKept, KnownKeys DEF TypeOK
<1>b. ASSUME pending'[k] = pending[k], Outstanding(k)' = Outstanding(k)
      PROVE  (NotAbove(k) => NotAbove(k)') /\ (NotBelow(k) => NotBelow(k)')
  BY <1>b DEF NotAbove, NotBelow
<1>c. ASSUME UNCHANGED <<fixups, finished>> PROVE Outstanding(k)' = Outstanding(k)
  BY <1>a, <1>c DEF Outstanding, Resolved, FixupKey
<1>1. CASE Elsewhere
  <2>1. UNCHANGED <<fixups, finished, pending>>
    BY <1>1, ElsewherePlaced DEF dagVars, countVars
  <2> QED
    BY <1>b, <1>c, <2>1
<1>2. CASE Issuing
  <2>1. UNCHANGED <<fixups, finished, pending>>
    BY <1>2 DEF Issuing, ServeStalled, ServeReady, StallReady, ScheduleReady, dagVars, countVars
  <2> QED
    BY <1>b, <1>c, <2>1
<1>3. CASE InjectionError
  <2>1. pending' = [pending EXCEPT ![FixupKey(Len(fixups) + 1)] = 0]
    BY <1>3 DEF InjectionError
  <2>2. FixupKey(Len(fixups) + 1) # k
    BY <1>3, <1>a, InjectionPlaced
  <2>3. pending'[k] = pending[k]
    BY <1>a, <2>1, <2>2
  <2> QED
    BY <1>3, <1>b, <2>3, InjectionResolvesNone
<1>4. CASE GateCompleted \/ MeasuredDeferred
  <2>1. /\ pending' = ReleasedCounts(pending, succs[gateDone])
        /\ finished' = finished \cup {gateDone} /\ UNCHANGED <<input, fixups>>
    BY <1>4 DEF GateCompleted, MeasuredDeferred, CountCompletion, gateDone
  <2>2. gateDone \in Flying
    BY <1>4, CompletionPlaced
  <2> QED
    BY <1>a, <2>1, <2>2, ReleaseMoves DEF NotAbove, NotBelow
<1>5. CASE MeasuredInstant
  <2>1. /\ finished' = finished \cup {gateDone} /\ UNCHANGED <<input, fixups>>
        /\ input.feedback = 0
    BY <1>5 DEF MeasuredInstant, CountCompletion, gateDone
  <2>2. gateDone \in Flying /\ gateDone \in HookedOps
    BY <1>5, InstantPlaced
  <2>3. PICK o \in Outcomes :
          pending' = ReleasedCounts(ActivatedCounts(pending, TargetsOf(input, gateDone, o),
                                                    input.preds, CompletedSet'),
                                    succs[gateDone])
    BY <1>5, InstantPlaced
  <2>4. CompletedSet' = finished'
    BY <2>2 DEF CompletedSet, HookedOps, TypeOK, Input
  <2> DEFINE keys == TargetsOf(input, gateDone, o)
             counts == ActivatedCounts(pending, keys, input.preds, finished')
  <2>5. keys \in Seq(Ops) /\ input.preds \in [Ops -> Seq(Ops)]
    BY <2>2, TargetsType DEF TargetsOf, TypeOK, Input
  <2>6. counts \in [Key -> Nat]
    <3> HIDE DEF keys
    <3> QED
      BY <1>a, <2>5, ActivatedCountsType
  <2>7. counts[k] = IF k \in ToSet(keys) THEN LivePredecessors(input.preds[k], finished')
                                         ELSE pending[k]
    BY <1>a DEF ActivatedCounts
  <2>8. pending' = ReleasedCounts(counts, succs[gateDone])
    BY <2>3, <2>4
  <2> HIDE DEF counts, keys
  <2>9. /\ counts[k] <= Cardinality(Outstanding(k)) => NotAbove(k)'
        /\ Cardinality(Outstanding(k)) <= counts[k] => NotBelow(k)'
        /\ pending'[k] \in Nat /\ pending'[k] <= counts[k]
        /\ Occurrences(succs[gateDone], k) = 0 => pending'[k] = counts[k]
    BY <2>1, <2>2, <2>6, <2>8, ReleaseMoves
  <2>10. CASE k \notin ToSet(keys)
    BY <2>7, <2>9, <2>10 DEF NotAbove, NotBelow
  <2>11. CASE k \in ToSet(keys)
    <3>1. /\ counts[k] \in Nat
          /\ counts[k] <= Cardinality(Outstanding(k)')
          /\ fixups' = <<>> => counts[k] = Cardinality(Outstanding(k)')
      BY <2>1, <2>7, <2>11, LiveCountNext DEF LiveCounts
    <3>2. NotAbove(k)'
      <4>1. Cardinality(Outstanding(k)') \in Nat
        BY <2>1, <2>2, FewerOutstanding
      <4>2. pending'[k] <= Cardinality(Outstanding(k)')
        BY <2>9, <3>1, <4>1
      <4> QED
        BY <4>2 DEF NotAbove
    <3>3. ASSUME TargetsIndependent(input), fixups' = <<>> PROVE NotBelow(k)'
      <4>1. gateDone \in Ops /\ gateDone \in Measurements(input)
        BY <2>2 DEF HookedOps, Measurements
      <4>2. gateDone \notin ToSet(input.preds[k])
        BY <2>11, <3>3, <4>1 DEF TargetsIndependent, keys
      <4>3. succs[gateDone] = input.succs[gateDone]
        <5>1. succs[gateDone] = input.succs[QubitsOf(gateDone)]
          BY <2>2, <4>1, Resolves
        <5> QED
          BY <4>1, <5>1 DEF QubitsOf
      <4>4. {j \in DOMAIN input.preds[k] : input.preds[k][j] = gateDone} = {}
        BY <4>2 DEF ToSet
      <4>5. Occurrences(input.preds[k], gateDone) = 0
        BY <4>4, FS_EmptySet DEF Occurrences
      <4>6. Occurrences(succs[gateDone], k) = 0
        BY <4>1, <4>3, <4>5 DEF SameEdges
      <4>7. pending'[k] = Cardinality(Outstanding(k)') /\ pending'[k] \in Nat
        BY <2>9, <3>1, <3>3, <4>6
      <4> QED
        BY <4>7 DEF NotBelow
    <3> QED
      BY <2>1, <2>2, <3>2, <3>3
  <2> QED
    BY <2>10, <2>11
<1>6. CASE HookActivation
  <2> DEFINE keys == TargetsOf(input, gateDone, Head(events).outcome)
  <2>1. /\ UNCHANGED <<input, fixups, finished>>
        /\ pending' = ActivatedCounts(pending, keys, input.preds, CompletedSet)
        /\ Due("hook")
    BY <1>6 DEF HookActivation, TargetsOf, gateDone, countVars
  <2>2. gateDone \in HookedOps
    BY <2>1, HeadEvent DEF gateDone
  <2>3. CompletedSet = finished
    BY <2>2 DEF CompletedSet, HookedOps, TypeOK, Input
  <2> HIDE DEF keys
  <2>4. pending'[k] = IF k \in ToSet(keys) THEN LivePredecessors(input.preds[k], finished)
                                           ELSE pending[k]
    BY <1>a, <2>1, <2>3 DEF ActivatedCounts
  <2>5. Outstanding(k)' = Outstanding(k)
    BY <1>c, <2>1
  <2>6. CASE k \notin ToSet(keys)
    BY <1>b, <2>4, <2>5, <2>6
  <2>7. CASE k \in ToSet(keys)
    <3>1. /\ pending'[k] \in Nat
          /\ pending'[k] <= Cardinality(Outstanding(k)')
          /\ fixups = <<>> => pending'[k] = Cardinality(Outstanding(k)')
      BY <2>4, <2>5, <2>7, LiveCount DEF LiveCounts
    <3>2. NotAbove(k)' /\ (fixups = <<>> => NotBelow(k)')
      BY <3>1 DEF NotAbove, NotBelow
    <3> QED
      BY <2>1, <2>2, <3>2
  <2> QED
    BY <2>6, <2>7
<1> QED
  BY <1>1, <1>2, <1>3, <1>4, <1>5, <1>6, Steps

LEMMA CountsInit == Init => Repairs /\ CountsLow /\ CountsHigh
<1> SUFFICES ASSUME Init PROVE Repairs /\ CountsLow /\ CountsHigh
  OBVIOUS
<1>1. TypeOK /\ Ops \subseteq Key /\ finished = {} /\ fixups = <<>> /\ DOMAIN fixups = {}
  BY TypeInit, FixupKeys, KnownKeys DEF Init
<1>2. Repairs
  BY <1>1 DEF Init, Repairs, IsInjective, ToSet
<1>3. ASSUME NEW k \in Ops PROVE pending[k] = Cardinality(Outstanding(k)) /\ pending[k] \in Nat
  <2>1. Outstanding(k) = DOMAIN input.preds[k]
    BY <1>1 DEF Outstanding, Resolved
  <2>2. input.preds[k] \in Seq(Ops)
    BY <1>1, PredsType
  <2>3. DOMAIN input.preds[k] = 1 .. Len(input.preds[k]) /\ Len(input.preds[k]) \in Nat
    BY <2>2, LenProperties
  <2>4. Cardinality(Outstanding(k)) = Len(input.preds[k])
    BY <2>1, <2>3, FS_Interval
  <2>5. pending[k] = Len(input.preds[k])
    BY <1>1 DEF Init, PredecessorCount, PredsOf
  <2> QED
    BY <2>3, <2>4, <2>5
<1>4. \A k \in Ops : NotAbove(k) /\ NotBelow(k)
  BY <1>3 DEF NotAbove, NotBelow
<1> QED
  BY <1>2, <1>4 DEF CountsLow, CountsHigh

LEMMA CountsLowStep ==
  ASSUME TypeOK, Placed, Activations, Repairs, CountsLow, [Next]_vars,
         SameEdges(input), ActivatedOnce(input)
  PROVE  CountsLow'
BY CountsMove DEF CountsLow

LEMMA CountsHighStep ==
  ASSUME TypeOK, Placed, Activations, Repairs, CountsHigh, [Next]_vars,
         SameEdges(input), ActivatedOnce(input),
         input.feedback = 0 => TargetsIndependent(input)
  PROVE  CountsHigh'
<1> SUFFICES ASSUME fixups' = <<>> \/ HookedOps' = {}, NEW k \in Ops PROVE NotBelow(k)'
  BY DEF CountsHigh
<1>1. HookedOps' = HookedOps
  BY InputKept DEF HookedOps
<1>2. fixups' = <<>> => fixups = <<>>
  <2>1. CASE InjectionError
    <3>1. fixups' = Append(fixups, gateDone) /\ fixups \in Seq(Ops) /\ gateDone \in Ops
      BY <2>1, InjectionPlaced DEF InjectionError, gateDone, TypeOK
    <3>2. Append(fixups, gateDone) # <<>>
      BY <3>1, AppendProperties
    <3> QED
      BY <3>1, <3>2
  <2> QED
    BY <2>1, FixupsKept
<1>3. NotBelow(k)
  BY <1>1, <1>2 DEF CountsHigh
<1> QED
  BY <1>1, <1>3, CountsMove

(* An operation that has been issued waits for nobody, so nothing it       *)
(* depends on is outstanding.                                              *)
LEMMA NothingOutstanding ==
  ASSUME TypeOK, Placed, CountsHigh, fixups = <<>> \/ HookedOps = {}
  PROVE  DependencyOrder
<1> SUFFICES ASSUME NEW k \in Ops, Issued(k), NEW j \in DOMAIN input.preds[k]
             PROVE  Resolved(input.preds[k][j])
  BY DEF DependencyOrder
<1>1. k \in IssuedOps
  BY DEF Issued, Waiting, InFlight, IssuedOps, Queued, Stalling, Flying, GatesOf, ToSet,
         IdsOf, EventsOf
<1>2. Cardinality(Outstanding(k)) <= 0
  BY <1>1 DEF Placed, CountsHigh, NotBelow
<1>3. Cardinality(Outstanding(k)) = 0 /\ IsFiniteSet(Outstanding(k))
  BY <1>2, PredsType, PositionsFinite
<1>4. Outstanding(k) = {}
  BY <1>3, FS_EmptySet
<1> QED
  BY <1>4 DEF Outstanding

LEMMA AlwaysCounted ==
  ASSUME \A c \in Inputs : SameEdges(c) /\ ActivatedOnce(c)
  PROVE  Spec => [](Repairs /\ CountsLow)
<1>1. Spec => [](Chosen /\ Placed /\ Activations)
  BY AlwaysPlaced
<1>2. Chosen => SameEdges(input) /\ ActivatedOnce(input)
  BY DEF Chosen
<1>3. TypeOK /\ Chosen /\ Placed /\ Activations /\ Repairs /\ CountsLow /\ [Next]_vars
        => (Repairs /\ CountsLow)'
  BY <1>2, RepairsStep, CountsLowStep
<1> QED
  BY <1>1, <1>3, CountsInit, TypeCorrect, PTL DEF Spec

LEMMA AlwaysInOrder ==
  ASSUME \A c \in Inputs : /\ SameEdges(c) /\ ActivatedOnce(c)
                           /\ c.feedback = 0 => TargetsIndependent(c)
  PROVE  Spec => [](fixups = <<>> \/ HookedOps = {} => DependencyOrder)
<1>1. Spec => [](Chosen /\ Placed /\ Activations)
  BY AlwaysPlaced
<1>2. Spec => []Repairs
  <2>1. Spec => [](Repairs /\ CountsLow)
    BY AlwaysCounted
  <2> QED
    BY <2>1, PTL
<1>3. Chosen => /\ SameEdges(input) /\ ActivatedOnce(input)
                /\ input.feedback = 0 => TargetsIndependent(input)
  BY DEF Chosen
<1>4. TypeOK /\ Chosen /\ Placed /\ Activations /\ Repairs /\ CountsHigh /\ [Next]_vars
        => CountsHigh'
  BY <1>3, CountsHighStep
<1>5. TypeOK /\ Placed /\ CountsHigh => (fixups = <<>> \/ HookedOps = {} => DependencyOrder)
  BY NothingOutstanding
<1> QED
  BY <1>1, <1>2, <1>4, <1>5, CountsInit, TypeCorrect, PTL DEF Spec

(* The predecessor counts of release_successors enforce the dependencies   *)
(* of every circuit without measurement hooks, repeated ones and injected  *)
(* fixups included: the fixup takes over the successors' counts with the   *)
(* list.                                                                   *)
THEOREM DependenciesKept ==
  (\A c \in Inputs : SameEdges(c) /\ Measurements(c) = {}) => (Spec => []DependencyOrder)
<1> SUFFICES ASSUME \A c \in Inputs : SameEdges(c) /\ Measurements(c) = {}
             PROVE  Spec => []DependencyOrder
  OBVIOUS
<1>1. \A c \in Inputs : ActivatedOnce(c) /\ TargetsIndependent(c)
  BY DEF ActivatedOnce, TargetsIndependent
<1>2. Spec => [](Chosen /\ Placed /\ Activations)
  BY <1>1, AlwaysPlaced
<1>3. Spec => [](fixups = <<>> \/ HookedOps = {} => DependencyOrder)
  BY <1>1, AlwaysInOrder
<1>4. Chosen => HookedOps = {}
  BY DEF Chosen, HookedOps, Measurements
<1> QED
  BY <1>2, <1>3, <1>4, PTL

(* With feedback they do so up to the first injected fixup, when an        *)
(* operation is activated by one measurement, and by an instant one only   *)
(* if it does not depend on it.                                            *)
THEOREM FeedbackKeepsOrder ==
  (\A c \in Inputs : /\ SameEdges(c) /\ ActivatedOnce(c)
                     /\ c.feedback = 0 => TargetsIndependent(c))
    => (Spec => []FeedbackOrder)
<1> SUFFICES ASSUME \A c \in Inputs : /\ SameEdges(c) /\ ActivatedOnce(c)
                                      /\ c.feedback = 0 => TargetsIndependent(c)
             PROVE  Spec => []FeedbackOrder
  OBVIOUS
<1>1. Spec => [](fixups = <<>> \/ HookedOps = {} => DependencyOrder)
  BY AlwaysInOrder
<1>2. (fixups = <<>> \/ HookedOps = {} => DependencyOrder) => FeedbackOrder
  BY DEF FeedbackOrder
<1> QED
  BY <1>1, <1>2, PTL

-----------------------------------------------------------------------------
(* run does not wait for ever. *)

(* What is active or will be is what the measurements made so far          *)
(* activate, each with one outcome.                                        *)
Branches ==
  \E M \in SUBSET (HookedOps \cap finished) : \E w \in [M -> Outcomes] :
    Expected \cap Ops = ActiveAfter(input, w)

LEMMA HeldBackInit == Init => HeldBack /\ Branches
<1> SUFFICES ASSUME Init PROVE HeldBack /\ Branches
  OBVIOUS
<1>1. TypeOK /\ Ops \subseteq Key /\ NumOps \in Nat /\ active = input.active /\ active \subseteq Ops
  BY TypeInit, KnownKeys, SizesAssumption DEF Init, TypeOK, Input
<1>2. HeldBack
  <2> DEFINE I == InitialReadySet(pending, active)
  <2>1. I \in SUBSET (1 .. NumOps) /\ ready \in InOrder(I)
    BY <1>1 DEF Init, InitialReadySet, Ops
  <2>2. Numbers(ready, I)
    BY <1>1, <2>1, InOrderOnto
  <2>3. \A k \in I : k \in Queued
    <3> HIDE DEF I
    <3> QED
      BY <2>2 DEF Numbers, Queued, ToSet
  <2>4. ASSUME NEW k \in (active \cap Ops) \ IssuedOps PROVE pending[k] > 0
    <3>1. pending[k] # 0
      BY <2>3, <2>4 DEF IssuedOps, InitialReadySet
    <3>2. pending[k] \in Nat
      BY <1>1, <2>4 DEF TypeOK
    <3> QED
      BY <3>1, <3>2
  <2> QED
    BY <2>4 DEF HeldBack
<1>3. Expected = active
  BY NothingAwaited
<1>4. Branches
  <2> DEFINE w == [m \in {} |-> 0]
  <2>1. w \in [{} -> Outcomes] /\ DOMAIN w = {}
    OBVIOUS
  <2> HIDE DEF w
  <2>2. ActiveAfter(input, w) = input.active
    BY <2>1 DEF ActiveAfter
  <2>3. Expected \cap Ops = ActiveAfter(input, w)
    BY <1>1, <1>3, <2>2
  <2> QED
    BY <2>1, <2>3 DEF Branches
<1> QED
  BY <1>2, <1>4

(* Whatever count a step takes to zero belongs to an operation it pushes.  *)
LEMMA HeldBackStep ==
  ASSUME TypeOK, Placed, Activations, HeldBack, ActivatedOnce(input), [Next]_vars
  PROVE  HeldBack'
<1> SUFFICES ASSUME NEW k \in (active' \cap Ops) \ IssuedOps' PROVE pending'[k] > 0
  BY DEF HeldBack
<1>a. k \in Key /\ pending \in [Key -> Nat] /\ pending' \in [Key -> Nat]
  BY KnownKeys, TypeNext DEF TypeOK
<1>b. ASSUME k \in active, pending'[k] = pending[k] PROVE pending'[k] > 0
  BY <1>b, IssuedGrows DEF HeldBack
<1>1. CASE Elsewhere
  BY <1>1, <1>b, ElsewherePlaced DEF dagVars
<1>2. CASE Issuing
  BY <1>2, <1>b DEF Issuing, ServeStalled, ServeReady, StallReady, ScheduleReady, dagVars
<1>3. CASE InjectionError
  <2>1. /\ pending' = [pending EXCEPT ![FixupKey(Len(fixups) + 1)] = 0]
        /\ active' = active \cup {FixupKey(Len(fixups) + 1)}
    BY <1>3 DEF InjectionError
  <2>2. FixupKey(Len(fixups) + 1) # k
    BY <1>3, InjectionPlaced, KnownKeys
  <2> QED
    BY <1>a, <1>b, <2>1, <2>2
<1>4. CASE GateCompleted \/ MeasuredDeferred
  <2>1. /\ active' = active /\ pending' = ReleasedCounts(pending, succs[gateDone])
        /\ IssuedOps' = IssuedOps \cup Freed(pending, active, succs[gateDone])
        /\ gateDone \in Flying
    BY <1>4, CompletionPlaced DEF GateCompleted, MeasuredDeferred, gateDone
  <2>2. succs[gateDone] \in Seq(Known)
    BY <2>1, KnownKeys DEF Placed, IssuedOps, TypeOK
  <2>3. pending[k] > 0
    BY <2>1 DEF HeldBack
  <2>4. pending'[k] # 0
    BY <1>a, <2>1, <2>2, <2>3, ReleasedZero
  <2> QED
    BY <1>a, <2>4
<1>5. CASE MeasuredInstant
  <2>1. gateDone \in Flying
    BY <1>5, InstantPlaced
  <2>2. PICK o \in Outcomes :
          LET keys == TargetsOf(input, gateDone, o)
              counts == ActivatedCounts(pending, keys, input.preds, CompletedSet')
          IN  /\ active' = active \cup ToSet(keys)
              /\ pending' = ReleasedCounts(counts, succs[gateDone])
              /\ IssuedOps' =
                   IssuedOps
                     \cup {x \in ToSet(keys) :
                             LivePredecessors(input.preds[x], CompletedSet') = 0}
                     \cup Freed(counts, active', succs[gateDone])
    BY <1>5, InstantPlaced
  <2> DEFINE keys == TargetsOf(input, gateDone, o)
             done == CompletedSet'
             counts == ActivatedCounts(pending, keys, input.preds, done)
  <2>3. keys \in Seq(Ops) /\ input.preds \in [Ops -> Seq(Ops)]
        /\ succs[gateDone] \in Seq(Known)
    <3>1. gateDone \in HookedOps
      BY <1>5, InstantPlaced
    <3> QED
      BY <2>1, <3>1, TargetsType, KnownKeys DEF TargetsOf, TypeOK, Input, Placed, IssuedOps
  <2> HIDE DEF keys, done
  <2>4. counts \in [Key -> Nat]
    BY <1>a, <2>3, ActivatedCountsType
  <2>5. counts[k] = IF k \in ToSet(keys) THEN LivePredecessors(input.preds[k], done)
                                         ELSE pending[k]
    BY <1>a DEF ActivatedCounts
  <2>6. /\ active' = active \cup ToSet(keys)
        /\ pending' = ReleasedCounts(counts, succs[gateDone])
        /\ IssuedOps' = IssuedOps
             \cup {x \in ToSet(keys) : LivePredecessors(input.preds[x], done) = 0}
             \cup Freed(counts, active', succs[gateDone])
    BY <2>2 DEF keys, done
  <2> HIDE DEF counts
  <2>7. counts[k] # 0
    <3>1. CASE k \in ToSet(keys)
      BY <2>5, <2>6, <3>1
    <3>2. CASE k \notin ToSet(keys)
      BY <2>5, <2>6, <3>2 DEF HeldBack
    <3> QED
      BY <3>1, <3>2
  <2>8. counts[k] > 0
    BY <1>a, <2>4, <2>7
  <2>9. pending'[k] # 0
    BY <1>a, <2>3, <2>4, <2>6, <2>8, ReleasedZero
  <2> QED
    BY <1>a, <2>9
<1>6. CASE HookActivation
  <2> DEFINE keys == TargetsOf(input, gateDone, Head(events).outcome)
  <2>1. /\ pending' = ActivatedCounts(pending, keys, input.preds, CompletedSet)
        /\ active' = active \cup ToSet(keys)
    BY <1>6 DEF HookActivation, TargetsOf, gateDone
  <2>2. IssuedOps' = IssuedOps \cup
          {x \in ToSet(keys) : LivePredecessors(input.preds[x], CompletedSet) = 0}
    BY <1>6, ActivationPlaced
  <2> HIDE DEF keys
  <2>3. pending'[k] = IF k \in ToSet(keys) THEN LivePredecessors(input.preds[k], CompletedSet)
                                           ELSE pending[k]
    BY <1>a, <2>1 DEF ActivatedCounts
  <2>4. CASE k \in ToSet(keys)
    <3>1. pending'[k] # 0
      BY <2>2, <2>3, <2>4
    <3> QED
      BY <1>a, <3>1
  <2>5. CASE k \notin ToSet(keys)
    BY <1>b, <2>1, <2>3, <2>5
  <2> QED
    BY <2>4, <2>5
<1> QED
  BY <1>1, <1>2, <1>3, <1>4, <1>5, <1>6, Steps

LEMMA BranchesStep ==
  ASSUME TypeOK, Placed, Activations, Branches, ActivatedOnce(input), [Next]_vars
  PROVE  Branches'
<1>a. input' = input /\ HookedOps' = HookedOps /\ finished \subseteq finished'
  BY InputKept, IssuedGrows DEF HookedOps
<1>b. PICK M \in SUBSET (HookedOps \cap finished) :
        \E w \in [M -> Outcomes] : Expected \cap Ops = ActiveAfter(input, w)
  BY DEF Branches
<1>c. PICK w \in [M -> Outcomes] : Expected \cap Ops = ActiveAfter(input, w)
  BY <1>b
<1>d. ASSUME Expected' \cap Ops = Expected \cap Ops PROVE Branches'
  <2>1. M \in SUBSET (HookedOps' \cap finished')
    BY <1>a
  <2>2. Expected' \cap Ops = ActiveAfter(input', w)
    BY <1>a, <1>c, <1>d
  <2> QED
    BY <2>1, <2>2 DEF Branches
<1>1. CASE Elsewhere \/ Issuing \/ GateCompleted \/ HookActivation
  BY <1>1, <1>d, ExpectedKept
<1>2. CASE InjectionError
  BY <1>2, <1>d, ExpectedInjection, InjectionPlaced, KnownKeys
<1>3. CASE MeasuredDeferred \/ MeasuredInstant
  <2>1. gateDone \in HookedOps \ finished
    BY <1>3, ExpectedMeasured
  <2>2. PICK o \in Outcomes :
          Expected' = Expected \cup ToSet(TargetsOf(input, gateDone, o))
    BY <1>3, ExpectedMeasured
  <2>3. ToSet(TargetsOf(input, gateDone, o)) \subseteq Ops
    BY <2>1, TargetsFresh
  <2>4. finished' = finished \cup {gateDone}
    BY <1>3 DEF MeasuredDeferred, MeasuredInstant, CountCompletion, gateDone
  <2> DEFINE N == M \cup {gateDone}
             v == [m \in N |-> IF m = gateDone THEN o ELSE w[m]]
  <2>5. N \in SUBSET (HookedOps' \cap finished') /\ v \in [N -> Outcomes]
    BY <1>a, <1>c, <2>1, <2>4
  <2>6. v[gateDone] = o /\ \A m \in M : v[m] = w[m]
    BY <1>c, <2>1
  <2>7. DOMAIN v = M \cup {gateDone} /\ DOMAIN w = M
    BY <1>c
  <2> HIDE DEF v
  <2>8. ActiveAfter(input, v) = ActiveAfter(input, w) \cup ToSet(TargetsOf(input, gateDone, o))
    BY <2>6, <2>7 DEF ActiveAfter
  <2>9. Expected' \cap Ops = ActiveAfter(input', v)
    BY <1>a, <1>c, <2>2, <2>3, <2>8
  <2> QED
    BY <2>5, <2>9 DEF Branches
<1> QED
  BY <1>1, <1>2, <1>3, Steps

(* If nothing were left to happen, an operation would be active and not    *)
(* finished; the least of them in the order of the dependencies waits for  *)
(* one that is active and not finished either.                             *)
LEMMA SomethingLeft ==
  ASSUME TypeOK, Placed, Activations, Totals, Repairs, CountsLow, HeldBack, Branches,
         Acyclic(input), ActivationClosed(input)
  PROVE  WorkRemains
<1> SUFFICES ASSUME completed < total, ready = <<>>, stalled = <<>>,
                    \A i \in DOMAIN events : events[i].type # "gate",
                    \A i \in DOMAIN events : events[i].type = "hook" =>
                      TargetsOf(input, events[i].id, events[i].outcome) = <<>>
             PROVE  FALSE
  BY DEF WorkRemains, TargetsOf
<1>1. Queued = {} /\ Stalling = {} /\ Flying = {}
  BY DEF Queued, Stalling, Flying, GatesOf, ToSet, IdsOf, EventsOf
<1>2. IssuedOps = finished
  BY <1>1 DEF IssuedOps
<1>3. Expected = active
  <2>1. \A e \in Awaited : ToSet(TargetsOf(input, e.id, e.outcome)) = {}
    BY DEF Awaited, EventsOf, ToSet
  <2> QED
    BY <2>1 DEF Expected, Coming
<1>4. \A i \in DOMAIN fixups : FixupKey(i) \in finished
  BY <1>2 DEF Repairs
<1> DEFINE left == (active \cap Ops) \ finished
<1>5. left # {}
  <2>1. finished # active
    <3>1. Cardinality(finished) < Cardinality(active)
      BY <1>3 DEF Totals
    <3> QED
      BY <3>1, <1>3, FiniteParts
  <2>2. finished \subseteq active /\ active \subseteq Known
    BY <1>2 DEF Placed, TypeOK
  <2>3. PICK k \in active : k \notin finished
    BY <2>1, <2>2
  <2>4. k \in Ops
    BY <1>4, <2>2, <2>3, FixupKeys
  <2> QED
    BY <2>3, <2>4
<1>6. PICK rank \in [Ops -> Ops] :
        \A k \in Ops : \A p \in ToSet(input.preds[k]) : rank[p] < rank[k]
  BY DEF Acyclic
<1>7. PICK k \in left : \A p \in left : rank[k] <= rank[p]
  <2> DEFINE T == {rank[p] : p \in left}
  <2>1. T \in SUBSET Nat /\ T # {}
    BY <1>5, <1>6 DEF Ops
  <2>2. PICK m \in T : \A n \in T : m <= n
    BY <2>1, LeastNumber
  <2> QED
    BY <2>2
<1>8. PICK j \in Outstanding(k) : TRUE
  <2>1. pending[k] > 0 /\ pending[k] <= Cardinality(Outstanding(k)) /\ pending[k] \in Nat
    BY <1>2, <1>7, KnownKeys DEF HeldBack, CountsLow, NotAbove, TypeOK
  <2>2. Cardinality(Outstanding(k)) # 0
    BY <1>7, <2>1, PredsType
  <2> QED
    BY <2>2, FS_EmptySet
<1> DEFINE p == input.preds[k][j]
<1>9. p \in Ops /\ p \in ToSet(input.preds[k]) /\ ~Resolved(p)
  BY <1>7, <1>8, PredsType DEF Outstanding, ToSet
<1>10. p \notin finished
  BY <1>4, <1>9 DEF Resolved
<1>11. p \in active
  <2>1. PICK M \in SUBSET (HookedOps \cap finished) :
          \E w \in [M -> Outcomes] : active \cap Ops = ActiveAfter(input, w)
    BY <1>3 DEF Branches
  <2>2. PICK w \in [M -> Outcomes] : active \cap Ops = ActiveAfter(input, w)
    BY <2>1
  <2>3. M \in SUBSET Measurements(input) /\ M \subseteq ActiveAfter(input, w)
    BY <1>2, <2>2 DEF HookedOps, Measurements, Placed
  <2>4. k \in ActiveAfter(input, w)
    BY <1>7, <2>2
  <2>5. ToSet(input.preds[k]) \subseteq ActiveAfter(input, w)
    BY <2>3, <2>4 DEF ActivationClosed
  <2> QED
    BY <1>9, <2>2, <2>5
<1>12. p \in left /\ rank[p] < rank[k]
  BY <1>6, <1>7, <1>9, <1>10, <1>11
<1>13. rank[p] \in Nat /\ rank[k] \in Nat
  BY <1>6, <1>7, <1>9 DEF Ops
<1> QED
  BY <1>7, <1>12, <1>13

(* While operations are outstanding, something that will bring one about   *)
(* is in a queue, so the loop of run is not left with factory events       *)
(* alone: for every circuit without cycles whose operations are activated  *)
(* by one measurement and never depend on one that stays inactive.         *)
THEOREM NeverStuck ==
  (\A c \in Inputs : SameEdges(c) /\ Acyclic(c) /\ ActivatedOnce(c) /\ ActivationClosed(c))
    => (Spec => []WorkRemains)
<1> SUFFICES ASSUME \A c \in Inputs : /\ SameEdges(c) /\ Acyclic(c)
                                      /\ ActivatedOnce(c) /\ ActivationClosed(c)
             PROVE  Spec => []WorkRemains
  OBVIOUS
<1>1. Spec => [](Chosen /\ Placed /\ Activations)
  BY AlwaysPlaced
<1>2. Spec => [](Repairs /\ CountsLow)
  BY AlwaysCounted
<1>3. Spec => []Totals
  BY AlwaysTotal
<1>4. Chosen => /\ ActivatedOnce(input) /\ Acyclic(input) /\ ActivationClosed(input)
  BY DEF Chosen
<1>5. TypeOK /\ Chosen /\ Placed /\ Activations /\ HeldBack /\ Branches /\ [Next]_vars
        => (HeldBack /\ Branches)'
  BY <1>4, HeldBackStep, BranchesStep
<1>6. TypeOK /\ Chosen /\ Placed /\ Activations /\ Totals /\ Repairs /\ CountsLow
        /\ HeldBack /\ Branches => WorkRemains
  BY <1>4, SomethingLeft
<1> QED
  BY <1>1, <1>2, <1>3, <1>5, <1>6, HeldBackInit, TypeCorrect, PTL DEF Spec
=============================================================================
