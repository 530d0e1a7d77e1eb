--------------------------- MODULE CircuitProofs ---------------------------
(***************************************************************************)
(* Proofs about circuits of any size: validate decides whether the         *)
(* dependencies have a cycle, and the front ends keep the order in which   *)
(* their programs use a qubit.                                             *)
(***************************************************************************)
EXTENDS CircuitProperties, TLAPS, FiniteSetTheorems, SequenceTheorems,
        NaturalsInduction, WellFoundedInduction

IsList(s) == \E S : s \in Seq(S)

LEMMA ListShape ==
  ASSUME NEW s, IsList(s)
  PROVE  Len(s) \in Nat /\ DOMAIN s = 1 .. Len(s)
BY LenProperties DEF IsList

Nodes == Ids(circuit.ops)
Popped == ToSet(order)

(* The entries that node n still waits for. *)
Pending(n) == {i \in IncomingEntries(n) : circuit.deps[i].from \notin Popped}

(* Every member of S waits for a member of S. *)
Stuck(S) == \A m \in S : Waits(m, S)

Typed == IsList(circuit.ops) /\ IsList(circuit.deps)

(* What the checks before the sort have established. *)
Checked ==
  /\ \A i, j \in OpIndex : circuit.ops[i].id = circuit.ops[j].id => i = j
  /\ \A i \in DOMAIN circuit.deps : circuit.deps[i].from \in Nodes

(* The in-degree of a node counts the entries it still waits for, the      *)
(* queue holds the nodes that wait for none, and no stuck set loses a node. *)
Counted ==
  /\ order \in Seq(Nodes)
  /\ visited = Cardinality(Popped)
  /\ inDegree = [n \in Nodes |-> Cardinality(Pending(n))]
  /\ queue = {n \in Nodes \ Popped : Pending(n) = {}}
  /\ \A n \in Popped : Pending(n) = {}
  /\ \A S \in SUBSET Nodes : Stuck(S) => S \cap Popped = {}

Started == verdict \in {"sorting", "accepted", "CyclicDag"}
Ended == verdict \in {"accepted", "CyclicDag"}

KahnInv ==
  /\ Typed
  /\ Started => Checked /\ Counted
  /\ Ended => queue = {} /\ (verdict = "accepted" <=> visited = Len(circuit.ops))

-----------------------------------------------------------------------------
(* Facts about one state. *)

LEMMA NodesFinite ==
  ASSUME Typed
  PROVE  /\ IsFiniteSet(Nodes)
         /\ Checked => Cardinality(Nodes) = Len(circuit.ops)
<1> DEFINE f == [i \in 1 .. Len(circuit.ops) |-> circuit.ops[i].id]
<1>1. DOMAIN circuit.ops = 1 .. Len(circuit.ops) /\ Len(circuit.ops) \in Nat
  BY ListShape DEF Typed
<1>2. /\ IsFiniteSet(1 .. Len(circuit.ops))
      /\ Cardinality(1 .. Len(circuit.ops)) = Len(circuit.ops)
  BY <1>1, FS_Interval
<1>3. f \in Surjection(1 .. Len(circuit.ops), Nodes)
  BY <1>1 DEF Surjection, Nodes, Ids
<1>4. Checked => f \in Injection(1 .. Len(circuit.ops), Nodes)
  BY <1>1, <1>3 DEF Injection, IsInjective, Surjection, Checked, OpIndex
<1> HIDE DEF f
<1> QED
  BY <1>2, <1>3, <1>4, FS_Surjection

LEMMA EntriesFinite ==
  ASSUME Typed, NEW S \in SUBSET DOMAIN circuit.deps
  PROVE  IsFiniteSet(S) /\ Cardinality(S) \in Nat
<1>1. DOMAIN circuit.deps = 1 .. Len(circuit.deps) /\ Len(circuit.deps) \in Nat
  BY ListShape DEF Typed
<1>2. IsFiniteSet(DOMAIN circuit.deps)
  BY <1>1, FS_Interval
<1> QED
  BY <1>2, FS_Subset, FS_CardinalityType

LEMMA PoppedFinite ==
  ASSUME Typed, Counted
  PROVE  Popped \subseteq Nodes /\ IsFiniteSet(Popped)
<1>1. Popped \subseteq Nodes
  BY ElementOfSeq, LenProperties DEF Counted, Popped, ToSet
<1> QED
  BY <1>1, NodesFinite, FS_Subset

(* A list of dependencies is acyclic when no set of nodes is stuck. *)
LEMMA AcyclicNotStuck == Acyclic <=> \A S \in SUBSET Nodes : Stuck(S) => S = {}
BY DEF Acyclic, Stuck, Nodes

LEMMA Decides == KahnInv => KahnCorrect
<1> SUFFICES ASSUME KahnInv
             PROVE  KahnCorrect
  OBVIOUS
<1>1. ASSUME verdict = "accepted"
      PROVE  Acyclic
  <2>1. Typed /\ Checked /\ Counted /\ visited = Len(circuit.ops)
    BY <1>1 DEF KahnInv, Started, Ended
  <2>2. Popped = Nodes
    BY <2>1, NodesFinite, PoppedFinite, FS_Subset DEF Counted
  <2>3. \A S \in SUBSET Nodes : Stuck(S) => S = {}
    BY <2>1, <2>2 DEF Counted
  <2> QED
    BY <2>3, AcyclicNotStuck
<1>2. ASSUME verdict = "CyclicDag"
      PROVE  ~Acyclic
  <2>1. /\ Typed /\ Checked /\ Counted
        /\ queue = {} /\ visited # Len(circuit.ops)
    BY <1>2 DEF KahnInv, Started, Ended
  <2> DEFINE rest == Nodes \ Popped
  <2>2. rest # {}
    <3>1. Popped # Nodes
      BY <2>1, NodesFinite DEF Counted
    <3> QED
      BY <2>1, <3>1, PoppedFinite
  <2>3. Stuck(rest)
    <3> SUFFICES ASSUME NEW m \in rest
                 PROVE  Waits(m, rest)
      BY DEF Stuck
    <3>1. PICK i \in IncomingEntries(m) : circuit.deps[i].from \notin Popped
      BY <2>1 DEF Counted, Pending
    <3>2. circuit.deps[i].from \in rest
      BY <2>1, <3>1 DEF Checked, IncomingEntries
    <3> QED
      BY <3>1, <3>2 DEF Waits, IncomingEntries
  <2> QED
    BY <2>2, <2>3, AcyclicNotStuck
<1> QED
  BY <1>1, <1>2 DEF KahnCorrect

-----------------------------------------------------------------------------
(* The steps. *)

(* Visiting n takes its entries from what m waits for, and no others. *)
LEMMA VisitedEntries ==
  ASSUME Typed, Counted, NEW n \in queue, NEW m \in Nodes
  PROVE  LET left == {i \in IncomingEntries(m) :
                        circuit.deps[i].from \notin Popped \cup {n}}
         IN  /\ Reduced(n, m) = Cardinality(left)
             /\ Edges(n, m) > 0 => Pending(m) # {}
             /\ Edges(n, m) = 0 => left = Pending(m)
<1> DEFINE left == {i \in IncomingEntries(m) :
                      circuit.deps[i].from \notin Popped \cup {n}}
           gone == {i \in DOMAIN circuit.deps :
                      circuit.deps[i].from = n /\ circuit.deps[i].to = m}
<1>1. n \notin Popped
  BY DEF Counted
<1>2. Pending(m) = left \cup gone /\ left \cap gone = {}
  BY <1>1 DEF Pending, IncomingEntries
<1>3. /\ IsFiniteSet(left) /\ Cardinality(left) \in Nat
      /\ IsFiniteSet(gone) /\ Cardinality(gone) \in Nat
  BY EntriesFinite DEF IncomingEntries
<1>4. Cardinality(Pending(m)) = Cardinality(left) + Cardinality(gone)
  BY <1>2, <1>3, FS_Union, FS_EmptySet
<1>5. inDegree[m] = Cardinality(Pending(m)) /\ Edges(n, m) = Cardinality(gone)
  BY DEF Counted, Edges
<1>6. Reduced(n, m) = Cardinality(left)
  BY <1>3, <1>4, <1>5 DEF Reduced
<1>7. Cardinality(gone) = 0 <=> gone = {}
  BY <1>3, FS_EmptySet
<1> QED
  BY <1>2, <1>3, <1>5, <1>6, <1>7

LEMMA KahnInit == ValidateInit => KahnInv
BY DEF ValidateInit, KahnInv, Typed, IsList, Started, Ended

LEMMA KahnBuild == KahnInv /\ BuildGraph => KahnInv'
<1> SUFFICES ASSUME KahnInv, BuildGraph
             PROVE  KahnInv'
  OBVIOUS
<1> USE DEF BuildGraph
<1>1. Typed /\ Typed'
  BY DEF KahnInv, Typed
<1>2. ~DuplicateOpId /\ ~DanglingDependency
  <2>1. DOMAIN Checks = 1 .. 11
    BY DEF Checks
  <2>2. ~Checks[2].fails /\ ~Checks[7].fails
    BY <2>1 DEF Failing
  <2> QED
    BY <2>2 DEF Checks
<1>3. Checked
  <2>1. DOMAIN circuit.ops = 1 .. Len(circuit.ops) /\ Len(circuit.ops) \in Nat
    BY <1>1, ListShape DEF Typed
  <2> QED
    BY <1>2, <2>1 DEF Checked, DuplicateOpId, DanglingDependency, OpIndex, Nodes
<1>4. Popped' = {} /\ Nodes' = Nodes /\ order' \in Seq(Nodes)
  BY DEF Popped, ToSet, Nodes
<1>5. \A n : IncomingEntries(n)' = IncomingEntries(n)
  BY DEF IncomingEntries
<1>6. \A n : Pending(n)' = IncomingEntries(n)
  BY <1>4, <1>5 DEF Pending
<1>7. \A n : InDegree(n) = 0 <=> IncomingEntries(n) = {}
  BY <1>1, EntriesFinite, FS_EmptySet DEF InDegree, IncomingEntries
<1>8. Counted'
  <2>1. visited' = Cardinality(Popped')
    BY <1>4, FS_EmptySet
  <2>2. inDegree' = [n \in Nodes' |-> Cardinality(Pending(n)')]
    BY <1>4, <1>6 DEF InDegree, Nodes
  <2>3. queue' = {n \in Nodes' \ Popped' : Pending(n)' = {}}
    BY <1>4, <1>6, <1>7 DEF Nodes
  <2> QED
    BY <1>4, <2>1, <2>2, <2>3 DEF Counted
<1> QED
  BY <1>1, <1>3, <1>8 DEF KahnInv, Ended, Checked, OpIndex, Nodes

LEMMA KahnVisit == KahnInv /\ VisitNode => KahnInv'
<1> SUFFICES ASSUME KahnInv, VisitNode
             PROVE  KahnInv'
  OBVIOUS
<1>1. Typed /\ Checked /\ Counted /\ UNCHANGED <<circuit, verdict>> /\ verdict = "sorting"
  BY DEF KahnInv, Started, VisitNode
<1>2. PICK n \in queue :
        /\ inDegree' = [m \in DOMAIN inDegree |-> Reduced(n, m)]
        /\ queue' = (queue \ {n}) \cup Reached(n)
        /\ visited' = visited + 1
        /\ order' = Append(order, n)
  BY DEF VisitNode
<1>3. n \in Nodes /\ n \notin Popped /\ Pending(n) = {}
  BY <1>1 DEF Counted
<1>4. /\ Nodes' = Nodes /\ Typed' /\ Checked'
      /\ \A m : IncomingEntries(m)' = IncomingEntries(m)
      /\ \A S : Stuck(S)' <=> Stuck(S)
  BY <1>1 DEF Nodes, Typed, Checked, OpIndex, IncomingEntries, Stuck, Waits
<1>5. order' \in Seq(Nodes) /\ Popped' = Popped \cup {n}
  <2>1. order \in Seq(Nodes)
    BY <1>1 DEF Counted
  <2>2. /\ order' \in Seq(Nodes) /\ Len(order') = Len(order) + 1
        /\ \A i \in 1 .. Len(order) : order'[i] = order[i]
        /\ order'[Len(order) + 1] = n
    BY <1>2, <1>3, <2>1, AppendProperties
  <2>3. DOMAIN order = 1 .. Len(order) /\ DOMAIN order' = 1 .. Len(order) + 1
        /\ Len(order) \in Nat
    BY <2>1, <2>2, LenProperties
  <2>4. 1 .. Len(order) + 1 = (1 .. Len(order)) \cup {Len(order) + 1}
    BY <2>3
  <2> QED
    BY <2>2, <2>3, <2>4 DEF Popped, ToSet
<1>6. \A m : Pending(m)' = {i \in IncomingEntries(m) :
                              circuit.deps[i].from \notin Popped \cup {n}}
  BY <1>1, <1>4, <1>5 DEF Pending
<1>7. \A m : Pending(m)' \subseteq Pending(m)
  BY <1>6 DEF Pending
<1>8. \A m \in Nodes : /\ Reduced(n, m) = Cardinality(Pending(m)')
                       /\ Edges(n, m) > 0 => Pending(m) # {}
                       /\ Edges(n, m) = 0 => Pending(m)' = Pending(m)
  BY <1>1, <1>6, VisitedEntries
<1>9. DOMAIN inDegree = Nodes
  BY <1>1 DEF Counted
<1>10. visited' = Cardinality(Popped')
  BY <1>1, <1>2, <1>3, <1>5, PoppedFinite, FS_AddElement DEF Counted
<1>11. queue' = {m \in Nodes' \ Popped' : Pending(m)' = {}}
  <2>1. ASSUME NEW m \in Nodes
        PROVE  Reduced(n, m) = 0 <=> Pending(m)' = {}
    <3>1. Pending(m)' \subseteq DOMAIN circuit.deps
      BY <1>6 DEF IncomingEntries
    <3> QED
      BY <1>1, <1>8, <3>1, EntriesFinite, FS_EmptySet
  <2>2. ASSUME NEW m \in Nodes
        PROVE  Edges(n, m) \in Nat
    BY <1>1, EntriesFinite DEF Edges
  <2>3. \A m : m \in Reached(n) => m \in Nodes \ Popped' /\ Pending(m)' = {}
    <3> SUFFICES ASSUME NEW m \in Reached(n)
                 PROVE  m \in Nodes \ Popped' /\ Pending(m)' = {}
      OBVIOUS
    <3>1. m \in Nodes /\ Edges(n, m) > 0 /\ Reduced(n, m) = 0
      BY <1>9 DEF Reached
    <3>2. Pending(m) # {}
      BY <1>8, <3>1
    <3>3. m \notin Popped /\ m # n
      BY <1>1, <1>3, <3>2 DEF Counted
    <3> QED
      BY <1>5, <2>1, <3>1, <3>3
  <2>4. \A m \in queue \ {n} : m \in Nodes \ Popped' /\ Pending(m)' = {}
    BY <1>1, <1>5, <1>7 DEF Counted
  <2>5. ASSUME NEW m \in Nodes \ Popped', Pending(m)' = {}
        PROVE  m \in queue'
    <3>1. CASE Edges(n, m) = 0
      <4>1. m \notin Popped /\ Pending(m) = {} /\ m # n
        BY <1>5, <1>8, <2>5, <3>1
      <4> QED
        BY <1>1, <1>2, <4>1 DEF Counted
    <3>2. CASE Edges(n, m) > 0
      BY <1>2, <1>9, <2>1, <2>5, <3>2 DEF Reached
    <3> QED
      BY <2>2, <3>1, <3>2
  <2> QED
    BY <1>2, <1>4, <2>3, <2>4, <2>5
<1>12. \A m \in Popped' : Pending(m)' = {}
  BY <1>1, <1>3, <1>5, <1>7 DEF Counted
<1>13. ASSUME NEW S \in SUBSET Nodes, Stuck(S)
       PROVE  S \cap Popped' = {}
  <2>1. S \cap Popped = {}
    BY <1>1, <1>13 DEF Counted
  <2>2. n \notin S
    BY <1>3, <1>13, <2>1 DEF Stuck, Waits, Pending, IncomingEntries
  <2> QED
    BY <1>5, <2>1, <2>2
<1>14. inDegree' = [m \in Nodes' |-> Cardinality(Pending(m)')]
  BY <1>2, <1>4, <1>8, <1>9
<1>15. Counted'
  BY <1>4, <1>5, <1>10, <1>11, <1>12, <1>13, <1>14 DEF Counted
<1> QED
  BY <1>1, <1>4, <1>15 DEF KahnInv, Ended

(* A check never fails with the name of a later verdict. *)
LEMMA ErrorsNamed ==
  \A i \in DOMAIN Checks : Checks[i].error \notin {"sorting", "accepted", "CyclicDag"}
<1> DEFINE errors == <<"EmptyCircuit", "DuplicateOpId", "InvalidQubit",
                       "QubitPositionCountMismatch", "QubitPositionInvalidQubit",
                       "DuplicateQubitPosition", "DanglingDependency",
                       "DanglingHookReference", "DanglingDependency", "ActiveOpInHook",
                       "OrphanedInactiveOp">>
<1>1. DOMAIN Checks = 1 .. 11
  BY DEF Checks
<1>2. \A i \in 1 .. 11 : Checks[i].error = errors[i]
  BY DEF Checks
<1>3. \A i \in 1 .. 11 : errors[i] \notin {"sorting", "accepted", "CyclicDag"}
  OBVIOUS
<1> QED
  BY <1>1, <1>2, <1>3

LEMMA SameState ==
  ASSUME UNCHANGED <<circuit, inDegree, queue, visited, order>>
  PROVE  (Typed <=> Typed') /\ (Checked <=> Checked') /\ (Counted <=> Counted')
BY DEF Typed, Checked, Counted, Nodes, Popped, Pending, OpIndex, IncomingEntries, Stuck, Waits

LEMMA KahnStep == KahnInv /\ [ValidateStep]_<<circuitVars, kahnVars>> => KahnInv'
<1> SUFFICES ASSUME KahnInv, [ValidateStep]_<<circuitVars, kahnVars>>
             PROVE  KahnInv'
  OBVIOUS
<1>1. CASE Reject
  <2>1. PICK i \in DOMAIN Checks : verdict' = Checks[i].error
    BY <1>1 DEF Reject, Failing
  <2>2. ~Started' /\ ~Ended'
    BY <2>1, ErrorsNamed DEF Started, Ended
  <2> QED
    BY <1>1, <2>2 DEF Reject, KahnInv, Typed
<1>2. CASE BuildGraph
  BY <1>2, KahnBuild
<1>3. CASE VisitNode
  BY <1>3, KahnVisit
<1>4. CASE Conclude
  <2>1. Typed /\ Checked /\ Counted /\ queue = {}
    BY <1>4 DEF Conclude, KahnInv, Started
  <2>2. UNCHANGED <<circuit, inDegree, queue, visited, order>>
    BY <1>4 DEF Conclude, kahnVars
  <2>3. Typed' /\ Checked' /\ Counted'
    BY <2>1, <2>2, SameState
  <2>4. verdict' = "accepted" <=> visited = Len(circuit.ops)
    BY <1>4 DEF Conclude
  <2> QED
    BY <2>1, <2>2, <2>3, <2>4 DEF KahnInv
<1>5. CASE UNCHANGED <<circuitVars, kahnVars>>
  <2>1. UNCHANGED <<circuit, verdict, inDegree, queue, visited, order>>
    BY <1>5 DEF circuitVars, kahnVars
  <2> QED
    BY <2>1, SameState DEF KahnInv, Started, Ended
<1> QED
  BY <1>1, <1>2, <1>3, <1>4, <1>5 DEF ValidateStep

(* validate accepts exactly the circuits whose dependencies have no cycle, *)
(* among those that pass its other checks, for any number of operations    *)
(* and dependencies (validate.rs, the topological sort).                   *)
THEOREM KahnDecides == ValidateSpec => []KahnCorrect
<1>1. ValidateInit => KahnInv
  BY KahnInit
<1>2. KahnInv /\ [ValidateStep]_<<circuitVars, kahnVars>> => KahnInv'
  BY KahnStep
<1>3. KahnInv => KahnCorrect
  BY Decides
<1> QED
  BY <1>1, <1>2, <1>3, PTL DEF ValidateSpec

-----------------------------------------------------------------------------
(* Chains of dependencies. *)

LEMMA LeastOf ==
  ASSUME NEW T \in SUBSET Nat, T # {}
  PROVE  \E m \in T : \A n \in T : m <= n
<1>1. PICK m \in T : \A n \in T : ~(<<n, m>> \in OpToRel(<, Nat))
  BY NatLessThanWellFounded, WFMin, Zenon
<1>2. \A n \in T : ~(n < m)
  BY <1>1 DEF OpToRel
<1> QED
  BY <1>2

LEMMA LeadsByEdge ==
  ASSUME NEW l, NEW n \in Nat, NEW a, NEW b \in 0 .. n - 1, Edge(l, a, b)
  PROVE  Leads(l, n, a, b)
BY DEF Leads

LEMMA LeadsOn ==
  ASSUME NEW l, NEW n \in Nat, NEW a, NEW b, NEW c \in 0 .. n - 1,
         Leads(l, n, a, b), Edge(l, b, c)
  PROVE  Leads(l, n, a, c)
BY DEF Leads

(* More operations and dependencies keep every chain. *)
LEMMA LeadsGrows ==
  ASSUME NEW l, NEW k, NEW n \in Nat, NEW m \in Nat, n <= m, NEW a, NEW b,
         \A x, y : Edge(l, x, y) => Edge(k, x, y), Leads(l, n, a, b)
  PROVE  Leads(k, m, a, b)
<1> SUFFICES ASSUME NEW S \in SUBSET (0 .. m - 1),
                    \A d \in 0 .. m - 1 :
                      Edge(k, a, d) \/ (\E c \in S : Edge(k, c, d)) => d \in S
             PROVE  b \in S
  BY DEF Leads
<1> DEFINE R == S \cap (0 .. n - 1)
<1>1. 0 .. n - 1 \subseteq 0 .. m - 1
  OBVIOUS
<1>2. \A d \in 0 .. n - 1 : Edge(l, a, d) \/ (\E c \in R : Edge(l, c, d)) => d \in R
  BY <1>1
<1>3. R \in SUBSET (0 .. n - 1)
  OBVIOUS
<1> HIDE DEF R
<1>4. b \in R
  BY <1>2, <1>3 DEF Leads
<1> QED
  BY <1>4 DEF R

-----------------------------------------------------------------------------
(* What a loop pushes is in the list, behind what was there. *)
LEMMA PushedList ==
  ASSUME NEW S, NEW q \in Seq(S), NEW list \in Seq(S),
         NEW I \in SUBSET DOMAIN list, NEW r \in Pushed(q, list, I)
  PROVE  /\ r \in Seq(S)
         /\ \A i \in DOMAIN q : i \in DOMAIN r /\ r[i] = q[i]
         /\ \A i \in I : \E j \in DOMAIN r : r[j] = list[i]
         /\ \A j \in DOMAIN r :
              (j \in DOMAIN q /\ r[j] = q[j]) \/ \E i \in I : r[j] = list[i]
<1> DEFINE c == Cardinality(I)
<1>1. DOMAIN list = 1 .. Len(list) /\ Len(list) \in Nat
  BY LenProperties
<1>2. PICK f \in InOrder(I) : r = q \o [k \in 1 .. c |-> list[f[k]]]
  BY DEF Pushed
<1>3. IsFiniteSet(I) /\ c \in Nat
  <2>1. IsFiniteSet(1 .. Len(list))
    BY <1>1, FS_Interval
  <2>2. IsFiniteSet(I)
    BY <1>1, <2>1, FS_Subset
  <2> QED
    BY <2>2, FS_CardinalityType
<1>4. f \in [1 .. c -> I] /\ \A a, b \in 1 .. c : a < b => f[a] < f[b]
  BY DEF InOrder
<1>5. \A i \in I : \E a \in 1 .. c : f[a] = i
  <2>1. Cardinality(1 .. c) = Cardinality(I)
    BY <1>3, FS_Interval
  <2> HIDE DEF c
  <2>2. \A a, b \in 1 .. c : f[a] = f[b] => a = b
    <3> TAKE a, b \in 1 .. c
    <3>1. f[a] \in Nat /\ f[b] \in Nat
      BY <1>1, <1>4
    <3>2. a < b \/ a = b \/ b < a
      BY <1>3
    <3> QED
      BY <1>4, <3>1, <3>2
  <2>3. f \in Injection(1 .. c, I)
    BY <1>4, <2>2 DEF Injection, IsInjective
  <2>4. f \in Surjection(1 .. c, I)
    BY <1>3, <2>1, <2>3, FS_Injection
  <2> QED
    BY <2>4 DEF Surjection
<1> DEFINE s == [k \in 1 .. c |-> list[f[k]]]
<1>6. s \in Seq(S) /\ Len(s) = c /\ \A k \in 1 .. c : s[k] = list[f[k]]
  <2> HIDE DEF c
  <2>1. \A k \in 1 .. c : list[f[k]] \in S
    BY <1>1, <1>4, ElementOfSeq
  <2>2. s \in [1 .. c -> S]
    BY <2>1
  <2>3. s \in Seq(S) /\ Len(s) = c
    BY <1>3, <2>2
  <2> QED
    BY <2>3
<1>7. r = q \o s
  BY <1>2
<1> HIDE DEF c, s
<1>8. /\ r \in Seq(S) /\ Len(r) = Len(q) + c
      /\ \A j \in 1 .. Len(q) + c : r[j] = IF j <= Len(q) THEN q[j] ELSE s[j - Len(q)]
  BY <1>6, <1>7, ConcatProperties
<1>9. DOMAIN r = 1 .. Len(q) + c /\ DOMAIN q = 1 .. Len(q) /\ Len(q) \in Nat
  BY <1>8, LenProperties
<1>10. \A i \in DOMAIN q : i \in DOMAIN r /\ r[i] = q[i]
  BY <1>3, <1>8, <1>9
<1>11. ASSUME NEW i \in I PROVE \E j \in DOMAIN r : r[j] = list[i]
  <2>1. PICK a \in 1 .. c : f[a] = i
    BY <1>5
  <2>2. Len(q) + a \in DOMAIN r /\ r[Len(q) + a] = s[a]
    BY <1>3, <1>8, <1>9
  <2> QED
    BY <1>6, <2>1, <2>2
<1>12. ASSUME NEW j \in DOMAIN r
       PROVE  (j \in DOMAIN q /\ r[j] = q[j]) \/ \E i \in I : r[j] = list[i]
  <2>1. CASE j <= Len(q)
    BY <1>3, <1>8, <1>9, <2>1
  <2>2. CASE ~(j <= Len(q))
    <3>1. j - Len(q) \in 1 .. c /\ r[j] = s[j - Len(q)]
      BY <1>3, <1>8, <1>9, <2>2
    <3> QED
      BY <1>4, <1>6, <3>1
  <2> QED
    BY <2>1, <2>2
<1> QED
  BY <1>8, <1>10, <1>11, <1>12

(* The effect of emitting an operation on the two lists. *)
LEMMA EmitEdges ==
  ASSUME IsList(ops), IsList(deps), NEW Q, NEW qubits \in Seq(Q), NEW kind,
         EmitOperation(kind, qubits)
  PROVE  /\ IsList(ops)' /\ Len(ops') = Len(ops) + 1
         /\ \A i \in DOMAIN ops : ops'[i] = ops[i]
         /\ ops'[Len(ops) + 1] = Emitted(Len(ops), kind, qubits)
         /\ ops'[Len(ops) + 1].qubits = qubits
         /\ IsList(deps)'
         /\ \A j \in DOMAIN deps' :
              \/ j \in DOMAIN deps /\ deps'[j] = deps[j]
              \/ /\ deps'[j].to = Len(ops) /\ deps'[j].from # NoOp
                 /\ \E i \in DOMAIN qubits : deps'[j].from = PreviousOn(Len(ops), qubits, i)
         /\ \A j \in DOMAIN deps : j \in DOMAIN deps' /\ deps'[j] = deps[j]
         /\ \A a, b : Edge(deps, a, b) => Edge(deps', a, b)
         /\ \A q \in ToSet(qubits) \cap DOMAIN last :
              last[q] # NoOp => Edge(deps', last[q], Len(ops))
<1> DEFINE n == Len(ops)
           e == Emitted(n, kind, qubits)
           found == [i \in DOMAIN qubits |-> [from |-> PreviousOn(n, qubits, i), to |-> n]]
           I == {i \in DOMAIN qubits : found[i].from # NoOp}
<1>1. n \in Nat /\ DOMAIN ops = 1 .. n
  BY ListShape
<1>2. PICK O : ops \in Seq(O)
  BY DEF IsList
<1>3. ops' = Append(ops, e)
  BY DEF EmitOperation
<1>4. ops' \in Seq(O \cup {e}) /\ Len(ops') = n + 1 /\ ops'[n + 1] = e
      /\ \A i \in 1 .. n : ops'[i] = ops[i]
  <2> HIDE DEF e, n
  <2>1. ops \in Seq(O \cup {e}) /\ e \in O \cup {e}
    BY <1>2
  <2> QED
    BY <1>3, <2>1, AppendProperties DEF n
<1>5. IsList(ops)'
  BY <1>4 DEF IsList
<1>6. e.qubits = qubits
  BY DEF Emitted
<1>7. DOMAIN qubits = 1 .. Len(qubits) /\ Len(qubits) \in Nat
  BY LenProperties
<1>8. PICK D : deps \in Seq(D)
  BY DEF IsList
<1> DEFINE F == {found[i] : i \in DOMAIN qubits}
<1>9. deps \in Seq(D \cup F) /\ found \in Seq(D \cup F) /\ DOMAIN found = DOMAIN qubits
  <2>1. \A i \in 1 .. Len(qubits) : found[i] \in D \cup F
    BY <1>7
  <2>2. DOMAIN found = 1 .. Len(qubits) /\ found = [i \in 1 .. Len(qubits) |-> found[i]]
    BY <1>7
  <2> HIDE DEF found, F
  <2>3. found \in [1 .. Len(qubits) -> D \cup F]
    BY <2>1, <2>2
  <2>4. found \in Seq(D \cup F)
    BY <1>7, <2>3
  <2> QED
    BY <1>7, <1>8, <2>2, <2>4
<1>10. deps' \in Pushed(deps, found, I) /\ I \in SUBSET DOMAIN found
  BY <1>9 DEF EmitOperation, DepsAfter
<1>11. \A i \in DOMAIN qubits : found[i] = [from |-> PreviousOn(n, qubits, i), to |-> n]
  OBVIOUS
<1>12. \A i \in DOMAIN qubits : found[i].from # NoOp <=> i \in I
  OBVIOUS
<1> HIDE DEF found, I, F
<1>13. /\ deps' \in Seq(D \cup F)
       /\ \A i \in DOMAIN deps : i \in DOMAIN deps' /\ deps'[i] = deps[i]
       /\ \A i \in I : \E j \in DOMAIN deps' : deps'[j] = found[i]
       /\ \A j \in DOMAIN deps' :
            (j \in DOMAIN deps /\ deps'[j] = deps[j]) \/ \E i \in I : deps'[j] = found[i]
  BY <1>9, <1>10, PushedList
<1>14. IsList(deps)'
  BY <1>13 DEF IsList
<1>15. \A a, b : Edge(deps, a, b) => Edge(deps', a, b)
  BY <1>13 DEF Edge
<1>16. ASSUME NEW q \in ToSet(qubits) \cap DOMAIN last, last[q] # NoOp
       PROVE  Edge(deps', last[q], n)
  <2> DEFINE T == {i \in DOMAIN qubits : qubits[i] = q}
  <2>1. T \in SUBSET Nat /\ T # {}
    BY <1>7 DEF ToSet
  <2>2. PICK k \in T : \A i \in T : k <= i
    <3> HIDE DEF T
    <3> QED
      BY <2>1, LeastOf
  <2>3. k \in DOMAIN qubits /\ qubits[k] = q /\ k \in Nat
    BY <1>7, <2>2
  <2>4. ~ \E j \in 1 .. k - 1 : qubits[j] = qubits[k]
    <3> SUFFICES ASSUME NEW j \in 1 .. k - 1, qubits[j] = q PROVE FALSE
      BY <2>3
    <3>1. j \in T /\ ~(k <= j)
      BY <1>7, <2>3
    <3> QED
      BY <2>2, <3>1
  <2>5. PreviousOn(n, qubits, k) = last[q]
    BY <2>3, <2>4 DEF PreviousOn
  <2>6. found[k].from = last[q] /\ found[k].to = n
    <3>1. found[k] = [from |-> PreviousOn(n, qubits, k), to |-> n]
      BY <1>11, <2>3
    <3> QED
      BY <2>5, <3>1
  <2>7. k \in I
    BY <1>12, <1>16, <2>3, <2>6
  <2>8. PICK j \in DOMAIN deps' : deps'[j] = found[k]
    BY <1>13, <2>7
  <2> QED
    BY <2>6, <2>8 DEF Edge
<1>17. ASSUME NEW j \in DOMAIN deps', ~(j \in DOMAIN deps /\ deps'[j] = deps[j])
       PROVE  /\ deps'[j].to = n /\ deps'[j].from # NoOp
              /\ \E i \in DOMAIN qubits : deps'[j].from = PreviousOn(n, qubits, i)
  <2>1. PICK i \in I : deps'[j] = found[i]
    BY <1>13, <1>17
  <2>2. i \in DOMAIN qubits /\ found[i] = [from |-> PreviousOn(n, qubits, i), to |-> n]
    BY <1>9, <1>10, <1>11
  <2>3. found[i].from # NoOp
    BY <1>12, <2>1, <2>2
  <2>4. deps'[j].to = n /\ deps'[j].from = PreviousOn(n, qubits, i)
    BY <2>1, <2>2
  <2> QED
    BY <2>1, <2>2, <2>3, <2>4
<1> QED
  BY <1>1, <1>4, <1>5, <1>6, <1>13, <1>14, <1>15, <1>16, <1>17

(* The last operation on q is operation i, or depends on it. *)
Known(i, q) ==
  /\ q \in DOMAIN last
  /\ last[q] # NoOp
  /\ last[q] = i - 1 \/ Leads(deps, Len(ops), i - 1, last[q])

(* What the builder keeps: last_on_qubit names operations that were        *)
(* emitted, and every earlier operation on a tracked qubit comes before    *)
(* the last one.                                                           *)
Builds ==
  /\ IsList(ops)
  /\ IsList(deps)
  /\ \A q \in DOMAIN last : last[q] # NoOp => last[q] \in 0 .. Len(ops) - 1
  /\ \A i \in DOMAIN ops : \A q \in ToSet(ops[i].qubits) : <<i - 1, q>> \in untracked \/ Known(i, q)

LEMMA EmitKeeps ==
  ASSUME Builds, ProgramOrder, NEW Q, NEW qubits \in Seq(Q), NEW kind,
         EmitOperation(kind, qubits)
  PROVE  Builds' /\ ProgramOrder'
<1> DEFINE n == Len(ops)
<1>1. n \in Nat /\ DOMAIN ops = 1 .. n /\ IsList(ops) /\ IsList(deps)
  BY ListShape DEF Builds
<1>2. /\ IsList(ops)' /\ Len(ops') = n + 1
      /\ \A i \in DOMAIN ops : ops'[i] = ops[i]
      /\ ops'[n + 1].qubits = qubits
      /\ IsList(deps)'
      /\ \A a, b : Edge(deps, a, b) => Edge(deps', a, b)
      /\ \A q \in ToSet(qubits) \cap DOMAIN last : last[q] # NoOp => Edge(deps', last[q], n)
  BY <1>1, EmitEdges
<1>3. DOMAIN ops' = 1 .. n + 1
  <2>1. DOMAIN ops' = 1 .. Len(ops')
    BY <1>2, ListShape
  <2> QED
    BY <1>2, <2>1
<1>4. /\ DOMAIN last' = DOMAIN last
      /\ \A q \in DOMAIN last : last'[q] = IF q \in ToSet(qubits) THEN n ELSE last[q]
  BY DEF EmitOperation, LastAfter
<1>5. untracked' = untracked \cup {<<n, q>> : q \in ToSet(qubits) \ DOMAIN last}
  BY DEF EmitOperation
<1> HIDE DEF n
<1>6. \A q \in DOMAIN last : last[q] # NoOp => last[q] \in 0 .. n - 1
  BY DEF Builds, n
<1>7. \A i \in DOMAIN ops : \A q \in ToSet(ops[i].qubits) :
        <<i - 1, q>> \in untracked \/ Known(i, q)
  BY DEF Builds
<1>8. \A a, b : Leads(deps, n, a, b) => Leads(deps', n + 1, a, b)
  BY <1>1, <1>2, LeadsGrows
(* An earlier operation on a qubit of the new one leads to it. *)
<1>9. ASSUME NEW i \in DOMAIN ops, NEW q \in ToSet(qubits), Known(i, q)
      PROVE  Leads(deps', n + 1, i - 1, n)
  <2>1. /\ q \in DOMAIN last /\ last[q] # NoOp
        /\ last[q] = i - 1 \/ Leads(deps, n, i - 1, last[q])
    BY <1>9 DEF Known, n
  <2>2. Edge(deps', last[q], n) /\ n \in 0 .. (n + 1) - 1 /\ n + 1 \in Nat
    BY <1>1, <1>2, <2>1
  <2>3. CASE last[q] = i - 1
    BY <2>2, <2>3, LeadsByEdge
  <2>4. CASE Leads(deps, n, i - 1, last[q])
    <3>1. Leads(deps', n + 1, i - 1, last[q])
      BY <1>8, <2>4
    <3> QED
      BY <2>2, <3>1, LeadsOn
  <2> QED
    BY <2>1, <2>3, <2>4
<1>10. \A q \in DOMAIN last' : last'[q] # NoOp => last'[q] \in 0 .. Len(ops') - 1
  BY <1>1, <1>2, <1>4, <1>6
<1>11. ASSUME NEW i \in DOMAIN ops', NEW q \in ToSet(ops'[i].qubits)
       PROVE  <<i - 1, q>> \in untracked' \/ Known(i, q)'
  <2>1. CASE i = n + 1
    <3>1. q \in ToSet(qubits) /\ i - 1 = n
      BY <1>1, <1>2, <2>1
    <3>2. CASE q \in DOMAIN last
      <4>1. last'[q] = i - 1 /\ n # NoOp
        BY <1>1, <1>4, <3>1, <3>2, NoOpAssumption
      <4> QED
        BY <1>4, <3>1, <3>2, <4>1 DEF Known
    <3> QED
      BY <1>5, <3>1, <3>2
  <2>2. CASE i \in DOMAIN ops
    <3>1. q \in ToSet(ops[i].qubits)
      BY <1>2, <2>2
    <3>2. CASE Known(i, q)
      <4>1. q \in DOMAIN last /\ last[q] # NoOp
            /\ (last[q] = i - 1 \/ Leads(deps, n, i - 1, last[q]))
        BY <3>2 DEF Known, n
      <4>2. CASE q \in ToSet(qubits)
        <5>1. Leads(deps', n + 1, i - 1, n)
          BY <1>9, <2>2, <3>2, <4>2
        <5>2. last'[q] = n /\ n # NoOp
          BY <1>1, <1>4, <4>1, <4>2, NoOpAssumption
        <5> QED
          BY <1>2, <1>4, <4>1, <5>1, <5>2 DEF Known
      <4>3. CASE q \notin ToSet(qubits)
        BY <1>2, <1>4, <1>8, <4>1, <4>3 DEF Known
      <4> QED
        BY <4>2, <4>3
    <3> QED
      BY <1>5, <1>7, <2>2, <3>1, <3>2
  <2> QED
    BY <1>1, <1>3, <2>1, <2>2
<1>12. Builds'
  BY <1>2, <1>10, <1>11 DEF Builds
<1>13. ASSUME NEW i \in DOMAIN ops', NEW j \in DOMAIN ops', i < j,
              NEW q \in SharedQubits(ops', i, j), <<i - 1, q>> \notin untracked'
       PROVE  Leads(deps', Len(ops'), i - 1, j - 1)
  <2>1. /\ i \in DOMAIN ops /\ q \in ToSet(ops[i].qubits) /\ q \in ToSet(ops'[j].qubits)
        /\ <<i - 1, q>> \notin untracked
    BY <1>1, <1>2, <1>3, <1>5, <1>13 DEF SharedQubits
  <2>2. CASE j = n + 1
    <3>1. Known(i, q) /\ q \in ToSet(qubits) /\ j - 1 = n
      BY <1>1, <1>2, <1>7, <2>1, <2>2
    <3> QED
      BY <1>2, <1>9, <2>1, <3>1
  <2>3. CASE j \in DOMAIN ops
    <3>1. q \in SharedQubits(ops, i, j)
      BY <1>2, <2>1, <2>3 DEF SharedQubits
    <3>2. Leads(deps, n, i - 1, j - 1)
      BY <1>13, <2>1, <2>3, <3>1 DEF ProgramOrder, n
    <3> QED
      BY <1>2, <1>8, <3>2
  <2> QED
    BY <1>1, <1>3, <2>2, <2>3
<1>14. ProgramOrder'
  BY <1>13 DEF ProgramOrder
<1> QED
  BY <1>12, <1>14

LEMMA SameBuilder ==
  ASSUME Builds, ProgramOrder, UNCHANGED <<ops, deps, last, untracked>>
  PROVE  Builds' /\ ProgramOrder'
BY DEF Builds, Known, ProgramOrder, SharedQubits

(* Declared qubits have no last operation yet. *)
LEMMA DeclareKeeps ==
  ASSUME Builds, ProgramOrder, DeclareQubit
  PROVE  Builds' /\ ProgramOrder'
<1>1. UNCHANGED <<ops, deps, untracked>>
  BY DEF DeclareQubit
<1>2. PICK new : last' = [q \in DOMAIN last \cup new |-> IF q \in DOMAIN last THEN last[q] ELSE NoOp]
  BY DEF DeclareQubit
<1>3. /\ DOMAIN last' = DOMAIN last \cup new
      /\ \A q \in DOMAIN last' : last'[q] = IF q \in DOMAIN last THEN last[q] ELSE NoOp
  BY <1>2
<1>4. \A i, q : Known(i, q) => Known(i, q)'
  BY <1>1, <1>3 DEF Known
<1> QED
  BY <1>1, <1>3, <1>4 DEF Builds, ProgramOrder, SharedQubits

(* The builder reads only lists. *)
Walks(Statements, Commands) ==
  /\ source.frontend = "qasm" => todo \in Seq(Statements)
  /\ source.frontend \in {"tket_json", "tket_py"} => todo \in Seq(Commands)

OrderInv(Statements, Commands) == Walks(Statements, Commands) /\ Builds /\ ProgramOrder

LEMMA OrderInit ==
  ASSUME NEW Statements, NEW Commands, WellFormed(Statements, Commands), Init
  PROVE  OrderInv(Statements, Commands)
<1>1. Walks(Statements, Commands)
  BY DEF Init, WellFormed, Walks
<1>2. ops = <<>> /\ deps = <<>> /\ \A q \in DOMAIN last : last[q] = NoOp
  BY DEF Init, Tracked
<1>3. IsList(<<>>)
  BY DEF IsList
<1>4. Builds /\ ProgramOrder
  BY <1>2, <1>3 DEF Builds, ProgramOrder
<1> QED
  BY <1>1, <1>4 DEF OrderInv

LEMMA QasmKeeps ==
  ASSUME NEW Statements, NEW Commands, WellFormed(Statements, Commands),
         OrderInv(Statements, Commands), QasmStep
  PROVE  OrderInv(Statements, Commands)'
<1>1. Walks(Statements, Commands) /\ Builds /\ ProgramOrder
  BY DEF OrderInv
<1>2. source.frontend = "qasm" /\ source' = source
  BY DEF QasmStep, DeclareQubit, ProcessGateCall, ProcessMeasure, QasmError, WalkBlock,
         IgnoreStatement, FinishQasm, Walking, circuitVars, Failed, Built
<1>3. todo \in Seq(Statements)
  BY <1>1, <1>2 DEF Walks
<1>4. ASSUME todo # <<>>
      PROVE  Head(todo) \in Statements /\ Tail(todo) \in Seq(Statements)
  BY <1>3, <1>4, HeadTailProperties
<1>5. todo' \in Seq(Statements) => Walks(Statements, Commands)'
  BY <1>2 DEF Walks
<1>6. CASE DeclareQubit
  <2>1. todo' \in Seq(Statements)
    BY <1>4, <1>6 DEF DeclareQubit, Walking
  <2> QED
    BY <1>1, <1>5, <1>6, <2>1, DeclareKeeps DEF OrderInv
<1>7. CASE ProcessGateCall
  <2> DEFINE operands == Head(todo).operands
             qubits == [i \in DOMAIN operands |-> Resolved(operands[i])]
             Q == {qubits[i] : i \in DOMAIN operands}
  <2>1. todo # <<>> /\ Head(todo).type = "gate" /\ todo' = Tail(todo)
    BY <1>7 DEF ProcessGateCall, Walking
  <2>2. operands \in Seq(ToSet(operands))
    BY <1>4, <2>1 DEF WellFormed
  <2>3. qubits \in Seq(Q)
    <3>1. DOMAIN operands = 1 .. Len(operands) /\ Len(operands) \in Nat
      BY <2>2, LenProperties
    <3> HIDE DEF operands
    <3>2. qubits \in [1 .. Len(operands) -> Q]
      BY <3>1
    <3> QED
      BY <3>1, <3>2
  <2>4. \E kind : EmitOperation(kind, qubits)
    BY <1>7 DEF ProcessGateCall
  <2> HIDE DEF qubits, Q
  <2>5. Builds' /\ ProgramOrder'
    BY <1>1, <2>3, <2>4, EmitKeeps
  <2> QED
    BY <1>4, <1>5, <2>1, <2>5 DEF OrderInv
<1>8. CASE ProcessMeasure
  <2> DEFINE x == Resolved(Head(todo).operand)
  <2>1. todo # <<>> /\ todo' = Tail(todo) /\ EmitOperation("measurement", <<x>>)
    BY <1>8 DEF ProcessMeasure, Walking
  <2> HIDE DEF x
  <2>2. <<x>> \in Seq({x})
    OBVIOUS
  <2>3. Builds' /\ ProgramOrder'
    BY <1>1, <2>1, <2>2, EmitKeeps
  <2> QED
    BY <1>4, <1>5, <2>1, <2>3 DEF OrderInv
<1>9. CASE QasmError
  <2>1. UNCHANGED <<ops, deps, last, untracked, todo>>
    BY <1>9 DEF QasmError, builderVars
  <2> QED
    BY <1>1, <1>3, <1>5, <2>1, SameBuilder DEF OrderInv
<1>10. CASE WalkBlock
  <2>1. /\ todo # <<>> /\ Head(todo).type \in {"if", "while", "block"}
        /\ todo' = WalkedBlock(Head(todo)) \o Tail(todo)
        /\ UNCHANGED <<ops, deps, last, untracked>>
    BY <1>10 DEF WalkBlock, Walking
  <2>2. WalkedBlock(Head(todo)) \in Seq(Statements)
    BY <1>4, <2>1 DEF WellFormed
  <2>3. todo' \in Seq(Statements)
    BY <1>4, <2>1, <2>2, ConcatProperties
  <2> QED
    BY <1>1, <1>5, <2>1, <2>3, SameBuilder DEF OrderInv
<1>11. CASE IgnoreStatement
  <2>1. /\ todo # <<>> /\ todo' = Tail(todo)
        /\ UNCHANGED <<ops, deps, last, untracked>>
    BY <1>11 DEF IgnoreStatement, Walking
  <2> QED
    BY <1>1, <1>4, <1>5, <2>1, SameBuilder DEF OrderInv
<1>12. CASE FinishQasm
  <2>1. UNCHANGED <<ops, deps, last, untracked, todo>>
    BY <1>12 DEF FinishQasm, builderVars
  <2> QED
    BY <1>1, <1>3, <1>5, <2>1, SameBuilder DEF OrderInv
<1> QED
  BY <1>6, <1>7, <1>8, <1>9, <1>10, <1>11, <1>12 DEF QasmStep

LEMMA TketKeeps ==
  ASSUME NEW Statements, NEW Commands, WellFormed(Statements, Commands),
         OrderInv(Statements, Commands), TketStep
  PROVE  OrderInv(Statements, Commands)'
<1>1. Walks(Statements, Commands) /\ Builds /\ ProgramOrder
  BY DEF OrderInv
<1>2. source.frontend \in {"tket_json", "tket_py"} /\ source' = source
  BY DEF TketStep, SkipCommand, ProcessCommand, TketError, FinishTket, AtCommand, circuitVars
<1>3. todo \in Seq(Commands)
  BY <1>1, <1>2 DEF Walks
<1>4. ASSUME todo # <<>>
      PROVE  Head(todo) \in Commands /\ Tail(todo) \in Seq(Commands)
  BY <1>3, <1>4, HeadTailProperties
<1>5. todo' \in Seq(Commands) => Walks(Statements, Commands)'
  BY <1>2 DEF Walks
<1>6. CASE SkipCommand
  <2>1. /\ todo # <<>> /\ todo' = Tail(todo)
        /\ UNCHANGED <<ops, deps, last, untracked>>
    BY <1>6 DEF SkipCommand, AtCommand
  <2> QED
    BY <1>1, <1>4, <1>5, <2>1, SameBuilder DEF OrderInv
<1>7. CASE ProcessCommand
  <2> DEFINE args == Head(todo).args
  <2>1. todo # <<>> /\ todo' = Tail(todo) /\ \E kind : EmitOperation(kind, args)
    BY <1>7 DEF ProcessCommand, AtCommand
  <2>2. args \in Seq(ToSet(args))
    BY <1>4, <2>1 DEF WellFormed
  <2> HIDE DEF args
  <2>3. Builds' /\ ProgramOrder'
    BY <1>1, <2>1, <2>2, EmitKeeps
  <2> QED
    BY <1>4, <1>5, <2>1, <2>3 DEF OrderInv
<1>8. CASE TketError \/ FinishTket
  <2>1. UNCHANGED <<ops, deps, last, untracked, todo>>
    BY <1>8 DEF TketError, FinishTket, builderVars
  <2> QED
    BY <1>1, <1>3, <1>5, <2>1, SameBuilder DEF OrderInv
<1> QED
  BY <1>6, <1>7, <1>8 DEF TketStep

LEMMA OrderStep ==
  ASSUME NEW Statements, NEW Commands, WellFormed(Statements, Commands),
         OrderInv(Statements, Commands), [Next]_vars
  PROVE  OrderInv(Statements, Commands)'
<1>1. CASE QasmStep
  BY <1>1, QasmKeeps
<1>2. CASE TketStep
  BY <1>2, TketKeeps
<1>3. ASSUME UNCHANGED <<source, ops, deps, last, untracked, todo>>
      PROVE  OrderInv(Statements, Commands)'
  BY <1>3, SameBuilder DEF OrderInv, Walks
<1>4. CASE UNCHANGED frontVars /\ (ReadJson \/ UseFixture \/ ValidateStep)
  BY <1>3, <1>4 DEF frontVars, builderVars, ReadJson, UseFixture, ValidateStep, Reject, BuildGraph,
                    VisitNode, Conclude
<1>5. CASE UNCHANGED builderVars /\ QiskitStep
  BY <1>3, <1>5 DEF builderVars, QiskitStep, SkipNode, KeepNode, UnboundParameter, FinishQiskit,
                    circuitVars
<1>6. CASE UNCHANGED builderVars /\ QualtranStep
  BY <1>3, <1>6 DEF builderVars, QualtranStep, SkipPart, LeafPart, OpaquePart, EnterPart, LeaveCall,
                    FinishQualtran, circuitVars
<1>7. CASE UNCHANGED vars
  BY <1>3, <1>7 DEF vars, circuitVars, frontVars, builderVars
<1> QED
  BY <1>1, <1>2, <1>4, <1>5, <1>6, <1>7 DEF Next, FrontEndStep

(* Whatever the OpenQASM program or the TKET circuit, of any length and    *)
(* nesting, on any number of qubits: two operations on a common qubit keep *)
(* the program's order (CircuitBuilder::emit_operation, from_tket).        *)
THEOREM OrderKept ==
  ASSUME NEW CONSTANT Statements, NEW CONSTANT Commands, WellFormed(Statements, Commands)
  PROVE  Spec => []ProgramOrder
<1>1. Init => OrderInv(Statements, Commands)
  BY OrderInit
<1>2. OrderInv(Statements, Commands) /\ [Next]_vars => OrderInv(Statements, Commands)'
  BY OrderStep
<1>3. OrderInv(Statements, Commands) => ProgramOrder
  BY DEF OrderInv
<1> QED
  BY <1>1, <1>2, <1>3, PTL DEF Spec

-----------------------------------------------------------------------------
(* The Qiskit adapter. *)

(* SetToSeq lists a finite set. *)
LEMMA Listed ==
  ASSUME NEW S, IsFiniteSet(S)
  PROVE  /\ SetToSeq(S) \in Seq(S)
         /\ \A x \in S : \E i \in DOMAIN SetToSeq(S) : SetToSeq(S)[i] = x
<1> DEFINE c == Cardinality(S)
<1>1. c \in Nat /\ ExistsBijection(1 .. c, S)
  BY FS_CardinalityType
<1>2. IsFiniteSet(1 .. c) /\ Cardinality(1 .. c) = c
  BY <1>1, FS_Interval
<1>3. \E f \in [1 .. c -> S] : IsInjective(f)
  BY <1>1 DEF ExistsBijection, Bijection, Injection
<1>4. SetToSeq(S) \in [1 .. c -> S] /\ IsInjective(SetToSeq(S))
  BY <1>3 DEF SetToSeq
<1>5. SetToSeq(S) \in Injection(1 .. c, S)
  BY <1>4 DEF Injection
<1>6. SetToSeq(S) \in Surjection(1 .. c, S)
  BY <1>1, <1>2, <1>5, FS_Injection
<1> HIDE DEF c
<1>7. SetToSeq(S) \in Seq(S)
  BY <1>1, <1>4
<1> QED
  BY <1>4, <1>6, <1>7 DEF Surjection

HasNodes == source.nodes \in Seq(ToSet(source.nodes))

LEMMA NodeDepsFinite ==
  ASSUME HasNodes
  PROVE  IsFiniteSet(NodeDeps)
<1> DEFINE D == DOMAIN source.nodes
           E == {d \in DagEdges : {d[1], d[2]} \subseteq DOMAIN nodeIds}
           f == [e \in E |-> [from |-> nodeIds[e[1]], to |-> nodeIds[e[2]]]]
<1>1. D = 1 .. Len(source.nodes) /\ Len(source.nodes) \in Nat
  BY LenProperties DEF HasNodes
<1>2. IsFiniteSet(D)
  BY <1>1, FS_Interval
<1>3. IsFiniteSet(D \X D)
  BY <1>2, FS_Product
<1>4. E \subseteq D \X D
  BY DEF DagEdges, EdgesOfWire, UsesWire
<1>5. IsFiniteSet(E)
  BY <1>3, <1>4, FS_Subset
<1>6. f \in Surjection(E, NodeDeps)
  BY DEF NodeDeps, Surjection
<1> HIDE DEF E, f
<1> QED
  BY <1>5, <1>6, FS_Surjection

(* Whatever dependencies the edges turn into, they are finitely many: the  *)
(* mistaken ones are pairs of operation ids.                               *)
LEMMA DepsFoundFinite ==
  ASSUME HasNodes, NEW n \in Nat, \A i \in DOMAIN nodeIds : nodeIds[i] \in 0 .. n - 1,
         NEW D \in DepsFound
  PROVE  IsFiniteSet(D)
<1>1. CASE source.stable
  BY <1>1, NodeDepsFinite DEF DepsFound
<1>2. CASE ~source.stable
  <2> DEFINE F == FreedIds
             f == [p \in F \X F |-> [from |-> p[1], to |-> p[2]]]
  <2>1. F \subseteq 0 .. n - 1
    BY DEF FreedIds
  <2>2. IsFiniteSet(0 .. n - 1)
    BY FS_Interval
  <2>3. IsFiniteSet(F \X F)
    BY <2>1, <2>2, FS_Subset, FS_Product
  <2>4. D \subseteq [from : F, to : F]
    BY <1>2 DEF DepsFound, MistakenDeps, Mistakes
  <2> HIDE DEF F
  <2>5. f \in Surjection(F \X F, [from : F, to : F])
    <3>1. \A r \in [from : F, to : F] :
            <<r.from, r.to>> \in F \X F /\ f[<<r.from, r.to>>] = r
      OBVIOUS
    <3>2. f \in [F \X F -> [from : F, to : F]]
      OBVIOUS
    <3> QED
      BY <3>1, <3>2 DEF Surjection
  <2>6. IsFiniteSet([from : F, to : F])
    BY <2>3, <2>5, FS_Surjection
  <2> QED
    BY <2>4, <2>6, FS_Subset
<1> QED
  BY <1>1, <1>2

(* The nodes walked so far, and the circuit they make. *)
NodesWalked ==
  /\ HasNodes
  /\ walked \in 0 .. Len(source.nodes)
  /\ IsList(kept)
  /\ DOMAIN nodeIds = {i \in 1 .. walked : ~Skip(source.nodes[i])}
  /\ \A i \in DOMAIN nodeIds : nodeIds[i] \in 0 .. Len(kept) - 1

QiskitInv == source.frontend = "qiskit" => NodesWalked

LEMMA KeepNodeKeeps ==
  ASSUME NodesWalked, KeepNode
  PROVE  NodesWalked'
<1> DEFINE n == Len(kept)
           e == Emitted(n, ClassifyNode(NextNode), NextNode.qubits)
<1>1. /\ walked < Len(source.nodes) /\ ~Skip(source.nodes[walked + 1]) /\ verdict = "open"
      /\ kept' = Append(kept, e) /\ walked' = walked + 1
      /\ nodeIds' = [m \in DOMAIN nodeIds \cup {walked + 1} |->
                       IF m \in DOMAIN nodeIds THEN nodeIds[m] ELSE n]
      /\ source' = source /\ verdict' = verdict
  BY DEF KeepNode, AtNode, NextNode, circuitVars
<1>2. n \in Nat /\ Len(source.nodes) \in Nat /\ walked \in Nat
  BY ListShape, LenProperties DEF NodesWalked, HasNodes
<1>3. IsList(kept)' /\ Len(kept') = n + 1
  <2>1. PICK S : kept \in Seq(S)
    BY DEF NodesWalked, IsList
  <2> HIDE DEF e
  <2>2. kept \in Seq(S \cup {e}) /\ e \in S \cup {e}
    BY <2>1
  <2>3. kept' \in Seq(S \cup {e}) /\ Len(kept') = n + 1
    BY <1>1, <2>2, AppendProperties
  <2> QED
    BY <2>3 DEF IsList
<1> HIDE DEF n, e
<1>4. /\ DOMAIN nodeIds = {i \in 1 .. walked : ~Skip(source.nodes[i])}
      /\ \A i \in DOMAIN nodeIds : nodeIds[i] \in 0 .. n - 1
      /\ walked \in 0 .. Len(source.nodes)
  BY DEF NodesWalked, n
<1>5. DOMAIN nodeIds' = {i \in 1 .. walked' : ~Skip(source.nodes[i])}
  <2>1. 1 .. walked + 1 = (1 .. walked) \cup {walked + 1}
    BY <1>2
  <2> QED
    BY <1>1, <1>4, <2>1
<1>6. \A i \in DOMAIN nodeIds' : nodeIds'[i] \in 0 .. Len(kept') - 1
  BY <1>1, <1>2, <1>3, <1>4
<1>7. walked' \in 0 .. Len(source'.nodes) /\ HasNodes'
  BY <1>1, <1>2 DEF NodesWalked, HasNodes
<1> QED
  BY <1>1, <1>3, <1>5, <1>6, <1>7 DEF NodesWalked, Skip

LEMMA SameNodes ==
  ASSUME UNCHANGED <<source, nodeIds>>
  PROVE  HasNodes' = HasNodes
BY DEF HasNodes

LEMMA QiskitKeeps ==
  ASSUME NodesWalked, QiskitStep
  PROVE  NodesWalked'
<1>1. CASE SkipNode
  <2>1. /\ walked < Len(source.nodes) /\ Skip(source.nodes[walked + 1])
        /\ walked' = walked + 1 /\ UNCHANGED <<source, circuit, verdict, nodeIds, kept>>
    BY <1>1 DEF SkipNode, AtNode, NextNode, circuitVars
  <2>2. Len(source.nodes) \in Nat /\ walked \in Nat
    BY LenProperties DEF NodesWalked, HasNodes
  <2>3. 1 .. walked + 1 = (1 .. walked) \cup {walked + 1}
    BY <2>2
  <2>4. DOMAIN nodeIds = {i \in 1 .. walked' : ~Skip(source.nodes[i])}
    BY <2>1, <2>3 DEF NodesWalked
  <2>5. walked' \in 0 .. Len(source.nodes)
    BY <2>1, <2>2
  <2> QED
    BY <2>1, <2>4, <2>5, SameNodes DEF NodesWalked, Skip, IsList
<1>2. CASE KeepNode
  BY <1>2, KeepNodeKeeps
<1>3. CASE UnboundParameter
  BY <1>3, SameNodes DEF UnboundParameter, Failed, qiskitVars, NodesWalked, Skip, IsList
<1>4. CASE FinishQiskit
  <2>1. UNCHANGED <<source, walked, nodeIds, kept>>
    BY <1>4 DEF FinishQiskit, qiskitVars
  <2> QED
    BY <2>1, SameNodes DEF NodesWalked, Skip, IsList
<1> QED
  BY <1>1, <1>2, <1>3, <1>4 DEF QiskitStep

(* validate starts from a built circuit and leaves it as it is. *)
LEMMA ValidateKeeps ==
  ASSUME NodesWalked, ValidateStep, UNCHANGED <<walked, nodeIds, kept>>
  PROVE  NodesWalked'
<1>1. verdict \in {"built", "sorting"} /\ UNCHANGED <<source, circuit>>
  BY DEF ValidateStep, Reject, BuildGraph, VisitNode, Conclude
<1> QED
  BY <1>1, SameNodes DEF NodesWalked, Skip, IsList

LEMMA SourceKept == [Next]_vars => source' = source
<1> SUFFICES ASSUME [Next]_vars PROVE source' = source
  OBVIOUS
<1>1. CASE UNCHANGED vars
  BY <1>1 DEF vars, circuitVars
<1>2. CASE ValidateStep
  BY <1>2 DEF ValidateStep, Reject, BuildGraph, VisitNode, Conclude
<1>3. CASE ReadJson \/ UseFixture
  BY <1>3 DEF ReadJson, UseFixture
<1>4. CASE QasmStep
  BY <1>4 DEF QasmStep, DeclareQubit, ProcessGateCall, ProcessMeasure, QasmError, WalkBlock,
              IgnoreStatement, FinishQasm, circuitVars
<1>5. CASE TketStep
  BY <1>5 DEF TketStep, SkipCommand, ProcessCommand, TketError, FinishTket, circuitVars
<1>6. CASE QiskitStep
  BY <1>6 DEF QiskitStep, SkipNode, KeepNode, UnboundParameter, FinishQiskit, circuitVars
<1>7. CASE QualtranStep
  BY <1>7 DEF QualtranStep, SkipPart, LeafPart, OpaquePart, EnterPart, LeaveCall, FinishQualtran,
              circuitVars
<1> QED
  BY <1>1, <1>2, <1>3, <1>4, <1>5, <1>6, <1>7 DEF Next, FrontEndStep

(* Every front end reads its own sources only. *)
LEMMA OwnSteps ==
  ASSUME source.frontend = "qiskit"
  PROVE  ~ReadJson /\ ~UseFixture /\ ~QasmStep /\ ~TketStep /\ ~QualtranStep
<1>1. ~ReadJson /\ ~UseFixture
  BY DEF ReadJson, UseFixture
<1>2. ~QasmStep
  BY DEF QasmStep, DeclareQubit, ProcessGateCall, ProcessMeasure, QasmError, WalkBlock,
         IgnoreStatement, FinishQasm, Walking
<1>3. ~TketStep
  BY DEF TketStep, SkipCommand, ProcessCommand, TketError, FinishTket, AtCommand
<1>4. ~QualtranStep
  BY DEF QualtranStep, SkipPart, LeafPart, OpaquePart, EnterPart, LeaveCall, FinishQualtran,
         AtPart, Extracting
<1> QED
  BY <1>1, <1>2, <1>3, <1>4

LEMMA NodesStep == QiskitInv /\ [Next]_vars => QiskitInv'
<1> SUFFICES ASSUME QiskitInv, [Next]_vars, source'.frontend = "qiskit"
             PROVE  NodesWalked'
  BY DEF QiskitInv
<1>1. source.frontend = "qiskit" /\ NodesWalked
  BY SourceKept DEF QiskitInv
<1>2. CASE UNCHANGED vars
  <2>1. UNCHANGED <<source, circuit, verdict, walked, nodeIds, kept>>
    BY <1>2 DEF vars, circuitVars, frontVars, qiskitVars
  <2> QED
    BY <1>1, <2>1, SameNodes DEF NodesWalked, Skip, IsList
<1>3. CASE QiskitStep
  BY <1>1, <1>3, QiskitKeeps
<1>4. CASE ValidateStep /\ UNCHANGED frontVars
  <2>1. UNCHANGED <<walked, nodeIds, kept>>
    BY <1>4 DEF frontVars, qiskitVars
  <2> QED
    BY <1>1, <1>4, <2>1, ValidateKeeps
<1> QED
  BY <1>1, <1>2, <1>3, <1>4, OwnSteps DEF Next, FrontEndStep

LEMMA QiskitInit ==
  ASSUME NEW Statements, NEW Commands, WellFormed(Statements, Commands), Init
  PROVE  QiskitInv
<1> SUFFICES ASSUME source.frontend = "qiskit"
             PROVE  NodesWalked
  BY DEF QiskitInv
<1>1. HasNodes
  BY DEF Init, WellFormed, HasNodes
<1>2. Len(source.nodes) \in Nat
  BY <1>1, LenProperties DEF HasNodes
<1>3. walked = 0 /\ nodeIds = <<>> /\ kept = <<>> /\ verdict = "open"
  BY DEF Init
<1>4. IsList(<<>>)
  BY DEF IsList
<1> QED
  BY <1>1, <1>2, <1>3, <1>4 DEF NodesWalked

-----------------------------------------------------------------------------
(* What the builder emits, in numbers. *)

(* A finite set of numbers has a greatest member: the one with the most    *)
(* members below it.                                                       *)
LEMMA GreatestMember ==
  ASSUME NEW T \in SUBSET Nat, IsFiniteSet(T), T # {}
  PROVE  Max(T) \in T /\ \A n \in T : n <= Max(T)
<1> DEFINE under(x) == {n \in T : n < x}
           c(x) == Cardinality(under(x))
           C == Cardinality(T)
           D == {C - c(x) : x \in T}
<1>1. \A x \in T : IsFiniteSet(under(x)) /\ c(x) \in Nat /\ c(x) <= C /\ C \in Nat
  BY FS_Subset, FS_CardinalityType
<1>2. ASSUME NEW x \in T, NEW y \in T, x < y
      PROVE  c(x) + 1 <= c(y)
  <2> DEFINE more == under(x) \cup {x}
  <2>1. more \subseteq under(y) /\ x \notin under(x)
    <3>1. ASSUME NEW n \in T, n < x PROVE n < y
      BY <1>2, <3>1
    <3>2. ~(x < x)
      OBVIOUS
    <3> QED
      BY <1>2, <3>1, <3>2
  <2>2. IsFiniteSet(more) /\ Cardinality(more) = c(x) + 1
    BY <1>1, <2>1, FS_AddElement
  <2> HIDE DEF more
  <2>3. Cardinality(more) <= Cardinality(under(y))
    BY <1>1, <2>1, FS_Subset, Zenon
  <2> QED
    BY <2>2, <2>3
<1> HIDE DEF under
<1>3. D \in SUBSET Nat /\ D # {}
  <2>1. \A x \in T : C - c(x) \in Nat
    BY <1>1
  <2> HIDE DEF c, C
  <2> QED
    BY <2>1
<1> HIDE DEF D, C, c
<1>4. PICK d \in D : \A e \in D : d <= e
  BY <1>3, LeastOf
<1>5. PICK m \in T : d = C - c(m)
  BY DEF D
<1>6. ASSUME NEW n \in T PROVE m >= n
  <2>1. d <= C - c(n)
    BY <1>4 DEF D
  <2>2. ~(m < n)
    <3> SUFFICES ASSUME m < n PROVE FALSE
      OBVIOUS
    <3>1. c(m) + 1 <= c(n)
      BY <1>2, <1>5
    <3> QED
      BY <1>1, <1>5, <2>1, <3>1 DEF C, c
  <2> QED
    BY <1>5, <2>2
<1>7. \E x \in T : \A y \in T : x >= y
  BY <1>6
<1>8. Max(T) \in T /\ \A y \in T : Max(T) >= y
  BY <1>7 DEF Max
<1> QED
  BY <1>8

(* The maximum of finitely many numbers, 0 for none. *)
LEMMA GreatestOrZero ==
  ASSUME NEW T \in SUBSET Nat, IsFiniteSet(T)
  PROVE  /\ Max({0} \cup T) \in Nat
         /\ Max({0} \cup T) \in {0} \cup T
         /\ \A n \in T : n <= Max({0} \cup T)
<1>1. IsFiniteSet({0} \cup T) /\ {0} \cup T \in SUBSET Nat
  BY FS_EmptySet, FS_AddElement
<1> QED
  BY <1>1, GreatestMember

LEMMA ImageFinite ==
  ASSUME NEW n \in Nat, NEW f, 0 .. n - 1 \subseteq DOMAIN f
  PROVE  IsFiniteSet({f[q] : q \in 0 .. n - 1})
<1> DEFINE T == {f[q] : q \in 0 .. n - 1}
           g == [q \in 0 .. n - 1 |-> f[q]]
<1>1. IsFiniteSet(0 .. n - 1)
  BY FS_Interval
<1>2. g \in Surjection(0 .. n - 1, T)
  BY DEF Surjection
<1> HIDE DEF T, g
<1> QED
  BY <1>1, <1>2, FS_Surjection DEF T

(* What has been emitted: operations numbered in order, on tracked or      *)
(* hardware qubits, and dependencies that point forward, unless an         *)
(* operation names a qubit twice.                                          *)
EmittedOp(i) ==
  /\ ops[i].id = i - 1 /\ ops[i].active /\ ops[i].hook = NoHook
  /\ ToSet(ops[i].qubits) \subseteq DOMAIN last \cup hardware
EmittedDep(i) ==
  /\ deps[i].to \in 0 .. Len(ops) - 1
  /\ \/ deps[i].from \in 0 .. deps[i].to - 1
     \/ deps[i].from = deps[i].to /\ ~IsInjective(ops[deps[i].to + 1].qubits)
Emission ==
  /\ \E n \in Nat : DOMAIN last = 0 .. n - 1
  /\ DOMAIN depth = DOMAIN last
  /\ \A q \in DOMAIN depth : depth[q] \in Nat
  /\ hardware \subseteq Nat
  /\ \A i \in DOMAIN ops : EmittedOp(i)
  /\ \A i \in DOMAIN deps : EmittedDep(i)

LEMMA DepthsFinite ==
  ASSUME Emission, NEW Q \in SUBSET DOMAIN depth
  PROVE  IsFiniteSet({depth[q] : q \in Q}) /\ {depth[q] : q \in Q} \subseteq Nat
<1>1. PICK n \in Nat : DOMAIN depth = 0 .. n - 1
  BY DEF Emission
<1>2. IsFiniteSet({depth[q] : q \in 0 .. n - 1})
  BY <1>1, ImageFinite
<1>3. {depth[q] : q \in Q} \subseteq {depth[q] : q \in 0 .. n - 1}
  BY <1>1
<1>4. {depth[q] : q \in Q} \subseteq Nat
  BY DEF Emission
<1> QED
  BY <1>2, <1>3, <1>4, FS_Subset

LEMMA EmitInRange ==
  ASSUME Builds, Emission, NEW Q, NEW qubits \in Seq(Q), NEW kind, EmitOperation(kind, qubits),
         hardware \subseteq hardware', hardware' \subseteq Nat,
         ToSet(qubits) \subseteq DOMAIN last \cup hardware'
  PROVE  Emission'
<1> DEFINE n == Len(ops)
<1>1. /\ n \in Nat /\ DOMAIN ops = 1 .. n /\ IsList(ops) /\ IsList(deps)
      /\ \A q \in DOMAIN last : last[q] # NoOp => last[q] \in 0 .. n - 1
  BY ListShape DEF Builds
<1>2. /\ IsList(ops)' /\ Len(ops') = n + 1
      /\ \A i \in DOMAIN ops : ops'[i] = ops[i]
      /\ ops'[n + 1] = Emitted(n, kind, qubits)
      /\ \A j \in DOMAIN deps' :
           \/ j \in DOMAIN deps /\ deps'[j] = deps[j]
           \/ /\ deps'[j].to = n /\ deps'[j].from # NoOp
              /\ \E i \in DOMAIN qubits : deps'[j].from = PreviousOn(n, qubits, i)
  BY <1>1, EmitEdges
<1>3. DOMAIN ops' = 1 .. n + 1
  BY <1>2, ListShape
<1>4. DOMAIN last' = DOMAIN last /\ DOMAIN depth' = DOMAIN depth
  BY DEF EmitOperation, LastAfter
<1>5. \A q \in DOMAIN depth' : depth'[q] \in Nat
  <2>1. OpDepth(qubits) \in Nat
    <3> DEFINE Q2 == ToSet(qubits) \cap DOMAIN depth
               T == {depth[q] : q \in Q2}
    <3>1. OpDepth(qubits) = 1 + Max({0} \cup T)
      BY DEF OpDepth
    <3>2. Q2 \in SUBSET DOMAIN depth
      OBVIOUS
    <3> HIDE DEF Q2
    <3>3. IsFiniteSet(T) /\ T \subseteq Nat
      BY <3>2, DepthsFinite
    <3> HIDE DEF T
    <3>4. Max({0} \cup T) \in Nat
      BY <3>3, GreatestOrZero
    <3> QED
      BY <3>1, <3>4
  <2>2. depth' = [q \in DOMAIN depth |-> IF q \in ToSet(qubits) THEN OpDepth(qubits) ELSE depth[q]]
    BY DEF EmitOperation
  <2> QED
    BY <2>1, <2>2 DEF Emission
<1> HIDE DEF n
<1>6. ASSUME NEW i \in DOMAIN ops' PROVE EmittedOp(i)'
  <2>1. CASE i \in DOMAIN ops
    BY <1>2, <1>4, <2>1 DEF Emission, EmittedOp
  <2>2. CASE i = n + 1
    <3>1. ops'[i].id = n /\ ops'[i].active /\ ops'[i].hook = NoHook /\ ops'[i].qubits = qubits
      BY <1>2, <2>2 DEF Emitted
    <3> QED
      BY <1>1, <1>4, <2>2, <3>1 DEF EmittedOp
  <2> QED
    BY <1>1, <1>3, <2>1, <2>2
<1>7. ASSUME NEW j \in DOMAIN deps' PROVE EmittedDep(j)'
  <2>1. CASE j \in DOMAIN deps /\ deps'[j] = deps[j]
    <3>1. EmittedDep(j)
      BY <2>1 DEF Emission
    <3>2. deps[j].to \in 0 .. n - 1 /\ deps[j].to + 1 \in DOMAIN ops
      BY <1>1, <3>1 DEF EmittedDep, n
    <3> QED
      BY <1>1, <1>2, <2>1, <3>1, <3>2 DEF EmittedDep
  <2>2. ASSUME deps'[j].to = n, deps'[j].from # NoOp, NEW i \in DOMAIN qubits,
               deps'[j].from = PreviousOn(n, qubits, i)
        PROVE  EmittedDep(j)'
    <3>1. qubits[i] \in DOMAIN last
      BY <2>2 DEF PreviousOn
    <3>2. CASE \E k \in 1 .. i - 1 : qubits[k] = qubits[i]
      <4>1. deps'[j].from = n
        BY <2>2, <3>1, <3>2 DEF PreviousOn
      <4>2. PICK k \in 1 .. i - 1 : qubits[k] = qubits[i]
        BY <3>2
      <4>3. DOMAIN qubits = 1 .. Len(qubits) /\ Len(qubits) \in Nat
        BY LenProperties
      <4>4. k \in DOMAIN qubits /\ k # i
        BY <4>2, <4>3
      <4>5. ~IsInjective(qubits)
        BY <4>2, <4>4 DEF IsInjective
      <4>6. ops'[n + 1].qubits = qubits
        BY <1>2 DEF Emitted
      <4> QED
        BY <1>1, <1>2, <2>2, <4>1, <4>5, <4>6 DEF EmittedDep
    <3>3. CASE ~ \E k \in 1 .. i - 1 : qubits[k] = qubits[i]
      <4>1. deps'[j].from = last[qubits[i]]
        BY <2>2, <3>1, <3>3 DEF PreviousOn
      <4>2. deps'[j].from \in 0 .. n - 1
        BY <1>1, <2>2, <3>1, <4>1
      <4> QED
        BY <1>1, <1>2, <2>2, <4>2 DEF EmittedDep
    <3> QED
      BY <3>2, <3>3
  <2> QED
    BY <1>2, <2>1, <2>2
<1> QED
  BY <1>4, <1>5, <1>6, <1>7 DEF Emission

-----------------------------------------------------------------------------
(* The levels of the operations: the longest chains that end in them. *)

From(list, k) == {list[i].from : i \in {d \in DOMAIN list : list[d].to = k}}
IsLevel(L, n, list) ==
  L = [k \in 0 .. n |-> 1 + Max({0} \cup {L[list[i].from] : i \in {d \in DOMAIN list : list[d].to = k}})]

Chains(L, n, list) == [k \in 0 .. n |-> 1 + Max({0} \cup {L[a] : a \in From(list, k)})]

LEMMA LevelUnfolds ==
  ASSUME NEW L, NEW n \in Nat, NEW list
  PROVE  IsLevel(L, n, list) <=> L = Chains(L, n, list)
<1> DEFINE A(k) == {L[list[i].from] : i \in {d \in DOMAIN list : list[d].to = k}}
           B(k) == {L[a] : a \in From(list, k)}
<1>1. \A k : A(k) = B(k)
  BY DEF From
<1>2. IsLevel(L, n, list) <=> L = [k \in 0 .. n |-> 1 + Max({0} \cup A(k))]
  BY DEF IsLevel
<1>3. Chains(L, n, list) = [k \in 0 .. n |-> 1 + Max({0} \cup B(k))]
  BY DEF Chains
<1> HIDE DEF A, B
<1> QED
  BY <1>1, <1>2, <1>3

LEMMA ChainsShape ==
  ASSUME NEW L, NEW n \in Nat, NEW list
  PROVE  /\ DOMAIN Chains(L, n, list) = 0 .. n
         /\ \A k \in 0 .. n :
              Chains(L, n, list)[k] = 1 + Max({0} \cup {L[a] : a \in From(list, k)})
         /\ Chains(L, n, list) = [k \in 0 .. n |-> Chains(L, n, list)[k]]
BY DEF Chains

(* Levels are counted in one way only. *)
LEMMA LevelUnique ==
  ASSUME NEW n \in Nat, NEW list, \A i \in DOMAIN list : list[i].from \in 0 .. list[i].to - 1,
         NEW L, IsLevel(L, n, list), NEW M, IsLevel(M, n, list)
  PROVE  L = M
<1>1. /\ DOMAIN L = 0 .. n /\ DOMAIN M = 0 .. n
      /\ \A k \in 0 .. n : L[k] = 1 + Max({0} \cup {L[a] : a \in From(list, k)})
      /\ \A k \in 0 .. n : M[k] = 1 + Max({0} \cup {M[a] : a \in From(list, k)})
      /\ L = [k \in 0 .. n |-> L[k]] /\ M = [k \in 0 .. n |-> M[k]]
  <2>1. L = Chains(L, n, list) /\ M = Chains(M, n, list)
    BY LevelUnfolds
  <2> QED
    BY <2>1, ChainsShape
<1> DEFINE T == {k \in 0 .. n : L[k] # M[k]}
<1>2. SUFFICES ASSUME T # {} PROVE FALSE
  BY <1>1
<1>3. PICK k \in T : \A j \in T : k <= j
  <2>1. T \in SUBSET Nat
    OBVIOUS
  <2> HIDE DEF T
  <2> QED
    BY <1>2, <2>1, LeastOf
<1>4. k \in 0 .. n /\ L[k] # M[k]
  BY <1>3
<1>5. ASSUME NEW a \in From(list, k) PROVE L[a] = M[a]
  <2>1. a \in 0 .. k - 1
    BY DEF From
  <2>2. a \in 0 .. n /\ ~(k <= a)
    BY <1>4, <2>1
  <2> QED
    BY <1>3, <2>2
<1> DEFINE A == {L[a] : a \in From(list, k)}
           B == {M[a] : a \in From(list, k)}
<1>6. A = B
  BY <1>5
<1>7. L[k] = 1 + Max({0} \cup A) /\ M[k] = 1 + Max({0} \cup B)
  BY <1>1, <1>4
<1> HIDE DEF A, B
<1> QED
  BY <1>4, <1>6, <1>7

(* The depth of a qubit is the level of the last operation on it, and no   *)
(* operation is deeper than every qubit.                                   *)
Measures(L) ==
  /\ L \in [0 .. Len(ops) -> Nat]
  /\ IsLevel(L, Len(ops), deps)
  /\ \A q \in DOMAIN depth : depth[q] = IF last[q] = NoOp THEN 0 ELSE L[last[q]]
  /\ \A k \in 0 .. Len(ops) - 1 : \E q \in DOMAIN depth : L[k] <= depth[q]
Measured ==
  source.frontend # "tket_py" /\ untracked = {} /\ Forward => \E L : Measures(L)

LEMMA MeasuredDepth == Builds /\ Emission /\ Measured => DepthIsLongestChain
<1> SUFFICES ASSUME Builds, Emission, Forward, NEW L, Measures(L)
             PROVE  MaxDepth = Max({0} \cup {Level[k] : k \in 0 .. Len(ops) - 1})
  BY DEF DepthIsLongestChain, Measured
<1> DEFINE n == Len(ops)
           D == {depth[q] : q \in DOMAIN depth}
           K == {L[k] : k \in 0 .. n - 1}
<1>1. n \in Nat
  BY ListShape DEF Builds
<1>2. \A i \in DOMAIN deps : deps[i].from \in 0 .. deps[i].to - 1
  BY DEF Forward, Emission, EmittedDep
<1>3. Level = L
  <2>1. Level = CHOOSE M : IsLevel(M, n, deps)
    BY DEF Level, IsLevel
  <2>2. IsLevel(L, n, deps)
    BY DEF Measures
  <2> HIDE DEF n
  <2>3. IsLevel(Level, n, deps)
    BY <2>1, <2>2
  <2> QED
    BY <1>1, <1>2, <2>2, <2>3, LevelUnique
<1>4. /\ L \in [0 .. n -> Nat]
      /\ \A q \in DOMAIN depth : depth[q] = IF last[q] = NoOp THEN 0 ELSE L[last[q]]
      /\ \A k \in 0 .. n - 1 : \E q \in DOMAIN depth : L[k] <= depth[q]
  BY DEF Measures
<1>5. \A q \in DOMAIN depth : last[q] # NoOp => last[q] \in 0 .. n - 1
  BY DEF Builds, Emission
<1> HIDE DEF n
<1>6. IsFiniteSet(D) /\ D \subseteq Nat
  BY DepthsFinite
<1>7. IsFiniteSet(K) /\ K \subseteq Nat
  <2>1. 0 .. n - 1 \subseteq DOMAIN L
    BY <1>1, <1>4
  <2>2. IsFiniteSet(K)
    BY <1>1, <2>1, ImageFinite
  <2>3. \A k \in 0 .. n - 1 : L[k] \in Nat
    BY <1>1, <1>4
  <2> QED
    BY <2>2, <2>3
<1>8. \A x \in D : x \in {0} \cup K
  BY <1>4, <1>5
<1>9. \A x \in K : \E y \in D : x <= y
  BY <1>4
<1>10. MaxDepth = Max({0} \cup D)
  BY DEF MaxDepth
<1> HIDE DEF D, K
<1>11. /\ Max({0} \cup D) \in Nat /\ Max({0} \cup D) \in {0} \cup D
       /\ \A x \in D : x <= Max({0} \cup D)
  BY <1>6, GreatestOrZero
<1>12. /\ Max({0} \cup K) \in Nat /\ Max({0} \cup K) \in {0} \cup K
       /\ \A x \in K : x <= Max({0} \cup K)
  BY <1>7, GreatestOrZero
<1>13. Max({0} \cup D) <= Max({0} \cup K)
  BY <1>8, <1>11, <1>12
<1>14. Max({0} \cup K) <= Max({0} \cup D)
  BY <1>6, <1>7, <1>9, <1>11, <1>12
<1>15. MaxDepth = Max({0} \cup K)
  BY <1>10, <1>11, <1>12, <1>13, <1>14
<1> QED
  BY <1>3, <1>15 DEF K, n

(* The new operation is one deeper than the deepest of its qubits, which   *)
(* are as deep as the operations it depends on.                            *)
LEMMA EmitMeasured ==
  ASSUME Builds, Emission, Emission', Measured, source' = source,
         NEW Q, NEW qubits \in Seq(Q), qubits # <<>>, NEW kind, EmitOperation(kind, qubits)
  PROVE  Measured'
<1> DEFINE n == Len(ops)
           h == OpDepth(qubits)
<1>1. /\ n \in Nat /\ DOMAIN ops = 1 .. n /\ IsList(ops) /\ IsList(deps)
      /\ \A q \in DOMAIN last : last[q] # NoOp => last[q] \in 0 .. n - 1
  BY ListShape DEF Builds
<1>2. /\ Len(ops') = n + 1
      /\ \A j \in DOMAIN deps' :
           \/ j \in DOMAIN deps /\ deps'[j] = deps[j]
           \/ /\ deps'[j].to = n /\ deps'[j].from # NoOp
              /\ \E i \in DOMAIN qubits : deps'[j].from = PreviousOn(n, qubits, i)
      /\ \A j \in DOMAIN deps : j \in DOMAIN deps' /\ deps'[j] = deps[j]
      /\ \A q \in ToSet(qubits) \cap DOMAIN last : last[q] # NoOp => Edge(deps', last[q], n)
  BY <1>1, EmitEdges
<1>3. SUFFICES ASSUME source.frontend # "tket_py", untracked' = {}, Forward'
               PROVE  \E L : Measures(L)'
  BY DEF Measured
<1>4. untracked = {} /\ ToSet(qubits) \subseteq DOMAIN last
  <2>1. untracked' = untracked \cup {<<n, q>> : q \in ToSet(qubits) \ DOMAIN last}
    BY DEF EmitOperation
  <2> QED
    BY <1>3, <2>1
<1>5. Forward
  BY <1>2, <1>3 DEF Forward
<1>6. PICK L : Measures(L)
  BY <1>3, <1>4, <1>5 DEF Measured
<1>7. /\ L \in [0 .. n -> Nat]
      /\ L = Chains(L, n, deps)
      /\ \A q \in DOMAIN depth : depth[q] = IF last[q] = NoOp THEN 0 ELSE L[last[q]]
      /\ \A k \in 0 .. n - 1 : \E q \in DOMAIN depth : L[k] <= depth[q]
  BY <1>1, <1>6, LevelUnfolds DEF Measures
<1>8. /\ DOMAIN last' = DOMAIN last /\ DOMAIN depth' = DOMAIN depth /\ DOMAIN depth = DOMAIN last
      /\ \A q \in DOMAIN last : last'[q] = IF q \in ToSet(qubits) THEN n ELSE last[q]
      /\ \A q \in DOMAIN depth : depth'[q] = IF q \in ToSet(qubits) THEN h ELSE depth[q]
  BY DEF EmitOperation, LastAfter, Emission
<1> HIDE DEF n
<1>9. \A j \in DOMAIN deps : deps[j].to \in 0 .. n - 1 /\ deps[j].from \in 0 .. deps[j].to - 1
  BY <1>5 DEF Emission, EmittedDep, Forward, n
<1> DEFINE P == ToSet(qubits)
           D == {depth[q] : q \in P}
<1>10. /\ h = 1 + Max({0} \cup D) /\ IsFiniteSet(D) /\ D \subseteq Nat
  <2>1. P \cap DOMAIN depth = P
    BY <1>4, <1>8
  <2>2. h = 1 + Max({0} \cup D)
    BY <2>1 DEF OpDepth
  <2>3. P \in SUBSET DOMAIN depth
    BY <1>4, <1>8
  <2> HIDE DEF P
  <2> QED
    BY <2>2, <2>3, DepthsFinite
<1>11. /\ h \in Nat /\ h > 0
       /\ \A q \in P : depth[q] < h
  <2>1. \A q \in P : depth[q] \in D /\ depth[q] \in Nat
    BY <1>10
  <2> HIDE DEF D, P, h
  <2> DEFINE m == Max({0} \cup D)
  <2>2. m \in Nat /\ \A x \in D : x <= m
    BY <1>10, GreatestOrZero
  <2>3. h = 1 + m
    BY <1>10
  <2> HIDE DEF m
  <2>4. ASSUME NEW q \in P PROVE depth[q] < h
    <3>1. depth[q] \in Nat /\ depth[q] <= m
      BY <2>1, <2>2
    <3> QED
      BY <2>2, <2>3, <3>1
  <2>5. h \in Nat /\ h > 0
    BY <2>2, <2>3
  <2> QED
    BY <2>4, <2>5
<1> HIDE DEF h
(* What the new operation depends on. *)
<1>12. From(deps', n) = {last[q] : q \in {p \in P : last[p] # NoOp}}
  <2>1. ASSUME NEW a \in From(deps', n)
        PROVE  \E q \in P : last[q] # NoOp /\ a = last[q]
    <3>1. PICK j \in DOMAIN deps' : deps'[j].to = n /\ deps'[j].from = a
      BY DEF From
    <3>2. ~(j \in DOMAIN deps /\ deps'[j] = deps[j])
      BY <1>1, <1>9, <3>1
    <3>3. PICK i \in DOMAIN qubits : a = PreviousOn(n, qubits, i) /\ a # NoOp
      BY <1>2, <3>1, <3>2
    <3>4. a # n
      BY <1>1, <1>3, <3>1 DEF Forward
    <3>5. qubits[i] \in P /\ a = last[qubits[i]]
      BY <3>3, <3>4 DEF PreviousOn, ToSet
    <3> QED
      BY <3>3, <3>5
  <2>2. ASSUME NEW q \in P, last[q] # NoOp
        PROVE  last[q] \in From(deps', n)
    <3>1. Edge(deps', last[q], n)
      BY <1>2, <1>4, <2>2
    <3> QED
      BY <3>1 DEF Edge, From
  <2> QED
    BY <2>1, <2>2
<1>13. \A k \in 0 .. n - 1 : From(deps', k) = From(deps, k)
  <2> SUFFICES ASSUME NEW k \in 0 .. n - 1
               PROVE  From(deps', k) = From(deps, k)
    OBVIOUS
  <2>1. k # n
    BY <1>1
  <2> QED
    BY <1>2, <2>1 DEF From
<1>14. From(deps', n + 1) = {}
  <2>1. \A j \in DOMAIN deps' : deps'[j].to # n + 1
    BY <1>1, <1>2, <1>9
  <2> QED
    BY <2>1 DEF From
<1>15. PICK M : M = [k \in 0 .. n + 1 |-> IF k = n THEN h ELSE IF k = n + 1 THEN 1 ELSE L[k]]
  OBVIOUS
<1>16. /\ M \in [0 .. n + 1 -> Nat] /\ M[n] = h /\ M[n + 1] = 1
       /\ \A k \in 0 .. n - 1 : M[k] = L[k]
       /\ M = [k \in 0 .. n + 1 |-> M[k]]
  BY <1>1, <1>7, <1>11, <1>15
<1>17. \A k \in 0 .. n - 1 : M[k] = L[k]
  BY <1>16
<1>18. \A k \in 0 .. n + 1 : M[k] = 1 + Max({0} \cup {M[a] : a \in From(deps', k)})
  <2>1. ASSUME NEW k \in 0 .. n - 1
        PROVE  M[k] = 1 + Max({0} \cup {M[a] : a \in From(deps', k)})
    <3>1. L[k] = 1 + Max({0} \cup {L[a] : a \in From(deps, k)})
      <4>1. k \in 0 .. n
        BY <1>1
      <4>2. Chains(L, n, deps)[k] = 1 + Max({0} \cup {L[a] : a \in From(deps, k)})
        BY <4>1 DEF Chains
      <4>3. L[k] = Chains(L, n, deps)[k]
        BY <1>7
      <4> QED
        BY <4>2, <4>3
    <3>2. \A a \in From(deps, k) : M[a] = L[a]
      <4> SUFFICES ASSUME NEW a \in From(deps, k) PROVE M[a] = L[a]
        OBVIOUS
      <4>1. a \in 0 .. k - 1
        BY <1>9 DEF From
      <4>2. a \in 0 .. n - 1
        BY <1>1, <4>1
      <4> QED
        BY <1>17, <4>2
    <3> DEFINE A == {L[a] : a \in From(deps, k)}
               B == {M[a] : a \in From(deps', k)}
    <3>3. A = B
      BY <1>13, <3>2
    <3>4. L[k] = 1 + Max({0} \cup A)
      BY <3>1
    <3> HIDE DEF A, B
    <3>5. M[k] = 1 + Max({0} \cup B)
      BY <1>16, <3>3, <3>4
    <3> QED
      BY <3>5 DEF B
  <2>2. M[n] = 1 + Max({0} \cup {M[a] : a \in From(deps', n)})
    <3> DEFINE B == {M[a] : a \in From(deps', n)}
    <3>1. \A q \in P : depth[q] = IF last[q] = NoOp THEN 0 ELSE M[last[q]]
      BY <1>1, <1>4, <1>7, <1>8, <1>16
    <3>2. {0} \cup B = {0} \cup D
      <4> HIDE DEF P
      <4>1. \A x \in B : \E q \in P : last[q] # NoOp /\ x = M[last[q]]
        BY <1>12
      <4>2. ASSUME NEW x \in B PROVE x \in D
        <5>1. PICK q \in P : last[q] # NoOp /\ x = M[last[q]]
          BY <4>1
        <5>2. depth[q] = x
          BY <3>1, <5>1
        <5> QED
          BY <5>2
      <4>3. \A q \in P : last[q] # NoOp => M[last[q]] \in B
        BY <1>12
      <4>4. \A x \in D : x = 0 \/ x \in B
        BY <3>1, <4>3
      <4> QED
        BY <4>2, <4>4
    <3> HIDE DEF B, D
    <3>3. M[n] = 1 + Max({0} \cup B)
      BY <1>10, <1>16, <3>2
    <3> QED
      BY <3>3 DEF B
  <2>3. M[n + 1] = 1 + Max({0} \cup {M[a] : a \in From(deps', n + 1)})
    <3> DEFINE B == {M[a] : a \in From(deps', n + 1)}
    <3>1. B = {} /\ IsFiniteSet({}) /\ {} \subseteq Nat
      BY <1>14, FS_EmptySet
    <3>2. Max({0} \cup {}) \in {0} \cup {}
      BY <3>1, GreatestOrZero
    <3>3. Max({0} \cup B) = 0
      BY <3>1, <3>2
    <3> HIDE DEF B
    <3>4. M[n + 1] = 1 + Max({0} \cup B)
      BY <1>16, <3>3
    <3> QED
      BY <3>4 DEF B
  <2>4. \A k \in 0 .. n + 1 : k \in 0 .. n - 1 \/ k = n \/ k = n + 1
    BY <1>1
  <2> QED
    BY <2>1, <2>2, <2>3, <2>4
<1>19. IsLevel(M, n + 1, deps')
  <2>1. n + 1 \in Nat
    BY <1>1
  <2> DEFINE C == Chains(M, n + 1, deps')
  <2>2. /\ \A k \in 0 .. n + 1 : C[k] = 1 + Max({0} \cup {M[a] : a \in From(deps', k)})
        /\ C = [k \in 0 .. n + 1 |-> C[k]]
    BY <2>1, ChainsShape
  <2> HIDE DEF C
  <2>3. M = C
    BY <1>16, <1>18, <2>2
  <2> QED
    BY <2>1, <2>3, LevelUnfolds DEF C
<1>20. \A q \in DOMAIN depth' : depth'[q] = IF last'[q] = NoOp THEN 0 ELSE M[last'[q]]
  <2> SUFFICES ASSUME NEW q \in DOMAIN depth
               PROVE  depth'[q] = IF last'[q] = NoOp THEN 0 ELSE M[last'[q]]
    BY <1>8
  <2>1. n # NoOp
    BY <1>1, NoOpAssumption
  <2>2. CASE q \in P
    BY <1>8, <1>16, <2>1, <2>2
  <2>3. CASE q \notin P
    <3>1. depth'[q] = depth[q] /\ last'[q] = last[q]
      BY <1>8, <2>3
    <3>2. last[q] # NoOp => last[q] \in 0 .. n - 1
      BY <1>1, <1>8
    <3>3. depth[q] = IF last[q] = NoOp THEN 0 ELSE L[last[q]]
      BY <1>7
    <3> QED
      BY <1>17, <3>1, <3>2, <3>3
  <2> QED
    BY <2>2, <2>3
<1>21. \A k \in 0 .. (n + 1) - 1 : \E q \in DOMAIN depth' : M[k] <= depth'[q]
  <2> SUFFICES ASSUME NEW k \in 0 .. n
               PROVE  \E q \in DOMAIN depth : M[k] <= depth'[q]
    BY <1>1, <1>8
  <2>1. CASE k = n
    <3>1. PICK q : q \in P
      <4>1. DOMAIN qubits = 1 .. Len(qubits) /\ Len(qubits) \in Nat /\ Len(qubits) # 0
        BY LenProperties, EmptySeq
      <4>2. 1 \in DOMAIN qubits
        BY <4>1
      <4> QED
        BY <4>2 DEF ToSet
    <3> QED
      BY <1>4, <1>8, <1>11, <1>16, <2>1, <3>1
  <2>2. CASE k # n
    <3>1. k \in 0 .. n - 1
      BY <1>1, <2>2
    <3>2. PICK q \in DOMAIN depth : L[k] <= depth[q]
      BY <1>7, <3>1
    <3>3. M[k] = L[k] /\ L[k] \in Nat /\ depth[q] \in Nat
      BY <1>1, <1>7, <1>16, <3>1 DEF Emission
    <3>4. depth[q] <= depth'[q]
      BY <1>8, <1>11, <3>3
    <3>5. depth'[q] \in Nat
      BY <1>8, <1>11, <3>3
    <3> QED
      BY <3>2, <3>3, <3>4, <3>5
  <2> QED
    BY <2>1, <2>2
<1>22. Measures(M)'
  <2>1. \A k \in 0 .. Len(ops') - 1 : \E q \in DOMAIN depth' : M[k] <= depth'[q]
    BY <1>2, <1>21
  <2>2. IsLevel(M, Len(ops'), deps') /\ M \in [0 .. Len(ops') -> Nat]
    BY <1>2, <1>16, <1>19
  <2> QED
    BY <1>20, <2>1, <2>2 DEF Measures
<1> QED
  BY <1>22

-----------------------------------------------------------------------------
(* The front ends that build with these lists. *)

(* Registers lie among the declared qubits, and commands act on them. *)
Declared ==
  /\ \A r \in DOMAIN registers :
       /\ registers[r].start \in Nat /\ registers[r].count \in Nat
       /\ registers[r].start .. registers[r].start + registers[r].count - 1 \subseteq DOMAIN last
  /\ source.frontend \in {"tket_json", "tket_py"} =>
       /\ source.qubits \in Nat /\ DOMAIN last = 0 .. source.qubits - 1
       /\ \A c \in ToSet(todo) : ToSet(c.args) \subseteq DOMAIN last

InNumbers == Emission /\ Declared /\ Measured

LEMMA SameNumbers ==
  ASSUME InNumbers, UNCHANGED <<source, ops, deps, last, depth, untracked, qasmVars>>,
         source.frontend \in {"tket_json", "tket_py"} => ToSet(todo') \subseteq ToSet(todo)
  PROVE  InNumbers'
<1>1. UNCHANGED <<registers, hardware>>
  BY DEF qasmVars
<1>2. Emission'
  BY <1>1 DEF InNumbers, Emission, EmittedOp, EmittedDep
<1>3. Declared'
  BY <1>1 DEF InNumbers, Declared
<1>4. Measured'
  <2>1. \A L : Measures(L) => Measures(L)'
    BY DEF Measures
  <2>2. Forward' <=> Forward
    BY DEF Forward
  <2> QED
    BY <2>1, <2>2 DEF InNumbers, Measured
<1> QED
  BY <1>2, <1>3, <1>4 DEF InNumbers

LEMMA InNumbersInit ==
  ASSUME NEW Statements, NEW Bloqs, InRange(Statements, Bloqs), Init
  PROVE  InNumbers
<1> DEFINE tket == source.frontend \in {"tket_json", "tket_py"}
           n == IF tket THEN source.qubits ELSE 0
<1>1. n \in Nat /\ (tket => source.qubits \in Nat)
  BY DEF Init, InRange
<1>2. /\ last = [q \in 0 .. n - 1 |-> NoOp] /\ depth = [q \in 0 .. n - 1 |-> 0]
      /\ ops = <<>> /\ deps = <<>> /\ registers = <<>> /\ hardware = {}
  BY DEF Init, Tracked
<1>3. DOMAIN ops = {} /\ DOMAIN deps = {} /\ DOMAIN registers = {} /\ Len(ops) = 0
  BY <1>2
<1>4. Emission
  BY <1>1, <1>2, <1>3 DEF Emission
<1>5. Declared
  <2>1. tket => \A c \in ToSet(todo) : ToSet(c.args) \subseteq 0 .. source.qubits - 1
    BY DEF Init, InRange
  <2> QED
    BY <1>1, <1>2, <1>3, <2>1 DEF Declared
<1>6. Measured
  <2> DEFINE L == [k \in 0 .. 0 |-> 1]
  <2>1. L = Chains(L, 0, deps)
    <3>1. \A k \in 0 .. 0 : From(deps, k) = {}
      BY <1>3 DEF From
    <3>2. IsFiniteSet({}) /\ {} \subseteq Nat
      BY FS_EmptySet
    <3>3. Max({0} \cup {}) \in {0} \cup {}
      BY <3>2, GreatestOrZero
    <3>4. \A k \in 0 .. 0 : Chains(L, 0, deps)[k] = 1 + Max({0} \cup {L[a] : a \in From(deps, k)})
      BY ChainsShape
    <3>5. \A k \in 0 .. 0 : {L[a] : a \in From(deps, k)} = {}
      BY <3>1
    <3>6. \A k \in 0 .. 0 : Chains(L, 0, deps)[k] = 1
      BY <3>3, <3>4, <3>5
    <3>7. Chains(L, 0, deps) = [k \in 0 .. 0 |-> Chains(L, 0, deps)[k]]
      BY ChainsShape
    <3> QED
      BY <3>6, <3>7
  <2>2. IsLevel(L, Len(ops), deps)
    BY <1>3, <2>1, LevelUnfolds
  <2>3. L \in [0 .. Len(ops) -> Nat]
    BY <1>3
  <2>4. \A q \in DOMAIN depth : last[q] = NoOp /\ depth[q] = 0
    BY <1>2
  <2> HIDE DEF L
  <2>5. Measures(L)
    BY <1>3, <2>2, <2>3, <2>4 DEF Measures
  <2> QED
    BY <2>5 DEF Measured
<1> QED
  BY <1>4, <1>5, <1>6 DEF InNumbers

(* New qubits are tracked and have no depth. *)
LEMMA DeclareInNumbers ==
  ASSUME InNumbers, Builds, DeclareQubit, source' = source, source.frontend = "qasm",
         Head(todo).size \in Nat \cup {NoIndex}
  PROVE  InNumbers'
<1> DEFINE size == Head(todo).size
           total == QubitTotal
           new == total .. total + size - 1
<1>1. PICK n \in Nat : DOMAIN last = 0 .. n - 1
  BY DEF InNumbers, Emission
<1>2. total = n
  BY <1>1, FS_Interval DEF QubitTotal
<1>3. size \in Nat
  BY DEF DeclareQubit
<1>4. /\ registers' = [r \in DOMAIN registers \cup {Head(todo).reg} |->
                         IF r = Head(todo).reg THEN [start |-> total, count |-> size]
                                               ELSE registers[r]]
      /\ last' = [q \in DOMAIN last \cup new |-> IF q \in DOMAIN last THEN last[q] ELSE NoOp]
      /\ depth' = [q \in DOMAIN depth \cup new |-> IF q \in DOMAIN depth THEN depth[q] ELSE 0]
      /\ UNCHANGED <<ops, deps, untracked, hardware>>
  BY DEF DeclareQubit
<1> HIDE DEF size, total
<1>5. DOMAIN last \cup new = 0 .. (n + size) - 1 /\ n + size \in Nat
  BY <1>1, <1>2, <1>3
<1> HIDE DEF new
<1>6. DOMAIN depth = DOMAIN last /\ DOMAIN last' = DOMAIN last \cup new /\ DOMAIN depth' = DOMAIN last'
  BY <1>4 DEF InNumbers, Emission
<1>7. Emission'
  <2>1. \A q \in DOMAIN depth' : depth'[q] \in Nat
    BY <1>4 DEF InNumbers, Emission
  <2>2. \A i \in DOMAIN ops' : EmittedOp(i)'
    BY <1>4, <1>6 DEF InNumbers, Emission, EmittedOp
  <2>3. \A i \in DOMAIN deps' : EmittedDep(i)'
    BY <1>4 DEF InNumbers, Emission, EmittedDep
  <2>4. hardware' \subseteq Nat
    BY <1>4 DEF InNumbers, Emission
  <2> QED
    BY <1>5, <1>6, <2>1, <2>2, <2>3, <2>4 DEF Emission
<1>8. Declared'
  <2> SUFFICES ASSUME NEW r \in DOMAIN registers'
               PROVE  /\ registers'[r].start \in Nat /\ registers'[r].count \in Nat
                      /\ registers'[r].start .. registers'[r].start + registers'[r].count - 1
                           \subseteq DOMAIN last'
    BY DEF Declared
  <2>1. CASE r = Head(todo).reg
    <3>1. registers'[r].start = total /\ registers'[r].count = size
      BY <1>4, <2>1
    <3> QED
      BY <1>2, <1>3, <1>6, <3>1 DEF new
  <2>2. CASE r # Head(todo).reg
    <3>1. r \in DOMAIN registers /\ registers'[r] = registers[r]
      BY <1>4, <2>2
    <3> QED
      BY <1>6, <3>1 DEF InNumbers, Declared
  <2> QED
    BY <2>1, <2>2
<1>9. Measured'
  <2> SUFFICES ASSUME source.frontend # "tket_py", untracked = {}, Forward
               PROVE  \E L : Measures(L)'
    BY <1>4 DEF Measured, Forward
  <2>1. PICK L : Measures(L)
    BY DEF InNumbers, Measured
  <2>2. \A q \in DOMAIN depth' : depth'[q] = IF last'[q] = NoOp THEN 0 ELSE L[last'[q]]
    BY <1>4, <1>6, <2>1 DEF Measures
  <2>3. \A q \in DOMAIN depth : q \in DOMAIN depth' /\ depth'[q] = depth[q]
    BY <1>4
  <2>4. Measures(L)'
    <3>1. Len(ops') = Len(ops) /\ deps' = deps
      BY <1>4
    <3>2. \A k \in 0 .. Len(ops) - 1 : \E q \in DOMAIN depth' : L[k] <= depth'[q]
      BY <2>1, <2>3 DEF Measures
    <3>3. L \in [0 .. Len(ops) -> Nat] /\ IsLevel(L, Len(ops), deps)
      BY <2>1 DEF Measures
    <3> QED
      BY <2>2, <3>1, <3>2, <3>3 DEF Measures
  <2> QED
    BY <2>4
<1> QED
  BY <1>7, <1>8, <1>9 DEF InNumbers

LEMMA ResolvedTracked ==
  ASSUME InNumbers, NEW operand, Resolves(operand), operand.reg # Hardware,
         operand.index \in Nat \cup {NoIndex}
  PROVE  Resolved(operand) \in DOMAIN last
<1> DEFINE r == registers[operand.reg]
           i == IF operand.index = NoIndex THEN 0 ELSE operand.index
<1>1. /\ r.start \in Nat /\ r.count \in Nat
      /\ r.start .. r.start + r.count - 1 \subseteq DOMAIN last
  BY DEF InNumbers, Declared, Resolves
<1>2. i \in Nat /\ i < r.count
  BY <1>1 DEF Resolves
<1>3. Resolved(operand) = r.start + i
  BY DEF Resolved
<1> HIDE DEF r, i
<1>4. r.start + i \in r.start .. r.start + r.count - 1
  BY <1>1, <1>2
<1> QED
  BY <1>1, <1>3, <1>4

LEMMA EmitInNumbers ==
  ASSUME InNumbers, Builds, source' = source, registers' = registers,
         NEW Q, NEW qubits \in Seq(Q), qubits # <<>> \/ source.frontend = "tket_py",
         NEW kind, EmitOperation(kind, qubits),
         hardware \subseteq hardware', hardware' \subseteq Nat,
         ToSet(qubits) \subseteq DOMAIN last \cup hardware',
         source.frontend \in {"tket_json", "tket_py"} => ToSet(todo') \subseteq ToSet(todo)
  PROVE  InNumbers'
<1>1. Emission /\ Declared /\ Measured
  BY DEF InNumbers
<1>2. Emission'
  BY <1>1, EmitInRange
<1>3. DOMAIN last' = DOMAIN last
  BY DEF EmitOperation, LastAfter
<1>4. Declared'
  BY <1>1, <1>3 DEF Declared
<1>5. Measured'
  <2>1. CASE qubits # <<>>
    BY <1>1, <1>2, <2>1, EmitMeasured
  <2>2. CASE source.frontend = "tket_py"
    BY <2>2 DEF Measured
  <2> QED
    BY <2>1, <2>2
<1> QED
  BY <1>2, <1>4, <1>5 DEF InNumbers

LEMMA QasmInNumbers ==
  ASSUME NEW Statements, NEW Commands, NEW Bloqs, WellFormed(Statements, Commands),
         InRange(Statements, Bloqs), OrderInv(Statements, Commands), InNumbers, QasmStep
  PROVE  InNumbers'
<1>1. Walks(Statements, Commands) /\ Builds
  BY DEF OrderInv
<1>2. source.frontend = "qasm" /\ source' = source
  BY DEF QasmStep, DeclareQubit, ProcessGateCall, ProcessMeasure, QasmError, WalkBlock,
         IgnoreStatement, FinishQasm, Walking, circuitVars, Failed, Built
<1>3. ASSUME todo # <<>>
      PROVE  Head(todo) \in Statements
  BY <1>1, <1>2, <1>3, HeadTailProperties DEF Walks
<1>4. ASSUME UNCHANGED <<ops, deps, last, depth, untracked, qasmVars>>
      PROVE  InNumbers'
  BY <1>2, <1>4, SameNumbers
<1>5. hardware \subseteq Nat
  BY DEF InNumbers, Emission
<1>6. CASE DeclareQubit
  <2>1. Head(todo).size \in Nat \cup {NoIndex}
    BY <1>3, <1>6 DEF DeclareQubit, Walking, InRange
  <2> QED
    BY <1>1, <1>2, <1>6, <2>1, DeclareInNumbers
<1>7. CASE ProcessGateCall
  <2> DEFINE operands == Head(todo).operands
             qubits == [i \in DOMAIN operands |-> Resolved(operands[i])]
             Q == {qubits[i] : i \in DOMAIN operands}
             named == {o.index : o \in {p \in ToSet(operands) : p.reg = Hardware}}
  <2>1. todo # <<>> /\ Head(todo).type = "gate" /\ ~GateFails(Head(todo))
        /\ registers' = registers /\ hardware' = hardware \cup named
    BY <1>7 DEF ProcessGateCall, Walking
  <2>2. /\ operands \in Seq(ToSet(operands)) /\ operands # <<>>
        /\ \A o \in ToSet(operands) :
             IF o.reg = Hardware THEN o.index \in Nat ELSE o.index \in Nat \cup {NoIndex}
    BY <1>3, <2>1 DEF WellFormed, InRange
  <2>3. \A i \in DOMAIN operands : Resolves(operands[i]) /\ operands[i] \in ToSet(operands)
    BY <2>1 DEF GateFails, ToSet
  <2>4. DOMAIN operands = 1 .. Len(operands) /\ Len(operands) \in Nat
    BY <2>2, LenProperties
  <2>5. Len(operands) # 0
    BY <2>2, EmptySeq
  <2>6. \E kind : EmitOperation(kind, qubits)
    BY <1>7 DEF ProcessGateCall
  <2> HIDE DEF operands
  <2>7. qubits \in Seq(Q) /\ qubits # <<>>
    <3>1. qubits \in [1 .. Len(operands) -> Q]
      BY <2>4
    <3>2. qubits \in Seq(Q) /\ Len(qubits) = Len(operands)
      BY <2>4, <3>1
    <3> QED
      BY <2>5, <3>2
  <2>8. hardware \subseteq hardware' /\ hardware' \subseteq Nat
    BY <1>5, <2>1, <2>2
  <2>9. ToSet(qubits) \subseteq DOMAIN last \cup hardware'
    <3> SUFFICES ASSUME NEW i \in DOMAIN operands
                 PROVE  Resolved(operands[i]) \in DOMAIN last \cup hardware'
      BY DEF ToSet
    <3> DEFINE o == operands[i]
    <3>1. o \in ToSet(operands) /\ Resolves(o)
      BY <2>3
    <3> HIDE DEF o
    <3>2. CASE o.reg = Hardware
      BY <2>1, <3>1, <3>2 DEF Resolved, o
    <3>3. CASE o.reg # Hardware
      BY <2>2, <3>1, <3>3, ResolvedTracked DEF o
    <3> QED
      BY <3>2, <3>3
  <2> HIDE DEF qubits, Q, named
  <2> QED
    BY <1>1, <1>2, <2>1, <2>6, <2>7, <2>8, <2>9, EmitInNumbers
<1>8. CASE ProcessMeasure
  <2> DEFINE o == Head(todo).operand
             x == Resolved(o)
  <2>1. todo # <<>> /\ Head(todo).type \in {"measure", "reset"} /\ ~MeasureFails(Head(todo))
        /\ EmitOperation("measurement", <<x>>) /\ UNCHANGED <<registers, hardware>>
    BY <1>8 DEF ProcessMeasure, Walking, qasmVars
  <2>2. o.index \in Nat \cup {NoIndex} /\ o.reg # Hardware /\ Resolves(o)
    BY <1>3, <2>1 DEF InRange, MeasureFails
  <2> HIDE DEF o
  <2>3. x \in DOMAIN last
    BY <2>2, ResolvedTracked
  <2> HIDE DEF x
  <2>4. <<x>> \in Seq({x}) /\ <<x>> # <<>> /\ ToSet(<<x>>) \subseteq DOMAIN last \cup hardware'
    BY <2>3 DEF ToSet
  <2>5. hardware \subseteq hardware' /\ hardware' \subseteq Nat
    BY <1>5, <2>1
  <2> QED
    BY <1>1, <1>2, <2>1, <2>4, <2>5, EmitInNumbers
<1>9. CASE QasmError \/ WalkBlock \/ IgnoreStatement \/ FinishQasm
  BY <1>4, <1>9 DEF QasmError, WalkBlock, IgnoreStatement, FinishQasm, builderVars
<1> QED
  BY <1>6, <1>7, <1>8, <1>9 DEF QasmStep

LEMMA TketInNumbers ==
  ASSUME NEW Statements, NEW Commands, NEW Bloqs, WellFormed(Statements, Commands),
         InRange(Statements, Bloqs), OrderInv(Statements, Commands), InNumbers,
         TketStep, UNCHANGED qasmVars
  PROVE  InNumbers'
<1>1. Walks(Statements, Commands) /\ Builds /\ UNCHANGED <<registers, hardware>>
  BY DEF OrderInv, qasmVars
<1>2. source.frontend \in {"tket_json", "tket_py"} /\ source' = source
  BY DEF TketStep, SkipCommand, ProcessCommand, TketError, FinishTket, AtCommand, circuitVars
<1>3. todo \in Seq(Commands)
  BY <1>1, <1>2 DEF Walks
<1>4. ASSUME todo # <<>>
      PROVE  Head(todo) \in Commands /\ Head(todo) \in ToSet(todo) /\ ToSet(Tail(todo)) \subseteq ToSet(todo)
  <2>1. /\ DOMAIN todo = 1 .. Len(todo) /\ Len(todo) \in Nat /\ Len(todo) # 0
        /\ Head(todo) = todo[1] /\ Head(todo) \in Commands
        /\ Tail(todo) \in Seq(Commands) /\ Len(Tail(todo)) = Len(todo) - 1
        /\ \A i \in 1 .. Len(todo) - 1 : Tail(todo)[i] = todo[i + 1]
    BY <1>3, <1>4, LenProperties, EmptySeq, HeadTailProperties
  <2>2. DOMAIN Tail(todo) = 1 .. Len(todo) - 1
    BY <2>1, LenProperties
  <2> QED
    BY <2>1, <2>2 DEF ToSet
<1>5. CASE SkipCommand
  <2>1. todo # <<>> /\ todo' = Tail(todo) /\ UNCHANGED <<ops, deps, last, depth, untracked>>
    BY <1>5 DEF SkipCommand, AtCommand
  <2> QED
    BY <1>2, <1>4, <2>1, SameNumbers
<1>6. CASE ProcessCommand
  <2> DEFINE args == Head(todo).args
  <2>1. /\ todo # <<>> /\ todo' = Tail(todo) /\ \E kind : EmitOperation(kind, args)
        /\ ~Skipped(Head(todo)) /\ ~Rejected(Head(todo))
    BY <1>6 DEF ProcessCommand, AtCommand
  <2>2. args \in Seq(ToSet(args))
    BY <1>4, <2>1 DEF WellFormed
  <2>3. args # <<>> \/ source.frontend = "tket_py"
    BY <1>2, <2>1 DEF Skipped, Rejected, InJson
  <2>4. ToSet(args) \subseteq DOMAIN last
    BY <1>2, <1>4, <2>1 DEF InNumbers, Declared
  <2>5. hardware \subseteq hardware' /\ hardware' \subseteq Nat
    BY <1>1 DEF InNumbers, Emission
  <2>6. ToSet(todo') \subseteq ToSet(todo)
    BY <1>4, <2>1
  <2> HIDE DEF args
  <2> QED
    BY <1>1, <1>2, <2>1, <2>2, <2>3, <2>4, <2>5, <2>6, EmitInNumbers
<1>7. CASE TketError \/ FinishTket
  <2>1. UNCHANGED <<todo, ops, deps, last, depth, untracked>>
    BY <1>7 DEF TketError, FinishTket, builderVars
  <2> QED
    BY <1>2, <2>1, SameNumbers
<1> QED
  BY <1>5, <1>6, <1>7 DEF TketStep

LEMMA NumbersStep ==
  ASSUME NEW Statements, NEW Commands, NEW Bloqs, WellFormed(Statements, Commands),
         InRange(Statements, Bloqs), OrderInv(Statements, Commands), InNumbers, [Next]_vars
  PROVE  InNumbers'
<1>1. CASE QasmStep
  BY <1>1, QasmInNumbers
<1>2. CASE TketStep /\ UNCHANGED qasmVars
  BY <1>2, TketInNumbers
<1>3. ASSUME UNCHANGED <<builderVars, qasmVars>>
      PROVE  InNumbers'
  BY <1>3, SourceKept, SameNumbers DEF builderVars
<1>4. CASE UNCHANGED frontVars
  BY <1>3, <1>4 DEF frontVars
<1>5. CASE UNCHANGED vars
  BY <1>4, <1>5 DEF vars
<1> QED
  BY <1>1, <1>2, <1>3, <1>4, <1>5 DEF Next, FrontEndStep

(* Whatever the OpenQASM program or the TKET circuit: the depth that the   *)
(* adapter keeps qubit by qubit is the length of the longest chain of      *)
(* dependencies, as long as no hardware qubit is used before it is         *)
(* declared and no gate names a qubit twice (emit_operation, finish).      *)
THEOREM DepthMeasured ==
  ASSUME NEW CONSTANT Statements, NEW CONSTANT Commands, NEW CONSTANT Bloqs,
         WellFormed(Statements, Commands), InRange(Statements, Bloqs)
  PROVE  Spec => []DepthIsLongestChain
<1>1. Init => OrderInv(Statements, Commands) /\ InNumbers
  BY OrderInit, InNumbersInit
<1>2. OrderInv(Statements, Commands) /\ InNumbers /\ [Next]_vars
        => (OrderInv(Statements, Commands) /\ InNumbers)'
  BY OrderStep, NumbersStep
<1>3. OrderInv(Statements, Commands) /\ InNumbers => DepthIsLongestChain
  BY MeasuredDepth DEF OrderInv, InNumbers
<1> QED
  BY <1>1, <1>2, <1>3, PTL DEF Spec

-----------------------------------------------------------------------------
(* What an adapter hands over passes validate. *)

(* No set of numbers waits only for itself. *)
Blocked(d, S) == \A m \in S : \E i \in DOMAIN d : d[i].to = m /\ d[i].from \in S
NoCycle(d) == \A S \in SUBSET Nat : Blocked(d, S) => S = {}

Repeats(o) == \E i \in DOMAIN o : ~IsInjective(o[i].qubits)

(* The lists of a circuit on n qubits. *)
Sound(o, d, n) ==
  /\ IsList(o) /\ IsList(d)
  /\ \A i \in DOMAIN o :
       /\ o[i].id = i - 1 /\ o[i].active /\ o[i].hook = NoHook
       /\ \A q \in ToSet(o[i].qubits) : q >= n => q \in hardware
  /\ \A i \in DOMAIN d : d[i].from \in 0 .. Len(o) - 1 /\ d[i].to \in 0 .. Len(o) - 1
  /\ Repeats(o) \/ NoCycle(d)
  /\ o = <<>> => source.frontend \in {"qasm", "tket_json"}

Clean ==
  /\ Sound(circuit.ops, circuit.deps, circuit.qubits)
  /\ circuit.positions = NoPositions /\ circuit.hooks = <<>>

Ours == source.frontend \notin {"json", "testkit"}
Accepting ==
  /\ verdict = "open" => circuit = NoCircuit
  /\ Ours /\ circuit # NoCircuit =>
       /\ Clean /\ KahnInv
       /\ \/ verdict \in {"built", "sorting", "accepted", "CyclicDag", "InvalidQubit"}
          \/ verdict = "EmptyCircuit" /\ circuit.ops = <<>>

LEMMA AcceptingAccepts == Accepting => (source.frontend # "testkit" => AdaptersAccepted)
<1> SUFFICES ASSUME Accepting, Ours, circuit # NoCircuit, Answer
             PROVE  \/ verdict = "accepted"
                    \/ verdict = "CyclicDag" /\ RepeatsQubit
                    \/ verdict = "InvalidQubit" /\ UsesHardwareQubits
                    \/ verdict = "EmptyCircuit" /\ source.frontend \in {"qasm", "tket_json", "testkit"}
  BY DEF AdaptersAccepted, Ours
<1>1. Clean /\ KahnInv
  BY DEF Accepting
<1>2. UsesHardwareQubits
  BY <1>1 DEF Clean, Sound, UsesHardwareQubits, OpIndex, QubitsOfOp
<1>3. circuit.ops = <<>> => source.frontend \in {"qasm", "tket_json"}
  BY <1>1 DEF Clean, Sound
<1>4. ASSUME verdict = "CyclicDag"
      PROVE  RepeatsQubit
  <2>1. ~Acyclic
    BY <1>1, <1>4, Decides DEF KahnCorrect
  <2>2. Ids(circuit.ops) \in SUBSET Nat
    <3>1. DOMAIN circuit.ops = 1 .. Len(circuit.ops) /\ Len(circuit.ops) \in Nat
      BY <1>1, ListShape DEF Clean, Sound
    <3> QED
      BY <1>1, <3>1 DEF Clean, Sound, Ids
  <2>3. ASSUME NoCycle(circuit.deps)
        PROVE  Acyclic
    <3> SUFFICES ASSUME NEW S \in SUBSET Nodes, Stuck(S)
                 PROVE  S = {}
      BY AcyclicNotStuck
    <3>1. Blocked(circuit.deps, S) /\ S \in SUBSET Nat
      BY <2>2 DEF Stuck, Waits, Blocked, Nodes
    <3> QED
      BY <2>3, <3>1 DEF NoCycle
  <2>4. Repeats(circuit.ops)
    BY <1>1, <2>1, <2>3 DEF Clean, Sound
  <2> QED
    BY <2>4 DEF Repeats, RepeatsQubit, OpIndex
<1> QED
  BY <1>2, <1>3, <1>4 DEF Accepting, Answer

(* Only two checks can fail on what an adapter hands over. *)
LEMMA FailingOnly ==
  ASSUME Clean
  PROVE  Failing \subseteq {1, 3}
<1>1. DOMAIN circuit.ops = 1 .. Len(circuit.ops) /\ Len(circuit.ops) \in Nat
  BY ListShape DEF Clean, Sound
<1>2. \A i \in OpIndex : circuit.ops[i].id = i - 1 /\ circuit.ops[i].active /\ circuit.ops[i].hook = NoHook
  BY DEF Clean, Sound, OpIndex
<1>3. ~DuplicateOpId
  BY <1>1, <1>2 DEF DuplicateOpId, OpIndex
<1>4. ~PositionCount /\ BadPositions = {}
  BY DEF PositionCount, BadPositions, HasPositions, Clean
<1>5. ~BadPosition(TRUE) /\ ~BadPosition(FALSE)
  BY <1>4 DEF BadPosition
<1>6. ~DanglingDependency
  <2>1. ASSUME NEW k \in 0 .. Len(circuit.ops) - 1
        PROVE  k \in Ids(circuit.ops)
    <3>1. k + 1 \in OpIndex /\ circuit.ops[k + 1].id = (k + 1) - 1
      BY <1>1, <1>2 DEF OpIndex
    <3> QED
      BY <3>1 DEF Ids, OpIndex
  <2>2. \A i \in DOMAIN circuit.deps :
          circuit.deps[i].from \in 0 .. Len(circuit.ops) - 1 /\ circuit.deps[i].to \in 0 .. Len(circuit.ops) - 1
    BY DEF Clean, Sound
  <2> QED
    BY <2>1, <2>2 DEF DanglingDependency
<1>7. ~DanglingHook
  BY <1>2 DEF DanglingHook
<1>8. DOMAIN Targets = {}
  <2> DEFINE a == [h \in DOMAIN circuit.hooks |-> circuit.hooks[h].activates]
  <2>1. circuit.hooks = <<>> /\ DOMAIN circuit.hooks = {}
    BY DEF Clean
  <2>2. a = <<>>
    BY <2>1
  <2>3. Targets = FlattenSeq(a)
    BY DEF Targets
  <2> HIDE DEF a
  <2>4. Len(a) = 0 /\ DOMAIN a = {}
    BY <2>2
  <2>5. Targets = a
    BY <2>3, <2>4 DEF FlattenSeq
  <2> QED
    BY <2>4, <2>5
<1>9. ~BadTarget(TRUE) /\ ~BadTarget(FALSE)
  BY <1>8 DEF BadTarget, BadTargets
<1>10. ~OrphanedInactive
  BY <1>2 DEF OrphanedInactive
<1>11. DOMAIN Checks = 1 .. 11
  BY DEF Checks
<1>12. ASSUME NEW i \in {2, 4, 5, 6, 7, 8, 9, 10, 11}
       PROVE  ~Checks[i].fails
  <2>1. /\ (Checks[2].fails => DuplicateOpId) /\ (Checks[4].fails => PositionCount)
        /\ (Checks[5].fails => BadPosition(TRUE)) /\ (Checks[6].fails => BadPosition(FALSE))
        /\ (Checks[7].fails => DanglingDependency) /\ (Checks[8].fails => DanglingHook)
        /\ (Checks[9].fails => BadTarget(TRUE)) /\ (Checks[10].fails => BadTarget(FALSE))
        /\ (Checks[11].fails => OrphanedInactive)
    BY DEF Checks
  <2> QED
    BY <1>3, <1>4, <1>5, <1>6, <1>7, <1>9, <1>10, <1>12, <2>1
<1> QED
  BY <1>11, <1>12 DEF Failing

LEMMA SameClean ==
  ASSUME UNCHANGED <<source, circuit, hardware>>
  PROVE  Clean' <=> Clean
BY DEF Clean, Sound

(* The checks and the sort keep to this. *)
LEMMA ValidateAccepts ==
  ASSUME Accepting, ValidateStep, UNCHANGED hardware
  PROVE  Accepting'
<1>1. UNCHANGED <<source, circuit>> /\ verdict \in {"built", "sorting"}
  BY DEF ValidateStep, Reject, BuildGraph, VisitNode, Conclude
<1>2. verdict' # "open"
  <2>1. ASSUME Reject PROVE verdict' # "open"
    <3> DEFINE errors == <<"EmptyCircuit", "DuplicateOpId", "InvalidQubit",
                           "QubitPositionCountMismatch", "QubitPositionInvalidQubit",
                           "DuplicateQubitPosition", "DanglingDependency",
                           "DanglingHookReference", "DanglingDependency", "ActiveOpInHook",
                           "OrphanedInactiveOp">>
    <3>1. PICK i \in DOMAIN Checks : verdict' = Checks[i].error
      BY <2>1 DEF Reject, Failing
    <3>2. DOMAIN Checks = 1 .. 11
      BY DEF Checks
    <3>3. \A k \in 1 .. 11 : Checks[k].error = errors[k]
      BY DEF Checks
    <3>4. \A k \in 1 .. 11 : errors[k] # "open"
      OBVIOUS
    <3> QED
      BY <3>1, <3>2, <3>3, <3>4
  <2> QED
    BY <1>1, <2>1 DEF ValidateStep, BuildGraph, VisitNode, Conclude
<1>3. SUFFICES ASSUME Ours, circuit # NoCircuit
               PROVE  /\ Clean' /\ KahnInv'
                      /\ \/ verdict' \in {"built", "sorting", "accepted", "CyclicDag", "InvalidQubit"}
                         \/ verdict' = "EmptyCircuit" /\ circuit.ops = <<>>
  BY <1>1, <1>2 DEF Accepting, Ours
<1>4. Clean /\ KahnInv
  BY <1>3 DEF Accepting
<1>5. Clean'
  BY <1>1, <1>4, SameClean
<1>6. KahnInv'
  BY <1>4, KahnStep
<1>7. CASE Reject
  <2>1. PICK i \in Failing : verdict' = Checks[i].error
    BY <1>7 DEF Reject
  <2>2. i = 1 \/ i = 3
    BY <1>4, <2>1, FailingOnly
  <2>3. Checks[1].error = "EmptyCircuit" /\ Checks[3].error = "InvalidQubit"
    BY DEF Checks
  <2>4. 1 \in Failing => circuit.ops = <<>>
    BY DEF Failing, Checks
  <2> QED
    BY <1>5, <1>6, <2>1, <2>2, <2>3, <2>4
<1>8. CASE BuildGraph \/ VisitNode \/ Conclude
  BY <1>1, <1>5, <1>6, <1>8 DEF BuildGraph, VisitNode, Conclude
<1> QED
  BY <1>7, <1>8 DEF ValidateStep

(* Handing over a circuit, or not. *)
Hands(o, d, n) == \E c, k : Built(o, d, n, c, k)

LEMMA HandsAccepting ==
  ASSUME Accepting, verdict = "open", source' = source, NEW o, NEW d, NEW n,
         Hands(o, d, n), Sound(o, d, n), hardware' = hardware
  PROVE  Accepting'
<1>1. /\ circuit'.ops = o /\ circuit'.deps = d /\ circuit'.qubits = n
      /\ circuit'.positions = NoPositions /\ circuit'.hooks = <<>> /\ verdict' = "built"
  BY DEF Hands, Built
<1>2. Clean'
  BY <1>1 DEF Clean, Sound
<1>3. KahnInv'
  BY <1>1 DEF KahnInv, Typed, Sound, Started, Ended
<1> QED
  BY <1>1, <1>2, <1>3 DEF Accepting

LEMMA IdleAccepting ==
  ASSUME Accepting, verdict = "open", UNCHANGED circuit
  PROVE  Accepting'
BY DEF Accepting

LEMMA FromDataHands ==
  ASSUME NEW o, NEW d, NEW n, NEW k, FromAdapterData(o, d, n, k)
  PROVE  UNCHANGED circuit \/ Hands(o, d, n)
BY DEF FromAdapterData, Failed, Hands

LEMMA ForwardNoCycle ==
  ASSUME NEW d, \A i \in DOMAIN d : d[i].to \in Nat /\ d[i].from \in 0 .. d[i].to - 1
  PROVE  NoCycle(d)
<1> SUFFICES ASSUME NEW S \in SUBSET Nat, Blocked(d, S), S # {} PROVE FALSE
  BY DEF NoCycle
<1>1. PICK m \in S : \A k \in S : m <= k
  BY LeastOf
<1>2. PICK i \in DOMAIN d : d[i].to = m /\ d[i].from \in S
  BY DEF Blocked
<1>3. d[i].from \in 0 .. m - 1 /\ m \in Nat
  BY <1>2
<1>4. m <= d[i].from
  BY <1>1, <1>2
<1> QED
  BY <1>3, <1>4

LEMMA BuilderSound ==
  ASSUME Builds, InNumbers, NEW n \in Nat, DOMAIN last = 0 .. n - 1,
         ops = <<>> => source.frontend \in {"qasm", "tket_json"}
  PROVE  Sound(ops, deps, n)
<1>1. /\ Len(ops) \in Nat /\ DOMAIN ops = 1 .. Len(ops) /\ IsList(ops) /\ IsList(deps)
  BY ListShape DEF Builds
<1>2. /\ \A i \in DOMAIN ops : EmittedOp(i)
      /\ \A i \in DOMAIN deps : EmittedDep(i)
      /\ hardware \subseteq Nat
  BY DEF InNumbers, Emission
<1>3. ASSUME NEW i \in DOMAIN ops
      PROVE  /\ ops[i].id = i - 1 /\ ops[i].active /\ ops[i].hook = NoHook
             /\ \A q \in ToSet(ops[i].qubits) : q >= n => q \in hardware
  <2>1. \A q \in ToSet(ops[i].qubits) : q \in 0 .. n - 1 \/ q \in hardware
    BY <1>2 DEF EmittedOp
  <2>2. \A q \in 0 .. n - 1 : ~(q >= n)
    OBVIOUS
  <2> QED
    BY <1>2, <2>1, <2>2 DEF EmittedOp
<1>4. \A i \in DOMAIN deps : deps[i].from \in 0 .. Len(ops) - 1 /\ deps[i].to \in 0 .. Len(ops) - 1
  <2> SUFFICES ASSUME NEW i \in DOMAIN deps
               PROVE  deps[i].from \in 0 .. Len(ops) - 1 /\ deps[i].to \in 0 .. Len(ops) - 1
    OBVIOUS
  <2>1. deps[i].to \in 0 .. Len(ops) - 1 /\ (deps[i].from \in 0 .. deps[i].to - 1 \/ deps[i].from = deps[i].to)
    BY <1>2 DEF EmittedDep
  <2> QED
    BY <1>1, <2>1
<1>5. Repeats(ops) \/ NoCycle(deps)
  <2> SUFFICES ASSUME ~Repeats(ops) PROVE NoCycle(deps)
    OBVIOUS
  <2>1. ASSUME NEW i \in DOMAIN deps
        PROVE  deps[i].to \in Nat /\ deps[i].from \in 0 .. deps[i].to - 1
    <3>1. deps[i].to \in 0 .. Len(ops) - 1 /\ deps[i].to + 1 \in DOMAIN ops
      BY <1>1, <1>2 DEF EmittedDep
    <3>2. IsInjective(ops[deps[i].to + 1].qubits)
      BY <3>1 DEF Repeats
    <3> QED
      BY <1>2, <3>1, <3>2 DEF EmittedDep
  <2> QED
    BY <2>1, ForwardNoCycle
<1> QED
  BY <1>1, <1>3, <1>4, <1>5 DEF Sound

LEMMA QasmAccepting ==
  ASSUME Accepting, Builds, InNumbers, QasmStep
  PROVE  Accepting'
<1>1. verdict = "open"
  BY DEF QasmStep, DeclareQubit, ProcessGateCall, ProcessMeasure, QasmError, WalkBlock,
         IgnoreStatement, FinishQasm, Walking
<1>2. CASE FinishQasm
  <2>1. PICK n \in Nat : DOMAIN last = 0 .. n - 1
    BY DEF InNumbers, Emission
  <2>2. QubitTotal = n
    BY <2>1, FS_Interval DEF QubitTotal
  <2>3. source.frontend = "qasm" /\ source' = source /\ hardware' = hardware
        /\ Hands(ops, deps, n)
    BY <1>2, <2>2 DEF FinishQasm, qasmVars, Hands
  <2>4. Sound(ops, deps, n)
    BY <2>1, <2>3, BuilderSound
  <2> QED
    BY <1>1, <2>3, <2>4, HandsAccepting
<1>3. CASE ~FinishQasm
  <2>1. UNCHANGED circuit
    BY <1>3 DEF QasmStep, DeclareQubit, ProcessGateCall, ProcessMeasure, QasmError, WalkBlock,
                IgnoreStatement, circuitVars, Failed
  <2> QED
    BY <1>1, <2>1, IdleAccepting
<1> QED
  BY <1>2, <1>3

LEMMA TketAccepting ==
  ASSUME Accepting, Builds, InNumbers, TketStep, UNCHANGED hardware
  PROVE  Accepting'
<1>1. verdict = "open" /\ source.frontend \in {"tket_json", "tket_py"}
  BY DEF TketStep, SkipCommand, ProcessCommand, TketError, FinishTket, AtCommand
<1>2. CASE FinishTket
  <2>1. source.qubits \in Nat /\ DOMAIN last = 0 .. source.qubits - 1
    BY <1>1 DEF InNumbers, Declared
  <2>2. CASE InJson
    <3>1. source' = source /\ Hands(ops, deps, source.qubits)
      BY <1>2, <2>2 DEF FinishTket, Hands
    <3>2. Sound(ops, deps, source.qubits)
      BY <2>1, <2>2, BuilderSound DEF InJson
    <3> QED
      BY <1>1, <3>1, <3>2, HandsAccepting
  <2>3. CASE ~InJson /\ ops = <<>>
    BY <1>1, <1>2, <2>3, IdleAccepting DEF FinishTket, Failed
  <2>4. CASE ~InJson /\ ops # <<>>
    <3>1. source' = source /\ FromAdapterData(ops, deps, source.qubits, source.depth)
      BY <1>2, <2>4 DEF FinishTket
    <3>2. Sound(ops, deps, source.qubits)
      BY <2>1, <2>4, BuilderSound
    <3> QED
      BY <1>1, <3>1, <3>2, FromDataHands, HandsAccepting, IdleAccepting
  <2> QED
    BY <2>2, <2>3, <2>4
<1>3. CASE ~FinishTket
  <2>1. UNCHANGED circuit
    BY <1>3 DEF TketStep, SkipCommand, ProcessCommand, TketError, circuitVars, Failed
  <2> QED
    BY <1>1, <2>1, IdleAccepting
<1> QED
  BY <1>2, <1>3

(* What the Qiskit adapter keeps: numbered operations on the circuit's     *)
(* qubits, in the order of the nodes.                                      *)
NodesOnQubits ==
  /\ source.qubits \in Nat
  /\ \A i \in DOMAIN source.nodes : ToSet(source.nodes[i].qubits) \subseteq 0 .. source.qubits - 1
KeptInOrder ==
  /\ NodesOnQubits
  /\ \A i \in DOMAIN kept :
       /\ kept[i].id = i - 1 /\ kept[i].active /\ kept[i].hook = NoHook
       /\ ToSet(kept[i].qubits) \subseteq 0 .. source.qubits - 1
  /\ \A i, j \in DOMAIN nodeIds : i < j => nodeIds[i] < nodeIds[j]
KeptInv == source.frontend = "qiskit" => KeptInOrder

LEMMA KeepInOrder ==
  ASSUME NodesWalked, KeptInOrder, KeepNode
  PROVE  KeptInOrder'
<1> DEFINE n == Len(kept)
           e == Emitted(n, ClassifyNode(NextNode), NextNode.qubits)
<1>1. /\ walked < Len(source.nodes)
      /\ kept' = Append(kept, e)
      /\ nodeIds' = [m \in DOMAIN nodeIds \cup {walked + 1} |->
                       IF m \in DOMAIN nodeIds THEN nodeIds[m] ELSE n]
      /\ source' = source
  BY DEF KeepNode, AtNode, circuitVars
<1>2. /\ n \in Nat /\ DOMAIN kept = 1 .. n /\ walked \in Nat /\ IsList(kept)
      /\ DOMAIN source.nodes = 1 .. Len(source.nodes) /\ Len(source.nodes) \in Nat
  BY ListShape, LenProperties DEF NodesWalked, HasNodes
<1>3. NextNode = source.nodes[walked + 1] /\ walked + 1 \in DOMAIN source.nodes
  BY <1>1, <1>2 DEF NextNode
<1>4. /\ e.id = n /\ e.active /\ e.hook = NoHook
      /\ ToSet(e.qubits) \subseteq 0 .. source.qubits - 1
  BY <1>3 DEF Emitted, KeptInOrder, NodesOnQubits
<1> HIDE DEF e
<1>5. DOMAIN kept' = 1 .. n + 1 /\ kept'[n + 1] = e /\ \A i \in 1 .. n : kept'[i] = kept[i]
  <2>1. PICK S : kept \in Seq(S)
    BY <1>2 DEF IsList
  <2>2. kept \in Seq(S \cup {e}) /\ e \in S \cup {e}
    BY <2>1
  <2>3. /\ kept' \in Seq(S \cup {e}) /\ Len(kept') = n + 1 /\ kept'[n + 1] = e
        /\ \A i \in 1 .. n : kept'[i] = kept[i]
    BY <1>1, <2>2, AppendProperties
  <2> QED
    BY <2>3, LenProperties
<1> HIDE DEF n
<1>6. \A i \in DOMAIN kept' :
        /\ kept'[i].id = i - 1 /\ kept'[i].active /\ kept'[i].hook = NoHook
        /\ ToSet(kept'[i].qubits) \subseteq 0 .. source.qubits - 1
  <2> SUFFICES ASSUME NEW i \in 1 .. n + 1
               PROVE  /\ kept'[i].id = i - 1 /\ kept'[i].active /\ kept'[i].hook = NoHook
                      /\ ToSet(kept'[i].qubits) \subseteq 0 .. source.qubits - 1
    BY <1>5
  <2>1. CASE i \in 1 .. n
    BY <1>2, <1>5, <2>1 DEF KeptInOrder
  <2>2. CASE i = n + 1
    BY <1>2, <1>4, <1>5, <2>2
  <2> QED
    BY <1>2, <2>1, <2>2
<1>7. DOMAIN nodeIds \subseteq 1 .. walked /\ \A i \in DOMAIN nodeIds : nodeIds[i] \in 0 .. n - 1
  BY DEF NodesWalked, n
<1>8. \A i, j \in DOMAIN nodeIds' : i < j => nodeIds'[i] < nodeIds'[j]
  <2> SUFFICES ASSUME NEW i \in DOMAIN nodeIds', NEW j \in DOMAIN nodeIds', i < j
               PROVE  nodeIds'[i] < nodeIds'[j]
    OBVIOUS
  <2>1. i \in DOMAIN nodeIds /\ nodeIds'[i] = nodeIds[i]
    BY <1>1, <1>2, <1>7
  <2>2. CASE j \in DOMAIN nodeIds
    BY <1>1, <2>1, <2>2 DEF KeptInOrder
  <2>3. CASE j \notin DOMAIN nodeIds
    BY <1>1, <1>2, <1>7, <2>1, <2>3
  <2> QED
    BY <2>2, <2>3
<1> QED
  BY <1>1, <1>6, <1>8 DEF KeptInOrder, NodesOnQubits

LEMMA KeptStep == QiskitInv /\ KeptInv /\ [Next]_vars => KeptInv'
<1> SUFFICES ASSUME QiskitInv, KeptInv, [Next]_vars, source'.frontend = "qiskit"
             PROVE  KeptInOrder'
  BY DEF KeptInv
<1>1. source.frontend = "qiskit" /\ NodesWalked /\ KeptInOrder /\ source' = source
  BY SourceKept DEF QiskitInv, KeptInv
<1>2. ASSUME UNCHANGED <<nodeIds, kept>> PROVE KeptInOrder'
  BY <1>1, <1>2 DEF KeptInOrder, NodesOnQubits
<1>3. CASE UNCHANGED vars \/ UNCHANGED frontVars
  BY <1>2, <1>3 DEF vars, frontVars, qiskitVars
<1>4. CASE QiskitStep
  <2>1. CASE KeepNode
    BY <1>1, <2>1, KeepInOrder
  <2>2. CASE ~KeepNode
    <3>1. UNCHANGED <<nodeIds, kept>>
      BY <1>4, <2>2 DEF QiskitStep, SkipNode, UnboundParameter, FinishQiskit, qiskitVars
    <3> QED
      BY <1>2, <3>1
  <2> QED
    BY <2>1, <2>2
<1> QED
  BY <1>1, <1>3, <1>4, OwnSteps DEF Next, FrontEndStep

(* The dependencies found are among the kept operations. *)
LEMMA DepsOfKept ==
  ASSUME NEW n \in Nat, \A i \in DOMAIN nodeIds : nodeIds[i] \in 0 .. n - 1,
         NEW D \in DepsFound, NEW e \in D
  PROVE  e.to \in 0 .. n - 1 /\ e.from \in 0 .. n - 1
<1>1. CASE source.stable
  <2>1. e \in NodeDeps
    BY <1>1 DEF DepsFound
  <2>2. PICK d \in DagEdges : /\ d[1] \in DOMAIN nodeIds /\ d[2] \in DOMAIN nodeIds
                              /\ e = [from |-> nodeIds[d[1]], to |-> nodeIds[d[2]]]
    BY <2>1 DEF NodeDeps
  <2> QED
    BY <2>2
<1>2. CASE ~source.stable
  <2>1. e.from \in FreedIds /\ e.to \in FreedIds
    BY <1>2 DEF DepsFound, MistakenDeps, Mistakes
  <2> QED
    BY <2>1 DEF FreedIds
<1> QED
  BY <1>1, <1>2

(* They make no cycle: those of Qiskit lead forwards, and mistaken ones    *)
(* have no two in a row.                                                   *)
LEMMA FoundNoCycle ==
  ASSUME KeptInOrder, NEW n \in Nat, \A i \in DOMAIN nodeIds : nodeIds[i] \in 0 .. n - 1,
         NEW D \in DepsFound, NEW list, \A i \in DOMAIN list : list[i] \in D
  PROVE  NoCycle(list)
<1>1. CASE source.stable
  <2>1. ASSUME NEW i \in DOMAIN list
        PROVE  list[i].to \in Nat /\ list[i].from \in 0 .. list[i].to - 1
    <3>1. list[i] \in NodeDeps
      BY <1>1 DEF DepsFound
    <3>2. PICK d \in DagEdges : /\ d[1] \in DOMAIN nodeIds /\ d[2] \in DOMAIN nodeIds
                                /\ list[i] = [from |-> nodeIds[d[1]], to |-> nodeIds[d[2]]]
      BY <3>1 DEF NodeDeps
    <3>3. d[1] < d[2]
      BY DEF DagEdges, EdgesOfWire
    <3>4. nodeIds[d[1]] < nodeIds[d[2]]
      BY <3>2, <3>3 DEF KeptInOrder
    <3> QED
      BY <3>2, <3>4
  <2> QED
    BY <2>1, ForwardNoCycle
<1>2. CASE ~source.stable
  <2> SUFFICES ASSUME NEW S \in SUBSET Nat, Blocked(list, S), NEW m \in S
               PROVE  FALSE
    BY DEF NoCycle
  <2>1. PICK i \in DOMAIN list : list[i].to = m /\ list[i].from \in S
    BY DEF Blocked
  <2>2. PICK j \in DOMAIN list : list[j].to = list[i].from
    BY <2>1 DEF Blocked
  <2>3. list[i] \in D /\ list[j] \in D
    OBVIOUS
  <2>4. \A d, e \in D : {d.from, d.to} \cap {e.from, e.to} # {} => d = e
    BY <1>2 DEF DepsFound, MistakenDeps
  <2>5. list[i] = list[j]
    BY <2>2, <2>3, <2>4
  <2>6. list[i].from # list[i].to
    BY <1>2, <2>3 DEF DepsFound, MistakenDeps, Mistakes
  <2> QED
    BY <2>2, <2>5, <2>6
<1> QED
  BY <1>1, <1>2

LEMMA QiskitAccepting ==
  ASSUME Accepting, QiskitInv, KeptInv, QiskitStep, UNCHANGED hardware
  PROVE  Accepting'
<1>1. verdict = "open" /\ source.frontend = "qiskit" /\ NodesWalked /\ KeptInOrder
  BY DEF QiskitStep, SkipNode, KeepNode, UnboundParameter, FinishQiskit, AtNode, QiskitInv, KeptInv
<1>2. CASE FinishQiskit /\ kept # <<>>
  <2>1. PICK D \in DepsFound :
          source' = source /\ FromAdapterData(kept, SetToSeq(D), source.qubits, source.depth)
    BY <1>2 DEF FinishQiskit
  <2> DEFINE list == SetToSeq(D)
  <2>2. /\ Len(kept) \in Nat /\ DOMAIN kept = 1 .. Len(kept)
        /\ \A i \in DOMAIN nodeIds : nodeIds[i] \in 0 .. Len(kept) - 1
    BY <1>1, ListShape DEF NodesWalked
  <2>3. list \in Seq(D)
    BY <1>1, <2>2, DepsFoundFinite, Listed DEF NodesWalked
  <2>4. \A i \in DOMAIN list : list[i] \in D
    BY <2>3, LenProperties, ElementOfSeq
  <2> HIDE DEF list
  <2>5. \A e \in D : e.to \in 0 .. Len(kept) - 1 /\ e.from \in 0 .. Len(kept) - 1
    BY <2>2, DepsOfKept
  <2>6. \A i \in DOMAIN list : list[i].to \in 0 .. Len(kept) - 1 /\ list[i].from \in 0 .. Len(kept) - 1
    BY <2>4, <2>5
  <2>7. NoCycle(list)
    BY <1>1, <2>2, <2>4, FoundNoCycle
  <2>8. \A i \in DOMAIN kept :
          /\ kept[i].id = i - 1 /\ kept[i].active /\ kept[i].hook = NoHook
          /\ \A q \in ToSet(kept[i].qubits) : q >= source.qubits => q \in hardware
    <3>1. source.qubits \in Nat /\ \A q \in 0 .. source.qubits - 1 : ~(q >= source.qubits)
      BY <1>1 DEF KeptInOrder, NodesOnQubits
    <3> QED
      BY <1>1, <3>1 DEF KeptInOrder
  <2>9. Sound(kept, list, source.qubits)
    BY <1>1, <1>2, <2>3, <2>6, <2>7, <2>8 DEF Sound, IsList, NodesWalked
  <2> QED
    BY <1>1, <2>1, <2>9, FromDataHands, HandsAccepting, IdleAccepting DEF list
<1>3. CASE ~(FinishQiskit /\ kept # <<>>)
  <2>1. UNCHANGED circuit
    BY <1>3 DEF QiskitStep, SkipNode, KeepNode, UnboundParameter, FinishQiskit, circuitVars, Failed
  <2> QED
    BY <1>1, <2>1, IdleAccepting
<1> QED
  BY <1>2, <1>3

-----------------------------------------------------------------------------
(* What the Qualtran adapter keeps.  A part that has been walked covers a  *)
(* run of operations; the runs of two parts of a call do not meet, and a   *)
(* dependency that ends in a run begins in it.                             *)
Inside(f, c, k) == f.first[c] # NoFirst /\ f.first[c] <= k /\ k <= f.end[c]

CallOf(Parts, f, q) ==
  /\ f = [parts |-> f.parts, connections |-> f.connections, left |-> f.left,
          entered |-> f.entered, first |-> f.first, end |-> f.end,
          start |-> f.start, qubits |-> f.qubits]
  /\ f.parts \in Seq(Parts)
  /\ f.connections \subseteq (DOMAIN f.parts) \X (DOMAIN f.parts)
  /\ \A P \in SUBSET DOMAIN f.parts : P # {} => Unordered(f.connections, P)
  /\ f.left \subseteq DOMAIN f.parts
  /\ DOMAIN f.first = DOMAIN f.parts /\ DOMAIN f.end = DOMAIN f.parts
  /\ f.qubits \subseteq 0 .. q - 1

Spans(f, n) ==
  /\ f.start \in 0 .. n
  /\ \A c \in DOMAIN f.parts :
       /\ f.first[c] = NoFirst <=> f.end[c] = NoFirst
       /\ f.first[c] # NoFirst =>
            /\ f.first[c] \in Nat /\ f.end[c] \in Nat
            /\ f.start <= f.first[c] /\ f.first[c] <= f.end[c] /\ f.end[c] < n
  /\ \A c, p \in DOMAIN f.parts :
       c # p /\ f.first[c] # NoFirst /\ f.first[p] # NoFirst
         => f.end[c] < f.first[p] \/ f.end[p] < f.first[c]

Closed(f, l) ==
  \A i \in DOMAIN l :
    /\ l[i].to >= f.start => l[i].from >= f.start
    /\ \A c \in DOMAIN f.parts : Inside(f, c, l[i].to) => Inside(f, c, l[i].from)

Numbered(l, n) == \A i \in DOMAIN l : l[i].from \in 0 .. n - 1 /\ l[i].to \in 0 .. n - 1

(* A call that has done nothing from operation a on, dependencies that do  *)
(* not lead there from before, and a list of them that has grown there.    *)
Before(f, a) == \A c \in DOMAIN f.parts : f.first[c] # NoFirst => f.end[c] < a
Parted(l, a) == \A i \in DOMAIN l : l[i].to >= a => l[i].from >= a
Grown(l, new, a) ==
  \A i \in DOMAIN new : \/ \E j \in DOMAIN l : new[i] = l[j]
                        \/ new[i].from >= a /\ new[i].to >= a

(* Only the run of part p differs between two states of a call. *)
Recorded(f, g, p, a, b) ==
  /\ g.parts = f.parts /\ g.start = f.start
  /\ \A c \in DOMAIN f.parts : /\ g.first[c] = IF c = p THEN a ELSE f.first[c]
                               /\ g.end[c] = IF c = p THEN b ELSE f.end[c]

(* The calls in progress: what an outer call has done lies before the     *)
(* start of an inner one.                                                  *)
Calls(Parts, fs, l, n, q) ==
  /\ IsList(fs)
  /\ \A d \in DOMAIN fs : CallOf(Parts, fs[d], q) /\ Spans(fs[d], n) /\ Closed(fs[d], l)
  /\ \A d, e \in DOMAIN fs :
       d < e =>
         /\ fs[d].start <= fs[e].start
         /\ \A c \in DOMAIN fs[d].parts :
              fs[d].first[c] # NoFirst => fs[d].end[c] < fs[e].start

LEMMA CallGrows ==
  ASSUME NEW Parts, NEW f, NEW n \in Nat, NEW m \in Nat, n <= m,
         NEW q \in Nat, NEW r \in Nat, q <= r, CallOf(Parts, f, q), Spans(f, n)
  PROVE  CallOf(Parts, f, r) /\ Spans(f, m)
<1>1. f.qubits \subseteq 0 .. r - 1
  BY DEF CallOf
<1>2. CallOf(Parts, f, r)
  BY <1>1 DEF CallOf
<1>3. Spans(f, m)
  BY DEF Spans
<1> QED
  BY <1>2, <1>3

(* What grows behind a call does not disturb it. *)
LEMMA ClosedGrows ==
  ASSUME NEW f, NEW l, NEW new, NEW n \in Nat, NEW a \in Nat, Closed(f, l), Spans(f, n),
         Numbered(new, n), f.start <= a, Before(f, a), Grown(l, new, a)
  PROVE  Closed(f, new)
<1> SUFFICES ASSUME NEW i \in DOMAIN new
             PROVE  /\ new[i].to >= f.start => new[i].from >= f.start
                    /\ \A c \in DOMAIN f.parts : Inside(f, c, new[i].to) => Inside(f, c, new[i].from)
  BY DEF Closed
<1>0. (\E j \in DOMAIN l : new[i] = l[j]) \/ (new[i].from >= a /\ new[i].to >= a)
  BY DEF Grown
<1>1. CASE \E j \in DOMAIN l : new[i] = l[j]
  BY <1>1 DEF Closed
<1>2. CASE new[i].from >= a /\ new[i].to >= a
  <2>1. new[i].from \in Nat /\ new[i].to \in Nat /\ f.start \in Nat
    BY DEF Numbered, Spans
  <2>2. ASSUME NEW c \in DOMAIN f.parts, Inside(f, c, new[i].to)
        PROVE  FALSE
    BY <1>2, <2>1, <2>2 DEF Inside, Spans, Before
  <2> QED
    BY <1>2, <2>1, <2>2
<1> QED
  BY <1>0, <1>1, <1>2

(* A part that covers the operations from a on is done. *)
LEMMA PartDone ==
  ASSUME NEW f, NEW g, NEW l, NEW n \in Nat, NEW m \in Nat, n <= m,
         NEW p \in DOMAIN f.parts, NEW a \in Nat, NEW b \in Nat,
         Spans(f, n), Closed(f, l), Numbered(l, m), f.start <= a, a <= b, b = m - 1,
         Before(f, a), Parted(l, a), Recorded(f, g, p, a, b)
  PROVE  Spans(g, m) /\ Closed(g, l)
<1>1. /\ g.first[p] = a /\ g.end[p] = b /\ a # NoFirst /\ b # NoFirst
      /\ g.parts = f.parts /\ g.start = f.start
      /\ \A c \in DOMAIN f.parts : c # p => g.first[c] = f.first[c] /\ g.end[c] = f.end[c]
  BY NoFirstAssumption DEF Recorded
<1>2. f.start \in 0 .. n
  BY DEF Spans
<1>3. Spans(g, m)
  <2>1. g.start \in 0 .. m
    BY <1>1, <1>2
  <2>2. ASSUME NEW c \in DOMAIN g.parts
        PROVE  /\ g.first[c] = NoFirst <=> g.end[c] = NoFirst
               /\ g.first[c] # NoFirst =>
                    /\ g.first[c] \in Nat /\ g.end[c] \in Nat
                    /\ g.start <= g.first[c] /\ g.first[c] <= g.end[c] /\ g.end[c] < m
    BY <1>1 DEF Spans
  <2>3. ASSUME NEW c \in DOMAIN g.parts, NEW d \in DOMAIN g.parts,
               c # d, g.first[c] # NoFirst, g.first[d] # NoFirst
        PROVE  g.end[c] < g.first[d] \/ g.end[d] < g.first[c]
    BY <1>1, <2>3 DEF Spans, Before
  <2> QED
    BY <2>1, <2>2, <2>3 DEF Spans
<1>4. Closed(g, l)
  <2> SUFFICES ASSUME NEW i \in DOMAIN l
               PROVE  /\ l[i].to >= g.start => l[i].from >= g.start
                      /\ \A c \in DOMAIN g.parts : Inside(g, c, l[i].to) => Inside(g, c, l[i].from)
    BY DEF Closed
  <2>1. l[i].from \in 0 .. m - 1 /\ l[i].to \in 0 .. m - 1
    BY DEF Numbered
  <2>2. ASSUME NEW c \in DOMAIN g.parts, Inside(g, c, l[i].to)
        PROVE  Inside(g, c, l[i].from)
    BY <1>1, <2>1, <2>2 DEF Inside, Closed, Parted
  <2>3. l[i].to >= g.start => l[i].from >= g.start
    BY <1>1 DEF Closed
  <2> QED
    BY <2>2, <2>3
<1> QED
  BY <1>3, <1>4

(* A part without operations is done. *)
LEMMA PartEmpty ==
  ASSUME NEW f, NEW g, NEW l, NEW n, NEW p, Spans(f, n), Closed(f, l),
         Recorded(f, g, p, NoFirst, NoFirst)
  PROVE  Spans(g, n) /\ Closed(g, l)
<1>2. \A c \in DOMAIN f.parts : g.first[c] # NoFirst =>
        c # p /\ g.first[c] = f.first[c] /\ g.end[c] = f.end[c]
  BY DEF Recorded
<1>3. Spans(g, n)
  BY <1>2 DEF Spans, Recorded
<1>4. Closed(g, l)
  BY <1>2 DEF Closed, Inside, Recorded
<1> QED
  BY <1>3, <1>4

(* The call on top is replaced, what is below stays as it was. *)
LEMMA TopReplaced ==
  ASSUME NEW Parts, NEW fs, NEW l, NEW new, NEW n \in Nat, NEW m \in Nat, n <= m,
         NEW q \in Nat, NEW r \in Nat, q <= r,
         Calls(Parts, fs, l, n, q), fs # <<>>, NEW g,
         CallOf(Parts, g, r), Spans(g, m), Closed(g, new), g.start = fs[Len(fs)].start,
         Numbered(new, m), Grown(l, new, g.start)
  PROVE  Calls(Parts, [fs EXCEPT ![Len(fs)] = g], new, m, r)
<1> DEFINE t == Len(fs)
           gs == [fs EXCEPT ![t] = g]
<1>1. /\ t \in Nat /\ DOMAIN fs = 1 .. t /\ t # 0 /\ IsList(fs)
  <2>1. IsList(fs)
    BY DEF Calls
  <2> QED
    BY <2>1, ListShape, EmptySeq DEF IsList
<1> HIDE DEF t
<1>2. /\ DOMAIN gs = 1 .. t /\ gs[t] = g
      /\ \A d \in 1 .. t : d # t => gs[d] = fs[d]
  <2>1. t \in 1 .. t
    BY <1>1
  <2>2. gs = [d \in 1 .. t |-> IF d = t THEN g ELSE fs[d]]
    BY <1>1
  <2> QED
    BY <2>1, <2>2
<1>3. IsList(gs)
  <2>1. PICK S : fs \in Seq(S)
    BY <1>1 DEF IsList
  <2>2. gs \in Seq(S \cup {g})
    <3>1. fs \in [1 .. t -> S \cup {g}]
      BY <1>1, <2>1
    <3>2. gs \in [1 .. t -> S \cup {g}]
      BY <1>1, <3>1
    <3> HIDE DEF gs
    <3> QED
      BY <1>1, <3>2
  <2> QED
    BY <2>2 DEF IsList
<1> HIDE DEF gs
<1>4. g.start = fs[t].start /\ g.start \in Nat
  BY DEF Spans, t
<1>5. ASSUME NEW d \in DOMAIN gs
      PROVE  CallOf(Parts, gs[d], r) /\ Spans(gs[d], m) /\ Closed(gs[d], new)
  <2>1. CASE d = t
    BY <1>2, <2>1
  <2>2. CASE d # t
    <3>1. /\ gs[d] = fs[d] /\ d \in DOMAIN fs /\ t \in DOMAIN fs /\ d < t
      BY <1>1, <1>2, <2>2
    <3>2. CallOf(Parts, fs[d], q) /\ Spans(fs[d], n) /\ Closed(fs[d], l)
      BY <3>1 DEF Calls
    <3>3. fs[d].start <= g.start /\ Before(fs[d], g.start)
      BY <1>4, <3>1 DEF Calls, Before
    <3>4. CallOf(Parts, fs[d], r) /\ Spans(fs[d], m)
      BY <3>2, CallGrows
    <3>5. Closed(fs[d], new)
      BY <1>4, <3>2, <3>3, <3>4, ClosedGrows
    <3> QED
      BY <3>1, <3>4, <3>5
  <2> QED
    BY <2>1, <2>2
<1>6. ASSUME NEW d \in DOMAIN gs, NEW e \in DOMAIN gs, d < e
      PROVE  /\ gs[d].start <= gs[e].start
             /\ \A c \in DOMAIN gs[d].parts :
                  gs[d].first[c] # NoFirst => gs[d].end[c] < gs[e].start
  <2>1. gs[d] = fs[d] /\ gs[e].start = fs[e].start /\ d \in DOMAIN fs /\ e \in DOMAIN fs
    BY <1>1, <1>2, <1>4, <1>6
  <2> QED
    BY <1>6, <2>1 DEF Calls
<1>7. Calls(Parts, gs, new, m, r)
  BY <1>3, <1>5, <1>6 DEF Calls
<1> QED
  BY <1>7 DEF gs, t

LEMMA CallPopped ==
  ASSUME NEW Parts, NEW fs, NEW l, NEW n, NEW q, Calls(Parts, fs, l, n, q), fs # <<>>
  PROVE  /\ Calls(Parts, Front(fs), l, n, q)
         /\ Len(Front(fs)) = Len(fs) - 1
         /\ \A d \in 1 .. Len(fs) - 1 : Front(fs)[d] = fs[d]
<1> DEFINE t == Len(fs)
<1>1. PICK S : fs \in Seq(S)
  BY DEF Calls, IsList
<1>2. t \in Nat /\ DOMAIN fs = 1 .. t /\ t # 0
  BY <1>1, LenProperties, EmptySeq
<1>3. \A i \in 1 .. t - 1 : fs[i] \in S
  BY <1>1, <1>2, ElementOfSeq
<1>4. Front(fs) = SubSeq(fs, 1, t - 1)
  BY DEF Front
<1> HIDE DEF t
<1>5. /\ Front(fs) \in Seq(S) /\ Len(Front(fs)) = t - 1
      /\ \A i \in 1 .. t - 1 : Front(fs)[i] = fs[i]
  <2>1. 1 \in Int /\ t - 1 \in Int
    BY <1>2
  <2>2. /\ SubSeq(fs, 1, t - 1) \in Seq(S)
        /\ Len(SubSeq(fs, 1, t - 1)) = IF 1 <= t - 1 THEN (t - 1) - 1 + 1 ELSE 0
        /\ \A i \in 1 .. (t - 1) - 1 + 1 : SubSeq(fs, 1, t - 1)[i] = fs[1 + i - 1]
    BY <1>3, <2>1, SubSeqProperties
  <2>3. \A i \in 1 .. t - 1 : 1 + i - 1 = i /\ i \in 1 .. (t - 1) - 1 + 1
    BY <1>2
  <2>4. Len(SubSeq(fs, 1, t - 1)) = t - 1
    BY <1>2, <2>2
  <2> QED
    BY <1>4, <2>2, <2>3, <2>4
<1>6. DOMAIN Front(fs) = 1 .. t - 1
  BY <1>5, LenProperties
<1>7. \A d \in DOMAIN Front(fs) : d \in DOMAIN fs /\ Front(fs)[d] = fs[d]
  BY <1>2, <1>5, <1>6
<1>8. Calls(Parts, Front(fs), l, n, q)
  BY <1>5, <1>7 DEF Calls, IsList
<1> QED
  BY <1>5, <1>8 DEF t

LEMMA CallPushed ==
  ASSUME NEW Parts, NEW fs, NEW l, NEW n \in Nat, NEW q, Calls(Parts, fs, l, n, q),
         NEW g, CallOf(Parts, g, q), Spans(g, n), Closed(g, l), g.start = n
  PROVE  Calls(Parts, Append(fs, g), l, n, q)
<1> DEFINE t == Len(fs)
           gs == Append(fs, g)
<1>1. PICK S : fs \in Seq(S)
  BY DEF Calls, IsList
<1>2. t \in Nat /\ DOMAIN fs = 1 .. t
  BY <1>1, LenProperties
<1>3. /\ gs \in Seq(S \cup {g}) /\ Len(gs) = t + 1 /\ gs[t + 1] = g
      /\ \A d \in 1 .. t : gs[d] = fs[d]
  <2>1. fs \in Seq(S \cup {g}) /\ g \in S \cup {g}
    BY <1>1
  <2> QED
    BY <2>1, AppendProperties
<1>4. DOMAIN gs = 1 .. t + 1
  BY <1>3, LenProperties
<1> HIDE DEF gs, t
<1>5. ASSUME NEW d \in DOMAIN gs
      PROVE  CallOf(Parts, gs[d], q) /\ Spans(gs[d], n) /\ Closed(gs[d], l)
  <2>1. CASE d = t + 1
    BY <1>3, <2>1
  <2>2. CASE d # t + 1
    <3>1. d \in DOMAIN fs /\ gs[d] = fs[d]
      BY <1>2, <1>3, <1>4, <2>2
    <3> QED
      BY <3>1 DEF Calls
  <2> QED
    BY <2>1, <2>2
<1>6. ASSUME NEW d \in DOMAIN gs, NEW e \in DOMAIN gs, d < e
      PROVE  /\ gs[d].start <= gs[e].start
             /\ \A c \in DOMAIN gs[d].parts :
                  gs[d].first[c] # NoFirst => gs[d].end[c] < gs[e].start
  <2>1. d \in DOMAIN fs /\ gs[d] = fs[d]
    BY <1>2, <1>3, <1>4, <1>6
  <2>2. CASE e = t + 1
    <3>1. gs[e].start = n
      BY <1>3, <2>2
    <3>2. Spans(gs[d], n)
      BY <1>5
    <3> QED
      BY <3>1, <3>2 DEF Spans
  <2>3. CASE e # t + 1
    <3>1. e \in DOMAIN fs /\ gs[e] = fs[e]
      BY <1>2, <1>3, <1>4, <2>3
    <3> QED
      BY <1>6, <2>1, <3>1 DEF Calls
  <2> QED
    BY <2>2, <2>3
<1>7. Calls(Parts, gs, l, n, q)
  BY <1>3, <1>5, <1>6 DEF Calls, IsList
<1> QED
  BY <1>7 DEF gs

(* The lists that two lists make. *)
LEMMA Joined ==
  ASSUME NEW s, NEW new, IsList(s), IsList(new)
  PROVE  /\ IsList(s \o new) /\ Len(s \o new) = Len(s) + Len(new)
         /\ \A i \in DOMAIN (s \o new) :
              \/ i \in DOMAIN s /\ (s \o new)[i] = s[i]
              \/ i - Len(s) \in DOMAIN new /\ (s \o new)[i] = new[i - Len(s)]
<1>1. PICK S : s \in Seq(S)
  BY DEF IsList
<1>2. PICK T : new \in Seq(T)
  BY DEF IsList
<1>3. s \in Seq(S \cup T) /\ new \in Seq(S \cup T)
  BY <1>1, <1>2
<1>4. /\ s \o new \in Seq(S \cup T) /\ Len(s \o new) = Len(s) + Len(new)
      /\ \A i \in 1 .. Len(s) + Len(new) :
           (s \o new)[i] = IF i <= Len(s) THEN s[i] ELSE new[i - Len(s)]
  BY <1>3, ConcatProperties
<1>5. /\ DOMAIN (s \o new) = 1 .. Len(s) + Len(new) /\ DOMAIN s = 1 .. Len(s)
      /\ DOMAIN new = 1 .. Len(new) /\ Len(s) \in Nat /\ Len(new) \in Nat
  BY <1>3, <1>4, LenProperties
<1>6. ASSUME NEW i \in 1 .. Len(s) + Len(new)
      PROVE  \/ i \in DOMAIN s /\ (s \o new)[i] = s[i]
             \/ i - Len(s) \in DOMAIN new /\ (s \o new)[i] = new[i - Len(s)]
  BY <1>4, <1>5
<1> QED
  BY <1>4, <1>5, <1>6 DEF IsList

(* No cycle comes with dependencies that point forward behind the others. *)
LEMMA ForwardKeepsNoCycle ==
  ASSUME NEW l, NEW new, NEW n \in Nat, Numbered(l, n), NoCycle(l),
         \A i \in DOMAIN new :
           \/ \E j \in DOMAIN l : new[i] = l[j]
           \/ new[i].from \in Nat /\ new[i].to \in Nat /\ n <= new[i].from /\ new[i].from < new[i].to
  PROVE  NoCycle(new)
<1> SUFFICES ASSUME NEW S \in SUBSET Nat, Blocked(new, S)
             PROVE  S = {}
  BY DEF NoCycle
<1> DEFINE T == {m \in S : m >= n}
<1>1. ASSUME T # {}
      PROVE  FALSE
  <2>1. PICK m \in T : \A k \in T : m <= k
    BY <1>1, LeastOf
  <2>2. PICK i \in DOMAIN new : new[i].to = m /\ new[i].from \in S
    BY <2>1 DEF Blocked
  <2>3. ~ \E j \in DOMAIN l : new[i] = l[j]
    BY <2>1, <2>2 DEF Numbered
  <2>4. new[i].from \in T /\ new[i].from < m
    BY <2>2, <2>3
  <2>5. m \in Nat /\ new[i].from \in Nat /\ m <= new[i].from
    BY <2>1, <2>4
  <2> QED
    BY <2>4, <2>5
<1>2. Blocked(l, S)
  <2> SUFFICES ASSUME NEW m \in S
               PROVE  \E j \in DOMAIN l : l[j].to = m /\ l[j].from \in S
    BY DEF Blocked
  <2>1. PICK i \in DOMAIN new : new[i].to = m /\ new[i].from \in S
    BY DEF Blocked
  <2>2. m < n
    BY <1>1
  <2> QED
    BY <2>1, <2>2
<1> QED
  BY <1>2 DEF NoCycle

(* A dependency that a connection between the parts of a call makes.       *)
Connects(f, d) ==
  \E c \in f.connections : /\ f.end[c[1]] # NoFirst /\ f.first[c[2]] # NoFirst
                           /\ d.from = f.end[c[1]] /\ d.to = f.first[c[2]]
ConnectionList(f) == SetToSeq({d \in ConnectionDeps(f) : d.from # d.to})

(* Nor do the connections between the parts of a call close one: of the    *)
(* parts that hold operations of a cycle, one has no connection from       *)
(* another.                                                                *)
LEMMA ConnectedNoCycle ==
  ASSUME NEW Parts, NEW f, NEW l, NEW new, NEW n \in Nat, NEW q,
         CallOf(Parts, f, q), Spans(f, n), Closed(f, l), NoCycle(l),
         \A i \in DOMAIN new : (\E j \in DOMAIN l : new[i] = l[j]) \/ Connects(f, new[i])
  PROVE  NoCycle(new)
<1> SUFFICES ASSUME NEW S \in SUBSET Nat, Blocked(new, S), S # {}
             PROVE  FALSE
  BY DEF NoCycle
<1> DEFINE P == {p \in DOMAIN f.parts : \E m \in S : Inside(f, p, m)}
<1>1. ASSUME NEW p \in DOMAIN f.parts, f.first[p] # NoFirst \/ f.end[p] # NoFirst
      PROVE  /\ f.first[p] # NoFirst /\ f.first[p] \in Nat /\ f.end[p] \in Nat
             /\ Inside(f, p, f.first[p]) /\ Inside(f, p, f.end[p])
  BY <1>1 DEF Spans, Inside
<1>2. ASSUME NEW c \in f.connections
      PROVE  c = <<c[1], c[2]>> /\ c[1] \in DOMAIN f.parts /\ c[2] \in DOMAIN f.parts
  BY DEF CallOf
<1>3. ASSUME P = {}
      PROVE  FALSE
  <2>1. Blocked(l, S)
    <3> SUFFICES ASSUME NEW m \in S
                 PROVE  \E j \in DOMAIN l : l[j].to = m /\ l[j].from \in S
      BY DEF Blocked
    <3>1. PICK i \in DOMAIN new : new[i].to = m /\ new[i].from \in S
      BY DEF Blocked
    <3>2. CASE \E j \in DOMAIN l : new[i] = l[j]
      BY <3>1, <3>2
    <3>3. CASE Connects(f, new[i])
      <4>1. PICK c \in f.connections : f.first[c[2]] # NoFirst /\ m = f.first[c[2]]
        BY <3>1, <3>3 DEF Connects
      <4>2. Inside(f, c[2], m) /\ c[2] \in DOMAIN f.parts
        BY <1>1, <1>2, <4>1
      <4> QED
        BY <1>3, <4>2
    <3> QED
      BY <3>2, <3>3
  <2> QED
    BY <2>1 DEF NoCycle
<1>4. ASSUME P # {}
      PROVE  FALSE
  <2>1. PICK c \in P : \A p \in P : <<p, c>> \notin f.connections
    BY <1>4 DEF CallOf, Unordered
  <2> DEFINE T == {m \in S : Inside(f, c, m)}
  <2>2. Blocked(l, T)
    <3> SUFFICES ASSUME NEW m \in T
                 PROVE  \E j \in DOMAIN l : l[j].to = m /\ l[j].from \in T
      BY DEF Blocked
    <3>1. PICK i \in DOMAIN new : new[i].to = m /\ new[i].from \in S
      BY DEF Blocked
    <3>2. CASE \E j \in DOMAIN l : new[i] = l[j]
      <4>1. PICK j \in DOMAIN l : new[i] = l[j]
        BY <3>2
      <4>2. Inside(f, c, l[j].from)
        BY <3>1, <4>1 DEF Closed
      <4> QED
        BY <3>1, <4>1, <4>2
    <3>3. CASE Connects(f, new[i])
      <4>1. PICK d \in f.connections : /\ f.end[d[1]] # NoFirst /\ f.first[d[2]] # NoFirst
                                       /\ new[i].from = f.end[d[1]] /\ m = f.first[d[2]]
        BY <3>1, <3>3 DEF Connects
      <4>2. /\ d = <<d[1], d[2]>> /\ d[1] \in DOMAIN f.parts /\ d[2] \in DOMAIN f.parts
        BY <1>2
      <4>3. Inside(f, d[2], m) /\ Inside(f, d[1], new[i].from)
        BY <1>1, <4>1, <4>2
      <4>4. d[2] = c
        <5>1. Inside(f, c, m) /\ c \in DOMAIN f.parts
          OBVIOUS
        <5> QED
          BY <4>2, <4>3, <5>1 DEF Inside, Spans
      <4>5. d[1] \in P
        BY <3>1, <4>2, <4>3
      <4> QED
        BY <2>1, <4>2, <4>4, <4>5
    <3> QED
      BY <3>1, <3>2, <3>3
  <2>3. T # {} /\ T \in SUBSET Nat
    OBVIOUS
  <2> QED
    BY <2>2, <2>3 DEF NoCycle
<1> QED
  BY <1>3, <1>4

(* An operation as the adapter emits it, on one of q qubits. *)
Numbers(o, k, q) ==
  /\ o.id = k /\ o.active /\ o.hook = NoHook
  /\ ToSet(o.qubits) \subseteq 0 .. q - 1
QubitCount(ids) == IF ids = 0 THEN 1 ELSE ids

Extracted(Parts) ==
  /\ IsList(emitted) /\ IsList(links)
  /\ qubitIds \in Nat /\ freed \subseteq 0 .. qubitIds - 1
  /\ \A i \in DOMAIN emitted : Numbers(emitted[i], i - 1, QubitCount(qubitIds))
  /\ Numbered(links, NextId)
  /\ NoCycle(links)
  /\ Calls(Parts, frames, links, NextId, qubitIds)

LEMMA NumbersJoined ==
  ASSUME NEW s, NEW new, IsList(s), IsList(new), NEW q \in Nat, NEW r \in Nat, q <= r,
         \A i \in DOMAIN s : Numbers(s[i], i - 1, q),
         \A i \in DOMAIN new : Numbers(new[i], Len(s) + i - 1, r)
  PROVE  \A i \in DOMAIN (s \o new) : Numbers((s \o new)[i], i - 1, r)
<1> SUFFICES ASSUME NEW i \in DOMAIN (s \o new)
             PROVE  Numbers((s \o new)[i], i - 1, r)
  OBVIOUS
<1> DEFINE e == (s \o new)[i]
<1>1. \/ i \in DOMAIN s /\ e = s[i]
      \/ i - Len(s) \in DOMAIN new /\ e = new[i - Len(s)]
  BY Joined
<1> HIDE DEF e
<1>2. CASE i \in DOMAIN s /\ e = s[i]
  <2>1. Numbers(s[i], i - 1, q)
    BY <1>2
  <2> QED
    BY <1>2, <2>1 DEF Numbers, e
<1>3. CASE i - Len(s) \in DOMAIN new /\ e = new[i - Len(s)]
  <2>1. Len(s) \in Nat /\ i - Len(s) \in Nat
    <3>1. DOMAIN new = 1 .. Len(new) /\ Len(new) \in Nat /\ Len(s) \in Nat
      BY ListShape
    <3> QED
      BY <1>3, <3>1
  <2>2. i \in Int
    <3>1. IsList(s \o new)
      BY Joined
    <3>2. DOMAIN (s \o new) = 1 .. Len(s \o new) /\ Len(s \o new) \in Nat
      BY <3>1, ListShape
    <3> QED
      BY <3>2
  <2>3. Len(s) + (i - Len(s)) - 1 = i - 1
    BY <2>1, <2>2
  <2>4. Numbers(new[i - Len(s)], Len(s) + (i - Len(s)) - 1, r)
    BY <1>3
  <2> QED
    BY <1>3, <2>3, <2>4 DEF e
<1> QED
  BY <1>1, <1>2, <1>3

LEMMA NumberedGrows ==
  ASSUME NEW l, NEW n \in Nat, NEW m \in Nat, n <= m, Numbered(l, n)
  PROVE  Numbered(l, m)
BY DEF Numbered

LEMMA TopCall ==
  ASSUME NEW Parts, Extracted(Parts), frames # <<>>
  PROVE  /\ CallOf(Parts, Top, qubitIds) /\ Spans(Top, NextId) /\ Closed(Top, links)
         /\ Len(frames) \in DOMAIN frames /\ NextId \in Nat /\ qubitIds \in Nat
<1>1. IsList(frames) /\ IsList(emitted) /\ qubitIds \in Nat
  BY DEF Extracted, Calls
<1>2. DOMAIN frames = 1 .. Len(frames) /\ Len(frames) \in Nat /\ Len(frames) # 0
  BY <1>1, ListShape, EmptySeq DEF IsList
<1>3. Len(frames) \in DOMAIN frames
  BY <1>2
<1>4. NextId \in Nat
  BY <1>1, ListShape DEF NextId
<1> QED
  BY <1>1, <1>3, <1>4 DEF Extracted, Calls, Top

(* A call that has just begun. *)
LEMMA CallBegins ==
  ASSUME NEW Statements, NEW Parts, InRange(Statements, Parts), NEW b \in Parts,
         IsList(emitted), Numbered(links, NextId), NEW q
  PROVE  /\ CallOf(Parts, Frame(b), q) /\ Spans(Frame(b), NextId) /\ Closed(Frame(b), links)
         /\ Frame(b).start = NextId
<1> DEFINE found == PartsOf(b)
           f == Frame(b)
<1>1. NextId \in Nat
  BY ListShape DEF NextId
<1>2. /\ found.parts \in Seq(Parts)
      /\ found.connections \subseteq (DOMAIN found.parts) \X (DOMAIN found.parts)
      /\ \A P \in SUBSET DOMAIN found.parts : P # {} => Unordered(found.connections, P)
  <2>1. CASE b.type = "parts" /\ b.decomposes
    <3>1. found = [parts |-> b.parts, connections |-> b.connections]
      BY <2>1 DEF PartsOf
    <3>2. found.parts = b.parts /\ found.connections = b.connections
      BY <3>1
    <3> HIDE DEF found
    <3> QED
      BY <3>2 DEF InRange
  <2>2. CASE ~(b.type = "parts" /\ b.decomposes)
    <3>1. found = [parts |-> <<b>>, connections |-> {}]
      BY <2>2 DEF PartsOf
    <3>2. found.parts = <<b>> /\ found.connections = {}
      BY <3>1
    <3>3. <<b>> \in Seq(Parts)
      OBVIOUS
    <3> HIDE DEF found
    <3> QED
      BY <3>2, <3>3 DEF Unordered
  <2> QED
    BY <2>1, <2>2
<1>3. f = [parts |-> found.parts, connections |-> found.connections,
           left |-> DOMAIN found.parts, entered |-> NoFirst,
           first |-> [i \in DOMAIN found.parts |-> NoFirst],
           end |-> [i \in DOMAIN found.parts |-> NoFirst],
           start |-> NextId, qubits |-> {}]
  BY DEF Frame
<1> HIDE DEF found, f
<1>4. /\ f.parts = found.parts /\ f.connections = found.connections
      /\ f.left = DOMAIN found.parts /\ f.entered = NoFirst /\ f.start = NextId /\ f.qubits = {}
      /\ f.first = [i \in DOMAIN found.parts |-> NoFirst]
      /\ f.end = [i \in DOMAIN found.parts |-> NoFirst]
  BY <1>3
<1>5. CallOf(Parts, f, q)
  BY <1>2, <1>3, <1>4 DEF CallOf
<1>6. \A c \in DOMAIN f.parts : f.first[c] = NoFirst /\ f.end[c] = NoFirst
  BY <1>4
<1>7. Spans(f, NextId)
  BY <1>1, <1>4, <1>6 DEF Spans
<1>8. Closed(f, links)
  BY <1>1, <1>4, <1>6 DEF Closed, Inside, Numbered
<1> QED
  BY <1>4, <1>5, <1>7, <1>8 DEF f

(* The steps of a call. *)
LEMMA SkipKeeps ==
  ASSUME NEW Parts, Extracted(Parts), SkipPart
  PROVE  Extracted(Parts)'
<1>1. PICK i : /\ frames # <<>>
               /\ frames' = [frames EXCEPT ![Len(frames)].left = @ \ {i}]
               /\ UNCHANGED <<emitted, links, qubitIds, freed>>
  BY DEF SkipPart, AtPart, Extracting
<1>2. /\ CallOf(Parts, Top, qubitIds) /\ Spans(Top, NextId) /\ Closed(Top, links)
      /\ Len(frames) \in DOMAIN frames /\ NextId \in Nat /\ qubitIds \in Nat
  BY <1>1, TopCall
<1>3. PICK g : g = [Top EXCEPT !.left = @ \ {i}]
  OBVIOUS
<1>4. /\ g = [parts |-> Top.parts, connections |-> Top.connections, left |-> Top.left \ {i},
              entered |-> Top.entered, first |-> Top.first, end |-> Top.end,
              start |-> Top.start, qubits |-> Top.qubits]
  BY <1>2, <1>3 DEF CallOf
<1>5. /\ g.parts = Top.parts /\ g.connections = Top.connections /\ g.left = Top.left \ {i}
      /\ g.entered = Top.entered /\ g.first = Top.first /\ g.end = Top.end
      /\ g.start = Top.start /\ g.qubits = Top.qubits
  BY <1>4
<1>6. CallOf(Parts, g, qubitIds)
  BY <1>2, <1>4, <1>5 DEF CallOf
<1>7. Spans(g, NextId) /\ Closed(g, links)
  BY <1>2, <1>5 DEF Spans, Closed, Inside
<1>8. frames' = [frames EXCEPT ![Len(frames)] = g]
  BY <1>1, <1>2, <1>3 DEF Top
<1>9. Calls(Parts, [frames EXCEPT ![Len(frames)] = g], links, NextId, qubitIds)
  <2>1. Numbered(links, NextId) /\ Calls(Parts, frames, links, NextId, qubitIds)
    BY DEF Extracted
  <2>2. g.start = frames[Len(frames)].start
    BY <1>5 DEF Top
  <2>3. NextId <= NextId /\ qubitIds <= qubitIds
    BY <1>2
  <2> QED
    BY <1>1, <1>2, <1>6, <1>7, <2>1, <2>2, <2>3, TopReplaced DEF Grown
<1>10. NextId' = NextId
  BY <1>1 DEF NextId
<1> QED
  BY <1>1, <1>8, <1>9, <1>10 DEF Extracted

LEMMA DoneShape ==
  ASSUME NEW Parts, NEW f, NEW q, CallOf(Parts, f, q), NEW i, NEW a, NEW b
  PROVE  Done(f, i, a, b) =
           [parts |-> f.parts, connections |-> f.connections, left |-> f.left \ {i},
            entered |-> NoFirst, first |-> [f.first EXCEPT ![i] = a],
            end |-> [f.end EXCEPT ![i] = b], start |-> f.start, qubits |-> f.qubits]
<1> DEFINE F == [f.first EXCEPT ![i] = a]
           E == [f.end EXCEPT ![i] = b]
<1>1. f = [parts |-> f.parts, connections |-> f.connections, left |-> f.left,
           entered |-> f.entered, first |-> f.first, end |-> f.end,
           start |-> f.start, qubits |-> f.qubits]
  BY DEF CallOf
<1>2. PICK g : g = [f EXCEPT !.left = f.left \ {i}]
  OBVIOUS
<1>3. PICK h : h = [g EXCEPT !.entered = NoFirst]
  OBVIOUS
<1>4. PICK j : j = [h EXCEPT !.first = F]
  OBVIOUS
<1>5. PICK k : k = [j EXCEPT !.end = E]
  OBVIOUS
<1>6. Done(f, i, a, b) = k
  BY <1>2, <1>3, <1>4, <1>5, Zenon DEF Done
<1> HIDE DEF F, E
<1>7. g = [parts |-> f.parts, connections |-> f.connections, left |-> f.left \ {i},
           entered |-> f.entered, first |-> f.first, end |-> f.end,
           start |-> f.start, qubits |-> f.qubits]
  BY <1>1, <1>2
<1>8. h = [parts |-> f.parts, connections |-> f.connections, left |-> f.left \ {i},
           entered |-> NoFirst, first |-> f.first, end |-> f.end,
           start |-> f.start, qubits |-> f.qubits]
  BY <1>3, <1>7
<1>9. j = [parts |-> f.parts, connections |-> f.connections, left |-> f.left \ {i},
           entered |-> NoFirst, first |-> F, end |-> f.end,
           start |-> f.start, qubits |-> f.qubits]
  BY <1>4, <1>8
<1>10. k = [parts |-> f.parts, connections |-> f.connections, left |-> f.left \ {i},
            entered |-> NoFirst, first |-> F, end |-> E, start |-> f.start, qubits |-> f.qubits]
  BY <1>5, <1>9
<1> QED
  BY <1>6, <1>10 DEF F, E

LEMMA DoneCall ==
  ASSUME NEW Parts, NEW f, NEW q, CallOf(Parts, f, q), NEW i, NEW a, NEW b
  PROVE  /\ CallOf(Parts, Done(f, i, a, b), q)
         /\ Recorded(f, Done(f, i, a, b), i, a, b)
<1> DEFINE g == Done(f, i, a, b)
           F == [f.first EXCEPT ![i] = a]
           E == [f.end EXCEPT ![i] = b]
<1>1. /\ DOMAIN F = DOMAIN f.first /\ DOMAIN E = DOMAIN f.end
      /\ \A c \in DOMAIN f.first : F[c] = IF c = i THEN a ELSE f.first[c]
      /\ \A c \in DOMAIN f.end : E[c] = IF c = i THEN b ELSE f.end[c]
  OBVIOUS
<1>2. g = [parts |-> f.parts, connections |-> f.connections, left |-> f.left \ {i},
           entered |-> NoFirst, first |-> F, end |-> E, start |-> f.start, qubits |-> f.qubits]
  BY DoneShape
<1> HIDE DEF g, F, E
<1>3. /\ g.parts = f.parts /\ g.connections = f.connections /\ g.left = f.left \ {i}
      /\ g.entered = NoFirst /\ g.start = f.start /\ g.qubits = f.qubits
      /\ g.first = F /\ g.end = E
  BY <1>2
<1>4. CallOf(Parts, g, q)
  BY <1>1, <1>2, <1>3 DEF CallOf
<1> QED
  BY <1>1, <1>3, <1>4 DEF g, CallOf, Recorded

WithQubits(f, Q) == [f EXCEPT !.qubits = @ \cup Q]
LEMMA MoreQubits ==
  ASSUME NEW Parts, NEW f, NEW q \in Nat, NEW r \in Nat, CallOf(Parts, f, q), q <= r,
         NEW Q \in SUBSET (0 .. r - 1), NEW n \in Nat, NEW l, Spans(f, n), Closed(f, l)
  PROVE  /\ CallOf(Parts, WithQubits(f, Q), r)
         /\ Spans(WithQubits(f, Q), n) /\ Closed(WithQubits(f, Q), l)
         /\ WithQubits(f, Q).start = f.start
<1>g. PICK g : g = WithQubits(f, Q)
  OBVIOUS
<1>0. f = [parts |-> f.parts, connections |-> f.connections, left |-> f.left,
           entered |-> f.entered, first |-> f.first, end |-> f.end,
           start |-> f.start, qubits |-> f.qubits]
  BY DEF CallOf
<1>1. g = [parts |-> f.parts, connections |-> f.connections, left |-> f.left,
           entered |-> f.entered, first |-> f.first, end |-> f.end,
           start |-> f.start, qubits |-> f.qubits \cup Q]
  BY <1>0, <1>g DEF WithQubits
<1>2. /\ g.parts = f.parts /\ g.connections = f.connections /\ g.left = f.left
      /\ g.entered = f.entered /\ g.first = f.first /\ g.end = f.end
      /\ g.start = f.start /\ g.qubits = f.qubits \cup Q
  BY <1>1
<1>3. g.qubits \subseteq 0 .. r - 1
  BY <1>2 DEF CallOf
<1>4. CallOf(Parts, g, r)
  BY <1>1, <1>2, <1>3 DEF CallOf
<1>5. Spans(g, n) /\ Closed(g, l)
  BY <1>2 DEF Spans, Closed, Inside
<1> QED
  BY <1>g, <1>2, <1>4, <1>5

(* The part of a call that covers the operations up to the last. *)
RunsTo(a, b, m) == a <= b /\ b = m - 1
Runs(f, l, new, n, m, i, a, b) ==
  /\ n \in Nat /\ m \in Nat /\ n <= m /\ i \in DOMAIN f.parts /\ a \in Nat /\ b \in Nat
  /\ RunsTo(a, b, m) /\ Spans(f, n) /\ Closed(f, l) /\ Numbered(new, m) /\ f.start <= a
  /\ Before(f, a) /\ Parted(l, a) /\ Grown(l, new, a)
LEMMA RunDone ==
  ASSUME NEW Parts, NEW f, NEW l, NEW new, NEW n, NEW m,
         NEW q, NEW i, NEW a, NEW b, Runs(f, l, new, n, m, i, a, b), CallOf(Parts, f, q)
  PROVE  /\ CallOf(Parts, Done(f, i, a, b), q)
         /\ Spans(Done(f, i, a, b), m) /\ Closed(Done(f, i, a, b), new)
         /\ Done(f, i, a, b).start = f.start
<1>0. /\ n \in Nat /\ m \in Nat /\ n <= m /\ i \in DOMAIN f.parts /\ a \in Nat /\ b \in Nat
      /\ RunsTo(a, b, m) /\ Spans(f, n) /\ Closed(f, l) /\ Numbered(new, m) /\ f.start <= a
      /\ Before(f, a) /\ Parted(l, a) /\ Grown(l, new, a)
  BY DEF Runs
<1>1. CallOf(Parts, Done(f, i, a, b), q) /\ Recorded(f, Done(f, i, a, b), i, a, b)
  BY DoneCall
<1>2. Spans(f, m)
  BY <1>0 DEF Spans
<1>3. Closed(f, new)
  BY <1>0, <1>2, ClosedGrows
<1>4. Parted(new, a)
  BY <1>0 DEF Parted, Grown
<1>5. m <= m /\ b = m - 1 /\ a <= b
  BY <1>0 DEF RunsTo
<1>6. Spans(Done(f, i, a, b), m) /\ Closed(Done(f, i, a, b), new)
  BY <1>0, <1>1, <1>2, <1>3, <1>4, <1>5, PartDone
<1> QED
  BY <1>1, <1>6 DEF Recorded

LEMMA LeafKeeps ==
  ASSUME NEW Parts, Extracted(Parts), LeafPart
  PROVE  Extracted(Parts)'
<1>1. PICK i : /\ frames # <<>> /\ i \in Top.left
               /\ \E q \in freed \cup {qubitIds} :
                    /\ emitted' = Append(emitted, Emitted(NextId, Top.parts[i].kind, <<q>>))
                    /\ qubitIds' = IF q = qubitIds THEN qubitIds + 1 ELSE qubitIds
                    /\ freed' = freed \ {q}
                    /\ frames' = [frames EXCEPT ![Len(frames)] =
                         [Done(Top, i, NextId, NextId) EXCEPT !.qubits = @ \cup {q}]]
               /\ UNCHANGED links
  BY DEF LeafPart, AtPart, Extracting
<1>2. PICK q \in freed \cup {qubitIds} :
             /\ emitted' = Append(emitted, Emitted(NextId, Top.parts[i].kind, <<q>>))
             /\ qubitIds' = IF q = qubitIds THEN qubitIds + 1 ELSE qubitIds
             /\ freed' = freed \ {q}
             /\ frames' = [frames EXCEPT ![Len(frames)] =
                  [Done(Top, i, NextId, NextId) EXCEPT !.qubits = @ \cup {q}]]
  BY <1>1
<1>3. /\ CallOf(Parts, Top, qubitIds) /\ Len(frames) \in DOMAIN frames
      /\ NextId \in Nat /\ qubitIds \in Nat
  BY <1>1, TopCall
<1>4. /\ IsList(emitted) /\ IsList(links) /\ freed \subseteq 0 .. qubitIds - 1
      /\ Numbered(links, NextId) /\ NoCycle(links)
      /\ \A k \in DOMAIN emitted : Numbers(emitted[k], k - 1, QubitCount(qubitIds))
  BY DEF Extracted
<1>5. /\ q \in 0 .. qubitIds' - 1 /\ qubitIds' \in Nat /\ qubitIds <= qubitIds'
      /\ freed' \subseteq 0 .. qubitIds' - 1
  BY <1>2, <1>3, <1>4
<1>6. PICK e : e = Emitted(NextId, Top.parts[i].kind, <<q>>)
  OBVIOUS
<1>7. emitted' = emitted \o <<e>> /\ IsList(<<e>>) /\ Len(<<e>>) = 1 /\ DOMAIN <<e>> = {1}
  <2>1. PICK S : emitted \in Seq(S)
    BY <1>4 DEF IsList
  <2>2. emitted \in Seq(S \cup {e}) /\ e \in S \cup {e}
    BY <2>1
  <2>3. Append(emitted, e) = emitted \o <<e>>
    BY <2>2, AppendIsConcat
  <2>4. <<e>> \in Seq({e}) /\ Len(<<e>>) = 1
    OBVIOUS
  <2>5. DOMAIN <<e>> = {1}
    BY <2>4, LenProperties
  <2> QED
    BY <1>2, <1>6, <2>3, <2>4, <2>5 DEF IsList
<1>8. IsList(emitted') /\ NextId' = NextId + 1
  BY <1>4, <1>7, Joined DEF NextId
<1>9. \A k \in DOMAIN emitted' : Numbers(emitted'[k], k - 1, QubitCount(qubitIds'))
  <2>1. QubitCount(qubitIds) \in Nat /\ QubitCount(qubitIds') \in Nat
        /\ QubitCount(qubitIds) <= QubitCount(qubitIds') /\ qubitIds' <= QubitCount(qubitIds')
    BY <1>3, <1>5 DEF QubitCount
  <2>2. e.id = NextId /\ e.active /\ e.hook = NoHook /\ e.qubits = <<q>>
    BY <1>6 DEF Emitted
  <2>3. ToSet(e.qubits) = {q}
    BY <2>2 DEF ToSet
  <2>4. Numbers(e, NextId, QubitCount(qubitIds'))
    BY <1>3, <1>5, <2>1, <2>2, <2>3 DEF Numbers
  <2>5. \A k \in DOMAIN <<e>> : Numbers(<<e>>[k], Len(emitted) + k - 1, QubitCount(qubitIds'))
    BY <1>3, <1>7, <2>4 DEF NextId
  <2> QED
    BY <1>4, <1>7, <2>1, <2>5, NumbersJoined
<1>10. Numbered(links', NextId')
  <2>1. NextId' \in Nat /\ NextId <= NextId'
    BY <1>3, <1>8
  <2> QED
    BY <1>1, <1>3, <1>4, <2>1, NumberedGrows
<1>11. PICK f : f = Top
  OBVIOUS
<1>12. PICK n, m, a, b : n = NextId /\ m = NextId' /\ a = qubitIds /\ b = qubitIds'
  OBVIOUS
<1>13. PICK l : l = links
  OBVIOUS
<1>14. /\ CallOf(Parts, f, a) /\ Spans(f, n) /\ Closed(f, l)
       /\ n \in Nat /\ m \in Nat /\ a \in Nat /\ b \in Nat /\ n = m - 1 /\ a <= b /\ q \in 0 .. b - 1
       /\ Numbered(l, n) /\ Numbered(l, m) /\ i \in f.left
  BY <1>1, <1>3, <1>4, <1>5, <1>8, <1>10, <1>11, <1>12, <1>13, TopCall
<1>15. PICK h : h = Done(f, i, n, n)
  OBVIOUS
<1>16. PICK g : g = WithQubits(h, {q})
  OBVIOUS
<1>17. CallOf(Parts, h, a) /\ Spans(h, m) /\ Closed(h, l) /\ h.start = f.start
  <2>1. i \in DOMAIN f.parts
    BY <1>14 DEF CallOf
  <2>2. f.start <= n /\ Before(f, n)
    BY <1>14 DEF Spans, Before
  <2>3. Parted(l, n) /\ Grown(l, l, n)
    BY <1>14 DEF Numbered, Parted, Grown
  <2>4. n <= m /\ RunsTo(n, n, m)
    BY <1>14 DEF RunsTo
  <2>5. CallOf(Parts, f, a) /\ Spans(f, n) /\ Closed(f, l) /\ Numbered(l, m)
    BY <1>14
  <2>6. n \in Nat /\ m \in Nat /\ a \in Nat
    BY <1>14
  <2>7. /\ CallOf(Parts, Done(f, i, n, n), a)
        /\ Spans(Done(f, i, n, n), m) /\ Closed(Done(f, i, n, n), l)
        /\ Done(f, i, n, n).start = f.start
    <3>1. Runs(f, l, l, n, m, i, n, n)
      BY <2>1, <2>2, <2>3, <2>4, <2>5, <2>6 DEF Runs
    <3> QED
      BY <2>5, <3>1, RunDone
  <2> QED
    BY <1>15, <2>7
<1>18. CallOf(Parts, g, b) /\ Spans(g, m) /\ Closed(g, l) /\ g.start = f.start
  <2>1. {q} \in SUBSET (0 .. b - 1)
    BY <1>14
  <2> QED
    BY <1>14, <1>16, <1>17, <2>1, MoreQubits
<1>19. Calls(Parts, [frames EXCEPT ![Len(frames)] = g], l, m, b)
  <2>0. Calls(Parts, frames, links, NextId, qubitIds)
    BY DEF Extracted
  <2>1. Calls(Parts, frames, l, n, a)
    BY <1>12, <1>13, <2>0
  <2>4. n <= m
    BY <1>14
  <2>2. g.start = frames[Len(frames)].start
    BY <1>11, <1>18 DEF Top
  <2>3. Grown(l, l, g.start)
    BY DEF Grown
  <2> QED
    BY <1>1, <1>14, <1>18, <2>1, <2>2, <2>3, <2>4, TopReplaced
<1>20. frames' = [frames EXCEPT ![Len(frames)] = g]
  BY <1>2, <1>11, <1>12, <1>15, <1>16 DEF WithQubits
<1>21. Calls(Parts, frames, links, NextId, qubitIds)'
  BY <1>1, <1>12, <1>13, <1>19, <1>20
<1> QED
  BY <1>1, <1>4, <1>5, <1>8, <1>9, <1>10, <1>21 DEF Extracted

(* The operations and the dependencies of an opaque bloq. *)
LEMMA OpaqueLists ==
  ASSUME NEW b, b.tcount \in Nat, NextId \in Nat
  PROVE  /\ IsList(OpaqueOps(b)) /\ IsList(OpaqueDeps(b))
         /\ Len(OpaqueOps(b)) = IF b.tcount = 0 THEN 1 ELSE b.tcount
         /\ \A k \in DOMAIN OpaqueOps(b) :
              /\ OpaqueOps(b)[k].id = NextId + k - 1 /\ OpaqueOps(b)[k].active
              /\ OpaqueOps(b)[k].hook = NoHook /\ OpaqueOps(b)[k].qubits = <<0>>
         /\ \A k \in DOMAIN OpaqueDeps(b) :
              /\ k \in 1 .. b.tcount - 1
              /\ OpaqueDeps(b)[k].from = NextId + k - 1 /\ OpaqueDeps(b)[k].to = NextId + k
<1> DEFINE t == b.tcount
           d == [k \in 1 .. t - 1 |-> [from |-> NextId + k - 1, to |-> NextId + k]]
<1>1. /\ IsList(OpaqueOps(b)) /\ Len(OpaqueOps(b)) = IF t = 0 THEN 1 ELSE t
      /\ \A k \in DOMAIN OpaqueOps(b) :
           OpaqueOps(b)[k] \in {Emitted(NextId + k - 1, c, <<0>>) : c \in {"clifford", "tgate"}}
  <2>1. CASE t = 0
    <3> DEFINE e == Emitted(NextId, "clifford", <<0>>)
    <3>1. OpaqueOps(b) = <<e>>
      BY <2>1 DEF OpaqueOps
    <3> HIDE DEF e
    <3>2. <<e>> \in Seq({e}) /\ Len(<<e>>) = 1 /\ <<e>>[1] = e
      OBVIOUS
    <3>3. DOMAIN <<e>> = {1}
      BY <3>2, LenProperties
    <3>4. NextId + 1 - 1 = NextId
      OBVIOUS
    <3> QED
      BY <2>1, <3>1, <3>2, <3>3, <3>4 DEF IsList, e
  <2>2. CASE t # 0
    <3> DEFINE s == [k \in 1 .. t |-> Emitted(NextId + k - 1, "tgate", <<0>>)]
               S == {Emitted(NextId + k - 1, "tgate", <<0>>) : k \in 1 .. t}
    <3>1. OpaqueOps(b) = s
      BY <2>2 DEF OpaqueOps
    <3>2. /\ DOMAIN s = 1 .. t
          /\ \A k \in 1 .. t : s[k] = Emitted(NextId + k - 1, "tgate", <<0>>)
      OBVIOUS
    <3>3. s \in [1 .. t -> S]
      OBVIOUS
    <3> HIDE DEF s, S
    <3>4. s \in Seq(S) /\ Len(s) = t
      BY <3>2, <3>3
    <3> QED
      BY <2>2, <3>1, <3>2, <3>4 DEF IsList
  <2> QED
    BY <2>1, <2>2
<1>2. \A k, c : Emitted(k, c, <<0>>).id = k /\ Emitted(k, c, <<0>>).active
                /\ Emitted(k, c, <<0>>).hook = NoHook /\ Emitted(k, c, <<0>>).qubits = <<0>>
  BY DEF Emitted
<1>3. OpaqueDeps(b) = d
  BY DEF OpaqueDeps
<1>4. /\ DOMAIN d = 1 .. t - 1
      /\ \A k \in 1 .. t - 1 : d[k].from = NextId + k - 1 /\ d[k].to = NextId + k
  OBVIOUS
<1>5. IsList(d)
  <2> DEFINE S == {[from |-> NextId + k - 1, to |-> NextId + k] : k \in 1 .. t - 1}
  <2>1. d \in [1 .. t - 1 -> S]
    OBVIOUS
  <2> HIDE DEF d, S
  <2>2. d \in Seq(S)
    <3>1. CASE t = 0
      <4>1. DOMAIN d = {} /\ 1 .. t - 1 = 1 .. 0
        BY <2>1, <3>1
      <4> QED
        BY <2>1, <4>1
    <3>2. CASE t # 0
      BY <2>1, <3>2
    <3> QED
      BY <3>1, <3>2
  <2> QED
    BY <2>2 DEF IsList
<1> HIDE DEF d
<1>6. ASSUME NEW k \in DOMAIN OpaqueOps(b)
      PROVE  /\ OpaqueOps(b)[k].id = NextId + k - 1 /\ OpaqueOps(b)[k].active
             /\ OpaqueOps(b)[k].hook = NoHook /\ OpaqueOps(b)[k].qubits = <<0>>
  <2>1. PICK c : OpaqueOps(b)[k] = Emitted(NextId + k - 1, c, <<0>>)
    BY <1>1
  <2> QED
    BY <1>2, <2>1
<1>7. ASSUME NEW k \in DOMAIN OpaqueDeps(b)
      PROVE  /\ k \in 1 .. t - 1
             /\ OpaqueDeps(b)[k].from = NextId + k - 1 /\ OpaqueDeps(b)[k].to = NextId + k
  BY <1>3, <1>4
<1> QED
  BY <1>1, <1>3, <1>5, <1>6, <1>7

LEMMA OpaqueKeeps ==
  ASSUME NEW Statements, NEW Parts, InRange(Statements, Parts), Extracted(Parts), OpaquePart
  PROVE  Extracted(Parts)'
<1>1. PICK i : /\ frames # <<>> /\ i \in Top.left
               /\ emitted' = emitted \o OpaqueOps(Top.parts[i])
               /\ links' = links \o OpaqueDeps(Top.parts[i])
               /\ frames' = [frames EXCEPT ![Len(frames)] =
                    Done(Top, i, NextId, NextId + Len(OpaqueOps(Top.parts[i])) - 1)]
               /\ UNCHANGED <<qubitIds, freed>>
  BY DEF OpaquePart, AtPart, Extracting
<1>2. PICK f, l, n, m, q : f = Top /\ l = links /\ n = NextId /\ m = NextId' /\ q = qubitIds
  OBVIOUS
<1>3. /\ CallOf(Parts, f, q) /\ Spans(f, n) /\ Closed(f, l) /\ n \in Nat /\ q \in Nat
  BY <1>1, <1>2, TopCall
<1>4. /\ IsList(emitted) /\ IsList(links) /\ Numbered(l, n) /\ NoCycle(l)
      /\ \A k \in DOMAIN emitted : Numbers(emitted[k], k - 1, QubitCount(q))
      /\ freed \subseteq 0 .. q - 1
  BY <1>2 DEF Extracted
<1>5. PICK b : b = Top.parts[i]
  OBVIOUS
<1>6. i \in DOMAIN f.parts /\ b.tcount \in Nat
  <2>1. i \in DOMAIN f.parts
    BY <1>1, <1>2, <1>3 DEF CallOf
  <2>2. f.parts[i] \in Parts
    <3>1. f.parts \in Seq(Parts)
      BY <1>3 DEF CallOf
    <3> QED
      BY <2>1, <3>1, ElementOfSeq, LenProperties
  <2> QED
    BY <1>2, <1>5, <2>1, <2>2 DEF InRange
<1>0. PICK t : t = Len(OpaqueOps(b))
  OBVIOUS
<1>7. t \in Nat /\ t >= 1 /\ b.tcount <= t
  <2>1. NextId \in Nat
    BY <1>2, <1>3
  <2>2. Len(OpaqueOps(b)) = IF b.tcount = 0 THEN 1 ELSE b.tcount
    BY <1>6, <2>1, OpaqueLists
  <2> QED
    BY <1>0, <1>6, <2>2
<1>8. /\ IsList(OpaqueOps(b)) /\ IsList(OpaqueDeps(b))
      /\ \A k \in DOMAIN OpaqueOps(b) :
           /\ OpaqueOps(b)[k].id = n + k - 1 /\ OpaqueOps(b)[k].active
           /\ OpaqueOps(b)[k].hook = NoHook /\ OpaqueOps(b)[k].qubits = <<0>>
      /\ \A k \in DOMAIN OpaqueDeps(b) :
           /\ k \in 1 .. t - 1
           /\ OpaqueDeps(b)[k].from = n + k - 1 /\ OpaqueDeps(b)[k].to = n + k
  BY <1>2, <1>3, <1>6, <1>7, OpaqueLists
<1>9. /\ IsList(emitted') /\ IsList(links') /\ m = n + t
  <2>1. Len(emitted \o OpaqueOps(b)) = Len(emitted) + Len(OpaqueOps(b))
        /\ IsList(emitted \o OpaqueOps(b))
    BY <1>4, <1>8, Joined
  <2>2. IsList(links \o OpaqueDeps(b))
    BY <1>4, <1>8, Joined
  <2>3. emitted' = emitted \o OpaqueOps(b) /\ links' = links \o OpaqueDeps(b)
    BY <1>1, <1>5
  <2>4. m = Len(emitted') /\ n = Len(emitted)
    BY <1>2 DEF NextId
  <2> QED
    BY <1>0, <2>1, <2>2, <2>3, <2>4
<1>10. \A k \in DOMAIN emitted' : Numbers(emitted'[k], k - 1, QubitCount(q))
  <2>1. QubitCount(q) \in Nat /\ QubitCount(q) >= 1
    BY <1>3 DEF QubitCount
  <2>2. ToSet(<<0>>) = {0}
    BY DEF ToSet
  <2>3. \A k \in DOMAIN OpaqueOps(b) :
          Numbers(OpaqueOps(b)[k], Len(emitted) + k - 1, QubitCount(q))
    BY <1>2, <1>8, <2>1, <2>2 DEF Numbers, NextId
  <2>4. QubitCount(q) <= QubitCount(q)
    BY <2>1
  <2> QED
    BY <1>1, <1>4, <1>5, <1>8, <2>1, <2>3, <2>4, NumbersJoined
<1>11. PICK new : new = links'
  OBVIOUS
<1>12. \A k \in DOMAIN new :
         \/ \E j \in DOMAIN l : new[k] = l[j]
         \/ \E j \in 1 .. t - 1 : new[k].from = n + j - 1 /\ new[k].to = n + j
  <2>1. new = l \o OpaqueDeps(b)
    BY <1>1, <1>2, <1>5, <1>11
  <2>2. \A k \in DOMAIN (l \o OpaqueDeps(b)) :
          \/ k \in DOMAIN l /\ (l \o OpaqueDeps(b))[k] = l[k]
          \/ /\ k - Len(l) \in DOMAIN OpaqueDeps(b)
             /\ (l \o OpaqueDeps(b))[k] = OpaqueDeps(b)[k - Len(l)]
    BY <1>2, <1>4, <1>8, Joined
  <2> QED
    BY <1>8, <2>1, <2>2
<1>13. Numbered(new, m) /\ Grown(l, new, n)
  BY <1>3, <1>4, <1>7, <1>9, <1>12 DEF Numbered, Grown
<1>14. NoCycle(new)
  <2>1. \A k \in DOMAIN new :
          \/ \E j \in DOMAIN l : new[k] = l[j]
          \/ /\ new[k].from \in Nat /\ new[k].to \in Nat
             /\ n <= new[k].from /\ new[k].from < new[k].to
    BY <1>3, <1>7, <1>12
  <2> QED
    BY <1>3, <1>4, <2>1, ForwardKeepsNoCycle
<1>15. PICK g : g = Done(f, i, n, m - 1)
  OBVIOUS
<1>16. CallOf(Parts, g, q) /\ Spans(g, m) /\ Closed(g, new) /\ g.start = f.start
  <2>1. f.start <= n /\ Before(f, n)
    BY <1>3 DEF Spans, Before
  <2>2. Parted(l, n)
    BY <1>3, <1>4 DEF Numbered, Parted
  <2>3. PICK e : e = m - 1
    OBVIOUS
  <2>4. e \in Nat /\ m \in Nat /\ n <= m /\ RunsTo(n, e, m)
    BY <1>3, <1>7, <1>9, <2>3 DEF RunsTo
  <2>6. CallOf(Parts, f, q) /\ Spans(f, n) /\ Closed(f, l)
    BY <1>3
  <2>7. n \in Nat /\ m \in Nat /\ e \in Nat /\ q \in Nat /\ n <= m /\ RunsTo(n, e, m)
    BY <1>3, <2>4
  <2>8. i \in DOMAIN f.parts
    BY <1>6
  <2>5. /\ CallOf(Parts, Done(f, i, n, e), q)
        /\ Spans(Done(f, i, n, e), m) /\ Closed(Done(f, i, n, e), new)
        /\ Done(f, i, n, e).start = f.start
    <3>1. Runs(f, l, new, n, m, i, n, e)
      BY <1>13, <2>1, <2>2, <2>6, <2>7, <2>8 DEF Runs
    <3> QED
      BY <2>6, <3>1, RunDone
  <2> QED
    BY <1>15, <2>3, <2>5
<1>17. Calls(Parts, [frames EXCEPT ![Len(frames)] = g], new, m, q)
  <2>1. Calls(Parts, frames, links, NextId, qubitIds)
    BY DEF Extracted
  <2>2. Calls(Parts, frames, l, n, q)
    BY <1>2, <2>1
  <2>3. g.start = frames[Len(frames)].start /\ g.start <= n
    BY <1>2, <1>3, <1>16 DEF Top, Spans
  <2>4. Grown(l, new, g.start)
    <3>1. g.start \in Nat
      BY <1>3, <1>16 DEF Spans
    <3> QED
      BY <1>3, <1>13, <2>3, <3>1 DEF Grown, Numbered
  <2>5. m \in Nat /\ n <= m /\ q <= q
    BY <1>3, <1>7, <1>9
  <2> QED
    BY <1>1, <1>3, <1>13, <1>16, <2>2, <2>3, <2>4, <2>5, TopReplaced
<1>18. frames' = [frames EXCEPT ![Len(frames)] = g]
  <2>1. NextId + Len(OpaqueOps(Top.parts[i])) - 1 = m - 1
    <3>1. Len(OpaqueOps(Top.parts[i])) = t
      BY <1>0, <1>5
    <3>2. NextId = n /\ n + t - 1 = m - 1
      BY <1>2, <1>3, <1>7, <1>9
    <3> QED
      BY <3>1, <3>2
  <2> QED
    BY <1>1, <1>2, <1>15, <2>1
<1>19. Calls(Parts, frames, links, NextId, qubitIds)'
  BY <1>1, <1>2, <1>11, <1>17, <1>18
<1> QED
  BY <1>1, <1>2, <1>3, <1>4, <1>9, <1>10, <1>11, <1>13, <1>14, <1>19 DEF Extracted

LEMMA EnterKeeps ==
  ASSUME NEW Statements, NEW Parts, InRange(Statements, Parts), Extracted(Parts), EnterPart
  PROVE  Extracted(Parts)'
<1>1. PICK i : /\ frames # <<>> /\ i \in Top.left
               /\ frames' = Append([frames EXCEPT ![Len(frames)] =
                                      [Top EXCEPT !.left = @ \ {i}, !.entered = i]],
                                   Frame(Top.parts[i]))
               /\ UNCHANGED <<emitted, links, qubitIds, freed>>
  BY Zenon DEF EnterPart, AtPart, Extracting
<1>2. /\ CallOf(Parts, Top, qubitIds) /\ Spans(Top, NextId) /\ Closed(Top, links)
      /\ Len(frames) \in DOMAIN frames /\ NextId \in Nat /\ qubitIds \in Nat
  BY <1>1, TopCall
<1>3. /\ IsList(emitted) /\ Numbered(links, NextId)
      /\ Calls(Parts, frames, links, NextId, qubitIds)
  BY DEF Extracted
<1>4. PICK f : f = Top
  OBVIOUS
<1>5. PICK h : h = [f EXCEPT !.left = f.left \ {i}]
  OBVIOUS
<1>6. PICK g : g = [h EXCEPT !.entered = i]
  OBVIOUS
<1>7. g = [Top EXCEPT !.left = @ \ {i}, !.entered = i]
  BY <1>4, <1>5, <1>6, Zenon
<1>8. h = [parts |-> f.parts, connections |-> f.connections, left |-> f.left \ {i},
           entered |-> f.entered, first |-> f.first, end |-> f.end,
           start |-> f.start, qubits |-> f.qubits]
  BY <1>2, <1>4, <1>5 DEF CallOf
<1>9. g = [parts |-> f.parts, connections |-> f.connections, left |-> f.left \ {i},
           entered |-> i, first |-> f.first, end |-> f.end,
           start |-> f.start, qubits |-> f.qubits]
  BY <1>6, <1>8
<1>10. /\ g.parts = f.parts /\ g.connections = f.connections /\ g.left = f.left \ {i}
       /\ g.entered = i /\ g.first = f.first /\ g.end = f.end
       /\ g.start = f.start /\ g.qubits = f.qubits
  BY <1>9
<1>11. CallOf(Parts, g, qubitIds)
  BY <1>2, <1>4, <1>9, <1>10 DEF CallOf
<1>12. Spans(g, NextId) /\ Closed(g, links)
  BY <1>2, <1>4, <1>10 DEF Spans, Closed, Inside
<1>13. PICK fs : fs = [frames EXCEPT ![Len(frames)] = g]
  OBVIOUS
<1>14. Calls(Parts, fs, links, NextId, qubitIds)
  <2>1. g.start = frames[Len(frames)].start
    BY <1>4, <1>10 DEF Top
  <2>2. NextId <= NextId /\ qubitIds <= qubitIds /\ Grown(links, links, g.start)
    BY <1>2 DEF Grown
  <2>3. Calls(Parts, [frames EXCEPT ![Len(frames)] = g], links, NextId, qubitIds)
    BY <1>1, <1>2, <1>3, <1>11, <1>12, <2>1, <2>2, TopReplaced
  <2> QED
    BY <1>13, <2>3
<1>15. PICK b : b = Top.parts[i]
  OBVIOUS
<1>16. b \in Parts
  <2>1. Top.parts \in Seq(Parts) /\ i \in DOMAIN Top.parts
    BY <1>1, <1>2 DEF CallOf
  <2> QED
    BY <1>15, <2>1, ElementOfSeq, LenProperties
<1>17. PICK e : e = Frame(b)
  OBVIOUS
<1>18. CallOf(Parts, e, qubitIds) /\ Spans(e, NextId) /\ Closed(e, links) /\ e.start = NextId
  BY <1>3, <1>16, <1>17, CallBegins
<1>19. Calls(Parts, Append(fs, e), links, NextId, qubitIds)
  BY <1>2, <1>14, <1>18, CallPushed
<1>20. frames' = Append(fs, e)
  BY <1>1, <1>7, <1>13, <1>15, <1>17
<1>21. NextId' = NextId
  BY <1>1 DEF NextId
<1> QED
  BY <1>1, <1>19, <1>20, <1>21 DEF Extracted

(* The end of a call orders its parts by a list of dependencies. *)
LEMMA ConnectionsListed ==
  ASSUME NEW Parts, NEW f, NEW q, CallOf(Parts, f, q)
  PROVE  /\ IsList(ConnectionList(f))
         /\ \A k \in DOMAIN ConnectionList(f) : Connects(f, ConnectionList(f)[k])
<1> DEFINE D == DOMAIN f.parts
           C == {d \in f.connections : {f.end[d[1]], f.first[d[2]]} \cap {NoFirst} = {}}
           g == [c \in C |-> [from |-> f.end[c[1]], to |-> f.first[c[2]]]]
           S == ConnectionDeps(f)
           T == {d \in ConnectionDeps(f) : d.from # d.to}
<1>1. IsFiniteSet(D \X D)
  <2>1. f.parts \in Seq(Parts)
    BY DEF CallOf
  <2>2. D = 1 .. Len(f.parts) /\ Len(f.parts) \in Nat
    BY <2>1, LenProperties
  <2>3. IsFiniteSet(D)
    BY <2>2, FS_Interval
  <2> QED
    BY <2>3, FS_Product
<1>2. IsFiniteSet(C)
  <2>1. C \subseteq D \X D
    BY DEF CallOf
  <2> QED
    BY <1>1, <2>1, FS_Subset
<1>3. g \in Surjection(C, S)
  BY DEF ConnectionDeps, Surjection
<1>4. \A d \in S : Connects(f, d)
  <2> SUFFICES ASSUME NEW d \in S
               PROVE  Connects(f, d)
    OBVIOUS
  <2>1. PICK c \in C : d = [from |-> f.end[c[1]], to |-> f.first[c[2]]]
    BY DEF ConnectionDeps
  <2>2. d.from = f.end[c[1]] /\ d.to = f.first[c[2]]
    BY <2>1
  <2>3. c \in f.connections /\ f.end[c[1]] # NoFirst /\ f.first[c[2]] # NoFirst
    OBVIOUS
  <2> QED
    BY <2>2, <2>3 DEF Connects
<1> HIDE DEF C, g
<1>5. IsFiniteSet(S)
  BY <1>2, <1>3, FS_Surjection
<1>6. T \subseteq S
  OBVIOUS
<1> HIDE DEF S, T
<1>7. IsFiniteSet(T)
  BY <1>5, <1>6, FS_Subset
<1>8. SetToSeq(T) \in Seq(T)
  BY <1>7, Listed
<1>9. IsList(SetToSeq(T)) /\ \A k \in DOMAIN SetToSeq(T) : SetToSeq(T)[k] \in S
  BY <1>6, <1>8, LenProperties, ElementOfSeq DEF IsList
<1> QED
  BY <1>4, <1>9 DEF T, ConnectionList

(* A part that is not one of the call's is none of its runs. *)
LEMMA EmptyDone ==
  ASSUME NEW Parts, NEW f, NEW l, NEW n, NEW q, NEW i,
         CallOf(Parts, f, q), Spans(f, n), Closed(f, l)
  PROVE  /\ CallOf(Parts, Done(f, i, NoFirst, NoFirst), q)
         /\ Spans(Done(f, i, NoFirst, NoFirst), n)
         /\ Closed(Done(f, i, NoFirst, NoFirst), l)
         /\ Done(f, i, NoFirst, NoFirst).start = f.start
<1>1. /\ CallOf(Parts, Done(f, i, NoFirst, NoFirst), q)
      /\ Recorded(f, Done(f, i, NoFirst, NoFirst), i, NoFirst, NoFirst)
  BY DoneCall
<1>2. Spans(Done(f, i, NoFirst, NoFirst), n) /\ Closed(Done(f, i, NoFirst, NoFirst), l)
  BY <1>1, PartEmpty
<1> QED
  BY <1>1, <1>2 DEF Recorded

LEMMA NoneDone ==
  ASSUME NEW Parts, NEW f, NEW l, NEW n, NEW q, NEW i, NEW a, NEW b,
         CallOf(Parts, f, q), Spans(f, n), Closed(f, l), i \notin DOMAIN f.parts
  PROVE  /\ CallOf(Parts, Done(f, i, a, b), q)
         /\ Spans(Done(f, i, a, b), n) /\ Closed(Done(f, i, a, b), l)
         /\ Done(f, i, a, b).start = f.start
<1>1. PICK g : g = Done(f, i, a, b)
  OBVIOUS
<1>2. CallOf(Parts, g, q) /\ Recorded(f, g, i, a, b)
  BY <1>1, DoneCall
<1>3. /\ g.parts = f.parts /\ g.start = f.start
      /\ \A c \in DOMAIN f.parts : g.first[c] = f.first[c] /\ g.end[c] = f.end[c]
  BY <1>2 DEF Recorded
<1>4. Spans(g, n)
  BY <1>3 DEF Spans
<1>5. Closed(g, l)
  BY <1>3 DEF Closed, Inside
<1> QED
  BY <1>1, <1>2, <1>3, <1>4, <1>5

(* What the end of a call adds to the dependencies. *)
LEMMA Connected ==
  ASSUME NEW Parts, NEW f, NEW l, NEW n \in Nat, NEW q,
         CallOf(Parts, f, q), Spans(f, n), Closed(f, l), IsList(l), Numbered(l, n), NoCycle(l),
         NEW new, new = l \o ConnectionList(f)
  PROVE  IsList(new) /\ Numbered(new, n) /\ NoCycle(new) /\ Grown(l, new, f.start)
<1>0. PICK list : list = ConnectionList(f)
  OBVIOUS
<1>1. IsList(list) /\ \A k \in DOMAIN list : Connects(f, list[k])
  BY <1>0, ConnectionsListed
<1>3. /\ IsList(new)
      /\ \A i \in DOMAIN new :
           \/ i \in DOMAIN l /\ new[i] = l[i]
           \/ i - Len(l) \in DOMAIN list /\ new[i] = list[i - Len(l)]
  <2>1. new = l \o list
    BY <1>0
  <2> QED
    BY <1>1, <2>1, Joined
<1>4. \A i \in DOMAIN new : (\E j \in DOMAIN l : new[i] = l[j]) \/ Connects(f, new[i])
  BY <1>1, <1>3
<1>5. NoCycle(new)
  BY <1>4, ConnectedNoCycle
<1>6. ASSUME NEW c \in f.connections, f.end[c[1]] # NoFirst, f.first[c[2]] # NoFirst
      PROVE  /\ f.end[c[1]] \in f.start .. n - 1 /\ f.first[c[2]] \in f.start .. n - 1
             /\ f.start \in Nat
  <2>1. c[1] \in DOMAIN f.parts /\ c[2] \in DOMAIN f.parts
    BY DEF CallOf
  <2>2. f.start \in Nat
    BY DEF Spans
  <2>3. ASSUME NEW p \in DOMAIN f.parts, f.first[p] # NoFirst \/ f.end[p] # NoFirst
        PROVE  /\ f.first[p] \in Nat /\ f.end[p] \in Nat
               /\ f.start <= f.first[p] /\ f.first[p] <= f.end[p] /\ f.end[p] < n
    BY <2>3 DEF Spans
  <2>4. f.end[c[1]] \in f.start .. n - 1
    <3>1. /\ f.first[c[1]] \in Nat /\ f.end[c[1]] \in Nat
          /\ f.start <= f.first[c[1]] /\ f.first[c[1]] <= f.end[c[1]] /\ f.end[c[1]] < n
      BY <1>6, <2>1, <2>3
    <3> QED
      BY <2>2, <3>1
  <2>5. f.first[c[2]] \in f.start .. n - 1
    <3>1. /\ f.first[c[2]] \in Nat /\ f.end[c[2]] \in Nat
          /\ f.start <= f.first[c[2]] /\ f.first[c[2]] <= f.end[c[2]] /\ f.end[c[2]] < n
      BY <1>6, <2>1, <2>3
    <3> QED
      BY <2>2, <3>1
  <2> QED
    BY <2>2, <2>4, <2>5
<1>7. ASSUME NEW i \in DOMAIN new
      PROVE  /\ new[i].from \in 0 .. n - 1 /\ new[i].to \in 0 .. n - 1
             /\ (\E j \in DOMAIN l : new[i] = l[j])
                  \/ (new[i].from >= f.start /\ new[i].to >= f.start)
  <2>1. CASE \E j \in DOMAIN l : new[i] = l[j]
    BY <2>1 DEF Numbered
  <2>2. CASE Connects(f, new[i])
    <3>1. PICK c \in f.connections : /\ f.end[c[1]] # NoFirst /\ f.first[c[2]] # NoFirst
                                     /\ new[i].from = f.end[c[1]] /\ new[i].to = f.first[c[2]]
      BY <2>2 DEF Connects
    <3>2. /\ new[i].from \in f.start .. n - 1 /\ new[i].to \in f.start .. n - 1
          /\ f.start \in Nat
      BY <1>6, <3>1
    <3> QED
      BY <3>2
  <2> QED
    BY <1>4, <2>1, <2>2
<1>8. Numbered(new, n) /\ Grown(l, new, f.start)
  BY <1>7 DEF Numbered, Grown
<1> QED
  BY <1>3, <1>5, <1>8

(* The caller goes on. *)
Returned(caller, a, n) ==
  IF n > a THEN Done(caller, caller.entered, a, n - 1)
  ELSE Done(caller, caller.entered, NoFirst, NoFirst)

LEMMA CallerGoesOn ==
  ASSUME NEW Parts, NEW f, NEW l, NEW new, NEW n \in Nat, NEW q, NEW a \in Nat,
         CallOf(Parts, f, q), Spans(f, n), Closed(f, l), Numbered(new, n), f.start <= a, a <= n,
         Before(f, a), Parted(l, a), Grown(l, new, a)
  PROVE  /\ CallOf(Parts, Returned(f, a, n), q)
         /\ Spans(Returned(f, a, n), n) /\ Closed(Returned(f, a, n), new)
         /\ Returned(f, a, n).start = f.start
<1>1. Closed(f, new)
  BY ClosedGrows
<1>2. CASE n > a /\ f.entered \in DOMAIN f.parts
  <2>1. PICK b : b = n - 1
    OBVIOUS
  <2>2. b \in Nat /\ RunsTo(a, b, n) /\ n <= n
    BY <1>2, <2>1 DEF RunsTo
  <2>3. Runs(f, l, new, n, n, f.entered, a, b)
    BY <1>2, <2>2 DEF Runs
  <2>4. Returned(f, a, n) = Done(f, f.entered, a, b)
    BY <1>2, <2>1 DEF Returned
  <2> QED
    BY <2>3, <2>4, RunDone
<1>3. CASE n > a /\ f.entered \notin DOMAIN f.parts
  <2>1. Returned(f, a, n) = Done(f, f.entered, a, n - 1)
    BY <1>3 DEF Returned
  <2> QED
    BY <1>1, <1>3, <2>1, NoneDone
<1>4. CASE ~(n > a)
  <2>1. Returned(f, a, n) = Done(f, f.entered, NoFirst, NoFirst)
    BY <1>4 DEF Returned
  <2> QED
    BY <1>1, <2>1, EmptyDone
<1> QED
  BY <1>2, <1>3, <1>4

LEMMA LeaveKeeps ==
  ASSUME NEW Parts, Extracted(Parts), LeaveCall
  PROVE  Extracted(Parts)'
<1>1. /\ frames # <<>>
      /\ links' = links \o SetToSeq({d \in ConnectionDeps(Top) : d.from # d.to})
      /\ freed' = freed \cup Top.qubits
      /\ UNCHANGED <<emitted, qubitIds>>
  BY DEF LeaveCall, Extracting
<1>2. PICK fs : fs = Front(frames)
  OBVIOUS
<1>3. PICK k : k = Len(fs)
  OBVIOUS
<1>4. frames' = IF k = 0 THEN <<>>
                ELSE [fs EXCEPT ![k] = Returned(fs[k], Top.start, NextId)]
  BY <1>2, <1>3, Zenon DEF LeaveCall, Returned
<1>5. PICK f, l, new, n, q : f = Top /\ l = links /\ new = links' /\ n = NextId /\ q = qubitIds
  OBVIOUS
<1>6. CallOf(Parts, f, q) /\ Spans(f, n) /\ Closed(f, l) /\ n \in Nat /\ q \in Nat
  BY <1>1, <1>5, TopCall
<1>7. /\ IsList(emitted) /\ IsList(l) /\ Numbered(l, n) /\ NoCycle(l)
      /\ freed \subseteq 0 .. q - 1 /\ Calls(Parts, frames, l, n, q)
  BY <1>5 DEF Extracted
<1>8. IsList(new) /\ Numbered(new, n) /\ NoCycle(new) /\ Grown(l, new, f.start)
  <2>1. new = l \o ConnectionList(f)
    BY <1>1, <1>5 DEF ConnectionList
  <2> QED
    BY <1>6, <1>7, <2>1, Connected
<1>9. /\ Calls(Parts, fs, l, n, q) /\ k = Len(frames) - 1
      /\ \A d \in 1 .. k : fs[d] = frames[d]
  <2>1. /\ Calls(Parts, Front(frames), l, n, q) /\ Len(Front(frames)) = Len(frames) - 1
        /\ \A d \in 1 .. Len(frames) - 1 : Front(frames)[d] = frames[d]
    BY <1>1, <1>7, CallPopped
  <2> QED
    BY <1>2, <1>3, <2>1
<1>10. CASE k = 0
  <2>1. frames' = <<>>
    BY <1>4, <1>10
  <2>2. IsList(<<>>) /\ DOMAIN <<>> = {}
    <3>1. <<>> \in Seq({})
      OBVIOUS
    <3> QED
      BY <3>1 DEF IsList
  <2>3. Calls(Parts, <<>>, new, n, q)
    BY <2>2 DEF Calls
  <2> QED
    BY <1>1, <1>5, <1>6, <1>7, <1>8, <2>1, <2>3 DEF Extracted, NextId, CallOf
<1>11. CASE k # 0
  <2>1. PICK c : c = fs[k]
    OBVIOUS
  <2>2. k \in DOMAIN fs /\ k \in DOMAIN frames /\ Len(frames) \in DOMAIN frames
        /\ k < Len(frames) /\ c = frames[k]
    <3>1. /\ DOMAIN frames = 1 .. Len(frames) /\ Len(frames) \in Nat
          /\ DOMAIN fs = 1 .. Len(fs) /\ Len(fs) \in Nat
      BY <1>7, <1>9, ListShape DEF Calls
    <3> QED
      BY <1>3, <1>9, <1>11, <2>1, <3>1
  <2>3. CallOf(Parts, c, q) /\ Spans(c, n) /\ Closed(c, l)
    BY <1>9, <2>1, <2>2 DEF Calls
  <2>4. PICK a : a = f.start
    OBVIOUS
  <2>5. f = frames[Len(frames)]
    BY <1>5 DEF Top
  <2>6. c.start <= a /\ Before(c, a)
    BY <1>7, <2>2, <2>4, <2>5 DEF Calls, Before
  <2>7. a \in Nat /\ a <= n
    BY <1>6, <2>4 DEF Spans
  <2>8. Parted(l, a)
    BY <1>6, <2>4 DEF Closed, Parted
  <2>9. Grown(l, new, a)
    BY <1>8, <2>4
  <2>10. PICK g : g = Returned(c, a, n)
    OBVIOUS
  <2>11. CallOf(Parts, g, q) /\ Spans(g, n) /\ Closed(g, new) /\ g.start = c.start
    BY <1>6, <1>8, <2>3, <2>6, <2>7, <2>8, <2>9, <2>10, CallerGoesOn
  <2>12. frames' = [fs EXCEPT ![Len(fs)] = g]
    BY <1>3, <1>4, <1>5, <1>11, <2>1, <2>4, <2>10
  <2>13. Calls(Parts, [fs EXCEPT ![Len(fs)] = g], new, n, q)
    <3>1. Grown(l, new, g.start)
      <4>1. g.start \in Nat /\ g.start <= a
        BY <1>6, <2>6, <2>11 DEF Spans
      <4>2. \A i \in DOMAIN new : new[i].from \in Nat /\ new[i].to \in Nat
        BY <1>6, <1>8 DEF Numbered
      <4> QED
        BY <2>7, <2>9, <4>1, <4>2 DEF Grown
    <3>2. fs # <<>> /\ g.start = fs[Len(fs)].start
      <4>1. fs # <<>>
        BY <2>2
      <4> QED
        BY <1>3, <2>1, <2>11, <4>1
    <3>3. n <= n /\ q <= q
      BY <1>6
    <3> QED
      BY <1>6, <1>8, <1>9, <2>11, <3>1, <3>2, <3>3, TopReplaced
  <2> QED
    BY <1>1, <1>5, <1>6, <1>7, <1>8, <2>12, <2>13 DEF Extracted, NextId, CallOf
<1> QED
  BY <1>10, <1>11

(* What the adapter hands over: each dependency once. *)
LEMMA BloqSound ==
  ASSUME NEW Parts, Extracted(Parts), emitted # <<>>
  PROVE  Sound(emitted, SetToSeq(ToSet(links)), QubitCount(qubitIds))
<1>1. PICK list : list = SetToSeq(ToSet(links))
  OBVIOUS
<1>2. /\ IsList(emitted) /\ IsList(links) /\ NoCycle(links) /\ Numbered(links, NextId)
      /\ qubitIds \in Nat
      /\ \A i \in DOMAIN emitted : Numbers(emitted[i], i - 1, QubitCount(qubitIds))
  BY DEF Extracted
<1>3. IsFiniteSet(ToSet(links))
  <2> DEFINE D == DOMAIN links
             g == [i \in D |-> links[i]]
  <2>1. D = 1 .. Len(links) /\ Len(links) \in Nat
    BY <1>2, ListShape
  <2>2. IsFiniteSet(D)
    BY <2>1, FS_Interval
  <2>3. g \in Surjection(D, ToSet(links))
    BY DEF ToSet, Surjection
  <2> HIDE DEF D, g
  <2> QED
    BY <2>2, <2>3, FS_Surjection
<1>4. list \in Seq(ToSet(links))
  BY <1>1, <1>3, Listed
<1>5. \A i \in DOMAIN list : \E j \in DOMAIN links : list[i] = links[j]
  <2> SUFFICES ASSUME NEW i \in DOMAIN list
               PROVE  \E j \in DOMAIN links : list[i] = links[j]
    OBVIOUS
  <2>1. list[i] \in ToSet(links)
    BY <1>4, LenProperties, ElementOfSeq
  <2> QED
    BY <2>1 DEF ToSet
<1>6. NoCycle(list)
  <2> SUFFICES ASSUME NEW S \in SUBSET Nat, Blocked(list, S)
               PROVE  S = {}
    BY DEF NoCycle
  <2>1. Blocked(links, S)
    <3> SUFFICES ASSUME NEW m \in S
                 PROVE  \E j \in DOMAIN links : links[j].to = m /\ links[j].from \in S
      BY DEF Blocked
    <3>1. PICK i \in DOMAIN list : list[i].to = m /\ list[i].from \in S
      BY DEF Blocked
    <3> QED
      BY <1>5, <3>1
  <2> QED
    BY <1>2, <2>1 DEF NoCycle
<1>7. \A i \in DOMAIN list : /\ list[i].from \in 0 .. Len(emitted) - 1
                             /\ list[i].to \in 0 .. Len(emitted) - 1
  BY <1>2, <1>5 DEF Numbered, NextId
<1>8. ASSUME NEW i \in DOMAIN emitted
      PROVE  /\ emitted[i].id = i - 1 /\ emitted[i].active /\ emitted[i].hook = NoHook
             /\ \A q \in ToSet(emitted[i].qubits) : q >= QubitCount(qubitIds) => q \in hardware
  <2>1. Numbers(emitted[i], i - 1, QubitCount(qubitIds))
    BY <1>2
  <2>2. QubitCount(qubitIds) \in Nat
    BY <1>2 DEF QubitCount
  <2>3. \A q \in 0 .. QubitCount(qubitIds) - 1 : ~(q >= QubitCount(qubitIds))
    BY <2>2
  <2> QED
    BY <2>1, <2>3 DEF Numbers
<1>9. IsList(list)
  BY <1>4 DEF IsList
<1>10. Sound(emitted, list, QubitCount(qubitIds))
  BY <1>2, <1>6, <1>7, <1>8, <1>9 DEF Sound
<1> QED
  BY <1>1, <1>10

BloqInv(Parts) == source.frontend = "qualtran" => Extracted(Parts)

LEMMA WalkKeeps ==
  ASSUME QualtranStep, ~FinishQualtran
  PROVE  verdict = "open" /\ source.frontend = "qualtran" /\ UNCHANGED circuitVars
<1>1. CASE SkipPart
  BY <1>1, Zenon DEF SkipPart, AtPart, Extracting
<1>2. CASE LeafPart
  BY <1>2, Zenon DEF LeafPart, AtPart, Extracting
<1>3. CASE OpaquePart
  BY <1>3, Zenon DEF OpaquePart, AtPart, Extracting
<1>4. CASE EnterPart
  BY <1>4, Zenon DEF EnterPart, AtPart, Extracting
<1>5. CASE LeaveCall
  BY <1>5, Zenon DEF LeaveCall, Extracting
<1> QED
  BY <1>1, <1>2, <1>3, <1>4, <1>5 DEF QualtranStep

LEMMA QualtranAccepting ==
  ASSUME NEW Parts, Accepting, BloqInv(Parts), QualtranStep, UNCHANGED hardware
  PROVE  Accepting'
<1>1. verdict = "open" /\ source.frontend = "qualtran" /\ Extracted(Parts)
  BY WalkKeeps DEF FinishQualtran, BloqInv
<1>2. CASE FinishQualtran /\ emitted # <<>>
  <2>1. /\ source' = source
        /\ FromAdapterData(emitted, SetToSeq(ToSet(links)), QubitCount(qubitIds), 0)
    BY <1>2 DEF FinishQualtran, QubitCount
  <2>2. Sound(emitted, SetToSeq(ToSet(links)), QubitCount(qubitIds))
    BY <1>1, <1>2, BloqSound
  <2> QED
    BY <1>1, <2>1, <2>2, FromDataHands, HandsAccepting, IdleAccepting
<1>3. CASE ~(FinishQualtran /\ emitted # <<>>)
  <2>1. UNCHANGED circuit
    BY <1>3, WalkKeeps DEF FinishQualtran, circuitVars, Failed
  <2> QED
    BY <1>1, <2>1, IdleAccepting
<1> QED
  BY <1>2, <1>3

LEMMA BloqInit ==
  ASSUME NEW Statements, NEW Parts, InRange(Statements, Parts), Init
  PROVE  BloqInv(Parts)
<1> SUFFICES ASSUME source.frontend = "qualtran"
             PROVE  Extracted(Parts)
  BY DEF BloqInv
<1>1. /\ emitted = <<>> /\ links = <<>> /\ qubitIds = 0 /\ freed = {}
      /\ frames = IF source.bloq.type # "skip" THEN <<Frame(source.bloq)>> ELSE <<>>
  BY DEF Init
<1>2. IsList(<<>>) /\ DOMAIN <<>> = {} /\ Len(<<>>) = 0
  <2>1. <<>> \in Seq({})
    OBVIOUS
  <2> QED
    BY <2>1 DEF IsList
<1>3. NextId = 0
  BY <1>1, <1>2 DEF NextId
<1>4. Numbered(links, NextId)
  BY <1>1, <1>2 DEF Numbered
<1>5. NoCycle(links)
  BY <1>1, <1>2 DEF NoCycle, Blocked
<1>6. Calls(Parts, <<>>, links, NextId, qubitIds)
  BY <1>2 DEF Calls
<1>7. Calls(Parts, frames, links, NextId, qubitIds)
  <2>1. CASE source.bloq.type = "skip"
    BY <1>1, <1>6, <2>1
  <2>2. CASE source.bloq.type # "skip"
    <3>1. source.bloq \in Parts
      BY DEF InRange, Init
    <3>2. PICK g : g = Frame(source.bloq)
      OBVIOUS
    <3>3. CallOf(Parts, g, qubitIds) /\ Spans(g, NextId) /\ Closed(g, links) /\ g.start = NextId
      BY <1>1, <1>2, <1>4, <3>1, <3>2, CallBegins
    <3>4. NextId \in Nat
      BY <1>3
    <3>5. Calls(Parts, Append(<<>>, g), links, NextId, qubitIds)
      BY <1>6, <3>3, <3>4, CallPushed
    <3>6. Append(<<>>, g) = <<g>>
      OBVIOUS
    <3>7. frames = <<g>>
      BY <1>1, <2>2, <3>2
    <3> QED
      BY <3>5, <3>6, <3>7
  <2> QED
    BY <2>1, <2>2
<1>8. /\ IsList(emitted) /\ IsList(links) /\ qubitIds \in Nat /\ freed \subseteq 0 .. qubitIds - 1
      /\ \A i \in DOMAIN emitted : Numbers(emitted[i], i - 1, QubitCount(qubitIds))
  BY <1>1, <1>2
<1> QED
  BY <1>4, <1>5, <1>7, <1>8 DEF Extracted

LEMMA BloqStep ==
  ASSUME NEW Statements, NEW Parts, InRange(Statements, Parts), BloqInv(Parts), [Next]_vars
  PROVE  BloqInv(Parts)'
<1> SUFFICES ASSUME source'.frontend = "qualtran"
             PROVE  Extracted(Parts)'
  BY DEF BloqInv
<1>1. Extracted(Parts)
  BY SourceKept DEF BloqInv
<1>2. CASE UNCHANGED qualtranVars
  <2>1. NextId' = NextId
    BY <1>2 DEF NextId, qualtranVars
  <2> QED
    BY <1>1, <1>2, <2>1 DEF Extracted, qualtranVars
<1>3. CASE QualtranStep /\ ~UNCHANGED qualtranVars
  <2>1. SkipPart \/ LeafPart \/ OpaquePart \/ EnterPart \/ LeaveCall
    <3>1. FinishQualtran => UNCHANGED qualtranVars
      BY DEF FinishQualtran
    <3> QED
      BY <1>3, <3>1 DEF QualtranStep
  <2> QED
    BY <1>1, <2>1, SkipKeeps, LeafKeeps, OpaqueKeeps, EnterKeeps, LeaveKeeps
<1>4. QualtranStep \/ UNCHANGED qualtranVars
  BY DEF Next, FrontEndStep, vars, frontVars
<1> QED
  BY <1>2, <1>3, <1>4

(* All that the argument needs. *)
AcceptInv(Statements, Commands, Bloqs) ==
  /\ OrderInv(Statements, Commands) /\ InNumbers
  /\ QiskitInv /\ KeptInv /\ BloqInv(Bloqs)
  /\ Accepting

LEMMA AcceptingStep ==
  ASSUME NEW Statements, NEW Commands, NEW Bloqs,
         AcceptInv(Statements, Commands, Bloqs), [Next]_vars
  PROVE  Accepting'
<1>1. /\ Builds /\ InNumbers /\ QiskitInv /\ KeptInv /\ BloqInv(Bloqs) /\ Accepting
  BY DEF AcceptInv, OrderInv
<1>2. CASE UNCHANGED vars
  <2>1. UNCHANGED <<circuitVars, kahnVars>> /\ UNCHANGED <<source, circuit, hardware, verdict>>
    BY <1>2 DEF vars, circuitVars, frontVars, qasmVars
  <2>2. KahnInv => KahnInv'
    BY <2>1, KahnStep
  <2>3. Clean' <=> Clean
    BY <2>1, SameClean
  <2> QED
    BY <1>1, <2>1, <2>2, <2>3 DEF Accepting, Ours
<1>3. CASE ReadJson \/ UseFixture
  <2>1. source' = source /\ ~Ours /\ verdict' = "built"
    BY <1>3 DEF ReadJson, UseFixture, Ours
  <2> QED
    BY <2>1 DEF Accepting, Ours
<1>4. CASE QasmStep
  BY <1>1, <1>4, QasmAccepting
<1>5. CASE TketStep /\ UNCHANGED qasmVars
  BY <1>1, <1>5, TketAccepting DEF qasmVars
<1>6. CASE QiskitStep /\ UNCHANGED qasmVars
  BY <1>1, <1>6, QiskitAccepting DEF qasmVars
<1>7. CASE QualtranStep /\ UNCHANGED qasmVars
  BY <1>1, <1>7, QualtranAccepting DEF qasmVars
<1>8. CASE ValidateStep /\ UNCHANGED frontVars
  BY <1>1, <1>8, ValidateAccepts DEF frontVars, qasmVars
<1> QED
  BY <1>2, <1>3, <1>4, <1>5, <1>6, <1>7, <1>8 DEF Next, FrontEndStep

LEMMA AcceptInit ==
  ASSUME NEW Statements, NEW Commands, NEW Bloqs,
         WellFormed(Statements, Commands), InRange(Statements, Bloqs), Init
  PROVE  AcceptInv(Statements, Commands, Bloqs)
<1>1. OrderInv(Statements, Commands) /\ InNumbers
  BY OrderInit, InNumbersInit
<1>2. QiskitInv
  BY QiskitInit
<1>3. KeptInv
  <2> SUFFICES ASSUME source.frontend = "qiskit"
               PROVE  KeptInOrder
    BY DEF KeptInv
  <2>1. /\ source.qubits \in Nat
        /\ \A n \in ToSet(source.nodes) : ToSet(n.qubits) \subseteq 0 .. source.qubits - 1
    BY DEF InRange, Init
  <2>2. NodesOnQubits
    BY <2>1 DEF NodesOnQubits, ToSet
  <2>3. kept = <<>> /\ nodeIds = <<>>
    BY DEF Init
  <2> QED
    BY <2>2, <2>3 DEF KeptInOrder
<1>4. BloqInv(Bloqs)
  BY BloqInit
<1>5. Accepting
  BY DEF Accepting, Init
<1> QED
  BY <1>1, <1>2, <1>3, <1>4, <1>5 DEF AcceptInv

LEMMA AcceptStep ==
  ASSUME NEW Statements, NEW Commands, NEW Bloqs,
         WellFormed(Statements, Commands), InRange(Statements, Bloqs),
         AcceptInv(Statements, Commands, Bloqs), [Next]_vars
  PROVE  AcceptInv(Statements, Commands, Bloqs)'
<1>1. /\ OrderInv(Statements, Commands) /\ InNumbers
      /\ QiskitInv /\ KeptInv /\ BloqInv(Bloqs) /\ Accepting
  BY DEF AcceptInv
<1>2. OrderInv(Statements, Commands)' /\ InNumbers'
  BY <1>1, OrderStep, NumbersStep
<1>3. QiskitInv' /\ KeptInv'
  BY <1>1, NodesStep, KeptStep
<1>4. BloqInv(Bloqs)'
  BY <1>1, BloqStep
<1>5. Accepting'
  BY AcceptingStep
<1> QED
  BY <1>2, <1>3, <1>4, <1>5 DEF AcceptInv

(* validate never rejects a circuit that an adapter has built, but for     *)
(* what the program itself gets wrong (finish of the adapters against      *)
(* every check of validate).                                               *)
THEOREM AdaptersPass ==
  ASSUME NEW CONSTANT Statements, NEW CONSTANT Commands, NEW CONSTANT Bloqs,
         WellFormed(Statements, Commands), InRange(Statements, Bloqs)
  PROVE  Spec => [](source.frontend # "testkit" => AdaptersAccepted)
<1>1. Init => AcceptInv(Statements, Commands, Bloqs)
  BY AcceptInit
<1>2. AcceptInv(Statements, Commands, Bloqs) /\ [Next]_vars
        => AcceptInv(Statements, Commands, Bloqs)'
  BY AcceptStep
<1>3. AcceptInv(Statements, Commands, Bloqs)
        => (source.frontend # "testkit" => AdaptersAccepted)
  BY AcceptingAccepts DEF AcceptInv
<1> QED
  BY <1>1, <1>2, <1>3, PTL DEF Spec

-----------------------------------------------------------------------------
(* The T count.  The T gates that the parts still to be walked will bring, *)
(* each with the call it belongs to.                                       *)
Owed(fs) == UNION {{d} \X Units(fs[d].parts, fs[d].left) : d \in DOMAIN fs}
TGates(s) == CountOf(s, {"tgate"})

LEMMA TGatesJoined ==
  ASSUME NEW s, NEW new, IsList(s), IsList(new)
  PROVE  /\ TGates(s) \in Nat /\ TGates(new) \in Nat
         /\ TGates(s \o new) = TGates(s) + TGates(new)
<1> DEFINE n == Len(s)
           A == {i \in DOMAIN s : s[i].kind \in {"tgate"}}
           B == {i \in DOMAIN new : new[i].kind \in {"tgate"}}
           C == {i \in DOMAIN (s \o new) : (s \o new)[i].kind \in {"tgate"}}
           f == [i \in B |-> n + i]
           D == {n + i : i \in B}
<1>1. /\ n \in Nat /\ DOMAIN s = 1 .. n
      /\ Len(new) \in Nat /\ DOMAIN new = 1 .. Len(new)
  BY ListShape
<1>2. IsFiniteSet(A) /\ Cardinality(A) \in Nat
  <2>1. IsFiniteSet(1 .. n) /\ A \in SUBSET (1 .. n)
    BY <1>1, FS_Interval
  <2> QED
    BY <2>1, FS_Subset, FS_CardinalityType
<1>3. IsFiniteSet(B) /\ Cardinality(B) \in Nat
  <2>1. IsFiniteSet(1 .. Len(new)) /\ B \in SUBSET (1 .. Len(new))
    BY <1>1, FS_Interval
  <2> QED
    BY <2>1, FS_Subset, FS_CardinalityType
<1>4. IsFiniteSet(D) /\ Cardinality(D) = Cardinality(B)
  <2>1. \A i, j \in B : n + i = n + j => i = j
    BY <1>1
  <2>2. f \in Bijection(B, D)
    <3>1. f \in Injection(B, D)
      BY <2>1 DEF Injection, IsInjective
    <3>2. f \in Surjection(B, D)
      BY DEF Surjection
    <3> QED
      BY <3>1, <3>2 DEF Bijection
  <2> HIDE DEF B, D, f
  <2>3. ExistsBijection(B, D)
    BY <2>2 DEF ExistsBijection
  <2> QED
    BY <1>3, <2>3, FS_Bijection
<1>5. A \cap D = {}
  BY <1>1
<1>6. C = A \cup D
  <2>1. PICK r : r = s \o new
    OBVIOUS
  <2>2. IsList(r) /\ Len(r) = n + Len(new)
    BY <2>1, Joined
  <2>3. DOMAIN r = 1 .. n + Len(new)
    BY <2>2, ListShape
  <2>4. /\ \A i \in 1 .. n : r[i] = s[i]
        /\ \A i \in 1 .. Len(new) : r[n + i] = new[i]
    <3>1. PICK S, T : s \in Seq(S) /\ new \in Seq(T)
      BY DEF IsList
    <3>2. s \in Seq(S \cup T) /\ new \in Seq(S \cup T)
      BY <3>1
    <3>3. \A i \in 1 .. n + Len(new) : r[i] = IF i <= n THEN s[i] ELSE new[i - n]
      BY <2>1, <3>2, ConcatProperties
    <3>4. \A i \in 1 .. Len(new) : n + i \in 1 .. n + Len(new) /\ ~(n + i <= n) /\ (n + i) - n = i
      BY <1>1
    <3> QED
      BY <1>1, <3>3, <3>4
  <2>5. C = {i \in 1 .. n + Len(new) : r[i].kind \in {"tgate"}}
    BY <2>1, <2>3
  <2>6. ASSUME NEW i \in C
        PROVE  i \in A \cup D
    <3>1. CASE i <= n
      BY <1>1, <2>4, <2>5, <3>1
    <3>2. CASE ~(i <= n)
      <4>1. i - n \in 1 .. Len(new) /\ i = n + (i - n)
        BY <1>1, <2>5, <3>2
      <4>2. i - n \in B
        BY <1>1, <2>4, <2>5, <4>1
      <4> QED
        BY <4>1, <4>2
    <3> QED
      BY <3>1, <3>2
  <2>7. A \subseteq C
    BY <1>1, <2>4, <2>5
  <2>8. D \subseteq C
    BY <1>1, <2>4, <2>5
  <2> QED
    BY <2>6, <2>7, <2>8
<1>7. Cardinality(C) = Cardinality(A) + Cardinality(B)
  <2> HIDE DEF A, B, C, D
  <2>1. Cardinality(A \cup D) = Cardinality(A) + Cardinality(D) - Cardinality(A \cap D)
    BY <1>2, <1>4, FS_Union
  <2> QED
    BY <1>2, <1>3, <1>4, <1>5, <1>6, <2>1, FS_EmptySet
<1>8. TGates(s) = Cardinality(A) /\ TGates(new) = Cardinality(B) /\ TGates(s \o new) = Cardinality(C)
  BY DEF TGates, CountOf
<1> QED
  BY <1>2, <1>3, <1>7, <1>8

(* The units of one call, or of one part. *)
LEMMA Labelled ==
  ASSUME NEW T, IsFiniteSet(T), NEW d
  PROVE  IsFiniteSet({d} \X T) /\ Cardinality({d} \X T) = Cardinality(T)
<1>1. PICK D : D = {d}
  OBVIOUS
<1>2. IsFiniteSet(D) /\ Cardinality(D) = 1
  BY <1>1, FS_Singleton
<1>3. IsFiniteSet(D \X T) /\ Cardinality(D \X T) = Cardinality(D) * Cardinality(T)
  BY <1>2, FS_Product
<1>4. Cardinality(T) \in Nat
  BY FS_CardinalityType
<1>5. 1 * Cardinality(T) = Cardinality(T)
  BY <1>4
<1>6. Cardinality(D \X T) = Cardinality(T)
  BY <1>2, <1>3, <1>5, Zenon
<1> QED
  BY <1>1, <1>3, <1>6

LEMMA Counting ==
  \A t \in Nat : IsFiniteSet(1 .. t) /\ Cardinality(1 .. t) = t
BY FS_Interval

(* Call d takes part i off its list, and t gates are no longer owed. *)
Pays(fs, hs, d, i, t) ==
  /\ d \in DOMAIN fs /\ i \in fs[d].left /\ t \in Nat /\ t = fs[d].parts[i].tcount
  /\ DOMAIN hs = DOMAIN fs /\ \A e \in DOMAIN fs : e # d => hs[e] = fs[e]
  /\ hs[d].parts = fs[d].parts /\ hs[d].left = fs[d].left \ {i}

LEMMA OwedPaid ==
  ASSUME NEW fs, NEW hs, NEW d, NEW i, NEW t, Pays(fs, hs, d, i, t), IsFiniteSet(Owed(fs))
  PROVE  /\ IsFiniteSet(Owed(hs)) /\ Cardinality(Owed(hs)) \in Nat
         /\ Cardinality(Owed(fs)) = Cardinality(Owed(hs)) + t
<1>1. /\ DOMAIN hs = DOMAIN fs /\ \A e \in DOMAIN fs : e # d => hs[e] = fs[e]
      /\ hs[d].parts = fs[d].parts /\ hs[d].left = fs[d].left \ {i}
      /\ d \in DOMAIN fs /\ i \in fs[d].left /\ t \in Nat /\ t = fs[d].parts[i].tcount
  BY DEF Pays
<1>0. PICK T : T = 1 .. t
  OBVIOUS
<1>8. PICK U : U = {i} \X T
  OBVIOUS
<1> DEFINE share == {d} \X U
<1>2. Owed(hs) = Owed(fs) \ share
  <2>1. ASSUME NEW x
        PROVE  x \in Owed(hs) <=> x \in Owed(fs) \ share
    <3>1. x \in Owed(hs) <=> \E e \in DOMAIN fs : \E c \in hs[e].left :
                                \E k \in 1 .. hs[e].parts[c].tcount : x = <<e, <<c, k>>>>
      BY <1>1 DEF Owed, Units
    <3>2. x \in Owed(fs) <=> \E e \in DOMAIN fs : \E c \in fs[e].left :
                                \E k \in 1 .. fs[e].parts[c].tcount : x = <<e, <<c, k>>>>
      BY DEF Owed, Units
    <3>3. x \in share <=> \E k \in 1 .. t : x = <<d, <<i, k>>>>
      BY <1>0, <1>8
    <3> HIDE DEF share
    <3>4. ASSUME x \in Owed(hs) PROVE x \in Owed(fs) /\ x \notin share
      <4>0. PICK e \in DOMAIN fs : \E c \in hs[e].left :
                   \E k \in 1 .. hs[e].parts[c].tcount : x = <<e, <<c, k>>>>
        BY <3>1, <3>4
      <4>1. PICK c \in hs[e].left :
                   \E k \in 1 .. hs[e].parts[c].tcount : x = <<e, <<c, k>>>>
        BY <4>0
      <4>2. PICK k \in 1 .. hs[e].parts[c].tcount : x = <<e, <<c, k>>>>
        BY <4>1
      <4>3. c \in fs[e].left /\ hs[e].parts[c] = fs[e].parts[c] /\ ~(e = d /\ c = i)
        BY <1>1, <4>1
      <4>4. x \in Owed(fs)
        BY <3>2, <4>2, <4>3
      <4>5. x \notin share
        BY <3>3, <4>2, <4>3
      <4> QED
        BY <4>4, <4>5
    <3>5. ASSUME x \in Owed(fs), x \notin share PROVE x \in Owed(hs)
      <4>0. PICK e \in DOMAIN fs : \E c \in fs[e].left :
                   \E k \in 1 .. fs[e].parts[c].tcount : x = <<e, <<c, k>>>>
        BY <3>2, <3>5
      <4>1. PICK c \in fs[e].left :
                   \E k \in 1 .. fs[e].parts[c].tcount : x = <<e, <<c, k>>>>
        BY <4>0
      <4>2. PICK k \in 1 .. fs[e].parts[c].tcount : x = <<e, <<c, k>>>>
        BY <4>1
      <4>3. ~(e = d /\ c = i)
        BY <1>1, <3>3, <3>5, <4>2
      <4>4. c \in hs[e].left /\ hs[e].parts[c] = fs[e].parts[c]
        BY <1>1, <4>1, <4>3
      <4> QED
        BY <3>1, <4>2, <4>4
    <3> QED
      BY <3>4, <3>5
  <2> QED
    BY <2>1
<1>3. share \subseteq Owed(fs)
  BY <1>0, <1>1, <1>8 DEF Owed, Units
<1>4. IsFiniteSet(share) /\ Cardinality(share) = t
  <2>1. IsFiniteSet(T) /\ Cardinality(T) = t
    BY <1>0, <1>1, Counting
  <2>2. IsFiniteSet(U) /\ Cardinality(U) = t
    BY <1>8, <2>1, Labelled, Zenon
  <2> QED
    BY <2>2, Labelled, Zenon
<1> HIDE DEF share
<1>5. /\ IsFiniteSet(Owed(hs))
      /\ Cardinality(Owed(hs)) = Cardinality(Owed(fs)) - Cardinality(Owed(fs) \cap share)
  <2>1. PICK O : O = Owed(fs)
    OBVIOUS
  <2>2. IsFiniteSet(O \ share) /\ Cardinality(O \ share) = Cardinality(O) - Cardinality(O \cap share)
    BY <2>1, FS_Difference
  <2> QED
    BY <1>2, <2>1, <2>2, Zenon
<1>6. Owed(fs) \cap share = share
  BY <1>3
<1>7. Cardinality(Owed(fs)) \in Nat /\ Cardinality(Owed(hs)) \in Nat
  BY <1>5, FS_CardinalityType
<1>9. Cardinality(Owed(fs)) = Cardinality(Owed(hs)) + t
  <2>1. Cardinality(Owed(fs) \cap share) = t
    BY <1>4, <1>6, Zenon
  <2>2. Cardinality(Owed(hs)) = Cardinality(Owed(fs)) - t
    BY <1>5, <2>1, Zenon
  <2> QED
    BY <1>1, <1>7, <2>2
<1> QED
  BY <1>5, <1>7, <1>9

(* A call that begins owes what its bloq does. *)
LEMMA FrameOwes ==
  ASSUME NEW Statements, NEW Bloqs, InRange(Statements, Bloqs), Additive(Bloqs), NEW b \in Bloqs,
         NEW d
  PROVE  /\ IsFiniteSet({d} \X Units(Frame(b).parts, Frame(b).left))
         /\ Cardinality({d} \X Units(Frame(b).parts, Frame(b).left)) = b.tcount
<1> DEFINE f == Frame(b)
<1>1. b.tcount \in Nat /\ b.parts \in Seq(Bloqs)
  BY DEF InRange
<1>2. f.parts = PartsOf(b).parts /\ f.left = DOMAIN PartsOf(b).parts
  BY DEF Frame
<1> HIDE DEF f
<1>3. CASE b.type = "parts" /\ b.decomposes
  <2>1. PartsOf(b).parts = b.parts
    BY <1>3 DEF PartsOf
  <2>2. PICK U : U = Units(b.parts, DOMAIN b.parts)
    OBVIOUS
  <2>3. IsFiniteSet(U)
    <3> DEFINE T(c) == {c} \X (1 .. b.parts[c].tcount)
               all == {T(c) : c \in DOMAIN b.parts}
    <3>1. DOMAIN b.parts = 1 .. Len(b.parts) /\ Len(b.parts) \in Nat
      BY <1>1, LenProperties
    <3>2. IsFiniteSet(DOMAIN b.parts)
      BY <3>1, FS_Interval
    <3>3. \A c \in DOMAIN b.parts : IsFiniteSet(T(c))
      <4> SUFFICES ASSUME NEW c \in DOMAIN b.parts PROVE IsFiniteSet(T(c))
        OBVIOUS
      <4>1. b.parts[c] \in Bloqs
        BY <1>1, <3>1, ElementOfSeq
      <4>2. b.parts[c].tcount \in Nat
        BY <4>1 DEF InRange
      <4>3. PICK T1 : T1 = 1 .. b.parts[c].tcount
        OBVIOUS
      <4>4. IsFiniteSet(T1)
        BY <4>2, <4>3, FS_Interval
      <4>5. IsFiniteSet({c} \X T1)
        BY <4>4, Labelled, Zenon
      <4> QED
        BY <4>3, <4>5
    <3>4. IsFiniteSet(all)
      <4> DEFINE h == [c \in DOMAIN b.parts |-> T(c)]
      <4>1. h \in Surjection(DOMAIN b.parts, all)
        BY DEF Surjection
      <4> HIDE DEF h, all
      <4> QED
        BY <3>2, <4>1, FS_Surjection
    <3>5. \A X \in all : IsFiniteSet(X)
      BY <3>3
    <3>6. U = UNION all
      BY <2>2 DEF Units
    <3> HIDE DEF all
    <3> QED
      BY <3>4, <3>5, <3>6, FS_UNION
  <2>4. Cardinality(U) = b.tcount
    BY <1>3, <2>2 DEF Additive
  <2>5. IsFiniteSet({d} \X U) /\ Cardinality({d} \X U) = b.tcount
    BY <2>3, <2>4, Labelled, Zenon
  <2>6. Units(f.parts, f.left) = U
    BY <1>2, <2>1, <2>2, Zenon
  <2> QED
    BY <2>5, <2>6, Zenon DEF f
<1>4. CASE ~(b.type = "parts" /\ b.decomposes)
  <2>1. PartsOf(b).parts = <<b>>
    BY <1>4 DEF PartsOf
  <2>2. Units(<<b>>, DOMAIN <<b>>) = {1} \X (1 .. b.tcount)
    <3>1. DOMAIN <<b>> = {1} /\ <<b>>[1] = b
      OBVIOUS
    <3> QED
      BY <3>1 DEF Units
  <2>3. Units(f.parts, f.left) = {1} \X (1 .. b.tcount)
    BY <1>2, <2>1, <2>2, Zenon
  <2>0. PICK T : T = 1 .. b.tcount
    OBVIOUS
  <2>4. PICK U : U = {1} \X T
    OBVIOUS
  <2>5. IsFiniteSet({d} \X U) /\ Cardinality({d} \X U) = b.tcount
    <3>1. IsFiniteSet(T) /\ Cardinality(T) = b.tcount
      BY <1>1, <2>0, FS_Interval
    <3>2. IsFiniteSet(U) /\ Cardinality(U) = b.tcount
      BY <2>4, <3>1, Labelled, Zenon
    <3> QED
      BY <3>2, Labelled, Zenon
  <2> QED
    BY <2>0, <2>3, <2>4, <2>5, Zenon DEF f
<1> QED
  BY <1>3, <1>4

(* ... in addition to what the calls in progress owe. *)
LEMMA OwedPushed ==
  ASSUME NEW fs, IsList(fs), NEW e, NEW n \in Nat, n = Len(fs) + 1,
         IsFiniteSet(Owed(fs)), IsFiniteSet({n} \X Units(e.parts, e.left))
  PROVE  /\ IsFiniteSet(Owed(Append(fs, e)))
         /\ Cardinality(Owed(Append(fs, e)))
              = Cardinality(Owed(fs)) + Cardinality({n} \X Units(e.parts, e.left))
<1> DEFINE hs == Append(fs, e)
           new == {n} \X Units(e.parts, e.left)
<1>1. DOMAIN fs = 1 .. Len(fs) /\ Len(fs) \in Nat
  BY ListShape
<1>2. DOMAIN hs = (DOMAIN fs) \cup {n} /\ hs[n] = e /\ n \notin DOMAIN fs
      /\ \A d \in DOMAIN fs : hs[d] = fs[d]
  <2>1. PICK S : fs \in Seq(S)
    BY DEF IsList
  <2>2. fs \in Seq(S \cup {e}) /\ e \in S \cup {e}
    BY <2>1
  <2>3. /\ Append(fs, e) \in Seq(S \cup {e}) /\ Len(Append(fs, e)) = Len(fs) + 1
        /\ \A d \in 1 .. Len(fs) : Append(fs, e)[d] = fs[d]
        /\ Append(fs, e)[Len(fs) + 1] = e
    BY <2>2, AppendProperties
  <2>4. DOMAIN Append(fs, e) = 1 .. Len(fs) + 1
    BY <2>3, LenProperties
  <2> QED
    BY <1>1, <2>3, <2>4
<1> HIDE DEF hs
<1>3. Owed(hs) = Owed(fs) \cup new
  BY <1>2 DEF Owed
<1>4. Owed(fs) \cap new = {}
  BY <1>2 DEF Owed
<1>7. IsFiniteSet(new)
  OBVIOUS
<1> HIDE DEF new
<1>8. PICK O : O = Owed(fs)
  OBVIOUS
<1>9. /\ IsFiniteSet(O \cup new)
      /\ Cardinality(O \cup new) = Cardinality(O) + Cardinality(new) - Cardinality(O \cap new)
  BY <1>7, <1>8, FS_Union, Zenon
<1>5. /\ IsFiniteSet(Owed(hs))
      /\ Cardinality(Owed(hs))
           = Cardinality(Owed(fs)) + Cardinality(new) - Cardinality(Owed(fs) \cap new)
  BY <1>3, <1>8, <1>9, Zenon
<1>6. Cardinality(Owed(fs)) \in Nat /\ Cardinality(new) \in Nat
  BY <1>7, FS_CardinalityType
<1>10. Cardinality(Owed(hs)) = Cardinality(Owed(fs)) + Cardinality(new)
  <2>1. Cardinality(Owed(fs) \cap new) = 0
    BY <1>4, FS_EmptySet, Zenon
  <2>2. Cardinality(Owed(hs)) = Cardinality(Owed(fs)) + Cardinality(new) - 0
    BY <1>5, <2>1, Zenon
  <2> QED
    BY <1>6, <2>2
<1> QED
  BY <1>5, <1>10, Zenon DEF hs, new

(* A call that does not pay may go on, and one that owes nothing may end. *)
LEMMA OwedSame ==
  ASSUME NEW fs, NEW hs, DOMAIN hs \subseteq DOMAIN fs,
         \A d \in DOMAIN hs : hs[d].parts = fs[d].parts /\ hs[d].left = fs[d].left,
         \A d \in (DOMAIN fs) \ (DOMAIN hs) : fs[d].left = {}
  PROVE  Owed(hs) = Owed(fs)
<1>1. \A d \in DOMAIN hs :
        {d} \X Units(hs[d].parts, hs[d].left) = {d} \X Units(fs[d].parts, fs[d].left)
  OBVIOUS
<1>2. \A d \in (DOMAIN fs) \ (DOMAIN hs) : Units(fs[d].parts, fs[d].left) = {}
  BY DEF Units
<1> QED
  BY <1>1, <1>2 DEF Owed

(* What has been emitted, what the leaves were misjudged by and what is    *)
(* owed are together the bloq's count; the part that a call has entered is *)
(* no longer owed by that call.                                            *)
Balanced ==
  /\ \A d \in DOMAIN frames : frames[d].entered \notin frames[d].left
  /\ IsFiniteSet(Owed(frames))
  /\ TGates(emitted) \in Nat /\ missed \in Int
  /\ TGates(emitted) + missed + Cardinality(Owed(frames)) = source.bloq.tcount

(* The part that is walked next. *)
LEMMA NextPart ==
  ASSUME NEW Statements, NEW Bloqs, InRange(Statements, Bloqs), Extracted(Bloqs),
         frames # <<>>, NEW i \in Top.left
  PROVE  Top.parts[i] \in Bloqs /\ Top.parts[i].tcount \in Nat /\ i # NoFirst
<1>1. CallOf(Bloqs, Top, qubitIds)
  BY TopCall
<1>2. i \in DOMAIN Top.parts /\ Top.parts \in Seq(Bloqs)
  BY <1>1 DEF CallOf
<1>3. DOMAIN Top.parts = 1 .. Len(Top.parts) /\ Len(Top.parts) \in Nat
  BY <1>2, LenProperties
<1>4. i \in Nat /\ Top.parts[i] \in Bloqs
  BY <1>2, <1>3, ElementOfSeq
<1> QED
  BY <1>4, NoFirstAssumption DEF InRange

(* It is walked, or entered: g is the call on top, and fs all calls, then. *)
Advances(i, g, fs) ==
  /\ frames # <<>> /\ i \in Top.left
  /\ g.parts = Top.parts /\ g.left = Top.left \ {i} /\ g.entered \notin g.left
  /\ fs = [frames EXCEPT ![Len(frames)] = g]

LEMMA PartPaid ==
  ASSUME NEW Statements, NEW Bloqs, InRange(Statements, Bloqs), Extracted(Bloqs), Balanced,
         NEW i, NEW g, NEW fs, Advances(i, g, fs)
  PROVE  /\ IsFiniteSet(Owed(fs)) /\ Cardinality(Owed(fs)) \in Nat
         /\ Cardinality(Owed(frames)) = Cardinality(Owed(fs)) + Top.parts[i].tcount
         /\ \A d \in DOMAIN fs : fs[d].entered \notin fs[d].left
<1>0. /\ frames # <<>> /\ i \in Top.left
      /\ g.parts = Top.parts /\ g.left = Top.left \ {i} /\ g.entered \notin g.left
      /\ fs = [frames EXCEPT ![Len(frames)] = g]
  BY DEF Advances
<1>1. Len(frames) \in DOMAIN frames
  BY <1>0, TopCall
<1>2. PICK n, t : n = Len(frames) /\ t = Top.parts[i].tcount
  OBVIOUS
<1>3. /\ n \in DOMAIN frames /\ i \in frames[n].left /\ t \in Nat
      /\ g.parts = frames[n].parts /\ g.left = frames[n].left \ {i}
      /\ t = frames[n].parts[i].tcount
  BY <1>0, <1>1, <1>2, NextPart DEF Top
<1>4. IsFiniteSet(Owed(frames))
  BY DEF Balanced
<1>5. /\ IsFiniteSet(Owed(fs)) /\ Cardinality(Owed(fs)) \in Nat
      /\ Cardinality(Owed(frames)) = Cardinality(Owed(fs)) + t
  <2>1. fs = [frames EXCEPT ![n] = g]
    BY <1>0, <1>2
  <2>2. Pays(frames, fs, n, i, t)
    BY <1>3, <2>1 DEF Pays
  <2> QED
    BY <1>4, <2>2, OwedPaid
<1>6. \A d \in DOMAIN fs : fs[d].entered \notin fs[d].left
  BY <1>0, <1>1 DEF Balanced
<1> QED
  BY <1>2, <1>5, <1>6

(* A part that has been walked is on neither list. *)
LEMMA DoneUnentered ==
  ASSUME NEW Parts, NEW f, NEW q, CallOf(Parts, f, q), NEW i, NEW a, NEW b
  PROVE  /\ Done(f, i, a, b).parts = f.parts /\ Done(f, i, a, b).left = f.left \ {i}
         /\ Done(f, i, a, b).entered = NoFirst /\ NoFirst \notin f.left
<1>1. Done(f, i, a, b) =
        [parts |-> f.parts, connections |-> f.connections, left |-> f.left \ {i},
         entered |-> NoFirst, first |-> [f.first EXCEPT ![i] = a],
         end |-> [f.end EXCEPT ![i] = b], start |-> f.start, qubits |-> f.qubits]
  BY DoneShape
<1>2. f.left \subseteq 1 .. Len(f.parts) /\ Len(f.parts) \in Nat
  BY LenProperties DEF CallOf
<1> QED
  BY <1>1, <1>2, NoFirstAssumption

-----------------------------------------------------------------------------
(* Every step keeps the balance. *)
LEMMA SkipBalances ==
  ASSUME NEW Statements, NEW Bloqs, InRange(Statements, Bloqs), Additive(Bloqs),
         Extracted(Bloqs), Balanced, SkipPart
  PROVE  Balanced'
<1>1. PICK i : /\ frames # <<>> /\ i \in Top.left /\ Top.entered = NoFirst
               /\ Top.parts[i].type = "skip"
               /\ frames' = [frames EXCEPT ![Len(frames)].left = @ \ {i}]
               /\ UNCHANGED <<emitted, missed, source>>
  BY DEF SkipPart, AtPart, Extracting, circuitVars
<1>2. CallOf(Bloqs, Top, qubitIds) /\ Len(frames) \in DOMAIN frames
  BY <1>1, TopCall
<1>3. PICK g : g = [Top EXCEPT !.left = @ \ {i}]
  OBVIOUS
<1>4. g = [parts |-> Top.parts, connections |-> Top.connections, left |-> Top.left \ {i},
           entered |-> Top.entered, first |-> Top.first, end |-> Top.end,
           start |-> Top.start, qubits |-> Top.qubits]
  BY <1>2, <1>3 DEF CallOf
<1>5. g.parts = Top.parts /\ g.left = Top.left \ {i} /\ g.entered = Top.entered
  BY <1>4
<1>6. frames' = [frames EXCEPT ![Len(frames)] = g]
  BY <1>1, <1>2, <1>3 DEF Top
<1>7. g.entered \notin g.left
  BY <1>2, <1>5 DEF Balanced, Top
<1>8. Top.parts[i].tcount = 0
  BY <1>1, NextPart DEF Additive
<1>9. /\ IsFiniteSet(Owed(frames')) /\ Cardinality(Owed(frames')) \in Nat
      /\ Cardinality(Owed(frames)) = Cardinality(Owed(frames')) + Top.parts[i].tcount
      /\ \A d \in DOMAIN frames' : frames'[d].entered \notin frames'[d].left
  <2>1. Advances(i, g, frames')
    BY <1>1, <1>5, <1>6, <1>7 DEF Advances
  <2> QED
    BY <2>1, PartPaid
<1>10. Cardinality(Owed(frames)) = Cardinality(Owed(frames'))
  BY <1>8, <1>9
<1> QED
  BY <1>1, <1>9, <1>10 DEF Balanced

LEMMA LeafBalances ==
  ASSUME NEW Statements, NEW Bloqs, InRange(Statements, Bloqs), Additive(Bloqs),
         Extracted(Bloqs), Balanced, LeafPart
  PROVE  Balanced'
<1>1. PICK i : /\ frames # <<>> /\ i \in Top.left /\ Top.parts[i].type = "leaf"
               /\ \E q : /\ emitted' = Append(emitted, Emitted(NextId, Top.parts[i].kind, <<q>>))
                         /\ frames' = [frames EXCEPT ![Len(frames)] =
                              [Done(Top, i, NextId, NextId) EXCEPT !.qubits = @ \cup {q}]]
               /\ missed' = missed + Top.parts[i].tcount
                               - (IF Top.parts[i].kind = "tgate" THEN 1 ELSE 0)
               /\ UNCHANGED source
  BY DEF LeafPart, AtPart, Extracting, circuitVars
<1>2. PICK q : /\ emitted' = Append(emitted, Emitted(NextId, Top.parts[i].kind, <<q>>))
               /\ frames' = [frames EXCEPT ![Len(frames)] =
                    [Done(Top, i, NextId, NextId) EXCEPT !.qubits = @ \cup {q}]]
  BY <1>1
<1>3. CallOf(Bloqs, Top, qubitIds) /\ IsList(emitted)
  BY <1>1, TopCall DEF Extracted
<1>4. PICK f, n, t : f = Top /\ n = NextId /\ t = Top.parts[i].tcount
  OBVIOUS
<1>5. PICK h : h = Done(f, i, n, n)
  OBVIOUS
<1>6. PICK g : g = [h EXCEPT !.qubits = @ \cup {q}]
  OBVIOUS
<1>7. h.parts = f.parts /\ h.left = f.left \ {i} /\ h.entered = NoFirst /\ NoFirst \notin f.left
  BY <1>3, <1>4, <1>5, DoneUnentered
<1>8. g.parts = h.parts /\ g.left = h.left /\ g.entered = h.entered
  <2>1. h = [parts |-> f.parts, connections |-> f.connections, left |-> f.left \ {i},
             entered |-> NoFirst, first |-> [f.first EXCEPT ![i] = n],
             end |-> [f.end EXCEPT ![i] = n], start |-> f.start, qubits |-> f.qubits]
    BY <1>3, <1>4, <1>5, DoneShape
  <2> QED
    BY <1>6, <2>1
<1>9. frames' = [frames EXCEPT ![Len(frames)] = g]
  BY <1>2, <1>4, <1>5, <1>6
<1>10. /\ IsFiniteSet(Owed(frames')) /\ Cardinality(Owed(frames')) \in Nat
       /\ Cardinality(Owed(frames)) = Cardinality(Owed(frames')) + t
       /\ \A d \in DOMAIN frames' : frames'[d].entered \notin frames'[d].left
  <2>1. g.parts = Top.parts /\ g.left = Top.left \ {i} /\ g.entered \notin g.left
    BY <1>4, <1>7, <1>8
  <2>2. Advances(i, g, frames')
    BY <1>1, <1>9, <2>1 DEF Advances
  <2> QED
    BY <1>4, <2>2, PartPaid
<1>11. PICK e : e = Emitted(NextId, Top.parts[i].kind, <<q>>)
  OBVIOUS
<1>12. emitted' = emitted \o <<e>> /\ IsList(<<e>>) /\ DOMAIN <<e>> = {1} /\ <<e>>[1] = e
  <2>1. PICK S : emitted \in Seq(S)
    BY <1>3 DEF IsList
  <2>2. emitted \in Seq(S \cup {e}) /\ e \in S \cup {e}
    BY <2>1
  <2>3. Append(emitted, e) = emitted \o <<e>>
    BY <2>2, AppendIsConcat
  <2>4. <<e>> \in Seq({e}) /\ Len(<<e>>) = 1 /\ <<e>>[1] = e
    OBVIOUS
  <2>5. DOMAIN <<e>> = {1}
    BY <2>4, LenProperties
  <2> QED
    BY <1>2, <1>11, <2>3, <2>4, <2>5 DEF IsList
<1>13. PICK u : u = IF Top.parts[i].kind = "tgate" THEN 1 ELSE 0
  OBVIOUS
<1>14. TGates(<<e>>) = u
  <2>1. e.kind = Top.parts[i].kind
    BY <1>11 DEF Emitted
  <2>2. CASE e.kind = "tgate"
    <3>1. {k \in DOMAIN <<e>> : <<e>>[k].kind \in {"tgate"}} = {1}
      BY <1>12, <2>2
    <3>2. Cardinality({1}) = 1
      BY FS_Singleton
    <3> QED
      BY <1>13, <2>1, <2>2, <3>1, <3>2 DEF TGates, CountOf
  <2>3. CASE e.kind # "tgate"
    <3>1. {k \in DOMAIN <<e>> : <<e>>[k].kind \in {"tgate"}} = {}
      BY <1>12, <2>3
    <3> QED
      BY <1>13, <2>1, <2>3, <3>1, FS_EmptySet DEF TGates, CountOf
  <2> QED
    BY <2>2, <2>3
<1>15. TGates(emitted') = TGates(emitted) + u /\ TGates(emitted) \in Nat /\ TGates(emitted') \in Nat
  <2>1. TGates(<<e>>) \in Nat /\ TGates(emitted) \in Nat
        /\ TGates(emitted \o <<e>>) = TGates(emitted) + TGates(<<e>>)
    BY <1>3, <1>12, TGatesJoined
  <2> QED
    BY <1>12, <1>14, <2>1
<1>16. missed' = missed + t - u /\ missed \in Int /\ t \in Nat /\ u \in Nat /\ missed' \in Int
  <2>1. missed' = missed + t - u
    BY <1>1, <1>4, <1>13
  <2>2. t \in Nat /\ u \in Nat
    BY <1>1, <1>4, <1>13, NextPart
  <2>3. missed \in Int
    BY DEF Balanced
  <2> QED
    BY <2>1, <2>2, <2>3
<1>17. TGates(emitted') + missed' + Cardinality(Owed(frames'))
         = TGates(emitted) + missed + Cardinality(Owed(frames))
  BY <1>10, <1>15, <1>16
<1> QED
  BY <1>1, <1>10, <1>15, <1>16, <1>17 DEF Balanced

LEMMA OpaqueCounts ==
  ASSUME NEW b, b.tcount \in Nat, NextId \in Nat
  PROVE  IsList(OpaqueOps(b)) /\ TGates(OpaqueOps(b)) = b.tcount
<1>1. IsList(OpaqueOps(b))
  BY OpaqueLists
<1>2. CASE b.tcount = 0
  <2>1. PICK e : e = Emitted(NextId, "clifford", <<0>>)
    OBVIOUS
  <2>2. OpaqueOps(b) = <<e>> /\ e.kind = "clifford"
    BY <1>2, <2>1 DEF OpaqueOps, Emitted
  <2>3. DOMAIN <<e>> = {1} /\ <<e>>[1] = e
    OBVIOUS
  <2>4. {k \in DOMAIN <<e>> : <<e>>[k].kind \in {"tgate"}} = {}
    BY <2>2, <2>3
  <2> QED
    BY <1>1, <1>2, <2>2, <2>4, FS_EmptySet DEF TGates, CountOf
<1>3. CASE b.tcount # 0
  <2>1. OpaqueOps(b) = [k \in 1 .. b.tcount |-> Emitted(NextId + k - 1, "tgate", <<0>>)]
    BY <1>3 DEF OpaqueOps
  <2>2. \A k : Emitted(NextId + k - 1, "tgate", <<0>>).kind = "tgate"
    BY DEF Emitted
  <2>3. {k \in DOMAIN OpaqueOps(b) : OpaqueOps(b)[k].kind \in {"tgate"}} = 1 .. b.tcount
    BY <2>1, <2>2
  <2>4. Cardinality(1 .. b.tcount) = b.tcount
    BY FS_Interval
  <2> QED
    BY <1>1, <2>3, <2>4 DEF TGates, CountOf
<1> QED
  BY <1>2, <1>3

LEMMA OpaqueBalances ==
  ASSUME NEW Statements, NEW Bloqs, InRange(Statements, Bloqs), Additive(Bloqs),
         Extracted(Bloqs), Balanced, OpaquePart
  PROVE  Balanced'
<1>1. PICK i : /\ frames # <<>> /\ i \in Top.left
               /\ emitted' = emitted \o OpaqueOps(Top.parts[i])
               /\ frames' = [frames EXCEPT ![Len(frames)] =
                    Done(Top, i, NextId, NextId + Len(OpaqueOps(Top.parts[i])) - 1)]
               /\ UNCHANGED <<source, missed>>
  BY DEF OpaquePart, AtPart, Extracting, circuitVars
<1>2. CallOf(Bloqs, Top, qubitIds) /\ NextId \in Nat /\ IsList(emitted)
  BY <1>1, TopCall DEF Extracted
<1>3. PICK b, g, m : /\ b = Top.parts[i] /\ m = NextId + Len(OpaqueOps(Top.parts[i])) - 1
                     /\ g = Done(Top, i, NextId, m)
  OBVIOUS
<1>4. b.tcount \in Nat
  BY <1>1, <1>3, NextPart
<1>5. /\ g.parts = Top.parts /\ g.left = Top.left \ {i} /\ g.entered = NoFirst
      /\ NoFirst \notin Top.left
  BY <1>2, <1>3, DoneUnentered
<1>6. /\ IsFiniteSet(Owed(frames')) /\ Cardinality(Owed(frames')) \in Nat
      /\ Cardinality(Owed(frames)) = Cardinality(Owed(frames')) + b.tcount
      /\ \A d \in DOMAIN frames' : frames'[d].entered \notin frames'[d].left
  <2>1. g.entered \notin g.left
    BY <1>5
  <2>2. frames' = [frames EXCEPT ![Len(frames)] = g]
    BY <1>1, <1>3
  <2>3. Advances(i, g, frames')
    BY <1>1, <1>5, <2>1, <2>2 DEF Advances
  <2> QED
    BY <1>3, <2>3, PartPaid
<1>7. TGates(emitted') = TGates(emitted) + b.tcount /\ TGates(emitted) \in Nat
  <2>1. IsList(OpaqueOps(b)) /\ TGates(OpaqueOps(b)) = b.tcount
    BY <1>2, <1>4, OpaqueCounts
  <2>2. TGates(emitted \o OpaqueOps(b)) = TGates(emitted) + TGates(OpaqueOps(b))
        /\ TGates(emitted) \in Nat
    BY <1>2, <2>1, TGatesJoined
  <2> QED
    BY <1>1, <1>3, <2>1, <2>2
<1>8. TGates(emitted') + missed' + Cardinality(Owed(frames'))
        = TGates(emitted) + missed + Cardinality(Owed(frames))
  <2>1. missed' = missed /\ missed \in Int
    BY <1>1 DEF Balanced
  <2> QED
    BY <1>4, <1>6, <1>7, <2>1
<1> QED
  BY <1>1, <1>4, <1>6, <1>7, <1>8 DEF Balanced

LEMMA EnterBalances ==
  ASSUME NEW Statements, NEW Bloqs, InRange(Statements, Bloqs), Additive(Bloqs),
         Extracted(Bloqs), Balanced, EnterPart
  PROVE  Balanced'
<1>1. PICK i : /\ frames # <<>> /\ i \in Top.left
               /\ frames' = Append([frames EXCEPT ![Len(frames)] =
                                      [Top EXCEPT !.left = @ \ {i}, !.entered = i]],
                                   Frame(Top.parts[i]))
               /\ UNCHANGED <<emitted, missed, source>>
  BY Zenon DEF EnterPart, AtPart, Extracting, circuitVars
<1>2. CallOf(Bloqs, Top, qubitIds) /\ Len(frames) \in DOMAIN frames
  BY <1>1, TopCall
<1>3. PICK f : f = Top
  OBVIOUS
<1>4. PICK h : h = [f EXCEPT !.left = f.left \ {i}]
  OBVIOUS
<1>5. PICK g : g = [h EXCEPT !.entered = i]
  OBVIOUS
<1>6. g = [Top EXCEPT !.left = @ \ {i}, !.entered = i]
  BY <1>3, <1>4, <1>5, Zenon
<1>7. h = [parts |-> f.parts, connections |-> f.connections, left |-> f.left \ {i},
           entered |-> f.entered, first |-> f.first, end |-> f.end,
           start |-> f.start, qubits |-> f.qubits]
  BY <1>2, <1>3, <1>4 DEF CallOf
<1>8. g.parts = Top.parts /\ g.left = Top.left \ {i} /\ g.entered = i
  BY <1>3, <1>5, <1>7
<1>9. PICK fs, b : fs = [frames EXCEPT ![Len(frames)] = g] /\ b = Top.parts[i]
  OBVIOUS
<1>10. PICK e : e = Frame(b)
  OBVIOUS
<1>11. frames' = Append(fs, e)
  BY <1>1, <1>6, <1>9, <1>10
<1>12. /\ IsFiniteSet(Owed(fs)) /\ Cardinality(Owed(fs)) \in Nat
       /\ Cardinality(Owed(frames)) = Cardinality(Owed(fs)) + b.tcount
       /\ \A d \in DOMAIN fs : fs[d].entered \notin fs[d].left
  <2>1. g.entered \notin g.left
    BY <1>8
  <2>2. Advances(i, g, fs)
    BY <1>1, <1>8, <1>9, <2>1 DEF Advances
  <2> QED
    BY <1>9, <2>2, PartPaid
<1>13. b \in Bloqs /\ b.tcount \in Nat
  BY <1>1, <1>9, NextPart
<1>14. IsList(fs) /\ DOMAIN fs = 1 .. Len(fs) /\ Len(fs) \in Nat
  <2>1. PICK S : frames \in Seq(S)
    BY DEF Extracted, Calls, IsList
  <2>2. frames \in Seq(S \cup {g}) /\ g \in S \cup {g}
    BY <2>1
  <2>3. fs \in Seq(S \cup {g})
    BY <1>2, <1>9, <2>2, LenProperties, ExceptSeq
  <2> QED
    BY <2>3, LenProperties DEF IsList
<1>15. PICK n, T : n = Len(fs) + 1 /\ T = {n} \X Units(e.parts, e.left)
  OBVIOUS
<1>16. IsFiniteSet(T) /\ Cardinality(T) = b.tcount
  BY <1>10, <1>13, <1>15, FrameOwes
<1>17. IsFiniteSet(Owed(frames')) /\ Cardinality(Owed(frames')) = Cardinality(Owed(fs)) + Cardinality(T)
  <2>1. n \in Nat
    BY <1>14, <1>15
  <2> QED
    BY <1>11, <1>12, <1>14, <1>15, <1>16, <2>1, OwedPushed
<1>18. \A d \in DOMAIN frames' : frames'[d].entered \notin frames'[d].left
  <2>1. e.entered = NoFirst /\ NoFirst \notin e.left
    <3>1. e.entered = NoFirst /\ e.left = DOMAIN PartsOf(b).parts /\ e.parts = PartsOf(b).parts
      BY <1>10 DEF Frame
    <3>2. PartsOf(b).parts \in Seq(Bloqs)
      <4>1. b.parts \in Seq(Bloqs) /\ <<b>> \in Seq(Bloqs)
        BY <1>13 DEF InRange
      <4> QED
        BY <4>1 DEF PartsOf
    <3>3. DOMAIN PartsOf(b).parts \subseteq Nat
      BY <3>2, LenProperties
    <3> QED
      BY <3>1, <3>3, NoFirstAssumption
  <2>2. PICK S : fs \in Seq(S)
    BY <1>14 DEF IsList
  <2>3. fs \in Seq(S \cup {e}) /\ e \in S \cup {e}
    BY <2>2
  <2>4. /\ frames' \in Seq(S \cup {e}) /\ Len(frames') = Len(fs) + 1
        /\ \A d \in 1 .. Len(fs) : frames'[d] = fs[d]
        /\ frames'[Len(fs) + 1] = e
    BY <1>11, <2>3, AppendProperties
  <2>5. \A d \in DOMAIN frames' : (d \in DOMAIN fs /\ frames'[d] = fs[d]) \/ frames'[d] = e
    BY <1>14, <2>4, LenProperties
  <2> QED
    BY <1>12, <2>1, <2>5
<1>19. Cardinality(Owed(frames')) = Cardinality(Owed(frames))
  BY <1>12, <1>16, <1>17
<1> QED
  BY <1>1, <1>17, <1>18, <1>19 DEF Balanced

LEMMA LeaveBalances ==
  ASSUME NEW Bloqs, Extracted(Bloqs), Balanced, LeaveCall
  PROVE  Balanced'
<1>1. /\ frames # <<>> /\ Top.left = {}
      /\ UNCHANGED <<emitted, missed, source>>
  BY DEF LeaveCall, Extracting, circuitVars
<1>2. PICK fs : fs = Front(frames)
  OBVIOUS
<1>3. PICK k : k = Len(fs)
  OBVIOUS
<1>4. frames' = IF k = 0 THEN <<>>
                ELSE [fs EXCEPT ![k] = Returned(fs[k], Top.start, NextId)]
  BY <1>2, <1>3, Zenon DEF LeaveCall, Returned
<1>5. /\ Calls(Bloqs, fs, links, NextId, qubitIds) /\ k = Len(frames) - 1
      /\ \A d \in 1 .. k : fs[d] = frames[d]
  <2>1. Calls(Bloqs, frames, links, NextId, qubitIds)
    BY DEF Extracted
  <2>2. /\ Calls(Bloqs, Front(frames), links, NextId, qubitIds)
        /\ Len(Front(frames)) = Len(frames) - 1
        /\ \A d \in 1 .. Len(frames) - 1 : Front(frames)[d] = frames[d]
    BY <1>1, <2>1, CallPopped
  <2> QED
    BY <1>2, <1>3, <2>2
<1>6. /\ DOMAIN frames = 1 .. k + 1 /\ DOMAIN fs = 1 .. k /\ k \in Nat
      /\ frames[k + 1].left = {}
  <2>1. /\ DOMAIN frames = 1 .. Len(frames) /\ Len(frames) \in Nat
        /\ DOMAIN fs = 1 .. Len(fs) /\ Len(fs) \in Nat
    BY <1>5, ListShape DEF Extracted, Calls
  <2>2. Len(frames) = k + 1 /\ frames[Len(frames)].left = {}
    BY <1>1, <1>5, <2>1 DEF Top
  <2> QED
    BY <1>3, <2>1, <2>2
<1>7. /\ DOMAIN frames' = 1 .. k
      /\ \A d \in 1 .. k : /\ frames'[d].parts = frames[d].parts
                           /\ frames'[d].left = frames[d].left
                           /\ frames'[d].entered \notin frames'[d].left
  <2>1. CASE k = 0
    <3>1. frames' = <<>> /\ DOMAIN <<>> = {} /\ 1 .. k = {}
      BY <1>4, <2>1
    <3> QED
      BY <3>1
  <2>2. CASE k # 0
    <3>1. PICK c, g : c = fs[k] /\ g = Returned(c, Top.start, NextId)
      OBVIOUS
    <3>2. frames' = [fs EXCEPT ![k] = g]
      BY <1>4, <2>2, <3>1
    <3>3. CallOf(Bloqs, c, qubitIds) /\ c = frames[k] /\ k \in 1 .. k
      BY <1>5, <1>6, <2>2, <3>1 DEF Calls
    <3>4. c.entered \notin c.left
      BY <1>6, <3>3 DEF Balanced
    <3>5. \E a, b : g = Done(c, c.entered, a, b)
      BY <3>1 DEF Returned
    <3>6. /\ g.parts = c.parts /\ g.left = c.left \ {c.entered}
          /\ g.entered = NoFirst /\ NoFirst \notin c.left
      BY <3>3, <3>5, DoneUnentered
    <3>7. g.parts = c.parts /\ g.left = c.left /\ g.entered \notin g.left
      BY <3>4, <3>6
    <3>8. \A d \in 1 .. k : d # k => frames'[d] = frames[d]
      BY <1>5, <1>6, <3>2
    <3>9. DOMAIN frames' = 1 .. k /\ frames'[k] = g
      BY <1>6, <3>2, <3>3
    <3>10. \A d \in 1 .. k : frames[d].entered \notin frames[d].left
      BY <1>6 DEF Balanced
    <3> QED
      BY <3>3, <3>7, <3>8, <3>9, <3>10
  <2> QED
    BY <2>1, <2>2
<1>8. Owed(frames') = Owed(frames)
  <2>1. DOMAIN frames' \subseteq DOMAIN frames
    BY <1>6, <1>7
  <2>2. \A d \in (DOMAIN frames) \ (DOMAIN frames') : frames[d].left = {}
    BY <1>6, <1>7
  <2> QED
    BY <1>7, <2>1, <2>2, OwedSame
<1> QED
  BY <1>1, <1>7, <1>8 DEF Balanced

LEMMA BalancedInit ==
  ASSUME NEW Statements, NEW Bloqs, InRange(Statements, Bloqs), Additive(Bloqs), Init,
         source.frontend = "qualtran"
  PROVE  Balanced
<1>1. /\ emitted = <<>> /\ missed = 0
      /\ frames = IF source.bloq.type # "skip" THEN <<Frame(source.bloq)>> ELSE <<>>
      /\ source.bloq \in Bloqs
  BY DEF Init, InRange
<1>2. TGates(emitted) = 0
  <2>1. {k \in DOMAIN emitted : emitted[k].kind \in {"tgate"}} = {}
    BY <1>1
  <2> QED
    BY <2>1, FS_EmptySet DEF TGates, CountOf
<1>3. IsFiniteSet(Owed(<<>>)) /\ Cardinality(Owed(<<>>)) = 0
  <2>1. Owed(<<>>) = {}
    BY DEF Owed
  <2> QED
    BY <2>1, FS_EmptySet
<1>4. CASE source.bloq.type = "skip"
  <2>1. source.bloq.tcount = 0 /\ frames = <<>>
    BY <1>1, <1>4 DEF Additive
  <2> QED
    BY <1>1, <1>2, <1>3, <2>1 DEF Balanced
<1>5. CASE source.bloq.type # "skip"
  <2>1. PICK b, e : b = source.bloq /\ e = Frame(b)
    OBVIOUS
  <2>2. frames = Append(<<>>, e) /\ DOMAIN frames = {1} /\ frames[1] = e
    <3>1. Append(<<>>, e) = <<e>> /\ DOMAIN <<e>> = {1} /\ <<e>>[1] = e
      OBVIOUS
    <3> QED
      BY <1>1, <1>5, <2>1, <3>1
  <2>3. PICK T : T = {1} \X Units(e.parts, e.left)
    OBVIOUS
  <2>4. IsFiniteSet(T) /\ Cardinality(T) = b.tcount /\ b.tcount \in Nat
    BY <1>1, <2>1, <2>3, FrameOwes DEF InRange
  <2>5. IsList(<<>>) /\ Len(<<>>) = 0
    <3>1. <<>> \in Seq({})
      OBVIOUS
    <3> QED
      BY <3>1 DEF IsList
  <2>6. IsFiniteSet(Owed(frames)) /\ Cardinality(Owed(frames)) = 0 + b.tcount
    <3>1. PICK none : none = <<>>
      OBVIOUS
    <3>2. IsList(none) /\ 1 = Len(none) + 1 /\ 1 \in Nat
      BY <2>5, <3>1
    <3>3. IsFiniteSet(Owed(none)) /\ Cardinality(Owed(none)) = 0
      BY <1>3, <3>1
    <3>4. IsFiniteSet({1} \X Units(e.parts, e.left))
      BY <2>3, <2>4
    <3>5. /\ IsFiniteSet(Owed(Append(none, e)))
          /\ Cardinality(Owed(Append(none, e)))
               = Cardinality(Owed(none)) + Cardinality({1} \X Units(e.parts, e.left))
      BY <3>2, <3>3, <3>4, OwedPushed
    <3> QED
      BY <2>2, <2>3, <2>4, <3>1, <3>3, <3>5
  <2>7. e.entered = NoFirst /\ NoFirst \notin e.left
    <3>1. e.entered = NoFirst /\ e.left = DOMAIN PartsOf(b).parts
      BY <2>1 DEF Frame
    <3>2. PartsOf(b).parts \in Seq(Bloqs)
      <4>1. b.parts \in Seq(Bloqs) /\ <<b>> \in Seq(Bloqs)
        BY <1>1, <2>1 DEF InRange
      <4> QED
        BY <4>1 DEF PartsOf
    <3>3. DOMAIN PartsOf(b).parts \subseteq Nat
      BY <3>2, LenProperties
    <3> QED
      BY <3>1, <3>3, NoFirstAssumption
  <2> QED
    BY <1>1, <1>2, <2>1, <2>2, <2>4, <2>6, <2>7 DEF Balanced
<1> QED
  BY <1>4, <1>5

(* Once the bloq is a circuit, its count is the bloq's but for the leaves. *)
Taken ==
  source.frontend = "qualtran" /\ verdict \in {"built", "sorting", "accepted"}
    => circuit.counts.tgate + missed = source.bloq.tcount

CountInv(Bloqs) ==
  /\ BloqInv(Bloqs)
  /\ source.frontend = "qualtran" => Balanced
  /\ Taken

LEMMA FinishTakes ==
  ASSUME NEW Bloqs, Extracted(Bloqs), Balanced, FinishQualtran
  PROVE  Taken'
<1>1. frames = <<>> /\ source' = source /\ missed' = missed
  BY DEF FinishQualtran, qualtranVars
<1>2. CASE emitted = <<>> \/ \E i \in DOMAIN emitted : emitted[i].kind = "nonfinite"
  <2>1. verdict' \in {"no gates", "parse error"}
    BY <1>2 DEF FinishQualtran, FromAdapterData, Failed
  <2> QED
    BY <2>1 DEF Taken
<1>3. CASE ~(emitted = <<>> \/ \E i \in DOMAIN emitted : emitted[i].kind = "nonfinite")
  <2>1. circuit'.counts = Counts(emitted)
    <3>1. PICK d, q : FromAdapterData(emitted, d, q, 0)
      BY <1>3 DEF FinishQualtran
    <3>2. Built(emitted, d, q, Counts(emitted), 0)
      BY <1>3, <3>1 DEF FromAdapterData
    <3> QED
      BY <3>2 DEF Built
  <2>2. circuit'.counts.tgate = TGates(emitted)
    BY <2>1 DEF Counts, TGates
  <2>3. Cardinality(Owed(frames)) = 0
    <3>1. Owed(frames) = {}
      BY <1>1 DEF Owed
    <3> QED
      BY <3>1, FS_EmptySet
  <2>4. /\ TGates(emitted) + missed + 0 = source.bloq.tcount
        /\ TGates(emitted) \in Nat /\ missed \in Int
    BY <2>3 DEF Balanced
  <2> QED
    BY <1>1, <2>2, <2>4 DEF Taken
<1> QED
  BY <1>2, <1>3

LEMMA BalancedStep ==
  ASSUME NEW Statements, NEW Bloqs, InRange(Statements, Bloqs), Additive(Bloqs),
         Extracted(Bloqs), Balanced, [Next]_vars
  PROVE  Balanced'
<1>1. source' = source
  BY SourceKept
<1>2. CASE UNCHANGED <<frames, emitted, missed>>
  BY <1>1, <1>2 DEF Balanced
<1>3. CASE QualtranStep /\ ~FinishQualtran
  BY <1>3, SkipBalances, LeafBalances, OpaqueBalances, EnterBalances, LeaveBalances
     DEF QualtranStep
<1>4. FinishQualtran => UNCHANGED <<frames, emitted, missed>>
  BY DEF FinishQualtran, qualtranVars
<1>5. QualtranStep \/ UNCHANGED <<frames, emitted, missed>>
  BY DEF Next, FrontEndStep, vars, frontVars, qualtranVars
<1> QED
  BY <1>2, <1>3, <1>4, <1>5

LEMMA TakenStep ==
  ASSUME NEW Bloqs, CountInv(Bloqs), [Next]_vars
  PROVE  Taken'
<1> SUFFICES ASSUME source.frontend = "qualtran"
             PROVE  Taken'
  BY SourceKept DEF Taken
<1>1. Extracted(Bloqs) /\ Balanced /\ Taken /\ source' = source
  BY SourceKept DEF CountInv, BloqInv
<1>2. CASE FinishQualtran
  BY <1>1, <1>2, FinishTakes
<1>3. CASE QualtranStep /\ ~FinishQualtran
  <2>1. verdict = "open" /\ UNCHANGED circuitVars
    BY <1>3, WalkKeeps
  <2> QED
    BY <2>1 DEF Taken, circuitVars
<1>4. CASE ValidateStep /\ UNCHANGED frontVars
  <2>1. UNCHANGED <<source, circuit>> /\ verdict \in {"built", "sorting"}
    BY <1>4 DEF ValidateStep, Reject, BuildGraph, VisitNode, Conclude
  <2>2. UNCHANGED missed
    BY <1>4 DEF frontVars, qualtranVars
  <2> QED
    BY <1>1, <2>1, <2>2 DEF Taken
<1>5. CASE UNCHANGED vars
  BY <1>1, <1>5 DEF Taken, vars, circuitVars, frontVars, qualtranVars
<1>6. ~(ReadJson \/ UseFixture \/ QasmStep \/ TketStep \/ QiskitStep)
  BY DEF ReadJson, UseFixture, QasmStep, DeclareQubit, ProcessGateCall, ProcessMeasure, QasmError,
         WalkBlock, IgnoreStatement, FinishQasm, Walking,
         TketStep, SkipCommand, ProcessCommand, TketError, FinishTket, AtCommand,
         QiskitStep, SkipNode, KeepNode, UnboundParameter, FinishQiskit, AtNode
<1> QED
  BY <1>2, <1>3, <1>4, <1>5, <1>6 DEF Next, FrontEndStep

(* The T count of an accepted circuit differs from that of the bloq it     *)
(* comes from by what the leaves walked were misjudged by, and by nothing  *)
(* else, whatever the depth limit makes opaque and in whatever order parts *)
(* are walked (_extract_ops, _handle_opaque_bloq, _classify_bloq).         *)
THEOREM BloqCountKept ==
  ASSUME NEW CONSTANT Statements, NEW CONSTANT Bloqs,
         InRange(Statements, Bloqs), Additive(Bloqs)
  PROVE  Spec => []TCountKept
<1>1. Init => CountInv(Bloqs)
  <2> SUFFICES ASSUME Init PROVE CountInv(Bloqs)
    OBVIOUS
  <2>1. BloqInv(Bloqs)
    BY BloqInit
  <2>2. source.frontend = "qualtran" => Balanced
    BY BalancedInit
  <2>3. Taken
    BY DEF Init, Taken
  <2> QED
    BY <2>1, <2>2, <2>3 DEF CountInv
<1>2. CountInv(Bloqs) /\ [Next]_vars => CountInv(Bloqs)'
  <2> SUFFICES ASSUME CountInv(Bloqs), [Next]_vars PROVE CountInv(Bloqs)'
    OBVIOUS
  <2>1. BloqInv(Bloqs)'
    BY BloqStep DEF CountInv
  <2>2. (source.frontend = "qualtran" => Balanced)'
    BY BalancedStep, SourceKept DEF CountInv, BloqInv
  <2>3. Taken'
    BY TakenStep
  <2> QED
    BY <2>1, <2>2, <2>3 DEF CountInv
<1>3. CountInv(Bloqs) => TCountKept
  BY DEF CountInv, Taken, TCountKept
<1> QED
  BY <1>1, <1>2, <1>3, PTL DEF Spec
=============================================================================
