---------------------------- MODULE SupplyProofs ----------------------------
(***************************************************************************)
(* Proofs about sweeps of the hardware, for every model, every parameter   *)
(* space and every point: the overrides are judged as a whole, every value *)
(* lies between the bounds of its parameter, and what a run is started on  *)
(* is what the engine takes for granted.                                   *)
(***************************************************************************)
EXTENDS SupplyProperties, TLAPS, SequenceTheorems, FiniteSetTheorems, WellFoundedInduction

-----------------------------------------------------------------------------
(* The first error. *)

LEMMA LeastNumber ==
  ASSUME NEW T \in SUBSET Nat, T # {}
  PROVE  \E m \in T : \A n \in T : m <= n
<1>1. PICK m \in T : \A n \in T : ~(<<n, m>> \in OpToRel(<, Nat))
  BY NatLessThanWellFounded, WFMin
<1>2. \A n \in T : ~(n < m)
  BY <1>1 DEF OpToRel
<1> QED
  BY <1>2

LEMMA LeastIndex ==
  ASSUME NEW n \in Nat, NEW I \in SUBSET (1 .. n), I # {}
  PROVE  Min(I) \in I
<1>1. PICK m \in I : \A i \in I : m <= i
  BY LeastNumber
<1> QED
  BY <1>1 DEF Min

(* If a list of checks has no error, none of them fails. *)
LEMMA FirstErrorNone ==
  ASSUME NEW n \in Nat, NEW checks, Len(checks) = n,
         \A i \in 1 .. n : checks[i].error # "none", FirstError(checks) = "none"
  PROVE  \A i \in 1 .. n : ~checks[i].fails
<1> DEFINE I == {i \in 1 .. Len(checks) : checks[i].fails}
<1>1. SelectInSeq(checks, LAMBDA c : c.fails) = IF I # {} THEN Min(I) ELSE 0
  BY DEF SelectInSeq
<1>2. SUFFICES ASSUME I # {} PROVE FALSE
  OBVIOUS
<1>3. Min(I) \in I
  BY <1>2, LeastIndex
<1> HIDE DEF I
<1>4. Min(I) \in 1 .. n
  BY <1>3 DEF I
<1>5. FirstError(checks) = checks[Min(I)].error
  BY <1>1, <1>2, <1>4 DEF FirstError
<1> QED
  BY <1>4, <1>5

(* What it returns is "none" or the error of a check.                      *)
LEMMA FirstErrorNamed ==
  ASSUME NEW n \in Nat, NEW checks, Len(checks) = n, FirstError(checks) # "none"
  PROVE  \E i \in 1 .. n : FirstError(checks) = checks[i].error
<1> DEFINE I == {i \in 1 .. Len(checks) : checks[i].fails}
<1>1. SelectInSeq(checks, LAMBDA c : c.fails) = IF I # {} THEN Min(I) ELSE 0
  BY DEF SelectInSeq
<1>2. I # {}
  BY <1>1 DEF FirstError
<1>3. Min(I) \in I
  BY <1>2, LeastIndex
<1> HIDE DEF I
<1>4. Min(I) \in 1 .. n
  BY <1>3 DEF I
<1> QED
  BY <1>1, <1>2, <1>4 DEF FirstError

LEMMA FirstOfNone ==
  ASSUME NEW n \in Nat, NEW errors, Len(errors) = n, FirstOf(errors) = "none"
  PROVE  \A i \in 1 .. n : errors[i] = "none"
<1> DEFINE I == {i \in 1 .. Len(errors) : errors[i] # "none"}
<1>1. SelectInSeq(errors, LAMBDA e : e # "none") = IF I # {} THEN Min(I) ELSE 0
  BY DEF SelectInSeq
<1>2. SUFFICES ASSUME I # {} PROVE FALSE
  OBVIOUS
<1>3. Min(I) \in I
  BY <1>2, LeastIndex
<1> HIDE DEF I
<1>4. Min(I) \in 1 .. n /\ errors[Min(I)] # "none"
  BY <1>3 DEF I
<1> QED
  BY <1>1, <1>2, <1>4 DEF FirstOf

-----------------------------------------------------------------------------
(* The checks of a model. *)

LEMMA HardwareErrors ==
  ASSUME NEW model
  PROVE  /\ Len(HardwareChecks(model)) = 18
         /\ \A i \in 1 .. 18 :
              HardwareChecks(model)[i].error
                \notin {"none", "read", "loaded", "applying", "ready"}
<1> DEFINE errors ==
      <<"InvalidCodeDistance", "InvalidPhysicalErrorRate", "InvalidErrorCorrectionThreshold",
        "InvalidLogicalErrorPrefactor", "InvalidCycleTime", "InvalidMeasurementTime",
        "InvalidFeedbackLatency", "ZeroFactories", "FactoryCountExceedsLimit",
        "InvalidLambdaRaw", "InvalidAbortProbability", "InvalidMeanCyclesPerState",
        "ZeroDistinctAngles", "InvalidInjectionProbability", "ZeroGridDimension",
        "ZeroCyclesPerHop", "ZeroBufferCapacity", "PreloadExceedsCapacity">>
<1>1. Len(HardwareChecks(model)) = 18
  BY DEF HardwareChecks
<1>2. \A i \in 1 .. 18 : HardwareChecks(model)[i].error = errors[i]
  BY DEF HardwareChecks
<1>3. \A i \in 1 .. 18 : errors[i] \notin {"none", "read", "loaded", "applying", "ready"}
  OBVIOUS
<1> QED
  BY <1>1, <1>2, <1>3

LEMMA HardwareErrorNamed ==
  ASSUME NEW model, HardwareError(model) # "none"
  PROVE  HardwareError(model) \notin {"read", "loaded", "applying", "ready"}
<1>1. \E i \in 1 .. 18 : HardwareError(model) = HardwareChecks(model)[i].error
  BY HardwareErrors, FirstErrorNamed DEF HardwareError
<1> QED
  BY <1>1, HardwareErrors

(* What the engine relies on, of what validate accepts. *)
LEMMA HardwareAccepted ==
  ASSUME NEW model, HardwareError(model) = "none"
  PROVE  LET v == model.value
         IN  /\ ~(v["code_distance"] < 3)
             /\ ~NotPositive(v["cycle_time_us"]) /\ ~NotPositive(v["measurement_time_us"])
             /\ ~(v["feedback_latency_us"] = NaN \/ v["feedback_latency_us"] < 0)
             /\ v["factory_count"] # 0 /\ ~(v["factory_count"] > MaxCount)
             /\ ~(model.factory = "distillation" /\ NotClosedUnit(v["abort_probability"]))
             /\ v["buffer_capacity"] # 0
             /\ ~(v["buffer_preload"] > v["buffer_capacity"])
<1>1. \A i \in 1 .. 18 : ~HardwareChecks(model)[i].fails
  BY HardwareErrors, FirstErrorNone DEF HardwareError
<1>2. /\ ~HardwareChecks(model)[1].fails /\ ~HardwareChecks(model)[5].fails
      /\ ~HardwareChecks(model)[6].fails /\ ~HardwareChecks(model)[7].fails
      /\ ~HardwareChecks(model)[8].fails /\ ~HardwareChecks(model)[9].fails
      /\ ~HardwareChecks(model)[11].fails /\ ~HardwareChecks(model)[17].fails
      /\ ~HardwareChecks(model)[18].fails
  BY <1>1
<1> QED
  BY <1>2 DEF HardwareChecks

-----------------------------------------------------------------------------
(* The checks of a parameter. *)

Bounded(p) ==
  /\ p \in Parameters
  /\ ~AtLeast(p.min, p.max)
  /\ AtLeast(p.min, 0) \/ p.min = NaN
  /\ p.kind = "integer" => ~Fractional(p.min) /\ ~Fractional(p.max)
  /\ p.kind = "odd_integer" => OddWhole(p.min) /\ OddWhole(p.max)

LEMMA ParamAccepted ==
  ASSUME NEW list \in Seq(Parameters), NEW i \in 1 .. Len(list),
         FirstError(ParamChecks(list, i)) = "none"
  PROVE  Bounded(list[i]) /\ \A j \in 1 .. i - 1 : list[j].name # list[i].name
<1> DEFINE errors ==
      <<"DuplicateParameter", "InvalidRange", "NegativeBound", "NonIntegerBound", "NonOddBound">>
<1>1. Len(ParamChecks(list, i)) = 5
  BY DEF ParamChecks
<1>2. \A k \in 1 .. 5 : ParamChecks(list, i)[k].error = errors[k]
  BY DEF ParamChecks
<1>3. \A k \in 1 .. 5 : errors[k] # "none"
  OBVIOUS
<1>4. \A k \in 1 .. 5 : ~ParamChecks(list, i)[k].fails
  <2> DEFINE checks == ParamChecks(list, i)
  <2>1. /\ 5 \in Nat /\ Len(checks) = 5 /\ FirstError(checks) = "none"
        /\ \A k \in 1 .. 5 : checks[k].error # "none"
    BY <1>1, <1>2, <1>3
  <2> HIDE DEF checks
  <2>2. \A k \in 1 .. 5 : ~checks[k].fails
    BY <2>1, FirstErrorNone
  <2> QED
    BY <2>2 DEF checks
<1>5. /\ ~ParamChecks(list, i)[1].fails /\ ~ParamChecks(list, i)[2].fails
      /\ ~ParamChecks(list, i)[3].fails /\ ~ParamChecks(list, i)[4].fails
      /\ ~ParamChecks(list, i)[5].fails
  BY <1>4
<1>6. list[i] \in Parameters
  BY LenProperties, ElementOfSeq
<1> QED
  BY <1>5, <1>6 DEF ParamChecks, Bounded

LEMMA SpaceAccepted ==
  ASSUME NEW list \in Seq(Parameters), NEW model, SpaceError(model, list) = "none"
  PROVE  /\ list # <<>>
         /\ \A i \in 1 .. Len(list) : Bounded(list[i])
         /\ \A i, j \in 1 .. Len(list) : list[i].name = list[j].name => i = j
<1> DEFINE errors == [i \in DOMAIN list |-> FirstError(ParamChecks(list, i))]
<1>1. InternalError(list) = "none"
  BY DEF SpaceError
<1>2. list # <<>> /\ FirstOf(errors) = "none"
  BY <1>1 DEF InternalError
<1>3. DOMAIN list = 1 .. Len(list) /\ Len(list) \in Nat
  BY LenProperties
<1>4. Len(errors) = Len(list)
  BY <1>3
<1>5. \A i \in 1 .. Len(list) : errors[i] = "none"
  <2> HIDE DEF errors
  <2> QED
    BY <1>2, <1>3, <1>4, FirstOfNone
<1>6. \A i \in 1 .. Len(list) : FirstError(ParamChecks(list, i)) = "none"
  BY <1>3, <1>5
<1>7. \A i \in 1 .. Len(list) :
        Bounded(list[i]) /\ \A j \in 1 .. i - 1 : list[j].name # list[i].name
  BY <1>6, ParamAccepted
<1>8. ASSUME NEW i \in 1 .. Len(list), NEW j \in 1 .. Len(list), list[i].name = list[j].name
      PROVE  i = j
  <2>1. ~(i < j) /\ ~(j < i)
    BY <1>3, <1>7, <1>8
  <2> QED
    BY <1>3, <2>1
<1> QED
  BY <1>2, <1>7, <1>8

-----------------------------------------------------------------------------
(* Whole parts. *)

LEMMA WholePart ==
  ASSUME NEW m \in Nat \ {0}, NEW a \in Int
  PROVE  a \div m \in Int /\ m * (a \div m) <= a /\ a < m * (a \div m) + m
<1>1. a = m * (a \div m) + (a % m) /\ a \div m \in Int /\ a % m \in 0 .. m - 1
  OBVIOUS
<1> DEFINE q == a \div m
           r == a % m
<1>2. m * q \in Int
  BY <1>1
<1> HIDE DEF q, r
<1>3. m * q <= a /\ a < m * q + m
  BY <1>1, <1>2 DEF q, r
<1> QED
  BY <1>1, <1>3 DEF q

LEMMA CancelLess ==
  ASSUME NEW m \in Nat \ {0}, NEW a \in Int, NEW b \in Int, m * a < m * b
  PROVE  a < b
<1>1. SUFFICES ASSUME a >= b PROVE FALSE
  OBVIOUS
<1>2. m * a >= m * b
  BY <1>1
<1> QED
  BY <1>2

(* A share of d, u parts of m, is between 0 and d. *)
LEMMA ShareBounds ==
  ASSUME NEW m \in Nat \ {0}, NEW d \in Nat, NEW u \in 0 .. m
  PROVE  /\ (u * d) \div m \in 0 .. d
         /\ u = 0 => (u * d) \div m = 0
         /\ u = m => (u * d) \div m = d
<1> DEFINE q == (u * d) \div m
<1>1. u * d \in Nat /\ u * d <= m * d
  BY ONLY m \in Nat \ {0}, d \in Nat, u \in 0 .. m
<1>2. q \in Int /\ m * q <= u * d /\ u * d < m * q + m
  BY <1>1, WholePart
<1> HIDE DEF q
<1>3. m * q + m = m * (q + 1) /\ m * 0 = 0 /\ q + 1 \in Int /\ d + 1 \in Int
  BY <1>2
<1>4. m * 0 < m * (q + 1)
  BY <1>1, <1>2, <1>3
<1>5. 0 < q + 1
  BY <1>3, <1>4, CancelLess
<1>6. m * q < m * (d + 1)
  <2>1. m * (d + 1) = m * d + m /\ m * d \in Int
    OBVIOUS
  <2> QED
    BY <1>1, <1>2, <2>1
<1>7. q < d + 1
  BY <1>2, <1>3, <1>6, CancelLess
<1>8. ASSUME u = m
      PROVE  q = d
  <2>1. m * d < m * (q + 1)
    BY <1>1, <1>2, <1>3, <1>8
  <2>2. d < q + 1
    BY <1>3, <2>1, CancelLess
  <2> QED
    BY <1>2, <1>7, <2>2
<1>9. ASSUME u = 0
      PROVE  q = 0
  <2>1. u * d = 0
    BY <1>9
  <2>2. m * q < m * 1
    BY <1>2, <2>1
  <2>3. q < 1
    BY <1>2, <2>2, CancelLess
  <2> QED
    BY <1>2, <1>5, <2>3
<1> QED
  BY <1>2, <1>5, <1>7, <1>8, <1>9 DEF q

(* Rounding keeps to whole bounds. *)
LEMMA RoundedBounds ==
  ASSUME NEW m \in Nat \ {0}, NEW x \in Int, NEW a \in Int, NEW b \in Int,
         m * a <= x, x <= m * b
  PROVE  RoundedDiv(x, m) \in a .. b
<1> DEFINE w == 2 * m
           y == 2 * x + m
           q == y \div w
<1>1. w \in Nat \ {0} /\ y \in Int
  OBVIOUS
<1>2. q \in Int /\ w * q <= y /\ y < w * q + w
  <2> HIDE DEF w, y
  <2> QED
    BY <1>1, WholePart
<1> HIDE DEF q
<1>3. /\ w * a + m <= y /\ y <= w * b + m /\ w * a \in Int /\ w * b \in Int
  OBVIOUS
<1>4. /\ w * q + w = w * (q + 1) /\ w * b + w = w * (b + 1)
      /\ q + 1 \in Int /\ b + 1 \in Int /\ w * q \in Int
  BY <1>2
<1>5. 0 < m /\ m < w
  OBVIOUS
<1> HIDE DEF w, y
<1>6. w * a < w * (q + 1) /\ w * q < w * (b + 1)
  BY <1>1, <1>2, <1>3, <1>4, <1>5
<1>7. a < q + 1 /\ q < b + 1
  BY <1>1, <1>2, <1>4, <1>6, CancelLess
<1>8. RoundedDiv(x, m) = q
  BY DEF RoundedDiv, q, y, w
<1> QED
  BY <1>2, <1>7, <1>8

-----------------------------------------------------------------------------
(* The mapping of a coordinate. *)

LEMMA Numbers == Scale \in Nat \ {0} /\ Grid \in Nat \ {0} /\ NaN \notin Int
BY NumbersAssumption, GridAssumption

LEMMA RoundedNat ==
  ASSUME NEW v \in Nat
  PROVE  RoundedDiv(v, Scale) \in Nat
<1> DEFINE z == 0
           high == v
<1>1. high \in Int /\ z \in Int /\ Scale * z <= v /\ v <= Scale * high
  BY Numbers
<1> HIDE DEF z, high
<1>2. RoundedDiv(v, Scale) \in z .. high
  BY <1>1, Numbers, RoundedBounds
<1> QED
  BY <1>1, <1>2 DEF z

LEMMA ClampedBounds ==
  ASSUME NEW u \in Int
  PROVE  /\ Clamped(u) \in 0 .. Grid
         /\ u <= 0 => Clamped(u) = 0
         /\ u >= Grid => Clamped(u) = Grid
BY Numbers DEF Clamped

(* A space may have a bound that is not a number; its values are then none. *)
LEMMA MapUnitNaN ==
  ASSUME NEW p, Bounded(p), NaN \in {p.min, p.max}, NEW u
  PROVE  MapUnit(p, u) = NaN
<1>1. p.kind # "odd_integer"
  BY DEF Bounded, OddWhole
<1>2. p.kind \in {"continuous", "integer"}
  BY <1>1 DEF Bounded, Parameters
<1>3. \A c : Along(p, c) = NaN
  BY DEF Along
<1> QED
  BY <1>2, <1>3 DEF MapUnit

Within(p, u, v) ==
  /\ v \in Int /\ p.min <= v /\ v <= p.max
  /\ p.kind = "integer" => v % Scale = 0
  /\ p.kind = "odd_integer" => v % (2 * Scale) = Scale
  /\ u <= 0 => v = p.min
  /\ u >= Grid => v = p.max

LEMMA MapUnitWithin ==
  ASSUME NEW p, Bounded(p), NaN \notin {p.min, p.max}, NEW u \in Int
  PROVE  Within(p, u, MapUnit(p, u))
<1> DEFINE a == p.min
           b == p.max
           c == Clamped(u)
           d == b - a
           s == (c * d) \div Grid
<1>1. a \in Int /\ b \in Int /\ p.kind \in {"continuous", "integer", "odd_integer"}
  BY DEF Bounded, Parameters, Floats
<1>2. a < b /\ d \in Nat /\ b = a + d
  BY <1>1 DEF Bounded, AtLeast
<1>3. c \in 0 .. Grid /\ (u <= 0 => c = 0) /\ (u >= Grid => c = Grid)
  BY ClampedBounds
<1>4. s \in 0 .. d /\ (c = 0 => s = 0) /\ (c = Grid => s = d)
  <2> HIDE DEF c, d
  <2> QED
    BY <1>2, <1>3, Numbers, ShareBounds
<1>5. Along(p, c) = a + s
  BY DEF Along
<1>6. CASE p.kind = "continuous"
  <2>1. MapUnit(p, u) = a + s
    BY <1>5, <1>6 DEF MapUnit
  <2> HIDE DEF s, c, d
  <2>2. a + s \in Int /\ a <= a + s /\ a + s <= b /\ (s = 0 => a + s = a) /\ (s = d => a + s = b)
    BY <1>1, <1>2, <1>4
  <2>3. Within(p, u, a + s)
    BY <1>3, <1>4, <1>6, <2>2 DEF Within
  <2> QED
    BY <2>1, <2>3
<1>7. CASE p.kind = "integer"
  <2> DEFINE r == RoundedDiv(a + s, Scale)
             low == a \div Scale
             high == b \div Scale
  <2>1. Along(p, u) # NaN
    <3>1. Along(p, u) = a + (u * d) \div Grid
      BY DEF Along
    <3>2. u * d \in Int
      BY <1>2
    <3>3. (u * d) \div Grid \in Int
      BY <3>2, Numbers, WholePart
    <3> QED
      BY <1>1, <3>1, <3>3, Numbers
  <2>2. MapUnit(p, u) = Scale * r
    BY <1>5, <1>7, <2>1 DEF MapUnit
  <2>3. a % Scale = 0 /\ b % Scale = 0
    BY <1>7 DEF Bounded, Fractional
  <2>4. a = Scale * low /\ b = Scale * high /\ low \in Int /\ high \in Int
    <3>1. \A x \in Int : x % Scale = 0 => x = Scale * (x \div Scale) /\ x \div Scale \in Int
      BY Numbers
    <3> QED
      BY <1>1, <2>3, <3>1
  <2> HIDE DEF low, high, s, c, d
  <2>5. a + s \in Int /\ a <= a + s /\ a + s <= b
    BY <1>1, <1>2, <1>4
  <2>6. r \in low .. high
    BY <2>4, <2>5, Numbers, RoundedBounds
  <2>7. ASSUME s = 0
        PROVE  r \in low .. low
    <3> DEFINE y == a + s
    <3>1. y \in Int /\ y = a
      BY <1>1, <2>7
    <3> HIDE DEF y
    <3>2. Scale * low <= y /\ y <= Scale * low
      BY <1>1, <2>4, <3>1
    <3>3. RoundedDiv(y, Scale) \in low .. low
      BY <2>4, <3>1, <3>2, Numbers, RoundedBounds
    <3> QED
      BY <3>3 DEF y
  <2>8. ASSUME s = d
        PROVE  r \in high .. high
    <3> DEFINE y == a + s
    <3>1. y \in Int /\ y = b
      BY <1>1, <1>2, <2>8
    <3> HIDE DEF y
    <3>2. Scale * high <= y /\ y <= Scale * high
      BY <1>1, <2>4, <3>1
    <3>3. RoundedDiv(y, Scale) \in high .. high
      BY <2>4, <3>1, <3>2, Numbers, RoundedBounds
    <3> QED
      BY <3>3 DEF y
  <2> HIDE DEF r
  <2>9. Scale * low <= Scale * r /\ Scale * r <= Scale * high /\ Scale * r \in Int
    BY <2>4, <2>6, Numbers
  <2>10. (Scale * r) % Scale = 0
    BY <2>4, <2>6, Numbers
  <2>11. /\ s = 0 => Scale * r = a
         /\ s = d => Scale * r = b
    <3>1. (s = 0 => r = low) /\ (s = d => r = high)
      BY <2>4, <2>7, <2>8
    <3> QED
      BY <2>4, <3>1
  <2>12. Within(p, u, Scale * r)
    BY <1>3, <1>4, <1>7, <2>4, <2>9, <2>10, <2>11 DEF Within
  <2> QED
    BY <2>2, <2>12
<1>8. CASE p.kind = "odd_integer"
  <2> DEFINE w == 2 * Scale
             k == d \div w
             r == RoundedDiv(c * k, Grid)
             low == a \div w
             high == b \div w
  <2>1. w \in Nat \ {0} /\ a % w = Scale /\ b % w = Scale
    BY <1>8, Numbers DEF Bounded, OddWhole
  <2>2. MapUnit(p, u) = a + w * r
    <3>1. Odds(p) - 1 = k
      <4>1. k \in Int /\ Odds(p) = k + 1
        <5>1. Odds(p) = k + 1
          BY DEF Odds
        <5> HIDE DEF w, d
        <5> QED
          BY <1>2, <2>1, <5>1, WholePart
      <4> HIDE DEF k
      <4> QED
        BY <4>1
    <3>2. MapUnit(p, u) = a + w * RoundedDiv(c * (Odds(p) - 1), Grid)
      BY <1>8 DEF MapUnit
    <3> QED
      BY <3>1, <3>2
  <2>3. /\ a = w * low + Scale /\ b = w * high + Scale /\ low \in Int /\ high \in Int
    <3> HIDE DEF w
    <3>1. \A x \in Int : x = w * (x \div w) + (x % w) /\ x \div w \in Int
      BY <2>1
    <3> QED
      BY <1>1, <2>1, <3>1
  <2>4. d = w * (high - low) + 0 /\ high - low \in Int
    <3> HIDE DEF low, high, w
    <3>1. w * high - w * low = w * (high - low) /\ w * high \in Int /\ w * low \in Int
      BY <2>1, <2>3
    <3> QED
      BY <2>1, <2>3, <3>1, Numbers
  <2>5. k = high - low
    <3>1. \A q \in Int : (w * q + 0) \div w = q
      <4> HIDE DEF w
      <4> QED
        BY <2>1
    <3> HIDE DEF w, low, high
    <3> QED
      BY <2>4, <3>1
  <2>6. k \in Int /\ d = w * k
    <3> HIDE DEF w, low, high, d, k
    <3> QED
      BY <2>1, <2>4, <2>5
  <2> HIDE DEF k, low, high
  <2>7. k >= 0
    <3>1. ~(w * k < w * 0)
      <4> HIDE DEF w, d
      <4> QED
        BY <1>2, <2>1, <2>6
    <3>2. k < 0 => w * k < w * 0
      <4> HIDE DEF w
      <4> QED
        BY <2>1, <2>6
    <3> QED
      BY <2>6, <3>1, <3>2
  <2>8. Grid * 0 <= c * k /\ c * k <= Grid * k /\ c * k \in Int
    <3> HIDE DEF c
    <3> QED
      BY <1>3, <2>6, <2>7, Numbers
  <2> DEFINE x == c * k
  <2>9. /\ c = 0 => x = Grid * 0
        /\ c = Grid => x = Grid * k
    <3>1. c = 0 => c * k = Grid * 0
      <4> HIDE DEF c
      <4> QED
        BY <2>6, Numbers
    <3> QED
      BY <3>1
  <2> HIDE DEF x, c, d, s, w
  <2>10. /\ RoundedDiv(x, Grid) \in 0 .. k
         /\ c = 0 => RoundedDiv(x, Grid) \in 0 .. 0
         /\ c = Grid => RoundedDiv(x, Grid) \in k .. k
    <3>1. Grid * 0 <= x /\ x <= Grid * k /\ x \in Int
      BY <2>8 DEF x
    <3> HIDE DEF r
    <3>2. RoundedDiv(x, Grid) \in 0 .. k
      <4> DEFINE z == 0
      <4>1. Grid * z <= x /\ z \in Int
        BY <3>1
      <4> HIDE DEF z
      <4>2. RoundedDiv(x, Grid) \in z .. k
        BY <2>6, <3>1, <4>1, Numbers, RoundedBounds
      <4> QED
        BY <4>2 DEF z
    <3>3. ASSUME c = 0
          PROVE  RoundedDiv(x, Grid) \in 0 .. 0
      <4> DEFINE z == 0
      <4>1. Grid * z <= x /\ x <= Grid * z /\ z \in Int
        BY <2>9, <3>1, <3>3
      <4> HIDE DEF z
      <4>2. RoundedDiv(x, Grid) \in z .. z
        BY <3>1, <4>1, Numbers, RoundedBounds
      <4> QED
        BY <4>2 DEF z
    <3>4. ASSUME c = Grid
          PROVE  RoundedDiv(x, Grid) \in k .. k
      <4>1. Grid * k <= x /\ x <= Grid * k
        BY <2>9, <3>1, <3>4
      <4> QED
        BY <2>6, <3>1, <4>1, Numbers, RoundedBounds
    <3> QED
      BY <3>2, <3>3, <3>4
  <2>11. r \in 0 .. k /\ (c = 0 => r = 0) /\ (c = Grid => r = k)
    BY <2>6, <2>10 DEF x
  <2> HIDE DEF r
  <2>12. /\ w * r \in Int /\ 0 <= w * r /\ w * r <= w * k
         /\ (r = 0 => w * r = 0) /\ (r = k => w * r = w * k)
    BY <2>1, <2>6, <2>11
  <2>13. /\ a + w * r \in Int /\ a <= a + w * r /\ a + w * r <= b
         /\ (r = 0 => a + w * r = a) /\ (r = k => a + w * r = b)
    <3> DEFINE y == w * r
    <3>1. y \in Int /\ 0 <= y /\ y <= d /\ (r = 0 => y = 0) /\ (r = k => y = d)
      BY <2>6, <2>12
    <3> HIDE DEF y
    <3>2. a + y \in Int /\ a <= a + y /\ a + y <= b /\ (y = 0 => a + y = a) /\ (y = d => a + y = b)
      BY <1>1, <1>2, <3>1
    <3> QED
      BY <3>1, <3>2 DEF y
  <2>14. (a + w * r) % w = Scale
    <3>1. a + w * r = w * (low + r) + Scale /\ low + r \in Int
      <4>0. low + r \in Int
        BY <2>3, <2>11
      <4>1. w * (low + r) = w * low + w * r /\ w * low \in Int
        BY <2>1, <2>3, <2>11
      <4> DEFINE y == w * low
                 z == w * r
                 t == w * (low + r)
      <4>2. y \in Int /\ z \in Int /\ a = y + Scale /\ t = y + z /\ Scale \in Int
        BY <2>3, <2>12, <4>1, Numbers
      <4> HIDE DEF y, z, t
      <4>3. a + z = t + Scale
        BY <4>2
      <4> QED
        BY <4>0, <4>3 DEF z, t
    <3>2. Scale \in 0 .. w - 1
      BY Numbers DEF w
    <3>3. (w * (low + r) + Scale) % w = Scale
      BY <2>1, <3>1, <3>2
    <3> QED
      BY <3>1, <3>3
  <2>15. Within(p, u, a + w * r)
    BY <1>3, <1>8, <2>11, <2>13, <2>14 DEF Within, w
  <2> QED
    BY <2>2, <2>15
<1> QED
  BY <1>1, <1>6, <1>7, <1>8

-----------------------------------------------------------------------------
(* The model after the first k overrides.                                  *)

PlaceOf(r, f) == SelectInSeq(r.space, LAMBDA p : p.name = f)
ChangeOf(r, i) == [name |-> r.space[i].name, value |-> MapUnit(r.space[i], r.point[i])]
ValuesAfter(r, k) ==
  [f \in DOMAIN r.base.value |->
     IF PlaceOf(r, f) \in 1 .. k THEN Stored(f, ChangeOf(r, PlaceOf(r, f)).value)
     ELSE r.base.value[f]]
After(r, k) ==
  [factory |-> r.base.factory, routing |-> r.base.routing, value |-> ValuesAfter(r, k)]
Changes == [name : STRING, value : Floats]

(* A request that reaches the overrides. *)
Proper(r) ==
  /\ IsModel(r.base) /\ r.space \in Seq(Parameters) /\ r.point \in Seq(Int)
  /\ Len(r.point) = Len(r.space) /\ SpaceError(r.base, r.space) = "none"

LEMMA RequestShape ==
  ASSUME NEW r \in Requests
  PROVE  IsModel(r.base) /\ r.space \in Seq(Parameters) /\ r.point \in Seq(Int)
BY RequestsAssumption

LEMMA ChangeTyped ==
  ASSUME NEW r, Proper(r), NEW i \in 1 .. Len(r.space)
  PROVE  /\ ChangeOf(r, i) \in Changes
         /\ NaN \notin {r.space[i].min, r.space[i].max} =>
              Within(r.space[i], r.point[i], ChangeOf(r, i).value)
         /\ ChangeOf(r, i).value \in Nat \cup {NaN}
<1> DEFINE p == r.space[i]
           u == r.point[i]
           v == MapUnit(p, u)
<1>1. Bounded(p)
  BY SpaceAccepted DEF Proper
<1>2. u \in Int
  BY LenProperties, ElementOfSeq DEF Proper
<1>3. p.name \in STRING
  BY <1>1 DEF Bounded, Parameters
<1>4. ChangeOf(r, i) = [name |-> p.name, value |-> v]
  BY DEF ChangeOf
<1> HIDE DEF p, u
<1>5. CASE NaN \in {p.min, p.max}
  <2>1. v = NaN
    BY <1>1, <1>5, MapUnitNaN
  <2> QED
    BY <1>3, <1>4, <1>5, <2>1 DEF Changes, Floats, p, u
<1>6. CASE NaN \notin {p.min, p.max}
  <2>1. Within(p, u, v)
    BY <1>1, <1>2, <1>6, MapUnitWithin
  <2> HIDE DEF v
  <2>2. p.min \in Int /\ p.min >= 0
    BY <1>1, <1>6 DEF Bounded, AtLeast, Parameters, Floats
  <2>3. v \in Nat
    BY <2>1, <2>2 DEF Within
  <2> QED
    BY <1>3, <1>4, <2>1, <2>3 DEF Changes, Floats, p, u
<1> QED
  BY <1>5, <1>6

(* The parameters of a space are told apart by their names. *)
LEMMA Places ==
  ASSUME NEW r, Proper(r)
  PROVE  /\ \A f : PlaceOf(r, f) # 0 =>
                     PlaceOf(r, f) \in 1 .. Len(r.space) /\ r.space[PlaceOf(r, f)].name = f
         /\ \A i \in 1 .. Len(r.space) : PlaceOf(r, r.space[i].name) = i
<1>1. Len(r.space) \in Nat
  BY LenProperties DEF Proper
<1>2. ASSUME NEW f
      PROVE  /\ PlaceOf(r, f) # 0 =>
                  PlaceOf(r, f) \in 1 .. Len(r.space) /\ r.space[PlaceOf(r, f)].name = f
             /\ \A i \in 1 .. Len(r.space) : r.space[i].name = f => PlaceOf(r, f) # 0
  <2> DEFINE I == {i \in 1 .. Len(r.space) : r.space[i].name = f}
  <2>1. PlaceOf(r, f) = IF I # {} THEN Min(I) ELSE 0
    BY DEF PlaceOf, SelectInSeq
  <2>2. I # {} => Min(I) \in I
    BY <1>1, LeastIndex
  <2> HIDE DEF I
  <2>3. I # {} => Min(I) \in 1 .. Len(r.space) /\ r.space[Min(I)].name = f
    BY <2>2 DEF I
  <2>4. ASSUME NEW i \in 1 .. Len(r.space), r.space[i].name = f
        PROVE  I # {}
    BY <2>4 DEF I
  <2> QED
    BY <1>1, <2>1, <2>3, <2>4
<1>3. \A i, j \in 1 .. Len(r.space) : r.space[i].name = r.space[j].name => i = j
  BY SpaceAccepted DEF Proper
<1> QED
  BY <1>2, <1>3

LEMMA AfterNone ==
  ASSUME NEW r, Proper(r)
  PROVE  After(r, 0) = r.base
<1>1. ValuesAfter(r, 0) = r.base.value
  <2>1. \A f : PlaceOf(r, f) \notin 1 .. 0
    BY Places
  <2>2. ValuesAfter(r, 0) = [f \in DOMAIN r.base.value |-> r.base.value[f]]
    BY <2>1 DEF ValuesAfter
  <2> QED
    BY <2>2 DEF Proper, IsModel
<1> QED
  BY <1>1 DEF After, Proper, IsModel

LEMMA AfterOne ==
  ASSUME NEW r, Proper(r), NEW k \in Nat, k < Len(r.space)
  PROVE  Overridden(After(r, k), ChangeOf(r, k + 1)) = After(r, k + 1)
<1> DEFINE name == r.space[k + 1].name
           v == ChangeOf(r, k + 1).value
<1>1. k + 1 \in 1 .. Len(r.space) /\ Len(r.space) \in Nat
  BY LenProperties DEF Proper
<1>2. PlaceOf(r, name) = k + 1 /\ ChangeOf(r, k + 1).name = name
  BY <1>1, Places DEF ChangeOf
<1> HIDE DEF name, v
<1>3. [ValuesAfter(r, k) EXCEPT ![name] = Stored(name, v)] = ValuesAfter(r, k + 1)
  <2>1. ASSUME NEW f \in DOMAIN r.base.value
        PROVE  [ValuesAfter(r, k) EXCEPT ![name] = Stored(name, v)][f] = ValuesAfter(r, k + 1)[f]
    <3>1. CASE f = name
      BY <1>1, <1>2, <3>1 DEF ValuesAfter, v
    <3>2. CASE f # name
      <4>1. PlaceOf(r, f) # k + 1
        BY <1>1, <3>2, Places DEF name
      <4>2. PlaceOf(r, f) \in 1 .. k <=> PlaceOf(r, f) \in 1 .. k + 1
        BY <1>1, <4>1
      <4> QED
        BY <3>2, <4>2 DEF ValuesAfter
    <3> QED
      BY <3>1, <3>2
  <2> QED
    BY <2>1 DEF ValuesAfter
<1> QED
  BY <1>2, <1>3 DEF Overridden, After, v

LEMMA AfterAll ==
  ASSUME NEW r, Proper(r), NEW k \in 0 .. Len(r.space)
  PROVE  IsModel(After(r, k))
<1>1. IsModel(r.base)
  BY DEF Proper
<1>2. ASSUME NEW f \in DOMAIN r.base.value
      PROVE  /\ ValuesAfter(r, k)[f] \in Floats
             /\ f \in IntegerFields => ValuesAfter(r, k)[f] \in Nat
  <2>1. CASE PlaceOf(r, f) \in 1 .. k
    <3> DEFINE v == ChangeOf(r, PlaceOf(r, f)).value
    <3>1. v \in Nat \cup {NaN}
      BY <2>1, ChangeTyped, Places
    <3>2. ValuesAfter(r, k)[f] = Stored(f, v)
      BY <2>1 DEF ValuesAfter
    <3> HIDE DEF v
    <3>3. v # NaN => RoundedDiv(v, Scale) \in Nat
      BY <3>1, RoundedNat
    <3> QED
      BY <3>1, <3>2, <3>3 DEF Stored, Floats
  <2>2. CASE PlaceOf(r, f) \notin 1 .. k
    BY <1>1, <2>2 DEF ValuesAfter, IsModel
  <2> QED
    BY <2>1, <2>2
<1>3. ValuesAfter(r, k) \in [DOMAIN r.base.value -> Floats]
  BY <1>2 DEF ValuesAfter
<1> QED
  BY <1>1, <1>2, <1>3 DEF IsModel, After

-----------------------------------------------------------------------------
(* The errors of a space are no phases. *)

Phases == {"read", "loaded", "applying", "ready"}

LEMMA FirstOfNamed ==
  ASSUME NEW n \in Nat, NEW errors, Len(errors) = n, FirstOf(errors) # "none"
  PROVE  \E i \in 1 .. n : FirstOf(errors) = errors[i] /\ errors[i] # "none"
<1> DEFINE I == {i \in 1 .. Len(errors) : errors[i] # "none"}
<1>1. SelectInSeq(errors, LAMBDA e : e # "none") = IF I # {} THEN Min(I) ELSE 0
  BY DEF SelectInSeq
<1>2. I # {}
  BY <1>1 DEF FirstOf
<1>3. Min(I) \in I
  BY <1>2, LeastIndex
<1> HIDE DEF I
<1>4. Min(I) \in 1 .. n /\ errors[Min(I)] # "none"
  BY <1>3 DEF I
<1> QED
  BY <1>1, <1>2, <1>4 DEF FirstOf

LEMMA SpaceErrorNamed ==
  ASSUME NEW model, NEW list \in Seq(Parameters), SpaceError(model, list) # "none"
  PROVE  SpaceError(model, list) \notin Phases
<1>1. DOMAIN list = 1 .. Len(list) /\ Len(list) \in Nat
  BY LenProperties
<1>2. ASSUME NEW i \in 1 .. Len(list), FirstError(ParamChecks(list, i)) # "none"
      PROVE  FirstError(ParamChecks(list, i)) \notin Phases
  <2> DEFINE checks == ParamChecks(list, i)
  <2>1. Len(checks) = 5 /\ \A k \in 1 .. 5 : checks[k].error \notin Phases
    BY DEF ParamChecks, Phases
  <2> HIDE DEF checks
  <2>2. \E k \in 1 .. 5 : FirstError(checks) = checks[k].error
    BY <1>2, <2>1, FirstErrorNamed DEF checks
  <2> QED
    BY <2>1, <2>2 DEF checks
<1>3. ASSUME NEW i \in 1 .. Len(list), FirstError(FitChecks(model, list[i])) # "none"
      PROVE  FirstError(FitChecks(model, list[i])) \notin Phases
  <2> DEFINE checks == FitChecks(model, list[i])
  <2>1. Len(checks) = 3 /\ \A k \in 1 .. 3 : checks[k].error \notin Phases
    BY DEF FitChecks, Phases
  <2> HIDE DEF checks
  <2>2. \E k \in 1 .. 3 : FirstError(checks) = checks[k].error
    BY <1>3, <2>1, FirstErrorNamed DEF checks
  <2> QED
    BY <2>1, <2>2 DEF checks
<1>4. CASE list = <<>>
  BY <1>4 DEF SpaceError, InternalError, Phases
<1>5. CASE list # <<>> /\ InternalError(list) # "none"
  <2> DEFINE errors == [i \in DOMAIN list |-> FirstError(ParamChecks(list, i))]
  <2>1. Len(errors) = Len(list) /\ \A i \in 1 .. Len(list) : errors[i] # "none" => errors[i] \notin Phases
    BY <1>1, <1>2
  <2>2. InternalError(list) = FirstOf(errors)
    BY <1>5 DEF InternalError
  <2> HIDE DEF errors
  <2> QED
    BY <1>1, <1>5, <2>1, <2>2, FirstOfNamed DEF SpaceError
<1>6. CASE InternalError(list) = "none"
  <2> DEFINE errors == [i \in DOMAIN list |-> FirstError(FitChecks(model, list[i]))]
  <2>1. Len(errors) = Len(list) /\ \A i \in 1 .. Len(list) : errors[i] # "none" => errors[i] \notin Phases
    BY <1>1, <1>3
  <2>2. SpaceError(model, list) = FirstOf(errors)
    BY <1>6 DEF SpaceError, FitError
  <2> HIDE DEF errors
  <2> QED
    BY <1>1, <1>6, <2>1, <2>2, FirstOfNamed
<1> QED
  BY <1>4, <1>5, <1>6

-----------------------------------------------------------------------------
(* The invariant of a sweep: what is left to do is the tail of the list of *)
(* changes, and the model is the base after the others.                    *)

PartlyApplied(k) ==
  /\ Proper(request)
  /\ todo \in Seq(Changes) /\ Len(todo) = Len(space) - k
  /\ \A j \in 1 .. Len(todo) : todo[j] = ChangeOf(request, k + j)
  /\ hw = After(request, k)

Sweep ==
  /\ request \in Requests
  /\ phase \in {"read", "loaded"} => hw = base
  /\ phase \in {"loaded", "applying", "ready"} => HardwareError(base) = "none"
  /\ phase = "applying" => \E k \in 0 .. Len(space) : PartlyApplied(k)
  /\ phase = "ready" =>
       /\ HardwareError(hw) = "none"
       /\ hw = base \/ (Proper(request) /\ hw = After(request, Len(space)))
  /\ HardwareError(base) = "none" /\ Proper(request)
       /\ phase \notin {"read", "loaded", "applying"} =>
       /\ phase = "ready" <=> HardwareError(After(request, Len(space))) = "none"
       /\ phase = "ready" => hw = After(request, Len(space))

LEMMA SweepInit == Init => Sweep
BY DEF Init, Sweep

LEMMA StepKinds ==
  ASSUME [Next]_vars
  PROVE  MutateStep \/ UNCHANGED mutateVars
BY DEF Next, vars, Prepare, StartFirst, Step, FactoryProduced, FactoryFailed, GateCompleted,
       ScheduleGate

LEMMA SweepStep ==
  ASSUME Sweep, [Next]_vars
  PROVE  Sweep'
<1>1. IsModel(base) /\ space \in Seq(Parameters) /\ point \in Seq(Int)
  BY RequestShape DEF Sweep, base, space, point
<1>2. CASE UNCHANGED mutateVars
  BY <1>2 DEF Sweep, mutateVars, base, space, PartlyApplied
<1>3. CASE Load
  <2>1. HardwareError(base) # "none" => HardwareError(base) \notin Phases
    BY HardwareErrorNamed DEF Phases
  <2> QED
    BY <1>3, <2>1 DEF Load, Sweep, base, space, Phases
<1>4. CASE UseBase
  <2>1. ~Proper(request)
    BY <1>1, <1>4, SpaceAccepted DEF UseBase, Proper, space, base
  <2> QED
    BY <1>4, <2>1 DEF UseBase, Sweep, base, space
<1>5. CASE RefuseSpace
  <2>1. phase' \notin Phases
    BY <1>1, <1>5, SpaceErrorNamed DEF RefuseSpace
  <2>2. ~Proper(request)
    BY <1>5 DEF RefuseSpace, Proper, base, space
  <2> QED
    BY <1>5, <2>1, <2>2 DEF RefuseSpace, Sweep, base, space, Phases
<1>6. CASE MapPoint
  <2>1. CASE Len(point) # Len(space)
    <3>1. ~Proper(request)
      BY <2>1 DEF Proper, point, space
    <3> QED
      BY <1>6, <2>1, <3>1 DEF MapPoint, Sweep, base, space
  <2>2. CASE Len(point) = Len(space)
    <3>1. Proper(request)
      BY <1>1, <1>6, <2>2 DEF Proper, MapPoint, base, space, point
    <3>2. todo' = [i \in 1 .. Len(space) |-> ChangeOf(request, i)] /\ phase' = "applying"
      BY <1>1, <1>6, <2>2, LenProperties DEF MapPoint, ChangeOf, base, space, point
    <3>3. \A i \in 1 .. Len(space) : ChangeOf(request, i) \in Changes
      BY <3>1, ChangeTyped DEF space
    <3>4. Len(space) \in Nat
      BY <1>1, LenProperties
    <3>5. todo' \in Seq(Changes) /\ Len(todo') = Len(space)
      BY <3>2, <3>3, <3>4, IsASeq
    <3>6. hw' = After(request, 0) /\ request' = request
      BY <1>6, <3>1, AfterNone DEF MapPoint, Sweep, base
    <3>7. PartlyApplied(0)'
      BY <3>1, <3>2, <3>4, <3>5, <3>6 DEF PartlyApplied, space
    <3> QED
      BY <1>6, <3>2, <3>4, <3>7 DEF MapPoint, Sweep, base, space
  <2> QED
    BY <2>1, <2>2
<1>7. CASE ApplySingle
  <2>1. PICK k \in 0 .. Len(space) : PartlyApplied(k)
    BY <1>7 DEF ApplySingle, Sweep
  <2>2. Len(space) \in Nat
    BY <1>1, LenProperties
  <2>3. /\ todo \in Seq(Changes) /\ todo # <<>>
        /\ Len(todo) = Len(space) - k /\ Proper(request)
    BY <1>7, <2>1 DEF PartlyApplied, ApplySingle
  <2>4. /\ Head(todo) = todo[1] /\ Tail(todo) \in Seq(Changes)
        /\ Len(Tail(todo)) = Len(todo) - 1
        /\ \A j \in 1 .. Len(Tail(todo)) : Tail(todo)[j] = todo[j + 1]
    BY <2>3, HeadTailProperties
  <2>5. Len(todo) \in Nat \ {0}
    BY <2>3, EmptySeq, LenProperties
  <2>6. k \in Nat /\ k < Len(space) /\ k + 1 \in 0 .. Len(space)
    BY <2>2, <2>3, <2>5
  <2>7. Head(todo) = ChangeOf(request, k + 1)
    BY <2>1, <2>4, <2>5 DEF PartlyApplied
  <2>8. hw' = After(request, k + 1) /\ request' = request
    BY <1>7, <2>1, <2>3, <2>6, <2>7, AfterOne DEF ApplySingle, PartlyApplied, space
  <2>9. \A j \in 1 .. Len(todo') : todo'[j] = ChangeOf(request, (k + 1) + j)
    <3> SUFFICES ASSUME NEW j \in 1 .. Len(Tail(todo))
                 PROVE  Tail(todo)[j] = ChangeOf(request, (k + 1) + j)
      BY <1>7 DEF ApplySingle
    <3>1. j + 1 \in 1 .. Len(todo) /\ k + (j + 1) = (k + 1) + j
      BY <2>4, <2>5, <2>6
    <3> QED
      BY <2>1, <2>4, <3>1 DEF PartlyApplied
  <2>10. todo' \in Seq(Changes) /\ Len(todo') = Len(space) - (k + 1)
    BY <1>7, <2>2, <2>3, <2>4, <2>6 DEF ApplySingle
  <2>11. PartlyApplied(k + 1)'
    BY <2>3, <2>8, <2>9, <2>10 DEF PartlyApplied, space
  <2> QED
    BY <1>7, <2>6, <2>8, <2>11 DEF ApplySingle, Sweep, base, space
<1>8. CASE ConcludeMutation
  <2>1. PICK k \in 0 .. Len(space) : PartlyApplied(k)
    BY <1>8 DEF ConcludeMutation, Sweep
  <2>2. k = Len(space)
    <3>1. Len(todo) = 0 /\ Len(space) \in Nat
      BY <1>1, <1>8, LenProperties DEF ConcludeMutation
    <3> QED
      BY <2>1, <3>1 DEF PartlyApplied
  <2>3. Proper(request) /\ hw = After(request, Len(space))
    BY <2>1, <2>2 DEF PartlyApplied
  <2>4. HardwareError(hw) # "none" => HardwareError(hw) \notin Phases
    BY HardwareErrorNamed DEF Phases
  <2> QED
    BY <1>8, <2>3, <2>4 DEF ConcludeMutation, Sweep, base, space, Phases
<1>9. MutateStep \/ UNCHANGED mutateVars
  BY StepKinds
<1> QED
  BY <1>2, <1>3, <1>4, <1>5, <1>6, <1>7, <1>8, <1>9 DEF MutateStep

LEMMA Sweeps == Spec => []Sweep
<1>1. Init => Sweep
  BY SweepInit
<1>2. Sweep /\ [Next]_vars => Sweep'
  BY SweepStep
<1> QED
  BY <1>1, <1>2, PTL DEF Spec

-----------------------------------------------------------------------------
(* What it says of a point. *)

(* mutate_hw_multi judges a point as a whole: it is refused exactly if the *)
(* model it asks for is invalid, and accepted it yields that model.        *)
THEOREM JudgedAsAWhole == Spec => []SweptAsAWhole
<1>1. ASSUME Sweep
      PROVE  SweptAsAWhole
  <2> SUFFICES ASSUME HardwareError(base) = "none", SpaceError(base, space) = "none",
                      Len(point) = Len(space), phase \notin {"read", "loaded", "applying"}
               PROVE  /\ phase = "ready" <=> HardwareError(Target) = "none"
                      /\ phase = "ready" => hw = Target
    BY DEF SweptAsAWhole
  <2>1. Proper(request)
    BY <1>1, RequestShape DEF Sweep, Proper, base, space, point
  <2>2. Target = After(request, Len(space))
    <3>1. \A f : PlaceOf(request, f) \in 1 .. Len(space) <=> PlaceOf(request, f) # 0
      BY <2>1, Places DEF space
    <3>2. \A f : SelectInSeq(space, LAMBDA p : p.name = f) = PlaceOf(request, f)
      BY DEF PlaceOf, space
    <3>3. \A f \in DOMAIN base.value :
            (LET i == SelectInSeq(space, LAMBDA p : p.name = f)
             IN  IF i = 0 THEN base.value[f] ELSE Stored(f, MapUnit(space[i], point[i])))
              = ValuesAfter(request, Len(space))[f]
      BY <3>1, <3>2 DEF ValuesAfter, ChangeOf, base, space, point
    <3>4. Target = [base EXCEPT !.value = ValuesAfter(request, Len(space))]
      BY <3>3 DEF Target, ValuesAfter, base
    <3> QED
      BY <2>1, <3>4 DEF After, Proper, IsModel, base
  <2> QED
    BY <1>1, <2>1, <2>2 DEF Sweep
<1> QED
  BY <1>1, Sweeps, PTL

(* map_unit_to_physical keeps every value between the bounds of its        *)
(* parameter, whole or odd where the kind says so, and reaches both.       *)
THEOREM ValuesWithinBounds == Spec => []MappedWithinBounds
<1>1. ASSUME Sweep
      PROVE  MappedWithinBounds
  <2> SUFFICES ASSUME phase = "applying", NEW i \in DOMAIN space, NEW j \in DOMAIN todo,
                      todo[j].name = space[i].name, NaN \notin {space[i].min, space[i].max}
               PROVE  Within(space[i], point[i], todo[j].value)
    BY DEF MappedWithinBounds, Within
  <2>1. PICK k \in 0 .. Len(space) : PartlyApplied(k)
    BY <1>1 DEF Sweep
  <2>2. /\ Proper(request) /\ space \in Seq(Parameters) /\ todo \in Seq(Changes)
        /\ Len(todo) = Len(space) - k
    BY <2>1 DEF PartlyApplied, Proper, space
  <2>3. i \in 1 .. Len(space) /\ j \in 1 .. Len(todo) /\ Len(space) \in Nat
    BY <2>2, LenProperties
  <2>4. k + j \in 1 .. Len(space)
    BY <2>2, <2>3
  <2>5. todo[j] = ChangeOf(request, k + j)
    BY <2>1, <2>3 DEF PartlyApplied
  <2>6. space[k + j].name = space[i].name
    BY <2>5 DEF ChangeOf, space
  <2>7. i = k + j
    BY <2>2, <2>3, <2>4, <2>6, SpaceAccepted DEF Proper, space
  <2> QED
    BY <2>2, <2>3, <2>5, <2>7, ChangeTyped DEF space, point
<1> QED
  BY <1>1, Sweeps, PTL

-----------------------------------------------------------------------------
(* What a run is started on. *)

LEMMA CeilDivNat ==
  ASSUME NEW a \in Nat, NEW b \in Nat \ {0}
  PROVE  CeilDiv(a, b) \in Nat /\ AtLeastOne(CeilDiv(a, b)) \in Nat \ {0}
<1> DEFINE y == a + b - 1
           q == y \div b
<1>1. y \in Nat
  OBVIOUS
<1> HIDE DEF y
<1>2. q \in Int /\ y < b * q + b
  BY <1>1, WholePart
<1> HIDE DEF q
<1>3. b * q + b = b * (q + 1) /\ b * 0 = 0 /\ q + 1 \in Int
  BY <1>2
<1>4. b * 0 < b * (q + 1)
  BY <1>1, <1>2, <1>3
<1>5. 0 < q + 1
  BY <1>3, <1>4, CancelLess
<1>6. CeilDiv(a, b) = q /\ q \in Nat
  BY <1>2, <1>5 DEF CeilDiv, q, y
<1> QED
  BY <1>6 DEF AtLeastOne

LEMMA ModelFields ==
  ASSUME NEW model, IsModel(model)
  PROVE  /\ \A f \in CommonFields : model.value[f] \in Floats
         /\ \A f \in CommonFields \cap IntegerFields : model.value[f] \in Nat
         /\ \A f \in FactoryFields[model.factory] : model.value[f] \in Floats
         /\ \A f \in FactoryFields[model.factory] \cap IntegerFields : model.value[f] \in Nat
         /\ model.factory \in {"distillation", "cultivation", "rz_synthesis"}
<1>1. DOMAIN model.value = Fields(model.factory, model.routing)
  BY DEF IsModel
<1>2. CommonFields \subseteq DOMAIN model.value /\ FactoryFields[model.factory] \subseteq DOMAIN model.value
  BY <1>1 DEF Fields
<1>3. model.factory \in {"distillation", "cultivation", "rz_synthesis"}
  BY DEF IsModel, FactoryFields
<1> QED
  BY <1>2, <1>3 DEF IsModel

(* Every accepted model has an attempt to offer, and it takes cycles.      *)
LEMMA Productive ==
  ASSUME NEW model, IsModel(model), HardwareError(model) = "none"
  PROVE  /\ ScheduleProduction(model) # {}
         /\ \A attempt \in ScheduleProduction(model) : attempt.delay \in Nat
<1> DEFINE v == model.value
<1>1. RawTimes # {} /\ RawTimes \subseteq Nat
  BY RequestsAssumption
<1>2. CASE model.factory = "distillation"
  <2>1. v["cycles_per_round"] \in Nat /\ v["rounds"] \in Nat /\ v["abort_probability"] \in Floats
    BY <1>2, ModelFields DEF FactoryFields, IntegerFields
  <2>2. v["abort_probability"] \in 0 .. Scale
    BY <1>2, <2>1, HardwareAccepted, Numbers DEF NotClosedUnit, Floats
  <2>3. ScheduleProduction(model) = Distillation(v)
    BY <1>2 DEF ScheduleProduction
  <2> HIDE DEF v
  <2>4. Distillation(v) # {}
    <3>1. CASE v["abort_probability"] < Scale \/ v["rounds"] = 0
      <4>1. Attempt("produced", v["cycles_per_round"] * v["rounds"]) \in Distillation(v)
        BY <3>1 DEF Distillation
      <4> QED
        BY <4>1
    <3>2. CASE v["abort_probability"] > 0 /\ v["rounds"] # 0
      <4>1. 0 \in 0 .. v["rounds"] - 1
        BY <2>1, <3>2
      <4>2. Attempt("failed", v["cycles_per_round"] * (0 + 1)) \in Distillation(v)
        BY <3>2, <4>1 DEF Distillation
      <4> QED
        BY <4>2
    <3> QED
      BY <2>2, <3>1, <3>2, Numbers
  <2>5. ASSUME NEW attempt \in Distillation(v)
        PROVE  attempt.delay \in Nat
    <3>1. \A n \in Nat : v["cycles_per_round"] * n \in Nat
      BY <2>1
    <3>2. PICK n \in Nat : attempt.delay = v["cycles_per_round"] * n
      <4>1. CASE \E round \in 0 .. v["rounds"] - 1 :
                   attempt = Attempt("failed", v["cycles_per_round"] * (round + 1))
        <5>1. PICK round \in 0 .. v["rounds"] - 1 :
                attempt = Attempt("failed", v["cycles_per_round"] * (round + 1))
          BY <4>1
        <5>2. round + 1 \in Nat
          BY <2>1, <5>1
        <5> QED
          BY <5>1, <5>2 DEF Attempt
      <4>2. CASE attempt = Attempt("produced", v["cycles_per_round"] * v["rounds"])
        BY <2>1, <4>2 DEF Attempt
      <4> QED
        BY <2>5, <4>1, <4>2 DEF Distillation
    <3> QED
      BY <3>1, <3>2
  <2> QED
    BY <2>3, <2>4, <2>5
<1>3. CASE model.factory = "cultivation"
  <2>1. v["code_distance"] \in Nat \ {0}
    <3>1. v["code_distance"] \in Nat /\ ~(v["code_distance"] < 3)
      BY ModelFields, HardwareAccepted DEF CommonFields, IntegerFields
    <3> QED
      BY <3>1
  <2>2. ScheduleProduction(model) = Cultivation(v)
    BY <1>3 DEF ScheduleProduction
  <2> HIDE DEF v
  <2>3. \A t \in RawTimes : ServiceTime(t, v["code_distance"]) \in Nat
    BY <1>1, <2>1, CeilDivNat DEF ServiceTime
  <2>4. PICK t \in RawTimes : TRUE
    BY <1>1
  <2>5. Attempt("produced", ServiceTime(t, v["code_distance"])) \in Cultivation(v)
    BY DEF Cultivation
  <2>6. ASSUME NEW attempt \in Cultivation(v)
        PROVE  attempt.delay \in Nat
    <3>1. PICK x \in RawTimes : attempt = Attempt("produced", ServiceTime(x, v["code_distance"]))
      BY DEF Cultivation
    <3> QED
      BY <2>3, <3>1 DEF Attempt
  <2> QED
    BY <2>2, <2>5, <2>6
<1>4. CASE model.factory = "rz_synthesis"
  <2>1. ScheduleProduction(model) = RzSynthesis(v)
    BY <1>4 DEF ScheduleProduction
  <2> HIDE DEF v
  <2>2. \A t \in RawTimes : ServiceTime(t, 1) \in Nat
    BY <1>1, CeilDivNat DEF ServiceTime
  <2>3. PICK t \in RawTimes : TRUE
    BY <1>1
  <2>4. Attempt("produced", ServiceTime(t, 1)) \in RzSynthesis(v)
    BY DEF RzSynthesis
  <2>5. ASSUME NEW attempt \in RzSynthesis(v)
        PROVE  attempt.delay \in Nat
    <3>1. PICK x \in RawTimes : attempt = Attempt("produced", ServiceTime(x, 1))
      BY DEF RzSynthesis
    <3> QED
      BY <2>2, <3>1 DEF Attempt
  <2> QED
    BY <2>1, <2>4, <2>5
<1> QED
  BY <1>2, <1>3, <1>4, ModelFields

(* Whatever was swept, even bounds that are not numbers, a run is started  *)
(* only on a model the engine can take: factories it can name, a preload   *)
(* that fits the buffer, costs that are numbers of cycles.                 *)
THEOREM StartsOnSoundHardware == Spec => []FitsEngine
<1>1. ASSUME Sweep
      PROVE  FitsEngine
  <2> SUFFICES ASSUME phase = "ready"
               PROVE  /\ CreateFactories(hw) # {} /\ CreateFactories(hw) \subseteq 0 .. MaxCount - 1
                      /\ hw.value["buffer_capacity"] \in Nat \ {0}
                      /\ hw.value["buffer_preload"] \in 0 .. hw.value["buffer_capacity"]
                      /\ MeasurementCycles(hw) \in Nat \ {0} /\ FeedbackDelay(hw) \in Nat
                      /\ hw.value["fixup_cost_cycles"] \in Nat
                      /\ ScheduleProduction(hw) # {}
                      /\ \A attempt \in ScheduleProduction(hw) : attempt.delay \in Nat
    BY DEF FitsEngine
  <2>1. HardwareError(hw) = "none"
    BY <1>1 DEF Sweep
  <2>2. IsModel(hw)
    <3>1. CASE hw = base
      BY <1>1, <3>1, RequestShape DEF Sweep, base
    <3>2. CASE Proper(request) /\ hw = After(request, Len(space))
      <4>1. Len(space) \in 0 .. Len(space)
        BY <3>2, LenProperties DEF Proper, space
      <4> QED
        BY <3>2, <4>1, AfterAll DEF space
    <3> QED
      BY <1>1, <3>1, <3>2 DEF Sweep
  <2> DEFINE v == hw.value
  <2>3. /\ v["factory_count"] \in Nat /\ v["buffer_capacity"] \in Nat
        /\ v["buffer_preload"] \in Nat /\ v["fixup_cost_cycles"] \in Nat
        /\ v["cycle_time_us"] \in Floats /\ v["measurement_time_us"] \in Floats
        /\ v["feedback_latency_us"] \in Floats
    BY <2>2, ModelFields DEF CommonFields, IntegerFields
  <2>4. /\ v["factory_count"] # 0 /\ ~(v["factory_count"] > MaxCount)
        /\ v["buffer_capacity"] # 0 /\ ~(v["buffer_preload"] > v["buffer_capacity"])
        /\ ~NotPositive(v["cycle_time_us"]) /\ ~NotPositive(v["measurement_time_us"])
        /\ ~(v["feedback_latency_us"] = NaN \/ v["feedback_latency_us"] < 0)
    BY <2>1, HardwareAccepted
  <2> HIDE DEF v
  <2>5. CreateFactories(hw) # {} /\ CreateFactories(hw) \subseteq 0 .. MaxCount - 1
    <3>1. CreateFactories(hw) = 0 .. v["factory_count"] - 1
      BY DEF CreateFactories, v
    <3>2. 0 \in 0 .. v["factory_count"] - 1 /\ v["factory_count"] - 1 <= MaxCount - 1
      BY <2>3, <2>4, Numbers, NumbersAssumption
    <3>3. v["factory_count"] - 1 \in Int /\ MaxCount - 1 \in Int
      BY <2>3, NumbersAssumption
    <3> QED
      BY <3>1, <3>2, <3>3
  <2>6. /\ v["cycle_time_us"] \in Nat \ {0} /\ v["measurement_time_us"] \in Nat
        /\ v["feedback_latency_us"] \in Nat
    BY <2>3, <2>4 DEF NotPositive, Floats
  <2>7. MeasurementCycles(hw) \in Nat \ {0} /\ FeedbackDelay(hw) \in Nat
    BY <2>6, CeilDivNat DEF MeasurementCycles, FeedbackDelay, v
  <2>8. /\ v["buffer_capacity"] \in Nat \ {0}
        /\ v["buffer_preload"] \in 0 .. v["buffer_capacity"]
    BY <2>3, <2>4
  <2> QED
    BY <2>1, <2>2, <2>3, <2>5, <2>7, <2>8, Productive DEF v
<1> QED
  BY <1>1, Sweeps, PTL

-----------------------------------------------------------------------------
(* The event queue. *)

Pending(E) == [cycle : Nat, seq : Nat, event : E]

(* The list s holds the events of h, the next one first. *)
Orders(s, h) ==
  /\ s \in Seq(h)
  /\ \A x \in h : \E i \in DOMAIN s : s[i] = x
  /\ \A i, j \in DOMAIN s : i < j => Earlier(s[i], s[j])

(* No two events have one sequence number. *)
Numbered(h) == \A x, y \in h : x.seq = y.seq => x = y

(* There is at most one such list. *)
LEMMA OrdersUnique ==
  ASSUME NEW E, NEW h \in SUBSET Pending(E), NEW s, Orders(s, h)
  PROVE  /\ IsFiniteSet(h) /\ Cardinality(h) = Len(s)
         /\ Sorted(h) = s
<1> DEFINE n == Len(s)
           Before(x) == {y \in h : Earlier(y, x)}
<1>1. s \in Seq(h) /\ DOMAIN s = 1 .. n /\ n \in Nat
  BY LenProperties DEF Orders
<1>2. \A i \in 1 .. n : s[i] \in h /\ s[i].cycle \in Nat /\ s[i].seq \in Nat
  <2>1. \A i \in 1 .. n : s[i] \in h
    BY <1>1, ElementOfSeq
  <2> QED
    BY <2>1 DEF Pending
<1>3. \A x \in h : \E i \in 1 .. n : s[i] = x
  BY <1>1 DEF Orders
<1>4. \A i, j \in 1 .. n : i < j => Earlier(s[i], s[j])
  BY <1>1 DEF Orders
<1>5. \A i, j \in 1 .. n : Earlier(s[i], s[j]) => i < j
  <2> SUFFICES ASSUME NEW i \in 1 .. n, NEW j \in 1 .. n, Earlier(s[i], s[j]), ~(i < j)
               PROVE  FALSE
    OBVIOUS
  <2>1. i = j \/ Earlier(s[j], s[i])
    BY <1>1, <1>4
  <2> QED
    BY <1>2, <2>1 DEF Earlier
<1>6. \A i, j \in 1 .. n : s[i] = s[j] => i = j
  <2> SUFFICES ASSUME NEW i \in 1 .. n, NEW j \in 1 .. n, s[i] = s[j], i # j
               PROVE  FALSE
    OBVIOUS
  <2>1. Earlier(s[i], s[j]) \/ Earlier(s[j], s[i])
    BY <1>1, <1>4
  <2> QED
    BY <1>2, <2>1 DEF Earlier
<1>7. IsFiniteSet(1 .. n) /\ Cardinality(1 .. n) = n
  BY <1>1, FS_Interval
<1>8. s \in Bijection(1 .. n, h)
  <2>1. s \in [1 .. n -> h]
    BY <1>1, <1>2
  <2> QED
    BY <1>3, <1>6, <2>1 DEF Bijection, Injection, IsInjective, Surjection
<1>9. IsFiniteSet(h) /\ Cardinality(h) = n
  BY <1>7, <1>8, FS_Bijection DEF ExistsBijection
<1>10. ASSUME NEW i \in 1 .. n
       PROVE  Cardinality(Before(s[i])) = i - 1
  <2> DEFINE f == [k \in 1 .. i - 1 |-> s[k]]
  <2>1. i - 1 \in Nat /\ \A k \in 1 .. i - 1 : k \in 1 .. n /\ k < i
    BY <1>1
  <2>2. \A k \in 1 .. i - 1 : f[k] \in Before(s[i])
    BY <1>2, <1>4, <2>1
  <2>3. \A y \in Before(s[i]) : \E k \in 1 .. i - 1 : f[k] = y
    <3> SUFFICES ASSUME NEW y \in Before(s[i])
                 PROVE  \E k \in 1 .. i - 1 : f[k] = y
      OBVIOUS
    <3>1. y \in h /\ Earlier(y, s[i])
      OBVIOUS
    <3>2. PICK k \in 1 .. n : s[k] = y
      BY <1>3, <3>1
    <3>3. k \in 1 .. i - 1
      BY <1>1, <1>5, <3>1, <3>2
    <3> QED
      BY <3>2, <3>3
  <2>4. \A k, l \in 1 .. i - 1 : f[k] = f[l] => k = l
    BY <1>6, <2>1
  <2> HIDE DEF Before
  <2>5. f \in [1 .. i - 1 -> Before(s[i])]
    BY <2>2
  <2> HIDE DEF f
  <2>6. f \in Bijection(1 .. i - 1, Before(s[i]))
    BY <2>3, <2>4, <2>5 DEF Bijection, Injection, IsInjective, Surjection
  <2>7. IsFiniteSet(1 .. i - 1) /\ Cardinality(1 .. i - 1) = i - 1
    BY <2>1, FS_Interval
  <2> QED
    BY <2>6, <2>7, FS_Bijection DEF ExistsBijection
<1> DEFINE At(i) == CHOOSE x \in h : Cardinality(Before(x)) = i - 1
<1>11. \A i \in 1 .. n : At(i) = s[i]
  <2> SUFFICES ASSUME NEW i \in 1 .. n
               PROVE  At(i) = s[i]
    OBVIOUS
  <2> HIDE DEF Before
  <2>1. At(i) \in h /\ Cardinality(Before(At(i))) = i - 1
    BY <1>2, <1>10
  <2>2. PICK k \in 1 .. n : s[k] = At(i)
    BY <1>3, <2>1
  <2> HIDE DEF At
  <2>3. k - 1 = i - 1
    BY <1>10, <2>1, <2>2
  <2> QED
    BY <2>2, <2>3
<1>12. Sorted(h) = [i \in 1 .. n |-> At(i)]
  BY <1>9 DEF Sorted
<1> HIDE DEF At
<1>13. Sorted(h) = [i \in 1 .. n |-> s[i]]
  BY <1>11, <1>12
<1> QED
  BY <1>1, <1>9, <1>13

(* Putting e behind the first k elements of q. *)
Spliced(q, k, e) == SubSeq(q, 1, k) \o <<e>> \o SubSeq(q, k + 1, Len(q))

(* t is q with e behind its first k elements. *)
Holds(t, q, k, e) ==
  /\ Len(t) = Len(q) + 1
  /\ \A j \in 1 .. Len(q) + 1 : /\ j <= k => t[j] = q[j]
                                /\ j = k + 1 => t[j] = e
                                /\ j > k + 1 => t[j] = q[j - 1]

LEMMA SplicedElements ==
  ASSUME NEW S, NEW q \in Seq(S), NEW e \in S, NEW k \in 0 .. Len(q)
  PROVE  Spliced(q, k, e) \in Seq(S) /\ Holds(Spliced(q, k, e), q, k, e)
<1> DEFINE n == Len(q)
           front == SubSeq(q, 1, k)
           back == SubSeq(q, k + 1, n)
<1>1. n \in Nat /\ k \in Nat /\ k <= n /\ \A i \in 1 .. n : q[i] \in S
  BY LenProperties, ElementOfSeq
<1>2. front \in Seq(S) /\ Len(front) = k /\ \A i \in 1 .. k : front[i] = q[i]
  <2>1. \A i \in 1 .. k : q[i] \in S
    BY <1>1
  <2>2. /\ front \in Seq(S) /\ Len(front) = IF 1 <= k THEN k - 1 + 1 ELSE 0
        /\ \A i \in 1 .. k - 1 + 1 : front[i] = q[1 + i - 1]
    BY <1>1, <2>1, SubSeqProperties
  <2> HIDE DEF front
  <2> QED
    BY <1>1, <2>2
<1>3. back \in Seq(S) /\ Len(back) = n - k /\ \A i \in 1 .. n - k : back[i] = q[k + i]
  <2>1. \A i \in k + 1 .. n : q[i] \in S
    BY <1>1
  <2>2. /\ back \in Seq(S) /\ Len(back) = IF k + 1 <= n THEN n - (k + 1) + 1 ELSE 0
        /\ \A i \in 1 .. n - (k + 1) + 1 : back[i] = q[(k + 1) + i - 1]
    BY <1>1, <2>1, SubSeqProperties
  <2>3. n - (k + 1) + 1 = n - k /\ \A i \in 1 .. n - k : (k + 1) + i - 1 = k + i
    BY <1>1
  <2>4. (IF k + 1 <= n THEN n - (k + 1) + 1 ELSE 0) = n - k
    BY <1>1
  <2> HIDE DEF back, n
  <2> QED
    BY <2>2, <2>3, <2>4
<1>4. <<e>> \in Seq(S) /\ Len(<<e>>) = 1 /\ <<e>>[1] = e
  OBVIOUS
<1>5. Spliced(q, k, e) = (front \o <<e>>) \o back
  BY DEF Spliced
<1> DEFINE first == front \o <<e>>
<1> HIDE DEF front, back, n
<1>6. /\ first \in Seq(S) /\ Len(first) = k + 1
      /\ \A i \in 1 .. k + 1 : first[i] = IF i <= k THEN front[i] ELSE <<e>>[i - k]
  BY <1>1, <1>2, <1>4, ConcatProperties
<1> HIDE DEF first
<1>7. /\ first \o back \in Seq(S) /\ Len(first \o back) = n + 1
      /\ \A i \in 1 .. n + 1 :
           (first \o back)[i] = IF i <= k + 1 THEN first[i] ELSE back[i - (k + 1)]
  <2>1. /\ first \o back \in Seq(S) /\ Len(first \o back) = Len(first) + Len(back)
        /\ \A i \in 1 .. Len(first) + Len(back) :
             (first \o back)[i] = IF i <= Len(first) THEN first[i] ELSE back[i - Len(first)]
    BY <1>3, <1>6, ConcatProperties
  <2>2. Len(first) + Len(back) = n + 1
    BY <1>1, <1>3, <1>6
  <2> QED
    BY <1>6, <2>1, <2>2
<1>8. ASSUME NEW j \in 1 .. n + 1
      PROVE  /\ j <= k => (first \o back)[j] = q[j]
             /\ j = k + 1 => (first \o back)[j] = e
             /\ j > k + 1 => (first \o back)[j] = q[j - 1]
  <2>1. CASE j <= k
    <3>1. j \in 1 .. k /\ j \in 1 .. k + 1 /\ j <= k + 1
      BY <1>1, <2>1
    <3> QED
      BY <1>2, <1>6, <1>7, <2>1, <3>1
  <2>2. CASE j = k + 1
    <3>1. j \in 1 .. k + 1 /\ ~(j <= k) /\ j - k = 1
      BY <1>1, <2>2
    <3> QED
      BY <1>4, <1>6, <1>7, <2>2, <3>1
  <2>3. CASE j > k + 1
    <3>1. /\ ~(j <= k) /\ ~(j <= k + 1) /\ j # k + 1
          /\ j - (k + 1) \in 1 .. n - k /\ k + (j - (k + 1)) = j - 1
      BY <1>1, <2>3
    <3>2. (first \o back)[j] = back[j - (k + 1)]
      BY <1>7, <3>1
    <3>3. back[j - (k + 1)] = q[k + (j - (k + 1))]
      BY <1>3, <3>1
    <3>4. (first \o back)[j] = q[j - 1]
      BY <3>1, <3>2, <3>3
    <3> QED
      BY <3>1, <3>4
  <2>4. j <= k \/ j = k + 1 \/ j > k + 1
    BY <1>1
  <2> QED
    BY <2>1, <2>2, <2>3, <2>4
<1>9. Spliced(q, k, e) = first \o back
  BY <1>5 DEF first
<1> QED
  BY <1>7, <1>8, <1>9 DEF n, Holds

(* A new event goes behind those that are not later, which are the first. *)
LEMMA SplicedOrders ==
  ASSUME NEW E, NEW h \in SUBSET Pending(E), NEW s, Orders(s, h),
         NEW e \in Pending(E), \A x \in h : x.seq < e.seq
  PROVE  \E k \in 0 .. Len(s) :
           /\ \A i \in DOMAIN s : i <= k <=> s[i].cycle <= e.cycle
           /\ Orders(Spliced(s, k, e), h \cup {e})
<1> DEFINE n == Len(s)
<1>1. s \in Seq(h) /\ DOMAIN s = 1 .. n /\ n \in Nat
  BY LenProperties DEF Orders
<1>2. \A i \in 1 .. n : s[i] \in h
  BY <1>1, ElementOfSeq
<1>3. \A x \in h \cup {e} : x.cycle \in Nat /\ x.seq \in Nat
  BY DEF Pending
<1>4. \A i, j \in 1 .. n : i < j => Earlier(s[i], s[j])
  BY <1>1 DEF Orders
<1> HIDE DEF n
<1>5. \A i, j \in 1 .. n : i < j => s[i].cycle <= s[j].cycle
  BY <1>2, <1>3, <1>4 DEF Earlier
<1>6. PICK k \in 0 .. n : \A i \in 1 .. n : i <= k <=> s[i].cycle <= e.cycle
  <2> DEFINE T == {i \in 1 .. n : ~(s[i].cycle <= e.cycle)}
  <2>1. CASE T = {}
    <3>1. \A i \in 1 .. n : i <= n /\ s[i].cycle <= e.cycle
      BY <1>1, <2>1
    <3>2. n \in 0 .. n
      BY <1>1
    <3> QED
      BY <3>1, <3>2
  <2>2. CASE T # {}
    <3>1. PICK m \in T : \A i \in T : m <= i
      <4>1. T \in SUBSET Nat
        BY <1>1
      <4> HIDE DEF T
      <4> QED
        BY <2>2, <4>1, LeastNumber
    <3>2. m - 1 \in 0 .. n /\ m \in 1 .. n /\ ~(s[m].cycle <= e.cycle)
      BY <1>1, <3>1
    <3>3. ASSUME NEW i \in 1 .. n
          PROVE  i <= m - 1 <=> s[i].cycle <= e.cycle
      <4>1. CASE i < m
        <5>1. i \notin T
          BY <1>1, <3>1, <3>2, <4>1
        <5> QED
          BY <1>1, <3>2, <4>1, <5>1
      <4>2. CASE i = m
        BY <1>1, <3>2, <4>2
      <4>3. CASE m < i
        <5>1. s[m].cycle <= s[i].cycle
          BY <1>5, <3>2, <4>3
        <5>2. ~(s[i].cycle <= e.cycle)
          BY <1>2, <1>3, <3>2, <5>1
        <5> QED
          BY <1>1, <3>2, <4>3, <5>2
      <4> QED
        BY <1>1, <3>2, <4>1, <4>2, <4>3
    <3> QED
      BY <3>2, <3>3
  <2> QED
    BY <2>1, <2>2
<1> DEFINE t == Spliced(s, k, e)
           S == h \cup {e}
<1>7. t \in Seq(S) /\ Holds(t, s, k, e)
  <2>1. s \in Seq(S) /\ e \in S
    BY <1>1
  <2>2. k \in 0 .. Len(s)
    BY DEF n
  <2> HIDE DEF S
  <2> QED
    BY <2>1, <2>2, SplicedElements
<1> HIDE DEF t
<1>8. DOMAIN t = 1 .. n + 1
  BY <1>7, LenProperties DEF Holds, n
<1>9. \A i \in 1 .. n + 1 : /\ i <= k => i \in 1 .. n /\ t[i] = s[i]
                            /\ i = k + 1 => t[i] = e
                            /\ i > k + 1 => i - 1 \in 1 .. n /\ i - 1 > k /\ t[i] = s[i - 1]
  <2> TAKE i \in 1 .. n + 1
  <2>1. i <= k => i \in 1 .. n
    BY <1>1
  <2>2. i > k + 1 => i - 1 \in 1 .. n /\ i - 1 > k
    BY <1>1
  <2> QED
    BY <1>7, <2>1, <2>2 DEF Holds, n
<1>10. ASSUME NEW x \in S PROVE \E i \in DOMAIN t : t[i] = x
  <2>1. CASE x = e
    <3>1. k + 1 \in 1 .. n + 1
      BY <1>1
    <3> QED
      BY <1>8, <1>9, <2>1, <3>1
  <2>2. CASE x \in h
    <3>1. PICK i \in 1 .. n : s[i] = x
      BY <1>1, <2>2 DEF Orders
    <3>2. CASE i <= k
      <4>1. i \in 1 .. n + 1
        BY <1>1
      <4> QED
        BY <1>8, <1>9, <3>1, <3>2, <4>1
    <3>3. CASE ~(i <= k)
      <4>1. i + 1 \in 1 .. n + 1 /\ i + 1 > k + 1 /\ (i + 1) - 1 = i
        BY <1>1, <3>3
      <4>2. t[i + 1] = s[(i + 1) - 1]
        BY <1>9, <4>1
      <4> QED
        BY <1>8, <3>1, <4>1, <4>2
    <3> QED
      BY <3>2, <3>3
  <2> QED
    BY <2>1, <2>2
<1>11. ASSUME NEW i \in 1 .. n + 1, NEW j \in 1 .. n + 1, i < j
       PROVE  Earlier(t[i], t[j])
  <2>1. CASE j <= k
    <3>1. i <= k
      BY <1>1, <1>11, <2>1
    <3> QED
      BY <1>4, <1>9, <1>11, <2>1, <3>1
  <2>2. CASE i <= k /\ j = k + 1
    <3>1. i \in 1 .. n /\ t[i] = s[i] /\ t[j] = e
      BY <1>9, <2>2
    <3>2. s[i].cycle <= e.cycle /\ s[i].seq < e.seq
      BY <1>2, <1>6, <2>2, <3>1
    <3> QED
      BY <1>2, <1>3, <3>1, <3>2 DEF Earlier
  <2>3. CASE i <= k /\ j > k + 1
    <3>1. /\ i \in 1 .. n /\ t[i] = s[i]
          /\ j - 1 \in 1 .. n /\ t[j] = s[j - 1] /\ j - 1 > k
      BY <1>9, <2>3
    <3>2. i < j - 1
      BY <1>1, <2>3, <3>1
    <3> QED
      BY <1>4, <3>1, <3>2
  <2>4. CASE i = k + 1
    <3>1. j > k + 1
      BY <1>1, <1>11, <2>4
    <3>2. t[i] = e /\ j - 1 \in 1 .. n /\ t[j] = s[j - 1] /\ j - 1 > k
      BY <1>9, <2>4, <3>1
    <3>3. ~(j - 1 <= k)
      BY <1>1, <3>2
    <3>4. ~(s[j - 1].cycle <= e.cycle) /\ s[j - 1] \in h
      BY <1>2, <1>6, <3>2, <3>3
    <3> QED
      BY <1>3, <3>2, <3>4 DEF Earlier
  <2>5. CASE i > k + 1
    <3>1. j > k + 1
      BY <1>1, <1>11, <2>5
    <3>2. i - 1 \in 1 .. n /\ j - 1 \in 1 .. n /\ t[i] = s[i - 1] /\ t[j] = s[j - 1]
      BY <1>9, <2>5, <3>1
    <3>3. i - 1 < j - 1
      BY <1>1, <1>11
    <3> QED
      BY <1>4, <3>2, <3>3
  <2>6. i <= k \/ i = k + 1 \/ i > k + 1
    BY <1>1
  <2>7. j <= k \/ j = k + 1 \/ j > k + 1
    BY <1>1
  <2> QED
    BY <2>1, <2>2, <2>3, <2>4, <2>5, <2>6, <2>7
<1>12. Orders(t, S)
  BY <1>7, <1>8, <1>10, <1>11 DEF Orders
<1> QED
  BY <1>1, <1>6, <1>12 DEF t, n

-----------------------------------------------------------------------------
(* What the engine sees of the list. *)

Entry(x) == [cycle |-> x.cycle, event |-> x.event]

LEMMA EntriesElements ==
  ASSUME NEW S, NEW s \in Seq(S)
  PROVE  /\ Entries(s) \in Seq({Entry(x) : x \in S}) /\ Len(Entries(s)) = Len(s)
         /\ DOMAIN Entries(s) = 1 .. Len(s)
         /\ \A i \in 1 .. Len(s) : Entries(s)[i] = Entry(s[i])
<1>1. DOMAIN s = 1 .. Len(s) /\ Len(s) \in Nat /\ \A i \in 1 .. Len(s) : s[i] \in S
  BY LenProperties, ElementOfSeq
<1>2. Entries(s) = [i \in 1 .. Len(s) |-> Entry(s[i])]
  BY <1>1 DEF Entries, Entry
<1> DEFINE R == {Entry(x) : x \in S}
<1>3. \A i \in 1 .. Len(s) : Entry(s[i]) \in R
  BY <1>1
<1> HIDE DEF R
<1>4. Entries(s) \in [1 .. Len(s) -> R]
  BY <1>2, <1>3
<1>5. Entries(s) \in Seq(R) /\ Len(Entries(s)) = Len(s)
  BY <1>1, <1>4
<1> QED
  BY <1>2, <1>5 DEF R

LEMMA SplicedEntries ==
  ASSUME NEW S, NEW s \in Seq(S), NEW e \in S, NEW k \in 0 .. Len(s)
  PROVE  Entries(Spliced(s, k, e)) = Spliced(Entries(s), k, Entry(e))
<1> DEFINE n == Len(s)
           R == {Entry(x) : x \in S}
           t == Spliced(s, k, e)
<1>1. n \in Nat
  BY LenProperties
<1>2. t \in Seq(S) /\ Holds(t, s, k, e)
  BY SplicedElements
<1>3. Entries(s) \in Seq(R) /\ Len(Entries(s)) = n
      /\ \A i \in 1 .. n : Entries(s)[i] = Entry(s[i])
  BY EntriesElements
<1>4. Entry(e) \in R
  OBVIOUS
<1> HIDE DEF n, R, t
<1> DEFINE z == Entries(s)
           v == Spliced(z, k, Entry(e))
<1>5. v \in Seq(R) /\ Holds(v, z, k, Entry(e))
  <2>1. z \in Seq(R) /\ k \in 0 .. Len(z)
    BY <1>3 DEF n
  <2> HIDE DEF z
  <2> QED
    BY <1>4, <2>1, SplicedElements
<1> HIDE DEF v
<1>6. /\ Entries(t) \in Seq(R) /\ Len(Entries(t)) = n + 1 /\ Len(v) = n + 1
      /\ \A j \in 1 .. n + 1 : Entries(t)[j] = Entry(t[j])
  <2>1. /\ Entries(t) \in Seq(R) /\ Len(Entries(t)) = Len(t)
        /\ \A j \in 1 .. Len(t) : Entries(t)[j] = Entry(t[j])
    BY <1>2, EntriesElements DEF R
  <2>2. Len(t) = n + 1
    BY <1>2 DEF n, Holds
  <2>3. Len(v) = n + 1
    BY <1>3, <1>5 DEF Holds
  <2> QED
    BY <2>1, <2>2, <2>3
<1>7. ASSUME NEW j \in 1 .. n + 1 PROVE Entries(t)[j] = v[j]
  <2>1. CASE j <= k
    <3>1. j \in 1 .. n
      BY <1>1, <2>1 DEF n
    <3>2. t[j] = s[j]
      BY <1>2, <2>1 DEF Holds, n
    <3>3. Entries(t)[j] = Entry(s[j]) /\ v[j] = Entry(s[j])
      BY <1>3, <1>5, <1>6, <2>1, <3>1, <3>2 DEF Holds, n, z
    <3> QED
      BY <3>3
  <2>2. CASE j = k + 1
    <3>2. t[j] = e
      BY <1>2, <2>2 DEF Holds, n
    <3>3. v[j] = Entry(e) /\ Entries(t)[j] = Entry(e)
      BY <1>3, <1>5, <1>6, <2>2, <3>2 DEF Holds, n, z
    <3> QED
      BY <3>3
  <2>3. CASE j > k + 1
    <3>1. j - 1 \in 1 .. n
      BY <1>1, <2>3 DEF n
    <3>2. t[j] = s[j - 1]
      BY <1>2, <2>3 DEF Holds, n
    <3>3. Entries(t)[j] = Entry(s[j - 1]) /\ v[j] = Entry(s[j - 1])
      BY <1>3, <1>5, <1>6, <2>3, <3>1, <3>2 DEF Holds, n, z
    <3> QED
      BY <3>3
  <2>4. j <= k \/ j = k + 1 \/ j > k + 1
    BY <1>1
  <2> QED
    BY <2>1, <2>2, <2>3, <2>4
<1>8. Entries(t) = v
  BY <1>5, <1>6, <1>7, SeqEqual
<1> QED
  BY <1>8 DEF t, v, z

-----------------------------------------------------------------------------
(* A pop renumbers what stays, in its order. *)

Rank(events, x) == Cardinality({y \in events : y.seq < x.seq})
Moved(events, elapsed, x) ==
  [cycle |-> x.cycle - elapsed, seq |-> Rank(events, x), event |-> x.event]

LEMMA Ranks ==
  ASSUME NEW E, NEW r \in SUBSET Pending(E), IsFiniteSet(r), NEW v \in r, NEW w \in r
  PROVE  /\ Rank(r, v) \in Nat /\ Rank(r, v) < Cardinality(r)
         /\ v.seq < w.seq => Rank(r, v) < Rank(r, w)
         /\ v.seq = w.seq => Rank(r, v) = Rank(r, w)
<1> DEFINE Below(x) == {y \in r : y.seq < x.seq}
<1>1. \A y \in r : y.seq \in Nat
  BY DEF Pending
<1>2. Cardinality(r) \in Nat
  BY FS_CardinalityType
<1>3. Below(v) \in SUBSET r /\ v \notin Below(v) /\ Below(w) \in SUBSET r
  BY <1>1
<1>4. v.seq < w.seq => Below(v) \in SUBSET Below(w) /\ v \in Below(w)
  BY <1>1
<1>5. v.seq = w.seq => Below(v) = Below(w)
  OBVIOUS
<1>6. Rank(r, v) = Cardinality(Below(v)) /\ Rank(r, w) = Cardinality(Below(w))
  BY DEF Rank
<1> HIDE DEF Below
<1>7. IsFiniteSet(Below(v)) /\ IsFiniteSet(Below(w))
  BY <1>3, FS_Subset
<1>8. Cardinality(Below(v)) \in Nat /\ Cardinality(Below(w)) \in Nat
  BY <1>7, FS_CardinalityType
<1>9. Cardinality(Below(v)) <= Cardinality(r) /\ Cardinality(Below(v)) # Cardinality(r)
  <2>1. Below(v) # r
    BY <1>3
  <2> QED
    BY <1>3, <2>1, FS_Subset
<1>10. ASSUME v.seq < w.seq
       PROVE  Cardinality(Below(v)) <= Cardinality(Below(w))
              /\ Cardinality(Below(v)) # Cardinality(Below(w))
  <2>1. Below(v) \in SUBSET Below(w) /\ Below(v) # Below(w)
    BY <1>3, <1>4, <1>10
  <2> QED
    BY <1>7, <2>1, FS_Subset
<1> QED
  BY <1>2, <1>5, <1>6, <1>8, <1>9, <1>10

(* The order is the order before. *)
LEMMA MovedKeepsOrder ==
  ASSUME NEW E, NEW r \in SUBSET Pending(E), IsFiniteSet(r), NEW d \in Nat,
         NEW v \in r, NEW w \in r, Earlier(v, w)
  PROVE  Earlier(Moved(r, d, v), Moved(r, d, w))
<1>1. v.cycle \in Nat /\ w.cycle \in Nat
  BY DEF Pending
<1>2. v.seq < w.seq => Rank(r, v) < Rank(r, w)
  BY Ranks
<1> QED
  BY <1>1, <1>2 DEF Earlier, Moved

LEMMA RebasedOrders ==
  ASSUME NEW E, NEW h \in SUBSET Pending(E), Numbered(h), NEW s, Orders(s, h),
         NEW x \in h, \A y \in h : Precedes(x, y)
  PROVE  LET g == Rebased(h \ {x}, x.cycle)
         IN  /\ g \in SUBSET Pending(E) /\ Numbered(g)
             /\ Cardinality(h) - 1 \in Nat /\ \A y \in g : y.seq < Cardinality(h) - 1
             /\ s # <<>> /\ s[1] = x
             /\ Orders([i \in 1 .. Len(s) - 1 |-> Moved(h \ {x}, x.cycle, s[i + 1])], g)
<1> DEFINE n == Len(s)
           r == h \ {x}
           d == x.cycle
           M(v) == Moved(r, d, v)
           g == Rebased(r, d)
           t == [i \in 1 .. n - 1 |-> M(s[i + 1])]
<1>1. s \in Seq(h) /\ DOMAIN s = 1 .. n /\ n \in Nat
  BY LenProperties DEF Orders
<1>2. IsFiniteSet(h) /\ Cardinality(h) = n
  BY OrdersUnique
<1>3. \A y \in h : y.cycle \in Nat /\ y.seq \in Nat /\ y.event \in E
  BY DEF Pending
<1>4. \A i \in 1 .. n : s[i] \in h
  BY <1>1, ElementOfSeq
<1>5. \A i, j \in 1 .. n : i < j => Earlier(s[i], s[j])
  BY <1>1 DEF Orders
<1>6. n >= 1 /\ s # <<>> /\ s[1] = x
  <2>1. PICK i \in 1 .. n : s[i] = x
    BY <1>1 DEF Orders
  <2>2. n >= 1 /\ s # <<>>
    BY <1>1, <2>1
  <2>3. CASE i = 1
    BY <2>1, <2>2, <2>3
  <2>4. CASE i # 1
    <3>1. 1 \in 1 .. n /\ 1 < i
      BY <1>1, <2>1, <2>4
    <3>2. Earlier(s[1], x) /\ s[1] \in h
      BY <1>4, <1>5, <2>1, <3>1
    <3>3. Precedes(x, s[1])
      BY <3>2
    <3> QED
      BY <1>3, <3>2, <3>3 DEF Earlier, Precedes
  <2> QED
    BY <2>3, <2>4
<1>7. r \in SUBSET Pending(E) /\ IsFiniteSet(r) /\ Cardinality(r) = n - 1 /\ d \in Nat
  BY <1>2, <1>3, FS_RemoveElement
<1>8. \A v \in r : v \in h /\ v.cycle - d \in Nat
  <2> SUFFICES ASSUME NEW v \in r PROVE v.cycle - d \in Nat
    OBVIOUS
  <2>1. Precedes(x, v)
    OBVIOUS
  <2> QED
    BY <1>3, <2>1 DEF Precedes
<1>9. g = {M(v) : v \in r}
  BY DEF Rebased, Moved, Rank
<1>10. \A i \in 1 .. n - 1 : i + 1 \in 1 .. n /\ s[i + 1] \in r
  <2> TAKE i \in 1 .. n - 1
  <2>1. i + 1 \in 1 .. n /\ 1 \in 1 .. n /\ 1 < i + 1
    BY <1>1
  <2>2. Earlier(x, s[i + 1])
    BY <1>5, <1>6, <2>1
  <2>3. s[i + 1] # x
    BY <1>3, <2>2 DEF Earlier
  <2> QED
    BY <1>4, <2>1, <2>3
<1>11. \A v \in r : M(v) \in Pending(E) /\ M(v).seq = Rank(r, v) /\ M(v).seq < n - 1
  <2> SUFFICES ASSUME NEW v \in r
               PROVE  M(v) \in Pending(E) /\ M(v).seq = Rank(r, v) /\ M(v).seq < n - 1
    OBVIOUS
  <2>1. v.cycle - d \in Nat /\ v.event \in E
    BY <1>3, <1>8
  <2> HIDE DEF r, d
  <2>2. Rank(r, v) \in Nat /\ Rank(r, v) < n - 1
    BY <1>7, Ranks
  <2> QED
    BY <2>1, <2>2 DEF Moved, Pending
<1>12. \A v, w \in r : M(v).seq = M(w).seq => v = w
  <2> SUFFICES ASSUME NEW v \in r, NEW w \in r, M(v).seq = M(w).seq PROVE v = w
    OBVIOUS
  <2>1. v.seq \in Nat /\ w.seq \in Nat /\ v \in h /\ w \in h
    BY <1>3
  <2> HIDE DEF r, d
  <2>2. /\ Rank(r, v) \in Nat /\ Rank(r, w) \in Nat
        /\ v.seq < w.seq => Rank(r, v) < Rank(r, w)
        /\ w.seq < v.seq => Rank(r, w) < Rank(r, v)
    BY <1>7, Ranks
  <2>3. Rank(r, v) = Rank(r, w)
    BY <1>11
  <2>4. v.seq = w.seq
    BY <2>1, <2>2, <2>3
  <2> QED
    BY <2>1, <2>4 DEF Numbered
<1> HIDE DEF r, d, M, g
<1>13. g \in SUBSET Pending(E) /\ Numbered(g) /\ \A y \in g : y.seq < n - 1
  <2>1. \A y \in g : \E v \in r : y = M(v)
    BY <1>9
  <2>2. \A y, z \in g : y.seq = z.seq => y = z
    BY <1>12, <2>1
  <2> QED
    BY <1>11, <2>1, <2>2 DEF Numbered
<1>14. Orders(t, g)
  <2>1. n - 1 \in Nat /\ DOMAIN t = 1 .. n - 1
    BY <1>1, <1>6
  <2>2. \A i \in 1 .. n - 1 : t[i] = M(s[i + 1]) /\ t[i] \in g
    BY <1>9, <1>10
  <2>3. t \in Seq(g)
    <3>1. t \in [1 .. n - 1 -> g]
      BY <2>1, <2>2
    <3> HIDE DEF n, t
    <3>2. n - 1 \in Nat
      BY <2>1
    <3> QED
      BY <3>1, <3>2, SeqDef
  <2>4. ASSUME NEW y \in g PROVE \E i \in DOMAIN t : t[i] = y
    <3>1. PICK v \in r : y = M(v)
      BY <1>9
    <3>2. v \in h /\ v # x
      BY <3>1 DEF r
    <3>3. PICK j \in 1 .. n : s[j] = v
      BY <1>1, <3>2 DEF Orders
    <3>4. j # 1
      BY <1>6, <3>2, <3>3
    <3>5. j - 1 \in 1 .. n - 1 /\ (j - 1) + 1 = j
      BY <1>1, <3>4
    <3>6. t[j - 1] = M(s[(j - 1) + 1])
      BY <2>2, <3>5
    <3> QED
      BY <2>1, <3>1, <3>3, <3>5, <3>6
  <2>5. ASSUME NEW i \in 1 .. n - 1, NEW j \in 1 .. n - 1, i < j
        PROVE  Earlier(t[i], t[j])
    <3>1. i + 1 \in 1 .. n /\ j + 1 \in 1 .. n /\ i + 1 < j + 1
      BY <1>1, <2>5
    <3>2. Earlier(s[i + 1], s[j + 1]) /\ s[i + 1] \in r /\ s[j + 1] \in r
      BY <1>5, <1>10, <3>1
    <3>3. Earlier(M(s[i + 1]), M(s[j + 1]))
      BY <1>7, <3>2, MovedKeepsOrder DEF M
    <3> QED
      BY <2>2, <3>3
  <2> QED
    BY <2>1, <2>3, <2>4, <2>5 DEF Orders
<1>15. Cardinality(h) - 1 = n - 1 /\ n - 1 \in Nat
  BY <1>1, <1>2, <1>6
<1> QED
  BY <1>6, <1>13, <1>14, <1>15 DEF r, d, M, g, n

-----------------------------------------------------------------------------
(* The heap against the line. *)

LEMMA LineIs ==
  ASSUME NEW E, heap \in SUBSET Pending(E), NEW s, Orders(s, heap)
  PROVE  Line = Entries(s)
BY OrdersUnique DEF Line

(* Scheduling puts an event behind those that are not later. *)
LEMMA ScheduleEnters ==
  ASSUME NEW E, heap \in SUBSET Pending(E), Numbered(heap), NEW s, Orders(s, heap),
         nextSeq \in Nat, \A x \in heap : x.seq < nextSeq,
         NEW delay \in Nat, NEW event \in E, Schedule(delay, event)
  PROVE  /\ heap' \in SUBSET Pending(E) /\ Numbered(heap')
         /\ nextSeq' \in Nat /\ \A x \in heap' : x.seq < nextSeq'
         /\ \E t : Orders(t, heap')
         /\ Queue!Enter(event, delay)
<1> DEFINE e == [cycle |-> delay, seq |-> nextSeq, event |-> event]
<1>1. e \in Pending(E) /\ heap' = heap \cup {e} /\ nextSeq' = nextSeq + 1
  BY DEF Schedule, Pending
<1>2. e.seq = nextSeq /\ e.cycle = delay /\ Entry(e) = [cycle |-> delay, event |-> event]
  BY DEF Entry
<1> HIDE DEF e
<1>3. \A x \in heap : x.seq \in Nat /\ x.seq < e.seq
  BY <1>2 DEF Pending
<1>4. heap' \in SUBSET Pending(E) /\ nextSeq' \in Nat
  BY <1>1
<1>5. Numbered(heap')
  BY <1>1, <1>2, <1>3 DEF Numbered
<1>6. \A x \in heap' : x.seq < nextSeq'
  BY <1>1, <1>2, <1>3
<1>7. PICK k \in 0 .. Len(s) :
        /\ \A i \in DOMAIN s : i <= k <=> s[i].cycle <= e.cycle
        /\ Orders(Spliced(s, k, e), heap \cup {e})
  BY <1>1, <1>3, SplicedOrders
<1>8. Line = Entries(s) /\ Line' = Entries(Spliced(s, k, e))
  <2>1. Line' = Entries(Sorted(heap'))
    BY DEF Line, Entries, Sorted, Earlier
  <2> QED
    BY <1>1, <1>4, <1>7, <2>1, OrdersUnique, LineIs
<1>9. s \in Seq(heap) /\ s \in Seq(heap \cup {e}) /\ e \in heap \cup {e}
  BY <1>7, SeqMonotonic DEF Orders
<1>10. Line' = Spliced(Line, k, Entry(e))
  BY <1>8, <1>9, SplicedEntries
<1>11. /\ Len(Line) = Len(s) /\ DOMAIN Line = DOMAIN s
       /\ \A i \in DOMAIN s : Line[i].cycle = s[i].cycle
  <2>1. /\ Len(Entries(s)) = Len(s) /\ DOMAIN Entries(s) = 1 .. Len(s)
        /\ \A i \in 1 .. Len(s) : Entries(s)[i] = Entry(s[i])
    BY <1>9, EntriesElements
  <2>2. DOMAIN s = 1 .. Len(s) /\ \A i \in 1 .. Len(s) : Entry(s[i]).cycle = s[i].cycle
    BY <1>9, LenProperties DEF Entry
  <2> QED
    BY <1>8, <2>1, <2>2
<1>12. \A i \in DOMAIN Line : i <= k <=> Line[i].cycle <= delay
  BY <1>2, <1>7, <1>11
<1>13. k \in 0 .. Len(Line)
  BY <1>11
<1>14. Queue!Enter(event, delay)
  BY <1>2, <1>10, <1>12, <1>13 DEF Queue!Enter, Spliced
<1> QED
  BY <1>1, <1>4, <1>5, <1>6, <1>7, <1>14

(* Popping delivers the head of the line. *)
LEMMA PopDelivers ==
  ASSUME NEW E, heap \in SUBSET Pending(E), Numbered(heap), NEW s, Orders(s, heap), Pop
  PROVE  /\ heap' \in SUBSET Pending(E) /\ Numbered(heap')
         /\ nextSeq' \in Nat /\ \A x \in heap' : x.seq < nextSeq'
         /\ \E t : Orders(t, heap')
         /\ \E event \in E : current' = <<event>>
         /\ Queue!Deliver
<1>1. PICK x \in heap : /\ \A y \in heap : Precedes(x, y)
                        /\ heap' = Rebased(heap \ {x}, x.cycle)
                        /\ nextSeq' = Cardinality(heap) - 1
                        /\ current' = <<x.event>>
  BY DEF Pop
<1> DEFINE n == Len(s)
           M(y) == Moved(heap \ {x}, x.cycle, y)
           t == [i \in 1 .. n - 1 |-> M(s[i + 1])]
<1>2. /\ heap' \in SUBSET Pending(E) /\ Numbered(heap')
      /\ nextSeq' \in Nat /\ \A y \in heap' : y.seq < nextSeq'
      /\ s # <<>> /\ s[1] = x
      /\ Orders(t, heap')
  BY <1>1, RebasedOrders
<1>3. s \in Seq(heap) /\ t \in Seq(heap')
  BY <1>2 DEF Orders
<1>4. Line = Entries(s) /\ Line' = Entries(t)
  <2>1. Line' = Entries(Sorted(heap'))
    BY DEF Line, Entries, Sorted, Earlier
  <2> HIDE DEF t
  <2> QED
    BY <1>2, <2>1, OrdersUnique, LineIs
<1>5. /\ n \in Nat /\ n >= 1 /\ DOMAIN Line = 1 .. n /\ Len(Line) = n
      /\ \A i \in 1 .. n : Line[i] = Entry(s[i])
      /\ Line \in Seq({Entry(y) : y \in heap})
  <2>1. /\ Entries(s) \in Seq({Entry(y) : y \in heap}) /\ Len(Entries(s)) = n
        /\ DOMAIN Entries(s) = 1 .. n
        /\ \A i \in 1 .. n : Entries(s)[i] = Entry(s[i])
    BY <1>3, EntriesElements
  <2>2. n \in Nat /\ n # 0
    BY <1>2, <1>3, LenProperties, EmptySeq
  <2> QED
    BY <1>4, <2>1, <2>2
<1>6. /\ Line # <<>> /\ Head(Line) = Line[1] /\ DOMAIN Tail(Line) = 1 .. n - 1
      /\ \A i \in 1 .. n - 1 : Tail(Line)[i] = Line[i + 1]
  <2> DEFINE R == {Entry(y) : y \in heap}
  <2> HIDE DEF R
  <2>1. Line \in Seq(R) /\ Len(Line) = n /\ n >= 1 /\ n \in Nat
    BY <1>5 DEF R
  <2> HIDE DEF n
  <2>2. Line # <<>>
    BY <2>1
  <2>3. /\ Head(Line) = Line[1] /\ Tail(Line) \in Seq(R) /\ Len(Tail(Line)) = n - 1
        /\ \A i \in 1 .. n - 1 : Tail(Line)[i] = Line[i + 1]
    BY <2>1, <2>2, HeadTailProperties
  <2> QED
    BY <2>2, <2>3, LenProperties
<1>7. Head(Line) = Entry(x)
  BY <1>2, <1>5, <1>6
<1>8. /\ Len(t) = n - 1 /\ n - 1 \in Nat
      /\ \A i \in 1 .. n - 1 : t[i] = M(s[i + 1])
  BY <1>5
<1> HIDE DEF t, n
<1>9. /\ DOMAIN Line' = 1 .. n - 1
      /\ \A i \in 1 .. n - 1 : Line'[i] = Entry(t[i])
  BY <1>3, <1>4, <1>8, EntriesElements
<1>10. ASSUME NEW i \in 1 .. n - 1
       PROVE  Line'[i] = [Tail(Line)[i] EXCEPT !.cycle = @ - Head(Line).cycle]
  <2>1. i + 1 \in 1 .. n
    BY <1>5
  <2>2. Tail(Line)[i] = [cycle |-> s[i + 1].cycle, event |-> s[i + 1].event]
    BY <1>5, <1>6, <2>1 DEF Entry
  <2>3. Head(Line).cycle = x.cycle
    BY <1>7 DEF Entry
  <2>4. Line'[i] = [cycle |-> s[i + 1].cycle - x.cycle, event |-> s[i + 1].event]
    BY <1>8, <1>9 DEF Entry, Moved
  <2> DEFINE a == Tail(Line)[i]
             c == s[i + 1].cycle
             event == s[i + 1].event
             d == x.cycle
  <2>5. a = [cycle |-> c, event |-> event]
    BY <2>2
  <2> HIDE DEF a, c, event, d
  <2>6. [a EXCEPT !.cycle = a.cycle - d] = [cycle |-> c - d, event |-> event]
    BY <2>5
  <2> QED
    BY <2>3, <2>4, <2>6 DEF a, c, event, d
<1>11. Line' = [i \in DOMAIN Tail(Line) |-> [Tail(Line)[i] EXCEPT !.cycle = @ - Head(Line).cycle]]
  <2>1. Line' = [i \in 1 .. n - 1 |-> Line'[i]]
    BY <1>4, <1>9 DEF Entries
  <2> QED
    BY <1>6, <1>10, <2>1
<1>12. x.event \in E /\ Head(Line).event = x.event
  BY <1>7 DEF Entry, Pending
<1>13. Queue!Deliver
  BY <1>1, <1>6, <1>11, <1>12 DEF Queue!Deliver, Pop
<1> QED
  BY <1>1, <1>2, <1>12, <1>13

-----------------------------------------------------------------------------
(* The engine and its queue. *)

(* The pending events are known, numbered apart and below nextSeq, and can *)
(* be put in one line; nothing is pending or under way before the run.     *)
HeapInv ==
  /\ heap \in SUBSET Pending(AllEvents) /\ Numbered(heap)
  /\ nextSeq \in Nat /\ \A x \in heap : x.seq < nextSeq
  /\ \E s : Orders(s, heap)
  /\ current = <<>> \/ \E event \in AllEvents : current = <<event>>
  /\ ~(phase = "ready" /\ request.run) => heap = {} /\ current = <<>>

LEMMA NothingPending == Orders(<<>>, {}) /\ (heap = {} => Line = <<>>)
<1>1. Orders(<<>>, {})
  BY EmptySeq DEF Orders
<1>2. ASSUME heap = {} PROVE Line = <<>>
  <2>1. heap \in SUBSET Pending({}) /\ Orders(<<>>, heap)
    BY <1>1, <1>2
  <2>2. Line = Entries(<<>>)
    BY <2>1, LineIs
  <2>3. <<>> \in Seq({}) /\ Len(<<>>) = 0
    BY EmptySeq
  <2>4. Entries(<<>>) \in Seq({Entry(x) : x \in {}}) /\ Len(Entries(<<>>)) = 0
    BY <2>3, EntriesElements
  <2> QED
    BY <2>2, <2>4, EmptySeq
<1> QED
  BY <1>1, <1>2

LEMMA AttemptTypes ==
  \A attempt \in ScheduleProduction(hw) : attempt.type \in {"produced", "failed"}
BY DEF ScheduleProduction, Distillation, Cultivation, RzSynthesis, Attempt

LEMMA OutcomeKnown ==
  /\ \A id \in 0 .. MaxCount - 1, type \in {"produced", "failed"} :
       Outcome(id, type) \in AllEvents /\ Outcome(id, type).type = "factory"
  /\ \A gate \in DOMAIN Gates : GateEvent(gate) \in AllEvents
  /\ \A event \in AllEvents : event.type = "factory" => event.id \in 0 .. MaxCount - 1
<1>1. \A id, type : Outcome(id, type).type = "factory" /\ Outcome(id, type).id = id
  BY DEF Outcome
<1>2. \A gate : GateEvent(gate).type = "gate"
  BY DEF GateEvent
<1>3. ASSUME NEW event \in AllEvents, event.type = "factory"
      PROVE  event.id \in 0 .. MaxCount - 1
  <2>1. \/ \E gate \in DOMAIN Gates : event = GateEvent(gate)
        \/ \E id \in 0 .. MaxCount - 1, type \in {"produced", "failed"} : event = Outcome(id, type)
    BY DEF AllEvents
  <2> QED
    BY <1>1, <1>2, <1>3, <2>1
<1>4. \A id \in 0 .. MaxCount - 1, type \in {"produced", "failed"} : Outcome(id, type) \in AllEvents
  BY DEF AllEvents
<1>5. \A gate \in DOMAIN Gates : GateEvent(gate) \in AllEvents
  BY DEF AllEvents
<1> QED
  BY <1>1, <1>3, <1>4, <1>5

(* What is scheduled enters the line. *)
LEMMA Scheduled ==
  ASSUME HeapInv, phase = "ready", request.run, UNCHANGED <<phase, request>>,
         NEW delay \in 0 .. LongestDelay, NEW event \in AllEvents, Schedule(delay, event),
         current' = current \/ (current # <<>> /\ current' = <<>>)
  PROVE  HeapInv' /\ Queue!OrderNext
<1>1. delay \in Nat
  OBVIOUS
<1>2. PICK s : Orders(s, heap)
  BY DEF HeapInv
<1>3. /\ heap \in SUBSET Pending(AllEvents) /\ Numbered(heap)
      /\ nextSeq \in Nat /\ \A x \in heap : x.seq < nextSeq
  BY DEF HeapInv
<1>4. /\ heap' \in SUBSET Pending(AllEvents) /\ Numbered(heap')
      /\ nextSeq' \in Nat /\ \A x \in heap' : x.seq < nextSeq'
      /\ \E t : Orders(t, heap')
      /\ Queue!Enter(event, delay)
  BY <1>1, <1>2, <1>3, ScheduleEnters
<1>5. current' = <<>> \/ \E e \in AllEvents : current' = <<e>>
  BY DEF HeapInv
<1>6. HeapInv'
  BY <1>4, <1>5 DEF HeapInv
<1>7. Queue!Dealt \/ UNCHANGED current
  BY DEF Queue!Dealt
<1>8. Queue!OrderNext
  BY <1>4, <1>7 DEF Queue!OrderNext
<1> QED
  BY <1>6, <1>8

LEMMA HeapUnchanged ==
  ASSUME UNCHANGED heap
  PROVE  UNCHANGED Line
BY DEF Line, Entries, Sorted, Earlier

LEMMA QueueStep ==
  ASSUME HeapInv, FitsEngine, WithinDelay, [Next]_vars
  PROVE  HeapInv' /\ [Queue!OrderNext]_(Queue!orderVars)
<1>1. CASE UNCHANGED <<heapVars, request>> /\ (phase' = phase \/ phase # "ready")
  <2>1. UNCHANGED Line
    BY <1>1, HeapUnchanged DEF heapVars
  <2>2. HeapInv'
    BY <1>1 DEF HeapInv, heapVars
  <2> QED
    BY <1>1, <2>1, <2>2 DEF Queue!orderVars, heapVars
<1>2. CASE StartFirst
  <2>1. PICK attempt \in ScheduleProduction(hw) : StartFactory(started, attempt)
    BY <1>2 DEF StartFirst
  <2>2. /\ phase = "ready" /\ request.run /\ UNCHANGED <<phase, request, current>>
        /\ started \in 0 .. MaxCount - 1
    BY <1>2 DEF StartFirst, FitsEngine, mutateVars
  <2>3. attempt.delay \in 0 .. LongestDelay /\ Outcome(started, attempt.type) \in AllEvents
    BY <2>2, AttemptTypes, OutcomeKnown DEF WithinDelay
  <2> QED
    BY <2>1, <2>2, <2>3, Scheduled DEF StartFactory
<1>3. ASSUME FactoryProduced \/ FactoryFailed
      PROVE  HeapInv' /\ Queue!OrderNext
  <2>1. PICK attempt \in ScheduleProduction(hw) : StartFactory(current[1].id, attempt)
    BY <1>3 DEF FactoryProduced, FactoryFailed
  <2>2. current # <<>> /\ current[1].type = "factory" /\ current' = <<>>
        /\ UNCHANGED <<phase, request>>
    BY <1>3 DEF FactoryProduced, FactoryFailed, Handling, mutateVars
  <2>3. phase = "ready" /\ request.run /\ current[1] \in AllEvents
    BY <2>2 DEF HeapInv
  <2>4. current[1].id \in 0 .. MaxCount - 1
    BY <2>2, <2>3, OutcomeKnown
  <2>5. /\ attempt.delay \in 0 .. LongestDelay
        /\ Outcome(current[1].id, attempt.type) \in AllEvents
    BY <2>3, <2>4, AttemptTypes, OutcomeKnown DEF WithinDelay
  <2> QED
    BY <2>1, <2>2, <2>3, <2>5, Scheduled DEF StartFactory
<1>4. CASE Step
  <2>1. PICK s : Orders(s, heap)
    BY DEF HeapInv
  <2>2. heap \in SUBSET Pending(AllEvents) /\ Numbered(heap) /\ Pop
        /\ phase = "ready" /\ request.run /\ UNCHANGED <<phase, request>>
    BY <1>4 DEF Step, Running, mutateVars, HeapInv
  <2>3. /\ heap' \in SUBSET Pending(AllEvents) /\ Numbered(heap')
        /\ nextSeq' \in Nat /\ \A x \in heap' : x.seq < nextSeq'
        /\ \E t : Orders(t, heap')
        /\ \E event \in AllEvents : current' = <<event>>
        /\ Queue!Deliver
    BY <2>1, <2>2, PopDelivers
  <2>4. HeapInv'
    BY <2>2, <2>3 DEF HeapInv
  <2> QED
    BY <2>3, <2>4 DEF Queue!OrderNext
<1>5. CASE GateCompleted
  <2>1. current # <<>> /\ current' = <<>> /\ UNCHANGED <<heap, nextSeq, phase, request>>
    BY <1>5 DEF GateCompleted, Handling, mutateVars
  <2>2. UNCHANGED Line
    BY <2>1, HeapUnchanged
  <2>3. HeapInv'
    BY <2>1 DEF HeapInv
  <2> QED
    BY <2>1, <2>2, <2>3 DEF Queue!OrderNext, Queue!Dealt
<1>6. ASSUME NEW gate \in DOMAIN Gates, ScheduleGate(gate)
      PROVE  HeapInv' /\ Queue!OrderNext
  <2>1. Schedule(GateCost(gate), GateEvent(gate)) /\ current' = current
        /\ phase = "ready" /\ request.run /\ UNCHANGED <<phase, request>>
    BY <1>6 DEF ScheduleGate, Running, mutateVars
  <2>2. GateCost(gate) \in 0 .. LongestDelay /\ GateEvent(gate) \in AllEvents
    BY <2>1, OutcomeKnown DEF WithinDelay
  <2> QED
    BY <2>1, <2>2, Scheduled
<1>7. CASE Prepare
  <2>1. phase # "ready" /\ UNCHANGED <<heapVars, request>>
    BY <1>7 DEF Prepare, MutateStep, Load, UseBase, RefuseSpace, MapPoint, ApplySingle,
                ConcludeMutation
  <2> QED
    BY <1>1, <2>1
<1>8. CASE UNCHANGED vars
  BY <1>1, <1>8 DEF vars, mutateVars
<1> QED
  BY <1>2, <1>3, <1>4, <1>5, <1>6, <1>7, <1>8 DEF Next

(* The heap is the stable queue the engine relies on, for every model, any *)
(* number of factories and gates and every interleaving of schedule and    *)
(* pop, as long as LongestDelay is what it says (EventQueue, TimedEvent).  *)
THEOREM HeapIsStable == Spec /\ []WithinDelay => QueueInOrder
<1>1. Init => HeapInv /\ Queue!OrderInit
  BY NothingPending DEF Init, HeapInit, HeapInv, Numbered, Queue!OrderInit
<1>2. HeapInv /\ FitsEngine /\ WithinDelay /\ [Next]_vars
        => HeapInv' /\ [Queue!OrderNext]_(Queue!orderVars)
  BY QueueStep
<1>3. Spec => []FitsEngine
  BY StartsOnSoundHardware
<1> QED
  BY <1>1, <1>2, <1>3, PTL DEF Spec, QueueInOrder, Queue!OrderSpec
=============================================================================
