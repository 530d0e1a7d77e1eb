--------------------------- MODULE SobolSequence ---------------------------
(***************************************************************************)
(* sobol_sequence: a point is the exclusive or of direction numbers, one   *)
(* more at each step.  Only the Bits leading bits of the 32 are kept; the  *)
(* bits below them never reach the ones above.                             *)
(***************************************************************************)
EXTENDS Sample, Bitwise

CONSTANT Bits

VARIABLES
  direction,   \* of each dimension
  state,       \* the last point
  points       \* the points generated so far
sequenceVars == <<direction, state, points>>

(* JK_DIRECTION_NUMBERS: [s, a, m] of the dimensions 2 to 30. *)
JoeKuo ==
  <<[s |-> 1, a |-> 0, m |-> <<1>>], [s |-> 2, a |-> 1, m |-> <<1, 1>>],
    [s |-> 3, a |-> 1, m |-> <<1, 1, 1>>], [s |-> 3, a |-> 2, m |-> <<1, 3, 1>>],
    [s |-> 4, a |-> 1, m |-> <<1, 1, 3, 3>>], [s |-> 4, a |-> 4, m |-> <<1, 3, 5, 13>>],
    [s |-> 5, a |-> 2, m |-> <<1, 1, 5, 5, 17>>], [s |-> 5, a |-> 4, m |-> <<1, 1, 5, 5, 5>>],
    [s |-> 5, a |-> 7, m |-> <<1, 1, 7, 11, 19>>], [s |-> 5, a |-> 11, m |-> <<1, 1, 5, 1, 1>>],
    [s |-> 5, a |-> 13, m |-> <<1, 1, 1, 3, 11>>], [s |-> 5, a |-> 14, m |-> <<1, 3, 5, 5, 31>>],
    [s |-> 6, a |-> 1, m |-> <<1, 3, 3, 9, 7, 49>>], [s |-> 6, a |-> 13, m |-> <<1, 1, 1, 15, 21, 21>>],
    [s |-> 6, a |-> 16, m |-> <<1, 3, 1, 13, 27, 49>>], [s |-> 6, a |-> 19, m |-> <<1, 1, 1, 15, 7, 5>>],
    [s |-> 6, a |-> 22, m |-> <<1, 3, 1, 3, 29, 1>>], [s |-> 6, a |-> 25, m |-> <<1, 1, 5, 7, 11, 15>>],
    [s |-> 7, a |-> 1, m |-> <<1, 1, 1, 1, 1, 1, 1>>], [s |-> 7, a |-> 4, m |-> <<1, 3, 7, 5, 9, 37, 75>>],
    [s |-> 7, a |-> 7, m |-> <<1, 3, 5, 13, 23, 53, 83>>], [s |-> 7, a |-> 8, m |-> <<1, 1, 1, 3, 7, 29, 67>>],
    [s |-> 7, a |-> 14, m |-> <<1, 1, 3, 7, 7, 49, 91>>], [s |-> 7, a |-> 19, m |-> <<1, 3, 5, 1, 1, 13, 13>>],
    [s |-> 7, a |-> 21, m |-> <<1, 3, 3, 3, 25, 41, 45>>], [s |-> 7, a |-> 28, m |-> <<1, 3, 7, 7, 27, 43, 119>>],
    [s |-> 7, a |-> 31, m |-> <<1, 1, 7, 1, 25, 15, 71>>], [s |-> 7, a |-> 32, m |-> <<1, 3, 5, 5, 21, 37, 25>>],
    [s |-> 7, a |-> 37, m |-> <<1, 1, 3, 1, 23, 61, 109>>]>>

ShiftUp(x, n) == x * 2 ^ n
ShiftDown(x, n) == x \div 2 ^ n
Bit(x, n) == ShiftDown(x, n) % 2

(* The direction numbers of one row of the table.  v[i] depends on the s   *)
(* entries before it.                                                      *)
Directions(row) ==
  LET v[i \in 0 .. Bits - 1] ==
        IF i < row.s THEN ShiftUp(row.m[i + 1], Bits - 1 - i)
        ELSE LET term[k \in 0 .. row.s - 1] ==
                   IF k = 0 THEN v[i - row.s] ^^ ShiftDown(v[i - row.s], row.s)
                   ELSE IF Bit(row.a, row.s - 1 - k) = 1 THEN term[k - 1] ^^ v[i - k]
                   ELSE term[k - 1]
             IN  term[row.s - 1]
  IN  v

VanDerCorput == [i \in 0 .. Bits - 1 |-> ShiftUp(1, Bits - 1 - i)]
Direction(d) == IF d = 1 THEN VanDerCorput ELSE Directions(JoeKuo[d - 1])

RightmostBit(n, b) ==
  CHOOSE i \in 0 .. Bits : Bit(n, i) = b /\ \A j \in 0 .. i - 1 : Bit(n, j) # b
RightmostOneBit(n) == IF n = 0 THEN 0 ELSE RightmostBit(n, 1)   \* fault
RightmostZeroBit(n) == RightmostBit(n, 0)

SequenceIdle == direction = <<>> /\ state = <<>> /\ points = <<>>

BeginSequence ==
  /\ job.kind = "sequence" /\ phase = "start"
  /\ IF ~(\E k \in 0 .. job.n : job.n = 2 ^ k)
       THEN phase' = "NotPowerOfTwo" /\ UNCHANGED sequenceVars
     ELSE IF job.dim = 0 \/ job.dim > Len(JoeKuo) + 1
       THEN phase' = "DimensionMismatch" /\ UNCHANGED sequenceVars
     ELSE /\ phase' = "walking"
          /\ direction' = [d \in 1 .. job.dim |-> Direction(d)]
          /\ state' = [d \in 1 .. job.dim |-> 0]
          /\ points' = <<state'>>
  /\ UNCHANGED <<job, tasks, answer, report>>

NextPoint ==
  /\ phase = "walking" /\ Len(points) < job.n
  /\ state' = [d \in DOMAIN state |->
                 state[d] ^^ direction[d][RightmostZeroBit(Len(points) - 1)]]
  /\ points' = Append(points, state')
  /\ UNCHANGED <<jobVars, direction>>

EndSequence ==
  /\ phase = "walking" /\ Len(points) = job.n
  /\ phase' = "done"
  /\ UNCHANGED <<job, tasks, answer, report, sequenceVars>>

SequenceStep == BeginSequence \/ NextPoint \/ EndSequence
=============================================================================
