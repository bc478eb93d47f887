---------------------------- MODULE SegmentTiling ----------------------------
(***************************************************************************)
(* The loop of compute_segments in native/src/download/segmented_engine.rs *)
(* that cuts a file into byte ranges, one range per step, and the theorem  *)
(* that for every size and every segment count the ranges are adjacent,    *)
(* non-empty, balanced and end with the last byte of the file.             *)
(***************************************************************************)
EXTENDS Integers, Sequences, SegmentRanges, TLAPS

CONSTANTS
    Sizes,     \* values of total_bytes
    Requested  \* values of num_segments

ASSUME TilingAssumption == Sizes \subseteq Nat /\ Requested \subseteq Nat

VARIABLES
    total,     \* total_bytes
    n,         \* number of ranges to cut; 0 for the early return
    segments,  \* the ranges pushed so far, [start, end] inclusive
    offset     \* first byte of the next range

vars == <<total, n, segments, offset>>

Init ==
    /\ total \in Sizes
    /\ \E r \in Requested : n = RangeCount(total, r)
    /\ segments = <<>>
    /\ offset = 0

\* One range too many takes an extra byte.
ExtraOffByOne(i) == IF i <= total % n THEN 1 ELSE 0

\* The last range takes the whole remainder.
ExtraToLast(i) == IF i = n - 1 THEN total % n ELSE 0

\* The first total % n ranges take one byte more.
Extra(i) == IF i < total % n THEN 1 ELSE 0

\* The loop runs once more.
PushPastEnd ==
    /\ Len(segments) <= n
    /\ LET size == 1
       IN /\ segments' = Append(segments, [start |-> offset, end |-> offset + size - 1])
          /\ offset' = offset + size
    /\ UNCHANGED <<total, n>>

Push ==
    /\ Len(segments) < n
    /\ LET size == total \div n + Extra(Len(segments))
       IN /\ segments' = Append(segments, [start |-> offset, end |-> offset + size - 1])
          /\ offset' = offset + size
    /\ UNCHANGED <<total, n>>

Next == Push

Spec == Init /\ [][Next]_vars

-----------------------------------------------------------------------------

ByteRange == [start : Nat, end : Nat]

TypeOK ==
    /\ total \in Nat /\ n \in Nat /\ n <= total
    /\ segments \in Seq(ByteRange) /\ Len(segments) <= n
    /\ offset \in Nat

\* The ranges are adjacent, start at the first byte of the file, and when all
\* are cut the last one ends with the last byte: no byte is fetched twice or
\* left out.
Tiles ==
    /\ \A k \in 1 .. Len(segments) :
          segments[k].start = (IF k = 1 THEN 0 ELSE segments[k - 1].end + 1)
    /\ (n > 0 /\ Len(segments) = n) => segments[n].end = total - 1

\* Each range has the bounds SegmentedEngine uses, at least one byte, and at
\* most one byte more than the smallest.
ClosedForm ==
    \A k \in 1 .. Len(segments) :
        /\ segments[k].start = RangeStart(total, n, k - 1)
        /\ segments[k].end = RangeStart(total, n, k) - 1
        /\ segments[k].end - segments[k].start + 1 \in {total \div n, total \div n + 1}
        /\ segments[k].start <= segments[k].end

-----------------------------------------------------------------------------
(* Proof. *)

OffsetInv == n > 0 => offset = RangeStart(total, n, Len(segments))

IInv == TypeOK /\ OffsetInv /\ ClosedForm

LEMMA DivMod ==
    ASSUME NEW t \in Nat, NEW m \in Nat, m > 0
    PROVE  t = m * (t \div m) + (t % m)
OBVIOUS

\* Division of the size by the number of ranges.
LEMMA Division ==
    ASSUME NEW t \in Nat, NEW m \in Nat, m > 0, m <= t
    PROVE  /\ t \div m \in Nat /\ t \div m >= 1
           /\ t % m \in 0 .. m - 1
           /\ t = m * (t \div m) + (t % m)
<1>1. t \div m \in Int /\ t % m \in 0 .. m - 1
  OBVIOUS
<1>3. t = m * (t \div m) + (t % m)
  BY DivMod
<1>2. t \div m >= 1
  <2> DEFINE q == t \div m
  <2>1. SUFFICES ASSUME q <= 0 PROVE FALSE
    BY <1>1
  <2>2. m * q <= 0
    BY <2>1, <1>1
  <2> QED
    BY <2>2, <1>1, <1>3
<1> QED
  BY <1>1, <1>2, <1>3

\* The step from the start of a range to the start of the next.
LEMMA NextStart ==
    ASSUME NEW t \in Nat, NEW m \in Nat, m > 0, m <= t, NEW i \in Nat, i < m
    PROVE  /\ RangeStart(t, m, i) \in Nat
           /\ RangeStart(t, m, i + 1) =
                RangeStart(t, m, i) + t \div m + (IF i < t % m THEN 1 ELSE 0)
<1> DEFINE q == t \div m
           r == t % m
<1>1. q \in Nat /\ q >= 1 /\ r \in 0 .. m - 1
  BY Division
<1>2. i * q \in Nat /\ (i + 1) * q = i * q + q
  BY <1>1
<1>3. RangeStart(t, m, i) = i * q + (IF i < r THEN i ELSE r)
  BY DEF RangeStart
<1>4. RangeStart(t, m, i + 1) = (i + 1) * q + (IF i + 1 < r THEN i + 1 ELSE r)
  BY DEF RangeStart
<1> HIDE DEF q, r
<1>5. RangeStart(t, m, i + 1) = RangeStart(t, m, i) + q + (IF i < r THEN 1 ELSE 0)
  BY <1>1, <1>2, <1>3, <1>4
<1> QED
  BY <1>1, <1>2, <1>3, <1>5 DEF q, r

\* The start after the last range is the size of the file.
LEMMA LastStart ==
    ASSUME NEW t \in Nat, NEW m \in Nat, m > 0, m <= t
    PROVE  RangeStart(t, m, m) = t
BY Division DEF RangeStart

LEMMA InitIInv == Init => IInv
<1> SUFFICES ASSUME Init PROVE IInv
  OBVIOUS
<1>1. TypeOK
  BY TilingAssumption DEF Init, TypeOK, RangeCount, ByteRange
<1>2. OffsetInv
  <2> SUFFICES ASSUME n > 0 PROVE offset = RangeStart(total, n, 0)
    BY DEF OffsetInv, Init
  <2>1. total % n \in 0 .. n - 1 /\ total \div n \in Nat
    BY <1>1, Division DEF TypeOK
  <2> QED
    BY <2>1 DEF Init, RangeStart
<1> QED
  BY <1>1, <1>2 DEF Init, IInv, ClosedForm

LEMMA PushKeepsIInv == IInv /\ Push => IInv'
<1> SUFFICES ASSUME IInv, Push PROVE IInv'
  OBVIOUS
<1> DEFINE i == Len(segments)
           q == total \div n
           size == q + Extra(i)
           seg == [start |-> offset, end |-> offset + size - 1]
<1>1. /\ total \in Nat /\ n \in Nat /\ n > 0 /\ n <= total
      /\ i \in Nat /\ i < n /\ offset \in Nat
      /\ total' = total /\ n' = n
      /\ segments' = Append(segments, seg) /\ offset' = offset + size
  BY DEF IInv, TypeOK, Push
<1>2. q \in Nat /\ q >= 1
  BY <1>1, Division
<1>3. size \in {q, q + 1} /\ size \in Nat /\ size >= 1
  BY <1>2 DEF Extra
<1>4. offset = RangeStart(total, n, i)
  BY <1>1 DEF IInv, OffsetInv
<1>5. RangeStart(total, n, i + 1) = offset + size
  <2>1. RangeStart(total, n, i + 1) = RangeStart(total, n, i) + q + (IF i < total % n THEN 1 ELSE 0)
    BY <1>1, NextStart
  <2>2. Extra(i) = IF i < total % n THEN 1 ELSE 0
    BY DEF Extra
  <2> HIDE DEF q, i
  <2> QED
    BY <2>1, <2>2, <1>2, <1>3, <1>4, <1>1
<1>6. seg \in ByteRange
  BY <1>1, <1>3 DEF ByteRange
<1>7. TypeOK'
  BY <1>1, <1>3, <1>6 DEF IInv, TypeOK
<1>8. Len(segments') = i + 1
  BY <1>1 DEF IInv, TypeOK
<1>9. OffsetInv'
  BY <1>1, <1>5, <1>8 DEF OffsetInv
<1>10. ClosedForm'
  <2> SUFFICES ASSUME NEW k \in 1 .. i + 1
               PROVE  /\ segments'[k].start = RangeStart(total, n, k - 1)
                      /\ segments'[k].end = RangeStart(total, n, k) - 1
                      /\ segments'[k].end - segments'[k].start + 1 \in {q, q + 1}
                      /\ segments'[k].start <= segments'[k].end
    BY <1>1, <1>8 DEF ClosedForm
  <2>1. CASE k = i + 1
    <3>1. segments'[k] = seg
      BY <1>1, <2>1 DEF IInv, TypeOK
    <3>2. k - 1 = i
      BY <1>1, <2>1
    <3>3. seg.start = offset /\ seg.end = offset + size - 1
      OBVIOUS
    <3> HIDE DEF seg, q, size
    <3> QED
      BY <3>1, <3>2, <3>3, <2>1, <1>1, <1>2, <1>3, <1>4, <1>5
  <2>2. CASE k \in 1 .. i
    <3>1. segments'[k] = segments[k]
      BY <1>1, <2>2 DEF IInv, TypeOK
    <3> QED
      BY <3>1, <2>2 DEF IInv, ClosedForm
  <2> QED
    BY <2>1, <2>2, <1>1
<1> QED
  BY <1>7, <1>9, <1>10 DEF IInv

LEMMA IInvTiles == IInv => Tiles
<1> SUFFICES ASSUME IInv PROVE Tiles
  OBVIOUS
<1>1. ASSUME NEW k \in 1 .. Len(segments)
      PROVE  segments[k].start = (IF k = 1 THEN 0 ELSE segments[k - 1].end + 1)
  <2>1. n > 0 /\ n \in Nat /\ n <= total /\ total \in Nat /\ Len(segments) \in Nat
    BY DEF IInv, TypeOK
  <2>2. segments[k] \in ByteRange
    BY DEF IInv, TypeOK
  <2>3. CASE k = 1
    <3>1. RangeStart(total, n, 0) = 0
      BY <2>1, Division DEF RangeStart
    <3> QED
      BY <3>1, <2>3 DEF IInv, ClosedForm
  <2>4. CASE k # 1
    <3>1. k - 1 \in 1 .. Len(segments)
      BY <2>1, <2>4
    <3>2. segments[k - 1] \in ByteRange
      BY <3>1 DEF IInv, TypeOK
    <3>3. segments[k - 1].end = RangeStart(total, n, k - 1) - 1
      BY <3>1 DEF IInv, ClosedForm
    <3>4. segments[k].start = RangeStart(total, n, k - 1)
      BY DEF IInv, ClosedForm
    <3>5. segments[k].start \in Nat
      BY <2>2 DEF ByteRange
    <3> QED
      BY <3>3, <3>4, <3>5, <2>4
  <2> QED
    BY <2>3, <2>4
<1>2. ASSUME n > 0, Len(segments) = n
      PROVE  segments[n].end = total - 1
  <2>1. n \in 1 .. Len(segments) /\ n <= total /\ total \in Nat /\ n \in Nat
    BY <1>2 DEF IInv, TypeOK
  <2>2. segments[n].end = RangeStart(total, n, n) - 1
    BY <2>1 DEF IInv, ClosedForm
  <2> QED
    BY <2>1, <2>2, <1>2, LastStart
<1> QED
  BY <1>1, <1>2 DEF Tiles

LEMMA Always == Spec => []IInv
<1>1. IInv /\ [Next]_vars => IInv'
  <2> SUFFICES ASSUME IInv, [Next]_vars PROVE IInv'
    OBVIOUS
  <2>1. CASE Push
    BY <2>1, PushKeepsIInv
  <2>2. CASE UNCHANGED vars
    BY <2>2 DEF vars, IInv, TypeOK, OffsetInv, ClosedForm
  <2> QED
    BY <2>1, <2>2 DEF Next
<1> QED
  BY <1>1, InitIInv, PTL DEF Spec

\* compute_segments cuts every file into adjacent ranges that end with its
\* last byte, whatever its size and the segment count.
THEOREM RangesTileFile == Spec => []Tiles
BY Always, IInvTiles, PTL

\* The ranges are non-empty, balanced, and those of the closed form.
THEOREM RangesClosedForm == Spec => []ClosedForm
<1>1. IInv => ClosedForm
  BY DEF IInv
<1> QED
  BY <1>1, Always, PTL
=============================================================================
