--------------------------- MODULE TransfersProofs ---------------------------
(***************************************************************************)
(* What the three engines leave on disk, for any file size, segment        *)
(* counts, playlist and number of retries, calls, pauses and crashes.      *)
(*                                                                         *)
(* Segmented: no task of a call writes once the call is past its joins,    *)
(* and no byte on disk is thrown away before it is in the output.  The     *)
(* second rests on what a task believes about its part: bytes_written is   *)
(* the length of the part, so a part is only created when it is empty.     *)
(* A call that reports success without having resumed a segment in its     *)
(* middle leaves the whole file: a part that a task began at its start is  *)
(* a beginning of its range, and a part as long as its range is its range, *)
(* since a task that resumes skips bytes and ends short.                   *)
(*                                                                         *)
(* Single stream: the file of an open stream is the beginning of the       *)
(* resource that the count says.  HLS: the file is the beginning of the    *)
(* playlist.                                                               *)
(***************************************************************************)
EXTENDS MCTransfers, SequenceTheorems, TLAPS

\* A running task belongs to a segment of the call that is not joined yet.
Unjoined ==
    \A i \in Parts : taskPc[i] \in Live => phase = "Joining" /\ cursor <= i /\ i < segs

\* What a running task believes of its part.
Believes ==
    \A i \in Parts : taskPc[i] \in Live =>
        /\ rangeStart[i] \in Nat
        /\ written[i] = PartLen(i)
        /\ taskPc[i] = "Stream" => part[i] # Missing

Types ==
    /\ part \in [Parts -> Seq(Int)]
    /\ taskPc \in [Parts -> TaskPc]
    /\ written \in [Parts -> Nat]
    /\ rangeStart \in [Parts -> Int]
    /\ segs \in Int /\ cursor \in Int

IInv == Types /\ Unjoined /\ Believes

-----------------------------------------------------------------------------
(* Sizes and offsets.                                                      *)

\* Requested counts and ranges are numbers.
LEMMA CountPositive ==
    ASSUME NEW n \in Counts
    PROVE  SegCount(n) \in Nat /\ SegCount(n) > 0 /\ SegCount(n) <= FileSize
  BY SegmentedAssumption DEF SegCount, RangeCount

LEMMA MinOfTwo ==
    ASSUME NEW a \in Int, NEW b \in Int
    PROVE  Min({a, b}) \in {a, b}
  <1>1. \E x \in {a, b} : \A y \in {a, b} : x =< y
    <2>1. CASE a =< b
      BY <2>1
    <2>2. CASE b =< a
      BY <2>2
    <2> QED
      BY <2>1, <2>2
  <1> QED
    BY <1>1 DEF Min

\* Ranges start at a natural number.
LEMMA StartNatural ==
    ASSUME NEW n \in Counts, NEW i \in Nat
    PROVE  SegStart(n, i) \in Nat
  <1> DEFINE c == SegCount(n)
             q == FileSize \div c
             r == FileSize % c
  <1>1. c \in Nat /\ c > 0 /\ FileSize \in Nat
    BY CountPositive, SegmentedAssumption
  <1>2. q \in Nat /\ r \in Nat
    <2>1. FileSize = c * q + r /\ q \in Int /\ r \in 0 .. c - 1
      BY <1>1
    <2> HIDE DEF c, q, r
    <2>2. q >= 0
      <3> SUFFICES ASSUME q + 1 <= 0 PROVE FALSE
        BY <2>1
      <3>1. c * (q + 1) <= 0
        BY <1>1, <2>1
      <3>2. c * (q + 1) = c * q + c
        BY <1>1, <2>1
      <3> QED
        BY <1>1, <2>1, <3>1, <3>2
    <2> QED
      BY <2>1, <2>2, <1>1
  <1>3. i * q \in Nat
    BY <1>2
  <1>4. SegStart(n, i) = i * q + (IF i < r THEN i ELSE r)
    BY DEF SegStart, RangeStart
  <1> HIDE DEF q, r
  <1> QED
    BY <1>2, <1>3, <1>4

\* And so does what is left of a range.
LEMMA ResumeNatural ==
    ASSUME IInv, NEW n \in Counts, NEW i \in Parts
    PROVE  /\ PartLen(i) \in Nat
           /\ SegStart(n, i) + Offset(n, i) \in Nat
  <1>1. i \in Nat /\ i + 1 \in Nat
    BY DEF Parts
  <1>2. PartLen(i) \in Nat
    BY DEF IInv, Types, PartLen
  <1>3. SegStart(n, i) \in Nat /\ SegStart(n, i + 1) \in Nat
    BY <1>1, StartNatural
  <1>4. SegSize(n, i) = SegStart(n, i + 1) - SegStart(n, i)
    BY DEF SegSize
  <1>5. Offset(n, i) \in {PartLen(i), SegSize(n, i)}
    BY <1>2, <1>3, <1>4, MinOfTwo DEF Offset
  <1>6. CASE Offset(n, i) = PartLen(i)
    BY <1>2, <1>3, <1>6
  <1>7. CASE Offset(n, i) = SegStart(n, i + 1) - SegStart(n, i)
    BY <1>2, <1>3, <1>7
  <1> QED
    BY <1>2, <1>4, <1>5, <1>6, <1>7

-----------------------------------------------------------------------------
(* The steps of a call.                                                    *)

LEMMA InitIInv == Init => IInv
  BY DEF Init, IInv, Types, Unjoined, Believes, TaskPc, Live, Missing

\* A call starts its tasks after the segments of its predecessor have ended.
LEMMA BeginKeepsIInv == ASSUME IInv, NEW n \in Counts, Begin(n) PROVE IInv'
  <1> DEFINE todo == {i \in 0 .. SegCount(n) - 1 : Offset(n, i) < SegSize(n, i)}
  <1>1. /\ part' = part /\ phase' = "Joining" /\ segs' = SegCount(n) /\ cursor' = 0
        /\ taskPc' = [i \in Parts |-> IF i \in todo THEN "Request" ELSE "None"]
        /\ rangeStart' = [i \in Parts |->
                            IF i \in todo THEN SegStart(n, i) + Offset(n, i) ELSE 0]
        /\ written' = [i \in Parts |-> IF i \in todo THEN PartLen(i) ELSE 0]
    BY DEF Begin, disk
  <1>2. \A i \in todo : i \in Int /\ 0 <= i /\ i < SegCount(n)
    BY CountPositive
  <1>3. \A i \in Parts : PartLen(i) \in Nat /\ SegStart(n, i) + Offset(n, i) \in Nat
    BY ResumeNatural
  <1>4. \A i \in Parts : PartLen(i)' = PartLen(i)
    BY <1>1 DEF PartLen
  <1> HIDE DEF todo
  <1>5. Types'
    BY <1>1, <1>3, CountPositive DEF IInv, Types, TaskPc, Live
  <1>6. Unjoined'
    BY <1>1, <1>2 DEF Unjoined, Live
  <1>7. Believes'
    BY <1>1, <1>3, <1>4 DEF Believes, Live
  <1> QED
    BY <1>5, <1>6, <1>7 DEF IInv

\* The loops of the call run over the tasks one by one.
LEMMA CallKeepsIInv == ASSUME IInv, Call PROVE IInv'
  <1> USE DEF IInv
  <1>0. \A i \in Parts : i \in Nat
    BY DEF Parts
  <1>1. CASE Join
    <2>1. /\ cursor' = cursor + 1 /\ taskPc[cursor] \notin Live
          /\ UNCHANGED <<part, taskPc, written, rangeStart, phase, segs>>
      BY <1>1 DEF Join, disk, tasks
    <2>2. Types' /\ Believes'
      BY <2>1 DEF Types, Believes, PartLen
    <2>3. Unjoined'
      BY <1>0, <2>1 DEF Types, Unjoined
    <2> QED
      BY <2>2, <2>3
  <1>2. CASE Joined
    <2>1. /\ \A i \in Parts : taskPc[i] \notin Live
          /\ UNCHANGED <<part, taskPc, written, rangeStart, segs>> /\ cursor' \in Int
      BY <1>0, <1>2 DEF Joined, tasks, Types, Unjoined
    <2> QED
      BY <2>1 DEF Types, Unjoined, Believes
  <1>3. CASE Copy
    <2>1. /\ \A i \in Parts : taskPc[i] \notin Live
          /\ UNCHANGED <<part, taskPc, written, rangeStart, segs>> /\ cursor' \in Int
      BY <1>3 DEF Copy, tasks, Types, Unjoined
    <2> QED
      BY <2>1 DEF Types, Unjoined, Believes
  <1>4. CASE RemovePart
    <2>1. /\ \A i \in Parts : taskPc[i] \notin Live
          /\ UNCHANGED <<taskPc, written, rangeStart, segs>> /\ cursor' \in Int
      BY <1>4 DEF RemovePart, tasks, Types, Unjoined
    <2>2. Missing \in Seq(Int)
      BY DEF Missing
    <2>3. part' = part \/ part' = [part EXCEPT ![cursor] = Missing]
      BY <1>4 DEF RemovePart
    <2>4. part' \in [Parts -> Seq(Int)]
      BY <2>2, <2>3 DEF Types
    <2> QED
      BY <2>1, <2>4 DEF Types, Unjoined, Believes
  <1> QED
    BY <1>1, <1>2, <1>3, <1>4 DEF Call

LEMMA CrashKeepsIInv == ASSUME IInv, Crash PROVE IInv'
  BY DEF IInv, Crash, disk, Types, Unjoined, Believes, TaskPc, Live

-----------------------------------------------------------------------------
(* The steps of a task.                                                    *)

\* A task that ends or goes on keeps its place.
LEMMA GotoKeepsIInv ==
    ASSUME IInv, NEW i \in Parts, taskPc[i] \in Live, NEW s \in TaskPc, s # "Stream",
           taskPc' = [taskPc EXCEPT ![i] = s],
           UNCHANGED <<part, rangeStart, written, segs, cursor, phase>>
    PROVE  IInv'
  BY DEF IInv, Types, Unjoined, Believes, PartLen

\* Only an empty part is created.
LEMMA RequestOpens ==
    ASSUME IInv, NEW i \in Parts, taskPc[i] = "Request",
           taskPc' = [taskPc EXCEPT ![i] = "Stream"],
           part' = IF written[i] > 0 THEN part ELSE [part EXCEPT ![i] = <<>>],
           UNCHANGED <<rangeStart, written, segs, cursor, phase>>
    PROVE  IInv' /\ \A j \in Parts : PartLen(j)' = PartLen(j)
  <1>1. taskPc[i] \in Live /\ written[i] = PartLen(i) /\ "Stream" \in TaskPc
    BY DEF IInv, Believes, Live, TaskPc
  <1>2. \A j \in Parts : PartLen(j) \in Nat
    BY DEF IInv, Types, PartLen
  <1>3. /\ part' \in [Parts -> Seq(Int)] /\ part'[i] # Missing
        /\ \A j \in Parts : PartLen(j)' = PartLen(j)
    <2>1. CASE written[i] > 0
      BY <1>1, <2>1 DEF IInv, Types, PartLen
    <2>2. CASE ~(written[i] > 0)
      <3>1. part' = [part EXCEPT ![i] = <<>>] /\ PartLen(i) = 0
        BY <1>1, <1>2, <2>2
      <3>2. <<>> \in Seq(Int) /\ <<>> # Missing /\ Len(<<>>) = 0
        BY DEF Missing
      <3> QED
        BY <3>1, <3>2 DEF IInv, Types, PartLen
    <2> QED
      BY <2>1, <2>2
  <1> QED
    BY <1>1, <1>3 DEF IInv, Types, Unjoined, Believes

\* A chunk makes the part and the count of its task longer by the same.
LEMMA ChunkAppends ==
    ASSUME IInv, NEW i \in Parts, WriteChunk(i)
    PROVE  IInv' /\ \A j \in Parts : PartLen(j)' >= PartLen(j)
  <1>1. /\ taskPc[i] \in Live /\ part[i] # Missing /\ Position(i) \in Nat
        /\ written[i] = PartLen(i) /\ part[i] \in Seq(Int)
    BY DEF WriteChunk, IInv, Types, Believes, Live, Position
  <1>2. /\ part' = [part EXCEPT ![i] = Append(part[i], Position(i))]
        /\ written' = [written EXCEPT ![i] = written[i] + 1]
        /\ UNCHANGED <<taskPc, rangeStart, phase, segs, cursor>>
    BY DEF WriteChunk, call
  <1>3. /\ Append(part[i], Position(i)) \in Seq(Int)
        /\ Len(Append(part[i], Position(i))) = Len(part[i]) + 1
        /\ Append(part[i], Position(i))[Len(part[i]) + 1] = Position(i)
    BY <1>1
  <1>4. Append(part[i], Position(i)) # Missing
    <2> SUFFICES ASSUME Append(part[i], Position(i)) = <<-1>> PROVE FALSE
      BY DEF Missing
    <2>1. Len(<<-1>>) = 1 /\ <<-1>>[1] = -1
      OBVIOUS
    <2>2. Len(part[i]) = 0
      BY <1>1, <1>3, <2>1
    <2> QED
      BY <1>1, <1>3, <2>1, <2>2
  <1>5. /\ PartLen(i)' = PartLen(i) + 1
        /\ \A j \in Parts \ {i} : PartLen(j)' = PartLen(j)
    BY <1>1, <1>2, <1>3, <1>4 DEF IInv, Types, PartLen
  <1>6. \A j \in Parts : PartLen(j) \in Nat
    BY DEF IInv, Types, PartLen
  <1>7. Types'
    BY <1>2, <1>3 DEF IInv, Types
  <1>8. Unjoined' /\ Believes'
    BY <1>1, <1>2, <1>4, <1>5 DEF IInv, Types, Unjoined, Believes
  <1> QED
    BY <1>5, <1>6, <1>7, <1>8 DEF IInv

\* A task keeps the invariant and every byte.
LEMMA SegmentStep ==
    ASSUME IInv, NEW i \in Parts, Segment(i)
    PROVE  IInv' /\ \A j \in Parts : PartLen(j)' >= PartLen(j)
  <1>0. \A j \in Parts : PartLen(j) \in Nat
    BY DEF IInv, Types, PartLen
  <1>1. ASSUME NEW s \in {"Ok", "Err", "Request"}, taskPc[i] \in Live, Finish(i, s)
        PROVE  IInv' /\ \A j \in Parts : PartLen(j)' = PartLen(j)
    BY <1>1, GotoKeepsIInv DEF Finish, disk, call, TaskPc, Live, PartLen
  <1>2. CASE RequestRange(i)
    <2>1. CASE Finish(i, "Ok") \/ Finish(i, "Err")
      BY <1>0, <1>1, <1>2, <2>1 DEF RequestRange, Live
    <2>2. CASE /\ taskPc' = [taskPc EXCEPT ![i] = "Stream"]
               /\ part' = IF written[i] > 0 THEN part ELSE [part EXCEPT ![i] = <<>>]
               /\ UNCHANGED <<output, rangeStart, written, retries, call, flags, counter,
                              attempts>>
      <3>1. taskPc[i] = "Request" /\ UNCHANGED <<segs, cursor, phase>>
        BY <1>2, <2>2 DEF RequestRange, call
      <3>2. IInv' /\ \A j \in Parts : PartLen(j)' = PartLen(j)
        BY <2>2, <3>1, RequestOpens
      <3> QED
        BY <1>0, <3>2
    <2> QED
      BY <1>2, <2>1, <2>2 DEF RequestRange
  <1>3. CASE SeeCancel(i)
    BY <1>0, <1>1, <1>3 DEF SeeCancel, Live
  <1>4. CASE WriteChunk(i)
    BY <1>4, ChunkAppends
  <1>5. CASE StreamEnds(i)
    BY <1>0, <1>1, <1>5 DEF StreamEnds, Live
  <1>6. CASE StreamBreaks(i)
    <2>1. PICK s \in {"Err", "Backoff"} : taskPc' = [taskPc EXCEPT ![i] = s]
      BY <1>6 DEF StreamBreaks
    <2> QED
      <3>1. /\ taskPc[i] \in Live /\ s \in TaskPc /\ s # "Stream"
            /\ UNCHANGED <<part, rangeStart, written, segs, cursor, phase>>
        BY <1>6 DEF StreamBreaks, disk, call, TaskPc, Live
      <3>2. IInv'
        BY <2>1, <3>1, GotoKeepsIInv
      <3>3. \A j \in Parts : PartLen(j)' = PartLen(j)
        BY <3>1 DEF PartLen
      <3> QED
        BY <1>0, <3>2, <3>3
  <1>7. CASE BackoffEnds(i)
    BY <1>0, <1>1, <1>7 DEF BackoffEnds, Live
  <1> QED
    BY <1>2, <1>3, <1>4, <1>5, <1>6, <1>7 DEF Segment

-----------------------------------------------------------------------------

LEMMA FlagsKeepIInv == ASSUME IInv, Pause \/ Resume \/ Cancel \/ UNCHANGED vars PROVE IInv'
  BY DEF IInv, Pause, Resume, Cancel, vars, disk, tasks, call, Types, Unjoined, Believes, PartLen

LEMMA NextKeepsIInv == IInv /\ [Next]_vars => IInv'
  BY BeginKeepsIInv, CallKeepsIInv, CrashKeepsIInv, SegmentStep, FlagsKeepIInv DEF Next

LEMMA Always == Spec => []IInv
  BY InitIInv, NextKeepsIInv, PTL DEF Spec

\* No task writes once the call is past its joins.
THEOREM JoinsLeaveNoWriter == Spec => []NoWriterAfterJoin
  <1>1. IInv => NoWriterAfterJoin
    BY DEF IInv, Unjoined, NoWriterAfterJoin
  <1> QED
    BY <1>1, Always, PTL

\* Of the steps of a call only the removal makes a part shorter.
LEMMA StepKeepsBytes ==
    ASSUME IInv, [Next]_vars, phase # "Removing"
    PROVE  \A i \in Parts : PartLen(i)' >= PartLen(i)
  <1>1. \A i \in Parts : PartLen(i) \in Nat
    BY DEF IInv, Types, PartLen
  <1>2. ASSUME UNCHANGED part PROVE \A i \in Parts : PartLen(i)' >= PartLen(i)
    BY <1>1, <1>2 DEF PartLen
  <1>3. CASE \E n \in Counts : Begin(n)
    BY <1>2, <1>3 DEF Begin, disk
  <1>4. CASE Call
    BY <1>2, <1>4 DEF Call, Join, Joined, Copy, RemovePart, disk
  <1>5. CASE Crash
    BY <1>2, <1>5 DEF Crash, disk
  <1>6. CASE \E i \in Parts : Segment(i)
    BY <1>6, SegmentStep
  <1>7. CASE Pause \/ Resume \/ Cancel \/ UNCHANGED vars
    BY <1>2, <1>7 DEF Pause, Resume, Cancel, vars, disk
  <1> QED
    BY <1>3, <1>4, <1>5, <1>6, <1>7 DEF Next

\* No byte on disk is thrown away before it is in the output.
THEOREM BytesKept == Spec => DeliveredBytesKept
  <1>1. IInv /\ [Next]_vars =>
            [phase # "Removing" => \A i \in Parts : PartLen(i)' >= PartLen(i)]_vars
    BY StepKeepsBytes
  <1> QED
    BY <1>1, Always, PTL DEF Spec, DeliveredBytesKept
-----------------------------------------------------------------------------
(* Ranges and their bytes.                                                 *)

\* Of SegmentTiling only what it proves of RangeStart is used.
Tiling == INSTANCE SegmentTiling
    WITH Sizes <- {FileSize}, Requested <- Counts, total <- FileSize, n <- 0,
         segments <- <<>>, offset <- 0

\* The ranges of a call: they begin with the first byte, are not empty and end
\* with the last byte.
LEMMA Ranges ==
    ASSUME NEW n \in Counts, NEW m, m = SegCount(n)
    PROVE  /\ m \in Nat /\ m > 0
           /\ \A i : SegStart(m, i) = SegStart(n, i) /\ SegSize(m, i) = SegSize(n, i)
                                                   /\ SegEnd(m, i) = SegEnd(n, i)
           /\ SegStart(m, 0) = 0 /\ SegStart(m, m) = FileSize
           /\ \A i \in 0 .. m - 1 :
                 /\ SegStart(m, i) \in Nat /\ SegStart(m, i + 1) \in Nat
                 /\ SegSize(m, i) \in Nat /\ SegSize(m, i) > 0
                 /\ SegEnd(m, i) = SegStart(m, i) + SegSize(m, i) - 1
                 /\ SegStart(m, i + 1) = SegEnd(m, i) + 1
  <1>1. FileSize \in Nat /\ FileSize > 0 /\ m \in Nat /\ m > 0 /\ m <= FileSize
    BY CountPositive, SegmentedAssumption
  <1>2. SegCount(m) = m
    BY <1>1 DEF SegCount, RangeCount
  <1>3. \A i : SegStart(m, i) = RangeStart(FileSize, m, i) /\ SegStart(n, i) = RangeStart(FileSize, m, i)
    BY <1>2 DEF SegStart
  <1>4. \A t, k, i : Tiling!RangeStart(t, k, i) = RangeStart(t, k, i)
    BY DEF RangeStart, Tiling!RangeStart
  <1>5. Tiling!TilingAssumption
    BY SegmentedAssumption DEF Tiling!TilingAssumption
  <1>6. RangeStart(FileSize, m, m) = FileSize
    BY <1>1, <1>4, <1>5, Tiling!LastStart
  <1>7. RangeStart(FileSize, m, 0) = 0
    <2>1. FileSize \div m \in Int /\ FileSize % m \in 0 .. m - 1
      BY <1>1
    <2> QED
      BY <2>1 DEF RangeStart
  <1>8. ASSUME NEW i \in 0 .. m - 1
        PROVE  /\ RangeStart(FileSize, m, i) \in Nat
               /\ RangeStart(FileSize, m, i + 1) \in Nat
               /\ RangeStart(FileSize, m, i) < RangeStart(FileSize, m, i + 1)
    <2>1. i \in Nat /\ i < m
      BY <1>1
    <2>2. /\ RangeStart(FileSize, m, i) \in Nat
          /\ RangeStart(FileSize, m, i + 1) =
                RangeStart(FileSize, m, i) + FileSize \div m + (IF i < FileSize % m THEN 1 ELSE 0)
      BY <1>1, <1>4, <1>5, <2>1, Tiling!NextStart
    <2>3. FileSize \div m \in Nat /\ FileSize \div m >= 1
      BY <1>1, <1>5, Tiling!Division
    <2> QED
      BY <2>2, <2>3
  <1> QED
    BY <1>1, <1>3, <1>6, <1>7, <1>8 DEF SegSize, SegEnd

\* A set of numbers up to 16 has a greatest one.
LEMMA Greatest ==
    ASSUME NEW S, S \subseteq 1 .. 16, S # {}
    PROVE  \A x \in S : x <= Max(S)
  <1>1. \E x \in S : \A y \in S : x >= y
    <2> SUFFICES ASSUME \A x \in S : \E y \in S : ~(x >= y) PROVE FALSE
      OBVIOUS
    <2>1. \A x \in S : x \in 1 .. 16
      OBVIOUS
    <2>2. 16 \notin S
      BY <2>1
    <2>3. 15 \notin S
      BY <2>1, <2>2
    <2>4. 14 \notin S
      BY <2>1, <2>2, <2>3
    <2>5. 13 \notin S
      BY <2>1, <2>2, <2>3, <2>4
    <2>6. 12 \notin S
      BY <2>1, <2>2, <2>3, <2>4, <2>5
    <2>7. 11 \notin S
      BY <2>1, <2>2, <2>3, <2>4, <2>5, <2>6
    <2>8. \A x \in S : x \in 1 .. 10
      BY <2>1, <2>2, <2>3, <2>4, <2>5, <2>6, <2>7
    <2>9. 10 \notin S
      BY <2>8
    <2>10. 9 \notin S
      BY <2>8, <2>9
    <2>11. 8 \notin S
      BY <2>8, <2>9, <2>10
    <2>12. 7 \notin S
      BY <2>8, <2>9, <2>10, <2>11
    <2>13. 6 \notin S
      BY <2>8, <2>9, <2>10, <2>11, <2>12
    <2>14. \A x \in S : x \in 1 .. 5
      BY <2>8, <2>9, <2>10, <2>11, <2>12, <2>13
    <2>15. 5 \notin S
      BY <2>14
    <2>16. 4 \notin S
      BY <2>14, <2>15
    <2>17. 3 \notin S
      BY <2>14, <2>15, <2>16
    <2>18. 2 \notin S
      BY <2>14, <2>15, <2>16, <2>17
    <2>19. 1 \notin S
      BY <2>14, <2>15, <2>16, <2>17, <2>18
    <2>20. \A x \in S : FALSE
      BY <2>14, <2>15, <2>16, <2>17, <2>18, <2>19
    <2> QED
      BY <2>20
  <1> QED
    BY <1>1 DEF Max

\* Every segment of a call has a part.
LEMMA SegmentsHaveParts ==
    ASSUME NEW n \in Counts
    PROVE  0 .. SegCount(n) - 1 \subseteq Parts
  <1> DEFINE S == {SegCount(k) : k \in Counts}
  <1>1. S \subseteq 1 .. 16 /\ SegCount(n) \in S
    <2>1. ASSUME NEW k \in Counts PROVE SegCount(k) \in 1 .. 16
      <3>1. k \in 2 .. 16 /\ FileSize \in Nat
        BY SegmentedAssumption
      <3> QED
        BY <3>1, CountPositive DEF SegCount, RangeCount
    <2> QED
      BY <2>1
  <1>2. SegCount(n) <= Max(S) /\ Max(S) \in S
    <2>1. \A x \in S : x <= Max(S)
      BY <1>1, Greatest
    <2>2. Max(S) \in S
      BY <1>1, <2>1 DEF Max
    <2> QED
      BY <1>1, <2>1, <2>2
  <1> HIDE DEF S
  <1> QED
    BY <1>1, <1>2 DEF Parts, S

\* Bytes a .. b: none, one more, and what follows.
LEMMA BytesLen ==
    ASSUME NEW a \in Int, NEW b \in Int, b >= a - 1
    PROVE  Bytes(a, b) \in Seq(Int) /\ Len(Bytes(a, b)) = b - a + 1
  BY DEF Bytes

LEMMA BytesNone == ASSUME NEW a \in Int PROVE Bytes(a, a - 1) = <<>>
  BY DEF Bytes

LEMMA BytesMore ==
    ASSUME NEW a \in Int, NEW b \in Int, b >= a - 1
    PROVE  Append(Bytes(a, b), b + 1) = Bytes(a, b + 1)
  <1>1. Bytes(a, b) \in Seq(Int) /\ Len(Bytes(a, b)) = b - a + 1
    BY BytesLen
  <1>2. /\ Append(Bytes(a, b), b + 1) \in Seq(Int)
        /\ Len(Append(Bytes(a, b), b + 1)) = b - a + 2
        /\ Bytes(a, b + 1) \in Seq(Int) /\ Len(Bytes(a, b + 1)) = b - a + 2
    <2>1. b + 1 \in Int /\ b + 1 >= a - 1 /\ (b + 1) - a + 1 = b - a + 2
      OBVIOUS
    <2>2. Bytes(a, b + 1) \in Seq(Int) /\ Len(Bytes(a, b + 1)) = b - a + 2
      BY <2>1, BytesLen
    <2>3. /\ Append(Bytes(a, b), b + 1) \in Seq(Int)
          /\ Len(Append(Bytes(a, b), b + 1)) = Len(Bytes(a, b)) + 1
      BY <1>1, <2>1
    <2> QED
      BY <1>1, <2>2, <2>3
  <1>3. ASSUME NEW k \in 1 .. b - a + 2 PROVE Append(Bytes(a, b), b + 1)[k] = Bytes(a, b + 1)[k]
    BY <1>1 DEF Bytes
  <1> QED
    BY <1>2, <1>3

LEMMA BytesJoin ==
    ASSUME NEW a \in Int, NEW b \in Int, NEW c \in Int, b >= a - 1, c >= b
    PROVE  Bytes(a, b) \o Bytes(b + 1, c) = Bytes(a, c)
  <1> DEFINE s == Bytes(a, b)
             t == Bytes(b + 1, c)
             u == Bytes(a, c)
  <1>1. /\ s \in Seq(Int) /\ Len(s) = b - a + 1
        /\ t \in Seq(Int) /\ Len(t) = c - b
        /\ u \in Seq(Int) /\ Len(u) = c - a + 1
    <2>1. b + 1 \in Int /\ c >= (b + 1) - 1 /\ c - (b + 1) + 1 = c - b /\ c >= a - 1
      OBVIOUS
    <2>2. t \in Seq(Int) /\ Len(t) = c - b
      BY <2>1, BytesLen
    <2>3. s \in Seq(Int) /\ Len(s) = b - a + 1 /\ u \in Seq(Int) /\ Len(u) = c - a + 1
      BY <2>1, BytesLen
    <2> QED
      BY <2>2, <2>3
  <1>2. /\ \A k \in 1 .. b - a + 1 : s[k] = a + k - 1
        /\ \A k \in 1 .. c - b : t[k] = b + k
        /\ \A k \in 1 .. c - a + 1 : u[k] = a + k - 1
    BY DEF Bytes
  <1> HIDE DEF s, t, u
  <1>3. /\ s \o t \in Seq(Int) /\ Len(s \o t) = c - a + 1
        /\ \A k \in 1 .. c - a + 1 : (s \o t)[k] = IF k <= b - a + 1 THEN s[k] ELSE t[k - (b - a + 1)]
    <2>1. /\ s \o t \in Seq(Int) /\ Len(s \o t) = Len(s) + Len(t)
          /\ \A k \in 1 .. Len(s) + Len(t) : (s \o t)[k] = IF k <= Len(s) THEN s[k] ELSE t[k - Len(s)]
      BY <1>1, ConcatProperties, Zenon
    <2>2. Len(s) + Len(t) = c - a + 1
      BY <1>1
    <2>3. Len(s) = b - a + 1
      BY <1>1
    <2> QED
      BY <2>1, <2>2, <2>3
  <1>4. ASSUME NEW k \in 1 .. c - a + 1 PROVE (s \o t)[k] = u[k]
    <2>1. CASE k <= b - a + 1
      BY <1>2, <1>3, <2>1
    <2>2. CASE ~(k <= b - a + 1)
      BY <1>2, <1>3, <2>2
    <2> QED
      BY <2>1, <2>2
  <1>5. s \o t = u
    BY <1>1, <1>3, <1>4, SeqEqual
  <1> QED
    BY <1>5 DEF s, t, u

-----------------------------------------------------------------------------
(* The segmented engine delivers the whole file.                           *)

RangeOf(n, i) == Bytes(SegStart(n, i), SegEnd(n, i))

\* The call cuts the file as one of the requested counts does.
Cut == phase # "Idle" => \E n \in Counts : segs = SegCount(n)
Cursors == phase \in {"Joining", "Copying"} => cursor \in 0 .. segs

\* The part of a task that began at the start of its range.
Prefixed(i) ==
    /\ written[i] <= SegSize(segs, i)
    /\ written[i] > 0 \/ taskPc[i] = "Stream" =>
          part[i] = Bytes(SegStart(segs, i), SegStart(segs, i) + written[i] - 1)
    /\ taskPc[i] = "Ok" => written[i] = SegSize(segs, i)

Tasks ==
    phase = "Joining" => \A i \in Segs : taskPc[i] # "None" =>
        /\ rangeStart[i] >= SegStart(segs, i)
        /\ rangeStart[i] = SegStart(segs, i) => Prefixed(i)

\* An error of a joined task is known.
Failures == phase = "Joining" => \A i \in 0 .. cursor - 1 : taskPc[i] = "Err" => failed

\* A part that is as long as its range is its range.
Fits(n, i) ==
    /\ PartLen(i) <= SegSize(n, i)
    /\ PartLen(i) = SegSize(n, i) => part[i] = RangeOf(n, i)
PartsFit == OneCount => \A n \in Counts : \A i \in 0 .. SegCount(n) - 1 : Fits(n, i)

Skipped ==
    phase = "Joining" /\ OneCount =>
        \A i \in Segs : taskPc[i] = "None" => PartLen(i) = SegSize(segs, i)

Copied ==
    phase = "Copying" /\ NoneResumed =>
        /\ \A i \in Segs : part[i] = RangeOf(segs, i)
        /\ output = Bytes(0, SegStart(segs, cursor) - 1)
Returned == phase \in {"Removing", "Ok"} /\ NoneResumed => output = WholeFile

WInv == Cut /\ Cursors /\ Tasks /\ Failures /\ PartsFit /\ Skipped /\ Copied /\ Returned

LEMMA InitWInv == Init => WInv
  <1> SUFFICES ASSUME Init PROVE WInv
    OBVIOUS
  <1>1. PartsFit
    <2> SUFFICES ASSUME NEW n \in Counts, NEW i \in 0 .. SegCount(n) - 1 PROVE Fits(n, i)
      BY DEF PartsFit
    <2>1. i \in Parts /\ PartLen(i) = 0
      BY SegmentsHaveParts DEF Init, PartLen
    <2>2. SegSize(n, i) \in Nat /\ SegSize(n, i) > 0
      BY Ranges
    <2> QED
      BY <2>1, <2>2 DEF Fits
  <1> QED
    BY <1>1 DEF Init, WInv, Cut, Cursors, Tasks, Failures, Skipped, Copied, Returned

\* What a running call knows of its segments.
LEMMA Running ==
    ASSUME WInv, phase # "Idle"
    PROVE  /\ segs \in Nat /\ segs > 0 /\ Segs \subseteq Parts
           /\ SegStart(segs, 0) = 0 /\ SegStart(segs, segs) = FileSize
           /\ \A i \in Segs :
                 /\ SegStart(segs, i) \in Nat /\ SegStart(segs, i + 1) \in Nat
                 /\ SegSize(segs, i) \in Nat /\ SegSize(segs, i) > 0
                 /\ SegEnd(segs, i) = SegStart(segs, i) + SegSize(segs, i) - 1
                 /\ SegStart(segs, i + 1) = SegEnd(segs, i) + 1
           /\ OneCount => \A i \in Segs : Fits(segs, i)
           /\ OneCount => \A n \in Counts : SegCount(n) = segs
           /\ \A n \in Counts : \A i : SegCount(n) = segs => (Fits(n, i) <=> Fits(segs, i))
  <1>1. PICK n \in Counts : segs = SegCount(n)
    BY DEF WInv, Cut
  <1>2. /\ segs \in Nat /\ segs > 0 /\ Segs \subseteq Parts
        /\ SegStart(segs, 0) = 0 /\ SegStart(segs, segs) = FileSize
        /\ \A i \in Segs :
              /\ SegStart(segs, i) \in Nat /\ SegStart(segs, i + 1) \in Nat
              /\ SegSize(segs, i) \in Nat /\ SegSize(segs, i) > 0
              /\ SegEnd(segs, i) = SegStart(segs, i) + SegSize(segs, i) - 1
              /\ SegStart(segs, i + 1) = SegEnd(segs, i) + 1
    BY <1>1, Ranges, SegmentsHaveParts DEF Segs
  <1>3. ASSUME NEW k \in Counts, SegCount(k) = segs, NEW i PROVE Fits(k, i) <=> Fits(segs, i)
    <2>1. SegStart(segs, i) = SegStart(k, i) /\ SegSize(segs, i) = SegSize(k, i) /\ SegEnd(segs, i) = SegEnd(k, i)
      BY <1>3, Ranges
    <2> QED
      BY <2>1 DEF Fits, RangeOf
  <1>4. OneCount => \A i \in Segs : Fits(segs, i)
    BY <1>1, <1>3 DEF WInv, PartsFit, Segs
  <1>5. OneCount => \A k \in Counts : SegCount(k) = segs
    BY <1>1 DEF OneCount
  <1> QED
    BY <1>2, <1>3, <1>4, <1>5

LEMMA MinBelow ==
    ASSUME NEW a \in Int, NEW b \in Int
    PROVE  Min({a, b}) <= a /\ Min({a, b}) <= b
  <1>1. \E x \in {a, b} : \A y \in {a, b} : x =< y
    <2>1. CASE a =< b
      BY <2>1
    <2>2. CASE b =< a
      BY <2>2
    <2> QED
      BY <2>1, <2>2
  <1> QED
    BY <1>1 DEF Min

\* A call that finds a part as long as its range skips it, starts an absent one
\* at the start of the range, and resumes any other further on.
LEMMA BeginKeepsWInv == ASSUME IInv, WInv, NEW n \in Counts, Begin(n) PROVE WInv'
  <1> DEFINE todo == {i \in 0 .. SegCount(n) - 1 : Offset(n, i) < SegSize(n, i)}
  <1>1. /\ part' = part /\ phase' = "Joining" /\ segs' = SegCount(n) /\ cursor' = 0
        /\ taskPc' = [i \in Parts |-> IF i \in todo THEN "Request" ELSE "None"]
        /\ rangeStart' = [i \in Parts |->
                            IF i \in todo THEN SegStart(n, i) + Offset(n, i) ELSE 0]
        /\ written' = [i \in Parts |-> IF i \in todo THEN PartLen(i) ELSE 0]
    BY DEF Begin, disk
  <1>2. /\ segs' \in Nat /\ Segs' = 0 .. SegCount(n) - 1 /\ Segs' \subseteq Parts
    BY <1>1, CountPositive, SegmentsHaveParts DEF Segs
  <1>3. \A i \in Parts : PartLen(i) \in Nat /\ PartLen(i)' = PartLen(i)
    BY <1>1 DEF IInv, Types, PartLen
  <1>4. ASSUME NEW i \in Segs'
        PROVE  /\ SegStart(segs', i) = SegStart(n, i) /\ SegStart(n, i) \in Nat
               /\ SegSize(segs', i) = SegSize(n, i) /\ SegSize(n, i) \in Nat /\ SegSize(n, i) > 0
               /\ Offset(n, i) \in {PartLen(i), SegSize(n, i)}
               /\ Offset(n, i) <= PartLen(i) /\ Offset(n, i) <= SegSize(n, i)
    <2>1. /\ SegStart(segs', i) = SegStart(n, i) /\ SegSize(segs', i) = SegSize(n, i)
          /\ SegStart(segs', i) \in Nat /\ SegSize(segs', i) \in Nat /\ SegSize(segs', i) > 0
      BY <1>1, <1>2, Ranges
    <2>2. PartLen(i) \in Int /\ SegSize(n, i) \in Int
      BY <1>2, <1>3, <2>1
    <2> QED
      BY <2>1, <2>2, MinOfTwo, MinBelow DEF Offset
  <1>5. Tasks'
    <2> SUFFICES ASSUME NEW i \in Segs', taskPc'[i] # "None"
                 PROVE  /\ rangeStart'[i] >= SegStart(segs', i)
                        /\ rangeStart'[i] = SegStart(segs', i) => Prefixed(i)'
      BY DEF Tasks
    <2>1. /\ i \in Parts /\ taskPc'[i] = "Request" /\ written'[i] = PartLen(i)
          /\ rangeStart'[i] = SegStart(n, i) + Offset(n, i) /\ PartLen(i) \in Nat
      BY <1>1, <1>2, <1>3
    <2>2. rangeStart'[i] >= SegStart(segs', i)
      BY <1>4, <2>1
    <2>3. rangeStart'[i] = SegStart(segs', i) => written'[i] = 0
      BY <1>4, <2>1
    <2>4. written'[i] = 0 => Prefixed(i)'
      <3>1. SegSize(segs', i) = SegSize(segs, i)'
        BY DEF SegSize
      <3> QED
        BY <1>4, <2>1, <3>1 DEF Prefixed
    <2> QED
      BY <2>2, <2>3, <2>4
  <1>6. PartsFit'
    <2>1. \A k \in Counts : \A i \in 0 .. SegCount(k) - 1 : Fits(k, i)' <=> Fits(k, i)
      BY <1>1, <1>3, SegmentsHaveParts DEF Fits
    <2> QED
      BY <2>1 DEF WInv, PartsFit
  <1>7. Skipped'
    <2> SUFFICES ASSUME OneCount, NEW i \in Segs', taskPc'[i] = "None"
                 PROVE  PartLen(i)' = SegSize(segs', i)
      BY DEF Skipped
    <2>1. i \in 0 .. SegCount(n) - 1 /\ i \in Parts /\ ~(Offset(n, i) < SegSize(n, i))
      BY <1>1, <1>2
    <2>2. PartLen(i) <= SegSize(n, i) /\ PartLen(i)' = PartLen(i) /\ PartLen(i) \in Nat
      BY <1>3, <2>1 DEF WInv, PartsFit, Fits
    <2> QED
      BY <1>4, <2>1, <2>2
  <1>8. Cut' /\ Cursors' /\ Failures' /\ Copied' /\ Returned'
    BY <1>1, <1>2 DEF Cut, Cursors, Failures, Copied, Returned
  <1> QED
    BY <1>5, <1>6, <1>7, <1>8 DEF WInv

\* A step of a running task touches no part but its own.
LEMMA TaskKeepsWInv ==
    ASSUME IInv, WInv, NEW i \in Parts, taskPc[i] \in Live,
           NEW s \in TaskPc \ {"None"}, taskPc' = [taskPc EXCEPT ![i] = s],
           UNCHANGED <<phase, segs, cursor, failed, output, rangeStart>>,
           \A j \in Parts \ {i} : part'[j] = part[j] /\ written'[j] = written[j],
           i \in Segs /\ rangeStart[i] = SegStart(segs, i) => Prefixed(i)',
           OneCount /\ i \in Segs => Fits(segs, i)'
    PROVE  WInv'
  <1>1. /\ phase = "Joining" /\ i \in Segs /\ i >= cursor /\ i < segs /\ i \in Nat
    <2>1. i \in Nat
      BY DEF Parts
    <2> QED
      BY <2>1 DEF IInv, Unjoined, Segs, Types
  <1>2. /\ taskPc'[i] = s /\ \A j \in Parts \ {i} : taskPc'[j] = taskPc[j]
    BY DEF IInv, Types
  <1>3. Segs' = Segs /\ Segs \subseteq Parts /\ segs \in Nat
    BY <1>1, Running DEF Segs
  <1>4. \A j \in Parts \ {i} : PartLen(j)' = PartLen(j)
    BY DEF PartLen
  <1>5. \A n : \A j : SegStart(n, j)' = SegStart(n, j) /\ SegSize(n, j)' = SegSize(n, j)
    OBVIOUS
  <1>6. Tasks'
    <2> SUFFICES ASSUME NEW j \in Segs, taskPc'[j] # "None"
                 PROVE  /\ rangeStart[j] >= SegStart(segs, j)
                        /\ rangeStart[j] = SegStart(segs, j) => Prefixed(j)'
      BY <1>3 DEF Tasks
    <2>1. CASE j = i
      <3>1. taskPc[i] # "None"
        BY DEF Live
      <3> QED
        BY <1>1, <2>1, <3>1 DEF WInv, Tasks
    <2>2. CASE j # i
      <3>1. j \in Parts \ {i}
        BY <1>3, <2>2
      <3>2. Prefixed(j)' <=> Prefixed(j)
        BY <1>2, <3>1 DEF Prefixed
      <3> QED
        BY <1>1, <1>2, <3>1, <3>2 DEF WInv, Tasks
    <2> QED
      BY <2>1, <2>2
  <1>7. PartsFit'
    <2> SUFFICES ASSUME OneCount, NEW n \in Counts, NEW j \in 0 .. SegCount(n) - 1
                 PROVE  Fits(n, j)'
      BY DEF PartsFit
    <2>1. SegCount(n) = segs /\ j \in Segs /\ j \in Parts
      BY <1>1, <1>3, Running DEF Segs
    <2>2. CASE j = i
      <3>1. SegStart(segs, i) = SegStart(n, i) /\ SegSize(segs, i) = SegSize(n, i) /\ SegEnd(segs, i) = SegEnd(n, i)
        BY <2>1, Ranges
      <3> QED
        BY <1>1, <2>2, <3>1 DEF Fits, RangeOf
    <2>3. CASE j # i
      BY <1>4, <2>1, <2>3 DEF WInv, PartsFit, Fits
    <2> QED
      BY <2>2, <2>3
  <1>8. Skipped'
    <2> SUFFICES ASSUME OneCount, NEW j \in Segs, taskPc'[j] = "None"
                 PROVE  PartLen(j)' = SegSize(segs, j)
      BY <1>3 DEF Skipped
    <2>1. j \in Parts \ {i}
      BY <1>2, <1>3
    <2> QED
      BY <1>1, <1>2, <1>4, <2>1 DEF WInv, Skipped
  <1>9. Failures'
    <2> SUFFICES ASSUME NEW j \in 0 .. cursor - 1, taskPc'[j] = "Err" PROVE failed
      BY DEF Failures
    <2>1. cursor \in 0 .. segs
      BY <1>1 DEF WInv, Cursors
    <2>2. j \in Segs /\ j # i
      BY <1>1, <1>3, <2>1 DEF Segs
    <2> QED
      BY <1>1, <1>2, <1>3, <2>2 DEF WInv, Failures
  <1>10. Cut' /\ Cursors' /\ Copied' /\ Returned'
    BY <1>1 DEF WInv, Cut, Cursors, Copied, Returned
  <1> QED
    BY <1>6, <1>7, <1>8, <1>9, <1>10 DEF WInv

\* A task opens its part, ends, waits or writes a byte.
LEMMA SegmentKeepsWInv == ASSUME IInv, WInv, NEW i \in Parts, Segment(i) PROVE WInv'
  <1>1. /\ taskPc[i] \in Live /\ written[i] \in Nat /\ rangeStart[i] \in Nat
        /\ written[i] = PartLen(i) /\ part[i] \in Seq(Int)
        /\ taskPc[i] = "Stream" => part[i] # Missing
    BY DEF Segment, RequestRange, SeeCancel, WriteChunk, StreamEnds, StreamBreaks, BackoffEnds,
           IInv, Types, Believes, Live
  <1>2. phase = "Joining" /\ i \in Segs
    <2>1. i \in Nat
      BY DEF Parts
    <2> QED
      BY <1>1, <2>1 DEF IInv, Unjoined, Segs, Types
  <1>3. /\ SegStart(segs, i) \in Nat /\ SegSize(segs, i) \in Nat /\ SegSize(segs, i) > 0
        /\ SegEnd(segs, i) = SegStart(segs, i) + SegSize(segs, i) - 1
        /\ OneCount => Fits(segs, i)
    BY <1>2, Running
  <1>4. /\ rangeStart[i] >= SegStart(segs, i)
        /\ rangeStart[i] = SegStart(segs, i) => Prefixed(i)
    BY <1>1, <1>2 DEF WInv, Tasks, Live
  <1>5. ASSUME NEW s \in {"Err", "Request", "Backoff"}, taskPc' = [taskPc EXCEPT ![i] = s],
               UNCHANGED <<part, written, phase, segs, cursor, failed, output, rangeStart>>
        PROVE  WInv'
    <2>1. s \in TaskPc \ {"None"} /\ taskPc'[i] = s
      BY <1>5 DEF TaskPc, Live, IInv, Types
    <2>2. rangeStart[i] = SegStart(segs, i) => Prefixed(i)'
      BY <1>4, <1>5, <2>1 DEF Prefixed
    <2>3. OneCount => Fits(segs, i)'
      BY <1>3, <1>5 DEF Fits, PartLen
    <2> QED
      BY <1>1, <1>5, <2>1, <2>2, <2>3, TaskKeepsWInv
  <1>6. ASSUME Position(i) > RangeEnd(i), Finish(i, "Ok") PROVE WInv'
    <2>1. /\ "Ok" \in TaskPc \ {"None"} /\ taskPc' = [taskPc EXCEPT ![i] = "Ok"] /\ taskPc'[i] = "Ok"
          /\ UNCHANGED <<part, written, phase, segs, cursor, failed, output, rangeStart>>
      BY <1>6 DEF Finish, disk, call, TaskPc, IInv, Types
    <2>2. rangeStart[i] = SegStart(segs, i) => Prefixed(i)'
      <3> SUFFICES ASSUME rangeStart[i] = SegStart(segs, i) PROVE Prefixed(i)'
        OBVIOUS
      <3>1. Prefixed(i) /\ SegStart(segs, i) + written[i] > SegEnd(segs, i)
        BY <1>4, <1>6 DEF Position, RangeEnd
      <3>2. written[i] = SegSize(segs, i) /\ written[i] > 0
        BY <1>1, <1>3, <3>1 DEF Prefixed
      <3>3. part[i] = Bytes(SegStart(segs, i), SegStart(segs, i) + written[i] - 1)
        BY <3>1, <3>2 DEF Prefixed
      <3> QED
        BY <1>3, <2>1, <3>2, <3>3 DEF Prefixed
    <2>3. OneCount => Fits(segs, i)'
      BY <1>3, <2>1 DEF Fits, PartLen
    <2> QED
      BY <1>1, <2>1, <2>2, <2>3, TaskKeepsWInv
  <1>7. ASSUME taskPc[i] = "Request", taskPc' = [taskPc EXCEPT ![i] = "Stream"],
               part' = IF written[i] > 0 THEN part ELSE [part EXCEPT ![i] = <<>>],
               UNCHANGED <<written, phase, segs, cursor, failed, output, rangeStart>>
        PROVE  WInv'
    <2>1. /\ "Stream" \in TaskPc \ {"None"} /\ taskPc'[i] = "Stream"
          /\ \A j \in Parts \ {i} : part'[j] = part[j]
          /\ part'[i] = IF written[i] > 0 THEN part[i] ELSE <<>>
      BY <1>7 DEF TaskPc, Live, IInv, Types
    <2>2. rangeStart[i] = SegStart(segs, i) => Prefixed(i)'
      <3> SUFFICES ASSUME rangeStart[i] = SegStart(segs, i) PROVE Prefixed(i)'
        OBVIOUS
      <3>1. part'[i] = Bytes(SegStart(segs, i), SegStart(segs, i) + written[i] - 1)
        <4>1. CASE written[i] > 0
          BY <1>4, <2>1, <4>1 DEF Prefixed
        <4>2. CASE written[i] = 0
          BY <1>3, <2>1, <4>2, BytesNone
        <4> QED
          BY <1>1, <4>1, <4>2
      <3> QED
        BY <1>4, <1>7, <2>1, <3>1 DEF Prefixed
    <2>3. OneCount => Fits(segs, i)'
      <3>1. CASE written[i] > 0
        BY <1>3, <1>7, <3>1 DEF Fits, PartLen
      <3>2. CASE written[i] = 0
        <4>1. PartLen(i)' = 0
          BY <2>1, <3>2 DEF PartLen
        <4> QED
          BY <1>3, <1>7, <4>1 DEF Fits
      <3> QED
        BY <1>1, <3>1, <3>2
    <2> QED
      BY <1>1, <1>7, <2>1, <2>2, <2>3, TaskKeepsWInv
  <1>8. CASE WriteChunk(i)
    <2> DEFINE start == SegStart(segs, i)
               w == written[i]
    <2>1. /\ taskPc[i] = "Stream" /\ taskPc' = [taskPc EXCEPT ![i] = "Stream"]
          /\ part' = [part EXCEPT ![i] = Append(part[i], Position(i))]
          /\ written' = [written EXCEPT ![i] = w + 1]
          /\ UNCHANGED <<phase, segs, cursor, failed, output, rangeStart>>
          /\ rangeStart[i] + w <= SegEnd(segs, i)
      BY <1>8 DEF WriteChunk, call, IInv, Types, Position, RangeEnd
    <2>2. /\ "Stream" \in TaskPc \ {"None"} /\ taskPc'[i] = "Stream"
          /\ \A j \in Parts \ {i} : part'[j] = part[j] /\ written'[j] = written[j]
          /\ part'[i] = Append(part[i], Position(i)) /\ written'[i] = w + 1
      BY <2>1 DEF TaskPc, Live, IInv, Types
    <2>3. PartLen(i)' = w + 1
      <3>1. IInv'
        BY <1>8, ChunkAppends
      <3>2. taskPc'[i] \in Live
        BY <2>2 DEF Live
      <3> QED
        BY <2>2, <3>1, <3>2 DEF IInv, Believes
    <2>4. w + 1 <= SegSize(segs, i) /\ (w + 1 = SegSize(segs, i) => rangeStart[i] = start)
      BY <1>1, <1>3, <1>4, <2>1
    <2>5. rangeStart[i] = start => part'[i] = Bytes(start, start + w)
      <3> SUFFICES ASSUME rangeStart[i] = start PROVE part'[i] = Bytes(start, start + w)
        OBVIOUS
      <3>1. part[i] = Bytes(start, start + w - 1) /\ Position(i) = (start + w - 1) + 1
        BY <1>1, <1>3, <1>4, <2>1 DEF Prefixed, Position
      <3>2. /\ start \in Int /\ start + w - 1 \in Int /\ start + w - 1 >= start - 1
            /\ (start + w - 1) + 1 = start + w
        BY <1>1, <1>3
      <3> HIDE DEF start, w
      <3>3. Append(Bytes(start, start + w - 1), (start + w - 1) + 1) = Bytes(start, (start + w - 1) + 1)
        BY <3>2, BytesMore
      <3> QED
        BY <2>2, <3>1, <3>2, <3>3
    <2>6. rangeStart[i] = SegStart(segs, i) => Prefixed(i)'
      <3>1. (w + 1) - 1 = w /\ start + (w + 1) - 1 = start + w
        BY <1>1, <1>3
      <3> QED
        BY <2>1, <2>2, <2>4, <2>5, <3>1 DEF Prefixed
    <2>7. OneCount => Fits(segs, i)'
      <3>1. w + 1 = SegSize(segs, i) => start + w = SegEnd(segs, i)
        BY <1>1, <1>3
      <3> QED
        BY <2>1, <2>3, <2>4, <2>5, <3>1 DEF Fits, RangeOf
    <2> QED
      BY <1>1, <2>1, <2>2, <2>6, <2>7, TaskKeepsWInv
  <1>9. CASE RequestRange(i)
    <2>1. CASE Position(i) > RangeEnd(i) /\ Finish(i, "Ok")
      BY <1>6, <2>1
    <2>2. CASE Finish(i, "Err")
      BY <1>5, <2>2 DEF Finish, disk, call
    <2>3. CASE /\ taskPc' = [taskPc EXCEPT ![i] = "Stream"]
               /\ part' = IF written[i] > 0 THEN part ELSE [part EXCEPT ![i] = <<>>]
               /\ UNCHANGED <<output, rangeStart, written, retries, call, flags, counter,
                              attempts>>
      BY <1>7, <1>9, <2>3 DEF RequestRange, call
    <2> QED
      BY <1>9, <2>1, <2>2, <2>3 DEF RequestRange
  <1>10. CASE SeeCancel(i) \/ BackoffEnds(i)
    BY <1>5, <1>10 DEF SeeCancel, BackoffEnds, Finish, disk, call
  <1>11. CASE StreamEnds(i)
    BY <1>6, <1>11 DEF StreamEnds
  <1>12. CASE StreamBreaks(i)
    BY <1>5, <1>12 DEF StreamBreaks, disk, call
  <1> QED
    BY <1>8, <1>9, <1>10, <1>11, <1>12 DEF Segment

\* When all tasks are joined without an error every part is its range.
LEMMA AllDelivered ==
    ASSUME IInv, WInv, phase = "Joining", cursor = segs, ~failed, NoneResumed
    PROVE  \A i \in Segs : part[i] = RangeOf(segs, i)
  <1> SUFFICES ASSUME NEW i \in Segs PROVE part[i] = RangeOf(segs, i)
    OBVIOUS
  <1>1. /\ i \in Parts /\ i \in Nat /\ segs \in Nat /\ i < segs
        /\ SegStart(segs, i) \in Nat /\ SegSize(segs, i) \in Nat /\ SegSize(segs, i) > 0
        /\ SegEnd(segs, i) = SegStart(segs, i) + SegSize(segs, i) - 1
        /\ OneCount => Fits(segs, i)
    BY Running DEF Segs
  <1>2. taskPc[i] # "Err"
    BY <1>1 DEF WInv, Failures
  <1>3. taskPc[i] \notin Live
    BY <1>1 DEF IInv, Unjoined
  <1>4. CASE taskPc[i] = "None"
    <2>1. OneCount /\ PartLen(i) = SegSize(segs, i)
      BY <1>4 DEF NoneResumed, WInv, Skipped
    <2> QED
      BY <1>1, <2>1 DEF Fits
  <1>5. CASE taskPc[i] = "Ok"
    <2>1. Prefixed(i)
      BY <1>5 DEF NoneResumed, WInv, Tasks
    <2>2. written[i] = SegSize(segs, i) /\ written[i] > 0
      BY <1>1, <1>5, <2>1 DEF Prefixed
    <2>3. part[i] = Bytes(SegStart(segs, i), SegStart(segs, i) + SegSize(segs, i) - 1)
      BY <2>1, <2>2 DEF Prefixed
    <2> QED
      BY <1>1, <2>3 DEF RangeOf
  <1> QED
    BY <1>1, <1>2, <1>3, <1>4, <1>5 DEF IInv, Types, TaskPc

\* The loops of the call.
LEMMA CallKeepsWInv == ASSUME IInv, WInv, Call PROVE WInv'
  <1>1. CASE Join
    <2>1. /\ phase = "Joining" /\ phase' = phase /\ cursor < segs /\ cursor' = cursor + 1
          /\ taskPc[cursor] = "Err" => failed'
          /\ failed => failed'
          /\ UNCHANGED <<part, output, taskPc, rangeStart, written, segs>>
      BY <1>1 DEF Join, disk, tasks
    <2>2. cursor \in 0 .. segs /\ segs \in Nat
      BY <2>1, Running DEF WInv, Cursors
    <2>3. Failures' /\ Cursors'
      BY <2>1, <2>2 DEF WInv, Failures, Cursors
    <2>4. Tasks'
      BY <2>1 DEF WInv, Tasks, Segs, Prefixed
    <2>5. PartsFit' /\ Skipped'
      BY <2>1 DEF WInv, PartsFit, Skipped, Fits, PartLen, Segs
    <2> QED
      BY <2>1, <2>3, <2>4, <2>5 DEF WInv, Cut, Copied, Returned
  <1>2. CASE Joined
    <2>1. /\ phase = "Joining" /\ cursor = segs /\ phase' \in {"Err", "Copying"}
          /\ phase' = "Copying" => ~failed /\ cursor' = 0 /\ output' = <<>>
          /\ UNCHANGED <<part, taskPc, rangeStart, written, segs>>
      BY <1>2 DEF Joined, tasks
    <2>2. segs \in Nat /\ SegStart(segs, 0) = 0
      BY <2>1, Running
    <2>3. Copied'
      <3> SUFFICES ASSUME phase' = "Copying", NoneResumed'
                   PROVE  /\ \A i \in Segs' : part'[i] = RangeOf(segs, i)'
                          /\ output' = Bytes(0, SegStart(segs, cursor)' - 1)
        BY DEF Copied
      <3>1. NoneResumed
        BY <2>1 DEF NoneResumed, Segs
      <3>2. \A i \in Segs : part[i] = RangeOf(segs, i)
        BY <2>1, <3>1, AllDelivered
      <3>3. Bytes(0, 0 - 1) = <<>>
        BY BytesNone
      <3> QED
        BY <2>1, <2>2, <3>2, <3>3 DEF Segs, RangeOf
    <2>4. PartsFit' /\ Cut' /\ Cursors'
      BY <2>1, <2>2 DEF WInv, PartsFit, Fits, PartLen, Cut, Cursors
    <2> QED
      BY <2>1, <2>3, <2>4 DEF WInv, Tasks, Failures, Skipped, Returned
  <1>3. CASE Copy
    <2>1. /\ phase = "Copying" /\ UNCHANGED <<part, taskPc, rangeStart, written, segs>>
      BY <1>3 DEF Copy, tasks
    <2>2. /\ segs \in Nat /\ cursor \in 0 .. segs
          /\ SegStart(segs, segs) = FileSize
          /\ NoneResumed' <=> NoneResumed
      BY <2>1, Running DEF WInv, Cursors, NoneResumed, Segs
    <2>3. PartsFit' /\ Cut'
      BY <1>3, <2>1 DEF WInv, PartsFit, Fits, PartLen, Cut, Copy
    <2>4. Tasks' /\ Failures' /\ Skipped'
      BY <1>3, <2>1 DEF Copy, Tasks, Failures, Skipped
    <2>5. CASE /\ cursor < segs /\ output' = output \o part[cursor]
               /\ cursor' = cursor + 1 /\ phase' = phase
      <3>1. Cursors'
        BY <2>1, <2>2, <2>5 DEF Cursors
      <3>2. Copied'
        <4> SUFFICES ASSUME NoneResumed
                     PROVE  /\ \A i \in Segs : part[i] = RangeOf(segs, i)
                            /\ output' = Bytes(0, SegStart(segs, cursor + 1) - 1)
          BY <2>1, <2>2, <2>5 DEF Copied, Segs, RangeOf
        <4>1. /\ \A i \in Segs : part[i] = RangeOf(segs, i)
              /\ output = Bytes(0, SegStart(segs, cursor) - 1)
          BY <2>1 DEF WInv, Copied
        <4>2. cursor \in Segs
          BY <2>2, <2>5 DEF Segs
        <4> DEFINE a == SegStart(segs, cursor)
                   e == SegEnd(segs, cursor)
        <4>3. /\ a \in Nat /\ e \in Int /\ e >= a /\ SegStart(segs, cursor + 1) - 1 = e
          BY <2>1, <4>2, Running
        <4>4. output' = Bytes(0, a - 1) \o Bytes(a, e)
          BY <2>5, <4>1, <4>2 DEF RangeOf
        <4> HIDE DEF a, e
        <4>5. Bytes(0, a - 1) \o Bytes((a - 1) + 1, e) = Bytes(0, e)
          <5>1. /\ 0 \in Int /\ a - 1 \in Int /\ e \in Int
                /\ a - 1 >= 0 - 1 /\ e >= a - 1
            BY <4>3
          <5> QED
            BY <5>1, BytesJoin
        <4>6. (a - 1) + 1 = a
          BY <4>3
        <4> QED
          BY <4>1, <4>3, <4>4, <4>5, <4>6
      <3> QED
        BY <2>1, <2>3, <2>4, <2>5, <3>1, <3>2 DEF WInv, Returned
    <2>6. CASE cursor = segs /\ phase' = "Removing" /\ output' = output
      <3>1. Returned'
        BY <2>1, <2>2, <2>6 DEF WInv, Copied, Returned, WholeFile
      <3> QED
        BY <2>3, <2>4, <2>6, <3>1 DEF WInv, Cursors, Copied
    <2>7. CASE phase' = "Err"
      BY <2>3, <2>4, <2>7 DEF WInv, Cursors, Copied, Returned
    <2> QED
      BY <1>3, <2>5, <2>6, <2>7 DEF Copy
  <1>4. CASE RemovePart
    <2>1. /\ phase = "Removing" /\ phase' \in {"Removing", "Ok"}
          /\ part' = part \/ (cursor \in Int /\ part' = [part EXCEPT ![cursor] = Missing])
          /\ UNCHANGED <<output, taskPc, rangeStart, written, segs>>
      BY <1>4 DEF RemovePart, tasks, IInv, Types
    <2>2. PartsFit'
      <3> SUFFICES ASSUME OneCount, NEW n \in Counts, NEW i \in 0 .. SegCount(n) - 1
                   PROVE  Fits(n, i)'
        BY DEF PartsFit
      <3>1. i \in Parts /\ Fits(n, i) /\ SegSize(n, i) \in Nat /\ SegSize(n, i) > 0
        BY SegmentsHaveParts, Ranges DEF WInv, PartsFit
      <3>2. part'[i] = part[i] \/ part'[i] = Missing
        BY <2>1, <3>1 DEF IInv, Types
      <3>3. CASE part'[i] = part[i]
        BY <3>1, <3>3 DEF Fits, PartLen
      <3>4. CASE part'[i] = Missing
        <4>1. PartLen(i)' = 0
          BY <3>4 DEF PartLen
        <4> QED
          BY <3>1, <4>1 DEF Fits
      <3> QED
        BY <3>2, <3>3, <3>4
    <2>3. Returned'
      BY <2>1 DEF WInv, Returned, NoneResumed, Segs
    <2> QED
      BY <2>1, <2>2, <2>3 DEF WInv, Cut, Cursors, Tasks, Failures, Skipped, Copied
  <1> QED
    BY <1>1, <1>2, <1>3, <1>4 DEF Call

LEMMA CrashKeepsWInv == ASSUME WInv, Crash PROVE WInv'
  <1>1. phase' = "Idle" /\ part' = part
    BY DEF Crash, disk
  <1>2. PartsFit'
    BY <1>1 DEF WInv, PartsFit, Fits, PartLen
  <1> QED
    BY <1>1, <1>2 DEF WInv, Cut, Cursors, Tasks, Failures, Skipped, Copied, Returned

LEMMA FlagsKeepWInv == ASSUME WInv, Pause \/ Resume \/ Cancel \/ UNCHANGED vars PROVE WInv'
  <1>1. UNCHANGED <<part, output, phase, segs, cursor, failed, taskPc, rangeStart, written>>
    BY DEF Pause, Resume, Cancel, vars, disk, tasks, call
  <1>2. /\ NoneResumed' <=> NoneResumed
        /\ Segs' = Segs /\ \A i : Prefixed(i)' <=> Prefixed(i)
        /\ \A n, i : Fits(n, i)' <=> Fits(n, i)
    BY <1>1 DEF NoneResumed, Segs, Prefixed, Fits, PartLen
  <1>3. Cut' /\ Cursors' /\ Tasks' /\ Failures' /\ PartsFit'
    BY <1>1, <1>2 DEF WInv, Cut, Cursors, Tasks, Failures, PartsFit
  <1>4. Skipped' /\ Copied' /\ Returned'
    BY <1>1, <1>2 DEF WInv, Skipped, Copied, Returned, PartLen
  <1> QED
    BY <1>3, <1>4 DEF WInv

\* download_segmented: whatever retries, pauses, cancels, failed calls and
\* crashes came before, a success that resumed no segment in its middle is the
\* whole file, every byte once and in order.
THEOREM SegmentsMakeWholeFile == Spec => []WholeUnlessResumed
  <1>1. IInv /\ WInv /\ [Next]_vars => WInv'
    BY BeginKeepsWInv, CallKeepsWInv, CrashKeepsWInv, SegmentKeepsWInv, FlagsKeepWInv DEF Next
  <1>2. WInv => WholeUnlessResumed
    BY DEF WInv, Returned, WholeUnlessResumed, OkMeansWholeFile
  <1> QED
    BY <1>1, <1>2, InitWInv, Always, PTL DEF Spec

-----------------------------------------------------------------------------
(* The single stream.                                                      *)

OneTypes ==
    /\ oneDownloaded \in Nat /\ oneSaved \in Nat /\ onePosition \in Nat
    /\ oneAligned \in BOOLEAN

\* A call that began where the file ended goes on where it ends: a count above
\* 0 says what the file holds, and so does any count once the file was opened.
OneResumable == oneAligned /\ onePc \in Single!Busy /\ oneDownloaded > 0 =>
                    oneFile = Single!First(oneDownloaded)

OneStreams ==
    oneAligned /\ onePc \in {"Stream", "Backoff"} =>
        /\ oneFile = Single!First(oneDownloaded) /\ oneDownloaded <= OneSize
        /\ onePc = "Stream" => onePosition = oneDownloaded

OneInv ==
    /\ OneTypes /\ OneResumable /\ OneStreams
    /\ Single!WholeIfAligned /\ Single!CancelRemovesFile

\* A beginning of the resource, a byte longer, and never a missing file.
LEMMA Beginnings ==
    /\ Single!First(0) = <<>>
    /\ \A n \in Nat :
          /\ Single!First(n) \in Seq(Int) /\ Len(Single!First(n)) = n /\ Single!First(n) # <<-1>>
          /\ Append(Single!First(n), n) = Single!First(n + 1)
  <1>1. Single!First(0) = <<>>
    BY DEF Single!First
  <1>2. ASSUME NEW n \in Nat
        PROVE  /\ Single!First(n) \in Seq(Int) /\ Len(Single!First(n)) = n /\ Single!First(n) # <<-1>>
               /\ Append(Single!First(n), n) = Single!First(n + 1)
    <2>1. Single!First(n) \in Seq(Int) /\ Len(Single!First(n)) = n /\ DOMAIN Single!First(n) = 1 .. n
      BY DEF Single!First
    <2>2. Single!First(n) # <<-1>>
      <3> SUFFICES ASSUME Single!First(n) = <<-1>> PROVE FALSE
        OBVIOUS
      <3>1. n = 1 /\ Single!First(n)[1] = -1
        BY <2>1
      <3> QED
        BY <3>1 DEF Single!First
    <2>3. Append(Single!First(n), n) = Single!First(n + 1)
      <3>1. /\ Append(Single!First(n), n) \in Seq(Int) /\ Len(Append(Single!First(n), n)) = n + 1
            /\ Single!First(n + 1) \in Seq(Int) /\ Len(Single!First(n + 1)) = n + 1
        BY <2>1 DEF Single!First
      <3>2. ASSUME NEW k \in 1 .. n + 1 PROVE Append(Single!First(n), n)[k] = Single!First(n + 1)[k]
        BY <2>1 DEF Single!First
      <3> QED
        BY <3>1, <3>2
    <2> QED
      BY <2>1, <2>2, <2>3
  <1> QED
    BY <1>1, <1>2

LEMMA OneInit == Single!Init => OneInv
  BY DEF Single!Init, OneInv, OneTypes, OneResumable, OneStreams, Single!Busy, Single!Waiting,
         Single!WholeIfAligned, Single!OkMeansWholeFile, Single!CancelRemovesFile

LEMMA OneStep == ASSUME OneInv, Single!Next PROVE OneInv'
  <1> USE DEF OneInv, Single!Missing, Single!WholeIfAligned, Single!OkMeansWholeFile,
              Single!CancelRemovesFile, Single!Busy, Single!Waiting
  <1>0. OneSize \in Nat \ {0}
    BY SingleAssumption DEF Single!SingleStreamAssumption
  <1>1. ASSUME NEW offset \in 0 .. oneSaved, Single!DownloadWithOffset(offset) PROVE OneInv'
    <2>1. /\ onePc' = "Request" /\ oneFile' = oneFile /\ onePosition' = onePosition
          /\ oneDownloaded' = offset /\ oneSaved' = offset
          /\ oneAligned' = (offset = 0 \/ oneFile = Single!First(offset))
      BY <1>1 DEF Single!DownloadWithOffset
    <2>2. offset \in Nat /\ oneSaved \in Nat /\ onePosition \in Nat
      BY DEF OneTypes
    <2>3. OneTypes' /\ onePc' # "Ok" /\ onePc' # "Cancelled"
      BY <2>1, <2>2 DEF OneTypes
    <2>4. OneResumable'
      <3> SUFFICES ASSUME oneAligned', oneDownloaded' > 0
                   PROVE  oneFile' = Single!First(offset)
        BY <2>1 DEF OneResumable
      <3>1. oneDownloaded' = offset /\ offset # 0
        BY <2>1, <2>2
      <3>2. offset = 0 \/ oneFile = Single!First(offset)
        BY <2>1, Zenon
      <3> QED
        BY <2>1, <3>1, <3>2
    <2>5. OneStreams'
      BY <2>1 DEF OneStreams
    <2> QED
      BY <2>3, <2>4, <2>5
  <1>2. CASE Single!RequestFails
    BY <1>2 DEF Single!RequestFails, Single!Return, Single!GoTo, OneTypes, OneResumable, OneStreams
  <1>3. CASE Single!RateLimited
    <2>1. /\ onePc = "Request" /\ onePc' \in {"Failed", "Backoff429"}
          /\ UNCHANGED <<oneFile, oneDownloaded, onePosition, oneSaved, oneAligned, oneUnremoved>>
      BY <1>3 DEF Single!RateLimited, Single!GoTo
    <2> QED
      BY <2>1 DEF OneTypes, OneResumable, OneStreams
  <1>4. CASE Single!RequestSucceeds
    <2>1. /\ onePc = "Request" /\ oneDownloaded < OneSize /\ onePosition' = oneDownloaded
          /\ onePc' \in {"Failed", "Stream"}
          /\ oneFile' = IF oneDownloaded > 0 THEN oneFile ELSE <<>>
          /\ UNCHANGED <<oneDownloaded, oneSaved, oneAligned, oneUnremoved>>
      BY <1>4 DEF Single!RequestSucceeds
    <2>2. oneDownloaded = 0 => oneFile' = Single!First(0)
      BY <2>1, Beginnings
    <2>3. oneAligned => oneFile' = Single!First(oneDownloaded)
      BY <2>1, <2>2 DEF OneTypes, OneResumable
    <2> QED
      BY <1>0, <2>1, <2>3 DEF OneTypes, OneResumable, OneStreams
  <1>5. CASE Single!SeeCancel
    <2>1. /\ onePc' = "Cancelled" /\ (oneFile' = Single!Missing \/ oneUnremoved' = TRUE)
          /\ UNCHANGED <<oneDownloaded, onePosition, oneSaved, oneAligned>>
      BY <1>5 DEF Single!SeeCancel, Single!RemoveFile, Single!GoTo
    <2> QED
      BY <2>1 DEF OneTypes, OneResumable, OneStreams
  <1>6. CASE Single!WriteChunk
    <2>1. /\ onePc = "Stream" /\ onePosition < OneSize
          /\ oneFile' = Append(oneFile, onePosition)
          /\ onePosition' = onePosition + 1 /\ oneDownloaded' = oneDownloaded + 1
          /\ UNCHANGED <<onePc, oneSaved, oneAligned, oneUnremoved>>
      BY <1>6 DEF Single!WriteChunk, Single!NextItem
    <2>2. OneTypes'
      BY <2>1 DEF OneTypes
    <2>3. CASE ~oneAligned
      BY <2>1, <2>2, <2>3 DEF OneResumable, OneStreams
    <2>4. CASE oneAligned
      <3>1. oneFile = Single!First(oneDownloaded) /\ onePosition = oneDownloaded /\ oneDownloaded \in Nat
        BY <2>1, <2>4 DEF OneStreams, OneTypes
      <3>2. Append(Single!First(oneDownloaded), oneDownloaded) = Single!First(oneDownloaded + 1)
        BY <3>1, Beginnings
      <3>3. oneFile' = Single!First(oneDownloaded') /\ oneDownloaded' <= OneSize
        BY <1>0, <2>1, <3>1, <3>2
      <3> QED
        BY <2>1, <2>2, <3>1, <3>3 DEF OneResumable, OneStreams
    <2> QED
      BY <2>3, <2>4 DEF OneTypes
  <1>7. CASE Single!WriteFails
    <2>1. /\ onePc' = "Failed"
          /\ UNCHANGED <<oneDownloaded, onePosition, oneSaved, oneAligned>>
      BY <1>7 DEF Single!WriteFails, Single!Return, Single!GoTo
    <2> QED
      BY <2>1 DEF OneTypes, OneResumable, OneStreams
  <1>8. CASE Single!StreamEnds
    <2>1. /\ onePc = "Stream" /\ onePosition = OneSize /\ onePc' = "Ok"
          /\ UNCHANGED <<oneFile, oneDownloaded, onePosition, oneSaved, oneAligned>>
      BY <1>8 DEF Single!StreamEnds, Single!Return, Single!GoTo
    <2>2. oneAligned => (oneFile = Single!WholeFile)'
      BY <2>1 DEF OneStreams, Single!WholeFile
    <2> QED
      BY <2>1, <2>2 DEF OneTypes, OneResumable, OneStreams
  <1>9. CASE Single!StreamBreaks
    <2>1. /\ onePc = "Stream" /\ onePc' \in {"Failed", "Backoff"}
          /\ UNCHANGED <<oneFile, oneDownloaded, onePosition, oneSaved, oneAligned, oneUnremoved>>
      BY <1>9 DEF Single!StreamBreaks, Single!NextItem, Single!GoTo
    <2> QED
      BY <2>1 DEF OneTypes, OneResumable, OneStreams
  <1>10. CASE Single!BackoffEnds
    BY <1>10 DEF Single!BackoffEnds, Single!Return, Single!GoTo, OneTypes, OneResumable, OneStreams
  <1>11. CASE Single!BackoffCancelled
    <2>1. /\ onePc' \in {"Cancelled", "Cancelled429"}
          /\ onePc' = "Cancelled" => (oneFile' = Single!Missing \/ oneUnremoved' = TRUE)
          /\ UNCHANGED <<oneDownloaded, onePosition, oneSaved, oneAligned>>
      BY <1>11 DEF Single!BackoffCancelled, Single!RemoveFile, Single!GoTo
    <2> QED
      BY <2>1 DEF OneTypes, OneResumable, OneStreams
  <1>12. CASE Single!Crash
    <2>1. onePc' = "Idle" /\ oneDownloaded' = 0 /\ UNCHANGED <<onePosition, oneSaved, oneAligned>>
      BY <1>12 DEF Single!Crash
    <2> QED
      BY <2>1 DEF OneTypes, OneResumable, OneStreams
  <1>13. CASE Single!SaveProgress
    BY <1>13 DEF Single!SaveProgress, OneTypes, OneResumable, OneStreams
  <1>14. CASE Single!Pause \/ Single!Resume \/ Single!Cancel
    BY <1>14 DEF Single!Pause, Single!Resume, Single!Cancel, OneTypes, OneResumable, OneStreams
  <1> QED
    BY <1>1, <1>2, <1>3, <1>4, <1>5, <1>6, <1>7, <1>8, <1>9, <1>10, <1>11, <1>12, <1>13, <1>14
       DEF Single!Next, Single!Transfer

LEMMA OneStutter == ASSUME OneInv, UNCHANGED one PROVE OneInv'
  BY DEF one, OneInv, OneTypes, OneResumable, OneStreams, Single!WholeIfAligned,
         Single!OkMeansWholeFile, Single!CancelRemovesFile

-----------------------------------------------------------------------------
(* HLS.                                                                    *)

\* The first n segments of the playlist.
FirstSegments(n) == [k \in 1 .. n |-> k]

\* While the call goes over the playlist the file is what it has got so far.
HlsInv ==
    /\ hlsPc \in {"Turn", "Fetch"} =>
          /\ Len(hlsFile) \in Nat /\ Len(hlsFile) < HlsSegments
          /\ hlsFile = FirstSegments(Len(hlsFile))
    /\ Hls!OkMeansWholeFile /\ Hls!CancelRemovesFile

LEMMA NextSegment ==
    /\ FirstSegments(0) = <<>>
    /\ \A n \in Nat : Append(FirstSegments(n), n + 1) = FirstSegments(n + 1)
                     /\ Len(FirstSegments(n + 1)) = n + 1
  <1>1. FirstSegments(0) = <<>>
    BY DEF FirstSegments
  <1>2. ASSUME NEW n \in Nat
        PROVE  /\ Append(FirstSegments(n), n + 1) = FirstSegments(n + 1)
               /\ Len(FirstSegments(n + 1)) = n + 1
    <2>1. FirstSegments(n) \in Seq(Int) /\ Len(FirstSegments(n)) = n
      BY DEF FirstSegments
    <2>2. /\ Append(FirstSegments(n), n + 1) \in Seq(Int)
          /\ Len(Append(FirstSegments(n), n + 1)) = n + 1
          /\ FirstSegments(n + 1) \in Seq(Int) /\ Len(FirstSegments(n + 1)) = n + 1
      BY <2>1 DEF FirstSegments
    <2>3. ASSUME NEW k \in 1 .. n + 1 PROVE Append(FirstSegments(n), n + 1)[k] = FirstSegments(n + 1)[k]
      BY <2>1 DEF FirstSegments
    <2> QED
      BY <2>2, <2>3
  <1> QED
    BY <1>1, <1>2

LEMMA HlsInit == Hls!Init => HlsInv
  BY DEF Hls!Init, HlsInv, Hls!OkMeansWholeFile, Hls!CancelRemovesFile

LEMMA HlsStep == ASSUME HlsInv, Hls!Next PROVE HlsInv'
  <1> USE DEF HlsInv, Hls!OkMeansWholeFile, Hls!CancelRemovesFile
  <1>0. HlsSegments \in Nat \ {0}
    BY HlsAssumption DEF Hls!HlsAssumption
  <1>1. CASE Hls!PlaylistArrives
    <2>1. hlsPc' = "Turn" /\ hlsFile' = <<>> /\ Len(<<>>) = 0
      BY <1>1 DEF Hls!PlaylistArrives, Hls!GoTo
    <2> QED
      BY <1>0, <2>1, NextSegment
  <1>2. CASE Hls!SegmentArrives
    <2> DEFINE n == Len(hlsFile)
    <2>1. /\ n \in Nat /\ n < HlsSegments /\ hlsFile = FirstSegments(n)
          /\ hlsFile' = Append(hlsFile, n + 1)
          /\ hlsPc' = IF Len(hlsFile') = HlsSegments THEN "Ok" ELSE "Turn"
      BY <1>2 DEF Hls!SegmentArrives, Hls!GoTo
    <2> HIDE DEF n
    <2>2. hlsFile' = FirstSegments(n + 1) /\ Len(hlsFile') = n + 1
      BY <2>1, NextSegment
    <2>3. CASE n + 1 = HlsSegments
      BY <2>1, <2>2, <2>3 DEF FirstSegments, Hls!WholeStream
    <2>4. CASE n + 1 # HlsSegments
      BY <1>0, <2>1, <2>2, <2>4
    <2> QED
      BY <2>3, <2>4
  <1>3. CASE Hls!SeeCancel
    <2>1. hlsPc' = "Cancelled" /\ (hlsFile' = Hls!Missing \/ hlsUnremoved' = TRUE)
      BY <1>3 DEF Hls!SeeCancel, Hls!GoTo
    <2> QED
      BY <2>1
  <1>4. CASE Hls!DownloadHls \/ Hls!PlaylistFails \/ Hls!BodyOrWriteFails
    BY <1>4 DEF Hls!DownloadHls, Hls!PlaylistFails, Hls!BodyOrWriteFails, Hls!GoTo
  <1>5. CASE Hls!BeginSegment \/ Hls!RequestFails
    BY <1>5 DEF Hls!BeginSegment, Hls!RequestFails, Hls!GoTo
  <1>6. CASE Hls!Pause \/ Hls!Resume \/ Hls!Cancel
    BY <1>6 DEF Hls!Pause, Hls!Resume, Hls!Cancel
  <1> QED
    BY <1>1, <1>2, <1>3, <1>4, <1>5, <1>6 DEF Hls!Next, Hls!Transfer

LEMMA HlsStutter == ASSUME HlsInv, UNCHANGED hls PROVE HlsInv'
  BY DEF hls, HlsInv, Hls!OkMeansWholeFile, Hls!CancelRemovesFile

-----------------------------------------------------------------------------
(* A download is given one of the engines.                                 *)

LEMMA StreamsAlways == TransfersSpec => [](OneInv /\ HlsInv)
  <1>1. TransfersInit => OneInv /\ HlsInv
    BY OneInit, HlsInit DEF TransfersInit
  <1>2. ASSUME OneInv, HlsInv, [TransfersNext]_transfers PROVE OneInv' /\ HlsInv'
    BY <1>2, OneStep, OneStutter, HlsStep, HlsStutter
       DEF TransfersNext, Segmented, SingleStream, HlsStream, transfers
  <1> QED
    BY <1>1, <1>2, PTL DEF TransfersSpec

\* The retry loop of engine.rs and the segment loop of hls_engine.rs: a transfer
\* that reports success leaves the whole file, if it began at 0 or at a count
\* of the row that agreed with the file.
THEOREM StreamsDeliverWholeFile == TransfersSpec => []SingleStreamWhole
  <1>1. OneInv /\ HlsInv => SingleStreamWhole
    BY DEF OneInv, HlsInv, SingleStreamWhole
  <1> QED
    BY <1>1, StreamsAlways, PTL

\* The count that the next Range request of such a call starts from is what the
\* file holds.
THEOREM CountResumes == TransfersSpec => []CountIsResumePoint
  <1>1. OneInv => CountIsResumePoint
    <2> SUFFICES ASSUME OneInv, oneAligned, onePc \in {"Stream", "Backoff"}
                 PROVE  /\ oneDownloaded = Single!FileLen
                        /\ Single!IsPrefix(oneFile, Single!WholeFile)
      BY DEF CountIsResumePoint, Single!CountIsResumePoint
    <2>1. /\ oneFile = Single!First(oneDownloaded) /\ oneDownloaded \in Nat
          /\ oneDownloaded <= OneSize /\ OneSize \in Nat
      BY SingleAssumption DEF OneInv, OneStreams, OneTypes, Single!SingleStreamAssumption
    <2>2. Len(oneFile) = oneDownloaded /\ oneFile # <<-1>> /\ oneFile \in Seq(Int)
      BY <2>1, Beginnings
    <2>3. Single!WholeFile = Single!First(OneSize) /\ Len(Single!First(OneSize)) = OneSize
      BY <2>1, Beginnings DEF Single!WholeFile
    <2>4. SubSeq(oneFile, 1, Len(oneFile)) = SubSeq(Single!WholeFile, 1, Len(oneFile))
      BY <2>1, <2>2, <2>3 DEF Single!First
    <2> QED
      BY <2>1, <2>2, <2>3, <2>4 DEF Single!FileLen, Single!Missing, Single!IsPrefix
  <1> QED
    BY <1>1, StreamsAlways, PTL

\* A cancel that was seen leaves no file, unless the removal failed; the wait for
\* a rate limit, which keeps the file, has an outcome of its own.
THEOREM CancelCleansUp == TransfersSpec => []CancelRemovesFile
  <1>1. OneInv /\ HlsInv => CancelRemovesFile
    BY DEF OneInv, HlsInv, CancelRemovesFile
  <1> QED
    BY <1>1, StreamsAlways, PTL

\* manager.rs gives a download one engine: each engine of the composition
\* behaves as its own specification says, so that what is proved of that alone,
\* as of the segmented engine above, holds of the composition.
THEOREM EnginesAsSpecified == TransfersSpec => Spec /\ Single!Spec /\ Hls!Spec
  <1>1. TransfersInit => Init /\ Single!Init /\ Hls!Init
    BY DEF TransfersInit
  <1>2. [TransfersNext]_transfers => [Next]_vars
    BY DEF TransfersNext, Segmented, SingleStream, HlsStream, transfers
  <1>3. [TransfersNext]_transfers => [Single!Next]_(Single!vars)
    BY DEF TransfersNext, Segmented, SingleStream, HlsStream, transfers, one, Single!vars,
       Single!counts, Single!flags
  <1>4. [TransfersNext]_transfers => [Hls!Next]_(Hls!vars)
    BY DEF TransfersNext, Segmented, SingleStream, HlsStream, transfers, hls, Hls!vars
  <1> QED
    BY <1>1, <1>2, <1>3, <1>4, PTL DEF TransfersSpec, Spec, Single!Spec, Hls!Spec
=============================================================================
