--------------------------- MODULE SegmentedEngine ---------------------------
(***************************************************************************)
(* The multi-segment transfer of native/src/download/segmented_engine.rs:  *)
(* split the file into byte ranges, fetch each range into its own .part    *)
(* file from a task of its own, join the tasks in order, concatenate the   *)
(* parts, remove them.  The content of a file is the sequence of source    *)
(* offsets written to it, so a whole file is <<0, 1, ..., FileSize - 1>>.  *)
(* The files are on disk: they outlive a failed call and a crash.  The     *)
(* server is external: it honours Range, as its Accept-Ranges promised.    *)
(***************************************************************************)
EXTENDS Integers, Sequences, FiniteSets, SequencesExt, FiniteSetsExt,
        SegmentRanges

CONSTANTS
    FileSize,      \* content_length; stands for a size of at least 1 MB
    Counts,        \* the segment counts the callers ask for, adaptively
    MaxRetries,    \* MAX_RETRIES of download_segment
    MaxAttempts,   \* bound: calls of download_segmented on the same path
    MaxPauses      \* bound: calls of pause

ASSUME SegmentedAssumption ==
    /\ FileSize \in Nat \ {0}
    /\ Counts \subseteq 2 .. 16 /\ Counts # {}
    /\ MaxRetries \in Nat
    /\ MaxAttempts \in Nat \ {0}
    /\ MaxPauses \in Nat

-----------------------------------------------------------------------------
(* compute_segments for n requested segments: the ranges of SegmentRanges.  *)

SegCount(n) == RangeCount(FileSize, n)
SegStart(n, i) == RangeStart(FileSize, SegCount(n), i)
SegEnd(n, i) == SegStart(n, i + 1) - 1
SegSize(n, i) == SegStart(n, i + 1) - SegStart(n, i)

Parts == 0 .. Max({SegCount(n) : n \in Counts}) - 1
Bytes(a, b) == [k \in 1 .. b - a + 1 |-> a + k - 1]
WholeFile == Bytes(0, FileSize - 1)

-----------------------------------------------------------------------------

Missing == <<-1>>   \* no such file; no content starts with a negative offset
Live == {"Request", "Stream", "Backoff"}
TaskPc == Live \union {"None", "Ok", "Err"}
Phase == {"Idle", "Joining", "Copying", "Removing", "Ok", "Err"}

VARIABLES
    part,       \* the .part file of each index
    output,     \* the file at the output path
    phase,      \* which loop of the call runs, or how it returned
    segs,       \* number of segments of the current call
    cursor,     \* index of the joining, copying or removing loop
    taskPc,     \* program point of each segment task
    rangeStart, \* its range_start argument
    written,    \* its bytes_written
    retries,    \* its retry_count
    failed,     \* any_error is Some
    cancelled,  \* is_cancelled
    paused,     \* is_paused
    counter,    \* downloaded_bytes, the aggregate of the segments
    attempts,   \* bounded counters
    pauses

disk == <<part, output>>
tasks == <<taskPc, rangeStart, written, retries>>
call == <<phase, segs, cursor, failed>>
flags == <<cancelled, paused, pauses>>
vars == <<disk, tasks, call, flags, counter, attempts>>

Segs == 0 .. segs - 1

Init ==
    /\ part = [i \in Parts |-> Missing]
    /\ output = Missing
    /\ phase = "Idle" /\ segs = 0 /\ cursor = 0 /\ failed = FALSE
    /\ taskPc = [i \in Parts |-> "None"]
    /\ rangeStart = [i \in Parts |-> 0]
    /\ written = [i \in Parts |-> 0]
    /\ retries = [i \in Parts |-> 0]
    /\ cancelled = FALSE /\ paused = FALSE /\ pauses = 0
    /\ counter = 0
    /\ attempts = 0

-----------------------------------------------------------------------------
(* The call.                                                               *)

PartLen(i) == IF part[i] = Missing THEN 0 ELSE Len(part[i])

\* Where a segment of size s resumes: the length of its part, at most s.
Offset(n, i) == Min({PartLen(i), SegSize(n, i)})

\* A count that forgets what earlier calls left on disk.
InitialDownloadedZero(n) == 0

\* What the code stores in downloaded_bytes before it spawns the tasks.
InitialDownloaded(n) == MapThenSumSet(LAMBDA i : Offset(n, i), 0 .. SegCount(n) - 1)

\* HEAD succeeded with Accept-Ranges.  A segment whose part is complete gets no
\* task; any other starts at seg.start + offset and, in append mode, reads the
\* length of its part again as bytes_written.
Begin(n) ==
    LET todo == {i \in 0 .. SegCount(n) - 1 : Offset(n, i) < SegSize(n, i)}
    IN /\ phase \in {"Idle", "Err"}
       /\ attempts < MaxAttempts
       /\ attempts' = attempts + 1
       /\ phase' = "Joining" /\ segs' = SegCount(n) /\ cursor' = 0 /\ failed' = FALSE
       /\ cancelled' = FALSE /\ paused' = FALSE
       /\ counter' = InitialDownloaded(n)
       /\ taskPc' = [i \in Parts |-> IF i \in todo THEN "Request" ELSE "None"]
       /\ rangeStart' = [i \in Parts |->
                           IF i \in todo THEN SegStart(n, i) + Offset(n, i) ELSE 0]
       /\ written' = [i \in Parts |-> IF i \in todo THEN PartLen(i) ELSE 0]
       /\ retries' = [i \in Parts |-> 0]
       /\ UNCHANGED <<disk, pauses>>

\* The error of a task is not kept.
JoinForgettingError ==
    /\ phase = "Joining" /\ cursor < segs
    /\ taskPc[cursor] \notin Live
    /\ cursor' = cursor + 1
    /\ cancelled' = (cancelled \/ taskPc[cursor] = "Err")
    /\ UNCHANGED <<disk, tasks, phase, segs, failed, paused, pauses, counter, attempts>>

\* The next handle is awaited; an error cancels the segments still running.
Join ==
    /\ phase = "Joining" /\ cursor < segs
    /\ taskPc[cursor] \notin Live
    /\ cursor' = cursor + 1
    /\ failed' = (failed \/ taskPc[cursor] = "Err")
    /\ cancelled' = (cancelled \/ taskPc[cursor] = "Err")
    /\ UNCHANGED <<disk, tasks, phase, segs, paused, pauses, counter, attempts>>

\* The call returns on the first error, as `handle.await??` would.
JoinedEarly ==
    /\ phase = "Joining" /\ (cursor = segs \/ failed)
    /\ IF failed
       THEN phase' = "Err" /\ UNCHANGED <<output, cursor>>
       ELSE phase' = "Copying" /\ cursor' = 0 /\ output' = <<>>
    /\ UNCHANGED <<part, tasks, segs, failed, flags, counter, attempts>>

\* All handles joined: return the error, or create the output file.
Joined ==
    /\ phase = "Joining" /\ cursor = segs
    /\ IF failed
       THEN phase' = "Err" /\ UNCHANGED <<output, cursor>>
       ELSE phase' = "Copying" /\ cursor' = 0 /\ output' = <<>>
    /\ UNCHANGED <<part, tasks, segs, failed, flags, counter, attempts>>

\* concatenate_segments: an I/O error leaves a short output and every part.
Copy ==
    /\ phase = "Copying"
    /\ \/ /\ cursor < segs /\ part[cursor] # Missing
          /\ output' = output \o part[cursor]
          /\ cursor' = cursor + 1
          /\ UNCHANGED phase
       \/ /\ cursor = segs
          /\ phase' = "Removing" /\ cursor' = 0
          /\ UNCHANGED output
       \/ /\ phase' = "Err" /\ UNCHANGED <<output, cursor>>
    /\ UNCHANGED <<part, tasks, segs, failed, flags, counter, attempts>>

\* A part that cannot be removed stays: remove_file(&part).await.ok().
RemovePart ==
    /\ phase = "Removing"
    /\ IF cursor < segs
       THEN /\ part' \in {part, [part EXCEPT ![cursor] = Missing]}
            /\ cursor' = cursor + 1 /\ UNCHANGED phase
       ELSE phase' = "Ok" /\ UNCHANGED <<part, cursor>>
    /\ UNCHANGED <<output, tasks, segs, failed, flags, counter, attempts>>

\* The application dies with the call: the next one is in a new process.
Crash ==
    /\ phase \in {"Joining", "Copying", "Removing"}
    /\ phase' = "Idle" /\ segs' = 0 /\ cursor' = 0 /\ failed' = FALSE
    /\ cancelled' = FALSE /\ paused' = FALSE
    /\ counter' = 0
    /\ taskPc' = [i \in Parts |-> "None"]
    /\ rangeStart' = [i \in Parts |-> 0]
    /\ written' = [i \in Parts |-> 0]
    /\ retries' = [i \in Parts |-> 0]
    /\ UNCHANGED <<disk, attempts, pauses>>

-----------------------------------------------------------------------------
(* download_segment, for segment i.                                        *)

Position(i) == rangeStart[i] + written[i]
RangeEnd(i) == SegEnd(segs, i)

Finish(i, result) ==
    /\ taskPc' = [taskPc EXCEPT ![i] = result]
    /\ UNCHANGED <<disk, rangeStart, written, retries, call, flags, counter, attempts>>

\* The part is created again on every request.
RequestRangeTruncating(i) ==
    /\ taskPc[i] = "Request"
    /\ \/ Position(i) > RangeEnd(i) /\ Finish(i, "Ok")
       \/ /\ Position(i) <= RangeEnd(i)
          /\ taskPc' = [taskPc EXCEPT ![i] = "Stream"]
          /\ part' = [part EXCEPT ![i] = <<>>]
          /\ UNCHANGED <<output, rangeStart, written, retries, call, flags, counter, attempts>>

\* The range is re-computed; nothing left is a success, a refused request an
\* error without a retry.  The part is opened for append once it has bytes.
RequestRange(i) ==
    /\ taskPc[i] = "Request"
    /\ \/ Position(i) > RangeEnd(i) /\ Finish(i, "Ok")
       \/ Position(i) <= RangeEnd(i) /\ Finish(i, "Err")
       \/ /\ Position(i) <= RangeEnd(i)
          /\ taskPc' = [taskPc EXCEPT ![i] = "Stream"]
          /\ part' = IF written[i] > 0 THEN part ELSE [part EXCEPT ![i] = <<>>]
          /\ UNCHANGED <<output, rangeStart, written, retries, call, flags, counter, attempts>>

\* An item of the stream meets the cancel flag, also while paused.
SeeCancel(i) ==
    /\ taskPc[i] = "Stream" /\ cancelled
    /\ Position(i) <= RangeEnd(i)
    /\ Finish(i, "Err")

WriteChunk(i) ==
    /\ taskPc[i] = "Stream" /\ ~cancelled /\ ~paused
    /\ Position(i) <= RangeEnd(i)
    /\ part' = [part EXCEPT ![i] = Append(@, Position(i))]
    /\ written' = [written EXCEPT ![i] = @ + 1]
    /\ counter' = counter + 1
    /\ UNCHANGED <<output, taskPc, rangeStart, retries, call, flags, attempts>>

\* The stream ends: no check of the flags, no check of the length.
StreamEnds(i) ==
    /\ taskPc[i] = "Stream" /\ Position(i) > RangeEnd(i)
    /\ Finish(i, "Ok")

\* One retry too many.
StreamBreaksLate(i) ==
    /\ taskPc[i] = "Stream" /\ ~cancelled /\ ~paused
    /\ Position(i) <= RangeEnd(i)
    /\ retries' = [retries EXCEPT ![i] = @ + 1]
    /\ taskPc' = [taskPc EXCEPT ![i] = IF retries[i] > MaxRetries THEN "Err" ELSE "Backoff"]
    /\ UNCHANGED <<disk, rangeStart, written, call, flags, counter, attempts>>

\* The retries are not counted.
StreamBreaksUncounted(i) ==
    /\ taskPc[i] = "Stream" /\ ~cancelled /\ ~paused
    /\ Position(i) <= RangeEnd(i)
    /\ retries' = retries
    /\ taskPc' = [taskPc EXCEPT ![i] = IF retries[i] + 1 > MaxRetries THEN "Err" ELSE "Backoff"]
    /\ UNCHANGED <<disk, rangeStart, written, call, flags, counter, attempts>>

StreamBreaks(i) ==
    /\ taskPc[i] = "Stream" /\ ~cancelled /\ ~paused
    /\ Position(i) <= RangeEnd(i)
    /\ retries' = [retries EXCEPT ![i] = @ + 1]
    /\ taskPc' = [taskPc EXCEPT ![i] = IF retries[i] + 1 > MaxRetries THEN "Err" ELSE "Backoff"]
    /\ UNCHANGED <<disk, rangeStart, written, call, flags, counter, attempts>>

BackoffEnds(i) ==
    /\ taskPc[i] = "Backoff"
    /\ \/ cancelled /\ Finish(i, "Err")
       \/ Finish(i, "Request")

Segment(i) ==
    \/ RequestRange(i) \/ SeeCancel(i) \/ WriteChunk(i)
    \/ StreamEnds(i) \/ StreamBreaks(i) \/ BackoffEnds(i)

-----------------------------------------------------------------------------
(* pause, resume and cancel only set flags, whatever the engine is doing.  *)

Pause ==
    /\ phase = "Joining" /\ ~paused /\ pauses < MaxPauses
    /\ paused' = TRUE /\ pauses' = pauses + 1
    /\ UNCHANGED <<disk, tasks, call, cancelled, counter, attempts>>

Resume ==
    /\ paused /\ paused' = FALSE
    /\ UNCHANGED <<disk, tasks, call, cancelled, pauses, counter, attempts>>

Cancel ==
    /\ phase = "Joining" /\ ~cancelled
    /\ cancelled' = TRUE
    /\ UNCHANGED <<disk, tasks, call, paused, pauses, counter, attempts>>

Call == Join \/ Joined \/ Copy \/ RemovePart

Next ==
    \/ \E n \in Counts : Begin(n)
    \/ Call \/ Crash
    \/ \E i \in Parts : Segment(i)
    \/ Pause \/ Resume \/ Cancel

Spec == Init /\ [][Next]_vars

\* The runtime polls the call and every task; the connection eventually
\* delivers or breaks.  Nobody has to resume a paused transfer.
FairSpec ==
    /\ Spec
    /\ WF_vars(Call)
    /\ \A i \in Parts : WF_vars(Segment(i))

-----------------------------------------------------------------------------

TypeOK ==
    /\ \A i \in Parts : part[i] = Missing \/ part[i] \in BoundedSeq(0 .. FileSize - 1, FileSize)
    /\ output = Missing \/ output \in Seq(0 .. FileSize - 1)
    /\ phase \in Phase /\ segs \in 0 .. Cardinality(Parts) /\ cursor \in 0 .. segs
    /\ taskPc \in [Parts -> TaskPc]
    /\ retries \in [Parts -> 0 .. MaxRetries + 1]
    /\ counter \in 0 .. FileSize
    /\ {failed, cancelled, paused} \subseteq BOOLEAN

\* A call that reports success leaves the whole file.
OkMeansWholeFile == phase = "Ok" => output = WholeFile

\* Every call on the path cuts the file the same way.
OneCount == \A m, n \in Counts : SegCount(m) = SegCount(n)

\* Every segment of the call began at its start, or was skipped because its
\* part, cut the same way, was complete.
NoneResumed ==
    \A i \in Segs :
        IF taskPc[i] = "None" THEN OneCount ELSE rangeStart[i] = SegStart(segs, i)

\* A call that reports success leaves the whole file, every byte once and in
\* order, whatever tasks, retries, pauses, cancels and earlier crashes did, as
\* long as it resumed no segment in its middle.
WholeUnlessResumed == NoneResumed => OkMeansWholeFile

\* Once the call is past its joins or has returned, no segment task is left
\* that could still write to a .part file.
NoWriterAfterJoin ==
    phase # "Joining" => \A i \in Parts : taskPc[i] \notin Live

\* The progress the aggregate shows is what the .part files hold.
CounterMatchesDisk ==
    phase = "Joining" => counter = MapThenSumSet(PartLen, Segs)

\* Bytes delivered to disk are not thrown away before they are in the output:
\* a retry, a failed call, a crash or a new call keeps what the parts hold.
DeliveredBytesKept ==
    [][phase # "Removing" => \A i \in Parts : PartLen(i)' >= PartLen(i)]_vars

\* A cancelled transfer ends even if it is paused and nobody resumes it.
CancelEndsTransfer == (phase = "Joining" /\ cancelled) ~> (phase # "Joining")

\* Every call returns, whichever segments fail, unless a pause lasts for ever.
EveryCallReturns ==
    []<>(~paused) =>
        (phase \in {"Joining", "Copying", "Removing"} ~> phase \in {"Idle", "Ok", "Err"})
=============================================================================
