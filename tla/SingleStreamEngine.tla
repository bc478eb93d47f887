------------------------- MODULE SingleStreamEngine -------------------------
(***************************************************************************)
(* The single-stream transfer of native/src/download/engine.rs: one GET,   *)
(* re-sent with a Range header from the byte count reached when the stream *)
(* breaks, and again after a 429.  The content of the file is the sequence *)
(* of source offsets written to it.  The server is external; RangeServer   *)
(* says whether it answers a Range request with that range or, as HTTP     *)
(* allows, with 200 and the whole body.  A byte stands for a chunk of the  *)
(* body.  The file and the row of the download outlive a call and a crash; *)
(* the count of the engine does not, and the row only follows it at times. *)
(***************************************************************************)
EXTENDS Integers, Sequences, SequencesExt

CONSTANTS
    FileSize,     \* length of the resource
    RangeServer,  \* the server honours Range
    MaxRetries,   \* MAX_STREAM_RETRIES
    Max429,       \* MAX_429_RETRIES
    MaxCalls,     \* bound: calls of download_with_offset on the same path
    MaxPauses     \* bound: calls of pause

SingleStreamAssumption ==
    /\ FileSize \in Nat \ {0}
    /\ RangeServer \in BOOLEAN
    /\ {MaxRetries, Max429, MaxCalls, MaxPauses} \subseteq Nat

\* The first n bytes of the resource.
First(n) == [k \in 1 .. n |-> k - 1]
WholeFile == First(FileSize)
Missing == <<-1>>

Waiting == {"Backoff", "Backoff429"}
Busy == {"Request", "Stream"} \union Waiting
Outcome == {"Idle", "Ok", "Failed", "Cancelled", "Cancelled429"}

VARIABLES
    file,        \* content at the output path, with the write in flight
    inFlight,    \* its last chunk was handed over, and not flushed yet
    pc,          \* program point of the call, or its outcome
    downloaded,  \* downloaded_bytes
    position,    \* source offset of the next byte of the response body
    retries,     \* stream_retry_count
    retries429,  \* retry_429_count
    cancelled, paused,
    calls, pauses,
    saved,       \* downloadedBytes of the row, what the next call resumes from
    aligned,     \* history: the call began at 0 or where the file ended
    unremoved    \* history: the removal of the file failed in this call

counts == <<retries, retries429>>
flags == <<cancelled, paused>>
vars == <<file, inFlight, pc, downloaded, position, counts, flags, calls, pauses,
          saved, aligned, unremoved>>

FileLen == IF file = Missing THEN 0 ELSE Len(file)

Init ==
    /\ file = Missing /\ inFlight = FALSE
    /\ pc = "Idle" /\ downloaded = 0 /\ position = 0
    /\ retries = 0 /\ retries429 = 0
    /\ cancelled = FALSE /\ paused = FALSE /\ calls = 0 /\ pauses = 0
    /\ saved = 0 /\ aligned = TRUE /\ unremoved = FALSE

-----------------------------------------------------------------------------

\* startDownload passes what the row says, which is 0 for a new download and
\* for one that was found stale when the application started.  The engine does
\* not compare it with the file, which may be longer, shorter or gone.
DownloadWithOffset(offset) ==
    /\ pc \notin Busy \union {"Ok"} /\ calls < MaxCalls
    /\ offset \in {0, saved}
    /\ pc' = "Request"
    /\ downloaded' = offset /\ saved' = offset
    /\ aligned' = (offset = 0 \/ file = First(offset))
    /\ retries' = 0 /\ retries429' = 0
    /\ cancelled' = FALSE /\ paused' = FALSE /\ unremoved' = FALSE
    /\ calls' = calls + 1
    /\ UNCHANGED <<file, inFlight, position, pauses>>

\* _pollNativeProgress writes the count to the row at most every 250 ms, and
\* not when the call fails or is cancelled.
SaveProgress ==
    /\ pc \in Busy /\ saved' = downloaded
    /\ UNCHANGED <<file, inFlight, pc, downloaded, position, counts, flags, calls,
                   pauses, aligned, unremoved>>

\* The call goes on or returns with nothing else changed but the file.
GoTo(point) ==
    /\ pc' = point /\ inFlight' = FALSE
    /\ UNCHANGED <<downloaded, position, flags, calls, pauses, saved, aligned>>

Return(outcome) == GoTo(outcome) /\ UNCHANGED <<counts, unremoved>>

\* No response, 403, 404, 410 or another error status; 416 past the end; the
\* file cannot be created or opened.
RequestFails ==
    /\ pc = "Request"
    /\ Return("Failed") /\ UNCHANGED file

RateLimited ==
    /\ pc = "Request"
    /\ retries429' = retries429 + 1
    /\ GoTo(IF retries429 + 1 > Max429 THEN "Failed" ELSE "Backoff429")
    /\ UNCHANGED <<file, retries, unremoved>>

\* The file is created on every request.
RequestSucceedsTruncating ==
    /\ pc = "Request"
    /\ RangeServer => downloaded < FileSize
    /\ position' = IF RangeServer THEN downloaded ELSE 0
    /\ file' = <<>>
    /\ pc' = IF downloaded > 0 /\ file = Missing THEN "Failed" ELSE "Stream"
    /\ UNCHANGED <<inFlight, downloaded, counts, flags, calls, pauses, saved,
                   aligned, unremoved>>

\* 206 or 200: both are a success.  A count above 0 opens the file for append,
\* which fails if there is none; 0 creates it.
RequestSucceeds ==
    /\ pc = "Request"
    /\ RangeServer => downloaded < FileSize
    /\ position' = IF RangeServer THEN downloaded ELSE 0
    /\ file' = IF downloaded > 0 THEN file ELSE <<>>
    /\ pc' = IF downloaded > 0 /\ file = Missing THEN "Failed" ELSE "Stream"
    /\ UNCHANGED <<inFlight, downloaded, counts, flags, calls, pauses, saved,
                   aligned, unremoved>>

\* remove_file(path).await.ok(): a failed removal is not reported.
RemoveFile ==
    \/ file' = Missing /\ UNCHANGED unremoved
    \/ UNCHANGED file /\ unremoved' = TRUE

\* The wait for the pause flag does not look at the cancel flag.
MeetsCancelUnlessPaused == pc = "Stream" /\ cancelled /\ ~paused /\ position < FileSize

\* The next item of the stream meets the cancel flag, also while paused.
MeetsCancel == pc = "Stream" /\ cancelled /\ position < FileSize

\* What was written is flushed and the file removed.
SeeCancel ==
    /\ MeetsCancel /\ RemoveFile
    /\ GoTo("Cancelled") /\ UNCHANGED counts

\* The next item of the stream is looked at.
NextItem == pc = "Stream" /\ ~cancelled /\ ~paused /\ position < FileSize

\* The count is not kept up while streaming.
WriteChunkUncounted ==
    /\ NextItem
    /\ file' = Append(file, position) /\ inFlight' = TRUE
    /\ position' = position + 1
    /\ UNCHANGED <<pc, downloaded, counts, flags, calls, pauses, saved, aligned, unremoved>>

\* write_all hands the chunk to a background write once the one before it is done.
WriteChunk ==
    /\ NextItem
    /\ file' = Append(file, position) /\ inFlight' = TRUE
    /\ position' = position + 1
    /\ downloaded' = downloaded + 1
    /\ UNCHANGED <<pc, counts, flags, calls, pauses, saved, aligned, unremoved>>

\* write_all or one of the flushes fails, that of a cancel before the removal:
\* the chunk in flight was counted and may be missing, the next one was not
\* counted and may be there.
WriteFails ==
    /\ pc = "Stream" /\ (MeetsCancel \/ NextItem \/ position = FileSize)
    /\ \/ UNCHANGED file
       \/ inFlight /\ file' = Front(file)
       \/ NextItem /\ file' = Append(file, position)
    /\ Return("Failed")

\* The body ends and is flushed: success, whatever the flags and the count.
StreamEnds ==
    /\ pc = "Stream" /\ position = FileSize
    /\ Return("Ok") /\ UNCHANGED file

\* One retry too many.
StreamBreaksLate ==
    /\ NextItem
    /\ retries' = retries + 1
    /\ GoTo(IF retries > MaxRetries THEN "Failed" ELSE "Backoff")
    /\ UNCHANGED <<file, retries429, unremoved>>

\* The 300 s limit of the client, or the connection, breaks the stream.
StreamBreaks ==
    /\ NextItem
    /\ retries' = retries + 1
    /\ GoTo(IF retries + 1 > MaxRetries THEN "Failed" ELSE "Backoff")
    /\ UNCHANGED <<file, retries429, unremoved>>

BackoffEnds ==
    /\ pc \in Waiting
    /\ Return("Request") /\ UNCHANGED file

\* No wait removes the file.
BackoffCancelledKeeping ==
    /\ pc \in Waiting /\ cancelled
    /\ UNCHANGED <<file, unremoved>>
    /\ GoTo(IF pc = "Backoff" THEN "Cancelled" ELSE "Cancelled429") /\ UNCHANGED counts

\* The wait after a broken stream removes the file, the one for a rate limit
\* does not.
BackoffCancelled ==
    /\ cancelled /\ UNCHANGED counts
    /\ \/ pc = "Backoff" /\ RemoveFile /\ GoTo("Cancelled")
       \/ pc = "Backoff429" /\ UNCHANGED <<file, unremoved>> /\ GoTo("Cancelled429")

Transfer ==
    \/ RequestFails \/ RateLimited \/ RequestSucceeds
    \/ SeeCancel \/ WriteChunk \/ WriteFails \/ StreamEnds \/ StreamBreaks
    \/ BackoffEnds \/ BackoffCancelled

\* The process is killed.  A flush hands over to the operating system and does
\* not sync, so any end of the file may be lost; the row stays as it was.
Crash ==
    /\ pc \in Busy
    /\ file' \in IF file = Missing THEN {file}
                 ELSE {SubSeq(file, 1, n) : n \in 0 .. Len(file)}
    /\ pc' = "Idle" /\ inFlight' = FALSE /\ downloaded' = 0
    /\ UNCHANGED <<position, counts, flags, calls, pauses, saved, aligned, unremoved>>

-----------------------------------------------------------------------------

Pause ==
    /\ pc \in Busy /\ ~paused /\ pauses < MaxPauses
    /\ paused' = TRUE /\ pauses' = pauses + 1
    /\ UNCHANGED <<file, inFlight, pc, downloaded, position, counts, cancelled, calls,
                   saved, aligned, unremoved>>

Resume ==
    /\ paused /\ paused' = FALSE
    /\ UNCHANGED <<file, inFlight, pc, downloaded, position, counts, cancelled, calls,
                   pauses, saved, aligned, unremoved>>

Cancel ==
    /\ pc \in Busy /\ ~cancelled
    /\ cancelled' = TRUE
    /\ UNCHANGED <<file, inFlight, pc, downloaded, position, counts, paused, calls,
                   pauses, saved, aligned, unremoved>>

Next ==
    \/ \E offset \in 0 .. saved : DownloadWithOffset(offset)
    \/ Transfer \/ SaveProgress \/ Crash
    \/ Pause \/ Resume \/ Cancel

Spec == Init /\ [][Next]_vars

\* The task of the call is polled, and the connection delivers or breaks
\* within the 300 s limit of the client.
FairSpec == Spec /\ WF_vars(Transfer)

-----------------------------------------------------------------------------

TypeOK ==
    /\ file = Missing \/ file \in Seq(0 .. FileSize - 1)
    /\ pc \in Busy \union Outcome
    /\ {downloaded, saved} \subseteq Nat /\ position \in 0 .. FileSize
    /\ retries \in 0 .. MaxRetries + 1 /\ retries429 \in 0 .. Max429 + 1
    /\ {inFlight, cancelled, paused, aligned, unremoved} \subseteq BOOLEAN

\* A transfer that reports success leaves the whole file.
OkMeansWholeFile == pc = "Ok" => file = WholeFile

\* A transfer that reports success leaves the whole file, whatever broke, waited
\* or was resumed in the call and whatever failed, cancelled and killed calls
\* came before, if the count in the row agreed with the file when it began.
WholeIfAligned == aligned => OkMeansWholeFile

\* While bytes are awaited the count is the length of the file and the file is
\* the beginning of the resource: the next Range request asks for what follows.
\* A call that began at a count that disagreed with the file goes on so.
CountIsResumePoint ==
    aligned /\ pc \in {"Stream", "Backoff"} =>
        /\ downloaded = FileLen
        /\ IsPrefix(file, WholeFile)

\* A transfer that ends because it saw a cancel while streaming or after a
\* broken stream leaves no file, whatever rate limits it met before, unless the
\* removal itself failed.  The wait for a rate limit has an outcome of its own.
CancelRemovesFile == pc = "Cancelled" => (file = Missing \/ unremoved)

\* A cancelled transfer ends even if it is paused and nobody resumes it.
CancelEndsTransfer == (pc \in Busy /\ cancelled) ~> (pc \notin Busy)
=============================================================================
