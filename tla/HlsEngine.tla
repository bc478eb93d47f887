----------------------------- MODULE HlsEngine ------------------------------
(***************************************************************************)
(* The HLS transfer of native/src/download/hls_engine.rs: the playlist is  *)
(* fetched, then its segments one after the other, each appended whole to  *)
(* the output.  The output is the sequence of segment numbers written.     *)
(* The server is external: any request may fail.                           *)
(***************************************************************************)
EXTENDS Integers, Sequences

CONSTANTS
    Segments,    \* length of the playlist; an empty one is a failed fetch
    MaxRetries,  \* the 3 that download_hls passes
    MaxCalls,    \* bound: calls of download_hls on the same path
    MaxPauses    \* bound: calls of pause

HlsAssumption ==
    /\ Segments \in Nat \ {0}
    /\ {MaxRetries, MaxCalls, MaxPauses} \subseteq Nat

WholeStream == [k \in 1 .. Segments |-> k]
Missing == <<0>>
Busy == {"Playlist", "Turn", "Fetch"}

VARIABLES
    file,     \* segments in the output file
    pc,       \* program point of the call, or its outcome
    attempt,  \* failed requests for the segment at hand
    cancelled, paused,
    calls, pauses,
    unremoved \* history: the removal of the file failed in this call

vars == <<file, pc, attempt, cancelled, paused, calls, pauses, unremoved>>

Init ==
    /\ file = Missing /\ pc = "Idle" /\ attempt = 0
    /\ cancelled = FALSE /\ paused = FALSE /\ calls = 0 /\ pauses = 0
    /\ unremoved = FALSE

GoTo(point) ==
    /\ pc' = point
    /\ UNCHANGED <<cancelled, paused, calls, pauses>>

-----------------------------------------------------------------------------

DownloadHls ==
    /\ pc \notin Busy /\ calls < MaxCalls
    /\ pc' = "Playlist"
    /\ cancelled' = FALSE /\ paused' = FALSE /\ unremoved' = FALSE
    /\ calls' = calls + 1
    /\ UNCHANGED <<file, attempt, pauses>>

\* Either playlist cannot be fetched, is empty, or the output cannot be
\* created: a file of an earlier call stays.
PlaylistFails ==
    /\ pc = "Playlist" /\ GoTo("Failed") /\ UNCHANGED <<file, attempt, unremoved>>

PlaylistArrives ==
    /\ pc = "Playlist" /\ GoTo("Turn")
    /\ file' = <<>> /\ UNCHANGED <<attempt, unremoved>>

\* The flag is read before each segment and in the wait for a pause to end.  A
\* failed removal is not reported.
SeeCancel ==
    /\ pc = "Turn" /\ cancelled /\ GoTo("Cancelled") /\ UNCHANGED attempt
    /\ \/ file' = Missing /\ UNCHANGED unremoved
       \/ UNCHANGED file /\ unremoved' = TRUE

BeginSegment ==
    /\ pc = "Turn" /\ ~cancelled /\ ~paused /\ GoTo("Fetch")
    /\ attempt' = 0 /\ UNCHANGED <<file, unremoved>>

\* No response, or an error status.  Neither flag is read between the tries.
RequestFails ==
    /\ pc = "Fetch"
    /\ attempt' = attempt + 1
    /\ GoTo(IF attempt >= MaxRetries THEN "Failed" ELSE "Fetch")
    /\ UNCHANGED <<file, unremoved>>

\* A body that breaks off is not tried again, nor a write that fails.  The
\* flush before a removal may be what reports it: then the file stays.
BodyOrWriteFails ==
    /\ pc = "Fetch" \/ (pc = "Turn" /\ cancelled /\ file # <<>>)
    /\ GoTo("Failed") /\ UNCHANGED <<file, attempt, unremoved>>

\* The last segment ends the call without a look at the flags.
SegmentArrives ==
    /\ pc = "Fetch"
    /\ file' = Append(file, Len(file) + 1)
    /\ GoTo(IF Len(file') = Segments THEN "Ok" ELSE "Turn")
    /\ UNCHANGED <<attempt, unremoved>>

Transfer ==
    \/ PlaylistFails \/ PlaylistArrives \/ SeeCancel \/ BeginSegment
    \/ RequestFails \/ BodyOrWriteFails \/ SegmentArrives

-----------------------------------------------------------------------------

Pause ==
    /\ pc \in Busy /\ ~paused /\ pauses < MaxPauses
    /\ paused' = TRUE /\ pauses' = pauses + 1
    /\ UNCHANGED <<file, pc, attempt, cancelled, calls, unremoved>>

Resume ==
    /\ paused /\ paused' = FALSE
    /\ UNCHANGED <<file, pc, attempt, cancelled, calls, pauses, unremoved>>

Cancel ==
    /\ pc \in Busy /\ ~cancelled
    /\ cancelled' = TRUE
    /\ UNCHANGED <<file, pc, attempt, paused, calls, pauses, unremoved>>

Next == DownloadHls \/ Transfer \/ Pause \/ Resume \/ Cancel

Spec == Init /\ [][Next]_vars

\* The task of the call is polled and its requests come back: the client has
\* a time limit.
FairSpec == Spec /\ WF_vars(Transfer)

-----------------------------------------------------------------------------

\* A call that reports success leaves every segment in playlist order, whatever
\* retries, pauses and earlier calls on the path came before.
OkMeansWholeFile == pc = "Ok" => file = WholeStream

\* A cancel that was seen leaves no file, whether it was seen before a segment
\* or in a pause, unless the removal itself failed.
CancelRemovesFile == pc = "Cancelled" => (file = Missing \/ unremoved)

\* A cancelled call ends even if it is paused and nobody resumes it.
CancelEndsTransfer == (pc \in Busy /\ cancelled) ~> (pc \notin Busy)
=============================================================================
