---------------------------- MODULE MCTransfers ----------------------------
(***************************************************************************)
(* The engines a download can be given: the initial state chooses the      *)
(* segmented, the single-stream or the HLS engine, and only that one takes *)
(* steps.  The variables of the latter two carry the prefixes one and hls. *)
(***************************************************************************)
EXTENDS SegmentedEngine

CONSTANTS
    OneSize, OneRetries, One429, OneCalls,           \* of the single stream
    HlsSegments, HlsRetries, HlsCalls, HlsPauses     \* of the HLS engine

VARIABLES
    engine,
    oneFile, oneInFlight, onePc, oneDownloaded, onePosition, oneRetries, oneRetries429,
    oneCancelled, onePaused, oneCalls, onePauses, oneSaved, oneAligned, oneUnremoved,
    hlsFile, hlsPc, hlsAttempt, hlsCancelled, hlsPaused, hlsCalls, hlsPauses, hlsUnremoved

MCThree == {3}

Single == INSTANCE SingleStreamEngine
    WITH FileSize <- OneSize, RangeServer <- TRUE, MaxRetries <- OneRetries,
         Max429 <- One429, MaxCalls <- OneCalls,
         file <- oneFile, inFlight <- oneInFlight, pc <- onePc, downloaded <- oneDownloaded,
         position <- onePosition, retries <- oneRetries, retries429 <- oneRetries429,
         cancelled <- oneCancelled, paused <- onePaused, calls <- oneCalls,
         pauses <- onePauses, saved <- oneSaved, aligned <- oneAligned,
         unremoved <- oneUnremoved

Hls == INSTANCE HlsEngine
    WITH Segments <- HlsSegments, MaxRetries <- HlsRetries, MaxCalls <- HlsCalls,
         MaxPauses <- HlsPauses,
         file <- hlsFile, pc <- hlsPc, attempt <- hlsAttempt,
         cancelled <- hlsCancelled, paused <- hlsPaused, calls <- hlsCalls,
         pauses <- hlsPauses, unremoved <- hlsUnremoved

ASSUME SingleAssumption == Single!SingleStreamAssumption
ASSUME HlsAssumption == Hls!HlsAssumption

one == <<oneFile, oneInFlight, onePc, oneDownloaded, onePosition, oneRetries,
         oneRetries429, oneCancelled, onePaused, oneCalls, onePauses, oneSaved,
         oneAligned, oneUnremoved>>
hls == <<hlsFile, hlsPc, hlsAttempt, hlsCancelled, hlsPaused, hlsCalls, hlsPauses,
         hlsUnremoved>>
transfers == <<engine, vars, one, hls>>

Segmented(step) == engine = "segmented" /\ step /\ UNCHANGED <<engine, one, hls>>
SingleStream(step) == engine = "single" /\ step /\ UNCHANGED <<engine, vars, hls>>
HlsStream(step) == engine = "hls" /\ step /\ UNCHANGED <<engine, vars, one>>

TransfersInit ==
    Init /\ Single!Init /\ Hls!Init /\ engine \in {"segmented", "single", "hls"}
TransfersNext ==
    Segmented(Next) \/ SingleStream(Single!Next) \/ HlsStream(Hls!Next)

TransfersSpec ==
    /\ TransfersInit /\ [][TransfersNext]_transfers
    \* The fairness of the three modules.
    /\ WF_transfers(Segmented(Call))
    /\ \A i \in Parts : WF_transfers(Segmented(Segment(i)))
    /\ WF_transfers(SingleStream(Single!Transfer))
    /\ WF_transfers(HlsStream(Hls!Transfer))

\* A single-stream or HLS transfer that reports success leaves the whole file,
\* whatever breaks, waits, failed writes and killed calls came before; a single
\* stream, if the row's count agreed with the file when the call began.
SingleStreamWhole == Single!WholeIfAligned /\ Hls!OkMeansWholeFile

\* While bytes are awaited the count is the length of the file and the file is
\* the beginning of the resource: the next Range request asks for what follows.
\* Of calls that began at a count that agreed with the file.
CountIsResumePoint == Single!CountIsResumePoint

\* A transfer that ends because it saw a cancel leaves no file, unless the
\* removal itself failed or a single stream saw it while it waited for a rate
\* limit, which is an outcome of its own.
CancelRemovesFile == Single!CancelRemovesFile /\ Hls!CancelRemovesFile

\* A cancelled transfer of any of the three engines ends even if it is paused and
\* nobody resumes it.
CancelledStreamEnds ==
    CancelEndsTransfer /\ Single!CancelEndsTransfer /\ Hls!CancelEndsTransfer
=============================================================================
