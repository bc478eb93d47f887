--------------------------- MODULE DownloadManager ---------------------------
(***************************************************************************)
(* The native download manager: native/src/download/manager.rs, entered    *)
(* through native/src/api.rs.                                              *)
(*                                                                         *)
(* Every entry point locks the process-wide manager mutex                  *)
(* (context.rs, download_manager) for its whole duration, so at most one   *)
(* API call is inside the manager: op and opId.  An API call then locks    *)
(* the task map (tasksLock) and, still holding it, the mutex of the task's *)
(* engine.  Each started download is a spawned runner that waits for a     *)
(* semaphore permit, marks the task, picks up the task's engine and holds  *)
(* the engine's mutex for as long as the transfer lasts.  A step below is  *)
(* the code between two awaits.                                            *)
(***************************************************************************)
EXTENDS Integers, FiniteSets

CONSTANTS
    Ids,            \* the UUIDs the Dart side derives from URL and file name
    MaxConcurrent,  \* max_concurrent of DownloadManager::new
    MaxStarts,      \* bound: how many times start_download succeeds
    FileSize        \* bound: chunks in a file

ASSUME ManagerAssumption ==
    /\ Ids # {}
    /\ MaxConcurrent \in Nat \ {0}
    /\ MaxStarts \in Nat \ {0}
    /\ FileSize \in Nat

Runs == 1 .. MaxStarts   \* the n-th start creates engine n and spawns runner n

\* Holders of a mutex: nobody, a runner, or the API call in progress.
Free == 0
ApiCall == MaxStarts + 1
Holders == 0 .. MaxStarts + 1

Terminal == {"Completed", "Failed", "Cancelled"}
Active == {"Pending", "Downloading", "Paused"}
Absent == "Absent"          \* no entry in the HashMap

\* terminal_at: None, less than TERMINAL_TTL ago, or longer ago.
TerminalAt == {"None", "Recent", "Expired"}

RunnerPc == {"Unspawned", "Permit", "Announce", "Lookup", "Lock",
             "Running", "Finish", "Report", "Fail", "Done"}

ApiOps == {"Idle", "Pause", "Resume", "Cancel", "Progress"}

VARIABLES
    \* the tasks HashMap, an entry per id, and the holder of its mutex
    status, terminalAt, engineOf, tasksLock,
    \* engines: holder of the mutex, the two flags, the byte counter
    owner, paused, cancelled, downloaded,
    \* spawned runners: program point, task id, engine picked up
    pc, idOf, using,
    \* permits left in the semaphore
    permits,
    \* the API call that waits for an engine mutex
    op, opId,
    \* how many starts have succeeded
    started

taskVars == <<status, terminalAt, engineOf>>
engineVars == <<owner, paused, cancelled, downloaded>>
runnerVars == <<pc, idOf, using>>
apiVars == <<op, opId>>
vars == <<taskVars, tasksLock, engineVars, runnerVars, permits, apiVars, started>>

SomeId == CHOOSE i \in Ids : TRUE

Init ==
    /\ status = [i \in Ids |-> Absent]
    /\ terminalAt = [i \in Ids |-> "None"]
    /\ engineOf = [i \in Ids |-> 0]
    /\ tasksLock = Free
    /\ owner = [e \in Runs |-> Free]
    /\ paused = [e \in Runs |-> FALSE]
    /\ cancelled = [e \in Runs |-> FALSE]
    /\ downloaded = [e \in Runs |-> 0]
    /\ pc = [n \in Runs |-> "Unspawned"]
    /\ idOf = [n \in Runs |-> SomeId]
    /\ using = [n \in Runs |-> 0]
    /\ permits = MaxConcurrent
    /\ op = "Idle" /\ opId = SomeId
    /\ started = 0

-----------------------------------------------------------------------------
(* API calls.                                                              *)

ApiFree == op = "Idle" /\ tasksLock = Free

\* start_download: refuse a known id, else insert a Pending task and spawn.
StartDownload(i) ==
    /\ ApiFree
    /\ status[i] = Absent
    /\ started < MaxStarts
    /\ started' = started + 1
    /\ status' = [status EXCEPT ![i] = "Pending"]
    /\ terminalAt' = [terminalAt EXCEPT ![i] = "None"]
    /\ engineOf' = [engineOf EXCEPT ![i] = started + 1]
    /\ pc' = [pc EXCEPT ![started + 1] = "Permit"]
    /\ idOf' = [idOf EXCEPT ![started + 1] = i]
    /\ UNCHANGED <<tasksLock, engineVars, using, permits, apiVars>>

\* A call that found its task keeps the map locked while it awaits the engine.
AwaitEngine(o, i) ==
    /\ tasksLock' = ApiCall
    /\ op' = o
    /\ opId' = i
    /\ UNCHANGED <<terminalAt, engineOf, engineVars, runnerVars, permits, started>>

PauseDownload(i) ==
    /\ ApiFree
    /\ status[i] = "Downloading"
    /\ AwaitEngine("Pause", i)
    /\ UNCHANGED status

ResumeDownload(i) ==
    /\ ApiFree
    /\ status[i] = "Paused"
    /\ AwaitEngine("Resume", i)
    /\ UNCHANGED status

CancelDownload(i) ==
    /\ ApiFree
    /\ status[i] # Absent
    /\ AwaitEngine("Cancel", i)
    /\ UNCHANGED status

\* sweep_expired_tasks: what is left of the map, too old entries dropped.  The
\* other fields of a dropped entry have no reader.
Swept == [i \in Ids |-> IF terminalAt[i] = "Expired" THEN Absent ELSE status[i]]

\* get_progress sweeps first; a task that survives is then read.
GetProgress(i) ==
    /\ ApiFree
    /\ status' = Swept
    /\ \/ /\ Swept[i] # Absent
          /\ AwaitEngine("Progress", i)
       \/ /\ Swept[i] = Absent
          /\ UNCHANGED <<terminalAt, engineOf, tasksLock, apiVars, engineVars,
                         runnerVars, permits, started>>

\* get_all_downloads sweeps; its try_lock on each engine never waits.
GetAllDownloads ==
    /\ ApiFree
    /\ status' = Swept
    /\ UNCHANGED <<terminalAt, engineOf, tasksLock, engineVars, runnerVars,
                   permits, apiVars, started>>

\* cleanup_download sweeps, then removes a terminal task and refuses others.
CleanupDownload(i) ==
    /\ ApiFree
    /\ status' = [Swept EXCEPT ![i] = IF @ \in Terminal THEN Absent ELSE @]
    /\ UNCHANGED <<terminalAt, engineOf, tasksLock, engineVars, runnerVars,
                   permits, apiVars, started>>

\* A call that does not take the engine mutex, the flags being atomic.
EngineGrantedUnlocked(o) ==
    /\ op = o
    /\ tasksLock' = Free
    /\ op' = "Idle"
    /\ UNCHANGED <<opId, engineOf, owner, downloaded, runnerVars, permits, started>>

\* The engine mutex is granted: the call acts on flags and task, then returns.
EngineGranted(o) ==
    /\ op = o
    /\ owner[engineOf[opId]] = Free
    /\ tasksLock' = Free
    /\ op' = "Idle"
    /\ UNCHANGED <<opId, engineOf, owner, downloaded, runnerVars, permits, started>>

PauseReturns ==
    /\ EngineGranted("Pause")
    /\ paused' = [paused EXCEPT ![engineOf[opId]] = TRUE]
    /\ status' = [status EXCEPT ![opId] = "Paused"]
    /\ UNCHANGED <<cancelled, terminalAt>>

ResumeReturns ==
    /\ EngineGranted("Resume")
    /\ paused' = [paused EXCEPT ![engineOf[opId]] = FALSE]
    /\ status' = [status EXCEPT ![opId] = "Downloading"]
    /\ UNCHANGED <<cancelled, terminalAt>>

CancelReturns ==
    /\ EngineGranted("Cancel")
    /\ cancelled' = [cancelled EXCEPT ![engineOf[opId]] = TRUE]
    /\ status' = [status EXCEPT ![opId] = "Cancelled"]
    /\ terminalAt' = [terminalAt EXCEPT ![opId] = "Recent"]
    /\ UNCHANGED paused

ProgressReturns ==
    /\ EngineGranted("Progress")
    /\ UNCHANGED <<paused, cancelled, status, terminalAt>>

\* TERMINAL_TTL passes since terminal_at was stamped.
TtlElapses(i) ==
    /\ status[i] # Absent
    /\ terminalAt[i] = "Recent"
    /\ terminalAt' = [terminalAt EXCEPT ![i] = "Expired"]
    /\ UNCHANGED <<status, engineOf, tasksLock, engineVars, runnerVars, permits,
                   apiVars, started>>

-----------------------------------------------------------------------------
(* Runners.                                                                *)

Goto(n, from, to) ==
    /\ pc[n] = from
    /\ pc' = [pc EXCEPT ![n] = to]

\* A permit is taken whether or not one is left.
AcquirePermitUnguarded(n) ==
    /\ Goto(n, "Permit", "Announce")
    /\ permits' = permits - 1
    /\ UNCHANGED <<taskVars, tasksLock, engineVars, idOf, using, apiVars, started>>

AcquirePermit(n) ==
    /\ Goto(n, "Permit", "Announce")
    /\ permits > 0
    /\ permits' = permits - 1
    /\ UNCHANGED <<taskVars, tasksLock, engineVars, idOf, using, apiVars, started>>

\* run_download marks whatever task has this id, whatever its status.
Announce(n) ==
    /\ Goto(n, "Announce", "Lookup")
    /\ tasksLock = Free
    /\ status' = [status EXCEPT ![idOf[n]] = IF @ = Absent THEN @ ELSE "Downloading"]
    /\ UNCHANGED <<terminalAt, engineOf, tasksLock, engineVars, idOf, using,
                   permits, apiVars, started>>

\* The engine of the task that has this id now; "Task not found" otherwise.
LookupEngine(n) ==
    /\ tasksLock = Free
    /\ \/ /\ Goto(n, "Lookup", "Lock")
          /\ status[idOf[n]] # Absent
          /\ using' = [using EXCEPT ![n] = engineOf[idOf[n]]]
       \/ /\ Goto(n, "Lookup", "Fail")
          /\ status[idOf[n]] = Absent
          /\ UNCHANGED using
    /\ UNCHANGED <<taskVars, tasksLock, engineVars, idOf, permits, apiVars, started>>

\* Flags left as they were when the transfer begins.
BeginTransferKeepingFlags(n) ==
    /\ Goto(n, "Lock", "Running")
    /\ owner[using[n]] = Free
    /\ owner' = [owner EXCEPT ![using[n]] = n]
    /\ downloaded' = [downloaded EXCEPT ![using[n]] = 0]
    /\ UNCHANGED <<taskVars, tasksLock, paused, cancelled, idOf, using, permits,
                   apiVars, started>>

\* Each engine's download method begins by clearing both flags.
BeginTransfer(n) ==
    /\ Goto(n, "Lock", "Running")
    /\ owner[using[n]] = Free
    /\ owner' = [owner EXCEPT ![using[n]] = n]
    /\ paused' = [paused EXCEPT ![using[n]] = FALSE]
    /\ cancelled' = [cancelled EXCEPT ![using[n]] = FALSE]
    /\ downloaded' = [downloaded EXCEPT ![using[n]] = 0]
    /\ UNCHANGED <<taskVars, tasksLock, idOf, using, permits, apiVars, started>>

ReceiveChunk(n) ==
    /\ pc[n] = "Running"
    /\ ~cancelled[using[n]] /\ ~paused[using[n]]
    /\ downloaded[using[n]] < FileSize
    /\ downloaded' = [downloaded EXCEPT ![using[n]] = @ + 1]
    /\ UNCHANGED <<taskVars, tasksLock, owner, paused, cancelled, runnerVars,
                   permits, apiVars, started>>

\* The guard outlives the transfer: it is dropped with run_download's scope.
ReleaseEngineLate(n) == UNCHANGED <<engineVars>>

\* The transfer returns and drops the engine guard.
ReleaseEngine(n) ==
    /\ owner' = [owner EXCEPT ![using[n]] = Free]
    /\ UNCHANGED <<paused, cancelled, downloaded>>

TransferComplete(n) ==
    /\ Goto(n, "Running", "Finish")
    /\ downloaded[using[n]] = FileSize
    /\ ReleaseEngine(n)
    /\ UNCHANGED <<taskVars, tasksLock, idOf, using, permits, apiVars, started>>

\* An HTTP or I/O error the engine does not retry, or a raised cancel flag; a
\* paused engine polls its flags and nothing else.
TransferFails(n) ==
    /\ Goto(n, "Running", "Fail")
    /\ paused[using[n]] => cancelled[using[n]]
    /\ ReleaseEngine(n)
    /\ UNCHANGED <<taskVars, tasksLock, idOf, using, permits, apiVars, started>>

\* The permit is forgotten instead of dropped.
DropPermitForgotten == UNCHANGED permits

\* _permit goes out of scope at the end of the spawned closure.
DropPermit == permits' = permits + 1

\* run_download's last block, for a task that was not cancelled.  The byte
\* count is read under the engine mutex, awaited with the map locked.
MarkCompleted(n) ==
    /\ Goto(n, "Finish", "Report")
    /\ tasksLock = Free
    /\ status[idOf[n]] \notin {Absent, "Cancelled"}
    /\ status' = [status EXCEPT ![idOf[n]] = "Completed"]
    /\ tasksLock' = n
    /\ UNCHANGED <<terminalAt, engineOf, engineVars, idOf, using, permits,
                   apiVars, started>>

StampCompleted(n) ==
    /\ Goto(n, "Report", "Done")
    /\ owner[engineOf[idOf[n]]] = Free
    /\ terminalAt' = [terminalAt EXCEPT ![idOf[n]] = "Recent"]
    /\ tasksLock' = Free
    /\ DropPermit
    /\ UNCHANGED <<status, engineOf, engineVars, idOf, using, apiVars, started>>

\* The same block when the task is gone or was cancelled meanwhile.
KeepCancelled(n) ==
    /\ Goto(n, "Finish", "Done")
    /\ tasksLock = Free
    /\ status[idOf[n]] \in {Absent, "Cancelled"}
    /\ terminalAt' = [terminalAt EXCEPT ![idOf[n]] =
                          IF status[idOf[n]] = Absent THEN @ ELSE "Recent"]
    /\ DropPermit
    /\ UNCHANGED <<status, engineOf, tasksLock, engineVars, idOf, using, apiVars,
                   started>>

\* Failed whatever was asked meanwhile.
FailureStatusAlways(s) == IF s = Absent THEN s ELSE "Failed"

\* Failed unless Cancelled.
FailureStatus(s) == IF s \in {Absent, "Cancelled"} THEN s ELSE "Failed"

\* The error branch of the spawned closure.
MarkFailed(n) ==
    /\ Goto(n, "Fail", "Done")
    /\ tasksLock = Free
    /\ status' = [status EXCEPT ![idOf[n]] = FailureStatus(@)]
    /\ terminalAt' = [terminalAt EXCEPT ![idOf[n]] =
                          IF status[idOf[n]] = Absent THEN @ ELSE "Recent"]
    /\ DropPermit
    /\ UNCHANGED <<engineOf, tasksLock, engineVars, idOf, using, apiVars, started>>

-----------------------------------------------------------------------------

ApiReturns == PauseReturns \/ ResumeReturns \/ CancelReturns \/ ProgressReturns

ApiStep ==
    \/ \E i \in Ids :
          \/ StartDownload(i) \/ PauseDownload(i) \/ ResumeDownload(i)
          \/ CancelDownload(i) \/ GetProgress(i) \/ CleanupDownload(i)
    \/ GetAllDownloads
    \/ ApiReturns

RunnerStep(n) ==
    \/ AcquirePermit(n) \/ Announce(n) \/ LookupEngine(n) \/ BeginTransfer(n)
    \/ ReceiveChunk(n) \/ TransferComplete(n) \/ TransferFails(n)
    \/ MarkCompleted(n) \/ StampCompleted(n) \/ KeepCancelled(n) \/ MarkFailed(n)

Next ==
    \/ ApiStep
    \/ \E n \in Runs : RunnerStep(n)
    \/ \E i \in Ids : TtlElapses(i)

Spec == Init /\ [][Next]_vars

\* tokio's mutexes and semaphore are first come first served and its
\* scheduler runs every ready task: a runner that can move again and again
\* moves, and so does an admitted call.  A transfer ends: every engine has a
\* bounded number of retries, and its connections either deliver or fail.
FairSpec ==
    /\ Spec
    /\ \A n \in Runs : SF_vars(RunnerStep(n))
    /\ WF_vars(ApiReturns)

-----------------------------------------------------------------------------
(* Type and safety.                                                        *)

\* Every variable has its type.
TypeOK ==
    /\ status \in [Ids -> Active \cup Terminal \cup {Absent}]
    /\ terminalAt \in [Ids -> TerminalAt]
    /\ engineOf \in [Ids -> 0 .. MaxStarts]
    /\ tasksLock \in Holders
    /\ owner \in [Runs -> Holders]
    /\ paused \in [Runs -> BOOLEAN]
    /\ cancelled \in [Runs -> BOOLEAN]
    /\ downloaded \in [Runs -> 0 .. FileSize]
    /\ pc \in [Runs -> RunnerPc]
    /\ idOf \in [Runs -> Ids]
    /\ using \in [Runs -> 0 .. MaxStarts]
    /\ permits \in Nat
    /\ op \in ApiOps
    /\ opId \in Ids
    /\ started \in 0 .. MaxStarts

\* An engine's mutex is only ever held by a transfer in progress: whoever
\* waits for the task map holds no engine, which is what makes the order
\* "map, then engine" of the API calls safe (manager.rs, the scoped blocks of
\* run_download).
NoHoldAndWait ==
    \A e \in Runs : owner[e] # Free =>
        \E n \in Runs : owner[e] = n /\ pc[n] = "Running" /\ using[n] = e

\* No transfer in progress ever has a raised flag: pause and cancel need the
\* mutex the transfer holds, and the transfer clears what was raised before it.
\* The checks of is_paused and is_cancelled inside the engines never fire.
FlagsClearWhileRunning ==
    \A n \in Runs : pc[n] = "Running" => ~paused[using[n]] /\ ~cancelled[using[n]]

\* Program points at which a runner owns a semaphore permit.
WithPermit == {n \in Runs : pc[n] \notin {"Unspawned", "Permit", "Done"}}

\* Every permit is in the semaphore or with one runner, on all paths of the
\* spawned closure; hence at most MaxConcurrent transfers at a time.
PermitsConserved == permits + Cardinality(WithPermit) = MaxConcurrent

\* The outcome of a transfer never replaces Cancelled (the two guards on
\* DownloadStatus::Cancelled in manager.rs).
CancelOutlivesOutcome ==
    [][\A i \in Ids : status[i] = "Cancelled" =>
            status'[i] \notin {"Completed", "Failed"}]_vars

(* Liveness.                                                               *)

\* Every spawned download ends, also one that was paused and never resumed.
EveryStartEnds == \A n \in Runs : pc[n] = "Permit" ~> pc[n] = "Done"

\* Every API call that was admitted returns.
CallsReturn == op # "Idle" ~> op = "Idle"

(* What the comments say and the code does not do.                         *)

\* manager.rs: "User-visible cancel beats a lucky in-flight completion": an
\* entry that was Cancelled is never Completed later.
CancelBeatsCompletion ==
    \A i \in Ids, e \in Runs :
        [](status[i] = "Cancelled" /\ engineOf[i] = e =>
             [](status[i] # "Completed" \/ engineOf[i] # e))

\* api.rs: progress is "accessible via get_progress() calls" while a download
\* runs: a poll never waits for a transfer to end.
PollNeverWaitsForTransfer == op = "Progress" => owner[engineOf[opId]] = Free
=============================================================================
