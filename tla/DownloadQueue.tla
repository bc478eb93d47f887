---------------------------- MODULE DownloadQueue ----------------------------
(***************************************************************************)
(* The queue of yt-dlp downloads: DownloadsNotifier, with the list it      *)
(* watches (view), its debounced passes and its retry timers, above the    *)
(* rows of the database and the monitors of running processes.  An access  *)
(* to the database may fail in a pass, in a retry and in a monitor.  The   *)
(* folder check of a retry, after its backoff, is shorter than the         *)
(* debounce.  Deletion is left out.                                        *)
(***************************************************************************)
EXTENDS Naturals, Sequences, SequencesExt, FiniteSets

CONSTANTS
    Downloads,      \* the ids 1 .. Downloads, in the order of the list
    MaxConcurrent,  \* bound: the limit of the plan
    MaxRetries,     \* _maxRetryAttempts
    MaxActions      \* bound: what users, the network, faults and restarts do

ASSUME DownloadQueueAssumption ==
    /\ Downloads \in Nat \ {0} /\ MaxConcurrent \in Nat \ {0}
    /\ MaxRetries \in Nat \ {0} /\ MaxActions \in Nat

VARIABLES
    slots,      \* the lesser of the setting and the limit of the plan
    status,     \* the rows
    retries,
    changed,    \* the stream of the table has something to deliver
    view,       \* state.downloads
    debounce,   \* the timer of the next pass is set
    pass,       \* what the pass under way has still to start
    planned,    \* its head was read as queued, and is being given a plan
    overlooked, \* since the last pass began, one was not made or lost a download
    calls,      \* <<who, download>>: a retry in its backoff
    timers,     \* downloads with a timer of the RetryScheduler
    demoted,    \* new downloads to be queued: a write not awaited
    created,    \* new downloads whose process is about to start
    monitors,   \* how many monitors of a download there are, by kind
    actions

passVars == <<pass, planned, overlooked>>
vars == <<slots, status, retries, changed, view, debounce, passVars, calls, timers, demoted,
          created, monitors, actions>>

Id == 1 .. Downloads
Status == {"absent", "pending", "queued", "downloading", "processing", "paused",
           "completed", "failed", "cancelled", "waiting"}
Active == {"downloading", "processing"}
\* The first start of a download, a later one, and one whose process was killed.
Kind == {"fresh", "retry", "killed"}

Init ==
    /\ slots \in 1 .. MaxConcurrent
    /\ status = [d \in Id |-> "absent"] /\ retries = [d \in Id |-> 0]
    /\ changed = FALSE /\ view = status
    /\ debounce = FALSE /\ pass = <<>> /\ planned = FALSE /\ overlooked = FALSE
    /\ calls = {} /\ timers = {}
    /\ demoted = {} /\ created = {}
    /\ monitors = [d \in Id |-> [k \in Kind |-> 0]]
    /\ actions = 0

Act == actions < MaxActions /\ actions' = actions + 1
Set(d, s) == status' = [status EXCEPT ![d] = s] /\ changed' = TRUE
Running(d) == monitors[d]["fresh"] + monitors[d]["retry"]

-----------------------------------------------------------------------------
(* The notifier.                                                           *)

InSlots(rows) == Cardinality({d \in Id : rows[d] \in Active})

\* _handleDownloadStatusChanges, on what the stream of the table delivers.  What
\* the error is, and the setting, decide whether a failed download is retried.
StatusChanges ==
    /\ changed /\ changed' = FALSE
    /\ view' = status /\ debounce' = TRUE
    /\ demoted' = demoted \union
          {d \in Id : view[d] = "absent" /\ status[d] = "pending"
                      /\ InSlots(status) >= slots}
    /\ \E retryable \in SUBSET {d \in Id : view[d] \notin {"failed", "absent"}
                                         /\ status[d] = "failed" /\ retries[d] < MaxRetries} :
          timers' = timers \union retryable
    /\ UNCHANGED <<slots, status, retries, passVars, calls, created, monitors, actions>>

Demote(d) ==
    /\ d \in demoted /\ demoted' = demoted \ {d}
    /\ Set(d, "queued")
    /\ UNCHANGED <<slots, retries, view, debounce, passVars, calls, timers, created,
                   monitors, actions>>

FreeSlots == IF InSlots(view) < slots THEN slots - InSlots(view) ELSE 0
List == [d \in Id |-> d]
FirstFree(list) == SubSeq(list, 1, IF FreeSlots < Len(list) THEN FreeSlots ELSE Len(list))
Queued(list) == SelectSeq(list, LAMBDA d : view[d] = "queued")

\* take before where.
ChosenFromTop == Queued(FirstFree(List))

\* The queued downloads of the list, as many as there are slots.
Chosen == FirstFree(Queued(List))

\* A pass asked for during a pass is not made, whatever the other one waits for.
ProcessQueue ==
    /\ debounce /\ debounce' = FALSE
    /\ IF pass = <<>> THEN pass' = Chosen /\ overlooked' = FALSE
                      ELSE pass' = pass /\ overlooked' = TRUE
    /\ UNCHANGED <<slots, status, retries, changed, view, planned, calls, timers, demoted,
                   created, monitors, actions>>

\* The pass is done with its first download, and may leave it in the queue.
PassGoesOn ==
    /\ pass' = Tail(pass) /\ planned' = FALSE
    /\ overlooked' = (overlooked \/ status'[Head(pass)] = "queued")

\* The row is read again, and a download no longer queued is skipped.
PassReads ==
    /\ pass # <<>> /\ ~planned
    /\ \/ status[Head(pass)] = "queued" /\ planned' = TRUE /\ UNCHANGED <<pass, overlooked>>
       \/ status[Head(pass)] # "queued" /\ UNCHANGED status /\ PassGoesOn
    /\ UNCHANGED <<slots, status, retries, changed, view, debounce, calls, timers, demoted,
                   created, monitors, actions>>

-----------------------------------------------------------------------------
(* retryDownload of the repository.                                        *)

\* Up to the backoff.  Only the user may exceed the budget of retries.
Retry(who, d) ==
    /\ <<who, d>> \notin calls
    /\ \/ /\ retries[d] < MaxRetries
          /\ calls' = calls \union {<<who, d>>}
          /\ UNCHANGED <<status, retries, changed>>
       \/ /\ retries[d] >= MaxRetries /\ who = "user"
          /\ retries' = [retries EXCEPT ![d] = 0] /\ changed' = TRUE
          /\ calls' = calls \union {<<who, d>>}
          /\ UNCHANGED status
       \/ /\ retries[d] >= MaxRetries /\ who # "user"
          /\ Set(d, "failed")
          /\ UNCHANGED <<retries, calls>>
    /\ UNCHANGED <<slots, view, debounce, demoted, created, monitors>>

\* With the plan made, whatever the row has become.
PassRetries ==
    /\ pass # <<>> /\ planned
    /\ Retry("queue", Head(pass))
    /\ IF calls' = calls THEN PassGoesOn ELSE UNCHANGED passVars
    /\ UNCHANGED <<timers, actions>>

RetryTimerFires(d) ==
    /\ d \in timers /\ timers' = timers \ {d}
    /\ Retry("auto", d)
    /\ UNCHANGED <<passVars, actions>>

\* The timer of the download, if it has one, goes on.
RetryDownload(d) ==
    /\ view[d] \in {"failed", "waiting"}
    /\ Act
    /\ Retry("user", d)
    /\ UNCHANGED <<passVars, timers>>

\* After the backoff the process starts, whatever the row has become; without
\* a folder it does not, nor after an exception, which is only logged.
StartRetry(who, d) ==
    /\ <<who, d>> \in calls /\ calls' = calls \ {<<who, d>>}
    /\ retries' = [retries EXCEPT ![d] = @ + 1] /\ changed' = TRUE
    /\ \/ /\ Set(d, "downloading") /\ monitors' = [monitors EXCEPT ![d]["retry"] = @ + 1]
          /\ UNCHANGED actions
       \/ Set(d, "failed") /\ UNCHANGED <<monitors, actions>>
       \/ Act /\ UNCHANGED <<status, monitors>>
    /\ IF who = "queue" THEN PassGoesOn ELSE UNCHANGED passVars
    /\ UNCHANGED <<slots, view, debounce, timers, demoted, created>>

\* A failed access to the row ends the call of retryDownload, before its backoff
\* or after.  The pass goes on with the next download, as it does when its own
\* read of the row failed.
AccessFails ==
    /\ Act
    /\ UNCHANGED <<slots, status, retries, changed, view, debounce, demoted, created, monitors>>
    /\ \/ /\ pass # <<>> /\ calls' = calls \ {<<"queue", Head(pass)>>}
          /\ PassGoesOn /\ UNCHANGED timers
       \/ \E call \in calls : /\ call[1] # "queue" /\ calls' = calls \ {call}
                             /\ UNCHANGED <<passVars, timers>>
       \/ \E d \in timers : timers' = timers \ {d} /\ UNCHANGED <<passVars, calls>>

-----------------------------------------------------------------------------
(* A process and its monitor.                                              *)

Monitor(d, kind, s) ==
    /\ monitors[d][kind] > 0
    /\ Set(d, s)
    /\ UNCHANGED <<slots, retries, view, debounce, passVars, calls, timers, demoted,
                   created, actions>>

\* The last write of a monitor fails, or a retry ends in an exception, which is
\* only logged: the row stays what it was.
MonitorLost(d, kind) ==
    /\ monitors[d][kind] > 0
    /\ Act
    /\ monitors' = [monitors EXCEPT ![d][kind] = @ - 1]
    /\ UNCHANGED <<slots, status, changed, retries, view, debounce, passVars, calls, timers,
                   demoted, created>>

PostProcess(d, kind) ==
    /\ status[d] # "processing" /\ kind # "killed"
    /\ Monitor(d, kind, "processing") /\ UNCHANGED monitors

\* A fresh download that lost the network waits for it; a retry fails.
Outcome(kind) ==
    CASE kind = "fresh" -> {"completed", "failed", "waiting"}
      [] kind = "retry" -> {"completed", "failed"}
      [] kind = "killed" -> {"cancelled"}

MonitorEnds(d, kind) ==
    \E s \in Outcome(kind) :
        Monitor(d, kind, s) /\ monitors' = [monitors EXCEPT ![d][kind] = @ - 1]

-----------------------------------------------------------------------------
(* Users, the network, a restart.  What a user asks of a download is what  *)
(* the list, which may be older than the row, allows.                      *)

\* StartDownloadUseCase creates the row and then starts the process.
CreateDownload(d) ==
    /\ status[d] = "absent"
    /\ Set(d, "pending") /\ created' = created \union {d}
    /\ UNCHANGED <<slots, retries, view, debounce, passVars, calls, timers, demoted,
                   monitors, actions>>

StartFresh(d) ==
    /\ d \in created /\ created' = created \ {d}
    /\ Set(d, "downloading") /\ monitors' = [monitors EXCEPT ![d]["fresh"] = @ + 1]
    /\ UNCHANGED <<slots, retries, view, debounce, passVars, calls, timers, demoted,
                   actions>>

\* Of a yt-dlp download only the row is paused.
PauseDownload(d) ==
    /\ view[d] = "downloading"
    /\ Act
    /\ Set(d, "paused")
    /\ UNCHANGED <<slots, retries, view, debounce, passVars, calls, timers, demoted,
                   created, monitors>>

ResumeDownload(d) ==
    /\ view[d] \in {"failed", "paused", "pending"}
    /\ Act
    /\ retries' = [retries EXCEPT ![d] = IF @ >= MaxRetries THEN 0 ELSE @]
    /\ Set(d, "queued")
    /\ UNCHANGED <<slots, view, debounce, passVars, calls, timers, demoted, created,
                   monitors>>

\* Of several processes the one started last is killed; its monitor writes too.
CancelDownload(d) ==
    /\ view[d] \in Active \union {"pending", "queued", "paused", "waiting"}
    /\ Act
    /\ timers' = timers \ {d}
    /\ Set(d, "cancelled")
    /\ IF status[d] \in Active \union {"paused"} /\ Running(d) > 0
       THEN LET last == IF monitors[d]["retry"] > 0 THEN "retry" ELSE "fresh"
            IN  monitors' = [monitors EXCEPT ![d][last] = @ - 1, ![d]["killed"] = @ + 1]
       ELSE UNCHANGED monitors
    /\ UNCHANGED <<slots, retries, view, debounce, passVars, calls, demoted, created>>

NetworkRestored(d) ==
    /\ view[d] = "waiting"
    /\ Act
    /\ Set(d, "pending")
    /\ UNCHANGED <<slots, retries, view, debounce, passVars, calls, timers, demoted,
                   created, monitors>>

\* recoverDownloadsOnStartup; it is over before the first pass.
Recovered(d) ==
    CASE status[d] = "processing" -> "failed"
      [] status[d] \in {"downloading", "pending", "queued"} ->
            IF retries[d] >= MaxRetries THEN "failed" ELSE "queued"
      [] OTHER -> status[d]

Restart ==
    /\ Act
    /\ status' = [d \in Id |-> Recovered(d)]
    /\ view' = [d \in Id |-> "absent"]
    /\ changed' = TRUE /\ debounce' = TRUE
    /\ pass' = <<>> /\ planned' = FALSE /\ overlooked' = FALSE
    /\ calls' = {} /\ timers' = {}
    /\ demoted' = {} /\ created' = {}
    /\ monitors' = [d \in Id |-> [k \in Kind |-> 0]]
    /\ UNCHANGED <<slots, retries>>

-----------------------------------------------------------------------------

Queue == StatusChanges \/ ProcessQueue \/ PassReads \/ PassRetries

Work(d) ==
    \/ Demote(d) \/ RetryTimerFires(d) \/ StartFresh(d)
    \/ \E who \in {"queue", "auto", "user"} : StartRetry(who, d)
    \/ \E kind \in Kind : MonitorEnds(d, kind)

User(d) ==
    \/ CreateDownload(d) \/ PauseDownload(d) \/ ResumeDownload(d) \/ CancelDownload(d)
    \/ RetryDownload(d)

Next ==
    \/ Queue
    \/ \E d \in Id :
          \/ Work(d) \/ User(d) \/ NetworkRestored(d)
          \/ \E kind \in Kind : PostProcess(d, kind) \/ MonitorLost(d, kind)
    \/ AccessFails \/ Restart

Spec == Init /\ [][Next]_vars

\* Timers fire, writes and reads return, processes end.
FairSpec == Spec /\ WF_vars(StatusChanges) /\ WF_vars(ProcessQueue)
                 /\ WF_vars(PassReads \/ PassRetries)
                 /\ \A d \in Id : WF_vars(Work(d))

-----------------------------------------------------------------------------
(* Properties.                                                             *)

\* Every variable has its type.
TypeOK ==
    /\ slots \in 1 .. MaxConcurrent
    /\ status \in [Id -> Status] /\ view \in [Id -> Status]
    /\ retries \in [Id -> Nat] /\ changed \in BOOLEAN /\ debounce \in BOOLEAN
    /\ pass \in Seq(Id) /\ planned \in BOOLEAN /\ overlooked \in BOOLEAN
    /\ calls \subseteq {"queue", "auto", "user"} \X Id
    /\ timers \subseteq Id /\ demoted \subseteq Id /\ created \subseteq Id
    /\ monitors \in [Id -> [Kind -> Nat]] /\ actions \in 0 .. MaxActions

\* A download has one running process at most.  The code does not keep this: a
\* new download whose start overtakes the write that queues it is started again
\* by the next pass, and so is one that was paused and resumed.
OneProcess == \A d \in Id : Running(d) <= 1

\* Every slot is held by the row of a process that is gone.
SlotsLost ==
    LET lost == {d \in Id : status[d] \in Active /\ \A k \in Kind : monitors[d][k] = 0}
    IN  Cardinality(lost) >= slots

\* A queued download is started, or taken out of the queue, in the end.  There
\* are two ways to wait for ever, and no third: the last pass is over and the one
\* asked for meanwhile was not made, or it lost the download to a failed access,
\* and no row changed since; or every slot is held by the row of a monitor that
\* could not write its end.
QueuedIsServed ==
    \A d \in Id : []<>(status[d] # "queued") \/ <>[](overlooked \/ SlotsLost)
=============================================================================
