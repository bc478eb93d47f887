------------------------ MODULE DownloadManagerProofs ------------------------
(***************************************************************************)
(* Invariants of DownloadManager for any set of ids, any concurrency       *)
(* limit and any number of starts.                                         *)
(***************************************************************************)
EXTENDS DownloadManager, FiniteSetTheorems, TLAPS

\* The map's mutex is held by the API call that is waiting for an engine or by
\* the runner that is reporting, and the entry either works on is still there.
MapLock ==
    /\ tasksLock = ApiCall <=> op # "Idle"
    /\ \A n \in Runs : tasksLock = n <=> pc[n] = "Report"
    /\ op # "Idle" => status[opId] # Absent
    /\ \A n \in Runs : pc[n] = "Report" => status[idOf[n]] = "Completed"

\* An engine's mutex is held exactly while its transfer runs.
EngineLock ==
    /\ \A e \in Runs : owner[e] # ApiCall
    /\ \A e, n \in Runs : owner[e] = n <=> pc[n] = "Running" /\ using[n] = e

\* References are to engines that exist, and runners are spawned in order.
References ==
    /\ \A i \in Ids : status[i] # Absent => engineOf[i] \in Runs
    /\ \A n \in Runs : pc[n] \in {"Lock", "Running"} => using[n] \in Runs
    /\ \A n \in Runs : n > started => pc[n] = "Unspawned"

\* The inductive invariant, without the count of permits.
LockInv == TypeOK /\ MapLock /\ EngineLock /\ References /\ FlagsClearWhileRunning

\* All that the proofs use of the numbering of runs and of mutex holders.
LEMMA Numbers ==
    /\ Free # ApiCall /\ Free \in Holders /\ ApiCall \in Holders
    /\ \A n \in Runs : /\ n # Free /\ n # ApiCall /\ n \in Holders
                       /\ n \in Int /\ n \in 0 .. MaxStarts
BY ManagerAssumption DEF Runs, Free, ApiCall, Holders

LEMMA InitLocks == Init => LockInv
<1> SUFFICES ASSUME Init PROVE LockInv
  OBVIOUS
<1>0. SomeId \in Ids
  BY ManagerAssumption DEF SomeId
<1>1. TypeOK
  BY <1>0, ManagerAssumption DEF Init, TypeOK, RunnerPc, ApiOps,
     Holders, Runs, Absent, TerminalAt, Free
<1>2. MapLock /\ EngineLock /\ References /\ FlagsClearWhileRunning
  BY ManagerAssumption DEF Init, MapLock, EngineLock, References,
     FlagsClearWhileRunning, Runs, Free, ApiCall, Absent
<1> QED BY <1>1, <1>2 DEF LockInv

LEMMA ApiKeepsLocks ==
  ASSUME LockInv, NEW i \in Ids,
         \/ StartDownload(i)
         \/ PauseDownload(i)
         \/ ResumeDownload(i)
         \/ CancelDownload(i)
         \/ GetProgress(i)
         \/ CleanupDownload(i)
         \/ TtlElapses(i)
  PROVE  LockInv'
<1> USE Numbers, ManagerAssumption DEF taskVars, engineVars, runnerVars, apiVars
<1>0. TypeOK /\ MapLock /\ EngineLock /\ References /\ FlagsClearWhileRunning
  BY DEF LockInv
<1>1. CASE StartDownload(i)
  <2>0. started + 1 \in Runs /\ started' = started + 1 /\ started' \in 0 .. MaxStarts
    BY <1>0, <1>1 DEF TypeOK, Runs, StartDownload
  <2>1. TypeOK'
    BY <1>0, <1>1, <2>0 DEF TypeOK, Active, TerminalAt, RunnerPc, StartDownload
  <2>2. MapLock'
    BY <1>0, <1>1, <2>0 DEF TypeOK, MapLock, ApiFree, StartDownload
  <2>3. EngineLock'
    BY <1>0, <1>1, <2>0 DEF TypeOK, EngineLock, References, StartDownload
  <2>4. References'
    BY <1>0, <1>1, <2>0 DEF TypeOK, References, StartDownload
  <2>5. FlagsClearWhileRunning'
    BY <1>0, <1>1 DEF TypeOK, EngineLock, References,
       FlagsClearWhileRunning, ApiFree, StartDownload
  <2> QED BY <2>1, <2>2, <2>3, <2>4, <2>5 DEF LockInv
<1>2. CASE PauseDownload(i)
  <2>1. TypeOK'
    BY <1>0, <1>2 DEF TypeOK, ApiOps, ApiFree, AwaitEngine, PauseDownload
  <2>2. MapLock'
    BY <1>0, <1>2 DEF TypeOK, MapLock, Absent, ApiFree, AwaitEngine, PauseDownload
  <2>3. EngineLock'
    BY <1>0, <1>2 DEF TypeOK, EngineLock, References, ApiFree, AwaitEngine, PauseDownload
  <2>4. References'
    BY <1>0, <1>2 DEF TypeOK, References, ApiFree, AwaitEngine, PauseDownload
  <2>5. FlagsClearWhileRunning'
    BY <1>0, <1>2 DEF TypeOK, EngineLock, References,
       FlagsClearWhileRunning, ApiFree, AwaitEngine, PauseDownload
  <2> QED BY <2>1, <2>2, <2>3, <2>4, <2>5 DEF LockInv
<1>3. CASE ResumeDownload(i)
  <2>1. TypeOK'
    BY <1>0, <1>3 DEF TypeOK, ApiOps, ApiFree, AwaitEngine, ResumeDownload
  <2>2. MapLock'
    BY <1>0, <1>3 DEF TypeOK, MapLock, Absent, ApiFree, AwaitEngine, ResumeDownload
  <2>3. EngineLock'
    BY <1>0, <1>3 DEF TypeOK, EngineLock, References, ApiFree, AwaitEngine, ResumeDownload
  <2>4. References'
    BY <1>0, <1>3 DEF TypeOK, References, ApiFree, AwaitEngine, ResumeDownload
  <2>5. FlagsClearWhileRunning'
    BY <1>0, <1>3 DEF TypeOK, EngineLock, References,
       FlagsClearWhileRunning, ApiFree, AwaitEngine, ResumeDownload
  <2> QED BY <2>1, <2>2, <2>3, <2>4, <2>5 DEF LockInv
<1>4. CASE CancelDownload(i)
  <2>1. TypeOK'
    BY <1>0, <1>4 DEF TypeOK, ApiOps, ApiFree, AwaitEngine, CancelDownload
  <2>2. MapLock'
    BY <1>0, <1>4 DEF TypeOK, MapLock, ApiFree, AwaitEngine, CancelDownload
  <2>3. EngineLock'
    BY <1>0, <1>4 DEF TypeOK, EngineLock, References, ApiFree, AwaitEngine, CancelDownload
  <2>4. References'
    BY <1>0, <1>4 DEF TypeOK, References, ApiFree, AwaitEngine, CancelDownload
  <2>5. FlagsClearWhileRunning'
    BY <1>0, <1>4 DEF TypeOK, EngineLock, References,
       FlagsClearWhileRunning, ApiFree, AwaitEngine, CancelDownload
  <2> QED BY <2>1, <2>2, <2>3, <2>4, <2>5 DEF LockInv
<1>5. CASE GetProgress(i)
  <2>1. TypeOK'
    BY <1>0, <1>5 DEF TypeOK, ApiOps, ApiFree, AwaitEngine, Swept, GetProgress
  <2>2. MapLock'
    BY <1>0, <1>5 DEF TypeOK, MapLock, ApiFree, AwaitEngine, Swept, GetProgress
  <2>3. EngineLock'
    BY <1>0, <1>5 DEF TypeOK, EngineLock, References, ApiFree, AwaitEngine, Swept, GetProgress
  <2>4. References'
    BY <1>0, <1>5 DEF TypeOK, References, ApiFree, AwaitEngine, Swept, GetProgress
  <2>5. FlagsClearWhileRunning'
    BY <1>0, <1>5 DEF TypeOK, EngineLock, References,
       FlagsClearWhileRunning, ApiFree, AwaitEngine, Swept, GetProgress
  <2> QED BY <2>1, <2>2, <2>3, <2>4, <2>5 DEF LockInv
<1>6. CASE CleanupDownload(i)
  <2>1. TypeOK'
    BY <1>0, <1>6 DEF TypeOK, ApiFree, Swept, CleanupDownload
  <2>2. MapLock'
    BY <1>0, <1>6 DEF TypeOK, MapLock, ApiFree, Swept, CleanupDownload
  <2>3. EngineLock'
    BY <1>0, <1>6 DEF TypeOK, EngineLock, References, ApiFree, Swept, CleanupDownload
  <2>4. References'
    BY <1>0, <1>6 DEF TypeOK, References, ApiFree, Swept, CleanupDownload
  <2>5. FlagsClearWhileRunning'
    BY <1>0, <1>6 DEF TypeOK, EngineLock, References,
       FlagsClearWhileRunning, ApiFree, Swept, CleanupDownload
  <2> QED BY <2>1, <2>2, <2>3, <2>4, <2>5 DEF LockInv
<1>7. CASE TtlElapses(i)
  <2>1. TypeOK'
    BY <1>0, <1>7 DEF TypeOK, TerminalAt, TtlElapses
  <2>2. MapLock'
    BY <1>0, <1>7 DEF TypeOK, MapLock, TtlElapses
  <2>3. EngineLock'
    BY <1>0, <1>7 DEF TypeOK, EngineLock, References, TtlElapses
  <2>4. References'
    BY <1>0, <1>7 DEF TypeOK, References, TtlElapses
  <2>5. FlagsClearWhileRunning'
    BY <1>0, <1>7 DEF TypeOK, EngineLock, References,
       FlagsClearWhileRunning, TtlElapses
  <2> QED BY <2>1, <2>2, <2>3, <2>4, <2>5 DEF LockInv
<1> QED BY <1>1, <1>2, <1>3, <1>4, <1>5, <1>6, <1>7

LEMMA ReturnsKeepLocks ==
  ASSUME LockInv,
         \/ GetAllDownloads
         \/ PauseReturns
         \/ ResumeReturns
         \/ CancelReturns
         \/ ProgressReturns
  PROVE  LockInv'
<1> USE Numbers, ManagerAssumption DEF taskVars, engineVars, runnerVars, apiVars
<1>0. TypeOK /\ MapLock /\ EngineLock /\ References /\ FlagsClearWhileRunning
  BY DEF LockInv
<1>1. CASE GetAllDownloads
  <2>1. TypeOK'
    BY <1>0, <1>1 DEF TypeOK, ApiFree, Swept, GetAllDownloads
  <2>2. MapLock'
    BY <1>0, <1>1 DEF TypeOK, MapLock, ApiFree, Swept, GetAllDownloads
  <2>3. EngineLock'
    BY <1>0, <1>1 DEF TypeOK, EngineLock, References, ApiFree, Swept, GetAllDownloads
  <2>4. References'
    BY <1>0, <1>1 DEF TypeOK, References, ApiFree, Swept, GetAllDownloads
  <2>5. FlagsClearWhileRunning'
    BY <1>0, <1>1 DEF TypeOK, EngineLock, References,
       FlagsClearWhileRunning, ApiFree, Swept, GetAllDownloads
  <2> QED BY <2>1, <2>2, <2>3, <2>4, <2>5 DEF LockInv
<1>2. CASE PauseReturns
  <2>1. TypeOK'
    BY <1>0, <1>2 DEF TypeOK, ApiOps, Active, EngineGranted, PauseReturns
  <2>2. MapLock'
    BY <1>0, <1>2 DEF TypeOK, MapLock, EngineGranted, PauseReturns
  <2>3. EngineLock'
    BY <1>0, <1>2 DEF TypeOK, EngineLock, References, EngineGranted, PauseReturns
  <2>4. References'
    BY <1>0, <1>2 DEF TypeOK, MapLock, References, EngineGranted, PauseReturns
  <2>5. FlagsClearWhileRunning'
    BY <1>0, <1>2 DEF TypeOK, EngineLock, References,
       FlagsClearWhileRunning, EngineGranted, PauseReturns
  <2> QED BY <2>1, <2>2, <2>3, <2>4, <2>5 DEF LockInv
<1>3. CASE ResumeReturns
  <2>1. TypeOK'
    BY <1>0, <1>3 DEF TypeOK, ApiOps, Active, EngineGranted, ResumeReturns
  <2>2. MapLock'
    BY <1>0, <1>3 DEF TypeOK, MapLock, EngineGranted, ResumeReturns
  <2>3. EngineLock'
    BY <1>0, <1>3 DEF TypeOK, EngineLock, References, EngineGranted, ResumeReturns
  <2>4. References'
    BY <1>0, <1>3 DEF TypeOK, MapLock, References, EngineGranted, ResumeReturns
  <2>5. FlagsClearWhileRunning'
    BY <1>0, <1>3 DEF TypeOK, EngineLock, References,
       FlagsClearWhileRunning, EngineGranted, ResumeReturns
  <2> QED BY <2>1, <2>2, <2>3, <2>4, <2>5 DEF LockInv
<1>4. CASE CancelReturns
  <2>1. TypeOK'
    BY <1>0, <1>4 DEF TypeOK, ApiOps, Terminal, TerminalAt, EngineGranted, CancelReturns
  <2>2. MapLock'
    BY <1>0, <1>4 DEF TypeOK, MapLock, EngineGranted, CancelReturns
  <2>3. EngineLock'
    BY <1>0, <1>4 DEF TypeOK, EngineLock, References, EngineGranted, CancelReturns
  <2>4. References'
    BY <1>0, <1>4 DEF TypeOK, MapLock, References, EngineGranted, CancelReturns
  <2>5. FlagsClearWhileRunning'
    BY <1>0, <1>4 DEF TypeOK, EngineLock, References,
       FlagsClearWhileRunning, EngineGranted, CancelReturns
  <2> QED BY <2>1, <2>2, <2>3, <2>4, <2>5 DEF LockInv
<1>5. CASE ProgressReturns
  <2>1. TypeOK'
    BY <1>0, <1>5 DEF TypeOK, ApiOps, EngineGranted, ProgressReturns
  <2>2. MapLock'
    BY <1>0, <1>5 DEF TypeOK, MapLock, EngineGranted, ProgressReturns
  <2>3. EngineLock'
    BY <1>0, <1>5 DEF TypeOK, EngineLock, References, EngineGranted, ProgressReturns
  <2>4. References'
    BY <1>0, <1>5 DEF TypeOK, References, EngineGranted, ProgressReturns
  <2>5. FlagsClearWhileRunning'
    BY <1>0, <1>5 DEF TypeOK, EngineLock, References,
       FlagsClearWhileRunning, EngineGranted, ProgressReturns
  <2> QED BY <2>1, <2>2, <2>3, <2>4, <2>5 DEF LockInv
<1> QED BY <1>1, <1>2, <1>3, <1>4, <1>5

LEMMA RunnerKeepsLocks ==
  ASSUME LockInv, NEW n \in Runs,
         \/ AcquirePermit(n)
         \/ Announce(n)
         \/ LookupEngine(n)
         \/ BeginTransfer(n)
         \/ ReceiveChunk(n)
         \/ TransferComplete(n)
         \/ TransferFails(n)
         \/ MarkCompleted(n)
         \/ StampCompleted(n)
         \/ KeepCancelled(n)
         \/ MarkFailed(n)
  PROVE  LockInv'
<1> USE Numbers, ManagerAssumption DEF taskVars, engineVars, runnerVars, apiVars
<1>0. TypeOK /\ MapLock /\ EngineLock /\ References /\ FlagsClearWhileRunning
  BY DEF LockInv
<1>1. CASE AcquirePermit(n)
  <2>1. TypeOK'
    BY <1>0, <1>1 DEF TypeOK, RunnerPc, Goto, AcquirePermit
  <2>2. MapLock'
    BY <1>0, <1>1 DEF TypeOK, MapLock, Goto, AcquirePermit
  <2>3. EngineLock'
    BY <1>0, <1>1 DEF TypeOK, EngineLock, References, Goto, AcquirePermit
  <2>4. References'
    BY <1>0, <1>1 DEF TypeOK, References, Goto, AcquirePermit
  <2>5. FlagsClearWhileRunning'
    BY <1>0, <1>1 DEF TypeOK, EngineLock, References,
       FlagsClearWhileRunning, Goto, AcquirePermit
  <2> QED BY <2>1, <2>2, <2>3, <2>4, <2>5 DEF LockInv
<1>2. CASE Announce(n)
  <2>1. TypeOK'
    BY <1>0, <1>2 DEF TypeOK, RunnerPc, Active, Goto, Announce
  <2>2. MapLock'
    BY <1>0, <1>2 DEF TypeOK, MapLock, Goto, Announce
  <2>3. EngineLock'
    BY <1>0, <1>2 DEF TypeOK, EngineLock, References, Goto, Announce
  <2>4. References'
    BY <1>0, <1>2 DEF TypeOK, References, Goto, Announce
  <2>5. FlagsClearWhileRunning'
    BY <1>0, <1>2 DEF TypeOK, EngineLock, References,
       FlagsClearWhileRunning, Goto, Announce
  <2> QED BY <2>1, <2>2, <2>3, <2>4, <2>5 DEF LockInv
<1>3. CASE LookupEngine(n)
  <2>1. TypeOK'
    BY <1>0, <1>3 DEF TypeOK, RunnerPc, Goto, LookupEngine
  <2>2. MapLock'
    BY <1>0, <1>3 DEF TypeOK, MapLock, Goto, LookupEngine
  <2>3. EngineLock'
    BY <1>0, <1>3 DEF TypeOK, EngineLock, References, Goto, LookupEngine
  <2>4. References'
    BY <1>0, <1>3 DEF TypeOK, References, Goto, LookupEngine
  <2>5. FlagsClearWhileRunning'
    BY <1>0, <1>3 DEF TypeOK, EngineLock, References,
       FlagsClearWhileRunning, Goto, LookupEngine
  <2> QED BY <2>1, <2>2, <2>3, <2>4, <2>5 DEF LockInv
<1>4. CASE BeginTransfer(n)
  <2>1. TypeOK'
    <3>1. 0 \in 0 .. FileSize
      OBVIOUS
    <3> QED BY <1>0, <1>4, <3>1 DEF TypeOK, RunnerPc, Goto, BeginTransfer
  <2>2. MapLock'
    BY <1>0, <1>4 DEF TypeOK, MapLock, Goto, BeginTransfer
  <2>3. EngineLock'
    BY <1>0, <1>4 DEF TypeOK, EngineLock, References, Goto, BeginTransfer
  <2>4. References'
    BY <1>0, <1>4 DEF TypeOK, References, Goto, BeginTransfer
  <2>5. FlagsClearWhileRunning'
    BY <1>0, <1>4 DEF TypeOK, EngineLock, References,
       FlagsClearWhileRunning, Goto, BeginTransfer
  <2> QED BY <2>1, <2>2, <2>3, <2>4, <2>5 DEF LockInv
<1>5. CASE ReceiveChunk(n)
  <2>1. TypeOK'
    <3>1. using[n] \in Runs /\ downloaded[using[n]] + 1 \in 0 .. FileSize
      BY <1>0, <1>5 DEF TypeOK, References, ReceiveChunk
    <3> QED BY <1>0, <1>5, <3>1 DEF TypeOK, ReceiveChunk
  <2>2. MapLock'
    BY <1>0, <1>5 DEF TypeOK, MapLock, ReceiveChunk
  <2>3. EngineLock'
    BY <1>0, <1>5 DEF TypeOK, EngineLock, References, ReceiveChunk
  <2>4. References'
    BY <1>0, <1>5 DEF TypeOK, References, ReceiveChunk
  <2>5. FlagsClearWhileRunning'
    BY <1>0, <1>5 DEF TypeOK, EngineLock, References,
       FlagsClearWhileRunning, ReceiveChunk
  <2> QED BY <2>1, <2>2, <2>3, <2>4, <2>5 DEF LockInv
<1>6. CASE TransferComplete(n)
  <2>1. TypeOK'
    BY <1>0, <1>6 DEF TypeOK, RunnerPc, Goto, ReleaseEngine, TransferComplete
  <2>2. MapLock'
    BY <1>0, <1>6 DEF TypeOK, MapLock, Goto, ReleaseEngine, TransferComplete
  <2>3. EngineLock'
    BY <1>0, <1>6 DEF TypeOK, EngineLock, References, Goto, ReleaseEngine, TransferComplete
  <2>4. References'
    BY <1>0, <1>6 DEF TypeOK, References, Goto, ReleaseEngine, TransferComplete
  <2>5. FlagsClearWhileRunning'
    BY <1>0, <1>6 DEF TypeOK, EngineLock, References,
       FlagsClearWhileRunning, Goto, ReleaseEngine, TransferComplete
  <2> QED BY <2>1, <2>2, <2>3, <2>4, <2>5 DEF LockInv
<1>7. CASE TransferFails(n)
  <2>1. TypeOK'
    BY <1>0, <1>7 DEF TypeOK, RunnerPc, Goto, ReleaseEngine, TransferFails
  <2>2. MapLock'
    BY <1>0, <1>7 DEF TypeOK, MapLock, Goto, ReleaseEngine, TransferFails
  <2>3. EngineLock'
    BY <1>0, <1>7 DEF TypeOK, EngineLock, References, Goto, ReleaseEngine, TransferFails
  <2>4. References'
    BY <1>0, <1>7 DEF TypeOK, References, Goto, ReleaseEngine, TransferFails
  <2>5. FlagsClearWhileRunning'
    BY <1>0, <1>7 DEF TypeOK, EngineLock, References,
       FlagsClearWhileRunning, Goto, ReleaseEngine, TransferFails
  <2> QED BY <2>1, <2>2, <2>3, <2>4, <2>5 DEF LockInv
<1>8. CASE MarkCompleted(n)
  <2>1. TypeOK'
    BY <1>0, <1>8 DEF TypeOK, RunnerPc, Terminal, Goto, MarkCompleted
  <2>2. MapLock'
    BY <1>0, <1>8 DEF TypeOK, MapLock, Goto, MarkCompleted
  <2>3. EngineLock'
    BY <1>0, <1>8 DEF TypeOK, EngineLock, References, Goto, MarkCompleted
  <2>4. References'
    BY <1>0, <1>8 DEF TypeOK, References, Goto, MarkCompleted
  <2>5. FlagsClearWhileRunning'
    BY <1>0, <1>8 DEF TypeOK, EngineLock, References,
       FlagsClearWhileRunning, Goto, MarkCompleted
  <2> QED BY <2>1, <2>2, <2>3, <2>4, <2>5 DEF LockInv
<1>9. CASE StampCompleted(n)
  <2>1. TypeOK'
    BY <1>0, <1>9 DEF TypeOK, RunnerPc, TerminalAt, Goto, DropPermit, StampCompleted
  <2>2. MapLock'
    BY <1>0, <1>9 DEF TypeOK, MapLock, Goto, DropPermit, StampCompleted
  <2>3. EngineLock'
    BY <1>0, <1>9 DEF TypeOK, EngineLock, References, Goto, DropPermit, StampCompleted
  <2>4. References'
    BY <1>0, <1>9 DEF TypeOK, References, Goto, DropPermit, StampCompleted
  <2>5. FlagsClearWhileRunning'
    BY <1>0, <1>9 DEF TypeOK, EngineLock, References,
       FlagsClearWhileRunning, Goto, DropPermit, StampCompleted
  <2> QED BY <2>1, <2>2, <2>3, <2>4, <2>5 DEF LockInv
<1>10. CASE KeepCancelled(n)
  <2>1. TypeOK'
    BY <1>0, <1>10 DEF TypeOK, RunnerPc, TerminalAt, Goto, DropPermit, KeepCancelled
  <2>2. MapLock'
    BY <1>0, <1>10 DEF TypeOK, MapLock, Goto, DropPermit, KeepCancelled
  <2>3. EngineLock'
    BY <1>0, <1>10 DEF TypeOK, EngineLock, References, Goto, DropPermit, KeepCancelled
  <2>4. References'
    BY <1>0, <1>10 DEF TypeOK, References, Goto, DropPermit, KeepCancelled
  <2>5. FlagsClearWhileRunning'
    BY <1>0, <1>10 DEF TypeOK, EngineLock, References,
       FlagsClearWhileRunning, Goto, DropPermit, KeepCancelled
  <2> QED BY <2>1, <2>2, <2>3, <2>4, <2>5 DEF LockInv
<1>11. CASE MarkFailed(n)
  <2>1. TypeOK'
    BY <1>0, <1>11 DEF TypeOK, RunnerPc, TerminalAt, Terminal, Goto, DropPermit, FailureStatus, MarkFailed
  <2>2. MapLock'
    BY <1>0, <1>11 DEF TypeOK, MapLock, Goto, DropPermit, FailureStatus, MarkFailed
  <2>3. EngineLock'
    BY <1>0, <1>11 DEF TypeOK, EngineLock, References, Goto, DropPermit, FailureStatus, MarkFailed
  <2>4. References'
    BY <1>0, <1>11 DEF TypeOK, References, Goto, DropPermit, FailureStatus, MarkFailed
  <2>5. FlagsClearWhileRunning'
    BY <1>0, <1>11 DEF TypeOK, EngineLock, References,
       FlagsClearWhileRunning, Goto, DropPermit, FailureStatus, MarkFailed
  <2> QED BY <2>1, <2>2, <2>3, <2>4, <2>5 DEF LockInv
<1> QED BY <1>1, <1>2, <1>3, <1>4, <1>5, <1>6, <1>7, <1>8, <1>9, <1>10, <1>11

LEMMA StepKeepsLocks == LockInv /\ [Next]_vars => LockInv'
<1> SUFFICES ASSUME LockInv, [Next]_vars PROVE LockInv'
  OBVIOUS
<1>1. CASE UNCHANGED vars
  BY <1>1 DEF LockInv, TypeOK, MapLock, EngineLock, References,
     FlagsClearWhileRunning, vars, taskVars, engineVars, runnerVars, apiVars
<1>2. CASE ApiStep
  BY <1>2, ApiKeepsLocks, ReturnsKeepLocks DEF ApiStep, ApiReturns
<1>3. CASE \E n \in Runs : RunnerStep(n)
  BY <1>3, RunnerKeepsLocks DEF RunnerStep
<1>4. CASE \E i \in Ids : TtlElapses(i)
  BY <1>4, ApiKeepsLocks
<1> QED BY <1>1, <1>2, <1>3, <1>4 DEF Next

THEOREM Locks == Spec => []LockInv
<1>1. Init => LockInv
  BY InitLocks
<1>2. LockInv /\ [Next]_vars => LockInv'
  BY StepKeepsLocks
<1> QED BY <1>1, <1>2, PTL DEF Spec

\* The variables of the manager always have their types.
THEOREM TypeCorrect == Spec => []TypeOK
<1>1. LockInv => TypeOK
  BY DEF LockInv
<1> QED BY <1>1, Locks, PTL

\* A party that waits for the task map never holds an engine, so the nested
\* locking of the API calls cannot close a cycle, however many tasks there are.
THEOREM LockOrder == Spec => []NoHoldAndWait
<1>1. LockInv => NoHoldAndWait
  <2> SUFFICES ASSUME LockInv, NEW e \in Runs, owner[e] # Free
               PROVE  \E n \in Runs : owner[e] = n /\ pc[n] = "Running" /\ using[n] = e
    BY DEF NoHoldAndWait
  <2>1. owner[e] \in Holders /\ owner[e] # ApiCall
    BY DEF LockInv, TypeOK, EngineLock
  <2>2. owner[e] \in Runs
    BY <2>1, ManagerAssumption DEF Holders, ApiCall, Free, Runs
  <2> QED BY <2>2 DEF LockInv, EngineLock
<1> QED BY <1>1, Locks, PTL

\* No transfer ever runs with a raised flag: a pause or a cancel reaches an
\* engine before its transfer starts or after it has ended, never during it.
THEOREM RequestsNeverReachTransfer == Spec => []FlagsClearWhileRunning
<1>1. LockInv => FlagsClearWhileRunning
  BY DEF LockInv
<1> QED BY <1>1, Locks, PTL

\* The outcome of a transfer never replaces Cancelled.
THEOREM OutcomeKeepsCancelled == Spec => CancelOutlivesOutcome
<1>1. LockInv /\ LockInv' /\ [Next]_vars =>
        [\A i \in Ids : status[i] = "Cancelled" =>
             status'[i] \notin {"Completed", "Failed"}]_vars
  <2> SUFFICES ASSUME LockInv, Next, NEW i \in Ids, status[i] = "Cancelled"
               PROVE  status'[i] \notin {"Completed", "Failed"}
    BY DEF vars
  <2> USE DEF LockInv, TypeOK, taskVars, engineVars, runnerVars, apiVars
  <2>1. ASSUME NEW j \in Ids,
               \/ StartDownload(j) \/ PauseDownload(j) \/ ResumeDownload(j)
               \/ CancelDownload(j) \/ GetProgress(j) \/ CleanupDownload(j)
               \/ TtlElapses(j) \/ GetAllDownloads
        PROVE  status'[i] \in {"Cancelled", Absent}
    BY <2>1 DEF StartDownload, PauseDownload, ResumeDownload, CancelDownload,
       GetProgress, CleanupDownload, TtlElapses, GetAllDownloads, Swept,
       AwaitEngine, Terminal, Absent
  <2>2. CASE ApiReturns
    BY <2>2 DEF ApiReturns, PauseReturns, ResumeReturns, CancelReturns,
       ProgressReturns, EngineGranted
  <2>3. ASSUME NEW n \in Runs, RunnerStep(n)
        PROVE  status'[i] \in {"Cancelled", "Downloading"}
    <3>1. CASE Announce(n)
      BY <3>1 DEF Announce
    <3>2. CASE MarkCompleted(n)
      BY <3>2 DEF MarkCompleted
    <3>3. CASE MarkFailed(n)
      BY <3>3 DEF MarkFailed, FailureStatus
    <3>4. CASE AcquirePermit(n) \/ LookupEngine(n) \/ BeginTransfer(n) \/ ReceiveChunk(n)
      BY <3>4 DEF AcquirePermit, LookupEngine, BeginTransfer, ReceiveChunk
    <3>5. CASE \/ TransferComplete(n) \/ TransferFails(n)
               \/ StampCompleted(n) \/ KeepCancelled(n)
      BY <3>5 DEF TransferComplete, TransferFails, StampCompleted, KeepCancelled
    <3> QED BY <2>3, <3>1, <3>2, <3>3, <3>4, <3>5 DEF RunnerStep
  <2> QED BY <2>1, <2>2, <2>3 DEF Next, ApiStep, Absent
<1> QED BY <1>1, Locks, PTL DEF Spec, CancelOutlivesOutcome

-----------------------------------------------------------------------------
(* The count of permits.                                                   *)

LEMMA RunsFinite == IsFiniteSet(Runs)
BY ManagerAssumption, FS_Interval DEF Runs

\* A step moves at most one runner, and the semaphore follows it.
LEMMA StepMovesPermit ==
  ASSUME LockInv, [Next]_vars
  PROVE  \/ WithPermit' = WithPermit /\ permits' = permits
         \/ \E n \in Runs \ WithPermit :
               WithPermit' = WithPermit \cup {n} /\ permits' = permits - 1
         \/ \E n \in WithPermit :
               WithPermit' = WithPermit \ {n} /\ permits' = permits + 1
<1> USE DEF LockInv, TypeOK, taskVars, engineVars, runnerVars, apiVars
<1>1. CASE UNCHANGED vars
  BY <1>1 DEF vars, WithPermit
<1>2. CASE \E i \in Ids : StartDownload(i)
  <2>1. started + 1 \in Runs /\ pc[started + 1] = "Unspawned"
    BY <1>2, ManagerAssumption DEF StartDownload, Runs, References
  <2> QED BY <1>2, <2>1 DEF StartDownload, WithPermit
<1>3. CASE \/ \E i \in Ids : \/ PauseDownload(i) \/ ResumeDownload(i)
                           \/ CancelDownload(i) \/ GetProgress(i)
                           \/ CleanupDownload(i) \/ TtlElapses(i)
           \/ GetAllDownloads \/ ApiReturns
  BY <1>3 DEF PauseDownload, ResumeDownload, CancelDownload, GetProgress,
     CleanupDownload, TtlElapses, GetAllDownloads, AwaitEngine, ApiReturns,
     PauseReturns, ResumeReturns, CancelReturns, ProgressReturns, EngineGranted,
     WithPermit
<1>4. ASSUME NEW n \in Runs, AcquirePermit(n)
      PROVE  /\ n \in Runs \ WithPermit
             /\ WithPermit' = WithPermit \cup {n} /\ permits' = permits - 1
  BY <1>4 DEF AcquirePermit, Goto, WithPermit
<1>5. ASSUME NEW n \in Runs, StampCompleted(n) \/ KeepCancelled(n) \/ MarkFailed(n)
      PROVE  /\ n \in WithPermit
             /\ WithPermit' = WithPermit \ {n} /\ permits' = permits + 1
  BY <1>5 DEF StampCompleted, KeepCancelled, MarkFailed, DropPermit, Goto, WithPermit
<1>6. ASSUME NEW n \in Runs,
             \/ Announce(n) \/ LookupEngine(n) \/ BeginTransfer(n) \/ ReceiveChunk(n)
             \/ TransferComplete(n) \/ TransferFails(n) \/ MarkCompleted(n)
      PROVE  WithPermit' = WithPermit /\ permits' = permits
  <2>1. CASE Announce(n) \/ LookupEngine(n)
    BY <2>1 DEF Announce, LookupEngine, Goto, WithPermit
  <2>2. CASE BeginTransfer(n) \/ ReceiveChunk(n)
    BY <2>2 DEF BeginTransfer, ReceiveChunk, Goto, WithPermit
  <2>3. CASE TransferComplete(n) \/ TransferFails(n) \/ MarkCompleted(n)
    BY <2>3 DEF TransferComplete, TransferFails, MarkCompleted, Goto, WithPermit
  <2> QED BY <1>6, <2>1, <2>2, <2>3
<1> QED BY <1>1, <1>2, <1>3, <1>4, <1>5, <1>6 DEF Next, ApiStep, RunnerStep

\* Permits are neither lost nor made, on any path of any number of runners.
THEOREM Permits == Spec => []PermitsConserved
<1>1. Init => PermitsConserved
  <2> SUFFICES ASSUME Init PROVE PermitsConserved
    OBVIOUS
  <2>1. WithPermit = {}
    BY DEF Init, WithPermit
  <2> QED BY <2>1, FS_EmptySet, ManagerAssumption DEF Init, PermitsConserved
<1>2. LockInv /\ PermitsConserved /\ [Next]_vars => PermitsConserved'
  <2> SUFFICES ASSUME LockInv, PermitsConserved, [Next]_vars PROVE PermitsConserved'
    OBVIOUS
  <2>1. IsFiniteSet(WithPermit)
    BY RunsFinite, FS_Subset DEF WithPermit
  <2>2. Cardinality(WithPermit) \in Nat /\ permits \in Nat
    BY <2>1, FS_CardinalityType DEF LockInv, TypeOK
  <2>3. CASE WithPermit' = WithPermit /\ permits' = permits
    BY <2>3 DEF PermitsConserved
  <2>4. ASSUME NEW n \in Runs \ WithPermit,
               WithPermit' = WithPermit \cup {n}, permits' = permits - 1
        PROVE  PermitsConserved'
    <3>1. Cardinality(WithPermit') = Cardinality(WithPermit) + 1
      BY <2>1, <2>4, FS_AddElement
    <3> QED BY <3>1, <2>2, <2>4 DEF PermitsConserved
  <2>5. ASSUME NEW n \in WithPermit,
               WithPermit' = WithPermit \ {n}, permits' = permits + 1
        PROVE  PermitsConserved'
    <3>1. Cardinality(WithPermit') = Cardinality(WithPermit) - 1
      BY <2>1, <2>5, FS_RemoveElement
    <3> QED BY <3>1, <2>2, <2>5 DEF PermitsConserved
  <2> QED BY <2>3, <2>4, <2>5, StepMovesPermit
<1> QED BY <1>1, <1>2, Locks, PTL DEF Spec
=============================================================================
