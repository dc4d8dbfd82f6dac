-------------------------- MODULE RunLifecycleProofs -------------------------
(* The invariants of RunLifecycle for every set of runs and every bound, and   *)
(* that it implements GpuLease.                                                *)
EXTENDS RunLifecycle, TLAPS

USE RunAssumption, BoundAssumption
    DEF rowVars, fileVars, childVars, excVars, workVars, handVars, recVars,
        hostVars, RunStatus, ActiveStatus, TerminalStatus, JobStatus,
        TerminalJobStatus, OwnerPhase, ProcState, AwaitPoint, MidPoint

------------------------------------------------------------------------------
(* The invariant holds initially, and every action keeps it.                  *)

\* The initial registry, without runs and processes, satisfies the invariant.
LEMMA InitInv == Init => IndInv
<1> SUFFICES ASSUME Init PROVE IndInv
  OBVIOUS
<1>1. TypeOK
  BY DEF Init, TypeOK, RowType, FileType, ChildType, WorkType, HostType
<1>2. \A r \in Run : ~Computing(r) /\ ~Alive(r) /\ ~Doomed(r)
  BY DEF Init, Computing, Alive, Doomed
<1> QED
  BY <1>1, <1>2 DEF Init, IndInv, ControlInv, OwnerInv, ManifestInv, SpawnInv,
     SurvivorInv, GiveUpInv, AuthorityInv, CancelInv, SingleComputing

\* Types are kept by a request of a client.
LEMMA RequestKeepsTypes == ASSUME IndInv, Request PROVE TypeOK'
<1> USE DEF IndInv, ControlInv, TypeOK, RowType, FileType, ChildType, WorkType,
            HostType, Leader
<1>1. ASSUME NEW r \in Run, CreateRun(r) PROVE TypeOK'
  BY <1>1 DEF CreateRun, LoopFree
<1>2. ASSUME NEW r \in Run, DismissTerminalRun(r) PROVE TypeOK'
  BY <1>2 DEF DismissTerminalRun
<1>3. ASSUME NEW r \in Run, Cancel(r) PROVE TypeOK'
  <2>1. RowType' BY <1>3 DEF Cancel, LoopFree, CancelRow
  <2>2. FileType' BY <1>3 DEF Cancel, LoopFree, CancelRow
  <2>3. revoked' = revoked \/ revoked' = [revoked EXCEPT ![r] = TRUE]
    BY <1>3 DEF Cancel
  <2>4. ChildType' BY <1>3, <2>3 DEF Cancel
  <2>5. WorkType' BY <1>3 DEF Cancel, LoopFree, CancelRow
  <2>6. HostType' BY <1>3 DEF Cancel, LoopFree, CancelRow
  <2> QED BY <2>1, <2>2, <2>4, <2>5, <2>6
<1>4. ASSUME NEW r \in Run, ApiCancel(r) PROVE TypeOK'
  BY <1>4 DEF ApiCancel, CancelRow
<1>5. CASE CancelSync
  <2>1. RowType' BY <1>5 DEF CancelSync, CancelManifest, SyncManifestTerminal,
      SyncTerminal, TransitionRun, Fault, DurableSuccess
  <2>2. FileType' BY <1>5 DEF CancelSync, CancelManifest, SyncManifestTerminal,
      SyncTerminal, TransitionRun, Fault, DurableSuccess
  <2>3. ChildType' BY <1>5 DEF CancelSync, CancelManifest,
      SyncManifestTerminal, SyncTerminal, TransitionRun, Fault, DurableSuccess
  <2>4. WorkType' BY <1>5 DEF CancelSync, CancelManifest, SyncManifestTerminal,
      SyncTerminal, TransitionRun, Fault, DurableSuccess
  <2>5. HostType' BY <1>5 DEF CancelSync, CancelManifest, SyncManifestTerminal,
      SyncTerminal, TransitionRun, Fault, DurableSuccess
  <2> QED BY <2>1, <2>2, <2>3, <2>4, <2>5
<1>6. CASE ApiCancelSync
  <2>1. RowType' BY <1>6 DEF ApiCancelSync, CancelManifest,
      SyncManifestTerminal, SyncTerminal, TransitionRun, Fault, DurableSuccess
  <2>2. FileType' BY <1>6 DEF ApiCancelSync, CancelManifest,
      SyncManifestTerminal, SyncTerminal, TransitionRun, Fault, DurableSuccess
  <2>3. ChildType' BY <1>6 DEF ApiCancelSync, CancelManifest,
      SyncManifestTerminal, SyncTerminal, TransitionRun, Fault, DurableSuccess
  <2>4. WorkType' BY <1>6 DEF ApiCancelSync, CancelManifest,
      SyncManifestTerminal, SyncTerminal, TransitionRun, Fault, DurableSuccess
  <2>5. HostType' BY <1>6 DEF ApiCancelSync, CancelManifest,
      SyncManifestTerminal, SyncTerminal, TransitionRun, Fault, DurableSuccess
  <2> QED BY <2>1, <2>2, <2>3, <2>4, <2>5
<1>7. CASE ApiDies
  BY <1>7 DEF ApiDies, Fault
<1> QED
    BY <1>1, <1>2, <1>3, <1>4, <1>5, <1>6, <1>7 DEF Request

\* The invariant is kept by a request of a client.
LEMMA RequestKeepsInv == ASSUME IndInv, Request PROVE IndInv'
<1> USE DEF IndInv, TypeOK, RowType, FileType, ChildType, WorkType, HostType,
            ControlInv, OwnerInv, ManifestInv, SpawnInv, SurvivorInv, GiveUpInv,
            AuthorityInv, CancelInv, SingleComputing, Computing, Alive, Leader,
            Doomed
<1>0. TypeOK' BY RequestKeepsTypes
<1>1. ASSUME NEW r \in Run, CreateRun(r) PROVE IndInv'
  BY <1>1, <1>0 DEF CreateRun, LoopFree
<1>2. ASSUME NEW r \in Run, DismissTerminalRun(r) PROVE IndInv'
  BY <1>2, <1>0 DEF DismissTerminalRun
<1>3. ASSUME NEW r \in Run, Cancel(r) PROVE IndInv'
  BY <1>3, <1>0 DEF Cancel, LoopFree, CancelRow
<1>4. ASSUME NEW r \in Run, ApiCancel(r) PROVE IndInv'
  BY <1>4, <1>0 DEF ApiCancel, CancelRow
<1>5. CASE CancelSync
  BY <1>5, <1>0 DEF CancelSync, CancelManifest, SyncManifestTerminal,
      SyncTerminal, TransitionRun, Fault, DurableSuccess
<1>6. CASE ApiCancelSync
  BY <1>6, <1>0 DEF ApiCancelSync, CancelManifest, SyncManifestTerminal,
      SyncTerminal, TransitionRun, Fault, DurableSuccess
<1>7. CASE ApiDies
  BY <1>7, <1>0 DEF ApiDies, Fault
<1> HIDE DEF IndInv
<1> QED
    BY <1>1, <1>2, <1>3, <1>4, <1>5, <1>6, <1>7 DEF Request

\* Types are kept by a step of the worker coroutine.
LEMMA WorkerKeepsTypes == ASSUME IndInv, Worker PROVE TypeOK'
<1> USE DEF IndInv, ControlInv, TypeOK, RowType, FileType, ChildType, WorkType,
            HostType, Leader
<1>1. CASE LoopTop
  <2>1. RowType' BY <1>1 DEF LoopTop, At, LoopFree
  <2>2. FileType' BY <1>1 DEF LoopTop, At, LoopFree
  <2>3. ChildType' BY <1>1 DEF LoopTop, At, LoopFree
  <2>4. WorkType' BY <1>1 DEF LoopTop, At, LoopFree
  <2>5. HostType' BY <1>1 DEF LoopTop, At, LoopFree
  <2> QED BY <2>1, <2>2, <2>3, <2>4, <2>5
<1>2. CASE ClaimNextQueuedRun
  BY <1>2 DEF ClaimNextQueuedRun, At, LoopFree, OldestIn, Claimable, QueueHeld
<1>3. CASE ClaimNothing
  BY <1>3 DEF ClaimNothing, At, LoopFree
<1>4. CASE PrepareFails
  <2>1. RowType' BY <1>4 DEF PrepareFails, At, LoopFree, Fault, EnterExcept
  <2>2. FileType' BY <1>4 DEF PrepareFails, At, LoopFree, Fault, EnterExcept
  <2>3. ChildType' BY <1>4 DEF PrepareFails, At, LoopFree, Fault, EnterExcept
  <2>4. WorkType' BY <1>4 DEF PrepareFails, At, LoopFree, Fault, EnterExcept
  <2>5. HostType' BY <1>4 DEF PrepareFails, At, LoopFree, Fault, EnterExcept
  <2> QED BY <2>1, <2>2, <2>3, <2>4, <2>5
<1>5. CASE BeginRunStart
  BY <1>5 DEF BeginRunStart, At, LoopFree
<1>6. CASE SpawnChild
  BY <1>6 DEF SpawnChild, At, LoopFree
<1>7. CASE SpawnFails
  <2>1. RowType' BY <1>7 DEF SpawnFails, At, LoopFree, Fault, EnterExcept
  <2>2. FileType' BY <1>7 DEF SpawnFails, At, LoopFree, Fault, EnterExcept
  <2>3. ChildType' BY <1>7 DEF SpawnFails, At, LoopFree, Fault, EnterExcept
  <2>4. WorkType' BY <1>7 DEF SpawnFails, At, LoopFree, Fault, EnterExcept
  <2>5. HostType' BY <1>7 DEF SpawnFails, At, LoopFree, Fault, EnterExcept
  <2> QED BY <2>1, <2>2, <2>3, <2>4, <2>5
<1>8. CASE MarkRunRunning
  <2>1. RowType' BY <1>8 DEF MarkRunRunning, At, LoopFree
  <2>2. FileType' BY <1>8 DEF MarkRunRunning, At, LoopFree
  <2>3. ChildType' BY <1>8 DEF MarkRunRunning, At, LoopFree
  <2>4. WorkType' BY <1>8 DEF MarkRunRunning, At, LoopFree
  <2>5. HostType' BY <1>8 DEF MarkRunRunning, At, LoopFree
  <2> QED BY <2>1, <2>2, <2>3, <2>4, <2>5
<1>9. CASE RefuseDone
  BY <1>9 DEF RefuseDone, At, LoopFree
<1>10. CASE RefuseTimeout
  BY <1>10 DEF RefuseTimeout, At, LoopFree, EnterExcept
<1>11. CASE Attach
  BY <1>11 DEF Attach, At, LoopFree, RecordRunOwner
<1>12. CASE AttachFails
  BY <1>12 DEF AttachFails, At, LoopFree, EnterExcept
<1>13. CASE Authorize
  BY <1>13 DEF Authorize, At, LoopFree
<1>14. CASE WatchFails
  <2>1. RowType' BY <1>14 DEF WatchFails, At, LoopFree, EnterExcept, Fault
  <2>2. FileType' BY <1>14 DEF WatchFails, At, LoopFree, EnterExcept, Fault
  <2>3. ChildType' BY <1>14 DEF WatchFails, At, LoopFree, EnterExcept, Fault
  <2>4. WorkType' BY <1>14 DEF WatchFails, At, LoopFree, EnterExcept, Fault
  <2>5. HostType' BY <1>14 DEF WatchFails, At, LoopFree, EnterExcept, Fault
  <2> QED BY <2>1, <2>2, <2>3, <2>4, <2>5
<1>15. CASE Finish
  BY <1>15 DEF Finish, At, LoopFree, TransitionRun, SyncOrCleanup,
      FinishedStatus, FinishSources, DurableSuccess
<1>16. CASE ExceptTerminated
  BY <1>16 DEF ExceptTerminated, At, LoopFree
<1>17. CASE ExceptDecide
  <2>1. RowType' BY <1>17 DEF ExceptDecide, At, LoopFree, TransitionRun,
      SyncOrCleanup, DurableSuccess
  <2>2. FileType' BY <1>17 DEF ExceptDecide, At, LoopFree, TransitionRun,
      SyncOrCleanup, DurableSuccess
  <2>3. ChildType' BY <1>17 DEF ExceptDecide, At, LoopFree, TransitionRun,
      SyncOrCleanup, DurableSuccess
  <2>4. WorkType' BY <1>17 DEF ExceptDecide, At, LoopFree, TransitionRun,
      SyncOrCleanup, DurableSuccess
  <2>5. HostType' BY <1>17 DEF ExceptDecide, At, LoopFree, TransitionRun,
      SyncOrCleanup, DurableSuccess
  <2> QED BY <2>1, <2>2, <2>3, <2>4, <2>5
<1>18. CASE WorkerSync
  <2>1. RowType' BY <1>18 DEF WorkerSync, At, LoopFree, SyncManifestTerminal,
      SyncTerminal, Fault
  <2>2. FileType' BY <1>18 DEF WorkerSync, At, LoopFree, SyncManifestTerminal,
      SyncTerminal, Fault
  <2>3. ChildType' BY <1>18 DEF WorkerSync, At, LoopFree, SyncManifestTerminal,
      SyncTerminal, Fault
  <2>4. WorkType' BY <1>18 DEF WorkerSync, At, LoopFree, SyncManifestTerminal,
      SyncTerminal, Fault
  <2>5. HostType' BY <1>18 DEF WorkerSync, At, LoopFree, SyncManifestTerminal,
      SyncTerminal, Fault
  <2> QED BY <2>1, <2>2, <2>3, <2>4, <2>5
<1>19. CASE Cleanup
  <2>1. RowType' BY <1>19 DEF Cleanup, At, LoopFree, ReleaseOwner,
      InspectOwner, RecordRunOwner
  <2>2. FileType' BY <1>19 DEF Cleanup, At, LoopFree, ReleaseOwner,
      InspectOwner, RecordRunOwner
  <2>3. ChildType' BY <1>19 DEF Cleanup, At, LoopFree, ReleaseOwner,
      InspectOwner, RecordRunOwner
  <2>4. WorkType' BY <1>19 DEF Cleanup, At, LoopFree, ReleaseOwner,
      InspectOwner, RecordRunOwner
  <2>5. HostType' BY <1>19 DEF Cleanup, At, LoopFree, ReleaseOwner,
      InspectOwner, RecordRunOwner
  <2> QED BY <2>1, <2>2, <2>3, <2>4, <2>5
<1>20. CASE CleanupWait
  <2>1. RowType' BY <1>20 DEF CleanupWait, At, LoopFree, ReleaseOwner,
      InspectOwner, RecordRunOwner
  <2>2. FileType' BY <1>20 DEF CleanupWait, At, LoopFree, ReleaseOwner,
      InspectOwner, RecordRunOwner
  <2>3. ChildType' BY <1>20 DEF CleanupWait, At, LoopFree, ReleaseOwner,
      InspectOwner, RecordRunOwner
  <2>4. WorkType' BY <1>20 DEF CleanupWait, At, LoopFree, ReleaseOwner,
      InspectOwner, RecordRunOwner
  <2>5. HostType' BY <1>20 DEF CleanupWait, At, LoopFree, ReleaseOwner,
      InspectOwner, RecordRunOwner
  <2> QED BY <2>1, <2>2, <2>3, <2>4, <2>5
<1>21. CASE HaltSpawned
  BY <1>21 DEF HaltSpawned, At, LoopFree, StopActiveRun, StopSources,
      TransitionRun, DurableSuccess
<1>22. CASE HaltSync
  <2>1. RowType' BY <1>22 DEF HaltSync, At, LoopFree, SyncManifestTerminal,
      SyncTerminal, Fault
  <2>2. FileType' BY <1>22 DEF HaltSync, At, LoopFree, SyncManifestTerminal,
      SyncTerminal, Fault
  <2>3. ChildType' BY <1>22 DEF HaltSync, At, LoopFree, SyncManifestTerminal,
      SyncTerminal, Fault
  <2>4. WorkType' BY <1>22 DEF HaltSync, At, LoopFree, SyncManifestTerminal,
      SyncTerminal, Fault
  <2>5. HostType' BY <1>22 DEF HaltSync, At, LoopFree, SyncManifestTerminal,
      SyncTerminal, Fault
  <2> QED BY <2>1, <2>2, <2>3, <2>4, <2>5
<1>23. CASE HaltWait
  BY <1>23 DEF HaltWait, At, LoopFree
<1> QED
    BY <1>1, <1>2, <1>3, <1>4, <1>5, <1>6, <1>7, <1>8, <1>9, <1>10, <1>11,
        <1>12, <1>13, <1>14, <1>15, <1>16, <1>17, <1>18, <1>19, <1>20, <1>21,
        <1>22, <1>23 DEF Worker

\* The invariant is kept by a step of the worker coroutine.
LEMMA WorkerKeepsInv == ASSUME IndInv, Worker PROVE IndInv'
<1> USE DEF IndInv, TypeOK, RowType, FileType, ChildType, WorkType, HostType,
            ControlInv, OwnerInv, ManifestInv, SpawnInv, SurvivorInv, GiveUpInv,
            AuthorityInv, CancelInv, SingleComputing, Computing, Alive, Leader,
            Doomed
<1>0. TypeOK' BY WorkerKeepsTypes
<1>1. CASE LoopTop
  BY <1>1, <1>0 DEF LoopTop, At, LoopFree
<1>2. CASE ClaimNextQueuedRun
  BY <1>2, <1>0 DEF ClaimNextQueuedRun, At, LoopFree, OldestIn, Claimable,
      QueueHeld
<1>3. CASE ClaimNothing
  BY <1>3, <1>0 DEF ClaimNothing, At, LoopFree
<1>4. CASE PrepareFails
  BY <1>4, <1>0 DEF PrepareFails, At, LoopFree, Fault, EnterExcept
<1>5. CASE BeginRunStart
  BY <1>5, <1>0 DEF BeginRunStart, At, LoopFree
<1>6. CASE SpawnChild
  BY <1>6, <1>0 DEF SpawnChild, At, LoopFree
<1>7. CASE SpawnFails
  BY <1>7, <1>0 DEF SpawnFails, At, LoopFree, Fault, EnterExcept
<1>8. CASE MarkRunRunning
  BY <1>8, <1>0 DEF MarkRunRunning, At, LoopFree
<1>9. CASE RefuseDone
  BY <1>9, <1>0 DEF RefuseDone, At, LoopFree
<1>10. CASE RefuseTimeout
  BY <1>10, <1>0 DEF RefuseTimeout, At, LoopFree, EnterExcept
<1>11. CASE Attach
  BY <1>11, <1>0 DEF Attach, At, LoopFree, RecordRunOwner
<1>12. CASE AttachFails
  BY <1>12, <1>0 DEF AttachFails, At, LoopFree, EnterExcept
<1>13. CASE Authorize
  BY <1>13, <1>0 DEF Authorize, At, LoopFree
<1>14. CASE WatchFails
  BY <1>14, <1>0 DEF WatchFails, At, LoopFree, EnterExcept, Fault
<1>15. CASE Finish
  BY <1>15, <1>0 DEF Finish, At, LoopFree, TransitionRun, SyncOrCleanup,
      FinishedStatus, FinishSources, DurableSuccess
<1>16. CASE ExceptTerminated
  <2>1. ControlInv' BY <1>16, <1>0 DEF ExceptTerminated, At, LoopFree
  <2>2. OwnerInv' BY <1>16, <1>0 DEF ExceptTerminated, At, LoopFree
  <2>3. ManifestInv' BY <1>16, <1>0 DEF ExceptTerminated, At, LoopFree
  <2>4. SpawnInv' BY <1>16, <1>0 DEF ExceptTerminated, At, LoopFree
  <2>5. SurvivorInv' BY <1>16, <1>0 DEF ExceptTerminated, At, LoopFree
  <2>6. GiveUpInv' BY <1>16, <1>0 DEF ExceptTerminated, At, LoopFree
  <2>7. AuthorityInv' BY <1>16, <1>0 DEF ExceptTerminated, At, LoopFree
  <2>8. CancelInv' BY <1>16, <1>0 DEF ExceptTerminated, At, LoopFree
  <2>9. SingleComputing' BY <1>16, <1>0 DEF ExceptTerminated, At, LoopFree
  <2> QED BY <1>0, <2>1, <2>2, <2>3, <2>4, <2>5, <2>6, <2>7, <2>8, <2>9
<1>17. CASE ExceptDecide
  BY <1>17, <1>0 DEF ExceptDecide, At, LoopFree, TransitionRun, SyncOrCleanup,
      DurableSuccess
<1>18. CASE WorkerSync
  BY <1>18, <1>0 DEF WorkerSync, At, LoopFree, SyncManifestTerminal,
      SyncTerminal, Fault
<1>19. CASE Cleanup
  BY <1>19, <1>0 DEF Cleanup, At, LoopFree, ReleaseOwner, InspectOwner,
      RecordRunOwner
<1>20. CASE CleanupWait
  BY <1>20, <1>0 DEF CleanupWait, At, LoopFree, ReleaseOwner, InspectOwner,
      RecordRunOwner
<1>21. CASE HaltSpawned
  BY <1>21, <1>0 DEF HaltSpawned, At, LoopFree, StopActiveRun, StopSources,
      TransitionRun, DurableSuccess
<1>22. CASE HaltSync
  BY <1>22, <1>0 DEF HaltSync, At, LoopFree, SyncManifestTerminal,
      SyncTerminal, Fault
<1>23. CASE HaltWait
  BY <1>23, <1>0 DEF HaltWait, At, LoopFree
<1> HIDE DEF IndInv
<1> QED
    BY <1>1, <1>2, <1>3, <1>4, <1>5, <1>6, <1>7, <1>8, <1>9, <1>10, <1>11,
        <1>12, <1>13, <1>14, <1>15, <1>16, <1>17, <1>18, <1>19, <1>20, <1>21,
        <1>22, <1>23 DEF Worker

\* The counters and control state of a server that went down.
LEMMA GoDownTypes == ASSUME TypeOK, GoDown PROVE HostType'
<1>1. restarts' \in Nat
  BY DEF GoDown, TypeOK, HostType
<1> QED
  BY <1>1 DEF GoDown, TypeOK, HostType

\* Types are kept by a step of the shutdown.
LEMMA ShutdownKeepsTypes == ASSUME IndInv, Shutdown PROVE TypeOK'
<1> USE DEF IndInv, ControlInv, TypeOK, RowType, FileType, ChildType, WorkType,
            HostType, Leader
<1>1. CASE StopBegin
  BY <1>1 DEF StopBegin, LoopFree
<1>2. CASE StopActive
  <2>1. RowType' BY <1>2 DEF StopActive, LoopFree, StopActiveRun, StopSources,
      TransitionRun, DurableSuccess, LockHeld
  <2>2. FileType' BY <1>2 DEF StopActive, LoopFree, StopActiveRun, StopSources,
      TransitionRun, DurableSuccess, LockHeld
  <2>3. ChildType' BY <1>2 DEF StopActive, LoopFree, StopActiveRun,
      StopSources, TransitionRun, DurableSuccess, LockHeld
  <2>4. WorkType' BY <1>2 DEF StopActive, LoopFree, StopActiveRun, StopSources,
      TransitionRun, DurableSuccess, LockHeld
  <2>5. HostType' BY <1>2 DEF StopActive, LoopFree, StopActiveRun, StopSources,
      TransitionRun, DurableSuccess, LockHeld
  <2> QED BY <2>1, <2>2, <2>3, <2>4, <2>5
<1>3. CASE StopSync
  <2>1. RowType' BY <1>3 DEF StopSync, SyncManifestTerminal, SyncTerminal,
      Fault
  <2>2. FileType' BY <1>3 DEF StopSync, SyncManifestTerminal, SyncTerminal,
      Fault
  <2>3. ChildType' BY <1>3 DEF StopSync, SyncManifestTerminal, SyncTerminal,
      Fault
  <2>4. WorkType' BY <1>3 DEF StopSync, SyncManifestTerminal, SyncTerminal,
      Fault
  <2>5. HostType' BY <1>3 DEF StopSync, SyncManifestTerminal, SyncTerminal,
      Fault
  <2> QED BY <2>1, <2>2, <2>3, <2>4, <2>5
<1>4. CASE StopWait
  BY <1>4 DEF StopWait, LoopFree
<1>5. CASE StopCancelsWorker
  <2>1. RowType' BY <1>5 DEF StopCancelsWorker, LoopFree, EnterExcept
  <2>2. FileType' BY <1>5 DEF StopCancelsWorker, LoopFree, EnterExcept
  <2>3. ChildType' BY <1>5 DEF StopCancelsWorker, LoopFree, EnterExcept
  <2>4. WorkType'
    <3>1. CASE wpc = "watch"
      BY <1>5, <3>1 DEF StopCancelsWorker, EnterExcept
    <3>2. CASE wpc # "watch"
      BY <1>5, <3>2 DEF StopCancelsWorker
    <3> QED BY <3>1, <3>2
  <2>5. HostType' BY <1>5 DEF StopCancelsWorker, LoopFree, EnterExcept
  <2> QED BY <2>1, <2>2, <2>3, <2>4, <2>5
<1>6. CASE StopDone
  <2>1. RowType' BY <1>6 DEF StopDone, LoopFree, GoDown
  <2>2. FileType' BY <1>6 DEF StopDone, LoopFree, GoDown
  <2>3. ChildType' BY <1>6 DEF StopDone, LoopFree, GoDown
  <2>4. WorkType' BY <1>6 DEF StopDone, LoopFree, GoDown
  <2>5. HostType' BY <1>6, GoDownTypes DEF StopDone
  <2> QED BY <2>1, <2>2, <2>3, <2>4, <2>5
<1>7. CASE Crash
  <2>1. RowType' BY <1>7 DEF Crash, GoDown
  <2>2. FileType' BY <1>7 DEF Crash, GoDown
  <2>3. ChildType' BY <1>7 DEF Crash, GoDown
  <2>4. WorkType' BY <1>7 DEF Crash, GoDown
  <2>5. HostType' BY <1>7, GoDownTypes DEF Crash
  <2> QED BY <2>1, <2>2, <2>3, <2>4, <2>5
<1> QED
    BY <1>1, <1>2, <1>3, <1>4, <1>5, <1>6, <1>7 DEF Shutdown

\* The invariant is kept by a step of the shutdown.
LEMMA ShutdownKeepsInv == ASSUME IndInv, Shutdown PROVE IndInv'
<1> USE DEF IndInv, TypeOK, RowType, FileType, ChildType, WorkType, HostType,
            ControlInv, OwnerInv, ManifestInv, SpawnInv, SurvivorInv, GiveUpInv,
            AuthorityInv, CancelInv, SingleComputing, Computing, Alive, Leader,
            Doomed
<1>0. TypeOK' BY ShutdownKeepsTypes
<1>1. CASE StopBegin
  BY <1>1, <1>0 DEF StopBegin, LoopFree
<1>2. CASE StopActive
  BY <1>2, <1>0 DEF StopActive, LoopFree, StopActiveRun, StopSources,
      TransitionRun, DurableSuccess, LockHeld
<1>3. CASE StopSync
  BY <1>3, <1>0 DEF StopSync, SyncManifestTerminal, SyncTerminal, Fault
<1>4. CASE StopWait
  BY <1>4, <1>0 DEF StopWait, LoopFree
<1>5. CASE StopCancelsWorker
  BY <1>5, <1>0 DEF StopCancelsWorker, LoopFree, EnterExcept
<1>6. CASE StopDone
  BY <1>6, <1>0 DEF StopDone, LoopFree, GoDown
<1>7. CASE Crash
  BY <1>7, <1>0 DEF Crash, GoDown
<1> HIDE DEF IndInv
<1> QED
    BY <1>1, <1>2, <1>3, <1>4, <1>5, <1>6, <1>7 DEF Shutdown

\* Types are kept by a step of restart recovery.
LEMMA RecoveryKeepsTypes == ASSUME IndInv, Recovery PROVE TypeOK'
<1> USE DEF IndInv, ControlInv, TypeOK, RowType, FileType, ChildType, WorkType,
            HostType, Leader
<1>1. CASE Restart
  BY <1>1 DEF Restart, Candidate, WithOwner
<1>2. ASSUME NEW seen \in {"exited", "unclear"},
            RefreshBlock(seen)
     PROVE  TypeOK'
  <2>1. RowType'
    <3>1. owner' \in [Run -> OwnerPhase]
      BY <1>2 DEF RefreshBlock, ObservedPhase
    <3>2. blocked' \in [Run -> BOOLEAN]
      BY <1>2 DEF RefreshBlock
    <3> QED BY <1>2, <3>1, <3>2 DEF RefreshBlock
  <2>2. FileType' BY <1>2 DEF RefreshBlock, OldestIn, InspectOwner,
      ObservedPhase
  <2>3. ChildType' BY <1>2 DEF RefreshBlock, OldestIn, InspectOwner,
      ObservedPhase
  <2>4. WorkType' BY <1>2 DEF RefreshBlock, OldestIn, InspectOwner,
      ObservedPhase
  <2>5. HostType' BY <1>2 DEF RefreshBlock, OldestIn, InspectOwner,
      ObservedPhase
  <2> QED BY <2>1, <2>2, <2>3, <2>4, <2>5
<1>3. CASE RefreshDone
  <2>1. RowType' BY <1>3 DEF RefreshDone, Candidate, WithOwner
  <2>2. FileType' BY <1>3 DEF RefreshDone, Candidate, WithOwner
  <2>3. ChildType' BY <1>3 DEF RefreshDone, Candidate, WithOwner
  <2>4. WorkType' BY <1>3 DEF RefreshDone, Candidate, WithOwner
  <2>5. HostType' BY <1>3 DEF RefreshDone, Candidate, WithOwner
  <2> QED BY <2>1, <2>2, <2>3, <2>4, <2>5
<1>4. CASE ObserveCandidate
  <2>1. RowType'
    <3>1. owner' \in [Run -> OwnerPhase]
      BY <1>4 DEF ObserveCandidate, ObservedPhase
    <3>2. blocked' \in [Run -> BOOLEAN]
      BY <1>4 DEF ObserveCandidate
    <3> QED BY <1>4, <3>1, <3>2 DEF ObserveCandidate
  <2>2. FileType' BY <1>4 DEF ObserveCandidate, OldestIn, InspectOwner,
      ObservedPhase
  <2>3. ChildType' BY <1>4 DEF ObserveCandidate, OldestIn, InspectOwner,
      ObservedPhase
  <2>4. WorkType' BY <1>4 DEF ObserveCandidate, OldestIn, InspectOwner,
      ObservedPhase
  <2>5. HostType' BY <1>4 DEF ObserveCandidate, OldestIn, InspectOwner,
      ObservedPhase
  <2> QED BY <2>1, <2>2, <2>3, <2>4, <2>5
<1>5. CASE RecoverRegistry
  BY <1>5 DEF RecoverRegistry, RecoveredStatus
<1>6. CASE ReconcileSettled
  BY <1>6 DEF ReconcileSettled, OldestIn, Settled, ManifestVerdict,
      ObservedPhase, DurableSuccess
<1>7. CASE ReconcileManifest
  BY <1>7 DEF ReconcileManifest, OldestIn, Settled, SyncManifestTerminal,
      SyncTerminal, Fault
<1>8. CASE ReconcileApply
  BY <1>8 DEF ReconcileApply, OldestIn, ManifestVerdict, DurableSuccess
<1>9. CASE RecoveryDone
  BY <1>9 DEF RecoveryDone
<1> QED
    BY <1>1, <1>2, <1>3, <1>4, <1>5, <1>6, <1>7, <1>8, <1>9 DEF Recovery

\* The invariant is kept by a step of restart recovery.
LEMMA RecoveryKeepsInv == ASSUME IndInv, Recovery PROVE IndInv'
<1> USE DEF IndInv, TypeOK, RowType, FileType, ChildType, WorkType, HostType,
            ControlInv, OwnerInv, ManifestInv, SpawnInv, SurvivorInv, GiveUpInv,
            AuthorityInv, CancelInv, SingleComputing, Computing, Alive, Leader,
            Doomed
<1>0. TypeOK' BY RecoveryKeepsTypes
<1>1. CASE Restart
  BY <1>1, <1>0 DEF Restart, Candidate, WithOwner
<1>2. ASSUME NEW seen \in {"exited", "unclear"},
            RefreshBlock(seen)
     PROVE  IndInv'
  BY <1>2, <1>0 DEF RefreshBlock, OldestIn, InspectOwner, ObservedPhase
<1>3. CASE RefreshDone
  BY <1>3, <1>0 DEF RefreshDone, Candidate, WithOwner
<1>4. CASE ObserveCandidate
  BY <1>4, <1>0 DEF ObserveCandidate, OldestIn, InspectOwner, ObservedPhase
<1>5. CASE RecoverRegistry
  BY <1>5, <1>0 DEF RecoverRegistry, RecoveredStatus
<1>6. CASE ReconcileSettled
  BY <1>6, <1>0 DEF ReconcileSettled, OldestIn, Settled, ManifestVerdict,
      ObservedPhase, DurableSuccess
<1>7. CASE ReconcileManifest
  BY <1>7, <1>0 DEF ReconcileManifest, OldestIn, Settled, SyncManifestTerminal,
      SyncTerminal, Fault
<1>8. CASE ReconcileApply
  BY <1>8, <1>0 DEF ReconcileApply, OldestIn, ManifestVerdict, DurableSuccess
<1>9. CASE RecoveryDone
  BY <1>9, <1>0 DEF RecoveryDone
<1> HIDE DEF IndInv
<1> QED
    BY <1>1, <1>2, <1>3, <1>4, <1>5, <1>6, <1>7, <1>8, <1>9 DEF Recovery

\* Types are kept by a step of a child.
LEMMA ChildKeepsTypes == ASSUME IndInv, NEW r \in Run, Child(r) PROVE TypeOK'
<1> USE DEF IndInv, ControlInv, TypeOK, RowType, FileType, ChildType, WorkType,
            HostType, Leader
<1>1. CASE ChildReceipt(r)
  BY <1>1 DEF ChildReceipt
<1>2. CASE ChildStart(r)
  BY <1>2 DEF ChildStart, ChildMoves
<1>3. CASE ChildRefused(r)
  BY <1>3 DEF ChildRefused, ChildMoves
<1>4. CASE ChildRevoked(r)
  BY <1>4 DEF ChildRevoked, ChildMoves
<1>5. CASE ChildExits(r)
  BY <1>5 DEF ChildExits, ChildMoves
<1>6. CASE ChildDies(r)
  BY <1>6 DEF ChildDies, ChildMoves, Fault
<1>7. CASE OrphansExit(r)
  BY <1>7 DEF OrphansExit, ChildMoves
<1>8. CASE ChildClaims(r)
  BY <1>8 DEF ChildClaims, ChildWrites
<1>9. CASE ChildRuns(r)
  BY <1>9 DEF ChildRuns, ChildWrites
<1>10. CASE ChildPublishes(r)
  BY <1>10 DEF ChildPublishes, ChildWrites
<1>11. CASE ChildCommits(r)
  BY <1>11 DEF ChildCommits, ChildWrites
<1>12. CASE ChildFails(r)
  BY <1>12 DEF ChildFails, ChildWrites
<1>13. CASE OutputsDamaged(r)
  BY <1>13 DEF OutputsDamaged, Fault
<1> QED
    BY <1>1, <1>2, <1>3, <1>4, <1>5, <1>6, <1>7, <1>8, <1>9, <1>10, <1>11,
        <1>12, <1>13 DEF Child

\* The invariant is kept by a step of a child.
LEMMA ChildKeepsInv == ASSUME IndInv, NEW r \in Run, Child(r) PROVE IndInv'
<1> USE DEF IndInv, TypeOK, RowType, FileType, ChildType, WorkType, HostType,
            ControlInv, OwnerInv, ManifestInv, SpawnInv, SurvivorInv, GiveUpInv,
            AuthorityInv, CancelInv, SingleComputing, Computing, Alive, Leader,
            Doomed
<1>0. TypeOK' BY ChildKeepsTypes
<1>1. CASE ChildReceipt(r)
  BY <1>1, <1>0 DEF ChildReceipt
<1>2. CASE ChildStart(r)
  BY <1>2, <1>0 DEF ChildStart, ChildMoves
<1>3. CASE ChildRefused(r)
  BY <1>3, <1>0 DEF ChildRefused, ChildMoves
<1>4. CASE ChildRevoked(r)
  BY <1>4, <1>0 DEF ChildRevoked, ChildMoves
<1>5. CASE ChildExits(r)
  BY <1>5, <1>0 DEF ChildExits, ChildMoves
<1>6. CASE ChildDies(r)
  <2>1. CASE ChildMoves(r, "gated", "gone")
    BY <1>6, <1>0, <2>1 DEF ChildDies, ChildMoves
  <2>2. ASSUME NEW left \in {"orphans", "gone"}, ChildMoves(r, "working", left)
        PROVE  IndInv'
    BY <1>6, <1>0, <2>2 DEF ChildDies, ChildMoves
  <2> QED BY <1>6, <2>1, <2>2 DEF ChildDies
<1>7. CASE OrphansExit(r)
  BY <1>7, <1>0 DEF OrphansExit, ChildMoves
<1>8. CASE ChildClaims(r)
  BY <1>8, <1>0 DEF ChildClaims, ChildWrites
<1>9. CASE ChildRuns(r)
  BY <1>9, <1>0 DEF ChildRuns, ChildWrites
<1>10. CASE ChildPublishes(r)
  BY <1>10, <1>0 DEF ChildPublishes, ChildWrites
<1>11. CASE ChildCommits(r)
  BY <1>11, <1>0 DEF ChildCommits, ChildWrites
<1>12. CASE ChildFails(r)
  BY <1>12, <1>0 DEF ChildFails, ChildWrites
<1>13. CASE OutputsDamaged(r)
  BY <1>13, <1>0 DEF OutputsDamaged, Fault
<1> HIDE DEF IndInv
<1> QED
    BY <1>1, <1>2, <1>3, <1>4, <1>5, <1>6, <1>7, <1>8, <1>9, <1>10, <1>11,
        <1>12, <1>13 DEF Child

\* Every step keeps the invariant.
LEMMA StepInv == ASSUME IndInv, [Next]_vars PROVE IndInv'
<1>1. CASE UNCHANGED vars
  BY <1>1 DEF vars, IndInv, TypeOK, RowType, FileType, ChildType, WorkType,
       HostType, ControlInv, OwnerInv, ManifestInv, SpawnInv, SurvivorInv,
       GiveUpInv, AuthorityInv, CancelInv, SingleComputing, Computing, Alive,
       Leader, Doomed
<1> QED
  BY <1>1, RequestKeepsInv, WorkerKeepsInv, ShutdownKeepsInv, RecoveryKeepsInv,
     ChildKeepsInv DEF Next

\* The inductive invariant holds of every behaviour, for any set of runs, with or
\* without a second API process, and for any number of restarts and faults.
THEOREM Invariance == Spec => []IndInv
<1> QED BY InitInv, StepInv, PTL DEF Spec

------------------------------------------------------------------------------
(* What follows from the invariant: the safety properties, the action           *)
(* properties, and that RunLifecycle implements GpuLease.                       *)

HIDE BoundAssumption DEF RunStatus, ActiveStatus, TerminalStatus, OwnerPhase, AwaitPoint, MidPoint

(* Safety *)

\* Every variable keeps its type, for any number of runs, stops and faults.
THEOREM TypeCorrectness == Spec => []TypeOK
<1>1. IndInv => TypeOK BY DEF IndInv
<1> QED BY <1>1, Invariance, PTL

\* At most one run computes at any time.
THEOREM GpuExclusion == Spec => []SingleComputing
<1>1. IndInv => SingleComputing BY DEF IndInv
<1> QED BY <1>1, Invariance, PTL

\* A computing child the worker does not watch holds the queue.
THEOREM SurvivorsHoldQueue == Spec => []SurvivorBlocksQueue
<1>1. IndInv => SurvivorBlocksQueue
  BY DEF IndInv, SurvivorInv, SurvivorBlocksQueue
<1> QED BY <1>1, Invariance, PTL

\* A process that imports pipeline modules is recorded in the registry.
THEOREM WorkAccounting == Spec => []WorkIsAccounted
<1>1. IndInv => WorkIsAccounted
  BY DEF IndInv, OwnerInv, AuthorityInv, WorkIsAccounted
<1> QED BY <1>1, Invariance, PTL

\* A completed run has a committed manifest.
THEOREM CompletionDurable == Spec => []CompletedIsDurable
<1>1. IndInv => CompletedIsDurable
  BY DEF IndInv, ManifestInv, CompletedIsDurable
<1> QED BY <1>1, Invariance, PTL

\* No child works on a run whose manifest says cancelled.
THEOREM CancellationHolds == Spec => []CancelledNeverWorks
<1>1. IndInv => CancelledNeverWorks
  BY DEF IndInv, CancelInv, Doomed, CancelledNeverWorks
<1> QED BY <1>1, Invariance, PTL

\* A run that had a process never waits in the queue again.
THEOREM NoRequeue == Spec => []NeverRequeuedAfterSpawn
<1>1. IndInv => NeverRequeuedAfterSpawn
  BY DEF IndInv, OwnerInv, NeverRequeuedAfterSpawn
<1> QED BY <1>1, Invariance, PTL

\* The registry agrees with manifests and processes.
THEOREM OutcomeSafety == Spec => []OutcomeSound
<1>1. CompletedIsDurable /\ CancelledNeverWorks /\ NeverRequeuedAfterSpawn
        => OutcomeSound
  BY DEF OutcomeSound
<1> QED BY <1>1, CompletionDurable, CancellationHolds, NoRequeue, PTL

------------------------------------------------------------------------------
(* Every step seen through the processes and the manifests.  A step leaves     *)
(* both alone or has one of five effects; the properties below follow from the *)
(* effects alone.                                                              *)

Idle == UNCHANGED <<proc, manifest>>

\* The manifest of a new run is written.
Creates(r) ==
    /\ manifest[r] = "absent"
    /\ manifest' = [manifest EXCEPT ![r] = "pending"]
    /\ proc' = proc

\* A manifest that is not terminal becomes failed or cancelled.
GivesUp(r) ==
    /\ manifest[r] \notin TerminalJobStatus
    /\ \E to \in {"failed", "cancelled"} : manifest' = [manifest EXCEPT ![r] = to]
    /\ proc' = proc

\* The first process of r is created while no run computes.
Spawns(r) ==
    /\ proc[r] = "none" /\ manifest[r] # "succeeded"
    /\ \A q \in Run : ~Computing(q)
    /\ proc' = [proc EXCEPT ![r] = "gated"]
    /\ manifest' = manifest

\* A process goes on, leaves orphans or ends.
Moves(r) ==
    /\ Alive(r)
    /\ \E to \in {"working", "orphans", "gone"} : proc' = [proc EXCEPT ![r] = to]
    /\ manifest' = manifest

\* A working child advances its manifest.
Writes(r) ==
    /\ proc[r] = "working" /\ manifest[r] \in {"pending", "validating", "running"}
    /\ \E to \in {"validating", "running", "succeeded"} :
          manifest' = [manifest EXCEPT ![r] = to]
    /\ proc' = proc

Effect ==
    \/ Idle
    \/ \E r \in Run : Creates(r) \/ GivesUp(r) \/ Spawns(r) \/ Moves(r) \/ Writes(r)

\* The best-effort write of a terminal status gives up or changes nothing.
LEMMA SyncEffect ==
    ASSUME TypeOK, NEW r \in Run, NEW to \in {"failed", "cancelled"},
           SyncManifestTerminal(r, to), UNCHANGED proc
    PROVE  GivesUp(r) \/ UNCHANGED <<proc, manifest>>
<1>1. CASE manifest' = [manifest EXCEPT ![r] = SyncTerminal(@, to)]
  <2>1. CASE SyncTerminal(manifest[r], to) = manifest[r]
    BY <1>1, <2>1 DEF TypeOK, FileType
  <2>2. CASE SyncTerminal(manifest[r], to) # manifest[r]
    <3>1. manifest[r] \notin TerminalJobStatus /\ SyncTerminal(manifest[r], to) = to
      BY <2>2 DEF SyncTerminal
    <3> QED BY <1>1, <3>1 DEF GivesUp
  <2> QED BY <2>1, <2>2
<1>2. CASE UNCHANGED manifest
  BY <1>2
<1> QED BY <1>1, <1>2 DEF SyncManifestTerminal

\* Requests create manifests and cancel them before the start.
LEMMA RequestEffect == ASSUME IndInv, Request PROVE Effect
<1> USE DEF Effect, Idle
<1>0. TypeOK BY DEF IndInv
<1>1. ASSUME NEW r \in Run, CreateRun(r) PROVE Effect
  <2>1. manifest[r] = "absent" BY <1>1 DEF CreateRun, IndInv, ManifestInv
  <2> QED BY <1>1, <2>1 DEF CreateRun, Creates
<1>2. ASSUME NEW r \in Run, DismissTerminalRun(r) \/ Cancel(r) \/ ApiCancel(r)
      PROVE  Effect
  BY <1>2 DEF DismissTerminalRun, Cancel, ApiCancel
<1>3. CASE CancelSync
  <2>1. cpc \in Run BY <1>3, <1>0 DEF CancelSync, TypeOK, HostType
  <2>2. SyncManifestTerminal(cpc, "cancelled") /\ proc' = proc
    BY <1>3 DEF CancelSync, CancelManifest
  <2> QED BY <1>0, <2>1, <2>2, SyncEffect
<1>4. CASE ApiCancelSync
  <2>1. apc \in Run BY <1>4, <1>0 DEF ApiCancelSync, TypeOK, HostType
  <2>2. SyncManifestTerminal(apc, "cancelled") /\ proc' = proc
    BY <1>4 DEF ApiCancelSync, CancelManifest
  <2> QED BY <1>0, <2>1, <2>2, SyncEffect
<1>5. CASE ApiDies
  BY <1>5 DEF ApiDies
<1> QED
  BY <1>1, <1>2, <1>3, <1>4, <1>5 DEF Request

\* The worker spawns, and writes the manifest of a run that did not publish.
LEMMA WorkerEffect == ASSUME IndInv, Worker PROVE Effect
<1> USE DEF Effect, Idle
<1>0. TypeOK BY DEF IndInv
<1>1. CASE SpawnChild
  <2>1. wpc = "spawn" /\ cur \in Run
    BY <1>0, <1>1 DEF SpawnChild, At, IndInv, ControlInv, TypeOK, WorkType
  <2>2. proc[cur] = "none" /\ \A q \in Run : ~Computing(q)
    BY <2>1 DEF IndInv, SpawnInv
  <2>3. manifest[cur] # "succeeded"
    BY <2>1, <2>2 DEF IndInv, ManifestInv
  <2> QED BY <1>1, <2>1, <2>2, <2>3 DEF SpawnChild, Spawns
<1>2. CASE WorkerSync
  <2>1. cur \in Run /\ target \in {"failed", "cancelled"}
    BY <1>0, <1>2 DEF WorkerSync, At, IndInv, ControlInv, TypeOK, WorkType
  <2>2. SyncManifestTerminal(cur, target) /\ proc' = proc
    BY <1>2 DEF WorkerSync
  <2> QED BY <1>0, <2>1, <2>2, SyncEffect
<1>3. CASE HaltSync
  <2>1. cur \in Run
    BY <1>0, <1>3 DEF HaltSync, At, IndInv, ControlInv, TypeOK, WorkType
  <2>2. SyncManifestTerminal(cur, "failed") /\ proc' = proc
    BY <1>3 DEF HaltSync
  <2> QED BY <1>0, <2>1, <2>2, SyncEffect
<1>4. CASE PrepareFails \/ SpawnFails \/ RefuseTimeout \/ AttachFails \/ WatchFails
  BY <1>4 DEF PrepareFails, SpawnFails, RefuseTimeout, AttachFails, WatchFails,
     EnterExcept
<1>5. CASE LoopTop \/ ClaimNextQueuedRun \/ ClaimNothing \/ BeginRunStart
           \/ MarkRunRunning \/ RefuseDone \/ Attach \/ Authorize
  BY <1>5 DEF LoopTop, ClaimNextQueuedRun, ClaimNothing, BeginRunStart,
     MarkRunRunning, RefuseDone, Attach, Authorize
<1>6. CASE Finish \/ ExceptTerminated \/ ExceptDecide \/ Cleanup \/ CleanupWait
           \/ HaltSpawned \/ HaltWait
  BY <1>6 DEF Finish, ExceptTerminated, ExceptDecide, Cleanup, CleanupWait,
     HaltSpawned, HaltWait
<1> QED
  BY <1>1, <1>2, <1>3, <1>4, <1>5, <1>6 DEF Worker

\* Shutdown fails the manifest of the run it interrupts.
LEMMA ShutdownEffect == ASSUME IndInv, Shutdown PROVE Effect
<1> USE DEF Effect, Idle
<1>0. TypeOK BY DEF IndInv
<1>1. CASE StopSync
  <2>1. cur \in Run
    BY <1>0, <1>1 DEF StopSync, IndInv, ControlInv, TypeOK, WorkType
  <2>2. SyncManifestTerminal(cur, "failed") /\ proc' = proc
    BY <1>1 DEF StopSync
  <2> QED BY <1>0, <2>1, <2>2, SyncEffect
<1>2. CASE StopBegin \/ StopActive \/ StopWait \/ StopCancelsWorker
  BY <1>2 DEF StopBegin, StopActive, StopWait, StopCancelsWorker, EnterExcept
<1>3. CASE StopDone \/ Crash
  BY <1>3 DEF StopDone, Crash, GoDown
<1> QED
  BY <1>1, <1>2, <1>3 DEF Shutdown

\* Recovery writes the manifest of a run that no process can finish.
LEMMA RecoveryEffect == ASSUME IndInv, Recovery PROVE Effect
<1> USE DEF Effect, Idle
<1>0. TypeOK BY DEF IndInv
<1>1. CASE ReconcileManifest
  <2>1. PICK r \in Run :
          SyncManifestTerminal(r, IF status[r] = "cancelled" THEN "cancelled"
                                  ELSE "failed")
    BY <1>1 DEF ReconcileManifest
  <2>2. proc' = proc BY <1>1 DEF ReconcileManifest
  <2> QED BY <1>0, <2>1, <2>2, SyncEffect
<1>2. CASE Restart \/ (\E seen \in {"exited", "unclear"} : RefreshBlock(seen))
           \/ RefreshDone \/ ObserveCandidate
  BY <1>2 DEF Restart, RefreshBlock, RefreshDone, ObserveCandidate
<1>3. CASE RecoverRegistry \/ ReconcileSettled \/ ReconcileApply \/ RecoveryDone
  BY <1>3 DEF RecoverRegistry, ReconcileSettled, ReconcileApply, RecoveryDone
<1> QED
  BY <1>1, <1>2, <1>3 DEF Recovery

\* A child moves, or writes its own manifest.
LEMMA ChildEffect == ASSUME IndInv, NEW r \in Run, Child(r) PROVE Effect
<1> USE DEF Effect, Idle
<1>1. CASE ChildReceipt(r) \/ OutputsDamaged(r)
  BY <1>1 DEF ChildReceipt, OutputsDamaged
<1>2. CASE ChildStart(r) \/ ChildRefused(r) \/ ChildRevoked(r) \/ ChildExits(r)
           \/ ChildDies(r) \/ OrphansExit(r)
  BY <1>2 DEF ChildStart, ChildRefused, ChildRevoked, ChildExits, ChildDies,
     OrphansExit, ChildMoves, Moves, Alive
<1>3. CASE ChildClaims(r) \/ ChildRuns(r) \/ ChildPublishes(r) \/ ChildCommits(r)
  BY <1>3 DEF ChildClaims, ChildRuns, ChildPublishes, ChildCommits, ChildWrites,
     Writes
<1>4. CASE ChildFails(r)
  BY <1>4 DEF ChildFails, ChildWrites, GivesUp
<1> QED
  BY <1>1, <1>2, <1>3, <1>4 DEF Child

LEMMA StepEffect == ASSUME IndInv, [Next]_vars PROVE Effect
<1>1. CASE UNCHANGED vars BY <1>1 DEF vars, Effect, Idle
<1> QED
  BY <1>1, RequestEffect, WorkerEffect, ShutdownEffect, RecoveryEffect,
     ChildEffect DEF Next

------------------------------------------------------------------------------
(* Action properties and the refinement *)

\* Only recovery itself goes from reading a manifest to applying it.
LEMMA OnlyRecoveryApplies ==
    ASSUME [Next]_vars, rpc = "reconcile", rpc' = "apply"
    PROVE  ReconcileManifest
<1>1. CASE Request
  BY <1>1 DEF Request, CreateRun, DismissTerminalRun, Cancel, ApiCancel, CancelSync,
     ApiCancelSync, ApiDies
<1>2. ~Worker
  BY DEF Worker, At, LoopTop, ClaimNextQueuedRun, ClaimNothing, PrepareFails,
     BeginRunStart, SpawnChild, SpawnFails, MarkRunRunning, RefuseDone,
     RefuseTimeout, Attach, AttachFails, Authorize, WatchFails, Finish,
     ExceptTerminated, ExceptDecide, WorkerSync, Cleanup, CleanupWait,
     HaltSpawned, HaltSync, HaltWait
<1>3. ~Shutdown
  BY DEF Shutdown, LoopFree, StopBegin, StopActive, StopSync, StopWait,
     StopCancelsWorker, StopDone, Crash, GoDown
<1>4. CASE Recovery
  BY <1>4 DEF Recovery, Restart, RefreshBlock, RefreshDone, ObserveCandidate,
     RecoverRegistry, ReconcileSettled, ReconcileApply, RecoveryDone
<1>5. ASSUME NEW r \in Run PROVE ~Child(r)
  BY DEF Child, ChildReceipt, ChildStart, ChildRefused, ChildRevoked, ChildExits,
     ChildDies, OrphansExit, ChildClaims, ChildRuns, ChildPublishes,
     ChildCommits, ChildFails, OutputsDamaged, ChildMoves, ChildWrites
<1> QED
  BY <1>1, <1>2, <1>3, <1>4, <1>5 DEF Next, vars

\* A terminal manifest keeps its verdict, whoever writes last, and recovery never writes
\* the manifest of a run that still has a process.
THEOREM ManifestSafety == Spec => ManifestsKept
<1>1. ASSUME IndInv, [Next]_vars, NEW r \in Run, manifest[r] \in TerminalJobStatus
      PROVE  manifest'[r] = manifest[r]
  <2>1. Effect BY <1>1, StepEffect
  <2> QED
    BY <2>1, <1>1 DEF Effect, Idle, Creates, GivesUp, Spawns, Moves, Writes, IndInv,
       TypeOK, FileType, vars
<1>2. ASSUME IndInv, [Next]_vars, NEW r \in Run, rpc = "reconcile", rpc' = "apply",
             manifest'[r] # manifest[r], Alive(r)
      PROVE  FALSE
  <2>1. ReconcileManifest BY <1>2, OnlyRecoveryApplies
  <2>2. PICK q \in Run :
          /\ ~Settled(q)
          /\ SyncManifestTerminal(q, IF status[q] = "cancelled" THEN "cancelled"
                                     ELSE "failed")
    BY <2>1 DEF ReconcileManifest
  <2>3. q = r
    BY <1>2, <2>2 DEF SyncManifestTerminal, IndInv, TypeOK, FileType
  <2>4. ~blocked[r] /\ Computing(r)
    BY <1>2, <2>2, <2>3 DEF Settled, Computing
  <2>5. server = "recovering" \/ (server = "up" /\ cur = NoRun /\ r # NoRun)
    BY <1>2 DEF IndInv, ControlInv
  <2> QED
    BY <1>2, <2>4, <2>5 DEF IndInv, SurvivorInv
<1>3. ASSUME IndInv, [Next]_vars
      PROVE  [\A r \in Run :
                /\ manifest[r] \in TerminalJobStatus => manifest'[r] = manifest[r]
                /\ rpc = "reconcile" /\ rpc' = "apply" /\ manifest'[r] # manifest[r]
                     => ~Alive(r)]_vars
  BY <1>1, <1>2, <1>3
<1> QED BY <1>3, Invariance, PTL DEF Spec, ManifestsKept

\* The queue implements the lease.
THEOREM LeaseRefinement == Spec => ImplementsGpuLease
<1>1. Init => GL!Init
  BY DEF Init, GL!Init, LeaseOf, OutcomeOf, Computing, Alive
<1>2. ASSUME IndInv, [Next]_vars PROVE [GL!Next]_(GL!vars)
  <2>1. Effect BY <1>1, <1>2, StepEffect
  <2> USE <1>2 DEF LeaseOf, OutcomeOf, Computing, Alive, IndInv, TypeOK, FileType,
          ChildType
  <2>2. CASE Idle
    BY <2>2 DEF Idle, GL!vars
  <2>3. ASSUME NEW r \in Run, Creates(r) PROVE UNCHANGED GL!vars
    BY <2>3 DEF Creates, GL!vars
  <2>4. ASSUME NEW r \in Run, GivesUp(r) PROVE GL!GiveUp(r)
    <3>1. PICK to \in {"failed", "cancelled"} :
            manifest' = [manifest EXCEPT ![r] = to]
      BY <2>4 DEF GivesUp
    <3>2. \A q \in Run : LeaseOf(q)' = LeaseOf(q)
      BY <2>4, <3>1 DEF GivesUp
    <3>3. OutcomeOf(r) = "open"
      BY <2>4 DEF GivesUp
    <3>4. \A q \in Run : OutcomeOf(q)' = IF q = r THEN to ELSE OutcomeOf(q)
      BY <3>1
    <3> HIDE DEF LeaseOf, OutcomeOf
    <3> QED BY <3>2, <3>3, <3>4 DEF GL!GiveUp
  <2>5. ASSUME NEW r \in Run, Spawns(r) PROVE GL!Grant(r)
    BY <2>5 DEF Spawns, GL!Grant
  <2>6. ASSUME NEW r \in Run, Moves(r) PROVE GL!Release(r) \/ UNCHANGED GL!vars
    <3>1. UNCHANGED [q \in Run |-> OutcomeOf(q)]
      BY <2>6 DEF Moves
    <3>2. PICK to \in {"working", "orphans", "gone"} :
            proc' = [proc EXCEPT ![r] = to]
      BY <2>6 DEF Moves
    <3>3. \A q \in Run \ {r} : LeaseOf(q)' = LeaseOf(q)
      BY <2>6, <3>2 DEF Moves
    <3>4. LeaseOf(r)' = LeaseOf(r) \/ (LeaseOf(r) = "held" /\ LeaseOf(r)' = "over")
      BY <2>6, <3>2 DEF Moves
    <3> HIDE DEF LeaseOf, OutcomeOf
    <3> QED BY <3>1, <3>3, <3>4 DEF GL!Release, GL!vars
  <2>7. ASSUME NEW r \in Run, Writes(r) PROVE GL!Succeed(r) \/ UNCHANGED GL!vars
    <3>1. PICK to \in {"validating", "running", "succeeded"} :
            manifest' = [manifest EXCEPT ![r] = to]
      BY <2>7 DEF Writes
    <3>2. LeaseOf(r) = "held" /\ OutcomeOf(r) = "open"
      BY <2>7 DEF Writes
    <3>3. \A q \in Run \ {r} : LeaseOf(q)' = LeaseOf(q) /\ OutcomeOf(q)' = OutcomeOf(q)
      BY <2>7, <3>1 DEF Writes
    <3>4. CASE to = "succeeded"
      <4>1. LeaseOf(r)' = "over" /\ OutcomeOf(r)' = "succeeded"
        BY <2>7, <3>1, <3>4 DEF Writes
      <4> HIDE DEF LeaseOf, OutcomeOf
      <4> QED BY <3>2, <3>3, <4>1 DEF GL!Succeed
    <3>5. CASE to # "succeeded"
      <4>1. LeaseOf(r)' = "held" /\ OutcomeOf(r)' = "open"
        BY <2>7, <3>1, <3>5 DEF Writes
      <4> HIDE DEF LeaseOf, OutcomeOf
      <4> QED BY <3>2, <3>3, <4>1 DEF GL!vars
    <3> QED BY <3>4, <3>5
  <2> QED
    BY <2>1, <2>2, <2>3, <2>4, <2>5, <2>6, <2>7 DEF Effect, GL!Next
<1> QED BY <1>1, <1>2, Invariance, PTL DEF Spec, ImplementsGpuLease, GL!Spec

------------------------------------------------------------------------------
(* The order of the queue. *)

USE BoundAssumption DEF RunStatus, ActiveStatus, TerminalStatus, OwnerPhase
HIDE DEF JobStatus, TerminalJobStatus, ProcState

\* A new run is younger than every other, and a cancellation takes a run out of
\* the queue in the step that requests it.
LEMMA RequestKeepsOrder == ASSUME IndInv, OrderInv, Request PROVE OrderInv'
<1> USE DEF OrderInv, IndInv, TypeOK, RowType, OwnerInv
<1>1. ASSUME NEW r \in Run, CreateRun(r) PROVE OrderInv'
  <2>1. clock \in Nat /\ clock' = clock + 1 /\ \A q \in Run : born[q] \in Nat
    BY <1>1 DEF CreateRun
  <2>2. \A q \in Run : born'[q] = IF q = r THEN clock + 1 ELSE born[q]
    BY <1>1 DEF CreateRun
  <2>3. \A q \in Run : status'[q] = IF q = r THEN "queued" ELSE status[q]
    BY <1>1 DEF CreateRun
  <2>4. status[r] = "none" /\ owner[r] = "null"
    BY <1>1 DEF CreateRun
  <2>5. \A q \in Run : born'[q] <= clock'
    BY <2>1, <2>2
  <2>6. ~cancelReq[r] /\ ~dismissed[r]
    BY <2>4
  <2>7. \A q \in Run : status'[q] \in {"none", "queued", "preparing"} =>
                          ~cancelReq'[q] /\ ~dismissed'[q]
    BY <1>1, <2>3, <2>6 DEF CreateRun
  <2>8. \A p, q \in Run :
          born'[p] < born'[q] /\ (owner'[q] # "null" \/ status'[q] = "preparing")
              => status'[p] \notin {"queued", "preparing"}
    BY <1>1, <2>1, <2>2, <2>3, <2>4 DEF CreateRun
  <2> QED BY <2>5, <2>7, <2>8
<1>2. ASSUME NEW r \in Run, DismissTerminalRun(r) PROVE OrderInv'
  BY <1>2 DEF DismissTerminalRun
<1>3. ASSUME NEW r \in Run, Cancel(r) \/ ApiCancel(r) PROVE OrderInv'
  BY <1>3 DEF Cancel, ApiCancel, CancelRow
<1>4. CASE CancelSync
  BY <1>4 DEF CancelSync, CancelManifest, TransitionRun
<1>5. CASE ApiCancelSync
  BY <1>5 DEF ApiCancelSync, CancelManifest, TransitionRun
<1>6. CASE ApiDies
  BY <1>6 DEF ApiDies
<1> QED
  BY <1>1, <1>2, <1>3, <1>4, <1>5, <1>6 DEF Request

\* The worker claims the oldest run that waits, and no run waits claimed beside
\* it; every other step takes runs out of the queue only.
LEMMA WorkerKeepsOrder == ASSUME IndInv, OrderInv, Worker PROVE OrderInv'
<1> USE DEF OrderInv, IndInv, TypeOK, RowType, OwnerInv, ControlInv
<1>1. CASE ClaimNextQueuedRun
  BY <1>1 DEF ClaimNextQueuedRun, OldestIn, Claimable, QueueHeld
<1>2. CASE BeginRunStart
  BY <1>2 DEF BeginRunStart, At
<1>3. CASE MarkRunRunning
  BY <1>3 DEF MarkRunRunning
<1>4. CASE Attach
  BY <1>4 DEF Attach, RecordRunOwner
<1>5. CASE Finish \/ ExceptDecide
  BY <1>5 DEF Finish, ExceptDecide, TransitionRun, FinishedStatus, FinishSources
<1>6. CASE HaltSpawned
  BY <1>6 DEF HaltSpawned, StopActiveRun, TransitionRun
<1>7. CASE Cleanup \/ CleanupWait
  BY <1>7 DEF Cleanup, CleanupWait, ReleaseOwner, RecordRunOwner
<1>8. CASE LoopTop \/ ClaimNothing \/ SpawnChild \/ RefuseDone \/ Authorize
           \/ WorkerSync \/ HaltSync
  BY <1>8 DEF LoopTop, ClaimNothing, SpawnChild, RefuseDone, Authorize,
     WorkerSync, HaltSync
<1>9. CASE PrepareFails \/ SpawnFails \/ RefuseTimeout \/ AttachFails \/ WatchFails
  BY <1>9 DEF PrepareFails, SpawnFails, RefuseTimeout, AttachFails, WatchFails,
     EnterExcept
<1>10. CASE ExceptTerminated \/ HaltWait
  BY <1>10 DEF ExceptTerminated, HaltWait
<1> QED
  BY <1>1, <1>2, <1>3, <1>4, <1>5, <1>6, <1>7, <1>8, <1>9, <1>10 DEF Worker

\* Shutdown takes the run it stops out of the active statuses.
LEMMA ShutdownKeepsOrder == ASSUME IndInv, OrderInv, Shutdown PROVE OrderInv'
<1> USE DEF OrderInv, IndInv, TypeOK, RowType
<1>1. CASE StopActive
  BY <1>1 DEF StopActive, StopActiveRun, TransitionRun
<1>2. CASE StopBegin \/ StopSync \/ StopWait
  BY <1>2 DEF StopBegin, StopSync, StopWait
<1>3. CASE StopCancelsWorker
  BY <1>3 DEF StopCancelsWorker, EnterExcept
<1>4. CASE StopDone \/ Crash
  BY <1>4 DEF StopDone, Crash, GoDown
<1> QED
  BY <1>1, <1>2, <1>3, <1>4 DEF Shutdown

\* Recovery queues again only a run that was claimed and not yet reserved.
LEMMA RecoveryKeepsOrder == ASSUME IndInv, OrderInv, Recovery PROVE OrderInv'
<1> USE DEF OrderInv, IndInv, TypeOK, RowType, OwnerInv
<1>1. ASSUME NEW seen \in {"exited", "unclear"}, RefreshBlock(seen)
      PROVE  OrderInv'
  BY <1>1 DEF RefreshBlock, InspectOwner, ObservedPhase
<1>2. CASE ObserveCandidate
  BY <1>2 DEF ObserveCandidate, InspectOwner, ObservedPhase
<1>3. CASE RecoverRegistry
  BY <1>3 DEF RecoverRegistry, RecoveredStatus
<1>4. CASE ReconcileSettled
  BY <1>4 DEF ReconcileSettled, ManifestVerdict, ObservedPhase
<1>5. CASE ReconcileApply
  BY <1>5 DEF ReconcileApply, ManifestVerdict
<1>6. CASE Restart \/ RefreshDone \/ ReconcileManifest \/ RecoveryDone
  BY <1>6 DEF Restart, RefreshDone, ReconcileManifest, RecoveryDone
<1> QED
  BY <1>1, <1>2, <1>3, <1>4, <1>5, <1>6 DEF Recovery

\* Children do not write the registry.
LEMMA ChildKeepsOrder ==
    ASSUME OrderInv, NEW r \in Run, Child(r) PROVE OrderInv'
<1>1. UNCHANGED rowVars
  BY DEF Child, ChildReceipt, ChildStart, ChildRefused, ChildRevoked, ChildExits,
     ChildDies, OrphansExit, ChildClaims, ChildRuns, ChildPublishes,
     ChildCommits, ChildFails, OutputsDamaged, ChildMoves, ChildWrites
<1> QED
  BY <1>1 DEF OrderInv

\* Both invariants hold together.
LEMMA OrderInvariance == Spec => [](IndInv /\ OrderInv)
<1>1. Init => OrderInv
  BY DEF Init, OrderInv
<1>2. ASSUME IndInv, OrderInv, [Next]_vars PROVE OrderInv'
  <2>1. CASE UNCHANGED vars
    BY <1>2, <2>1 DEF vars, OrderInv
  <2> QED
    BY <1>2, <2>1, RequestKeepsOrder, WorkerKeepsOrder, ShutdownKeepsOrder,
       RecoveryKeepsOrder, ChildKeepsOrder DEF Next
<1> QED
  BY <1>1, <1>2, Invariance, PTL DEF Spec

\* No run is started while an older one still waits, whatever is cancelled,
\* recovered or queued again in between.
THEOREM FifoStart == Spec => []NoOvertaking
<1>1. IndInv /\ OrderInv => NoOvertaking
  BY DEF IndInv, OwnerInv, OrderInv, NoOvertaking
<1> QED
  BY <1>1, OrderInvariance, PTL

\* One run computes at a time, in the order of creation, and every process that
\* may still compute is known and holds the queue.
THEOREM QueueSafety == Spec => []QueueSound
<1>1. IndInv => SingleComputing BY DEF IndInv
<1>2. IndInv => SurvivorBlocksQueue
  BY DEF IndInv, SurvivorInv, SurvivorBlocksQueue
<1>3. IndInv => WorkIsAccounted
  BY DEF IndInv, OwnerInv, AuthorityInv, WorkIsAccounted
<1>4. SingleComputing /\ SurvivorBlocksQueue /\ WorkIsAccounted /\ NoOvertaking
        => QueueSound
  BY DEF QueueSound
<1> QED
  BY <1>1, <1>2, <1>3, <1>4, Invariance, FifoStart, PTL

------------------------------------------------------------------------------
(* What recovery leaves behind. *)

\* The best-effort write of a terminal status: an open manifest gets it, unless
\* the write fails, which the bound on faults counts.
LEMMA TerminalWrite ==
    ASSUME IndInv, NEW r \in Run, status[r] # "none",
           NEW to \in {"failed", "cancelled"}, SyncManifestTerminal(r, to)
    PROVE  \/ /\ manifest' = [manifest EXCEPT ![r] = IF @ \in TerminalJobStatus
                                                     THEN @ ELSE to]
              /\ faults' = faults
           \/ manifest' = manifest /\ faults' = faults + 1
<1>1. manifest[r] \in JobStatus
  BY DEF IndInv, TypeOK, FileType, ManifestInv
<1>2. manifest[r] \notin TerminalJobStatus => EnsureJobTransition(manifest[r], to)
  BY <1>1 DEF EnsureJobTransition, AllowedJobTransitions, JobStatus, TerminalJobStatus
<1>3. SyncTerminal(manifest[r], to) =
        IF manifest[r] \in TerminalJobStatus THEN manifest[r] ELSE to
  BY <1>2 DEF SyncTerminal
<1> QED
  BY <1>3 DEF SyncManifestTerminal, Fault

\* A request ends a run in the registry before it touches the manifest.
LEMMA RequestKeepsVerdict ==
    ASSUME IndInv, OrderInv, VerdictInv, Request PROVE VerdictInv'
<1> USE DEF VerdictInv, TerminalJobStatus
<1>0. IndInv /\ TypeOK /\ RowType /\ FileType /\ HostType
  BY DEF IndInv, TypeOK
<1>c. wpc \in {"sync", "halt"} \/ spc = "sync" => cur \in Run
  BY DEF IndInv, ControlInv, TypeOK, WorkType
<1>1. ASSUME NEW r \in Run, CreateRun(r) PROVE VerdictInv'
  <2>1. clock \in Nat /\ \A q \in Run : born[q] \in Nat /\ born[q] <= clock
    BY <1>0 DEF RowType, OrderInv
  <2>2. \A q \in Run : /\ born'[q] = IF q = r THEN clock + 1 ELSE born[q]
                       /\ status'[q] = IF q = r THEN "queued" ELSE status[q]
                       /\ manifest'[q] = IF q = r THEN "pending" ELSE manifest[q]
    BY <1>1, <1>0 DEF CreateRun, RowType, FileType
  <2>3. status[r] = "none" /\ UNCHANGED <<blocked, outputs, apc, wpc, spc, cur, todo, cands>>
    BY <1>1 DEF CreateRun
  <2>4. \A p, q \in Run :
          status'[p] # "none" /\ status'[q] # "none" /\ born'[p] = born'[q] => p = q
    BY <2>1, <2>2
  <2>5. apc # r
    BY <2>3, <1>0 DEF IndInv, CancelInv, Doomed
  <2>6. wpc \in {"sync", "halt"} \/ spc = "sync" => cur # r /\ cur \in Run
    BY <2>3, <1>c
  <2>7. \A q \in Run :
          /\ blocked'[q] \/ q \in todo' \cup cands' => status'[q] # "none"
          /\ status'[q] \in {"queued", "preparing"} => manifest'[q] \notin TerminalJobStatus
          /\ manifest'[q] = "succeeded" => outputs'[q] # "none"
          /\ apc' = q /\ manifest'[q] \notin TerminalJobStatus => status'[q] = "cancelled"
    BY <2>2, <2>3, <2>5
  <2> QED BY <2>2, <2>3, <2>4, <2>6, <2>7
<1>2. ASSUME NEW r \in Run, DismissTerminalRun(r) PROVE VerdictInv'
  BY <1>2 DEF DismissTerminalRun
<1>3. ASSUME NEW r \in Run, Cancel(r) PROVE VerdictInv'
  <2>1. /\ status' = [status EXCEPT ![r] = status'[r]]
        /\ status[r] \in {"queued"} \cup ActiveStatus
        /\ status'[r] \in {"cancelled", "cancelling"}
    BY <1>3, <1>0 DEF Cancel, CancelRow, RowType
  <2>2. UNCHANGED <<manifest, outputs, blocked, born, apc, wpc, spc, cur, todo, cands>>
    BY <1>3 DEF Cancel
  <2>3. apc # r
    BY <1>0, <2>1 DEF IndInv, CancelInv, Doomed
  <2> QED BY <1>0, <1>c, <2>1, <2>2, <2>3 DEF RowType
<1>4. ASSUME NEW r \in Run, ApiCancel(r) PROVE VerdictInv'
  <2>1. /\ status' = [status EXCEPT ![r] = status'[r]]
        /\ status[r] \in {"queued"} \cup ActiveStatus
        /\ status'[r] \in {"cancelled", "cancelling"}
        /\ apc' = r => status'[r] = "cancelled"
    BY <1>4, <1>0 DEF ApiCancel, CancelRow, RowType
  <2>2. UNCHANGED <<manifest, outputs, blocked, born, wpc, spc, cur, todo, cands>>
    BY <1>4 DEF ApiCancel
  <2>3. apc' \in {r, NoRun}
    BY <1>4 DEF ApiCancel
  <2> QED BY <1>0, <1>c, <2>1, <2>2, <2>3 DEF RowType
<1>5. ASSUME NEW r \in Run, cpc = r \/ apc = r, CancelManifest(r),
             apc' = apc \/ apc' = NoRun,
             UNCHANGED <<born, blocked, outputs, wpc, spc, cur, todo, cands>>
      PROVE  VerdictInv'
  <2>1. status[r] \in TerminalStatus
    BY <1>0, <1>5 DEF IndInv, CancelInv, Doomed
  <2>2. \/ manifest' = [manifest EXCEPT ![r] = IF @ \in TerminalJobStatus
                                               THEN @ ELSE "cancelled"]
        \/ manifest' = manifest
    <3>1. SyncManifestTerminal(r, "cancelled") BY <1>5 DEF CancelManifest
    <3> HIDE DEF VerdictInv
    <3> QED BY <1>0, <2>1, <3>1, TerminalWrite
  <2>3. status' = status \/ /\ status' = [status EXCEPT ![r] = "completed"]
                            /\ manifest[r] = "succeeded"
    BY <1>5 DEF CancelManifest, TransitionRun, DurableSuccess
  <2>4. UNCHANGED <<born, blocked, outputs, wpc, spc, cur, todo, cands>> /\ apc' \in {apc, NoRun}
    BY <1>5
  <2> QED BY <1>0, <1>c, <2>1, <2>2, <2>3, <2>4 DEF RowType, FileType
<1>6. CASE CancelSync
  BY <1>0, <1>5, <1>6 DEF CancelSync, HostType
<1>7. CASE ApiCancelSync
  BY <1>0, <1>5, <1>7 DEF ApiCancelSync, HostType
<1>8. CASE ApiDies
  BY <1>8 DEF ApiDies
<1> QED
  BY <1>1, <1>2, <1>3, <1>4, <1>6, <1>7, <1>8 DEF Request

\* The worker publishes the end of a run before it writes the manifest, and what
\* it claims or reserves has an open one.
LEMMA WorkerKeepsVerdict == ASSUME IndInv, VerdictInv, Worker PROVE VerdictInv'
<1> USE DEF VerdictInv, TerminalJobStatus
<1>0. IndInv /\ RowType /\ FileType /\ (cur # NoRun => cur \in Run /\ status[cur] # "none")
  BY DEF IndInv, TypeOK, WorkType, ControlInv
<1>s. spc # "sync" /\ spc' # "sync"
  BY DEF Worker, IndInv, ControlInv, At, LoopFree, LoopTop, ClaimNextQueuedRun,
     ClaimNothing, PrepareFails, BeginRunStart, SpawnChild, SpawnFails,
     MarkRunRunning, RefuseDone, RefuseTimeout, Attach, AttachFails, Authorize,
     WatchFails, Finish, ExceptTerminated, ExceptDecide, WorkerSync, Cleanup,
     CleanupWait, HaltSpawned, HaltSync, HaltWait
<1>1. ASSUME UNCHANGED <<status, born, manifest, outputs, apc, todo, cands>>,
             wpc' \notin {"sync", "halt"},
             blocked' = blocked \/ (cur # NoRun /\ blocked' = [blocked EXCEPT ![cur] = TRUE])
      PROVE  VerdictInv'
  BY <1>0, <1>s, <1>1 DEF RowType
<1>l. CASE LoopTop
  BY <1>0, <1>s, <1>l DEF LoopTop, At
<1>2. CASE ClaimNothing \/ SpawnChild \/ RefuseDone \/ Attach \/ Authorize
  BY <1>1, <1>2 DEF ClaimNothing, SpawnChild, RefuseDone, Attach, Authorize
<1>3. CASE PrepareFails \/ SpawnFails \/ RefuseTimeout \/ AttachFails \/ WatchFails
  BY <1>1, <1>3 DEF PrepareFails, SpawnFails, RefuseTimeout, AttachFails, WatchFails,
     EnterExcept
<1>4. CASE ExceptTerminated \/ HaltWait \/ Cleanup \/ CleanupWait
  <2>1. cur # NoRun
    BY <1>4 DEF IndInv, ControlInv, At, ExceptTerminated, HaltWait, Cleanup, CleanupWait
  <2> QED
    BY <1>1, <1>4, <2>1 DEF ExceptTerminated, HaltWait, Cleanup, CleanupWait,
       ReleaseOwner
<1>5. ASSUME NEW r \in Run, NEW from, NEW to \in RunStatus \ {"none", "queued", "preparing"},
             TransitionRun(r, from, to), "none" \notin from, "cancelled" \notin from,
             UNCHANGED <<born, manifest, outputs, apc, blocked, todo, cands>>,
             wpc' \in {"sync", "halt"} => cur' = r /\ to \in TerminalStatus /\ status[r] \in from
      PROVE  VerdictInv'
  <2>1. CASE status[r] \in from
    <3>1. status' = [status EXCEPT ![r] = to] /\ status[r] \notin {"none", "cancelled"}
      BY <1>5, <2>1 DEF TransitionRun
    <3> QED BY <1>0, <1>s, <1>5, <3>1 DEF RowType
  <2>2. CASE status[r] \notin from
    BY <1>0, <1>s, <1>5, <2>2 DEF TransitionRun
  <2> QED BY <2>1, <2>2
<1>6. CASE ClaimNextQueuedRun
  BY <1>0, <1>s, <1>6 DEF ClaimNextQueuedRun, OldestIn, Claimable, RowType
<1>7. CASE BeginRunStart \/ MarkRunRunning
  <2>1. cur # NoRun
    BY <1>7 DEF IndInv, ControlInv, At, BeginRunStart, MarkRunRunning
  <2> QED
    BY <1>0, <1>s, <1>7, <2>1 DEF BeginRunStart, MarkRunRunning, RowType
<1>8. CASE Finish
  <2>1. cur \in Run BY <1>0, <1>8 DEF IndInv, ControlInv, At, Finish
  <2>2. PICK final \in {"completed", "interrupted", "cancelled", "failed"} :
          /\ final = FinishedStatus(cur)
          /\ TransitionRun(cur, FinishSources[final], final)
          /\ SyncOrCleanup(cur, final, status[cur] \in FinishSources[final])
    BY <1>8 DEF Finish, FinishedStatus
  <2>3. "none" \notin FinishSources[final] /\ "cancelled" \notin FinishSources[final]
    BY DEF FinishSources
  <2> QED BY <1>5, <1>8, <2>1, <2>2, <2>3 DEF Finish, SyncOrCleanup
<1>9. CASE ExceptDecide
  <2>1. cur \in Run BY <1>0, <1>9 DEF IndInv, ControlInv, At, ExceptDecide
  <2>2. PICK final \in {"completed", "interrupted", "cancelled", "failed"} :
          /\ TransitionRun(cur, ActiveStatus, final)
          /\ SyncOrCleanup(cur, final, status[cur] \in ActiveStatus)
    BY <1>9 DEF ExceptDecide
  <2> QED BY <1>5, <1>9, <2>1, <2>2 DEF ExceptDecide, SyncOrCleanup
<1>10. CASE HaltSpawned
  <2>1. cur \in Run BY <1>0, <1>10 DEF IndInv, ControlInv, At, HaltSpawned
  <2>2. PICK w \in BOOLEAN : StopActiveRun(cur, w) /\ wpc' = IF w THEN "halt" ELSE "haltWait"
    BY <1>10 DEF HaltSpawned
  <2>3. PICK final \in {"completed", "interrupted"} : TransitionRun(cur, StopSources, final)
    BY <2>2 DEF StopActiveRun
  <2> QED BY <1>5, <1>10, <2>1, <2>2, <2>3 DEF HaltSpawned, StopActiveRun, StopSources
<1>11. CASE WorkerSync \/ HaltSync
  <2>1. cur \in Run /\ status[cur] \in TerminalStatus
    BY <1>0, <1>11 DEF IndInv, ControlInv, At, WorkerSync, HaltSync
  <2>2. PICK to \in {"failed", "cancelled"} : SyncManifestTerminal(cur, to)
    BY <1>11 DEF WorkerSync, HaltSync, At, IndInv, TypeOK, WorkType, ControlInv
  <2>3. \/ manifest' = [manifest EXCEPT ![cur] = IF @ \in TerminalJobStatus
                                                 THEN @ ELSE to]
        \/ manifest' = manifest
    <3> HIDE DEF VerdictInv
    <3> QED BY <2>1, <2>2, TerminalWrite
  <2>4. UNCHANGED <<status, born, blocked, outputs, apc, todo, cands>>
        /\ wpc' \notin {"sync", "halt"}
    BY <1>11 DEF WorkerSync, HaltSync
  <2> QED BY <1>0, <1>s, <2>1, <2>3, <2>4 DEF FileType
<1> QED
  BY <1>l, <1>2, <1>3, <1>4, <1>6, <1>7, <1>8, <1>9, <1>10, <1>11 DEF Worker

\* Shutdown interrupts the run it stops before it fails the manifest; a server
\* that is down has nothing left to write.
LEMMA ShutdownKeepsVerdict == ASSUME IndInv, VerdictInv, Shutdown PROVE VerdictInv'
<1> USE DEF VerdictInv, TerminalJobStatus
<1>0. IndInv /\ RowType /\ FileType /\ (cur # NoRun => cur \in Run /\ status[cur] # "none")
  BY DEF IndInv, TypeOK, WorkType, ControlInv
<1>1. CASE StopBegin
  BY <1>1 DEF StopBegin
<1>2. CASE StopActive
  <2>1. CASE cur # NoRun /\ Leader(cur)
    <3>1. PICK w \in BOOLEAN : StopActiveRun(cur, w) /\ spc' = IF w THEN "sync" ELSE "wait"
      BY <1>2, <2>1 DEF StopActive
    <3>2. PICK final \in {"completed", "interrupted"} : TransitionRun(cur, StopSources, final)
      BY <3>1 DEF StopActiveRun
    <3>3. w => status[cur] \in StopSources
      BY <3>1 DEF StopActiveRun
    <3>4. /\ wpc \in AwaitPoint
          /\ UNCHANGED <<born, manifest, outputs, apc, blocked, wpc, cur, todo, cands>>
      BY <1>2 DEF StopActive, LoopFree
    <3>5. CASE status[cur] \in StopSources
      <4>1. status' = [status EXCEPT ![cur] = final]
        BY <3>2, <3>5 DEF TransitionRun
      <4> QED BY <1>0, <2>1, <3>4, <3>5, <4>1 DEF RowType, StopSources
    <3>6. CASE status[cur] \notin StopSources
      <4>1. status' = status /\ spc' = "wait"
        BY <3>1, <3>2, <3>3, <3>6 DEF TransitionRun
      <4> QED BY <3>4, <4>1
    <3> QED BY <3>5, <3>6
  <2>2. CASE ~(cur # NoRun /\ Leader(cur))
    BY <1>2, <2>2 DEF StopActive
  <2> QED BY <2>1, <2>2
<1>3. CASE StopSync
  <2>1. cur \in Run /\ status[cur] \in TerminalStatus /\ wpc \in AwaitPoint
    BY <1>0, <1>3 DEF IndInv, ControlInv, StopSync
  <2>2. \/ manifest' = [manifest EXCEPT ![cur] = IF @ \in TerminalJobStatus
                                                 THEN @ ELSE "failed"]
        \/ manifest' = manifest
    <3>1. SyncManifestTerminal(cur, "failed") BY <1>3 DEF StopSync
    <3> HIDE DEF VerdictInv
    <3> QED BY <2>1, <3>1, TerminalWrite
  <2> QED BY <1>0, <1>3, <2>1, <2>2 DEF StopSync, FileType
<1>4. CASE StopWait
  BY <1>0, <1>4 DEF StopWait, LoopFree, RowType
<1>5. CASE StopCancelsWorker
  BY <1>5 DEF StopCancelsWorker, LoopFree, EnterExcept
<1>6. CASE StopDone \/ Crash
  BY <1>6 DEF StopDone, Crash, GoDown
<1> QED
  BY <1>1, <1>2, <1>3, <1>4, <1>5, <1>6 DEF Shutdown

\* Recovery queues again only what still has an open manifest, and takes the
\* verdict of a terminal one.
LEMMA RecoveryKeepsVerdict == ASSUME IndInv, VerdictInv, Recovery PROVE VerdictInv'
<1> USE DEF VerdictInv, TerminalJobStatus
<1>0. IndInv /\ RowType /\ FileType
  BY DEF IndInv, TypeOK
<1>c. rpc # "idle" => wpc \notin {"sync", "halt"} /\ spc # "sync"
  BY DEF IndInv, ControlInv
<1>1. ASSUME NEW seen \in {"exited", "unclear"}, RefreshBlock(seen)
      PROVE  VerdictInv'
  <2>1. \A r \in Run : blocked'[r] => blocked[r]
    BY <1>0, <1>1 DEF RefreshBlock, RowType
  <2> QED BY <1>1, <2>1 DEF RefreshBlock
<1>2. CASE ObserveCandidate
  <2>1. PICK r \in Run : /\ OldestIn(r, todo) /\ todo' = todo \ {r}
                         /\ blocked' = blocked \/ blocked' = [blocked EXCEPT ![r] = TRUE]
    BY <1>2 DEF ObserveCandidate
  <2> QED BY <1>0, <1>2, <2>1 DEF ObserveCandidate, OldestIn, RowType
<1>3. ASSUME UNCHANGED <<status, born, blocked, manifest, outputs, apc, spc, cur>>,
             wpc' \in {wpc, "loop"},
             \A r \in Run : r \in todo' \cup cands' => r \in todo \cup cands \/ Candidate(r)
      PROVE  VerdictInv'
  BY <1>0, <1>3 DEF Candidate, RowType
<1>4. CASE Restart \/ RefreshDone \/ RecoveryDone
  BY <1>3, <1>4 DEF Restart, RefreshDone, RecoveryDone, WithOwner
<1>5. CASE RecoverRegistry
  BY <1>0, <1>c, <1>5 DEF RecoverRegistry, RecoveredStatus, RowType, IndInv, OwnerInv
<1>6. ASSUME NEW r \in Run, OldestIn(r, todo), todo' = todo \ {r},
             status' = status \/ status' = [status EXCEPT ![r] = ManifestVerdict(r)],
             status[r] \in {"queued", "preparing"} => status' = status,
             UNCHANGED <<born, blocked, manifest, outputs, apc, spc, cur, wpc, cands>>,
             rpc # "idle"
      PROVE  VerdictInv'
  <2>1. status[r] # "none" BY <1>6 DEF OldestIn
  <2>2. ManifestVerdict(r) = status[r] \/
          (manifest[r] \in TerminalJobStatus
             /\ ManifestVerdict(r) \in {"cancelled", "completed", "failed"})
    BY DEF ManifestVerdict
  <2> QED BY <1>0, <1>c, <1>6, <2>1, <2>2 DEF RowType
<1>7. CASE ReconcileSettled
  <2>1. PICK r \in Run :
          /\ OldestIn(r, todo) /\ todo' = todo \ {r}
          /\ status' = IF status[r] \in {"interrupted", "cancelled", "failed"}
                       THEN [status EXCEPT ![r] = ManifestVerdict(r)] ELSE status
    BY <1>7 DEF ReconcileSettled
  <2>2. UNCHANGED <<born, blocked, manifest, outputs, apc, spc, cur, wpc, cands>> /\ rpc # "idle"
    BY <1>7 DEF ReconcileSettled
  <2> HIDE DEF VerdictInv
  <2> QED BY <1>6, <2>1, <2>2
<1>8. CASE ReconcileManifest
  <2>1. PICK r \in Run, to \in {"failed", "cancelled"} :
          OldestIn(r, todo) /\ ~Settled(r) /\ SyncManifestTerminal(r, to)
    BY <1>8 DEF ReconcileManifest
  <2>2. status[r] \in {"interrupted", "cancelled", "failed"}
    BY <2>1 DEF Settled
  <2>3. \/ manifest' = [manifest EXCEPT ![r] = IF @ \in TerminalJobStatus THEN @ ELSE to]
        \/ manifest' = manifest
    <3> HIDE DEF VerdictInv
    <3> QED BY <1>0, <2>1, <2>2, TerminalWrite
  <2> QED BY <1>0, <1>8, <2>2, <2>3 DEF ReconcileManifest, FileType
<1>9. CASE ReconcileApply
  <2>1. PICK r \in Run : /\ OldestIn(r, todo) /\ todo' = todo \ {r}
                         /\ status' = [status EXCEPT ![r] = ManifestVerdict(r)]
    BY <1>9 DEF ReconcileApply
  <2>2. UNCHANGED <<born, blocked, manifest, outputs, apc, spc, cur, wpc, cands>> /\ rpc # "idle"
    BY <1>9 DEF ReconcileApply
  <2>3. status[r] \in {"queued", "preparing"} => status' = status
    <3>1. CASE manifest[r] \in TerminalJobStatus
      BY <3>1
    <3>2. CASE manifest[r] \notin TerminalJobStatus
      BY <1>0, <2>1, <3>2 DEF ManifestVerdict, RowType
    <3> QED BY <3>1, <3>2
  <2> HIDE DEF VerdictInv
  <2> QED BY <1>6, <2>1, <2>2, <2>3
<1> QED
  BY <1>1, <1>2, <1>4, <1>5, <1>7, <1>8, <1>9 DEF Recovery

\* A child works only for a run that has left the queue, and commits a success
\* after it published.
LEMMA ChildKeepsVerdict ==
    ASSUME IndInv, VerdictInv, NEW r \in Run, Child(r) PROVE VerdictInv'
<1> USE DEF VerdictInv, TerminalJobStatus
<1>0. FileType /\ UNCHANGED <<status, blocked, born, apc, wpc, spc, cur, todo, cands>>
  BY DEF IndInv, TypeOK, Child, ChildReceipt, ChildStart, ChildRefused, ChildRevoked,
     ChildExits, ChildDies, OrphansExit, ChildClaims, ChildRuns, ChildPublishes,
     ChildCommits, ChildFails, OutputsDamaged, ChildMoves, ChildWrites
<1>1. CASE UNCHANGED <<manifest, outputs>>
  BY <1>0, <1>1
<1>2. CASE OutputsDamaged(r) \/ ChildPublishes(r)
  BY <1>0, <1>2 DEF OutputsDamaged, ChildPublishes, ChildWrites, FileType
<1>3. CASE ChildClaims(r) \/ ChildRuns(r) \/ ChildCommits(r) \/ ChildFails(r)
  <2>1. status[r] \notin {"none", "queued", "preparing"}
        /\ (apc = r => status[r] \in TerminalStatus)
    BY <1>3 DEF IndInv, OwnerInv, ChildClaims, ChildRuns, ChildCommits, ChildFails, ChildWrites,
       CancelInv, Doomed
  <2>2. PICK to \in {"validating", "running", "succeeded", "failed"} :
          /\ manifest' = [manifest EXCEPT ![r] = to] /\ outputs' = outputs
          /\ manifest[r] \notin TerminalJobStatus
          /\ to = "succeeded" => outputs[r] # "none"
    BY <1>3 DEF ChildClaims, ChildRuns, ChildCommits, ChildFails, ChildWrites
  <2> QED BY <1>0, <2>1, <2>2 DEF FileType
<1> QED
  BY <1>1, <1>2, <1>3 DEF Child, ChildReceipt, ChildStart, ChildRefused, ChildRevoked,
     ChildExits, ChildDies, OrphansExit, ChildMoves

\* A verdict that agreed goes on to agree while the row and its manifest stay:
\* faults are never undone, and a cancellation that is given up counts as one.
LEMMA AgreeKept ==
    ASSUME NEW r \in Run, Agree(r),
           status'[r] = status[r], manifest'[r] = manifest[r],
           outputs'[r] \in {outputs[r], "damaged"},
           faults > 0 => faults' > 0, apc = r => apc' = r \/ faults' > 0
    PROVE  Agree(r)'
BY DEF Agree

\* What a terminal manifest says agrees with it.
LEMMA VerdictAgrees ==
    ASSUME IndInv, VerdictInv, NEW r \in Run,
           \/ manifest[r] \in TerminalJobStatus
           \/ status[r] \in {"interrupted", "cancelled", "failed"} /\ faults > 0,
           status'[r] = ManifestVerdict(r), UNCHANGED <<manifest, outputs, faults>>
    PROVE  status'[r] \notin ActiveStatus /\ Agree(r)'
<1>1. outputs[r] \in {"none", "valid", "damaged"}
  BY DEF IndInv, TypeOK, FileType
<1>2. CASE manifest[r] \in TerminalJobStatus
  BY <1>1, <1>2 DEF VerdictInv, ManifestVerdict, DurableSuccess, TerminalJobStatus, Agree
<1>3. CASE manifest[r] \notin TerminalJobStatus
  BY <1>3 DEF ManifestVerdict, Agree
<1> QED BY <1>2, <1>3

\* While the server recovers, only recovery, the second API process and children
\* move, and only recovery moves a program counter of the server.
LEMMA RecoveringSteps ==
    ASSUME IndInv, server = "recovering", server' = "recovering", Next
    PROVE  \/ \E r \in Run : ApiCancel(r) \/ Child(r)
           \/ ApiCancelSync \/ ApiDies \/ Recovery
<1>1. spc = "none" /\ cpc = NoRun /\ wpc = "off"
  BY DEF IndInv, ControlInv
<1>2. ~Worker
  BY DEF Worker, At, LoopTop, ClaimNextQueuedRun, ClaimNothing, PrepareFails,
     BeginRunStart, SpawnChild, SpawnFails, MarkRunRunning, RefuseDone,
     RefuseTimeout, Attach, AttachFails, Authorize, WatchFails, Finish,
     ExceptTerminated, ExceptDecide, WorkerSync, Cleanup, CleanupWait,
     HaltSpawned, HaltSync, HaltWait
<1>3. ~Shutdown
  BY DEF Shutdown, LoopFree, StopBegin, StopActive, StopSync, StopWait,
     StopCancelsWorker, StopDone, Crash, GoDown
<1>4. ~CancelSync /\ \A r \in Run : ~(CreateRun(r) \/ DismissTerminalRun(r) \/ Cancel(r))
  BY DEF CancelSync, CreateRun, DismissTerminalRun, Cancel, LoopFree
<1> QED BY <1>2, <1>3, <1>4 DEF Next, Request

\* A child moves only a manifest that recovery has still to look at, or that its
\* block protects.
LEMMA ChildKeepsRecovery ==
    ASSUME IndInv, VerdictInv, RecoveryInv, NEW q \in Run, Child(q)
    PROVE  RecoveryInv'
<1>1. UNCHANGED <<status, blocked, born, apc, rpc, todo, cands, server>>
  BY DEF Child, ChildReceipt, ChildStart, ChildRefused, ChildRevoked,
     ChildExits, ChildDies, OrphansExit, ChildClaims, ChildRuns, ChildPublishes,
     ChildCommits, ChildFails, OutputsDamaged, ChildMoves, ChildWrites
<1>2. faults' = faults \/ faults' = faults + 1
  BY DEF Child, ChildReceipt, ChildStart, ChildRefused, ChildRevoked,
     ChildExits, ChildDies, OrphansExit, ChildClaims, ChildRuns, ChildPublishes,
     ChildCommits, ChildFails, OutputsDamaged, ChildMoves, ChildWrites, Fault
<1>3. outputs' = outputs \/ outputs' = [outputs EXCEPT ![q] = "damaged"] \/ Computing(q)
  BY DEF Child, ChildReceipt, ChildStart, ChildRefused, ChildRevoked,
     ChildExits, ChildDies, OrphansExit, ChildClaims, ChildRuns, ChildPublishes,
     ChildCommits, ChildFails, OutputsDamaged, ChildMoves, ChildWrites, Computing, Alive
<1>4. manifest' = manifest \/ Computing(q)
  BY DEF Child, ChildReceipt, ChildStart, ChildRefused, ChildRevoked,
     ChildExits, ChildDies, OrphansExit, ChildClaims, ChildRuns, ChildPublishes,
     ChildCommits, ChildFails, OutputsDamaged, ChildMoves, ChildWrites, Computing, Alive
<1>5. \A r \in Run : r # q => manifest'[r] = manifest[r] /\ outputs'[r] = outputs[r]
  BY DEF Child, ChildReceipt, ChildStart, ChildRefused, ChildRevoked,
     ChildExits, ChildDies, OrphansExit, ChildClaims, ChildRuns, ChildPublishes,
     ChildCommits, ChildFails, OutputsDamaged, ChildMoves, ChildWrites, IndInv, TypeOK, FileType
<1>6. FileType /\ faults \in Nat
  BY DEF IndInv, TypeOK, HostType
<1> SUFFICES ASSUME server = "recovering" PROVE RecoveryInv'
  BY <1>1 DEF RecoveryInv
<1>7. Computing(q) => blocked[q] \/ (rpc = "observe" /\ q \in todo)
  BY DEF IndInv, SurvivorInv
<1>8. todo \subseteq cands /\ (rpc # "observe" => \A r \in Run : status[r] \notin ActiveStatus)
  BY DEF RecoveryInv
<1>9. ASSUME NEW r \in Run, ~blocked[r], ~Pending(r)
      PROVE  status[r] \notin ActiveStatus /\ Agree(r)'
  <2>1. status[r] \notin ActiveStatus /\ Agree(r)
    BY <1>9 DEF RecoveryInv
  <2>2. r = q => ~Computing(q)
    BY <1>7, <1>8, <1>9 DEF Pending
  <2>3. manifest'[r] = manifest[r] /\ outputs'[r] \in {outputs[r], "damaged"}
    BY <1>3, <1>4, <1>5, <1>6, <2>2 DEF FileType
  <2>4. (faults > 0 => faults' > 0) /\ apc' = apc
    BY <1>1, <1>2, <1>6
  <2> QED BY <1>1, <2>1, <2>3, <2>4, AgreeKept
<1>10. ASSUME rpc = "apply", NEW r \in Run, OldestIn(r, todo)
       PROVE  /\ ~blocked[r]
              /\ \/ manifest'[r] \in TerminalJobStatus
                 \/ status[r] \in {"interrupted", "cancelled", "failed"} /\ faults' > 0
  <2>1. ~blocked[r]
    BY <1>10 DEF RecoveryInv
  <2>2. manifest'[r] = manifest[r]
    BY <1>4, <1>5, <1>7, <1>10, <2>1
  <2>3. \/ manifest[r] \in TerminalJobStatus
        \/ status[r] \in {"interrupted", "cancelled", "failed"} /\ faults > 0
    BY <1>10 DEF RecoveryInv
  <2> QED BY <1>2, <1>6, <2>1, <2>2, <2>3
<1> QED BY <1>1, <1>8, <1>9, <1>10 DEF RecoveryInv, Pending, OldestIn

\* A cancellation in the second API process ends a queued run, whose manifest is
\* open, and its second half brings the manifest along.
LEMMA ApiKeepsRecovery ==
    ASSUME IndInv, VerdictInv, RecoveryInv,
           (\E q \in Run : ApiCancel(q)) \/ ApiCancelSync \/ ApiDies
    PROVE  RecoveryInv'
<1>1. UNCHANGED <<outputs, blocked, born, rpc, todo, cands, server>>
  BY DEF ApiCancel, ApiCancelSync, ApiDies
<1>2. RowType /\ FileType /\ faults \in Nat /\ apc \in Run \cup {NoRun}
  BY DEF IndInv, TypeOK, HostType
<1> SUFFICES ASSUME server = "recovering" PROVE RecoveryInv'
  BY <1>1 DEF RecoveryInv
<1>3. /\ todo \subseteq cands
      /\ rpc # "observe" => \A r \in Run : status[r] \notin ActiveStatus
      /\ \A r \in Run : ~blocked[r] /\ ~Pending(r) => status[r] \notin ActiveStatus /\ Agree(r)
      /\ rpc = "apply" => \A r \in Run : OldestIn(r, todo) =>
            /\ ~blocked[r]
            /\ \/ manifest[r] \in TerminalJobStatus
               \/ status[r] \in {"interrupted", "cancelled", "failed"} /\ faults > 0
  BY DEF RecoveryInv
<1> DEFINE Kept ==
        /\ rpc # "observe" => \A r \in Run : status'[r] \notin ActiveStatus
        /\ \A r \in Run : ~blocked[r] /\ ~Pending(r)
                            => status'[r] \notin ActiveStatus /\ Agree(r)'
        /\ rpc = "apply" => \A r \in Run : OldestIn(r, todo) =>
              \/ manifest'[r] \in TerminalJobStatus
              \/ status'[r] \in {"interrupted", "cancelled", "failed"} /\ faults' > 0
<1>4. SUFFICES Kept
  BY <1>1, <1>3 DEF RecoveryInv, Pending, OldestIn
<1>5. ASSUME NEW q \in Run, ApiCancel(q)
      PROVE  Kept
  <2>1. UNCHANGED <<manifest, faults>> /\ apc = NoRun
    BY <1>5 DEF ApiCancel
  <2>2. \/ /\ status[q] \in {"queued", "preparing", "starting"} /\ apc' = q
           /\ status' = [status EXCEPT ![q] = "cancelled"]
        \/ /\ status[q] \in {"running", "cancelling"}
           /\ status' = [status EXCEPT ![q] = "cancelling"]
    BY <1>2, <1>5 DEF ApiCancel, CancelRow, RowType
  <2>3. \A r \in Run : r # q => status'[r] = status[r]
    BY <1>2, <2>2 DEF RowType
  <2>4. status[q] \notin ActiveStatus =>
          /\ status[q] = "queued" /\ status'[q] = "cancelled" /\ apc' = q
          /\ manifest[q] \notin TerminalJobStatus
    BY <1>2, <2>2 DEF RowType, VerdictInv
  <2>5. rpc # "observe" => \A r \in Run : status'[r] \notin ActiveStatus
    BY <1>3, <2>3, <2>4
  <2>6. ASSUME NEW r \in Run, ~blocked[r], ~Pending(r)
        PROVE  status'[r] \notin ActiveStatus /\ Agree(r)'
    <3>1. status[r] \notin ActiveStatus /\ Agree(r) BY <1>3, <2>6
    <3>2. CASE r = q
      BY <2>1, <2>4, <3>1, <3>2 DEF Agree
    <3>3. CASE r # q
      BY <1>1, <2>1, <2>3, <3>1, <3>3, RunAssumption, AgreeKept
    <3> QED BY <3>2, <3>3
  <2>7. ASSUME rpc = "apply", NEW r \in Run, OldestIn(r, todo)
        PROVE  \/ manifest'[r] \in TerminalJobStatus
               \/ status'[r] \in {"interrupted", "cancelled", "failed"} /\ faults' > 0
    BY <1>3, <2>1, <2>3, <2>4, <2>7
  <2> QED BY <2>5, <2>6, <2>7
<1>6. ASSUME ApiCancelSync
      PROVE  Kept
  <2>1. apc \in Run /\ apc' = NoRun /\ CancelManifest(apc)
    BY <1>2, <1>6 DEF ApiCancelSync
  <2> DEFINE q == apc
  <2>2. status[q] \in TerminalStatus
        /\ (manifest[q] \notin TerminalJobStatus => status[q] = "cancelled")
    BY <2>1 DEF IndInv, CancelInv, Doomed, VerdictInv
  <2>3. \/ /\ manifest' = [manifest EXCEPT ![q] = IF @ \in TerminalJobStatus
                                                  THEN @ ELSE "cancelled"]
           /\ faults' = faults
        \/ manifest' = manifest /\ faults' = faults + 1
    <3>1. SyncManifestTerminal(q, "cancelled") BY <2>1 DEF CancelManifest
    <3> QED BY <2>1, <2>2, <3>1, TerminalWrite
  <2>4. \/ status' = status
        \/ /\ status' = [status EXCEPT ![q] = "completed"]
           /\ manifest[q] = "succeeded" /\ status[q] = "cancelled"
    BY <2>1 DEF CancelManifest, TransitionRun, DurableSuccess
  <2>5. (\A r \in Run : r # q => manifest'[r] = manifest[r] /\ status'[r] = status[r])
        /\ (faults > 0 => faults' > 0)
    BY <1>2, <2>1, <2>3, <2>4 DEF RowType, FileType
  <2>6. status'[q] \in TerminalStatus /\ (status[q] # "cancelled" => status'[q] = status[q])
    BY <1>2, <2>1, <2>2, <2>4 DEF RowType
  <2>7. \/ /\ manifest[q] \in TerminalJobStatus /\ manifest'[q] = manifest[q]
           /\ status'[q] = status[q] \/ (status'[q] = "completed" /\ manifest[q] = "succeeded")
        \/ /\ manifest[q] \notin TerminalJobStatus /\ status'[q] = "cancelled"
           /\ manifest'[q] = "cancelled" \/ (manifest'[q] = manifest[q] /\ faults' > 0)
    BY <1>2, <2>1, <2>2, <2>3, <2>4 DEF RowType, FileType, TerminalJobStatus
  <2> HIDE DEF q
  <2>q. q \in Run /\ q = apc BY <2>1 DEF q
  <2>8. rpc # "observe" => \A r \in Run : status'[r] \notin ActiveStatus
    BY <1>3, <2>5, <2>6
  <2>9. ASSUME NEW r \in Run, ~blocked[r], ~Pending(r)
        PROVE  status'[r] \notin ActiveStatus /\ Agree(r)'
    <3>1. status[r] \notin ActiveStatus /\ Agree(r) BY <1>3, <2>9
    <3>2. CASE r # q
      BY <1>1, <2>q, <2>5, <3>1, <3>2, AgreeKept
    <3>3. CASE r = q /\ manifest[q] \in TerminalJobStatus
      <4>1. manifest'[r] = manifest[r]
        BY <2>7, <3>3
      <4>2. CASE status'[r] = status[r]
        BY <1>1, <3>1, <3>3, <4>1, <4>2 DEF Agree
      <4>3. CASE status'[r] = "completed" /\ manifest[r] = "succeeded"
        BY <4>1, <4>3 DEF Agree
      <4> QED BY <2>7, <3>3, <4>2, <4>3, <3>1
    <3>4. CASE r = q /\ manifest[q] \notin TerminalJobStatus
      BY <2>7, <3>4 DEF Agree
    <3> QED BY <3>2, <3>3, <3>4
  <2>10. ASSUME rpc = "apply", NEW r \in Run, OldestIn(r, todo)
         PROVE  \/ manifest'[r] \in TerminalJobStatus
                \/ status'[r] \in {"interrupted", "cancelled", "failed"} /\ faults' > 0
    <3>1. CASE r # q BY <1>3, <2>5, <2>10, <3>1
    <3>2. CASE r = q BY <2>7, <3>2 DEF TerminalJobStatus
    <3> QED BY <3>1, <3>2
  <2> QED BY <2>8, <2>9, <2>10
<1>7. ASSUME ApiDies
      PROVE  \A r \in Run : ~blocked[r] /\ ~Pending(r) => Agree(r)'
  <2>1. UNCHANGED <<status, manifest>> /\ faults' > 0
    BY <1>2, <1>7 DEF ApiDies, Fault
  <2> QED BY <1>1, <1>3, <2>1, AgreeKept
<1>8. ApiDies => UNCHANGED <<status, manifest>> /\ faults' > 0
  BY <1>2 DEF ApiDies, Fault
<1> QED BY <1>3, <1>5, <1>6, <1>7, <1>8

\* The server enters and leaves recovery by steps of recovery, or by a crash.
LEMMA RecoveryChangesServer ==
    ASSUME Next, server' # server PROVE Recovery \/ server' = "down"
<1>1. ~Request
  BY DEF Request, CreateRun, DismissTerminalRun, Cancel, ApiCancel, CancelSync,
     ApiCancelSync, ApiDies
<1>2. ~Worker
  BY DEF Worker, LoopTop, ClaimNextQueuedRun, ClaimNothing, PrepareFails,
     BeginRunStart, SpawnChild, SpawnFails, MarkRunRunning, RefuseDone,
     RefuseTimeout, Attach, AttachFails, Authorize, WatchFails, Finish,
     ExceptTerminated, ExceptDecide, WorkerSync, Cleanup, CleanupWait,
     HaltSpawned, HaltSync, HaltWait, EnterExcept
<1>3. Shutdown => server' = "down"
  BY DEF Shutdown, StopBegin, StopActive, StopSync, StopWait,
     StopCancelsWorker, EnterExcept, StopDone, Crash, GoDown
<1>4. \A r \in Run : ~Child(r)
  BY DEF Child, ChildReceipt, ChildStart, ChildRefused, ChildRevoked, ChildExits,
     ChildDies, OrphansExit, ChildClaims, ChildRuns, ChildPublishes,
     ChildCommits, ChildFails, OutputsDamaged, ChildMoves, ChildWrites
<1> QED BY <1>1, <1>2, <1>3, <1>4 DEF Next

\* Two oldest runs of the list are one run.
LEMMA OldestIsUnique ==
    ASSUME IndInv, VerdictInv, NEW r \in Run, NEW q \in Run,
           OldestIn(r, todo), OldestIn(q, todo)
    PROVE  r = q
<1>1. born[r] = born[q]
  BY DEF OldestIn, IndInv, TypeOK, RowType
<1> QED BY <1>1 DEF OldestIn, VerdictInv

\* Recovery takes a run off its list only when it is blocked or agrees.
LEMMA RecoveryKeepsRecovery ==
    ASSUME IndInv, VerdictInv, RecoveryInv, Recovery, server' = "recovering"
    PROVE  RecoveryInv'
<1>1. RowType /\ FileType /\ faults \in Nat
  BY DEF IndInv, TypeOK, HostType
<1>2. CASE Restart
  <2>1. /\ UNCHANGED <<status, manifest, outputs, blocked, faults, apc>>
        /\ rpc' = "observe" /\ cands' = {r \in Run : Candidate(r)} /\ todo' \subseteq cands'
    BY <1>2 DEF Restart, WithOwner
  <2>2. ASSUME NEW r \in Run, ~Candidate(r)
        PROVE  ~blocked[r] /\ status[r] \notin ActiveStatus /\ Agree(r)'
    <3>1. ~blocked[r] /\ status[r] \in {"none", "queued", "completed"}
      BY <1>1, <2>2 DEF Candidate, RowType
    <3>2. status[r] = "completed" => manifest[r] = "succeeded"
      BY DEF IndInv, ManifestInv
    <3> QED BY <2>1, <3>1, <3>2 DEF Agree
  <2> QED BY <2>1, <2>2 DEF RecoveryInv, Pending
<1>3. CASE RefreshDone \/ \E seen \in {"exited", "unclear"} : RefreshBlock(seen)
  <2>1. rpc = "refresh" /\ server' = server
    BY <1>3 DEF RefreshDone, RefreshBlock
  <2> QED BY <2>1 DEF IndInv, ControlInv
<1>4. CASE RecoveryDone
  BY <1>4 DEF RecoveryDone
<1> SUFFICES ASSUME server = "recovering" PROVE RecoveryInv'
  BY <1>2, <1>3, <1>4 DEF Recovery, ObserveCandidate, RecoverRegistry, ReconcileSettled,
     ReconcileManifest, ReconcileApply
<1>5. /\ todo \subseteq cands
      /\ rpc # "observe" => \A r \in Run : status[r] \notin ActiveStatus
      /\ \A r \in Run : ~blocked[r] /\ ~Pending(r) => status[r] \notin ActiveStatus /\ Agree(r)
      /\ rpc = "apply" => \A r \in Run : OldestIn(r, todo) =>
            /\ ~blocked[r]
            /\ \/ manifest[r] \in TerminalJobStatus
               \/ status[r] \in {"interrupted", "cancelled", "failed"} /\ faults > 0
  BY DEF RecoveryInv
<1>6. CASE ObserveCandidate
  <2>1. /\ UNCHANGED <<status, manifest, outputs, faults, apc, cands>>
        /\ rpc = "observe" /\ rpc' = "observe" /\ todo' \subseteq todo
    BY <1>6 DEF ObserveCandidate
  <2>2. \A r \in Run : blocked[r] => blocked'[r]
    BY <1>1, <1>6 DEF ObserveCandidate, RowType
  <2>3. \A r \in Run : Agree(r) => Agree(r)'
    BY <2>1, AgreeKept
  <2> QED BY <1>5, <2>1, <2>2, <2>3 DEF RecoveryInv, Pending
<1>7. CASE RecoverRegistry
  <2>1. /\ UNCHANGED <<blocked, manifest, outputs, faults, apc, cands>>
        /\ rpc = "observe" /\ rpc' = "reconcile" /\ todo' = cands
        /\ \A r \in Run : status'[r] = RecoveredStatus(r)
    BY <1>7 DEF RecoverRegistry
  <2>2. \A r \in Run : /\ status'[r] \notin ActiveStatus
                       /\ status[r] \notin ActiveStatus => status'[r] = status[r]
    BY <2>1 DEF RecoveredStatus
  <2>3. ASSUME NEW r \in Run, ~blocked[r], r \notin cands PROVE Agree(r)'
    <3>1. status[r] \notin ActiveStatus /\ Agree(r)
      BY <1>5, <2>1, <2>3 DEF Pending
    <3> QED BY <2>1, <2>2, <3>1, AgreeKept
  <2> QED BY <2>1, <2>2, <2>3 DEF RecoveryInv, Pending
<1>8. CASE ReconcileSettled
  <2>1. PICK r \in Run :
          /\ OldestIn(r, todo) /\ Settled(r) /\ todo' = todo \ {r}
          /\ status' = IF status[r] \in {"interrupted", "cancelled", "failed"}
                       THEN [status EXCEPT ![r] = ManifestVerdict(r)] ELSE status
    BY <1>8 DEF ReconcileSettled
  <2>2. /\ UNCHANGED <<blocked, manifest, outputs, faults, apc, cands, born>>
        /\ rpc = "reconcile" /\ rpc' = "reconcile"
    BY <1>8 DEF ReconcileSettled
  <2>3. \A q \in Run : q # r => status'[q] = status[q]
    BY <1>1, <2>1 DEF RowType
  <2>4. ASSUME ~blocked[r]
        PROVE  status'[r] \notin ActiveStatus /\ Agree(r)'
    <3>1. CASE status[r] \in {"interrupted", "cancelled", "failed"}
      <4>1. status'[r] = ManifestVerdict(r) /\ manifest[r] \in TerminalJobStatus
        BY <1>1, <2>1, <2>4, <3>1 DEF RowType, Settled
      <4> QED BY <2>2, <4>1, VerdictAgrees
    <3>2. CASE status[r] \notin {"interrupted", "cancelled", "failed"}
      <4>1. status'[r] = status[r] /\ status[r] \in {"none", "queued", "completed"}
        BY <1>1, <1>5, <2>1, <2>2, <3>2 DEF RowType
      <4>2. status[r] = "completed" => manifest[r] = "succeeded"
        BY DEF IndInv, ManifestInv
      <4> QED BY <2>2, <4>1, <4>2 DEF Agree
    <3> QED BY <3>1, <3>2
  <2>5. status'[r] \notin ActiveStatus
    <3>1. status[r] \notin ActiveStatus BY <1>5, <2>2
    <3> QED BY <1>1, <2>1, <3>1 DEF RowType, ManifestVerdict
  <2>6. ASSUME NEW q \in Run, q # r, ~blocked[q], q \notin todo PROVE Agree(q)'
    <3>1. Agree(q) BY <1>5, <2>2, <2>6 DEF Pending
    <3> QED BY <2>2, <2>3, <2>6, <3>1, AgreeKept
  <2> QED BY <1>5, <2>1, <2>2, <2>3, <2>4, <2>5, <2>6 DEF RecoveryInv, Pending
<1>9. CASE ReconcileManifest
  <2>1. PICK r \in Run, to \in {"failed", "cancelled"} :
          OldestIn(r, todo) /\ ~Settled(r) /\ SyncManifestTerminal(r, to)
    BY <1>9 DEF ReconcileManifest
  <2>2. /\ UNCHANGED <<status, blocked, outputs, apc, cands, todo, born>>
        /\ rpc = "reconcile" /\ rpc' = "apply"
    BY <1>9 DEF ReconcileManifest
  <2>3. status[r] \in {"interrupted", "cancelled", "failed"} /\ ~blocked[r]
        /\ manifest[r] \notin TerminalJobStatus
    BY <2>1 DEF Settled
  <2>4. \/ manifest' = [manifest EXCEPT ![r] = to] /\ faults' = faults
        \/ manifest' = manifest /\ faults' = faults + 1
    BY <2>1, <2>3, TerminalWrite
  <2>5. (\A q \in Run : q # r => manifest'[q] = manifest[q]) /\ (faults > 0 => faults' > 0)
    BY <1>1, <2>4 DEF FileType
  <2>6. manifest'[r] \in TerminalJobStatus \/ faults' > 0
    BY <1>1, <2>4 DEF FileType, TerminalJobStatus
  <2>7. ASSUME NEW q \in Run, ~blocked[q], q \notin todo PROVE Agree(q)'
    <3>1. q # r BY <2>1, <2>7 DEF OldestIn
    <3>2. Agree(q) BY <1>5, <2>2, <2>7 DEF Pending
    <3> QED BY <2>2, <2>5, <3>1, <3>2, AgreeKept
  <2>8. ASSUME NEW q \in Run, OldestIn(q, todo)' PROVE q = r
    <3>1. OldestIn(q, todo) BY <2>2, <2>8 DEF OldestIn
    <3> QED BY <2>1, <3>1, OldestIsUnique
  <2> QED BY <1>5, <2>2, <2>3, <2>6, <2>7, <2>8 DEF RecoveryInv, Pending
<1>10. CASE ReconcileApply
  <2>1. PICK r \in Run : /\ OldestIn(r, todo) /\ todo' = todo \ {r}
                         /\ status' = [status EXCEPT ![r] = ManifestVerdict(r)]
    BY <1>10 DEF ReconcileApply
  <2>2. /\ UNCHANGED <<blocked, manifest, outputs, faults, apc, cands, born>>
        /\ rpc = "apply" /\ rpc' = "reconcile"
    BY <1>10 DEF ReconcileApply
  <2>3. status'[r] \notin ActiveStatus /\ Agree(r)'
    <3>1. \/ manifest[r] \in TerminalJobStatus
          \/ status[r] \in {"interrupted", "cancelled", "failed"} /\ faults > 0
      BY <1>5, <2>1, <2>2
    <3>2. status'[r] = ManifestVerdict(r)
      BY <1>1, <2>1 DEF RowType
    <3> QED BY <2>2, <3>1, <3>2, VerdictAgrees
  <2>4. \A q \in Run : q # r => status'[q] = status[q]
    BY <1>1, <2>1 DEF RowType
  <2>5. ASSUME NEW q \in Run, q # r, ~blocked[q], q \notin todo PROVE Agree(q)'
    <3>1. Agree(q) BY <1>5, <2>2, <2>5 DEF Pending
    <3> QED BY <2>2, <2>4, <2>5, <3>1, AgreeKept
  <2> QED BY <1>5, <2>1, <2>2, <2>3, <2>4, <2>5 DEF RecoveryInv, Pending
<1> QED
  BY <1>6, <1>7, <1>8, <1>9, <1>10, <1>2, <1>3, <1>4 DEF Recovery

\* The two invariants hold in every behaviour.
LEMMA RecoveryInvariance == Spec => [](IndInv /\ VerdictInv /\ RecoveryInv)
<1>1. Init => VerdictInv /\ RecoveryInv
  BY DEF Init, VerdictInv, RecoveryInv
<1>2. ASSUME IndInv, OrderInv, VerdictInv, [Next]_vars PROVE VerdictInv'
  <2>1. CASE UNCHANGED vars
    BY <1>2, <2>1 DEF vars, VerdictInv
  <2> QED
    BY <1>2, <2>1, RequestKeepsVerdict, WorkerKeepsVerdict, ShutdownKeepsVerdict,
       RecoveryKeepsVerdict, ChildKeepsVerdict DEF Next
<1>3. ASSUME IndInv, VerdictInv, RecoveryInv, [Next]_vars PROVE RecoveryInv'
  <2>1. CASE UNCHANGED vars
    BY <1>3, <2>1 DEF vars, RecoveryInv, Pending, Agree, OldestIn
  <2>2. CASE server' # "recovering"
    BY <2>2 DEF RecoveryInv
  <2>3. CASE Next /\ server' = "recovering" /\ server = "recovering"
    BY <1>3, <2>3, RecoveringSteps, ApiKeepsRecovery, ChildKeepsRecovery,
       RecoveryKeepsRecovery
  <2>4. CASE Next /\ server' = "recovering" /\ server # "recovering"
    <3>1. Recovery BY <2>4, RecoveryChangesServer
    <3> QED BY <1>3, <2>4, <3>1, RecoveryKeepsRecovery
  <2> QED BY <1>3, <2>1, <2>2, <2>3, <2>4
<1> QED
  BY <1>1, <1>2, <1>3, OrderInvariance, PTL DEF Spec

\* When the server serves again after a restart, the registry agrees with the
\* manifest of every run without a block, wherever the crash fell.
THEOREM RecoverySound == Spec => RecoveryReconciles
<1>1. ASSUME IndInv, VerdictInv, RecoveryInv, [Next]_vars
      PROVE  [server = "recovering" /\ server' = "up"
                => \A r \in Run : ~blocked[r] => Agree(r)']_vars
  <2> SUFFICES ASSUME server = "recovering", server' = "up",
                      NEW r \in Run, ~blocked[r]
               PROVE  Agree(r)'
    OBVIOUS
  <2>1. RecoveryDone
    <3>1. Recovery BY <1>1, RecoveryChangesServer DEF vars
    <3> QED BY <3>1 DEF Recovery, Restart, RefreshBlock, RefreshDone, ObserveCandidate,
               RecoverRegistry, ReconcileSettled, ReconcileManifest, ReconcileApply
  <2>2. Agree(r)
    BY <1>1, <2>1 DEF RecoveryDone, RecoveryInv, Pending
  <2>3. UNCHANGED <<status, manifest, outputs, faults, apc>>
    BY <2>1 DEF RecoveryDone
  <2> QED BY <2>2, <2>3, AgreeKept
<1> QED BY <1>1, RecoveryInvariance, PTL DEF Spec, RecoveryReconciles
==============================================================================
