-------------------------------- MODULE Datasets -------------------------------
(* One dataset of the registry (webapp/datasets.py, webapp/store.py): its scan *)
(* and its point-cloud catalog are built by tasks that run a thread, a rescan  *)
(* and a removal cancel them, previews read through PointReader the versions   *)
(* of the catalog that was in memory when they started.                        *)
(*                                                                             *)
(* Handlers and tasks run on the event loop: each is one step from an await to *)
(* the next.  A catalog is abstracted to the version of the folder it was      *)
(* built from, the indexed frames to whether there are any.                    *)
EXTENDS PointReader

CONSTANTS
    MaxRestarts,  \* bound on restarts of the server
    MaxRescans,   \* bound on scan requests
    MaxReads      \* bound on blocks read for previews

ASSUME BoundAssumption ==
    MaxRestarts \in Nat /\ MaxRescans \in Nat /\ MaxReads \in Nat

VARIABLES
    \* the row: registered, status, frames and catalog_status (durable)
    registered, status, frames, catalogStatus,
    catalog,       \* app.state.catalogs
    scan, index,   \* app.state.scan_tasks, app.state.catalog_tasks
    remove,        \* the DELETE handler, which holds the dataset lock
    requested,     \* ghost: the folder at the last accepted scan request
    worker,        \* config.enable_run_worker of the server that is up
    orphan,        \* ghost: "scanning" was left behind by a server that is gone
    restarts, rescans, reads

row    == <<registered, status, frames, catalogStatus>>
tasks  == <<scan, index>>
server == <<worker, orphan>>
bounds == <<restarts, rescans, reads>>
vars == <<disk, blocks, order, cacheBytes, inflight, handle, lock, pc, key, got,
          closer, held, registered, status, frames, catalogStatus, catalog,
          scan, index, remove, requested, worker, orphan, restarts, rescans, reads>>

\* A task of asyncio: queued until its first step, then awaiting a thread that
\* indexes version `seen` of the folder.  `unstarted` is a task that was
\* cancelled before its first step: none of its code ran.
NoTask == [state |-> "none", cancel |-> "no", seen |-> None]
Queued == [NoTask EXCEPT !.state = "queued"]
Live(task) == task.state \in {"queued", "thread"}
Cancelled(task) == task.cancel # "no"
\* task.cancel(), by a rescan or by a removal, which then waits for the task
Cancel(task, by) == IF Live(task) /\ task.cancel # "remove"
                    THEN [task EXCEPT !.cancel = by] ELSE task
\* schedule_scan, schedule_catalog: nothing is scheduled while one is live.
Schedule(task) == IF Live(task) THEN task ELSE Queued

------------------------------------------------------------------------------
(* The registry: each operation is a transaction *)

UpsertScanningDataset ==
    registered' = TRUE /\ status' = "scanning" /\ catalogStatus' = "missing"

\* These three leave a removed row alone.
FinishDatasetScan ==
    /\ status' = IF registered THEN "ready" ELSE status
    /\ frames' = (registered \/ frames)
FailDatasetScan == status' = IF registered THEN "error" ELSE status
SetCatalogStatus(value) ==
    catalogStatus' = IF registered THEN value ELSE catalogStatus

UnregisterDataset ==
    /\ registered' = FALSE /\ status' = "removed" /\ frames' = FALSE
    /\ catalogStatus' = "missing"

------------------------------------------------------------------------------
(* The folder and the requests *)

\* Files of the delivery are replaced.
ReplaceFiles ==
    /\ disk < MaxVersion /\ disk' = disk + 1
    /\ UNCHANGED <<readerVars, row, catalog, tasks, remove, requested, server, bounds>>

\* Mutant of Rescan: the catalog under construction is not cancelled.
RescanKeepsIndex ==
    /\ rescans < MaxRescans /\ rescans' = rescans + 1
    /\ UpsertScanningDataset
    /\ catalog' = None /\ scan' = Schedule(scan) /\ requested' = disk /\ orphan' = FALSE
    /\ UNCHANGED <<disk, readerVars, frames, index, remove, worker, restarts, reads>>

\* POST /datasets/scan, after the CRS was detected.  A live scan is not started
\* again.
Rescan ==
    /\ rescans < MaxRescans /\ rescans' = rescans + 1
    /\ index' = Cancel(index, "rescan")
    /\ UpsertScanningDataset
    /\ catalog' = None /\ scan' = Schedule(scan)
    /\ requested' = disk /\ orphan' = FALSE
    /\ UNCHANGED <<disk, readerVars, frames, remove, worker, restarts, reads>>

\* require_ready_dataset
Ready == status = "ready"

\* A thread reads block b with the catalog in memory.
ReadBlock(t, b, kind) ==
    /\ Ready /\ catalog # None
    /\ Request(t, [block |-> b, version |-> catalog, kind |-> kind])
    /\ reads < MaxReads /\ reads' = reads + 1
    /\ UNCHANGED <<row, catalog, tasks, remove, requested, server, restarts, rescans>>

\* points and panorama_points show the display fields, pole tools read all of them.
Points(t, b)   == ReadBlock(t, b, "preview")
PoleBase(t, b) == ReadBlock(t, b, "records")

\* Without a catalog it is built and the client is told to retry; after a failed
\* build it is told to rescan.
ScheduleIndex ==
    /\ Ready /\ catalog = None /\ catalogStatus # "error"
    /\ ~Live(index) /\ index' = Schedule(index)
    /\ UNCHANGED <<disk, readerVars, row, catalog, scan, remove, requested, server, bounds>>

\* The response is sent.
Respond(t) ==
    /\ pc[t] = "done" /\ pc' = [pc EXCEPT ![t] = "idle"]
    /\ got' = [got EXCEPT ![t] = None] /\ key' = [key EXCEPT ![t] = AnyKey]
    /\ UNCHANGED <<disk, cacheVars, inflight, handle, lock, closeVars,
                   row, catalog, tasks, remove, requested, server, bounds>>

------------------------------------------------------------------------------
(* run_dataset_scan *)

\* First step: a row that was removed meanwhile ends the task.
ScanStart ==
    /\ scan.state = "queued" /\ ~Cancelled(scan)
    /\ scan' = IF registered THEN [scan EXCEPT !.state = "thread"] ELSE NoTask
    /\ UNCHANGED <<disk, readerVars, row, catalog, index, remove, requested, server, bounds>>

FinishScan ==
    /\ scan.state = "thread" /\ ~Cancelled(scan) /\ scan' = NoTask
    /\ FinishDatasetScan
    /\ UNCHANGED <<disk, readerVars, registered, catalogStatus, catalog, index,
                   remove, requested, server, bounds>>

\* Mutant of ScanFails: the failure of a cancelled scan is not recorded.
ScanFailsSilently ==
    /\ scan.state = "thread" /\ scan' = NoTask
    /\ status' = IF registered /\ ~Cancelled(scan) THEN "error" ELSE status
    /\ UNCHANGED <<disk, readerVars, registered, frames, catalogStatus, catalog,
                   index, remove, requested, server, bounds>>

\* The scan raises, or is cancelled.
ScanFails ==
    /\ scan.state = "thread" /\ scan' = NoTask /\ FailDatasetScan
    /\ UNCHANGED <<disk, readerVars, registered, frames, catalogStatus, catalog,
                   index, remove, requested, server, bounds>>

\* A cancelled task that had not begun ends without a trace.
ScanUnstarted ==
    /\ scan.state = "queued" /\ Cancelled(scan)
    /\ scan' = [NoTask EXCEPT !.state = "unstarted"]
    /\ UNCHANGED <<disk, readerVars, row, catalog, index, remove, requested, server, bounds>>

------------------------------------------------------------------------------
(* build_catalog *)

IndexStart ==
    /\ index.state = "queued" /\ ~Cancelled(index)
    /\ index' = IF registered THEN [index EXCEPT !.state = "thread", !.seen = disk]
                              ELSE NoTask
    /\ SetCatalogStatus("building")
    /\ UNCHANGED <<disk, readerVars, registered, status, frames, catalog, scan,
                   remove, requested, server, bounds>>

\* The catalog is stored whatever became of the row meanwhile.
IndexDone ==
    /\ index.state = "thread" /\ ~Cancelled(index) /\ index' = NoTask
    /\ catalog' = index.seen
    /\ SetCatalogStatus("ready")
    /\ UNCHANGED <<disk, readerVars, registered, status, frames, scan, remove,
                   requested, server, bounds>>

IndexFails ==
    /\ index.state = "thread" /\ ~Cancelled(index) /\ index' = NoTask
    /\ SetCatalogStatus("error")
    /\ UNCHANGED <<disk, readerVars, registered, status, frames, catalog, scan,
                   remove, requested, server, bounds>>

\* Cancellation leaves catalog_status as it is.
IndexCancelled ==
    /\ Live(index) /\ Cancelled(index) /\ index' = NoTask
    /\ UNCHANGED <<disk, readerVars, row, catalog, scan, remove, requested, server, bounds>>

------------------------------------------------------------------------------
(* DELETE /datasets/{id} *)

\* No run is active: the tasks are cancelled and awaited.
RemoveStart ==
    /\ remove = "idle" /\ registered
    /\ remove' = "draining"
    /\ scan' = Cancel(scan, "remove") /\ index' = Cancel(index, "remove")
    /\ UNCHANGED <<disk, readerVars, row, catalog, requested, server, bounds>>

\* The cancelled tasks are done; the outbox is reconciled in a thread, while
\* the event loop serves other requests.
RemoveDrained ==
    /\ remove = "draining"
    /\ ~(Live(scan) /\ scan.cancel = "remove")
    /\ ~(Live(index) /\ index.cancel = "remove")
    /\ remove' = "reconciling"
    /\ UNCHANGED <<disk, readerVars, row, catalog, tasks, requested, server, bounds>>

\* Open review work, an active run or unsettled intents refuse the removal.
RemoveRefused ==
    /\ remove = "reconciling" /\ remove' = "idle"
    /\ UNCHANGED <<disk, readerVars, row, catalog, tasks, requested, server, bounds>>

Unregister ==
    /\ remove = "reconciling" /\ remove' = "idle"
    /\ UnregisterDataset /\ catalog' = None /\ orphan' = FALSE
    /\ UNCHANGED <<disk, readerVars, tasks, requested, worker, bounds>>

------------------------------------------------------------------------------

\* The server shuts down: the tasks are cancelled and awaited, and the reader is
\* closed.  Previews are drained first, but not the threads of other callers.
Shutdown ==
    /\ CloseBegin
    /\ IF scan.state = "thread" THEN FailDatasetScan ELSE UNCHANGED status
    /\ scan' = NoTask /\ index' = NoTask /\ remove' = "idle"
    /\ UNCHANGED <<registered, frames, catalogStatus, catalog, requested, server, bounds>>

\* recover_after_restart: what is under way counts as interrupted, whoever works on it.
RecoverRegistry ==
    /\ status' = IF status = "scanning" THEN "error" ELSE status
    /\ catalogStatus' = IF catalogStatus = "building" THEN "missing" ELSE catalogStatus

\* The server dies, or has shut down, and is started again with or without the run
\* worker: tasks, catalogs and readers are gone.  Only with the worker is the registry
\* recovered; otherwise a row goes on saying what the old server was at.
Restart ==
    /\ restarts < MaxRestarts /\ restarts' = restarts + 1
    /\ worker' \in BOOLEAN
    /\ IF worker' THEN RecoverRegistry ELSE UNCHANGED <<status, catalogStatus>>
    /\ orphan' = (status' = "scanning")
    /\ catalog' = None /\ scan' = NoTask /\ index' = NoTask /\ remove' = "idle"
    /\ blocks' = [k \in Key |-> None] /\ order' = <<>> /\ cacheBytes' = 0
    /\ inflight' = {} /\ handle' = NoHandle /\ lock' = [s \in Source |-> None]
    /\ pc' = [t \in Thread |-> "idle"] /\ got' = [t \in Thread |-> None]
    /\ key' = [t \in Thread |-> AnyKey] /\ closer' = "open" /\ held' = {}
    /\ UNCHANGED <<disk, registered, frames, requested, rescans, reads>>

\* The registry is recovered while this server is up: by its own run worker, when a run
\* that blocked it has been reconciled, or, if it has none, by the server that has it.
RecoverLive ==
    /\ worker => ~Closed
    /\ RecoverRegistry /\ orphan' = FALSE
    /\ UNCHANGED <<disk, readerVars, registered, frames, catalog, tasks, remove,
                   requested, worker, bounds>>

Init ==
    /\ disk = 0 /\ ReaderInit
    /\ registered = FALSE /\ status = "none" /\ frames = FALSE
    /\ catalogStatus = "missing" /\ catalog = None
    /\ scan = NoTask /\ index = NoTask /\ remove = "idle" /\ requested = None
    /\ worker \in BOOLEAN /\ orphan = FALSE
    /\ restarts = 0 /\ rescans = 0 /\ reads = 0

ScanStep  == ScanStart \/ FinishScan \/ ScanFails \/ ScanUnstarted
IndexStep == IndexStart \/ IndexDone \/ IndexFails \/ IndexCancelled
RemoveStep == RemoveStart \/ RemoveDrained \/ RemoveRefused \/ Unregister

registryVars == <<registered, status, frames, catalogStatus, catalog, scan, index,
                  remove, requested, worker, orphan, restarts, rescans, reads>>

\* Steps of the event loop, which close() blocks and which ends after it.
LoopStep ==
    /\ ~Closed
    /\ \/ Rescan \/ ScheduleIndex \/ Shutdown
       \/ \E t \in Thread, b \in Block : Points(t, b) \/ PoleBase(t, b)
       \/ \E t \in Thread : Respond(t)
       \/ ScanStep \/ IndexStep \/ RemoveStep

Reading(t) == ReadStep(t) /\ UNCHANGED registryVars
Closing == CloseStep /\ UNCHANGED registryVars

Next ==
    \/ ReplaceFiles \/ LoopStep \/ Restart \/ RecoverLive \/ Closing
    \/ \E t \in Thread : Reading(t)

Spec == Init /\ [][Next]_vars

------------------------------------------------------------------------------
(* Properties *)

Task == [state : {"none", "queued", "thread", "unstarted"},
         cancel : {"no", "rescan", "remove"}, seen : Version \cup {None}]

\* Values of the registry, the tasks and the reader cache.
TypeOK ==
    /\ ReaderTypeOK
    /\ registered \in BOOLEAN
    /\ status \in {"none", "scanning", "ready", "error", "removed"}
    /\ catalogStatus \in {"missing", "building", "ready", "error"}
    /\ frames \in BOOLEAN /\ catalog \in Version \cup {None}
    /\ requested \in Version \cup {None}
    /\ scan \in Task /\ index \in Task
    /\ remove \in {"idle", "draining", "reconciling"}
    /\ worker \in BOOLEAN /\ orphan \in BOOLEAN
    /\ restarts \in 0 .. MaxRestarts /\ rescans \in 0 .. MaxRescans
    /\ reads \in 0 .. MaxReads

\* A removed dataset stays hidden and empty, whatever task of it still runs
\* ("so they cannot repopulate a hidden row", datasets.py:763).
RemovedIsEmpty ==
    ~registered => ~frames /\ status \in {"none", "removed"}

\* A dataset that is shown as being indexed is being indexed: its scan runs, or was
\* cancelled by a removal before its first step, or died with an earlier server and this
\* one has no run worker, so that it has not recovered the registry.
ScanningHasTask ==
    status = "scanning" => scan.state # "none" \/ Closed \/ (orphan /\ ~worker)

\* The catalog that previews use was built from the folder as it was at the
\* last scan request or later, although an older build may have been under way.
CatalogIsFresh == registered /\ catalog # None => catalog >= requested

RegistrySound == RemovedIsEmpty /\ ScanningHasTask /\ CatalogIsFresh

\* A scan ends with frames or with an error, and so the dataset becomes usable or can
\* be scanned again; not when a removal cancelled the task before its first step and was
\* then refused, and not when the server died and came back without the run worker.
ScanSettles ==
    status = "scanning" ~>
        status # "scanning" \/ scan.state = "unstarted" \/ Closed \/ orphan

\* What has begun goes on: a step of a scan, of a reading thread or of close().
Progress == (~Closed /\ ScanStep) \/ Closing \/ \E t \in Thread : Reading(t)

\* The event loop runs its tasks and threads are scheduled; that is all, a
\* client need not send anything.
FairSpec == Spec /\ WF_vars(Progress)
==============================================================================
