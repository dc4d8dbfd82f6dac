# RoadInventory-MMS: verification in TLA+

The repository is a road-inventory system: a FastAPI server (`src/mms_shp_detection/webapp/`)
receives mobile-mapping data, queues GPU detection runs, and lets reviewers correct the
layers that the runs publish. A run is a pipeline process (`pipeline.py`) which the server
owns (`infrastructure/process_owner.py`) and which reports through a manifest on disk
(`infrastructure/manifest_writer.py`). This directory models the parts that are concurrent, that
must survive a crash, or that decide something by a protocol of several steps; it checks them
with TLC on small instances, and proves with TLAPS that their safety properties and refinements hold
for every instance.

`PROJECT.json` lists the components, the runs, the map from definitions to source lines,
the hazards and the theorems. Paths below are relative to `src/mms_shp_detection/`.

## 1. The system

| Component | State it keeps | Operations | What is hard | What makes it correct |
|---|---|---|---|---|
| Run queue and GPU worker (`webapp/runs.py`, `webapp/store.py`) | `runs` table: status, cancel request, ownership record and block, creation time; one worker coroutine | create, cancel, dismiss, claim, spawn, watch, finish, clean up | handlers, worker and child interleave at every await; the outcome is decided from rows read before an await | one computing run at a time, first in first out, a durable success is reported, a cancellation ends the run |
| Shutdown and recovery (`runs.py` `stop`, `recover_after_restart`, `webapp/app.py`) | candidates and blocks, rebuilt from the registry | stop, restart with or without the worker, reconcile, refresh blocks (which recovers the whole registry again) | a crash between two durable writes, or during recovery | registry and manifests agree after recovery; a survivor holds the queue |
| Process ownership (`infrastructure/process_owner.py`) | receipt file, control pipe, process group | handshake, authorize, revoke, inspect, terminate | a child that outlives its server | nothing works that the registry does not know |
| Run manifest and output directory (`infrastructure/manifest_writer.py`, `pipeline.py`) | `run_manifest.json`, history, summary, result files, crops, bundles | archive, create, claim, stages, publish, settle, summarize | several jobs share a directory; two starts of a job; kills in the middle | one owner at a time, verdicts are final, what is published is complete |
| Multi-model run (`pipeline.py` `_run_parallel_*`) | two gates, bounded queues, consumer and pool threads, cancel event, manifest entries | deliver, predict, place, consume, break the circuit, join | waiters, exceptions, a capacity that shrinks, Ctrl-C | gates count right, nothing is lost or recorded twice, no thread is left waiting |
| Bundles and tables (`shp_writer.py`, `pole.py`) | component files of two shapefiles; clusters of sightings | stage, lock, replace, roll back; collapse, reconcile | failures half way; an inferred pole beside observed ones | one publication at a time; automatic status only for what earned it |
| Pole search (`pipeline.py`, `pole.py`) | candidates of a detection | four corridor and profile passes, comparison | four paths compete | a wide search never passes as a strict one |
| Folder uploads (`webapp/uploads.py`) | upload rows, staging tree, `.partial` copy, destination; coordinator and locks in memory | create, chunk, complete | parallel chunks against completion, interrupted writes and moves | acknowledged bytes are kept; the folder appears whole and once |
| Review sessions, tasks, outbox (`review_tasks.py`, `task_resolution_outbox.py`) | session and task rows, intents in each layer's database | resolve, reopen, replay, pause, complete | two databases, replay after a crash, stale sessions | a task follows its edits; a completed session stays as it is |
| Feature edits and history (`overlays.py`, `review_edits.py`, `manual_objects.py`) | features, revisions, audit trail, proposals | edit, undo, redo, propose, commit | optimistic revisions, retried requests | undo inverts, redo is invalidated by an edit, a commit happens once |
| Review gate and exports (`review_tasks.py`, `review_reports.py`, `review_exports.py`) | QA runs, issues, snapshots | check, patch, complete, export | reads outside transactions while rows change | a completed session was checked; an export is one state |
| Task sources (`review_tasks.py`, `store.py`) | tasks, work-queue order, cursors | generate, insert, page | generation from files read one by one, paging while tasks move | no task twice, none left out of the list |
| Reference index and overlays (`overlays.py`) | index tables, tombstones, revision marks | rebuild, triggers, resolve, collect boxes | reads that are not one transaction | an index agrees with its rows; an answer is of one revision |
| Datasets and point reader (`datasets.py`, `pointcloud.py`) | dataset rows, scan and catalogue tasks; handles, flights, LRU | register, scan, remove, recover; open, decode, evict, close | rescans against cancelled scans; recovery beside running tasks; one decode for many waiters; files replaced under readers | the status is that of the newest scan; no stale block is served |
| Security, state preservation, object crops, web client, scripts, numeric code | files and requests | | data rather than control | not modelled (section 8) |

Interaction: HTTP handlers and the worker share the SQLite registry and one event loop; an
API process may be started without a worker (`scripts/run_web.py --no-run-worker`) and share the
registry from outside that loop. Worker and child share the control pipe, the receipt and the
manifest. Review rows live in the registry, features and intents in one database per layer; neither
transaction covers both. Runs touch datasets in one place: `recover_after_restart` also rewrites dataset rows
that are "scanning" or whose catalogue is "building" (`store.py:2472-2514`), at the start of a server with the run worker and
again while it is up, when a run that blocked the queue has been reconciled (`runs.py:1704-1705`, `1779`). `Datasets` has both
as steps of its own (`Restart`, `RecoverLive`) that may come at any time. Uploads, datasets and reviews otherwise
share only the data folder, which is why each is modelled apart and composed only with what it shares state with.

## 2. The modules

| Module | Role |
|---|---|
| `RunManifest` | job statuses, allowed transitions, the server's terminal write |
| `RunLifecycle` | queue, worker, handlers, child, shutdown and recovery, composed |
| `GpuLease` | abstract: the GPU is leased to one run at a time, an outcome is decided once |
| `Uploads` / `AtomicUpload` | chunks, coordinator, completion, crashes of one upload / abstract: bytes are acknowledged, the folder is published once, whole |
| `PointReader` | reader cache: locks, handles, flights, LRU, close |
| `Datasets` | registry row, scan, catalogue, removal, restart, composed with `PointReader` |
| `StageGates` | the two gates |
| `MultiModel` | main thread, pool and consumer threads of a parallel run, over `StageGates` |
| `BundlePublish`, `SupportMerge`, `PoleSearch` | publication of component files; collapse of sightings; pole search |
| `FeatureLayer` | one layer's database: features, audit trail, requests, outbox |
| `EditHistory` | abstract: a linear history with undo and redo, each key counted once |
| `Review` | session, tasks, handlers, replays and restarts over `FeatureLayer` |
| `OutputRoot` | jobs that share an output directory (extends `RunManifest`) |
| `ReviewGate`, `TaskSources`, `ReferenceIndex`, `FrameBoxes` | QA, completion and export; making and paging tasks; identifiers to features; boxes of a frame |
| `MC*` | instances for TLC |
| `*Proofs` | theorems: `RunLifecycleProofs`, `UploadsProofs`, `MultiModelProofs`, `DatasetsProofs`, `ReviewProofs`, `LayerProofs`, `ResultProofs`, `PipelineProofs` |

Definitions marked "Mutant of X" are plausible bugs of X: a dropped lock, a missing ORDER BY,
the wrong field. `PROJECT.json` pairs each property with one; with X replaced by it TLC finds the
property violated. They are used by no specification.

### Runs (`RunLifecycle`)

`status`, `cancelReq`, `dismissed`, `born`, `owner`, `blocked` are columns of the row;
`manifest`, `outputs` and `receipt` are files; `proc` is the child's process group, `authorized` and
`revoked` what its stdin pipe has told it. `wpc` is the await (or the point between two durable
writes) the worker is at; `cur`, `memo`, `staleCancel`, `uncertain` and `target` are its locals.
`spc`, `cpc` and `apc` are `stop()`, `cancel()` in the server and `cancel()` in a second API process;
`rpc`, `todo`, `cands` are recovery; whose owner is to be looked at is chosen from the rows
as they were listed (`WithOwner`), whatever becomes of them before the look. A coroutine runs undisturbed by other coroutines between two
awaits (`LoopFree`), but such a segment is split at every durable write, because the server can die there
and the child, the second API process and thread-pool handlers do run. Three merges: a registry read
and the compare-and-set that follows in the same transaction; recording an exit and lifting
the block; adopting a receipt and looking at the owner. "unclear" stands for live, reused and
unknown, which every caller treats alike. Confirmed termination may always time out.

### Uploads (`Uploads`)

`upload` and `offset` are the registry; `staged` the lengths in the staging tree, `final` those in the
data folder; `pc`, `file`, `start`, `want`, `got` the chunk requests; `active` and `fpc` the coordinator
and the completion. Body pieces, end of stream, fsync and commit of a chunk are steps, as are drain,
validation, rename or copy, removal and commit of a completion. A `Crash` keeps registry and disk. Contents
are lengths: a chunk always writes at its declared offset.

### Datasets and reader (`PointReader`, `Datasets`)

A thread's step is what it does under one lock: lookup with its waits, decode, insertion
with the eviction, handle lease. `order` and `cacheBytes` are the LRU and its counter; a file is its
version. `Datasets` adds the registry row, the scan and catalogue tasks with the points where a
cancellation can hit them, removal and shutdown. `worker` says whether the server that is up runs the worker: only
then does a start recover the registry (`app.py:624-627`), and a row that a dead server left as "scanning" is an `orphan` until it does.
`RecoverRegistry` is the transaction, `RecoverLive` its use while tasks are running: by this server, or, if it has no
worker, by the one that has. A preview reads one block. The files of derived media with their quota, and scans of the same dataset by
a second server, are not modelled.

### Multi-model run (`MultiModel`)

One action per stretch of a thread between two waits. `work` are the bounded queues, `gate` and
`pole` the stage gates, `entry` the manifest entries, `errors` what the run has recorded. Faults are
failing predictions, pole searches, writes; `interrupts` is Ctrl-C in the main thread.
Left out: the waiter that raises inside the pole gate (no consumer thread can reach it), write errors of
`performance.json` after the join, the sequential and the multi-process path (the single-model path is
in `OutputRoot`).

### Output directory (`OutputRoot`)

A process archives, creates, claims, runs its stages, publishes and settles; worker
threads of it take images, write crops and results; a worker of a pool may outlive its parent and go on with its chunk. Any process
may be killed, interrupted or meet a failing file operation, and an operator may remove a manifest that
nobody will finish. `foreign`, `stray` and `got` are history variables: who claimed the manifest of
another job, which results were written by an orphan, what a process produced or reused.

### Reviews (`FeatureLayer`, `Review`, `ReviewGate`, `TaskSources`)

`Review` has four processes: the event loop (edits, session patches, startup), a thread-pool call
(resolve, reopen, claim), a manual commit and an undo or redo, each with the points between its reads and
its transaction, and the replays of the outbox that each of them may run. Abstracted: one operator, one session that starts
active, one layer; the terminal statuses that no intent asks for are "dismissed"; a refusal for a
duplicate, a stale `expected_revision` or a feature limit is "may be refused"; an attempt's reads are one
step; one proposal; a key stands for key and fingerprint. `ReviewGate` has the QA runs (the session row with its
filters, its tasks, of each layer revision and rows, the transaction), the completion with its revisions read before its
transaction, creation of tasks, unregistration and exports. Scope and `class_filters` of a draft without tasks may change after
a QA run, whose snapshot stays; the history variables `judged` (which classes the stored run was to look at, and since when)
and `filtered` (when the filters last changed) tell such a run apart. `Edit` there stands for any edit of any session. `TaskSources` reads frames, result files and reviewed
frames one after the other, inserts later, and pages with a cursor; a task's weight is that of its
type (the code adjusts it by confidence, place and spacing), and a fingerprint holds all of a detection, where the code's holds what
its reason is about: two detections that agree in that are one task in the code and two here. Files do not change once their run is finished; what a limit
lets through is said by how many come before, not by a loop.

### Overlays (`ReferenceIndex`, `FrameBoxes`), tables (`BundlePublish`, `SupportMerge`, `PoleSearch`)

The index of a layer is rebuilt, kept by triggers, read statement by statement; the frame view
collects boxes from runs newest first, model by model, with a budget of bytes. `DeleteField` is only that of the support field; candidate
truncation and evidence labels are left out; ASCII identifiers only (the triggers normalise with
SQLite `lower(trim())`, the rebuild with `casefold()`). `BundlePublish` has staging, lock, backup, replacement, rollback and kills; the GIS
builds its index only between publications. `SupportMerge` is one coordinate without heights.
`PoleSearch` has gates and ranks as small sets.

## 3. Runs of TLC

| Run | Instance | Question |
|---|---|---|
| `run_safety` | 2 runs, a second API process, 1 stop or crash, 1 fault, symmetry | exclusion and order (`QueueSound`), meaning of an outcome (`OutcomeSound`), refinement of `GpuLease`, what recovery and manifest writes may not do |
| `run_progress` | 1 run, 2 stops or crashes and 2 faults, or 2 runs and 1 stop or crash; fairness | does recovery reconcile even when interrupted; is a durable success reported; does a cancellation end the run; does a queued run leave the queue |
| `uploads` | 2 files (2 and 1 pieces), 2 requests, 1 crash, 1 fault, both volume layouts, fairness | all properties of an upload, refinement of `AtomicUpload` |
| `datasets` | 1 block, 2 threads, 1 replacement, 1 restart with or without the worker, any number of live recoveries, 2 rescans, 2 reads, LRU of 2 entries and 2 bytes, fairness | cache, registry, freshness; scans settle, reads return |
| `pipeline` | 2 models, 2 frames, queues of 1, 2 inference and 1 pole worker, 2 faults, 1 interrupt, fairness; beside it 2 publishers with 2 suffixes, 2 I/O errors, 1 kill; 4 sightings in 3 images, 6 looks; 3 axes, 11 shapes, 8 policies | gates, entries, end of a run; publication; merge; search |
| `review` | 1 task, 1 key, 1 imported feature, revisions to 6, seven budgets, fairness | linear history (refinement of `EditHistory`), intents, fences |
| `outputs` | 3 processes (two starts of one job), 1 image, 2 scenes, 1 fault, 1 kill; 2 scans of 5 and 6 frames, 6 result trees, 2 settings, 2 requests; 3 layers with 2 features, 3 kinds of request, six beginnings with one edit or two; shelves of up to 3 of 11 runs; 2 layers of 2 features, 1 task, 2 QA requests, 3 looks of a row, 2 settings of the filters, six budgets, symmetry | ledger; task sources; index; boxes; is a completed session checked, for which classes, and is an export one moment |
| `doc_unstarted`, `doc_single_owner`, `doc_live_manifest`, `doc_resume`, `doc_filters` | the smallest instance | statements of the documents that the code does not keep (section 7) |

`pipeline` and `outputs` hold several models that share no state: in each behaviour one of them moves,
so the run is the sum of the models and not their product. `run_progress` likewise is the sum of two instances
of one model: `MCRunProgress` draws a bound at the start, keeps every step within it and asks fairness of the
steps that are left.

*Why these bounds.* Exclusion and order relate two runs at a time. Two restarts are needed because
recovery can be interrupted once and run again; one fault combines with each crash, two faults let a
failed write be followed by a failed retry. A file of two pieces lets a chunk be partial, two requests
are needed to collide on a file or a drain. Two threads are a flight's owner and a waiter, and an LRU of two
entries makes every insertion an eviction. Two models make the circuit breaker and the retreat of
a gate meet a healthy model; with queues of one every producer waits. Two layers let an export or a QA run see one
before and the other after a change, two QA requests let the later one store first, and of the three looks of a row one passes, one fails
under any filter and one only if the filter is open; each budget combines those kinds of step that one question is about, and those with the most steps begin with one layer in scope. Two starts of a job and one of another
are what it takes for a claim to meet a foreign manifest. Where a theorem exists (section 5) the bound does not
matter for safety; elsewhere it is what TLC has seen.

*Fairness.* `RunLifecycle`: weak fairness of worker, recovery and handlers under way, because the
event loop schedules every ready task and the operator restarts the server; strong fairness of
seeing that an exited owner has exited, since the query is repeated on every pass and is inconclusive only now
and then. Clients, the second API process and the pipeline have none: where a property needs
the child to end, it says so (`ChildrenEnd`). `Uploads`: weak fairness of admitted requests that wait for a
free lock, of the commit of synced chunks and of the completion; `StreamsEnd` and `KeepsAsking` are antecedents.
`Datasets`: weak fairness of scan tasks, close and reading threads. `MultiModel`: weak fairness of the threads:
the property speaks of behaviours in which no thread hangs inside a library call. `Review`: weak
fairness of the steps of requests and replays that were begun; new requests, restarts and lost proposals have
none. `OutputRoot` and the models beside it state none and have no liveness property.

## 4. Properties

| Where | Safety | Steps and liveness |
|---|---|---|
| Runs | `QueueSound` (`SingleComputing`, `SurvivorBlocksQueue`, `WorkIsAccounted`, `NoOvertaking`), `OutcomeSound` (`CompletedIsDurable`, `CancelledNeverWorks`, `NeverRequeuedAfterSpawn`) | `ManifestsKept` (a terminal manifest never changes; recovery writes none of a run that may be alive), `RecoveryReconciles`; `SuccessIsReported`, `CancelEndsRun`, `QueueProgress`; `ImplementsGpuLease` |
| Uploads | `UploadSound` (`AckedBytesKept`, `PublishedIsWhole`, `CompleteIsPublished`) | `FinalizationEnds`, `UploadCompletes`; `ImplementsAtomicUpload` |
| Datasets | `CacheSound` (locks, single flight, LRU accounting, close), `RegistrySound` | `NeverOlder` (no read returns a version older than the file was when it was asked for), `ScanSettles`, `ReadsReturn` |
| Multi-model run | `GatesSound`, `EntriesHonest` (a finished model has every frame recorded once) | `EntriesSettleOnce`, `PipelineEnds` |
| Tables, search | `PublicationSound` (`AllOrNothing`, `NothingLost`, `PublishedWhole`, `IndexFresh`), `ExportSound` (`Collapsed`, `SheetsJoin`, `Witnessed`, `ObservedKept`, `NotDowngraded`), `SearchSound` (`AutoIsProven`, `WidenedWithCare`, `NoBetterStrict`, `NothingMissed`, `HypothesesRejected`) | |
| Reviews | `ReviewSound` (`FeaturesFollowHistory`, `IntentsHonest`, `TasksOwnEdits`), `GateSound` (`CompletedIsClean`, `JudgedAsFiltered`, `ExportIsOneMoment`, `EligibleIsClean`), `SourcesSound` (`NothingForgotten`, `SpansExact`, `NothingSlips`, `GapsAreRare`, `PagesComplete`) | `ReviewSteps`, `IntentsAttempted`; `HistoryRefines` |
| Output directory | `LedgerSound` (`OneOwner`, `SucceededDescribesRoot`, `ExitHonest`, `RootReleased`, `PublishedIsComplete`) | `VerdictsKept` |
| Overlays | `LinksSound` (`IndexFaithful`, `DetectionsHonest`, `SupportsHonest`, `BoxesHonest`, `RevisionsSafe`, `AnswersGiven`), `FramesSound` | |

Some properties except states on purpose. A run may compute only until its manifest commits success:
`Computing` says so, and section 7 shows why "alive" would be too strong. `QueueProgress` excepts a queue paused by a
row for which no evidence of an exit can exist (`NoEvidence`). `UploadCompletes` excepts `MoveInterrupted`: an
interrupted move between volumes leaves a `.partial` copy or both trees, and `_move_completed_upload` and
`_complete_upload_owned` refuse these, for an operator to clear. `LedgerSound` excepts processes that
claimed the manifest of another job (`foreign`): the claim does not compare job ids; what it does say of them is that the
first is always one of two starts of the same job. `PublishedIsComplete` excepts results that an orphaned pool
worker wrote over (`stray`). `ScanningHasTask` and `ScanSettles` except a row that a dead server left behind, as long as the one
that is up has no run worker (`orphan`). `CompletedIsClean` and `EligibleIsClean` speak of the classes of the stored QA run; that
these are the classes of the session holds unless the filters changed when that run had begun or later (`JudgedAsFiltered`),
and that they need not be is the finding `doc_filters`.

## 5. Proofs

TLAPS checks every leaf of the eight proof modules. Each component has an inductive invariant that TLC
checked on small instances first, the lemma that each action keeps each part of it, and theorems that follow from it.
The assumptions are those that the modules name: bounds are naturals, a placeholder (`NoRun`, `NoTask`, `None`) is not
a member of the set it stands beside, weights and sizes are natural, the set of models or requests is finite. About
publications: component suffixes differ, no publication names a bundle twice (`shp_writer.py:239-247` returns or refuses),
and the poles of a result are published with its signs (`pipeline.py:8816-8826`; intermediate tables have names of their own).
Runs, files, tasks, keys, images, sources and processes are arbitrary sets.

| Module | Theorems | of the runs' properties |
|---|---|---|
| `RunLifecycleProofs` | `Invariance`, `TypeCorrectness`, `GpuExclusion`, `SurvivorsHoldQueue`, `WorkAccounting`, `CompletionDurable`, `CancellationHolds`, `NoRequeue`, `FifoStart`, `QueueSafety`, `OutcomeSafety`, `ManifestSafety`, `RecoverySound`, `LeaseRefinement` | `TypeOK`, `QueueSound`, `OutcomeSound`, `ManifestsKept`, `RecoveryReconciles`, `ImplementsGpuLease` |
| `UploadsProofs` | `UploadInvariance`, `UploadTypes`, `AckedBytesSurvive`, `PublicationWhole`, `CompletionPublished`, `UploadSafety`, `AtomicRefinement` | `TypeOK`, `UploadSound`, `ImplementsAtomicUpload` |
| `DatasetsProofs` | `Invariance`, `TypeCorrectness`, `CacheSafety`, `Freshness`, `RegistrySafety` | `TypeOK`, `CacheSound`, `NeverOlder`, `RegistrySound` |
| `MultiModelProofs` | `Invariance`, `TypeCorrectness`, `GateSafety`, `EntrySafety`, `EntriesSettle` | `TypeOK`, `GatesSound`, `EntriesHonest`, `EntriesSettleOnce` |
| `ResultProofs` (`OutputRoot`, `FrameBoxes`, `TaskSources`) | `Invariance`, `TypeCorrectness`, `LedgerSafety`, `VerdictSafety`; `BoxInvariance`, `BoxSafety`; `TaskInvariance`, `TaskSafety` | `TypeOK`, `LedgerSound`, `VerdictsKept`, `FramesSound`, `SourcesSound` |
| `ReviewProofs` | `Invariance`, `TypeCorrectness`, `ClosedIntentsReached`, `ReviewSafety`, `ReviewFenced`, `HistoryRefinement` | `TypeOK`, `ReviewSound`, `ReviewSteps`, `HistoryRefines` |
| `PipelineProofs` (`BundlePublish`, `PoleSearch`, `SupportMerge`) | `Invariance`, `TypeCorrectness`, `PublicationSafety`; `SearchInvariance`, `SearchSafety`; `MergeInvariance`, `ExportSafety` | `PublicationSound`, `SearchSound`, `ExportSound` |
| `LayerProofs` (`ReviewGate`, `ReferenceIndex`) | `Invariance`, `GateSafety`; `LinkInvariance`, `LinkSafety` | `GateSound`, `LinksSound` |

*Runs.* `SingleComputing` is not inductive: that a claim finds no computing run rests on blocks, on the worker's memory
of its child and on recovery not having opened the server yet. `IndInv` states these: `ControlInv` (which program counters
go together), `OwnerInv` (a process has an ownership record; an exit is recorded only of a dead child),
`ManifestInv` (the registry never runs ahead of the manifest), `SpawnInv` (nothing computes between claim and spawn),
`SurvivorInv` (who answers for each computing child: a block, the worker, or the recovery list), `GiveUpInv` (a
worker about to forget a child has blocked the queue), `AuthorityInv` and `CancelInv` (who may be authorized, and what
a doomed run may not do). `FifoStart` needs a second invariant, `OrderInv`, on creation instants.
`RecoverySound` needs two more. `VerdictInv` holds at all times: creation instants tell runs apart, what waits has an open
manifest, a committed success has declared outputs, and whoever is about to fail or cancel a manifest has ended the run in the
registry before. `RecoveryInv` holds while the server recovers: a run is blocked, still on the list of the present pass, or
agrees with its manifest, whatever a child, the other API process or a fault does meanwhile; when the list is empty, the
first and the last remain.

*Uploads.* `LockInv` (a request with the lock extends its file from the saved offset, alone), `DrainInv` (past
the drain no request is admitted and every byte is acknowledged), `MoveInv` and `TreeInv` (where the tree is). In the
refinement the compare-and-set of an offset maps to an acknowledgement, the rename of the tree or of the finished copy to the
publication, all else to a stutter.

*Reader and registry.* A key with a flight has one owner, is not in the LRU meanwhile, and its waiters wait for a live owner
(`SingleFlight`): this needs the look at "closed" in the miss path, and that closing ends every flight while it holds all
source locks. `NeverOlder` needs that versions asked for are at most that of the file (`AskedFor`) and that handles are
of the version of their signature (`HandleInv`). The LRU's byte counter (`AccountInv`) is a sum: bytes are the
cardinality of a set of pairs, so that the library's facts on finite sets apply; that evicting oldest entries reaches the limit
takes a least number, got from well-foundedness (`LeastNumber`). The registry rests on `BuildInv` (a catalogue build that
is not cancelled has seen the folder since the last request) and on a task existing for each row that is "scanning" and was not
left behind by a dead server; a recovery may only take rows out of "scanning".

*Multi-model run.* Each frame of a model is due, held by a thread, in a queue or recorded, in exactly one of these
(`OncePlaced`), and none is lost while nothing was cancelled (`NoneLost`); errors only grow (`ErrorInv`); entries
follow the place of the main thread (`EntryInv`); a consumer ends with its queue empty or with an error (`EmptiedInv`). The
gates count threads by cardinality.

*Output directory.* `OwnerInv`: one owner, its manifest open; as long as nobody is `foreign`, a process at the claim finds
its own pending manifest unless its job was started twice. `VerdictInv`: an exit "ok" and a succeeded manifest are on
record; `LedgerStep` says that a verdict stays or moves to the history. `WorkInv`: each image is to be
taken, in hand or done, in exactly one place, lost only with a failure. `PublishedInv` connects the bundles to their
process, which has nothing left to take, so that no worker of it can outlive it with a chunk. The proof failed at first for a good reason: the property used to except only the second start of a job,
but the victim of a foreign claim goes on to claim another job's manifest itself. TLC confirmed this with four processes, and
the property now names the thieves.

*Reviews.* Rows of the layer's tables refer to each other (`LayerLinks`), every process is where its request and the lock
say (`ProcessInv`), a replay works on what is in the outbox (`ReplayInv`), closed intents were reached (`HonestInv`). For
`FeaturesFollowHistory` a second invariant describes the history as a line: the edits in effect come before those that
can be redone, which were undone last to first (`OrderInv`); each edit of the line remembers the content that the line before it
gives its feature (`ChainInv`), so that undoing the last one restores it; and a request that waits between its choice of an
edit and its commit still holds the right one, because the layer's lock keeps edits out (`TargetInv`). `OwnInv` follows
an audit row through outbox, replay and endpoint to the task. In the refinement of `EditHistory` the stack of edits in effect and
the stack of undone ones are sequences, while the layer has sets of rows: an edit's place is its rank, how many come before
it (or were undone after it), and no two edits have one rank. An injection of a finite set into as many numbers takes each of them, so
the rows in order are a sequence, and a step of the layer puts one on a stack, takes one off or moves one across. A key is not
counted twice although its lookup comes before the commit: the lock keeps edits out in between (`KeyInv`).

*Publications.* At each stage of the holder of the lock `Work` says which components are replaced, which are saved and which
stand as it found them, by position in the order of the replacements; the lemmas on `Order` say that it visits each component
once, suffix by suffix. `NothingLost` holds because a component is saved before the first one is replaced, and a rollback works
backwards. `WholeInv` speaks of the directory as the holder found it, and `IndexInv` of the indexes, which are away
while a file of their bundle changes. That signs never stand beside older poles needs the assumption that poles come with signs.

*Pole search.* `BestOf` says what a pole is to the axes it was chosen from: of the best kind and, if remote, within some
metres of the nearest of that kind. One selection keeps it within one metre (`SelectBest`), whichever way a score or a flip of
sides decides; the choice between the poles of both corridors adds another metre (`BetterOfTwo`), which is why the
property says two. A search may stop after the first corridor because a good direct pole is of the best kind there is
(`GoodIsBest`). Across profiles the first thing compared is completeness, whose place in `CrossRank` outweighs all others
(`Ranks`). About the constants: reaches are naturals in their order, and "no pole" is no axis.

*Collapse of sightings.* `ObservedInv`: an inferred pole stands where another frame saw one, directly and without doubt; such an
observation is never replaced, so the cluster of an inferred pole holds it too (nearness is within `MergeRadius`, which
may be 0), and every support has a member that saw it. `SupportInv` needs that clusters are disjoint (`ComponentsApart`): the members of a
support all have it as theirs, an automatic one has an automatic observation in each of its images (`AutoInFrame`), and
what is attached to an arm later is not a member. `GroupInv`: groups divide the sightings, and any two members are close, not only
neighbours. There are finitely many sightings, the radii are naturals, and "no pole" is no record.

*Review gate.* The rows of a layer are remembered in three places: by QA requests, by a completion under way and by the stored
run (`Recollections`). `MemoryInv`: of one revision there is one memory, and that of the present revision is right; it rests
on rows never changing without their revision. A QA request reads the revision before the rows, so its snapshot is not younger
than what it examined (`QaInv`, `StoredInv`), and errors of a stored run stay open. A memory of rows is their revision and the filters that let only usable rows through, so that it does not matter which
filter asks later; what the stored run judged by is that of its session row, and is the session's own unless the filters moved
since (`JudgedInv`). Hence a completion that finds no open error and
the revisions of the snapshot has rows that were examined (`ClosedStep`). For exports, the registry's stamp and the
layers' revisions are guards that only grow: `ExportInv` says that what was read is what was to be had at the moment
of the counts, for the registry while the stamp is the same (`Steady`) and for each layer while its revision is (`Still`);
the fence establishes both in its order, so a served export is of that moment.

*Reference index.* `StoreInv`: an index that is there is marked with the revision of the layer, has a reference for each value
that a live row carries (but 0) and none that no live row carries; the triggers keep that for each edit, told apart by which
evidence of the one row they write again (`MirrorEdit`). A detection that was deleted keeps a tombstone. The history beside a
request is what has carried the identifier all the time (`held.steady`) and at any time (`held.ever`) (`HeldInv`). `PlaceInv`
is where the reader is: its layer is one the request is about, and what the statement it has run found is still so
(an index is never dropped again, a revision only grows). `FoundInv`: what was read has carried the identifier, from each layer
once; `CoverInv`: while nothing was left out, each row and tombstone that stood all the time is found or still ahead; `ReasonInv`:
something is left out, when nothing changed meanwhile, only for a hidden layer or a limit. Hence the answers: a
status says what the history allows. About the constants: no layer is listed twice, layers and features are finitely
many (a limit compares a cardinality), edits and beginnings have their types, the layers of a beginning satisfy `Sound`. The first attempt
failed for a good reason: a row of a layer without the support field was not in the history, yet an undo puts the value back into the
row (though not the field into the table), and a reader that has passed the look at the fields finds it. TLC shows this with two
edits, which is why a beginning of the run now has two; the history remembers such rows.

*Boxes of a frame.* A search is at a run, every run before it has no result, and of its own models each is still to be
read, has no result or is taken (`SearchInv`, `TakenInv`). The answer is what the files taken hold (`AnswerInv`): its order is by model
and place, its first box of an identity is kept, and a limit compares the place of a box in that order with a number. What is
not called truncated therefore has every box of every model of the run.

*Task sources.* `Stage` says what a request knows at each of its moments; while the files do not change, what was read stays
what is there (`FilesStay`). `MadeInv`: intervals are of exactly their frames, since a chunk lies in a group without a break (and each frame
is in one: `ChunkFor`, by least numbers); reported gaps are above the median, and at most half can be, since the median is the
k-th smallest (`KthOrder`, `FewAbove`); the detection tasks of an answer that was not cut are all that are due (`EachDue`, `Generated`:
a part that is smaller than its room is the whole). `ScanInv` spans the moment between reading what was reviewed and inserting the
tasks: a frame of the scope is covered by a task in the registry or by one that is about to come in, and tasks are never taken away;
hence nothing is forgotten (`ForgottenInv`), whatever is resolved, reopened or generated between. A new scan ends the claim. The place in
the queue is a strict total order, since the tasks of one request differ in their id and requests in their time (`QueueInv`); `PagerInv`: a
task that stays to do is on a page already shown or behind the cursor, and on a last page as many distinct tasks as there are
rows are all of them (`AllShown`). About the constants: frames of a scan have places of their own, a detection's index is a place in its
file, weights and limits are natural, the spacing factor is at least two (`review_candidates.py:578-590`).

## 6. Only model-checked

Liveness under fairness is out of the prover's reach: `SuccessIsReported`, `CancelEndsRun`, `QueueProgress`,
`FinalizationEnds`, `UploadCompletes`, `ScanSettles`, `ReadsReturn`, `PipelineEnds`, `IntentsAttempted`. Every safety
property, every property of steps and every refinement that a run checks is proved.
The statements of section 7's runs are refuted, hence not theorems.

## 7. Where code and documents part

Shown by a run:

1. `doc_unstarted`: a run cancelled while queued has no ownership record; recovery takes "no record" for "unknown" and
   blocks the queue for a run that never had a process.
2. `doc_single_owner`: `_stop_active_run` shows a durably succeeded run as completed before its child is confirmed gone; after a
   crash there the next run starts beside the old child, which the ownership document rules out. The exclusion that does
   hold is `SingleComputing`.
3. `doc_live_manifest`: the same function fails the manifest while the child can still write it. The verdict is still
   final (`ManifestsKept`).
4. `doc_resume`: a server that dies inside a chunk leaves a staged file longer than the saved offset, and every later chunk
   at that offset is refused. No acknowledged byte is lost, but the upload cannot be resumed.
5. `doc_filters`: a draft is filtered to "sign" and checked; its filter is lifted, the session is activated and completed on that
   run, whose snapshot names layers and revisions but not classes (`store.py:56-100`). A row that no QA run of these classes has
   looked at, and that has an error, is in a completed session.

Observed while modelling, kept in the models as the code has it, and not stated as properties:

- *Output directory.* The claim does not check the job id. An exception between claim and `try` leaves the manifest
  "validating" and the directory blocked; so does the kill of a job started from the command line, until an operator removes the
  manifest. A job's archive between another's success and its summary makes the successful one exit with an error
  (the comment at `pipeline.py` ~10751 says otherwise). Crops of another fingerprint are reused, although `README.md:499` asks for
  fingerprint and artefacts to match. A later slice with the same fingerprint can publish an earlier "error" result.
- *Manual objects.* A commit can land after its session was paused or completed; its intent then fails with
  `SESSION_IMMUTABLE` (`manual_objects.py` ~1024 requires an active session). The duplicate check looks within a radius only.
- *Reviews.* Tasks are updated by comparing their status only, so a reopened and resolved task passes for the old one; a slow
  `_update_intent` may overwrite a newer status; undo resets neither provenance nor `edit_transactions`; a task can be resolved as
  corrected after its edit was undone.
- *Review gate.* The QA run, the completion's reads and its transaction are three moments: a session can complete with a
  snapshot of a revision that had an error, though the present content is clean (`review_tasks.py:1099` says the fence covers
  feature history). A task created meanwhile can land in the completed session; a session whose layer was unregistered never
  completes. A report's completion gate is read before its snapshot.
- *Task sources.* Regeneration is not idempotent when a new detection opens a reviewed frame
  (`docs/current_architecture.md:114-115` says completed intervals do not reappear). A rescan during a session shifts ordinals.
  A record beyond `MAX_DETECTIONS` truncates all later ones. A manifest without a completed model falls back to directories of failed ones.
  A file larger than the limit of one result is passed over without a word (`review_tasks.py:324-333`), which is why `NothingSlips` speaks of
  readable files. Candidates are cut at `max_candidates` before equal fingerprints are merged (`review_candidates.py:634-701`), but
  the answer is called truncated by what is left after (`review_tasks.py:1179`): with one evidence made twice it can be cut in
  silence, which is why two properties except it (`twice`).
- *Reference index.* The rebuild takes 0 and false for empty, the triggers do not, so `IndexFaithful` has two sides. A
  commit between two statements of a reader gives a spurious rebuild count or "unavailable", never a wrong row. Two pole
  rows with one `det_id` show a deleted raw box again (the comment at `overlays.py` ~1391 speaks of one); a tombstone is never
  removed; undoing an edit made before a field was dropped brings its value back. Unregistering marks, then moves: a crash
  between leaves a directory that a second request does not find.
- *Frame boxes.* Raw boxes without an index are numbered differently by layer view and frame view; `record_name` is checked in one
  of them only; an unreadable directory of the newest run falls through to an older run.
- *Datasets.* Recovery while the server is up fails a scan that is running, with the message that the server was restarted; the scan
  goes on and sets "ready" later, and a catalogue under construction is "missing" until it is done. After a crash, a server without the
  run worker shows "scanning" for as long as nobody asks for a scan or starts a server with one. A rescan during a live scan is dropped. A refused removal leaves the row at "error", or at "scanning" if it
  cancelled the scan before its first step. A catalogue that ends after the removal stays in memory until the next scan.
- *Tables and search.* A row next to an inferred relation keeps its own AUTO though its cluster is for review; a wide-profile
  candidate competes with its own status, so it can displace a strict one that is for review
  (`docs/object_crop_implementation_inventory.md:86` acknowledges a part of this).

## 8. Not modelled

Numeric estimators, projection and detection models; the web client; security and application wiring; state
preservation; object crops, which the code does not run yet; scripts; interactive pole tools and the survey import; the files of
derived media with their quota; list limits and wording of answers. Of modelled parts: Windows Job Objects (the same
answers of `inspect_owner` from other kernel objects), unreadable manifests, interrupts from a terminal to the child, the
retry of a failed manifest (command line only); a second server process that writes the same upload, a partly removed
staging tree, symbolic links, path and size checks, the creation of an upload; the sequential and multi-process paths of the
multi-model run; draft sessions, several operators, layers and proposals in `Review`; a GIS that builds its index inside
the publication window. Limits of a module's data are in its comments.

## 9. What is left

A second writing process in `Uploads`; the quota of derived media.
