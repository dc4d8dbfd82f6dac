----------------------------- MODULE RunLifecycle ----------------------------
(* Life of a detection run: the registry row (webapp/store.py), the single    *)
(* GPU worker coroutine, its cancel and stop handlers and the restart         *)
(* recovery (webapp/runs.py), the owned child process and its control pipe    *)
(* (infrastructure/process_owner.py), and the manifest the child and the      *)
(* server both write.                                                         *)
(*                                                                            *)
(* The server runs on one event loop: a coroutine runs from one await to the  *)
(* next without interference from another coroutine.  Such a segment is still *)
(* split into one action per durable write, because the server can die        *)
(* between two writes and because the child, a second API process started     *)
(* without a worker and the thread-pool handlers do run in between.           *)
EXTENDS Naturals, FiniteSets, RunManifest

CONSTANTS
    Run,          \* run identifiers
    NoRun,        \* "no run": a value outside Run
    SecondApi,    \* TRUE iff an API process without worker shares the registry
    MaxRestarts,  \* bound on stops and crashes of the server
    MaxFaults     \* bound on I/O errors, timeouts and killed processes

ASSUME RunAssumption == NoRun \notin Run
ASSUME BoundAssumption ==
    SecondApi \in BOOLEAN /\ MaxRestarts \in Nat /\ MaxFaults \in Nat

VARIABLES
    \* the registry row of each run (durable)
    status, cancelReq, dismissed, born, owner, blocked,
    clock,        \* creation instants handed out so far
    \* files of each run (durable): manifest status, published outputs, and the
    \* ownership receipt the child writes before anything else
    manifest, outputs, receipt,
    \* the child process of each run and the two facts its stdin pipe carries
    proc, authorized, revoked,
    \* the worker coroutine: program counter, run it executes, phase of the
    \* in-memory ownership record, and locals that live across an await
    wpc, cur, memo, staleCancel, uncertain, target,
    \* stop(), cancel() in the server, cancel() in the second API process
    spc, cpc, apc,
    \* restart recovery and the refresh of ownership blocks
    rpc, todo, cands, changed,
    \* the server process and the bounds
    server, restarts, faults

rowVars   == <<status, cancelReq, dismissed, born, owner, blocked, clock>>
fileVars  == <<manifest, outputs, receipt>>
childVars == <<proc, authorized, revoked>>
excVars   == <<staleCancel, uncertain, target>>
workVars  == <<wpc, cur, memo, staleCancel, uncertain, target>>
handVars  == <<spc, cpc, apc>>
recVars   == <<rpc, todo, cands, changed>>
hostVars  == <<server, restarts, faults>>
vars == <<status, cancelReq, dismissed, born, owner, blocked, clock,
          manifest, outputs, receipt, proc, authorized, revoked,
          wpc, cur, memo, staleCancel, uncertain, target,
          spc, cpc, apc, rpc, todo, cands, changed,
          server, restarts, faults>>

------------------------------------------------------------------------------
(* Vocabulary *)

ActiveStatus == {"preparing", "starting", "running", "cancelling"}
TerminalStatus == {"completed", "failed", "cancelled", "interrupted"}
RunStatus == {"none", "queued"} \cup ActiveStatus \cup TerminalStatus

\* Phase of an ownership record; "null" is the SQL NULL of a run never started.
OwnerPhase == {"null", "intent", "acknowledged", "exited"}

\* "gated": spawned, no pipeline module imported yet; "working": authorized;
\* "orphans": the group leader is dead, processes of its group survive.
ProcState == {"none", "gated", "working", "orphans", "gone"}

Leader(r) == proc[r] \in {"gated", "working"}
Alive(r) == proc[r] \in {"gated", "working", "orphans"}

\* Points where the worker coroutine is suspended in an await.
AwaitPoint == {"off", "idle", "spawn", "attach", "refuse", "haltWait", "watch",
               "exceptWait", "cleanupWait"}
\* Points inside a segment, before a durable write that is still to come.
MidPoint == {"loop", "claim", "prepare", "spawned", "halt", "attached",
             "except", "sync", "cleanup"}

\* The worker holds the lifecycle lock from the start reservation to the
\* authorization of the child.
LockHeld == wpc \in {"spawn", "spawned", "refuse", "halt", "haltWait", "attach",
                     "attached"}

LoopFree ==
    /\ server = "up" /\ rpc = "idle"
    /\ wpc \in AwaitPoint /\ cpc = NoRun /\ spc # "sync"

At(pc) ==
    /\ wpc = pc /\ server = "up" /\ rpc = "idle"
    /\ wpc \in AwaitPoint => LoopFree

Fault == faults < MaxFaults /\ faults' = faults + 1

\* UPDATE runs SET status=... WHERE id=? AND status IN (...)
TransitionRun(r, from, to) ==
    status' = IF status[r] \in from THEN [status EXCEPT ![r] = to] ELSE status

\* Mutants of RecordRunOwner: the first record wins; an upsert.
RecordFirstOwner(r, phase) ==
    owner' = IF owner[r] = "null" THEN [owner EXCEPT ![r] = phase] ELSE owner

UpsertRunOwner(r, phase) == owner' = [owner EXCEPT ![r] = phase]

\* UPDATE runs SET ownership_json=? WHERE ... launcher=?: a row whose start was
\* never reserved has no launcher to match.
RecordRunOwner(r, phase) ==
    owner' = IF owner[r] = "null" THEN owner ELSE [owner EXCEPT ![r] = phase]

\* Mutant of DurableSuccess: published files are taken for a commit.
OutputsPresent(r) == outputs[r] = "valid"

\* The manifest is succeeded and the outputs it declares still validate.
DurableSuccess(r) == manifest[r] = "succeeded" /\ outputs[r] = "valid"

\* _observe_owner adopts the receipt of a child the server never attached to.
ObservedPhase(r) ==
    IF owner[r] = "intent" /\ receipt[r] THEN "acknowledged" ELSE owner[r]

\* Mutant of InspectOwner: no acknowledged process means no process.
InspectAcknowledgedOnly(phase, r) ==
    IF phase = "acknowledged" /\ proc[r] # "gone" THEN {"unclear"} ELSE {"exited"}

\* inspect_owner: "unclear" stands for live, reused and unknown, which the
\* callers treat alike; a query may be inconclusive even when the child is gone.
InspectOwner(phase, r) ==
    IF phase = "exited" THEN {"exited"}
    ELSE IF phase = "acknowledged" /\ proc[r] = "gone" THEN {"exited", "unclear"}
    ELSE {"unclear"}

\* Best-effort write of a terminal manifest status: an OSError leaves it alone.
SyncManifestTerminal(r, to) ==
    \/ manifest' = [manifest EXCEPT ![r] = SyncTerminal(@, to)] /\ UNCHANGED faults
    \/ Fault /\ UNCHANGED manifest

\* Mutant of OldestIn: no ORDER BY.
SomeIn(r, S) == r \in S

\* r is the row that ORDER BY created_at puts first in S.
OldestIn(r, S) == r \in S /\ \A q \in S : born[r] <= born[q]

------------------------------------------------------------------------------
(* Requests of the web clients *)

\* POST /runs: work directory and pending manifest first, then the queued row.
CreateRun(r) ==
    /\ LoopFree /\ spc = "none"
    /\ status[r] = "none"
    /\ status' = [status EXCEPT ![r] = "queued"]
    /\ manifest' = [manifest EXCEPT ![r] = "pending"]
    /\ clock' = clock + 1
    /\ born' = [born EXCEPT ![r] = clock + 1]
    /\ UNCHANGED <<cancelReq, dismissed, owner, blocked, outputs, receipt,
                   childVars, workVars, handVars, recVars, hostVars>>

\* DELETE /runs/{id}: a thread-pool handler, so it interleaves with everything.
DismissTerminalRun(r) ==
    /\ server = "up" /\ spc = "none"
    /\ status[r] \in {"completed", "failed", "interrupted"} /\ ~dismissed[r]
    /\ dismissed' = [dismissed EXCEPT ![r] = TRUE]
    /\ UNCHANGED <<status, cancelReq, born, owner, blocked, clock, fileVars,
                   childVars, workVars, handVars, recVars, hostVars>>

\* Mutant of CancelRow: a running run is cancelled like one not yet started.
CancelRowAtOnce(r) ==
    /\ cancelReq' = [cancelReq EXCEPT ![r] = TRUE]
    /\ status[r] \in {"queued"} \cup ActiveStatus
    /\ status' = [status EXCEPT ![r] = "cancelled"]

\* The compare-and-set of cancel(): before the child is published as running the
\* run is over at once, afterwards the child has to be stopped first.
CancelRow(r) ==
    /\ cancelReq' = [cancelReq EXCEPT ![r] = TRUE]
    /\ \/ /\ status[r] \in {"queued", "preparing", "starting"}
          /\ status' = [status EXCEPT ![r] = "cancelled"]
       \/ /\ status[r] \in {"running", "cancelling"}
          /\ status' = [status EXCEPT ![r] = "cancelling"]

\* POST /runs/{id}/cancel in the server that owns the worker.
Cancel(r) ==
    /\ LoopFree /\ spc = "none"
    /\ CancelRow(r)
    /\ IF status'[r] = "cancelled"
       THEN cpc' = r /\ UNCHANGED revoked
       ELSE /\ UNCHANGED cpc
            /\ revoked' = IF cur = r THEN [revoked EXCEPT ![r] = TRUE]
                          ELSE revoked
    /\ UNCHANGED <<dismissed, born, owner, blocked, clock, fileVars, proc,
                   authorized, workVars, spc, apc, recVars, hostVars>>

\* The manifest half of a cancellation before start; a success the manifest
\* already holds wins over the cancellation.
CancelManifest(r) ==
    /\ SyncManifestTerminal(r, "cancelled")
    /\ IF DurableSuccess(r)
       THEN TransitionRun(r, {"cancelled"}, "completed")
       ELSE UNCHANGED status

CancelSync ==
    /\ server = "up" /\ cpc # NoRun
    /\ CancelManifest(cpc)
    /\ cpc' = NoRun
    /\ UNCHANGED <<cancelReq, dismissed, born, owner, blocked, clock, outputs,
                   receipt, childVars, workVars, spc, apc, recVars, server,
                   restarts>>

\* The same handler in an API process without worker: it has no child to stop,
\* and no event loop in common with the worker.
ApiCancel(r) ==
    /\ SecondApi /\ apc = NoRun
    /\ CancelRow(r)
    /\ apc' = IF status'[r] = "cancelled" THEN r ELSE NoRun
    /\ UNCHANGED <<dismissed, born, owner, blocked, clock, fileVars, childVars,
                   workVars, spc, cpc, recVars, hostVars>>

ApiCancelSync ==
    /\ apc # NoRun
    /\ CancelManifest(apc)
    /\ apc' = NoRun
    /\ UNCHANGED <<cancelReq, dismissed, born, owner, blocked, clock, outputs,
                   receipt, childVars, workVars, spc, cpc, recVars, server,
                   restarts>>

ApiDies ==
    /\ apc # NoRun /\ Fault
    /\ apc' = NoRun
    /\ UNCHANGED <<rowVars, fileVars, childVars, workVars, spc, cpc, recVars,
                   server, restarts>>

------------------------------------------------------------------------------
(* The worker: _loop and _execute *)

\* Mutant of LoopTop: blocked runs are looked at only after a restart.
LoopTopWithoutRefresh ==
    /\ At("idle") \/ At("loop")
    /\ wpc' = IF spc # "none" THEN "off" ELSE "claim"
    /\ UNCHANGED <<rowVars, fileVars, childVars, cur, memo, excVars, handVars,
                   recVars, hostVars>>

\* Start of an iteration: leave if stop() was called, otherwise look first at
\* the runs whose ownership is blocked.
LoopTop ==
    /\ At("idle") \/ At("loop")
    /\ LET Blocks == {r \in Run : blocked[r]} IN
       IF spc # "none" THEN wpc' = "off" /\ UNCHANGED recVars
       ELSE /\ wpc' = "claim"
            /\ IF Blocks = {} THEN UNCHANGED recVars
               ELSE /\ rpc' = "refresh" /\ todo' = Blocks /\ changed' = FALSE
                    /\ UNCHANGED cands
    /\ UNCHANGED <<rowVars, fileVars, childVars, cur, memo, excVars, handVars,
                   hostVars>>

Claimable(r) == status[r] = "queued" /\ ~cancelReq[r] /\ ~dismissed[r]

\* Mutant of QueueHeld: only the rows the worker is busy with hold the queue.
QueueHeldByStatus == \E q \in Run : status[q] \in ActiveStatus

QueueHeld == \E q \in Run : status[q] \in ActiveStatus \/ blocked[q]

ClaimNextQueuedRun ==
    /\ At("claim") /\ ~QueueHeld
    /\ \E r \in Run :
        /\ OldestIn(r, {q \in Run : Claimable(q)})
        /\ status' = [status EXCEPT ![r] = "preparing"]
        /\ cur' = r
    /\ wpc' = "prepare"
    /\ UNCHANGED <<cancelReq, dismissed, born, owner, blocked, clock, fileVars,
                   childVars, memo, excVars, handVars, recVars, hostVars>>

ClaimNothing ==
    /\ At("claim")
    /\ QueueHeld \/ \A r \in Run : ~Claimable(r)
    /\ wpc' = "idle"
    /\ UNCHANGED <<rowVars, fileVars, childVars, cur, memo, excVars, handVars,
                   recVars, hostVars>>

\* Entry of "except BaseException": the row is read before the child is asked
\* to terminate, and that request is awaited.
EnterExcept ==
    /\ staleCancel' = cancelReq[cur]
    /\ uncertain' = FALSE
    /\ IF Leader(cur)
       THEN wpc' = "exceptWait" /\ revoked' = [revoked EXCEPT ![cur] = TRUE]
       ELSE wpc' = "except" /\ UNCHANGED revoked
    /\ UNCHANGED <<rowVars, fileVars, proc, authorized, cur, memo, target, apc,
                   cpc, recVars, server, restarts>>

PrepareFails ==
    /\ At("prepare") /\ Fault
    /\ EnterExcept /\ UNCHANGED spc

\* begin_run_start: the last point where a cancellation prevents the spawn.
BeginRunStart ==
    /\ At("prepare")
    /\ IF status[cur] = "preparing" /\ ~cancelReq[cur] /\ spc = "none"
       THEN /\ status' = [status EXCEPT ![cur] = "starting"]
            /\ owner' = [owner EXCEPT ![cur] = "intent"]
            /\ memo' = "intent" /\ wpc' = "spawn"
       ELSE wpc' = "cleanup" /\ UNCHANGED <<status, owner, memo>>
    /\ UNCHANGED <<cancelReq, dismissed, born, blocked, clock, fileVars,
                   childVars, cur, excVars, handVars, recVars, hostVars>>

\* create_subprocess_exec; the child's stdin is a private pipe.
SpawnChild ==
    /\ At("spawn")
    /\ proc' = [proc EXCEPT ![cur] = "gated"]
    /\ wpc' = "spawned"
    /\ UNCHANGED <<rowVars, fileVars, authorized, revoked, cur, memo, excVars,
                   handVars, recVars, hostVars>>

SpawnFails ==
    /\ At("spawn") /\ Fault
    /\ EnterExcept /\ UNCHANGED spc

\* mark_run_running, or, when a cancellation came first, stop the gated child.
MarkRunRunning ==
    /\ At("spawned") /\ spc = "none"
    /\ IF status[cur] = "starting" /\ ~cancelReq[cur]
       THEN /\ status' = [status EXCEPT ![cur] = "running"]
            /\ wpc' = "attach" /\ UNCHANGED revoked
       ELSE /\ revoked' = [revoked EXCEPT ![cur] = TRUE]
            /\ wpc' = "refuse" /\ UNCHANGED status
    /\ UNCHANGED <<cancelReq, dismissed, born, owner, blocked, clock, fileVars,
                   proc, authorized, cur, memo, excVars, handVars, recVars,
                   hostVars>>

RefuseDone ==
    /\ At("refuse") /\ ~Leader(cur)
    /\ wpc' = "cleanup"
    /\ UNCHANGED <<rowVars, fileVars, childVars, cur, memo, excVars, handVars,
                   recVars, hostVars>>

RefuseTimeout ==
    /\ At("refuse") /\ Leader(cur)
    /\ EnterExcept /\ UNCHANGED <<spc, faults>>

\* attach: the receipt names the spawned process, and the registry remembers it.
Attach ==
    /\ At("attach") /\ receipt[cur] /\ Leader(cur)
    /\ RecordRunOwner(cur, "acknowledged")
    /\ memo' = "acknowledged" /\ wpc' = "attached"
    /\ UNCHANGED <<status, cancelReq, dismissed, born, blocked, clock, fileVars,
                   childVars, cur, excVars, handVars, recVars, hostVars>>

\* The child is gone before it was acknowledged, or stays silent for ten seconds.
AttachFails ==
    /\ At("attach")
    /\ EnterExcept /\ UNCHANGED <<spc, faults>>

\* authorize: "start:<launcher>" on the pipe, unless stdin is closed already.
Authorize ==
    /\ At("attached")
    /\ authorized' = [authorized EXCEPT ![cur] = ~revoked[cur]]
    /\ wpc' = "watch"
    /\ UNCHANGED <<rowVars, fileVars, proc, revoked, cur, memo, excVars,
                   handVars, recVars, hostVars>>

\* The periodic observation finds the child not live, a descendant keeps stdout
\* open, or the log cannot be written.
WatchFails ==
    /\ At("watch")
    /\ \/ ~Leader(cur) /\ UNCHANGED faults
       \/ Leader(cur) /\ Fault
    /\ EnterExcept /\ UNCHANGED spc

\* Mutant of FinishedStatus: the cancellation wins over the durable success.
CancelFirstStatus(r) ==
    IF cancelReq[r] \/ status[r] = "cancelling" THEN "cancelled"
    ELSE IF DurableSuccess(r) THEN "completed"
    ELSE IF status[r] = "interrupted" THEN "interrupted"
    ELSE "failed"

\* Normal end: the leader has exited; a durable success wins over everything.
FinishedStatus(r) ==
    IF DurableSuccess(r) THEN "completed"
    ELSE IF status[r] = "interrupted" THEN "interrupted"
    ELSE IF cancelReq[r] \/ status[r] = "cancelling" THEN "cancelled"
    ELSE "failed"

\* Mutant of FinishSources: a run being cancelled is not moved to cancelled.
RunningSources ==
    [completed   |-> {"running", "cancelling", "interrupted"},
     failed      |-> ActiveStatus,
     cancelled   |-> {"running"},
     interrupted |-> {"running", "interrupted"}]

FinishSources ==
    [completed   |-> {"running", "cancelling", "interrupted"},
     failed      |-> ActiveStatus,
     cancelled   |-> {"running", "cancelling"},
     interrupted |-> {"running", "cancelling", "interrupted"}]

\* After the registry transition, the manifest of a run that did not publish.
SyncOrCleanup(r, final, moved) ==
    IF moved /\ final \in {"cancelled", "failed"}
    THEN wpc' = "sync" /\ target' = final
    ELSE wpc' = "cleanup" /\ UNCHANGED target

Finish ==
    /\ At("watch") /\ ~Leader(cur)
    /\ LET final == FinishedStatus(cur)
           from  == FinishSources[final]
       IN  /\ TransitionRun(cur, from, final)
           /\ SyncOrCleanup(cur, final, status[cur] \in from)
    /\ UNCHANGED <<cancelReq, dismissed, born, owner, blocked, clock, fileVars,
                   childVars, cur, memo, staleCancel, uncertain, handVars,
                   recVars, hostVars>>

\* The awaited termination inside the except clause: confirmed, or given up.
ExceptTerminated ==
    /\ At("exceptWait")
    /\ uncertain' = Leader(cur)
    /\ blocked' = IF Leader(cur) THEN [blocked EXCEPT ![cur] = TRUE] ELSE blocked
    /\ wpc' = "except"
    /\ UNCHANGED <<status, cancelReq, dismissed, born, owner, clock, fileVars,
                   childVars, cur, memo, staleCancel, target, handVars, recVars,
                   hostVars>>

ExceptDecide ==
    /\ At("except")
    /\ LET final == IF DurableSuccess(cur) THEN "completed"
                    ELSE IF uncertain THEN "interrupted"
                    ELSE IF staleCancel THEN "cancelled" ELSE "failed"
       IN  /\ TransitionRun(cur, ActiveStatus, final)
           /\ SyncOrCleanup(cur, final, status[cur] \in ActiveStatus)
    /\ staleCancel' = FALSE /\ uncertain' = FALSE
    /\ UNCHANGED <<cancelReq, dismissed, born, owner, blocked, clock, fileVars,
                   childVars, cur, memo, handVars, recVars, hostVars>>

WorkerSync ==
    /\ At("sync")
    /\ SyncManifestTerminal(cur, target)
    /\ wpc' = "cleanup" /\ target' = "none"
    /\ UNCHANGED <<rowVars, outputs, receipt, childVars, cur, memo, staleCancel,
                   uncertain, handVars, recVars, server, restarts>>

\* finally: an owner confirmed to have exited is recorded, any other blocks the
\* queue, and the worker forgets the run.
ReleaseOwner ==
    /\ \E seen \in InspectOwner(memo, cur) :
        IF seen = "exited"
        THEN RecordRunOwner(cur, "exited") /\ UNCHANGED blocked
        ELSE blocked' = [blocked EXCEPT ![cur] = TRUE] /\ UNCHANGED owner
    /\ memo' = "none" /\ cur' = NoRun /\ wpc' = "loop"
    /\ UNCHANGED revoked

Cleanup ==
    /\ At("cleanup")
    /\ IF memo = "none"
       THEN /\ RecordRunOwner(cur, "exited")   \* no launcher to match: no effect
            /\ cur' = NoRun /\ wpc' = "loop"
            /\ UNCHANGED <<memo, blocked, revoked>>
       ELSE IF Leader(cur)
       THEN /\ revoked' = [revoked EXCEPT ![cur] = TRUE]
            /\ wpc' = "cleanupWait"
            /\ UNCHANGED <<owner, blocked, memo, cur>>
       ELSE ReleaseOwner
    /\ UNCHANGED <<status, cancelReq, dismissed, born, clock, fileVars, proc,
                   authorized, excVars, handVars, recVars, hostVars>>

\* The second termination request ends with an exit or with a timeout.
CleanupWait ==
    /\ At("cleanupWait")
    /\ ReleaseOwner
    /\ UNCHANGED <<status, cancelReq, dismissed, born, clock, fileVars, proc,
                   authorized, excVars, handVars, recVars, hostVars>>

------------------------------------------------------------------------------
(* Shutdown: stop() and _stop_active_run *)

StopBegin ==
    /\ LoopFree /\ spc = "none" /\ restarts < MaxRestarts
    /\ spc' = "lock"
    /\ UNCHANGED <<rowVars, fileVars, childVars, workVars, cpc, apc, recVars,
                   hostVars>>

StopSources == {"starting", "running", "cancelling"}

\* Registry half of _stop_active_run.  writesManifest is TRUE when the run
\* became interrupted, so that its manifest is failed before the child is told.
StopActiveRun(r, writesManifest) ==
    /\ TransitionRun(r, StopSources,
                     IF DurableSuccess(r) THEN "completed" ELSE "interrupted")
    /\ writesManifest = (status[r] \in StopSources /\ ~DurableSuccess(r))
    /\ revoked' = IF writesManifest THEN revoked
                  ELSE [revoked EXCEPT ![r] = TRUE]

\* stop() was called while the child was being created: the worker itself stops
\* the new child, still holding the lock.
HaltSpawned ==
    /\ At("spawned") /\ spc # "none"
    /\ \E writesManifest \in BOOLEAN :
        /\ StopActiveRun(cur, writesManifest)
        /\ wpc' = IF writesManifest THEN "halt" ELSE "haltWait"
    /\ UNCHANGED <<cancelReq, dismissed, born, owner, blocked, clock, fileVars,
                   proc, authorized, cur, memo, excVars, handVars, recVars,
                   hostVars>>

HaltSync ==
    /\ At("halt")
    /\ SyncManifestTerminal(cur, "failed")
    /\ revoked' = [revoked EXCEPT ![cur] = TRUE]
    /\ wpc' = "haltWait"
    /\ UNCHANGED <<rowVars, outputs, receipt, proc, authorized, cur, memo,
                   excVars, handVars, recVars, server, restarts>>

HaltWait ==
    /\ At("haltWait")
    /\ blocked' = IF Leader(cur) THEN [blocked EXCEPT ![cur] = TRUE] ELSE blocked
    /\ wpc' = "cleanup"
    /\ UNCHANGED <<status, cancelReq, dismissed, born, owner, clock, fileVars,
                   childVars, cur, memo, excVars, handVars, recVars, hostVars>>

\* stop() takes the lifecycle lock and stops the active child, if there is one.
StopActive ==
    /\ LoopFree /\ spc = "lock" /\ ~LockHeld
    /\ IF cur # NoRun /\ Leader(cur)
       THEN \E writesManifest \in BOOLEAN :
            /\ StopActiveRun(cur, writesManifest)
            /\ spc' = IF writesManifest THEN "sync" ELSE "wait"
       ELSE spc' = "join" /\ UNCHANGED <<status, revoked>>
    /\ UNCHANGED <<cancelReq, dismissed, born, owner, blocked, clock, fileVars,
                   proc, authorized, workVars, cpc, apc, recVars, hostVars>>

StopSync ==
    /\ server = "up" /\ spc = "sync"
    /\ SyncManifestTerminal(cur, "failed")
    /\ revoked' = [revoked EXCEPT ![cur] = TRUE]
    /\ spc' = "wait"
    /\ UNCHANGED <<rowVars, outputs, receipt, proc, authorized, workVars, cpc,
                   apc, recVars, server, restarts>>

StopWait ==
    /\ LoopFree /\ spc = "wait"
    /\ blocked' = IF cur # NoRun /\ Leader(cur)
                  THEN [blocked EXCEPT ![cur] = TRUE] ELSE blocked
    /\ spc' = "join"
    /\ UNCHANGED <<status, cancelReq, dismissed, born, owner, clock, fileVars,
                   childVars, workVars, cpc, apc, recVars, hostVars>>

\* wait_for(worker, 10) gives up once: the cancellation is delivered at the
\* await where the worker is, and only the one in _execute's try is caught.
StopCancelsWorker ==
    /\ LoopFree /\ spc = "join"
    /\ spc' = "cancelled"
    /\ \/ wpc = "watch" /\ EnterExcept /\ UNCHANGED faults
       \/ /\ wpc = "exceptWait" /\ wpc' = "cleanup"
          /\ staleCancel' = FALSE
          /\ UNCHANGED <<rowVars, fileVars, childVars, cur, memo, uncertain,
                         target, cpc, apc, recVars, hostVars>>
       \/ /\ wpc = "cleanupWait" /\ wpc' = "off"
          /\ memo' = "none" /\ cur' = NoRun
          /\ UNCHANGED <<rowVars, fileVars, childVars, excVars, cpc, apc,
                         recVars, hostVars>>

\* The process ends: its memory is lost and every child reads end-of-file.
GoDown ==
    /\ restarts < MaxRestarts
    /\ restarts' = restarts + 1
    /\ server' = "down"
    /\ revoked' = [r \in Run |-> revoked[r] \/ proc[r] # "none"]
    /\ wpc' = "off" /\ cur' = NoRun /\ memo' = "none"
    /\ staleCancel' = FALSE /\ uncertain' = FALSE /\ target' = "none"
    /\ spc' = "none" /\ cpc' = NoRun
    /\ rpc' = "idle" /\ todo' = {} /\ cands' = {} /\ changed' = FALSE
    /\ UNCHANGED <<rowVars, fileVars, proc, authorized, apc, faults>>

StopDone == /\ LoopFree /\ spc \in {"join", "cancelled"} /\ wpc = "off"
            /\ GoDown

Crash == server # "down" /\ GoDown

------------------------------------------------------------------------------
(* Restart recovery, and the refresh of ownership blocks in the worker loop *)

\* Mutant of Candidate: only rows that were active when the server died.
ActiveCandidate(r) == blocked[r] \/ status[r] \in ActiveStatus

\* list_runs_requiring_restart_reconciliation: a completed row is looked at
\* again only when it is blocked.
Candidate(r) ==
    blocked[r] \/ status[r] \in (ActiveStatus \cup TerminalStatus) \ {"completed"}

\* Those whose owner is looked at: by the rows as they are when they are listed, a run
\* that was only claimed has none.
WithOwner(r) == Candidate(r) /\ (blocked[r] \/ status[r] \notin {"queued", "preparing"})

\* The worker lock is free, and recovery precedes the worker and the requests.
Restart ==
    /\ server = "down"
    /\ server' = "recovering"
    /\ rpc' = "observe"
    /\ cands' = {r \in Run : Candidate(r)} /\ todo' = {r \in Run : WithOwner(r)}
    /\ UNCHANGED <<rowVars, fileVars, childVars, workVars, handVars, changed,
                   restarts, faults>>

\* _refresh_ownership_blocks: a block ends only when the owner is seen exited.
RefreshBlock(seen) ==
    /\ rpc = "refresh"
    /\ \E r \in Run :
        /\ OldestIn(r, todo) /\ seen \in InspectOwner(ObservedPhase(r), r)
        /\ IF seen = "exited"
           THEN /\ owner' = [owner EXCEPT ![r] = "exited"]
                /\ blocked' = [blocked EXCEPT ![r] = FALSE]
                /\ changed' = TRUE
           ELSE /\ owner' = [owner EXCEPT ![r] = ObservedPhase(r)]
                /\ UNCHANGED <<blocked, changed>>
        /\ todo' = todo \ {r}
    /\ UNCHANGED <<status, cancelReq, dismissed, born, clock, fileVars,
                   childVars, workVars, handVars, rpc, cands, hostVars>>

RefreshDone ==
    /\ rpc = "refresh" /\ todo = {}
    /\ changed' = FALSE
    /\ IF changed
       THEN /\ rpc' = "observe" /\ cands' = {r \in Run : Candidate(r)}
            /\ todo' = {r \in Run : WithOwner(r)}
       ELSE rpc' = "idle" /\ UNCHANGED <<todo, cands>>
    /\ UNCHANGED <<rowVars, fileVars, childVars, workVars, handVars, hostVars>>

\* First pass of recovery: every owner not seen exited blocks the queue.
ObserveCandidate ==
    /\ rpc = "observe"
    /\ \E r \in Run : \E seen \in InspectOwner(ObservedPhase(r), r) :
        /\ OldestIn(r, todo)
        /\ IF seen = "exited"
           THEN owner' = [owner EXCEPT ![r] = "exited"] /\ UNCHANGED blocked
           ELSE /\ owner' = [owner EXCEPT ![r] = ObservedPhase(r)]
                /\ blocked' = [blocked EXCEPT ![r] = TRUE]
        /\ todo' = todo \ {r}
    /\ UNCHANGED <<status, cancelReq, dismissed, born, clock, fileVars,
                   childVars, workVars, handVars, rpc, cands, changed, hostVars>>

\* Mutant of RecoveredStatus: a reserved start is queued again, too.
RequeueStarting(r) ==
    IF status[r] \in {"preparing", "starting"} /\ ~cancelReq[r] THEN "queued"
    ELSE IF status[r] \in ActiveStatus /\ cancelReq[r] THEN "cancelled"
    ELSE IF status[r] \in ActiveStatus THEN "interrupted"
    ELSE status[r]

\* WebStore.recover_after_restart: only a run not yet reserved is queued again.
RecoveredStatus(r) ==
    IF status[r] = "preparing" /\ ~cancelReq[r] THEN "queued"
    ELSE IF status[r] \in ActiveStatus /\ cancelReq[r] THEN "cancelled"
    ELSE IF status[r] \in ActiveStatus THEN "interrupted"
    ELSE status[r]

RecoverRegistry ==
    /\ rpc = "observe" /\ todo = {}
    /\ status' = [r \in Run |-> RecoveredStatus(r)]
    /\ rpc' = "reconcile" /\ todo' = cands
    /\ UNCHANGED <<cancelReq, dismissed, born, owner, blocked, clock, fileVars,
                   childVars, workVars, handVars, cands, changed, hostVars>>

\* Mutant of ManifestVerdict: the job status is stored as the run status.
RawVerdict(r) ==
    IF manifest[r] \notin TerminalJobStatus THEN status[r] ELSE manifest[r]

\* apply_terminal_manifest: what a terminal manifest says of the run.
ManifestVerdict(r) ==
    IF manifest[r] \notin TerminalJobStatus THEN status[r]
    ELSE IF manifest[r] = "cancelled" THEN "cancelled"
    ELSE IF DurableSuccess(r) THEN "completed" ELSE "failed"

\* Mutant of Settled: a blocked owner does not protect the manifest.
SettledByManifest(r) ==
    \/ status[r] \notin {"interrupted", "cancelled", "failed"}
    \/ manifest[r] \in TerminalJobStatus

Settled(r) ==
    \/ status[r] \notin {"interrupted", "cancelled", "failed"}
    \/ manifest[r] \in TerminalJobStatus
    \/ blocked[r]

\* Second pass: the manifest decides if it is terminal; under a blocked owner a
\* non-terminal manifest is left to the child that may still write it.
ReconcileSettled ==
    /\ rpc = "reconcile"
    /\ \E r \in Run :
        /\ OldestIn(r, todo) /\ Settled(r)
        /\ status' = IF status[r] \in {"interrupted", "cancelled", "failed"}
                     THEN [status EXCEPT ![r] = ManifestVerdict(r)] ELSE status
        /\ owner' = IF blocked[r] /\ manifest[r] \notin TerminalJobStatus
                       /\ status[r] \in {"interrupted", "cancelled", "failed"}
                    THEN [owner EXCEPT ![r] = ObservedPhase(r)] ELSE owner
        /\ todo' = todo \ {r}
    /\ UNCHANGED <<cancelReq, dismissed, born, blocked, clock, fileVars,
                   childVars, workVars, handVars, rpc, cands, changed, hostVars>>

\* No child is left: the server writes the terminal manifest itself.
ReconcileManifest ==
    /\ rpc = "reconcile"
    /\ \E r \in Run :
        /\ OldestIn(r, todo) /\ ~Settled(r)
        /\ SyncManifestTerminal(r, IF status[r] = "cancelled" THEN "cancelled"
                                   ELSE "failed")
    /\ rpc' = "apply"
    /\ UNCHANGED <<rowVars, outputs, receipt, childVars, workVars, handVars,
                   todo, cands, changed, server, restarts>>

\* The manifest is read again, whoever wrote it.
ReconcileApply ==
    /\ rpc = "apply"
    /\ \E r \in Run :
        /\ OldestIn(r, todo)
        /\ status' = [status EXCEPT ![r] = ManifestVerdict(r)]
        /\ todo' = todo \ {r}
    /\ rpc' = "reconcile"
    /\ UNCHANGED <<cancelReq, dismissed, born, owner, blocked, clock, fileVars,
                   childVars, workVars, handVars, cands, changed, hostVars>>

RecoveryDone ==
    /\ rpc = "reconcile" /\ todo = {}
    /\ rpc' = "idle" /\ cands' = {}
    /\ IF server = "recovering"
       THEN server' = "up" /\ wpc' = "loop"
       ELSE UNCHANGED <<server, wpc>>
    /\ UNCHANGED <<rowVars, fileVars, childVars, cur, memo, excVars, handVars,
                   todo, changed, restarts, faults>>

------------------------------------------------------------------------------
(* The child process *)

\* Written before anything else, and before the child looks at its stdin.
ChildReceipt(r) ==
    /\ proc[r] = "gated" /\ ~receipt[r]
    /\ receipt' = [receipt EXCEPT ![r] = TRUE]
    /\ UNCHANGED <<rowVars, manifest, outputs, childVars, workVars, handVars,
                   recVars, hostVars>>

ChildMoves(r, from, to) ==
    /\ proc[r] = from
    /\ proc' = [proc EXCEPT ![r] = to]
    /\ UNCHANGED <<rowVars, fileVars, authorized, revoked, workVars, handVars,
                   recVars, server, restarts>>

\* The first line on stdin is the start capability ...
ChildStart(r) ==
    /\ receipt[r] /\ authorized[r]
    /\ ChildMoves(r, "gated", "working") /\ UNCHANGED faults

\* ... or it is not, and the child exits with 125 before importing anything.
ChildRefused(r) ==
    /\ receipt[r] /\ ~authorized[r] /\ revoked[r]
    /\ ChildMoves(r, "gated", "gone") /\ UNCHANGED faults

\* watch_parent: "cancel" or end-of-file makes the leader kill its group.
ChildRevoked(r) ==
    /\ revoked[r]
    /\ ChildMoves(r, "working", "gone") /\ UNCHANGED faults

\* owned_child_finish: a leader that leaves while its group has members kills it.
ChildExits(r) ==
    /\ manifest[r] \in TerminalJobStatus
    /\ ChildMoves(r, "working", "gone") /\ UNCHANGED faults

\* Killed from outside, or an exception outside run_pipeline's try.
ChildDies(r) ==
    /\ Fault
    /\ \/ ChildMoves(r, "gated", "gone")
       \/ \E left \in {"orphans", "gone"} : ChildMoves(r, "working", left)

OrphansExit(r) == ChildMoves(r, "orphans", "gone") /\ UNCHANGED faults

ChildWrites(r, from, to) ==
    /\ proc[r] = "working" /\ manifest[r] = from
    /\ manifest' = [manifest EXCEPT ![r] = to]
    /\ UNCHANGED <<rowVars, receipt, childVars, workVars, handVars, recVars,
                   hostVars>>

\* claim_pending_for_validation
ChildClaims(r) == ChildWrites(r, "pending", "validating") /\ UNCHANGED outputs

ChildRuns(r) == ChildWrites(r, "validating", "running") /\ UNCHANGED outputs

\* finalize_manifest: the outputs are validated and declared, then committed.
ChildPublishes(r) ==
    /\ outputs[r] = "none"
    /\ outputs' = [outputs EXCEPT ![r] = "valid"]
    /\ ChildWrites(r, "running", "running")

ChildCommits(r) ==
    /\ outputs[r] # "none"
    /\ ChildWrites(r, "running", "succeeded") /\ UNCHANGED outputs

ChildFails(r) ==
    /\ \E from \in {"validating", "running"} : ChildWrites(r, from, "failed")
    /\ UNCHANGED outputs

\* Published files removed or overwritten by something outside the program.
OutputsDamaged(r) ==
    /\ outputs[r] = "valid" /\ Fault
    /\ outputs' = [outputs EXCEPT ![r] = "damaged"]
    /\ UNCHANGED <<rowVars, manifest, receipt, childVars, workVars, handVars,
                   recVars, server, restarts>>

------------------------------------------------------------------------------

Init ==
    /\ status = [r \in Run |-> "none"] /\ owner = [r \in Run |-> "null"]
    /\ cancelReq = [r \in Run |-> FALSE] /\ dismissed = [r \in Run |-> FALSE]
    /\ blocked = [r \in Run |-> FALSE]
    /\ born = [r \in Run |-> 0] /\ clock = 0
    /\ manifest = [r \in Run |-> "absent"] /\ outputs = [r \in Run |-> "none"]
    /\ receipt = [r \in Run |-> FALSE]
    /\ proc = [r \in Run |-> "none"]
    /\ authorized = [r \in Run |-> FALSE] /\ revoked = [r \in Run |-> FALSE]
    /\ wpc = "loop" /\ cur = NoRun /\ memo = "none"
    /\ staleCancel = FALSE /\ uncertain = FALSE /\ target = "none"
    /\ spc = "none" /\ cpc = NoRun /\ apc = NoRun
    /\ rpc = "idle" /\ todo = {} /\ cands = {} /\ changed = FALSE
    /\ server = "up" /\ restarts = 0 /\ faults = 0

Request ==
    \/ \E r \in Run : CreateRun(r) \/ DismissTerminalRun(r) \/ Cancel(r)
    \/ \E r \in Run : ApiCancel(r)
    \/ CancelSync \/ ApiCancelSync \/ ApiDies

Worker ==
    \/ LoopTop \/ ClaimNextQueuedRun \/ ClaimNothing \/ PrepareFails
    \/ BeginRunStart \/ SpawnChild \/ SpawnFails \/ MarkRunRunning
    \/ RefuseDone \/ RefuseTimeout \/ Attach \/ AttachFails \/ Authorize
    \/ WatchFails \/ Finish \/ ExceptTerminated \/ ExceptDecide \/ WorkerSync
    \/ Cleanup \/ CleanupWait \/ HaltSpawned \/ HaltSync \/ HaltWait

Shutdown ==
    \/ StopBegin \/ StopActive \/ StopSync \/ StopWait \/ StopCancelsWorker
    \/ StopDone \/ Crash

Recovery ==
    \/ Restart \/ (\E seen \in {"exited", "unclear"} : RefreshBlock(seen))
    \/ RefreshDone \/ ObserveCandidate \/ RecoverRegistry \/ ReconcileSettled
    \/ ReconcileManifest \/ ReconcileApply \/ RecoveryDone

Child(r) ==
    \/ ChildReceipt(r) \/ ChildStart(r) \/ ChildRefused(r) \/ ChildRevoked(r)
    \/ ChildExits(r) \/ ChildDies(r) \/ OrphansExit(r) \/ ChildClaims(r)
    \/ ChildRuns(r) \/ ChildPublishes(r) \/ ChildCommits(r) \/ ChildFails(r)
    \/ OutputsDamaged(r)

Next == Request \/ Worker \/ Shutdown \/ Recovery \/ \E r \in Run : Child(r)

Spec == Init /\ [][Next]_vars

------------------------------------------------------------------------------
(* Fairness.  Coroutines that can run do run, because the event loop schedules *)
(* every ready task, and whoever operates the server starts it again.  Nothing *)
(* is assumed of clients, of the second API process or of the pipeline; an     *)
(* owner that has exited is some day seen to have exited.                      *)
Fairness ==
    /\ WF_vars(Worker) /\ WF_vars(Recovery) /\ WF_vars(CancelSync)
    /\ WF_vars(StopActive \/ StopSync \/ StopWait \/ StopDone)
    /\ SF_vars(RefreshBlock("exited"))

FairSpec == Spec /\ Fairness

------------------------------------------------------------------------------
(* Properties *)

RowType ==
    /\ status \in [Run -> RunStatus] /\ owner \in [Run -> OwnerPhase]
    /\ cancelReq \in [Run -> BOOLEAN] /\ dismissed \in [Run -> BOOLEAN]
    /\ blocked \in [Run -> BOOLEAN]
    /\ born \in [Run -> Nat] /\ clock \in Nat

FileType ==
    /\ manifest \in [Run -> JobStatus \cup {"absent"}]
    /\ outputs \in [Run -> {"none", "valid", "damaged"}]
    /\ receipt \in [Run -> BOOLEAN]

ChildType ==
    /\ proc \in [Run -> ProcState]
    /\ authorized \in [Run -> BOOLEAN] /\ revoked \in [Run -> BOOLEAN]

WorkType ==
    /\ wpc \in AwaitPoint \cup MidPoint
    /\ cur \in Run \cup {NoRun} /\ memo \in {"none", "intent", "acknowledged"}
    /\ staleCancel \in BOOLEAN /\ uncertain \in BOOLEAN
    /\ target \in {"none", "failed", "cancelled"}

HostType ==
    /\ spc \in {"none", "lock", "sync", "wait", "join", "cancelled"}
    /\ cpc \in Run \cup {NoRun} /\ apc \in Run \cup {NoRun}
    /\ rpc \in {"idle", "refresh", "observe", "reconcile", "apply"}
    /\ todo \subseteq Run /\ cands \subseteq Run /\ changed \in BOOLEAN
    /\ server \in {"up", "recovering", "down"}
    /\ restarts \in Nat /\ faults \in Nat

\* Every variable keeps its type; in particular a registry row never holds a
\* job status, nor a manifest a run status (the two vocabularies of the code).
TypeOK == RowType /\ FileType /\ ChildType /\ WorkType /\ HostType

\* Processes of r may still use the GPU on a result not yet committed.
Computing(r) == Alive(r) /\ manifest[r] # "succeeded"

\* At most one run computes at any time, across claims, stops, crashes and
\* restarts (claim_next_queued_run with the ownership block).
SingleComputing ==
    \A r, q \in Run : Computing(r) /\ Computing(q) => r = q

\* While the server serves, a computing child the worker no longer watches holds
\* the queue through an ownership block (recovery, finally clause).
SurvivorBlocksQueue ==
    server = "up" /\ rpc = "idle" =>
        \A r \in Run : Computing(r) => blocked[r] \/ cur = r

\* No pipeline module runs in a process whose identity the registry does not
\* hold, so that a restarted server can find it (attach before authorize).
WorkIsAccounted ==
    \A r \in Run : proc[r] \in {"working", "orphans"} => owner[r] = "acknowledged"

\* A run is shown as completed only over a manifest that committed success.
CompletedIsDurable ==
    \A r \in Run : status[r] = "completed" => manifest[r] = "succeeded"

\* A manifest says cancelled only if no child works on the run and none will:
\* cancel-before-start, and the cancellation written after the child stopped.
CancelledNeverWorks ==
    \A r \in Run : manifest[r] = "cancelled" => proc[r] # "working"

\* A run for which a process was ever created is never queued again.
NeverRequeuedAfterSpawn ==
    \A r \in Run : proc[r] # "none" => status[r] \notin {"none", "queued", "preparing"}

\* A run is never started before an older one that is still waiting, not even
\* when the older one was claimed, interrupted and queued again.
NoOvertaking ==
    \A r, q \in Run :
        born[r] < born[q] /\ proc[q] # "none"
            => status[r] \notin {"queued", "preparing"}

\* The queue gives the GPU to one run after the other, in their order, and knows every
\* process that may still use it (claim_next_queued_run, the ownership record).
QueueSound ==
    SingleComputing /\ SurvivorBlocksQueue /\ WorkIsAccounted /\ NoOvertaking

\* What the registry says of a run agrees with its manifest and its process
\* (the outcomes of _execute, cancel and recover_after_restart).
OutcomeSound == CompletedIsDurable /\ CancelledNeverWorks /\ NeverRequeuedAfterSpawn

\* Whoever writes last, a terminal manifest keeps its verdict; recovery writes a
\* manifest only when no process of the run is left.
ManifestsKept ==
    [][\A r \in Run :
        /\ manifest[r] \in TerminalJobStatus => manifest'[r] = manifest[r]
        /\ rpc = "reconcile" /\ rpc' = "apply" /\ manifest'[r] # manifest[r] => ~Alive(r)]_vars

\* The registry contradicts no terminal manifest, and lacks one only where the
\* best-effort write failed or a cancellation is about to write it.
Agree(r) ==
    CASE status[r] = "completed"   -> manifest[r] = "succeeded"
      [] status[r] = "failed"      -> \/ manifest[r] = "failed"
                                      \/ manifest[r] = "succeeded" /\ outputs[r] = "damaged"
                                      \/ manifest[r] \notin TerminalJobStatus /\ faults > 0
      [] status[r] = "cancelled"   -> \/ manifest[r] = "cancelled"
                                      \/ /\ manifest[r] \notin TerminalJobStatus
                                         /\ faults > 0 \/ apc = r
      [] status[r] = "interrupted" -> manifest[r] \notin TerminalJobStatus /\ faults > 0
      [] OTHER                     -> TRUE

\* When recovery opens the server again, registry and manifests agree on every
\* run without a blocked owner, wherever the crash fell between the two writes.
RecoveryReconciles ==
    [][server = "recovering" /\ server' = "up"
        => \A r \in Run : ~blocked[r] => Agree(r)']_vars

\* Every child process ends some day, with or without a result.
ChildrenEnd == \A r \in Run : []<>~Alive(r)

\* A committed success is reported as completed, whatever cancellation, stop or
\* crash raced with the commit.
SuccessIsReported ==
    ChildrenEnd =>
        \A r \in Run : manifest[r] = "succeeded"
                          ~> (status[r] = "completed" \/ outputs[r] = "damaged")

\* An accepted cancellation ends the run for good, also when the termination of
\* the child is not confirmed, the server stops, or a write fails.
CancelEndsRun ==
    ChildrenEnd =>
        \A r \in Run : cancelReq[r] ~> [](status[r] \in TerminalStatus)

\* The evidence that would end the block of q does not exist: the child left no
\* receipt, or the row never had an ownership record.
NoEvidence(q) == blocked[q] /\ (owner[q] = "null" \/ (owner[q] = "intent" /\ ~receipt[q]))

\* A queued run leaves the queue unless a block without evidence pauses it.
QueueProgress ==
    ChildrenEnd =>
        \A r \in Run : status[r] = "queued"
                          ~> (status[r] # "queued" \/ \E q \in Run : NoEvidence(q))

------------------------------------------------------------------------------
(* The inductive invariant behind the safety properties, in named parts *)

\* Which program counters go together, where the worker has a current run, and
\* that a run without an ownership record in memory has none in the registry.
ControlInv ==
    /\ cur = NoRun <=> wpc \in {"off", "idle", "loop", "claim"}
    /\ cur = NoRun => memo = "none"
    /\ cur # NoRun => status[cur] # "none"
    /\ cur # NoRun /\ memo = "none" => owner[cur] = "null"
    /\ server # "up" => wpc = "off" /\ spc = "none" /\ cpc = NoRun
    /\ rpc # "idle" => server = "recovering" \/ (server = "up" /\ wpc = "claim")
    /\ server = "recovering" => rpc \in {"observe", "reconcile", "apply"}
    /\ wpc = "sync" => target # "none"
    /\ spc = "sync" => cur # NoRun /\ wpc \in AwaitPoint

\* A child exists only for a row whose start was reserved, such a row has left
\* the queue, and an exit is recorded only of a child that is gone.
OwnerInv ==
    \A r \in Run :
        /\ proc[r] # "none" => owner[r] # "null"
        /\ owner[r] # "null" => status[r] \notin {"none", "queued", "preparing"}
        /\ owner[r] = "exited" => proc[r] = "gone"

\* The registry never runs ahead of the manifest.
ManifestInv ==
    \A r \in Run :
        /\ status[r] = "none" <=> manifest[r] = "absent"
        /\ status[r] = "completed" => manifest[r] = "succeeded"
        /\ manifest[r] = "succeeded" => proc[r] # "none"

\* Between claim and spawn nothing computes, and the new run has no process.
SpawnInv ==
    /\ wpc \in {"prepare", "spawn"} =>
          proc[cur] = "none" /\ \A q \in Run : ~Computing(q)
    /\ wpc \in {"spawn", "spawned", "attach"} =>
          memo = "intent" /\ owner[cur] = "intent"
    /\ wpc = "attached" => memo = "acknowledged" /\ owner[cur] = "acknowledged"

\* Who answers for a computing child: a block, the worker's memory, or, until
\* recovery has looked at the row, the list of candidates.
SurvivorInv ==
    \A r \in Run : Computing(r) =>
        /\ server = "up" => blocked[r] \/ (cur = r /\ memo # "none")
        /\ server = "recovering" => blocked[r] \/ (rpc = "observe" /\ r \in todo)

\* A worker about to forget a live child has blocked the queue for it.
GiveUpInv ==
    /\ wpc \in {"except", "sync", "cleanup"} /\ Leader(cur) =>
          blocked[cur] \/ spc = "cancelled"
    /\ wpc = "cleanupWait" /\ Alive(cur) => blocked[cur] \/ spc = "cancelled"

\* The start capability is given to a run published as running, once its owner
\* is recorded, and nothing works without it.
AuthorityInv ==
    /\ wpc \in {"attach", "attached"} => status[cur] \in {"running", "cancelling"}
    /\ wpc \in {"prepare", "spawn", "spawned", "attach", "attached"} =>
          ~authorized[cur]
    /\ \A r \in Run :
        /\ authorized[r] => /\ owner[r] \in {"acknowledged", "exited"}
                            /\ status[r] \notin {"none", "queued", "preparing", "starting"}
        /\ proc[r] \in {"working", "orphans"} => authorized[r]

\* The manifest of r is cancelled, or a coroutine is about to cancel it.
Doomed(r) ==
    manifest[r] = "cancelled" \/ cpc = r \/ apc = r
        \/ (wpc = "sync" /\ target = "cancelled" /\ cur = r)

CancelInv ==
    /\ \A r \in Run : Doomed(r) =>
          /\ status[r] \in TerminalStatus
          /\ proc[r] # "working" /\ (proc[r] = "gated" => ~authorized[r])
    /\ wpc = "except" /\ ~uncertain => ~Leader(cur)

IndInv ==
    /\ TypeOK /\ ControlInv /\ OwnerInv /\ ManifestInv /\ SpawnInv
    /\ SurvivorInv /\ GiveUpInv /\ AuthorityInv /\ CancelInv /\ SingleComputing

\* Behind NoOvertaking: what waits was neither cancelled nor dismissed, and what
\* was created before a run claimed or reserved no longer waits.
OrderInv ==
    /\ \A r \in Run : born[r] <= clock
    /\ \A r \in Run : status[r] \in {"none", "queued", "preparing"} =>
                        ~cancelReq[r] /\ ~dismissed[r]
    /\ \A r, q \in Run :
          born[r] < born[q] /\ (owner[q] # "null" \/ status[q] = "preparing")
              => status[r] \notin {"queued", "preparing"}

\* Behind RecoveryReconciles, at all times: creation instants tell runs apart,
\* what waits has an open manifest, a committed success has declared its outputs,
\* and who is about to fail or cancel a manifest has ended the run before.
VerdictInv ==
    /\ \A r, q \in Run :
          status[r] # "none" /\ status[q] # "none" /\ born[r] = born[q] => r = q
    /\ \A r \in Run :
        /\ blocked[r] \/ r \in todo \cup cands => status[r] # "none"
        /\ status[r] \in {"queued", "preparing"} => manifest[r] \notin TerminalJobStatus
        /\ manifest[r] = "succeeded" => outputs[r] # "none"
        /\ apc = r /\ manifest[r] \notin TerminalJobStatus => status[r] = "cancelled"
    /\ wpc \in {"sync", "halt"} \/ spc = "sync" => status[cur] \in TerminalStatus

\* Recovery has still to look at r.
Pending(r) == IF rpc = "observe" THEN r \in cands ELSE r \in todo

\* Behind RecoveryReconciles, while the server recovers: a run recovery has no
\* more to look at is blocked or agrees with its manifest, and the run whose
\* manifest it has just written gets the verdict next.
RecoveryInv ==
    server = "recovering" =>
        /\ todo \subseteq cands
        /\ rpc # "observe" => \A r \in Run : status[r] \notin ActiveStatus
        /\ \A r \in Run :
              blocked[r] \/ Pending(r) \/ (status[r] \notin ActiveStatus /\ Agree(r))
        /\ rpc = "apply" =>
              \A r \in Run : OldestIn(r, todo) =>
                  /\ ~blocked[r]
                  /\ \/ manifest[r] \in TerminalJobStatus
                     \/ status[r] \in {"interrupted", "cancelled", "failed"} /\ faults > 0

------------------------------------------------------------------------------
(* The queue implements the lease *)

LeaseOf(r) ==
    IF proc[r] = "none" THEN "unused"
    ELSE IF Computing(r) THEN "held" ELSE "over"

OutcomeOf(r) == IF manifest[r] \in TerminalJobStatus THEN manifest[r] ELSE "open"

GL == INSTANCE GpuLease WITH lease <- [r \in Run |-> LeaseOf(r)],
                             outcome <- [r \in Run |-> OutcomeOf(r)]

\* Claiming, spawning, cancelling, stopping, crashing and recovering together
\* give out the GPU the way GpuLease does.
ImplementsGpuLease == GL!Spec

------------------------------------------------------------------------------
(* Statements of the repository's documents that the code does not keep *)

\* docs/refactor/P1_OWNERSHIP.md: a failure proven to precede the spawn leaves
\* an exit record, so that it never pauses the queue.
UnstartedNeverBlocks == \A r \in Run : owner[r] = "null" => ~blocked[r]

\* docs/refactor/P1_OWNERSHIP.md: a live owner blocks the next claim even when
\* its run has become completed.
SingleOwner == \A r, q \in Run : Alive(r) /\ Alive(q) => r = q

\* The server decides about a manifest in steps that move one of its own
\* program counters; the child's writes move none.
ServerStep == <<wpc, spc, cpc, apc, rpc>>' # <<wpc, spc, cpc, apc, rpc>>

\* docs/refactor/P1_OWNERSHIP.md: the server does not overwrite with a failure a
\* manifest that the current child can still write.
NoFailureUnderLiveChild ==
    [][\A r \in Run : ServerStep /\ manifest'[r] = "failed" /\ manifest[r] # "failed"
                        => ~(Leader(r) /\ authorized[r])]_vars
==============================================================================
