------------------------------ MODULE OutputRoot ------------------------------
(* Pipeline processes that share one output directory: run_pipeline and the
   single-model path (pipeline.py), the manifest as a ledger of jobs
   (infrastructure/manifest_writer.py), and the per-image results that a later
   job may reuse.  The publication is one step here; BundlePublish has its files. *)
EXTENDS RunManifest, Naturals, FiniteSets

CONSTANTS
    Process,      \* attempts to run the pipeline
    Id,           \* Id[p]: the job id, the same for a repeated start
    Fp,           \* Fp[p]: run_fingerprint, from configuration, model and data
    Image,
    Slice,        \* Slice[p]: the images p works on
    Scenes,       \* what the point cloud may show of a detection
    SkipExisting, \* Boolean option skip_existing
    None,
    MaxFaults,    \* failing file operations, failing images
    MaxKills      \* killed processes, interrupts

ASSUME RootBounds == MaxFaults \in Nat /\ MaxKills \in Nat
ASSUME ScenesAreScenes == Scenes \subseteq
    [rear : BOOLEAN, near : BOOLEAN, far : BOOLEAN, cluster : BOOLEAN, dense : BOOLEAN,
     pole : {"absent", "found", "error"}]
ASSUME SlicesAreImages == \A p \in Process : Slice[p] \subseteq Image

VARIABLES
    manifest,   \* run_manifest.json, None when there is none
    history,    \* run_history/*.manifest.json
    summary,    \* run_summary.json
    txt,        \* per image: the result file, None when there is none
    art,        \* per image: the fingerprint whose crops are under the crop names
    shp,        \* the published bundles
    pc, exit,   \* control and exit of a process
    todo,       \* images its workers have not taken
    hand,       \* the image a worker of it holds: <<image, step>> or None
    fails,      \* summary["failures"] > 0
    got,        \* history: results it produced or reused
    stray,      \* history: images written by a worker that outlived its parent
    foreign,    \* history: processes that claimed the manifest of another job
    faults, kills

vars == <<manifest, history, summary, txt, art, shp, pc, exit, todo, hand,
          fails, got, stray, foreign, faults, kills>>
ledger == <<manifest, history, summary>>
results == <<txt, art, shp, todo, hand, fails, got, stray, foreign>>

Fault == faults > 0 /\ faults' = faults - 1
NoFault == UNCHANGED faults

-------------------------------------------------------------------------------
(* What becomes of one detection. *)

\* Behind the view there is nothing to collect; the wide range is tried only when
\* the strict range is empty; a point counts only in a cluster; an accepted
\* sign is given a pole when the search finds one.
DetectionKind(f) ==
    CASE f.rear                                -> "rear"
      [] ~f.rear /\ ~f.near /\ ~f.far          -> "empty"
      [] ~f.rear /\ (f.near \/ f.far) /\ ~f.cluster -> "loose"
      [] ~f.rear /\ (f.near \/ f.far) /\ f.cluster /\ ~f.dense -> "weak"
      [] OTHER -> [absent |-> "sign", found |-> "pole", error |-> "error"][f.pole]

Kinds == {DetectionKind(f) : f \in Scenes}

\* The absence of a value is none of the values.
ASSUME NoneIsNothing ==
    /\ None \notin Process \cup {"ok", "killed"}
    /\ \A m \in [id : {Id[p] : p \in Process}, status : JobStatus,
                  open : BOOLEAN, failed : BOOLEAN] : m # None
    /\ \A b \in [by : Process \cup {None}, images : SUBSET Image] : b # None
    /\ \A t \in [fp : {Fp[p] : p \in Process}, kind : Kinds] : t # None
    /\ \A h \in Image \X (Kinds \cup {"extract"}) : h # None

\* Everything but a rear-facing detection leaves crops behind.
HasCrops(kind) == kind # "rear"

\* x is set and accepted_for_shp: the sign is exported.
Exported(kind) == kind \in {"sign", "pole", "error"}

\* Mutant of Reusable: an earlier error is reused as well.
ReusableError(p, i) == SkipExisting /\ txt[i] # None /\ txt[i].fp = Fp[p]

\* A pole that could not be processed counts as a missing artefact.
Intact(i) == txt[i].kind # "error" /\ (HasCrops(txt[i].kind) => art[i] # None)

\* compatible_existing_result_summary.
Reusable(p, i) == SkipExisting /\ txt[i] # None /\ txt[i].fp = Fp[p] /\ Intact(i)

-------------------------------------------------------------------------------
Init ==
    /\ manifest = None /\ history = {} /\ summary = None
    /\ txt = [i \in Image |-> None]
    /\ art = [i \in Image |-> None]
    /\ shp = None
    /\ pc = [p \in Process |-> "start"]
    /\ exit = [p \in Process |-> None]
    /\ todo = [p \in Process |-> {}]
    /\ hand = [p \in Process |-> None]
    /\ fails = [p \in Process |-> FALSE]
    /\ got = [p \in Process |-> {}]
    /\ stray = {} /\ foreign = {}
    /\ faults = MaxFaults /\ kills = MaxKills

Status == IF manifest = None THEN "none" ELSE manifest.status
Owner == IF manifest = None THEN None ELSE manifest.id
Open == Status \in JobStatus \ TerminalJobStatus

Record(m) == [id |-> m.id, status |-> m.status]

Go(p, step) == pc' = [pc EXCEPT ![p] = step]
Exit(p, how) == Go(p, "exited") /\ exit' = [exit EXCEPT ![p] = how]

\* Mutant of Archive: any manifest of another job makes room.
ArchiveAny(p) ==
    /\ pc[p] = "start"
    /\ history' = history \cup (IF manifest = None THEN {} ELSE {Record(manifest)})
    /\ manifest' = None /\ summary' = None
    /\ Go(p, "create")
    /\ UNCHANGED <<results, exit, faults, kills>>

\* archive_terminal: a terminal manifest of another job makes room, its summaries
\* first; a failing move puts back what was moved.  Any other manifest refuses the job.
Archive(p) ==
    /\ pc[p] = "start"
    /\ \/ /\ Owner \in {None, Id[p]}
          /\ Go(p, "create") /\ NoFault /\ UNCHANGED <<ledger, exit>>
       \/ /\ Owner # Id[p] /\ Status \in TerminalJobStatus
          /\ \/ /\ history' = history \cup {Record(manifest)}
                /\ manifest' = None /\ summary' = None
                /\ Go(p, "create") /\ NoFault /\ UNCHANGED exit
             \/ Fault /\ Exit(p, "error") /\ UNCHANGED ledger
       \/ /\ Owner # Id[p] /\ Open
          /\ Exit(p, "error") /\ NoFault /\ UNCHANGED ledger
    /\ UNCHANGED <<results, kills>>

\* Mutant of Create: a manifest that is there is replaced.
CreateAnew(p) ==
    /\ pc[p] = "create"
    /\ manifest' = [id |-> Id[p], status |-> "pending", open |-> FALSE, failed |-> FALSE]
    /\ Go(p, "claim")
    /\ UNCHANGED <<history, summary, results, exit, faults, kills>>

\* create: an existing manifest must be of this job, and still pending.
Create(p) ==
    /\ pc[p] = "create"
    /\ \/ /\ manifest = None
          /\ manifest' = [id |-> Id[p], status |-> "pending",
                          open |-> FALSE, failed |-> FALSE]
          /\ Go(p, "claim") /\ UNCHANGED exit
       \/ /\ manifest # None
          /\ IF Owner = Id[p] /\ Status = "pending"
             THEN Go(p, "claim") /\ UNCHANGED exit
             ELSE Exit(p, "error")
          /\ UNCHANGED manifest
    /\ UNCHANGED <<history, summary, results, faults, kills>>

\* Mutant of Claim: a manifest that another process has claimed is taken too.
ClaimTaken(p) ==
    /\ pc[p] = "claim" /\ Open
    /\ manifest' = [manifest EXCEPT !.status = "validating"]
    /\ foreign' = IF Owner = Id[p] THEN foreign ELSE foreign \cup {p}
    /\ Go(p, "prepare")
    /\ UNCHANGED <<history, summary, txt, art, shp, todo, hand, fails, got, stray,
                   exit, faults, kills>>

\* claim_pending_for_validation.  An error between the claim and the try block
\* leaves the manifest as it is.
Claim(p) ==
    /\ pc[p] = "claim"
    /\ IF Status = "pending"
       THEN /\ manifest' = [manifest EXCEPT !.status = "validating"]
            /\ foreign' = IF Owner = Id[p] THEN foreign ELSE foreign \cup {p}
            /\ \/ Go(p, "prepare") /\ NoFault /\ UNCHANGED exit
               \/ Fault /\ Exit(p, "error")
       ELSE Exit(p, "error") /\ NoFault /\ UNCHANGED <<manifest, foreign>>
    /\ UNCHANGED <<history, summary, txt, art, shp, todo, hand, fails, got, stray, kills>>

-------------------------------------------------------------------------------
(* The stages.  open and failed are the evidence that the manifest keeps of them. *)

\* tracked_stage: an exception closes the stage as failed, and goes on.
StageFails(p) ==
    /\ manifest' = [manifest EXCEPT !.open = FALSE, !.failed = TRUE]
    /\ Go(p, "fail")

\* validate_config and the stages of prepare_shared_pipeline_context.
Prepare(p) ==
    /\ pc[p] = "prepare"
    /\ \/ Go(p, "begin") /\ NoFault /\ UNCHANGED manifest
       \/ Fault /\ StageFails(p)
    /\ UNCHANGED <<history, summary, results, exit, kills>>

\* The job runs, its processing stage is open, workers get the images.
Begin(p) ==
    /\ pc[p] = "begin"
    /\ manifest' = [manifest EXCEPT !.status = "running", !.open = TRUE]
    /\ todo' = [todo EXCEPT ![p] = Slice[p]]
    /\ Go(p, "detect")
    /\ UNCHANGED <<history, summary, txt, art, shp, hand, fails, got, stray, foreign,
                   exit, faults, kills>>

\* A worker takes the next image of its chunk, whether or not its process is still
\* there: a compatible result is reused.
Take(p) ==
    /\ pc[p] \in {"detect", "exited"} /\ hand[p] = None
    /\ \E i \in todo[p] :
        /\ todo' = [todo EXCEPT ![p] = @ \ {i}]
        /\ IF Reusable(p, i)
           THEN /\ got' = [got EXCEPT ![p] = @ \cup {<<i, txt[i].kind>>}]
                /\ UNCHANGED hand
           ELSE /\ hand' = [hand EXCEPT ![p] = <<i, "extract">>]
                /\ UNCHANGED got
    /\ UNCHANGED <<ledger, txt, art, shp, fails, stray, foreign, pc, exit, faults, kills>>

\* Crops are written under names that depend on image and detection only.
Extract(p) ==
    /\ hand[p] # None /\ hand[p][2] = "extract"
    /\ LET i == hand[p][1] IN
       \/ \E k \in Kinds :
            /\ hand' = [hand EXCEPT ![p] = <<i, k>>]
            /\ art' = IF HasCrops(k) THEN [art EXCEPT ![i] = Fp[p]] ELSE art
            /\ NoFault /\ UNCHANGED fails
       \/ /\ Fault
          /\ fails' = [fails EXCEPT ![p] = TRUE]
          /\ hand' = [hand EXCEPT ![p] = None]
          /\ art' \in {art, [art EXCEPT ![i] = Fp[p]]}
    /\ UNCHANGED <<ledger, txt, shp, todo, got, stray, foreign, pc, exit, kills>>

\* The result file comes last and is replaced atomically.
Save(p) ==
    /\ hand[p] # None /\ hand[p][2] \in Kinds
    /\ LET i == hand[p][1]  k == hand[p][2] IN
       \/ /\ txt' = [txt EXCEPT ![i] = [fp |-> Fp[p], kind |-> k]]
          /\ got' = [got EXCEPT ![p] = @ \cup {hand[p]}]
          /\ fails' = [fails EXCEPT ![p] = @ \/ k = "error"]
          /\ stray' = IF pc[p] = "exited" THEN stray \cup {i} ELSE stray
          /\ NoFault
       \/ /\ Fault
          /\ fails' = [fails EXCEPT ![p] = TRUE]
          /\ UNCHANGED <<txt, got, stray>>
    /\ hand' = [hand EXCEPT ![p] = None]
    /\ UNCHANGED <<ledger, art, shp, todo, foreign, pc, exit, kills>>

\* The processing stage is recorded; failures withhold the publication.
EndDetect(p) ==
    /\ pc[p] = "detect" /\ hand[p] = None /\ todo[p] = {}
    /\ manifest' = [manifest EXCEPT !.open = ~fails[p], !.failed = fails[p]]
    /\ Go(p, IF fails[p] THEN "fail" ELSE "publish")
    /\ UNCHANGED <<history, summary, results, exit, faults, kills>>

\* All results with this fingerprint are exported, also those of other slices.
Collected(p) ==
    {i \in Image : txt[i] # None /\ txt[i].fp = Fp[p] /\ Exported(txt[i].kind)}

Publish(p) ==
    /\ pc[p] = "publish"
    /\ \/ /\ shp' = [by |-> p, images |-> Collected(p)]
          /\ manifest' = [manifest EXCEPT !.open = FALSE]
          /\ Go(p, "commit") /\ NoFault
       \/ Fault /\ StageFails(p) /\ UNCHANGED shp
    /\ UNCHANGED <<history, summary, txt, art, todo, hand, fails, got, stray, foreign,
                   exit, kills>>

-------------------------------------------------------------------------------
(* The verdict. *)

\* The published files are validated and declared, then the job succeeds, unless
\* a stage of it failed or is still open.
Commit(p) ==
    /\ pc[p] = "commit"
    /\ \/ /\ ~manifest.open /\ ~manifest.failed
          /\ manifest' = [manifest EXCEPT !.status = "succeeded"]
          /\ Go(p, "succeeded") /\ NoFault
       \/ Fault /\ StageFails(p)
    /\ UNCHANGED <<history, summary, results, exit, kills>>

\* transition_terminal closes the open stage; its failure is only noted.
Settle(p, step, verdict) ==
    /\ pc[p] = step
    /\ \/ /\ Open
          /\ manifest' = [manifest EXCEPT !.status = verdict, !.open = FALSE]
          /\ NoFault
       \/ /\ ~Open
          /\ NoFault /\ UNCHANGED manifest
       \/ Fault /\ UNCHANGED manifest
    /\ Go(p, "summarize")
    /\ UNCHANGED <<history, summary, results, exit, kills>>

\* write_summary describes whatever manifest it finds; a success ends well when
\* the summary fails but the manifest can be read again and says so.
Summarize(p) ==
    /\ pc[p] \in {"succeeded", "summarize"}
    /\ \/ /\ manifest # None
          /\ summary' = Record(manifest)
          /\ Exit(p, IF pc[p] = "succeeded" THEN "ok" ELSE "error") /\ NoFault
       \/ /\ manifest = None
          /\ Exit(p, "error") /\ NoFault /\ UNCHANGED summary
       \/ /\ manifest # None /\ Fault
          /\ Exit(p, IF pc[p] = "succeeded" /\ Status = "succeeded"
                     THEN "ok" ELSE "error")
          /\ UNCHANGED summary
    /\ UNCHANGED <<manifest, history, results, kills>>

-------------------------------------------------------------------------------
(* What happens to a process. *)

InTry == {"prepare", "begin", "detect", "publish", "commit"}

\* It has claimed a job and not settled it.
Owning(p) == pc[p] \in InTry \cup {"fail", "cancel"}

\* A keyboard interrupt inside the try block; the image in hand and the rest of the
\* chunks are given up.
Interrupt(p) ==
    /\ kills > 0 /\ kills' = kills - 1
    /\ pc[p] \in InTry
    /\ hand' = [hand EXCEPT ![p] = None]
    /\ todo' = [todo EXCEPT ![p] = {}]
    /\ Go(p, "cancel")
    /\ UNCHANGED <<ledger, txt, art, shp, fails, got, stray, foreign, exit, faults>>

\* The process is killed.  In the middle of the publication the bundles are a
\* mixture; a worker of a pool goes on with its chunk, or dies as well.
Kill(p) ==
    /\ kills > 0 /\ kills' = kills - 1
    /\ pc[p] \notin {"start", "exited"}
    /\ shp' \in IF pc[p] = "publish" THEN {shp, [by |-> None, images |-> {}]} ELSE {shp}
    /\ hand' \in {hand, [hand EXCEPT ![p] = None]}
    /\ \E chunk \in SUBSET todo[p] : todo' = [todo EXCEPT ![p] = chunk]
    /\ Exit(p, "killed")
    /\ UNCHANGED <<ledger, txt, art, fails, got, stray, foreign, faults>>

\* An operator removes a manifest that no process will finish.
OperatorClears ==
    /\ Open
    /\ \A p \in Process : ~Owning(p) /\ pc[p] # "claim"
    /\ manifest' = None
    /\ UNCHANGED <<history, summary, results, pc, exit, faults, kills>>

Work(p) ==
    \/ Archive(p) \/ Create(p) \/ Claim(p) \/ Prepare(p) \/ Begin(p) \/ Take(p)
    \/ Extract(p) \/ Save(p) \/ EndDetect(p) \/ Publish(p) \/ Commit(p)
    \/ Settle(p, "fail", "failed") \/ Settle(p, "cancel", "cancelled")
    \/ Summarize(p)

Next ==
    \/ \E p \in Process : Work(p) \/ Interrupt(p) \/ Kill(p)
    \/ OperatorClears

Spec == Init /\ [][Next]_vars
-------------------------------------------------------------------------------
TypeOK ==
    /\ manifest \in [id : {Id[p] : p \in Process}, status : JobStatus,
                      open : BOOLEAN, failed : BOOLEAN] \cup {None}
    /\ \A r \in history : r.status \in TerminalJobStatus
    /\ txt \in [Image -> [fp : {Fp[p] : p \in Process}, kind : Kinds] \cup {None}]
    /\ art \in [Image -> {Fp[p] : p \in Process} \cup {None}]
    /\ \A p \in Process : hand[p] # None => hand[p][1] \in Image
    /\ exit \in [Process -> {None, "ok", "error", "killed"}]
    /\ todo \in [Process -> SUBSET Image] /\ stray \subseteq Image
    /\ faults \in 0..MaxFaults /\ kills \in 0..MaxKills

\* Another process has the same job id.
Repeated(p) == \E q \in Process \ {p} : Id[q] = Id[p]

\* One process at a time works in the directory.  The manifest is its own, unless it
\* took that of another job: the claim does not look at the id.  The first process
\* to do so was started again under the id of a job that was over.
OneOwner ==
    /\ \A p \in Process : Owning(p) =>
        /\ Open /\ (Owner = Id[p] \/ p \in foreign)
        /\ \A q \in Process : Owning(q) => q = p
    /\ foreign # {} => \E p \in foreign : Repeated(p)

\* A succeeded manifest stands beside the bundles of the process that ran its job.
SucceededDescribesRoot ==
    Status = "succeeded" =>
        shp # None /\ shp.by # None /\ (Owner = Id[shp.by] \/ shp.by \in foreign)

\* A job that ends well has said so in the directory or in its history.
ExitHonest ==
    \A p \in Process \ foreign : exit[p] = "ok" =>
        \E r \in history \cup (IF manifest = None THEN {} ELSE {Record(manifest)}) :
            r = [id |-> Id[p], status |-> "succeeded"]

\* Without a failing file or a kill, a job that is over leaves the directory free.
RootReleased ==
    /\ faults = MaxFaults
    /\ \A p \in Process : exit[p] # "killed"
    /\ \A p \in Process : pc[p] \in {"start", "exited"}
    => ~Open

\* What p publishes is complete and clean: it has a result without an error for every
\* image of its slice, and exports those with a sign, unless a worker that outlived
\* another job wrote over the result.
PublishedIsComplete ==
    \A p \in Process : shp # None /\ shp.by = p =>
        /\ {g[1] : g \in got[p]} = Slice[p]
        /\ \A g \in got[p] :
            /\ g[2] # "error"
            /\ Exported(g[2]) => g[1] \in shp.images \cup stray

\* The directory belongs to one job at a time, and the manifest says to which one
\* and how it went (run_pipeline, RunManifestStore).
LedgerSound ==
    /\ OneOwner /\ SucceededDescribesRoot /\ ExitHonest /\ RootReleased
    /\ PublishedIsComplete

\* A verdict is never changed, and leaves the directory only for the history.
VerdictsKept ==
    [][~Open /\ manifest # None
        => manifest' = manifest \/ Record(manifest) \in history']_vars
===============================================================================
