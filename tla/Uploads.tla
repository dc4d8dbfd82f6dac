-------------------------------- MODULE Uploads -------------------------------
(* One folder upload (webapp/uploads.py): chunk requests that append to files *)
(* of a staging tree, the coordinator that lets files be written in parallel  *)
(* while completion waits for them, and the completion that validates the     *)
(* tree, moves it to the data folder and commits the registry row.            *)
(*                                                                            *)
(* A request runs on the server's event loop from one await to the next; the  *)
(* stream, the fsync, the validation and the move are awaited.  Uploads share *)
(* nothing, so one is enough.  Contents are abstracted to lengths: every      *)
(* chunk writes at the offset it declared.                                    *)
EXTENDS Naturals, FiniteSets

CONSTANTS
    File,        \* files of the manifest
    Size,        \* their lengths, in pieces of a request body
    Chunk,       \* chunk requests in flight at a time
    MaxCrashes,  \* bound on crashes of the server
    MaxFaults    \* bound on I/O and registry errors

\* A manifest without files is refused; a server has finitely many requests.
ASSUME UploadAssumption ==
    File # {} /\ Size \in [File -> Nat] /\ IsFiniteSet(Chunk)
ASSUME BoundAssumption == MaxCrashes \in Nat /\ MaxFaults \in Nat

VARIABLES
    \* registry rows of the upload and of its files (durable)
    upload, offset,
    \* staging tree, ".partial" copy, destination tree (durable)
    staging, staged, partial, published, final,
    crossVolume,  \* staging and data folder are on different volumes
    \* chunk requests: program counter, file, start offset, declared and
    \* received pieces
    pc, file, start, want, got,
    \* the coordinator: requests counted in, and the completion under way
    active, fpc,
    crashes, faults

registry == <<upload, offset>>
disk     == <<staging, staged, partial, published, final, crossVolume>>
request  == <<pc, file, start, want, got>>
bounds   == <<crashes, faults>>
vars == <<upload, offset, staging, staged, partial, published, final,
          crossVolume, pc, file, start, want, got, active, fpc, crashes, faults>>

------------------------------------------------------------------------------

Fault == faults < MaxFaults /\ faults' = faults + 1 /\ UNCHANGED crashes

\* coordinator.finalizing
Finalizing == fpc # "idle"

\* The request holds the lock of its file.
Locked(c) == pc[c] \in {"stream", "fsync"}

\* Mutant of FileFree: chunks of one file are not kept apart.
Unlocked(f) == f \in File

FileFree(f) == \A d \in Chunk : Locked(d) => file[d] # f

\* The length of the staged file changes, by a write or by a truncation.
SetLength(f, length) == staged' = [staged EXCEPT ![f] = length]

\* end_chunk, run by the finally clause whatever the outcome.
EndChunk(c) ==
    /\ pc' = [pc EXCEPT ![c] = "idle"]
    /\ active' = active - 1

------------------------------------------------------------------------------
(* PUT /uploads/{id}/files/{file} *)

\* begin_chunk: refused while a completion is under way.
BeginChunk(c, f) ==
    /\ pc[c] = "idle" /\ ~Finalizing
    /\ active' = active + 1
    /\ pc' = [pc EXCEPT ![c] = "wait"] /\ file' = [file EXCEPT ![c] = f]
    /\ UNCHANGED <<registry, disk, start, want, got, fpc, bounds>>

\* What the file on disk and the registry must say for a chunk to be written.
Resumable(f) == upload = "uploading" /\ staging /\ staged[f] = offset[f]

\* Mutant of RejectChunk: the refused request is not counted out.
RejectUncounted(c) ==
    /\ pc[c] = "wait" /\ FileFree(file[c])
    /\ pc' = [pc EXCEPT ![c] = "idle"]
    /\ UNCHANGED <<registry, disk, file, start, want, got, active, fpc, bounds>>

\* The lock is taken and the chunk is refused: its offset is not the saved one,
\* it is too long, the upload is complete or its staging is inconsistent.
RejectChunk(c) ==
    /\ pc[c] = "wait" /\ FileFree(file[c])
    /\ EndChunk(c)
    /\ UNCHANGED <<registry, disk, file, start, want, got, fpc, bounds>>

\* The request is cancelled while it waits for the lock.
CancelWait(c) ==
    /\ pc[c] = "wait"
    /\ EndChunk(c)
    /\ UNCHANGED <<registry, disk, file, start, want, got, fpc, bounds>>

\* Mutant of Remaining: the chunk may be as long as the file.
WholeFile(f) == Size[f]

Remaining(f) == Size[f] - offset[f]

\* The lock is taken, the declared offset is the saved one, and the staged file
\* has exactly that length.
OpenTarget(c) ==
    /\ pc[c] = "wait" /\ FileFree(file[c]) /\ Resumable(file[c])
    /\ \E n \in 0 .. Remaining(file[c]) : want' = [want EXCEPT ![c] = n]
    /\ start' = [start EXCEPT ![c] = offset[file[c]]]
    /\ got' = [got EXCEPT ![c] = 0]
    /\ pc' = [pc EXCEPT ![c] = "stream"]
    /\ UNCHANGED <<registry, disk, file, active, fpc, bounds>>

\* One piece of the body reaches the file.
WritePiece(c) ==
    /\ pc[c] = "stream" /\ got[c] < want[c]
    /\ got' = [got EXCEPT ![c] = @ + 1]
    /\ SetLength(file[c], start[c] + got[c] + 1)
    /\ UNCHANGED <<registry, staging, partial, published, final, crossVolume,
                   pc, file, start, want, active, fpc, bounds>>

EndOfStream(c) ==
    /\ pc[c] = "stream"
    /\ pc' = [pc EXCEPT ![c] = "fsync"]
    /\ UNCHANGED <<registry, disk, file, start, want, got, active, fpc, bounds>>

\* The client disconnects, sends too much, or the fsync fails: the file is cut
\* back to where the chunk started.  A cancelled request still waits for the
\* fsync before it gets here.
AbortChunk(c) ==
    /\ Locked(c)
    /\ SetLength(file[c], start[c])
    /\ EndChunk(c)
    /\ UNCHANGED <<registry, staging, partial, published, final, crossVolume,
                   file, start, want, got, fpc, bounds>>

\* The bytes are on disk; the compare-and-set of the offset acknowledges them.
CommitChunk(c) ==
    /\ pc[c] = "fsync"
    /\ IF offset[file[c]] = start[c]
       THEN offset' = [offset EXCEPT ![file[c]] = start[c] + got[c]] /\ UNCHANGED staged
       ELSE SetLength(file[c], start[c]) /\ UNCHANGED offset
    /\ EndChunk(c)
    /\ UNCHANGED <<upload, staging, partial, published, final, crossVolume,
                   file, start, want, got, fpc, bounds>>

\* The registry raises: the file keeps bytes nobody acknowledged.
CommitFails(c) ==
    /\ pc[c] = "fsync" /\ Fault
    /\ EndChunk(c)
    /\ UNCHANGED <<registry, disk, file, start, want, got, fpc>>

------------------------------------------------------------------------------
(* POST /uploads/{id}/complete, in an owner task of its own: the client's      *)
(* disconnect does not stop it, and the finalize lock admits one at a time.    *)

\* begin_finalizing: from here on no chunk is admitted.
BeginFinalizing ==
    /\ fpc = "idle" /\ upload = "uploading"
    /\ fpc' = "drain"
    /\ UNCHANGED <<registry, disk, request, active, bounds>>

\* Mutant of Incomplete: the staged lengths are trusted.
IncompleteOnDisk == \E f \in File : staged[f] # Size[f]

Incomplete == \E f \in File : offset[f] # Size[f]

\* Mutant of Drained: a destination that exists is always refused.
DrainedOnce ==
    /\ fpc = "drain" /\ active = 0
    /\ fpc' = IF Incomplete \/ published THEN "idle" ELSE "checkStaged"
    /\ UNCHANGED <<registry, disk, request, active, bounds>>

\* The active chunks have drained: read the rows again, and find out how far an
\* earlier completion came.
Drained ==
    /\ fpc = "drain" /\ active = 0
    /\ fpc' = IF Incomplete \/ (published /\ staging) THEN "idle"
              ELSE IF published THEN "checkFinal" ELSE "checkStaged"
    /\ UNCHANGED <<registry, disk, request, active, bounds>>

\* Mutant of AfterValidation: the registry is committed before the move.
CommitAfterValidation ==
    IF fpc = "checkFinal" THEN IF final = Size THEN "commit" ELSE "idle"
    ELSE IF staged = Size THEN "commit" ELSE "idle"

\* _validate_upload_tree decides whether the completion goes on.
AfterValidation ==
    IF fpc = "checkFinal" THEN IF final = Size THEN "commit" ELSE "idle"
    ELSE IF staged = Size THEN "move" ELSE "idle"

Validate ==
    /\ fpc \in {"checkFinal", "checkStaged"}
    /\ fpc' = AfterValidation
    /\ UNCHANGED <<registry, disk, request, active, bounds>>

\* os.replace inside one volume.
Rename ==
    /\ fpc = "move" /\ ~crossVolume
    /\ published' = TRUE /\ final' = staged /\ staging' = FALSE
    /\ fpc' = "commit"
    /\ UNCHANGED <<registry, staged, partial, crossVolume, request, active, bounds>>

\* Mutant of Copy: the tree is copied to its destination directly.
CopyInPlace ==
    /\ fpc = "move" /\ crossVolume
    /\ published' = TRUE /\ final' = [f \in File |-> 0]
    /\ fpc' = "copy"
    /\ UNCHANGED <<registry, staging, staged, partial, crossVolume, request,
                   active, bounds>>

\* os.replace fails with EXDEV: the copy goes beside the destination, and never
\* over a copy that an earlier completion left behind.
Copy ==
    /\ fpc = "move" /\ crossVolume
    /\ partial' = TRUE
    /\ fpc' = IF partial THEN "idle" ELSE "copy"
    /\ UNCHANGED <<registry, staging, staged, published, final, crossVolume,
                   request, active, bounds>>

\* The finished copy takes the destination's name.
Swap ==
    /\ fpc = "copy"
    /\ published' = TRUE /\ final' = staged /\ partial' = FALSE
    /\ fpc' = "erase"
    /\ UNCHANGED <<registry, staging, staged, crossVolume, request, active, bounds>>

CopyFails ==
    /\ fpc = "copy" /\ Fault
    /\ partial' = FALSE /\ fpc' = "idle"
    /\ UNCHANGED <<registry, staging, staged, published, final, crossVolume,
                   request, active>>

\* The staging tree is removed after the copy.
Erase ==
    /\ fpc = "erase"
    /\ staging' = FALSE /\ fpc' = "commit"
    /\ UNCHANGED <<registry, staged, partial, published, final, crossVolume,
                   request, active, bounds>>

CompleteUpload ==
    /\ fpc = "commit"
    /\ upload' = "complete" /\ fpc' = "idle"
    /\ UNCHANGED <<offset, disk, request, active, bounds>>

\* An error of the file system or of the registry at any other point: the
\* finally clause admits chunks again and the tree stays where it is.
CompletionFails ==
    /\ fpc \in {"checkFinal", "checkStaged", "move", "erase", "commit"} /\ Fault
    /\ fpc' = "idle"
    /\ UNCHANGED <<registry, disk, request, active>>

\* The server dies and is started again: requests and coordinator are gone.
Crash ==
    /\ crashes < MaxCrashes /\ crashes' = crashes + 1
    /\ pc' = [c \in Chunk |-> "idle"] /\ active' = 0 /\ fpc' = "idle"
    /\ UNCHANGED <<registry, disk, file, start, want, got, faults>>

------------------------------------------------------------------------------

Init ==
    /\ upload = "uploading" /\ offset = [f \in File |-> 0]
    /\ staging = TRUE /\ staged = [f \in File |-> 0]
    /\ partial = FALSE
    /\ published = FALSE /\ final = [f \in File |-> 0]
    /\ crossVolume \in BOOLEAN
    /\ pc = [c \in Chunk |-> "idle"] /\ file = [c \in Chunk |-> CHOOSE f \in File : TRUE]
    /\ start = [c \in Chunk |-> 0] /\ want = [c \in Chunk |-> 0]
    /\ got = [c \in Chunk |-> 0]
    /\ active = 0 /\ fpc = "idle"
    /\ crashes = 0 /\ faults = 0

ChunkStep(c) ==
    \/ \E f \in File : BeginChunk(c, f)
    \/ RejectChunk(c) \/ CancelWait(c) \/ OpenTarget(c) \/ WritePiece(c)
    \/ EndOfStream(c) \/ AbortChunk(c) \/ CommitChunk(c) \/ CommitFails(c)

Completion ==
    \/ Drained \/ Validate \/ Rename \/ Copy \/ Swap \/ CopyFails \/ Erase
    \/ CompleteUpload \/ CompletionFails

Next == (\E c \in Chunk : ChunkStep(c)) \/ BeginFinalizing \/ Completion \/ Crash

Spec == Init /\ [][Next]_vars

\* The event loop runs what is ready: an admitted request gets its lock, a
\* synced chunk is committed, a completion proceeds.  No client is relied upon.
Fairness ==
    /\ \A c \in Chunk :
          WF_vars(RejectChunk(c) \/ OpenTarget(c)) /\ WF_vars(CommitChunk(c))
    /\ WF_vars(Completion)

FairSpec == Spec /\ Fairness

------------------------------------------------------------------------------
(* Properties *)

\* Lengths of the files, none longer than the manifest says.
Length == {length \in [File -> Nat] : \A f \in File : length[f] <= Size[f]}

TypeOK ==
    /\ upload \in {"uploading", "complete"}
    /\ offset \in Length /\ staged \in Length /\ final \in Length
    /\ staging \in BOOLEAN /\ partial \in BOOLEAN
    /\ published \in BOOLEAN /\ crossVolume \in BOOLEAN
    /\ pc \in [Chunk -> {"idle", "wait", "stream", "fsync"}]
    /\ file \in [Chunk -> File]
    /\ {start, want, got} \subseteq [Chunk -> Nat]
    /\ active = Cardinality({c \in Chunk : pc[c] # "idle"})
    /\ fpc \in {"idle", "drain", "checkFinal", "checkStaged", "move", "copy",
                "erase", "commit"}
    /\ crashes \in Nat /\ faults \in Nat

\* Every acknowledged byte is in the staging tree or in the published one,
\* whatever was interrupted.
AckedBytesKept ==
    \A f \in File : \/ (staging /\ offset[f] <= staged[f])
                     \/ (published /\ offset[f] <= final[f])

\* The data folder never shows an upload that is not whole.
PublishedIsWhole == published => final = Size

\* An upload the registry calls complete has been published, and nothing of it
\* is left in staging.
CompleteIsPublished == upload = "complete" => published /\ ~staging /\ ~partial

\* An upload is published whole or not at all, and what was acknowledged is kept
\* until then (upload_chunk, _complete_upload_owned).
UploadSound == AckedBytesKept /\ PublishedIsWhole /\ CompleteIsPublished

\* A request that holds a lock extends its file from the saved offset, alone.
LockInv ==
    \A c \in Chunk : Locked(c) =>
        /\ upload = "uploading" /\ staging
        /\ start[c] = offset[file[c]]
        /\ staged[file[c]] = start[c] + got[c]
        /\ got[c] <= want[c] /\ start[c] + want[c] <= Size[file[c]]
        /\ \A d \in Chunk : Locked(d) /\ d # c => file[d] # file[c]

\* Past the drain no request is admitted and every byte is acknowledged.
DrainInv ==
    /\ Finalizing => upload = "uploading"
    /\ fpc \notin {"idle", "drain"} =>
          offset = Size /\ \A c \in Chunk : pc[c] = "idle"

\* Where the tree is at each point of a completion.
MoveInv ==
    /\ fpc \in {"checkStaged", "move", "copy"} => staging /\ ~published
    /\ fpc \in {"move", "copy"} => staged = Size
    /\ fpc = "copy" => partial
    /\ fpc = "erase" => published /\ staging
    /\ fpc \in {"checkFinal", "commit"} => published /\ ~staging

\* Where the tree can be at all, and how much of it.
TreeInv ==
    /\ staging \/ published
    /\ staging => \A f \in File : offset[f] <= staged[f]
    /\ published => final = Size /\ offset = Size /\ ~partial
    /\ partial => crossVolume
    /\ upload = "complete" => published /\ ~staging

\* The inductive invariant: acknowledged bytes are safe because a chunk holds
\* its file alone and extends it from the saved offset, and because a completion
\* moves the tree only when no chunk is left and the registry has every byte.
IndInv == TypeOK /\ LockInv /\ DrainInv /\ MoveInv /\ TreeInv

AU == INSTANCE AtomicUpload WITH acked <- offset, visible <- published

\* Chunks, completions, retries, errors and crashes together behave like the
\* atomic upload.
ImplementsAtomicUpload == AU!Spec

\* Request bodies end: the client finishes, gives up or is disconnected.
StreamsEnd == \A c \in Chunk : []<>(pc[c] # "stream")

\* A completion never waits for ever for the chunks it let finish, so that the
\* upload is open again or complete afterwards.
FinalizationEnds == StreamsEnd => (Finalizing ~> ~Finalizing)

\* What a crash or an error in the middle of a move between volumes can leave
\* behind, and no later completion passes.
MoveInterrupted == crossVolume /\ (partial \/ (published /\ staging))

\* The client keeps asking for the completion until it is granted.
KeepsAsking == []<>(Finalizing \/ upload = "complete")

\* An upload whose last byte is acknowledged becomes complete, across crashes
\* and errors, unless a move between volumes was interrupted.
UploadCompletes ==
    StreamsEnd /\ KeepsAsking =>
        ((\A f \in File : offset[f] = Size[f])
            ~> (upload = "complete" \/ MoveInterrupted))

------------------------------------------------------------------------------
(* Statement of the repository's documents that the code does not keep *)

\* README.md, docs/WEB_UI_ARCHITECTURE.md: an upload can be resumed, the server
\* continues a file at the offset it reports.
ResumableAtOffset ==
    upload = "uploading" /\ staging =>
        \A f \in File : FileFree(f) => staged[f] = offset[f]
==============================================================================
