----------------------------- MODULE UploadsProofs ----------------------------
(* The safety of Uploads for every manifest, every set of requests and every   *)
(* bound on crashes and faults, and that it implements AtomicUpload.           *)
EXTENDS Uploads, FiniteSetTheorems, TLAPS

USE UploadAssumption, BoundAssumption
    DEF registry, disk, request, bounds

------------------------------------------------------------------------------
(* Counting the requests                                                      *)

Busy == {c \in Chunk : pc[c] # "idle"}

\* There are finitely many busy requests, and none when the count is zero.
LEMMA BusyIsFinite == ASSUME TypeOK
                      PROVE  /\ IsFiniteSet(Busy) /\ Cardinality(Busy) \in Nat
                             /\ active = 0 => \A c \in Chunk : pc[c] = "idle"
<1>1. IsFiniteSet(Busy)
  BY FS_Subset DEF Busy
<1>2. Cardinality(Busy) \in Nat /\ (Cardinality(Busy) = 0 <=> Busy = {})
  BY <1>1, FS_CardinalityType, FS_EmptySet
<1> QED
  BY <1>1, <1>2 DEF TypeOK, Busy

\* begin_chunk counts the request in.
LEMMA BeginCounts == ASSUME TypeOK, NEW c \in Chunk, NEW f \in File, BeginChunk(c, f)
                     PROVE  active' = Cardinality(Busy')
<1>1. c \notin Busy /\ Busy' = Busy \cup {c}
  BY DEF BeginChunk, TypeOK, Busy
<1>2. Cardinality(Busy') = Cardinality(Busy) + 1
  BY <1>1, BusyIsFinite, FS_AddElement
<1> QED
  BY <1>2 DEF BeginChunk, TypeOK, Busy

\* end_chunk counts it out.
LEMMA EndCounts == ASSUME TypeOK, NEW c \in Chunk, pc[c] # "idle", EndChunk(c)
                   PROVE  active' = Cardinality(Busy')
<1>1. c \in Busy /\ Busy' = Busy \ {c}
  BY DEF EndChunk, TypeOK, Busy
<1>2. Cardinality(Busy') = Cardinality(Busy) - 1
  BY <1>1, BusyIsFinite, FS_RemoveElement
<1> QED
  BY <1>2 DEF EndChunk, TypeOK, Busy

------------------------------------------------------------------------------
(* The invariant holds initially, and every action keeps it.                  *)

\* A new upload satisfies the invariant.
LEMMA InitInv == Init => IndInv
<1> SUFFICES ASSUME Init PROVE IndInv
  OBVIOUS
<1>1. Busy = {} /\ active = Cardinality(Busy)
  BY FS_EmptySet DEF Init, Busy
<1>2. [f \in File |-> 0] \in Length
  BY DEF Length
<1>3. file \in [Chunk -> File]
  BY DEF Init
<1>4. offset \in Length /\ staged \in Length /\ final \in Length
  BY <1>2 DEF Init
<1>5. /\ pc \in [Chunk -> {"idle", "wait", "stream", "fsync"}]
      /\ {start, want, got} \subseteq [Chunk -> Nat]
  BY DEF Init
<1>6. TypeOK
  BY <1>1, <1>3, <1>4, <1>5 DEF Init, TypeOK, Busy
<1> QED
  BY <1>6 DEF Init, IndInv, LockInv, DrainInv, MoveInv, TreeInv, Locked,
        Finalizing

\* A chunk request leaves the types as they are.
LEMMA ChunkKeepsTypes == ASSUME IndInv, NEW c \in Chunk, ChunkStep(c)
                         PROVE  TypeOK'
<1> USE DEF IndInv, TypeOK, Length
<1>1. ASSUME NEW f \in File, BeginChunk(c, f) PROVE TypeOK'
  BY <1>1, BeginCounts DEF BeginChunk, Busy
<1>2. CASE RejectChunk(c)
  BY <1>2, EndCounts DEF RejectChunk, EndChunk, Busy
<1>3. CASE CancelWait(c)
  BY <1>3, EndCounts DEF CancelWait, EndChunk, Busy
<1>4. CASE OpenTarget(c)
  <2>1. {c_1 \in Chunk : pc'[c_1] # "idle"} = Busy
    BY <1>4 DEF OpenTarget, Busy
  <2>2. want' \in [Chunk -> Nat]
    BY <1>4 DEF OpenTarget, Remaining
  <2>3. start' \in [Chunk -> Nat] /\ got' \in [Chunk -> Nat]
    BY <1>4 DEF OpenTarget
  <2> QED
    BY <1>4, <2>1, <2>2, <2>3 DEF OpenTarget, Busy
<1>5. CASE WritePiece(c)
  <2>1. start[c] + got[c] + 1 \in 0 .. Size[file[c]]
    BY <1>5 DEF WritePiece, LockInv, Locked
  <2> QED
    BY <1>5, <2>1 DEF WritePiece, SetLength
<1>6. CASE EndOfStream(c)
  <2>1. {c_1 \in Chunk : pc'[c_1] # "idle"} = Busy
    BY <1>6 DEF EndOfStream, Busy
  <2> QED
    BY <1>6, <2>1 DEF EndOfStream, Busy
<1>7. CASE AbortChunk(c)
  <2>1. start[c] \in 0 .. Size[file[c]]
    BY <1>7 DEF AbortChunk, LockInv, Locked
  <2>2. active' = Cardinality(Busy')
    BY <1>7, EndCounts DEF AbortChunk, Locked
  <2>3. staged' = [staged EXCEPT ![file[c]] = start[c]]
    BY <1>7 DEF AbortChunk, SetLength
  <2> QED
    BY <1>7, <2>1, <2>2, <2>3 DEF AbortChunk, EndChunk, SetLength, Busy
<1>8. CASE CommitChunk(c)
  <2>1. {start[c], start[c] + got[c]} \subseteq 0 .. Size[file[c]]
    BY <1>8 DEF CommitChunk, LockInv, Locked
  <2>2. active' = Cardinality(Busy')
    BY <1>8, EndCounts DEF CommitChunk
  <2>3. /\ \/ staged' = staged
           \/ staged' = [staged EXCEPT ![file[c]] = start[c]]
        /\ \/ offset' = offset
           \/ offset' = [offset EXCEPT ![file[c]] = start[c] + got[c]]
    BY <1>8 DEF CommitChunk, SetLength
  <2>4. offset' \in Length /\ staged' \in Length
    BY <2>1, <2>3
  <2> QED
    BY <1>8, <2>2, <2>4 DEF CommitChunk, EndChunk, Busy
<1>9. CASE CommitFails(c)
  <2>1. active' = Cardinality(Busy')
    BY <1>9, EndCounts DEF CommitFails
  <2>2. faults' \in Nat /\ crashes' \in Nat
    BY <1>9 DEF CommitFails, Fault
  <2> QED
    BY <1>9, <2>1, <2>2 DEF CommitFails, EndChunk, Busy
<1> QED
  BY <1>1, <1>2, <1>3, <1>4, <1>5, <1>6, <1>7, <1>8, <1>9 DEF ChunkStep

\* A chunk request keeps its hold on the file, and acknowledges only what it
\* holds.
LEMMA ChunkKeepsInv == ASSUME IndInv, NEW c \in Chunk, ChunkStep(c)
                       PROVE  IndInv'
<1> USE DEF IndInv, TypeOK, Length, LockInv, DrainInv, MoveInv, TreeInv, Locked,
        Finalizing
<1>0. TypeOK' BY ChunkKeepsTypes
<1>1. ASSUME NEW f \in File, BeginChunk(c, f) PROVE IndInv'
  BY <1>0, <1>1 DEF BeginChunk
<1>2. CASE RejectChunk(c)
  BY <1>0, <1>2 DEF RejectChunk, EndChunk
<1>3. CASE CancelWait(c)
  BY <1>0, <1>3 DEF CancelWait, EndChunk
<1>4. CASE OpenTarget(c)
  BY <1>0, <1>4 DEF OpenTarget, Resumable, FileFree, Remaining
<1>5. CASE WritePiece(c)
  BY <1>0, <1>5 DEF WritePiece, SetLength
<1>6. CASE EndOfStream(c)
  BY <1>0, <1>6 DEF EndOfStream
<1>7. CASE AbortChunk(c)
  BY <1>0, <1>7 DEF AbortChunk, EndChunk, SetLength
<1>8. CASE CommitChunk(c)
  BY <1>0, <1>8 DEF CommitChunk, EndChunk, SetLength
<1>9. CASE CommitFails(c)
  BY <1>0, <1>9 DEF CommitFails, EndChunk, Fault
<1> QED
  BY <1>1, <1>2, <1>3, <1>4, <1>5, <1>6, <1>7, <1>8, <1>9 DEF ChunkStep

\* A completion moves the tree only past the drain, with every byte acknowledged.
LEMMA CompletionKeepsInv == ASSUME IndInv, BeginFinalizing \/ Completion
                            PROVE  IndInv'
<1> USE DEF IndInv, TypeOK, Length, LockInv, DrainInv, MoveInv, TreeInv, Locked,
        Finalizing
<1>1. CASE BeginFinalizing
  BY <1>1 DEF BeginFinalizing
<1>2. CASE Drained
  <2>1. \A c \in Chunk : pc[c] = "idle"
    BY <1>2, BusyIsFinite DEF Drained
  <2>2. ~Incomplete => offset = Size
    BY DEF Incomplete
  <2>3. fpc' \in {"idle", "checkFinal", "checkStaged"}
    BY <1>2 DEF Drained
  <2>4. fpc' # "idle" => offset = Size
    BY <1>2, <2>2 DEF Drained
  <2>5. TypeOK'
    BY <1>2, <2>3 DEF Drained
  <2> QED BY <1>2, <2>1, <2>3, <2>4, <2>5 DEF Drained
<1>3. CASE Validate
  BY <1>3 DEF Validate, AfterValidation
<1>4. CASE Rename
  <2>1. final' = Size /\ offset' = Size
    BY <1>4 DEF Rename
  <2>2. final' \in Length
    BY <2>1
  <2>3. TypeOK'
    BY <1>4, <2>2 DEF Rename
  <2> QED BY <1>4, <2>1, <2>3 DEF Rename
<1>5. CASE Copy
  BY <1>5 DEF Copy
<1>6. CASE Swap
  <2>1. final' = Size /\ offset' = Size
    BY <1>6 DEF Swap
  <2>2. final' \in Length
    BY <2>1
  <2>3. TypeOK'
    BY <1>6, <2>2 DEF Swap
  <2> QED BY <1>6, <2>1, <2>3 DEF Swap
<1>7. CASE CopyFails
  <2>1. faults' \in Nat /\ crashes' \in Nat
    BY <1>7 DEF CopyFails, Fault
  <2>2. TypeOK'
    BY <1>7, <2>1 DEF CopyFails
  <2> QED BY <1>7, <2>2 DEF CopyFails
<1>8. CASE Erase
  BY <1>8 DEF Erase
<1>9. CASE CompleteUpload
  BY <1>9 DEF CompleteUpload
<1>10. CASE CompletionFails
  BY <1>10 DEF CompletionFails, Fault
<1> QED
  BY <1>1, <1>2, <1>3, <1>4, <1>5, <1>6, <1>7, <1>8, <1>9, <1>10 DEF Completion

\* A crash leaves the disk and the registry as they are, and nobody who counts.
LEMMA CrashKeepsInv == ASSUME IndInv, Crash PROVE IndInv'
<1>1. Busy' = {}
  BY DEF Crash, Busy
<1>2. active' = Cardinality(Busy')
  BY <1>1, FS_EmptySet DEF Crash
<1> QED
  BY <1>2 DEF Crash, IndInv, TypeOK, LockInv, DrainInv, MoveInv, TreeInv,
     Locked, Finalizing, Busy

\* Every reachable state of an upload satisfies the inductive invariant.
THEOREM UploadInvariance == Spec => []IndInv
<1>1. IndInv /\ UNCHANGED vars => IndInv'
  BY DEF vars, IndInv, TypeOK, LockInv, DrainInv, MoveInv, TreeInv, Locked,
        Finalizing
<1>2. IndInv /\ [Next]_vars => IndInv'
  BY <1>1, ChunkKeepsInv, CompletionKeepsInv, CrashKeepsInv DEF Next
<1> QED
  BY InitInv, <1>2, PTL DEF Spec

------------------------------------------------------------------------------
(* What the invariant implies.                                                *)

\* The variables of an upload keep their types, the coordinator counts exactly
\* the requests in flight, and no file outgrows the manifest.
THEOREM UploadTypes == Spec => []TypeOK
<1>1. IndInv => TypeOK BY DEF IndInv
<1> QED BY <1>1, UploadInvariance, PTL

\* No interruption of chunks, completions or of the server loses an
\* acknowledged byte.
THEOREM AckedBytesSurvive == Spec => []AckedBytesKept
<1>1. IndInv => AckedBytesKept
  BY DEF IndInv, TypeOK, Length, TreeInv, AckedBytesKept
<1> QED BY <1>1, UploadInvariance, PTL

\* The data folder never shows a part of an upload.
THEOREM PublicationWhole == Spec => []PublishedIsWhole
<1>1. IndInv => PublishedIsWhole BY DEF IndInv, TreeInv, PublishedIsWhole
<1> QED BY <1>1, UploadInvariance, PTL

\* The registry calls an upload complete only when it has been published and
\* nothing of it is left in staging.
THEOREM CompletionPublished == Spec => []CompleteIsPublished
<1>1. IndInv => CompleteIsPublished BY DEF IndInv, TreeInv, CompleteIsPublished
<1> QED BY <1>1, UploadInvariance, PTL

\* An upload is published whole or not at all, and keeps what was acknowledged.
THEOREM UploadSafety == Spec => []UploadSound
<1>1. AckedBytesKept /\ PublishedIsWhole /\ CompleteIsPublished => UploadSound
  BY DEF UploadSound
<1> QED
  BY <1>1, AckedBytesSurvive, PublicationWhole, CompletionPublished, PTL

------------------------------------------------------------------------------
(* Uploads implements AtomicUpload: the commit of a chunk acknowledges, the    *)
(* rename of the tree publishes, every other step is a stutter.                *)

\* A chunk request acknowledges bytes of its own file, and only before the
\* folder is published.
LEMMA ChunkRefines == ASSUME IndInv, NEW c \in Chunk, ChunkStep(c)
                      PROVE  [AU!Next]_AU!vars
<1> USE DEF AU!vars
<1>1. CASE CommitChunk(c) /\ offset' # offset
  <2>1. /\ offset' = [offset EXCEPT ![file[c]] = @ + got[c]]
        /\ file[c] \in File /\ published' = published
    BY <1>1 DEF CommitChunk, IndInv, TypeOK, Length, LockInv, Locked
  <2>2. got[c] # 0 /\ got[c] \in Nat
    BY <1>1, <2>1 DEF IndInv, TypeOK, Length
  <2>3. got[c] \in 1 .. (Size[file[c]] - offset[file[c]])
    BY <1>1, <2>1, <2>2 DEF CommitChunk, IndInv, TypeOK, Length, LockInv, Locked
  <2>4. ~published
    BY <2>1, <2>3 DEF IndInv, TypeOK, TreeInv
  <2>5. AU!Acknowledge(file[c])
    BY <2>1, <2>3, <2>4 DEF AU!Acknowledge
  <2> QED BY <2>1, <2>5 DEF AU!Next
<1>2. CASE CommitChunk(c) /\ offset' = offset
  BY <1>2 DEF CommitChunk
<1>3. CASE ~CommitChunk(c)
  BY <1>3 DEF ChunkStep, BeginChunk, RejectChunk, CancelWait, OpenTarget,
     WritePiece, EndOfStream, AbortChunk, CommitFails
<1> QED BY <1>1, <1>2, <1>3

\* A completion publishes when it renames the tree or the finished copy.
LEMMA CompletionRefines == ASSUME IndInv, BeginFinalizing \/ Completion
                           PROVE  [AU!Next]_AU!vars
<1> USE DEF AU!vars
<1>1. CASE Rename \/ Swap
  <2>1. ~published /\ offset = Size
    BY <1>1 DEF Rename, Swap, IndInv, MoveInv, DrainInv
  <2>2. AU!Publish
    BY <1>1, <2>1 DEF Rename, Swap, AU!Publish
  <2> QED BY <2>2 DEF AU!Next
<1>2. CASE ~(Rename \/ Swap)
  BY <1>2 DEF BeginFinalizing, Completion, Drained, Validate, Copy, CopyFails,
     Erase, CompleteUpload, CompletionFails
<1> QED BY <1>1, <1>2

\* Chunks, completions, retries, errors and crashes together implement the
\* atomic upload.
THEOREM AtomicRefinement == Spec => ImplementsAtomicUpload
<1>1. Init => AU!Init
  BY DEF Init, AU!Init
<1>2. IndInv /\ [Next]_vars => [AU!Next]_AU!vars
  <2>1. CASE UNCHANGED vars
    BY <2>1 DEF vars, AU!vars
  <2>2. CASE Crash
    BY <2>2 DEF Crash, AU!vars
  <2> QED
    BY <2>1, <2>2, ChunkRefines, CompletionRefines DEF Next
<1> QED
  BY <1>1, <1>2, UploadInvariance, PTL DEF Spec, ImplementsAtomicUpload, AU!Spec
==============================================================================
