----------------------------- MODULE ResultProofs -----------------------------
(* Theorems about the results of runs.  First what the ledger of the output directory
   guarantees for any number of processes, jobs, images, faults and kills: the inductive
   invariant of OutputRoot and the theorems that follow from it.  Its parts: the types;
   who owns the directory; which verdicts are on record; who is still to give one; what
   the workers of a job have done; and what the published bundles hold.  Then what is
   shown of the result files: the boxes of a frame are those of the models that found
   them.  Last, what is made of them: no frame or detection that is due a review is lost
   between the result files and the pages of tasks. *)
EXTENDS OutputRoot, FrameBoxes, TaskSources, FiniteSetTheorems, NaturalsInduction,
        WellFoundedInduction, TLAPS

Steps == {"start", "create", "claim", "prepare", "begin", "detect", "publish", "commit",
          "succeeded", "fail", "cancel", "summarize", "exited"}
Manifests == [id : {Id[p] : p \in Process}, status : JobStatus, open : BOOLEAN, failed : BOOLEAN]
Bundles == [by : Process \cup {None}, images : SUBSET Image]
Held == Image \X (Kinds \cup {"extract"})

Types ==
    /\ TypeOK
    /\ pc \in [Process -> Steps]
    /\ shp \in Bundles \cup {None}
    /\ hand \in [Process -> Held \cup {None}]
    /\ fails \in [Process -> BOOLEAN]
    /\ got \in [Process -> SUBSET (Image \X Kinds)]
    /\ foreign \subseteq Process

\* A claimed manifest is validating or running.  As long as no manifest went to a process
\* of another job, one with an id of its own finds what it created.
OwnerInv ==
    /\ OneOwner
    /\ \A p \in Process : Owning(p) => Status \in {"validating", "running"}
    /\ foreign = {} => \A p \in Process :
         pc[p] = "claim" /\ ~Repeated(p) => Owner = Id[p] /\ Status = "pending"

\* The directory or its history says that p's job succeeded.
OnRecord(p) ==
    \E r \in history \cup (IF manifest = None THEN {} ELSE {Record(manifest)}) :
        r = [id |-> Id[p], status |-> "succeeded"]

VerdictInv ==
    \A p \in Process \ foreign : exit[p] = "ok" \/ pc[p] = "succeeded" => OnRecord(p)

\* Without a failing file or a kill, whoever has to settle an open manifest is there.
IdleInv ==
    /\ \A p \in Process : exit[p] = "killed" => pc[p] = "exited"
    /\ faults = MaxFaults /\ (\A p \in Process : exit[p] # "killed") =>
         /\ Status = "pending" => \E p \in Process : pc[p] = "claim"
         /\ Open /\ Status # "pending" => \E p \in Process : Owning(p)

Early == {"start", "create", "claim", "prepare", "begin"}
Images(p) == {g[1] : g \in got[p]}
InHand(p) == IF hand[p] = None THEN {} ELSE {hand[p][1]}

\* What p has to do is to be taken, in a worker's hand or done, each in one place; an
\* image is lost only with a failure; what is done is in its file, unless a worker
\* that outlived another job wrote over it.
Progress(p) ==
    /\ todo[p] \cap Images(p) = {}
    /\ InHand(p) \cap (todo[p] \cup Images(p)) = {}
    /\ ~fails[p] => todo[p] \cup InHand(p) \cup Images(p) = Slice[p]
    /\ ~fails[p] => \A g \in got[p] : g[2] # "error"
    /\ \A g \in got[p] : txt[g[1]] = [fp |-> Fp[p], kind |-> g[2]] \/ g[1] \in stray

Worked(p) ==
    /\ hand[p] # None => pc[p] \in {"detect", "exited"}
    /\ pc[p] \in Early => got[p] = {} /\ ~fails[p]
    /\ pc[p] \in {"detect", "publish"} => Progress(p)
    /\ pc[p] = "publish" => ~fails[p] /\ todo[p] = {}
    /\ pc[p] \in Early \cup {"detect", "publish"} => (shp # None => shp.by # p)

WorkInv == \A p \in Process : Worked(p)

PublishedInv ==
    /\ PublishedIsComplete
    /\ SucceededDescribesRoot
    /\ \A p \in Process : pc[p] = "commit" => shp # None /\ shp.by = p
    /\ \A p \in Process : shp # None /\ shp.by = p => hand[p] = None /\ todo[p] = {}

IndInv == Types /\ OwnerInv /\ VerdictInv /\ IdleInv /\ WorkInv /\ PublishedInv
-------------------------------------------------------------------------------
(* Types. *)

LEMMA RecordsAreThings ==
    /\ None \notin Process /\ None \notin Manifests /\ None \notin Bundles
    /\ None \notin Held
  BY NoneIsNothing DEF Manifests, Bundles, Held

LEMMA InitTypes == Init => Types
<1> SUFFICES ASSUME Init PROVE Types
  OBVIOUS
<1>1. faults \in 0..MaxFaults /\ kills \in 0..MaxKills
  BY RootBounds DEF Init
<1>2. TypeOK
  BY <1>1 DEF Init, TypeOK
<1> QED
  BY <1>2 DEF Init, Types, Steps

\* A step spends a fault, or does not.
LEMMA FaultsKept ==
    ASSUME Types, Fault \/ NoFault
    PROVE faults' \in 0..MaxFaults /\ (faults' = MaxFaults => faults = MaxFaults /\ ~Fault)
<1>1. MaxFaults \in Nat /\ faults \in 0..MaxFaults
  BY RootBounds DEF Types, TypeOK
<1> QED
  BY <1>1 DEF Fault, NoFault

LEMMA KillsKept ==
    ASSUME Types, kills > 0, kills' = kills - 1
    PROVE kills' \in 0..MaxKills
<1>1. MaxKills \in Nat /\ kills \in 0..MaxKills
  BY RootBounds DEF Types, TypeOK
<1> QED
  BY <1>1

\* The ledger's part of the types.
LedgerTypes ==
    /\ manifest \in Manifests \cup {None}
    /\ \A r \in history : r.status \in TerminalJobStatus
    /\ pc \in [Process -> Steps]
    /\ exit \in [Process -> {None, "ok", "error", "killed"}]
    /\ foreign \subseteq Process

\* The results' part.
ResultTypes ==
    /\ txt \in [Image -> [fp : {Fp[p] : p \in Process}, kind : Kinds] \cup {None}]
    /\ art \in [Image -> {Fp[p] : p \in Process} \cup {None}]
    /\ todo \in [Process -> SUBSET Image] /\ stray \subseteq Image
    /\ shp \in Bundles \cup {None}
    /\ hand \in [Process -> Held \cup {None}]
    /\ fails \in [Process -> BOOLEAN]
    /\ got \in [Process -> SUBSET (Image \X Kinds)]

LEMMA TypesParts ==
    Types <=> /\ LedgerTypes /\ ResultTypes
              /\ faults \in 0..MaxFaults /\ kills \in 0..MaxKills
<1>1. (hand \in [Process -> Held \cup {None}]) => \A p \in Process : hand[p] # None => hand[p][1] \in Image
  BY DEF Held
<1> QED
  BY <1>1 DEF Types, TypeOK, LedgerTypes, ResultTypes, Manifests

LEMMA LedgerTypesKept ==
    ASSUME LedgerTypes, ResultTypes, \A p \in Process : Owning(p) => manifest # None, [Next]_vars
    PROVE LedgerTypes'
<1> DEFINE T == LedgerTypes
<1>a. ASSUME NEW p \in Process, Owning(p) \/ Status \in JobStatus PROVE manifest \in Manifests
  BY <1>a DEF LedgerTypes, Status, JobStatus
<1>b. ASSUME NEW m \in Manifests
      PROVE \A s \in JobStatus, o, f \in BOOLEAN :
              /\ [m EXCEPT !.status = s] \in Manifests
              /\ [m EXCEPT !.status = s, !.open = o] \in Manifests
              /\ [m EXCEPT !.open = o, !.failed = f] \in Manifests
              /\ [m EXCEPT !.open = o] \in Manifests /\ [m EXCEPT !.failed = f] \in Manifests
  BY DEF Manifests
<1>1. ASSUME NEW p \in Process, Archive(p) PROVE T'
  <2>1. manifest # None /\ Status \in TerminalJobStatus => Record(manifest).status \in TerminalJobStatus
    BY DEF Record, Status
  <2>2. Status \in TerminalJobStatus => manifest # None
    BY DEF Status, TerminalJobStatus
  <2>3. /\ manifest' \in {manifest, None} /\ UNCHANGED foreign
        /\ history' = history \/ (Status \in TerminalJobStatus /\ history' = history \cup {Record(manifest)})
        /\ \/ Go(p, "create") /\ UNCHANGED exit
           \/ Exit(p, "error")
    BY <1>1 DEF Archive, ledger, results
  <2> QED
    BY <2>1, <2>2, <2>3 DEF LedgerTypes, Go, Exit, Steps
<1>2. ASSUME NEW p \in Process, Create(p) PROVE T'
  <2>1. [id |-> Id[p], status |-> "pending", open |-> FALSE, failed |-> FALSE] \in Manifests
    BY DEF Manifests, JobStatus
  <2> QED
    BY <1>2, <2>1 DEF LedgerTypes, Create, Go, Exit, Steps, results
<1>3. ASSUME NEW p \in Process, Claim(p) PROVE T'
  BY <1>3 DEF LedgerTypes, Claim, Go, Exit, Steps, Manifests, JobStatus, Status
<1>4. ASSUME NEW p \in Process, Prepare(p) PROVE T'
  <2>1. manifest \in Manifests
    BY <1>4, <1>a DEF Prepare, StageFails, Owning, InTry
  <2> QED
    BY <1>4, <1>b, <2>1 DEF LedgerTypes, Prepare, StageFails, Go, Steps, JobStatus, results
<1>5. ASSUME NEW p \in Process, Begin(p) PROVE T'
  <2>1. manifest \in Manifests
    BY <1>5, <1>a DEF Begin, Owning, InTry
  <2> QED
    BY <1>5, <1>b, <2>1 DEF LedgerTypes, Begin, Go, Steps, JobStatus
<1>6. ASSUME NEW p \in Process, Take(p) \/ Extract(p) \/ Save(p) PROVE T'
  BY <1>6 DEF LedgerTypes, Take, Extract, Save, ledger
<1>7. ASSUME NEW p \in Process, EndDetect(p) PROVE T'
  <2>1. manifest \in Manifests
    BY <1>7, <1>a DEF EndDetect, Owning, InTry
  <2> DEFINE f == fails[p]  o == ~fails[p]
  <2>2. f \in BOOLEAN
    BY DEF ResultTypes
  <2>3. o \in BOOLEAN
    OBVIOUS
  <2>5. manifest' = [manifest EXCEPT !.open = o, !.failed = f]
    BY <1>7 DEF EndDetect
  <2> HIDE DEF f, o
  <2>4. manifest' \in Manifests
    BY <2>1, <2>2, <2>3, <2>5 DEF Manifests
  <2> QED
    BY <1>7, <2>4 DEF LedgerTypes, EndDetect, Go, Steps, JobStatus, results
<1>8. ASSUME NEW p \in Process, Publish(p) PROVE T'
  <2>1. manifest \in Manifests
    BY <1>8, <1>a DEF Publish, StageFails, Owning, InTry
  <2> QED
    BY <1>8, <1>b, <2>1 DEF LedgerTypes, Publish, StageFails, Go, Steps, JobStatus
<1>9. ASSUME NEW p \in Process, Commit(p) PROVE T'
  <2>1. manifest \in Manifests
    BY <1>9, <1>a DEF Commit, StageFails, Owning, InTry
  <2> QED
    BY <1>9, <1>b, <2>1 DEF LedgerTypes, Commit, StageFails, Go, Steps, JobStatus, results
<1>10. ASSUME NEW p \in Process, NEW step, NEW verdict \in {"failed", "cancelled"},
              Settle(p, step, verdict)
       PROVE T'
  <2>1. Open => manifest \in Manifests
    BY <1>a DEF Open
  <2>2. verdict \in JobStatus
    BY DEF JobStatus
  <2>3. manifest' \in Manifests \cup {None}
    <3>1. CASE Open /\ manifest' = [manifest EXCEPT !.status = verdict, !.open = FALSE]
      BY <3>1, <1>b, <2>1, <2>2
    <3>2. CASE UNCHANGED manifest
      BY <3>2 DEF LedgerTypes
    <3> QED
      BY <1>10, <3>1, <3>2 DEF Settle
  <2> QED
    BY <1>10, <2>3 DEF LedgerTypes, Settle, Go, Steps, results
<1>11. ASSUME NEW p \in Process, Summarize(p) PROVE T'
  BY <1>11 DEF LedgerTypes, Summarize, Go, Exit, Steps, results
<1>12. ASSUME NEW p \in Process, Interrupt(p) PROVE T'
  BY <1>12 DEF LedgerTypes, Interrupt, Go, Steps, ledger
<1>13. ASSUME NEW p \in Process, Kill(p) PROVE T'
  BY <1>13 DEF LedgerTypes, Kill, Go, Exit, Steps, ledger
<1>14. ASSUME OperatorClears PROVE T'
  BY <1>14 DEF LedgerTypes, OperatorClears, results
<1>15. CASE UNCHANGED vars
  BY <1>15 DEF LedgerTypes, vars
<1> QED
  BY <1>1, <1>2, <1>3, <1>4, <1>5, <1>6, <1>7, <1>8, <1>9, <1>10, <1>11, <1>12, <1>13, <1>14,
     <1>15 DEF Next, Work

LEMMA ResultTypesKept ==
    ASSUME ResultTypes, [Next]_vars
    PROVE ResultTypes'
<1> DEFINE T == ResultTypes
<1>a. \A i \in Image : <<i, "extract">> \in Held
  BY DEF Held
<1>b. \A h \in Held : h[1] \in Image /\ h = <<h[1], h[2]>> /\ (h[2] \in Kinds => h \in Image \X Kinds)
  BY DEF Held
<1>1. ASSUME NEW p \in Process, Take(p) PROVE T'
  <2>1. PICK i \in todo[p] :
          /\ todo' = [todo EXCEPT ![p] = @ \ {i}]
          /\ IF Reusable(p, i)
             THEN /\ got' = [got EXCEPT ![p] = @ \cup {<<i, txt[i].kind>>}] /\ UNCHANGED hand
             ELSE /\ hand' = [hand EXCEPT ![p] = <<i, "extract">>] /\ UNCHANGED got
    BY <1>1 DEF Take
  <2>2. i \in Image /\ (Reusable(p, i) => txt[i].kind \in Kinds)
    BY DEF ResultTypes, Reusable
  <2>3. UNCHANGED <<txt, art, shp, fails, stray>>
    BY <1>1 DEF Take
  <2>4. todo' \in [Process -> SUBSET Image]
    BY <2>1 DEF ResultTypes
  <2>5. got' \in [Process -> SUBSET (Image \X Kinds)]
    BY <2>1, <2>2 DEF ResultTypes
  <2>6. hand' \in [Process -> Held \cup {None}]
    BY <2>1, <2>2, <1>a DEF ResultTypes
  <2> QED
    BY <2>3, <2>4, <2>5, <2>6 DEF ResultTypes
<1>2. ASSUME NEW p \in Process, Extract(p) PROVE T'
  <2>1. hand[p] \in Held
    BY <1>2 DEF Extract, ResultTypes
  <2>2. hand[p][1] \in Image
    BY <2>1, <1>b
  <2>3. \A k \in Kinds : <<hand[p][1], k>> \in Held
    BY <2>2 DEF Held
  <2>4. hand' \in [Process -> Held \cup {None}]
    BY <1>2, <2>3 DEF Extract, ResultTypes
  <2>5. art' = art \/ art' = [art EXCEPT ![hand[p][1]] = Fp[p]]
    BY <1>2 DEF Extract
  <2>6. art' \in [Image -> {Fp[q] : q \in Process} \cup {None}]
    BY <2>5 DEF ResultTypes
  <2>7. fails' \in [Process -> BOOLEAN]
    BY <1>2 DEF Extract, ResultTypes
  <2> QED
    BY <1>2, <2>4, <2>6, <2>7 DEF ResultTypes, Extract
<1>3. ASSUME NEW p \in Process, Save(p) PROVE T'
  <2>1. hand[p] \in Held /\ hand[p][2] \in Kinds
    BY <1>3 DEF Save, ResultTypes
  <2>2. hand[p][1] \in Image /\ hand[p] \in Image \X Kinds
    BY <2>1, <1>b
  <2> DEFINE r == [fp |-> Fp[p], kind |-> hand[p][2]]
  <2>3. r \in [fp : {Fp[q] : q \in Process}, kind : Kinds]
    BY <2>1
  <2>4. txt' = txt \/ txt' = [txt EXCEPT ![hand[p][1]] = r]
    BY <1>3 DEF Save
  <2> HIDE DEF r
  <2>5. txt' \in [Image -> [fp : {Fp[q] : q \in Process}, kind : Kinds] \cup {None}]
    BY <2>3, <2>4 DEF ResultTypes
  <2>6. got' = got \/ got' = [got EXCEPT ![p] = @ \cup {hand[p]}]
    BY <1>3 DEF Save
  <2>7. got' \in [Process -> SUBSET (Image \X Kinds)]
    BY <2>6, <2>2 DEF ResultTypes
  <2>8. hand' = [hand EXCEPT ![p] = None]
    BY <1>3 DEF Save
  <2>9. hand' \in [Process -> Held \cup {None}]
    BY <2>8 DEF ResultTypes
  <2>10. \E b \in BOOLEAN : fails' = [fails EXCEPT ![p] = b]
    <3>1. CASE fails' = [fails EXCEPT ![p] = TRUE]
      BY <3>1
    <3>2. CASE fails' = [fails EXCEPT ![p] = @ \/ hand[p][2] = "error"]
      <4>1. (fails[p] \/ hand[p][2] = "error") \in BOOLEAN
        OBVIOUS
      <4> QED
        BY <4>1, <3>2
    <3> QED
      BY <1>3, <3>1, <3>2 DEF Save
  <2>11. fails' \in [Process -> BOOLEAN]
    BY <2>10 DEF ResultTypes
  <2>12. stray' \subseteq Image /\ UNCHANGED <<art, shp, todo>>
    BY <1>3, <2>2 DEF Save, ResultTypes
  <2> QED
    BY <2>5, <2>7, <2>9, <2>11, <2>12 DEF ResultTypes
<1>4. ASSUME NEW p \in Process, Begin(p) PROVE T'
  BY <1>4, SlicesAreImages DEF ResultTypes, Begin
<1>5. ASSUME NEW p \in Process, Publish(p) PROVE T'
  <2>1. [by |-> p, images |-> Collected(p)] \in Bundles
    BY DEF Bundles, Collected
  <2> QED
    BY <1>5, <2>1 DEF ResultTypes, Publish, StageFails
<1>6. ASSUME NEW p \in Process, Interrupt(p) PROVE T'
  BY <1>6 DEF ResultTypes, Interrupt
<1>7. ASSUME NEW p \in Process, Kill(p) PROVE T'
  <2>1. [by |-> None, images |-> {}] \in Bundles
    BY DEF Bundles
  <2>2. todo' \in [Process -> SUBSET Image]
    BY <1>7 DEF ResultTypes, Kill
  <2> QED
    BY <1>7, <2>1, <2>2 DEF ResultTypes, Kill
<1>8. CASE UNCHANGED <<txt, art, shp, todo, hand, fails, got, stray>>
  BY <1>8 DEF ResultTypes
<1>9. ASSUME NEW p \in Process,
             Archive(p) \/ Create(p) \/ Claim(p) \/ Prepare(p) \/ EndDetect(p) \/ Commit(p)
             \/ Settle(p, "fail", "failed") \/ Settle(p, "cancel", "cancelled") \/ Summarize(p)
      PROVE T'
  BY <1>9, <1>8 DEF Archive, Create, Claim, Prepare, StageFails, EndDetect, Commit, Settle, Summarize, results
<1>10. CASE OperatorClears \/ UNCHANGED vars
  BY <1>10, <1>8 DEF OperatorClears, results, vars
<1> QED
  BY <1>1, <1>2, <1>3, <1>4, <1>5, <1>6, <1>7, <1>9, <1>10 DEF Next, Work

\* Faults and kills are spent one by one.
LEMMA BudgetsKept ==
    ASSUME Types, [Next]_vars
    PROVE faults' \in 0..MaxFaults /\ kills' \in 0..MaxKills
          /\ (faults' = MaxFaults => faults = MaxFaults /\ ~Fault)
<1>1. faults \in 0..MaxFaults /\ kills \in 0..MaxKills
  BY DEF Types, TypeOK
<1>2. Fault \/ NoFault
  BY DEF Next, Work, Archive, Create, Claim, Prepare, StageFails, Begin, Take, Extract, Save, EndDetect, Publish,
         Commit, Settle, Summarize, Interrupt, Kill, OperatorClears, NoFault, vars
<1>3. UNCHANGED kills \/ (kills > 0 /\ kills' = kills - 1)
  BY DEF Next, Work, Archive, Create, Claim, Prepare, StageFails, Begin, Take, Extract, Save, EndDetect, Publish,
         Commit, Settle, Summarize, Interrupt, Kill, OperatorClears, vars
<1> QED
  BY <1>1, <1>2, <1>3, FaultsKept, KillsKept

LEMMA TypesKept == Types /\ OwnerInv /\ [Next]_vars => Types'
<1> SUFFICES ASSUME Types, OwnerInv, [Next]_vars PROVE Types'
  OBVIOUS
<1>1. LedgerTypes /\ ResultTypes
  BY TypesParts
<1>5. \A p \in Process : Owning(p) => manifest # None
  BY DEF OwnerInv, Status
<1>2. LedgerTypes' /\ ResultTypes'
  BY <1>1, <1>5, LedgerTypesKept, ResultTypesKept
<1>3. faults' \in 0..MaxFaults /\ kills' \in 0..MaxKills
  BY BudgetsKept
<1>4. (Types <=> /\ LedgerTypes /\ ResultTypes
                 /\ faults \in 0..MaxFaults /\ kills \in 0..MaxKills)'
  BY TypesParts, PTL
<1> QED
  BY <1>2, <1>3, <1>4
-------------------------------------------------------------------------------
(* Who owns the directory. *)

\* Go moves one process.
LEMMA Moved ==
    ASSUME Types, NEW p \in Process, NEW step \in Steps, Go(p, step)
    PROVE pc'[p] = step /\ \A q \in Process \ {p} : pc'[q] = pc[q]
  BY DEF Types, Go

LEMMA Exited ==
    ASSUME Types, NEW p \in Process, NEW how, Exit(p, how)
    PROVE /\ pc'[p] = "exited" /\ \A q \in Process \ {p} : pc'[q] = pc[q]
          /\ exit'[p] = how /\ \A q \in Process \ {p} : exit'[q] = exit[q]
  BY DEF Types, TypeOK, Exit, Go

\* A claimed manifest is there, and open.
LEMMA ClaimedIsOpen ==
    ASSUME OwnerInv, NEW p \in Process, Owning(p)
    PROVE /\ Open /\ manifest # None /\ Status = manifest.status /\ Owner = manifest.id
          /\ Status # "pending" /\ \A q \in Process : Owning(q) => q = p
          /\ Owner = Id[p] \/ p \in foreign
  BY DEF OwnerInv, OneOwner, Open, Status, Owner

\* Nobody comes to own or to claim, and the manifest stays.
LEMMA OwnerFrame ==
    ASSUME OwnerInv, UNCHANGED <<manifest, foreign>>,
           \A q \in Process : (Owning(q)' => Owning(q)) /\ (pc'[q] = "claim" => pc[q] = "claim")
    PROVE OwnerInv'
<1>1. Status' = Status /\ Owner' = Owner /\ (Open' <=> Open)
  BY DEF Status, Owner, Open
<1>2. OneOwner'
  BY <1>1 DEF OwnerInv, OneOwner
<1>3. \A q \in Process : Owning(q)' => Status' \in {"validating", "running"}
  BY <1>1 DEF OwnerInv
<1>4. foreign' = {} => \A q \in Process :
        pc'[q] = "claim" /\ ~Repeated(q) => Owner' = Id[q] /\ Status' = "pending"
  BY <1>1 DEF OwnerInv
<1> QED
  BY <1>2, <1>3, <1>4 DEF OwnerInv, Repeated

\* The owner goes on with its manifest.
LEMMA OwnerWorks ==
    ASSUME OwnerInv, NEW p \in Process, Owning(p), UNCHANGED foreign,
           Owner' = Owner, Status' \in {"validating", "running"},
           \A q \in Process : (Owning(q)' => Owning(q)) /\ (pc'[q] = "claim" => pc[q] = "claim")
    PROVE OwnerInv'
<1>1. Open'
  BY DEF Open, JobStatus, TerminalJobStatus
<1>2. OneOwner'
  BY <1>1 DEF OwnerInv, OneOwner, Repeated
<1>3. Status # "pending"
  BY ClaimedIsOpen
<1>4. \A q \in Process : foreign' = {} /\ pc'[q] = "claim" => Repeated(q)
  BY <1>3 DEF OwnerInv
<1> QED
  BY <1>2, <1>4 DEF OwnerInv, Repeated

\* Nobody owns the directory afterwards, and nobody waited for its manifest.
LEMMA OwnerLeaves ==
    ASSUME OwnerInv, UNCHANGED foreign,
           Status # "pending" \/ \A q \in Process : pc[q] # "claim",
           \A q \in Process : ~Owning(q)' /\ (pc'[q] = "claim" => pc[q] = "claim")
    PROVE OwnerInv'
<1>1. \A q \in Process : foreign' = {} /\ pc'[q] = "claim" => Repeated(q)
  BY DEF OwnerInv
<1>2. OneOwner'
  BY DEF OwnerInv, OneOwner, Repeated
<1> QED
  BY <1>1, <1>2 DEF OwnerInv, Repeated

LEMMA CreateKeepsOwner ==
    ASSUME Types, OwnerInv, NEW p \in Process, Create(p)
    PROVE OwnerInv'
<1>1. CASE /\ manifest = None /\ Go(p, "claim")
           /\ manifest' = [id |-> Id[p], status |-> "pending", open |-> FALSE, failed |-> FALSE]
  <2>1. pc'[p] = "claim" /\ \A q \in Process \ {p} : pc'[q] = pc[q]
    BY <1>1, Moved DEF Steps
  <2>2. manifest' \in Manifests
    BY <1>1 DEF Manifests, JobStatus
  <2>3. Owner' = Id[p] /\ Status' = "pending"
    BY <1>1, <2>2, RecordsAreThings DEF Owner, Status
  <2>4. Status = "none"
    BY <1>1 DEF Status
  <2>5. \A q \in Process : ~Owning(q)
    BY <2>4 DEF OwnerInv
  <2>6. \A q \in Process : ~Owning(q)'
    BY <2>1, <2>5 DEF Owning, InTry
  <2>7. \A q \in Process : foreign = {} /\ pc[q] = "claim" => Repeated(q)
    BY <2>4 DEF OwnerInv
  <2>8. UNCHANGED foreign
    BY DEF Create, results
  <2> QED
    BY <2>1, <2>3, <2>6, <2>7, <2>8 DEF OwnerInv, OneOwner, Repeated
<1>2. CASE Owner = Id[p] /\ Status = "pending" /\ Go(p, "claim") /\ UNCHANGED manifest
  <2>1. pc'[p] = "claim" /\ \A q \in Process \ {p} : pc'[q] = pc[q]
    BY <1>2, Moved DEF Steps
  <2>2. Owner' = Id[p] /\ Status' = "pending" /\ Status' = Status /\ Owner' = Owner
    BY <1>2 DEF Owner, Status
  <2>3. \A q \in Process : ~Owning(q)
    BY <1>2 DEF OwnerInv
  <2>4. \A q \in Process : ~Owning(q)'
    BY <2>1, <2>3 DEF Owning, InTry
  <2>5. UNCHANGED foreign
    BY DEF Create, results
  <2>6. foreign' = {} => \A q \in Process :
          pc'[q] = "claim" /\ ~Repeated(q) => Owner' = Id[q] /\ Status' = "pending"
    BY <2>1, <2>2, <2>5 DEF OwnerInv
  <2> QED
    BY <2>4, <2>5, <2>6 DEF OwnerInv, OneOwner, Repeated
<1>3. CASE Exit(p, "error") /\ UNCHANGED manifest
  <2>1. pc'[p] = "exited" /\ \A q \in Process \ {p} : pc'[q] = pc[q]
    BY <1>3, Exited
  <2>2. \A q \in Process : (Owning(q)' => Owning(q)) /\ (pc'[q] = "claim" => pc[q] = "claim")
    BY <2>1 DEF Owning, InTry
  <2>3. UNCHANGED <<manifest, foreign>>
    BY <1>3 DEF Create, results
  <2> QED
    BY <2>2, <2>3, OwnerFrame
<1> QED
  BY <1>1, <1>2, <1>3 DEF Create

LEMMA ClaimKeepsOwner ==
    ASSUME Types, OwnerInv, NEW p \in Process, Claim(p)
    PROVE OwnerInv'
<1>a. pc[p] = "claim"
  BY DEF Claim
<1>1. CASE Status = "pending"
  <2>1. /\ manifest' = [manifest EXCEPT !.status = "validating"]
        /\ foreign' = IF Owner = Id[p] THEN foreign ELSE foreign \cup {p}
    BY <1>1 DEF Claim
  <2>2. manifest \in Manifests /\ manifest # None
    BY <1>1 DEF Types, TypeOK, Manifests, Status
  <2>3. manifest' \in Manifests /\ manifest'.id = manifest.id /\ manifest'.status = "validating"
    BY <2>1, <2>2 DEF Manifests, JobStatus
  <2>4. Owner' = Owner /\ Status' = "validating"
    BY <2>2, <2>3, RecordsAreThings DEF Owner, Status
  <2>5. Open'
    BY <2>4 DEF Open, JobStatus, TerminalJobStatus
  <2>6. \A q \in Process \ {p} : pc'[q] = pc[q]
    <3>1. CASE Go(p, "prepare")
      BY <3>1, Moved DEF Steps
    <3>2. CASE Exit(p, "error")
      BY <3>2, Exited
    <3> QED
      BY <1>1, <3>1, <3>2 DEF Claim
  <2>7. \A q \in Process : ~Owning(q)
    BY <1>1 DEF OwnerInv
  <2>8. \A q \in Process : Owning(q)' => q = p
    BY <2>6, <2>7 DEF Owning, InTry
  <2>9. Owner' = Id[p] \/ p \in foreign'
    BY <2>1, <2>4
  <2>10. foreign' # {} => \E q \in foreign' : Repeated(q)
    <3>1. CASE Owner = Id[p]
      BY <3>1, <2>1 DEF OwnerInv, OneOwner
    <3>2. CASE Owner # Id[p] /\ foreign # {}
      BY <3>2, <2>1 DEF OwnerInv, OneOwner
    <3>3. CASE Owner # Id[p] /\ foreign = {}
      BY <3>3, <2>1, <1>a DEF OwnerInv
    <3> QED
      BY <3>1, <3>2, <3>3
  <2>11. OneOwner'
    BY <2>5, <2>8, <2>9, <2>10 DEF OneOwner, Repeated
  <2>12. foreign' = {} => \A q \in Process :
           pc'[q] = "claim" /\ ~Repeated(q) => Owner' = Id[q] /\ Status' = "pending"
    <3> SUFFICES ASSUME foreign' = {}, NEW q \in Process, pc'[q] = "claim", ~Repeated(q)
                 PROVE FALSE
      BY DEF Repeated
    <3>1. foreign = {} /\ Owner = Id[p]
      BY <2>1
    <3>2. q # p
      <4>1. pc'[p] # "claim"
        BY <1>1, Moved, Exited DEF Claim, Steps
      <4> QED
        BY <4>1
    <3>3. pc[q] = "claim"
      BY <2>6, <3>2
    <3>4. Owner = Id[q]
      BY <3>1, <3>3 DEF OwnerInv
    <3> QED
      BY <3>1, <3>2, <3>4 DEF Repeated
  <2> QED
    BY <2>4, <2>11, <2>12 DEF OwnerInv, Repeated
<1>2. CASE Status # "pending"
  <2>1. Exit(p, "error") /\ UNCHANGED <<manifest, foreign>>
    BY <1>2 DEF Claim
  <2>2. pc'[p] = "exited" /\ \A q \in Process \ {p} : pc'[q] = pc[q]
    BY <2>1, Exited
  <2>3. \A q \in Process : (Owning(q)' => Owning(q)) /\ (pc'[q] = "claim" => pc[q] = "claim")
    BY <2>2 DEF Owning, InTry
  <2> QED
    BY <2>1, <2>3, OwnerFrame
<1> QED
  BY <1>1, <1>2

\* A process that leaves the steps of an owner, or stays in them, is all that moves.
LEMMA OwnersAfter ==
    ASSUME Types, NEW p \in Process, NEW step \in Steps \ {"claim"}, Go(p, step)
    PROVE /\ \A q \in Process : pc'[q] = "claim" => pc[q] = "claim"
          /\ step \notin InTry \cup {"fail", "cancel"} \/ Owning(p)
               => \A q \in Process : Owning(q)' => Owning(q)
          /\ step \notin InTry \cup {"fail", "cancel"}
               => \A q \in Process : Owning(q)' => Owning(q) /\ q # p
<1>1. pc'[p] = step /\ \A q \in Process \ {p} : pc'[q] = pc[q]
  BY Moved
<1> QED
  BY <1>1 DEF Owning

\* What the owner does to the manifest of its job.
LEMMA ManifestOfOwner ==
    ASSUME Types, OwnerInv, NEW p \in Process, Owning(p),
           NEW status \in JobStatus, NEW o \in BOOLEAN, NEW f \in BOOLEAN,
           manifest' = [manifest EXCEPT !.status = status, !.open = o, !.failed = f]
    PROVE Owner' = Owner /\ Status' = status /\ manifest' \in Manifests
<1>1. manifest \in Manifests
  BY ClaimedIsOpen DEF Types, TypeOK, Manifests
<1>2. manifest' \in Manifests /\ manifest'.id = manifest.id /\ manifest'.status = status
  BY <1>1 DEF Manifests
<1> QED
  BY <1>2, RecordsAreThings, ClaimedIsOpen DEF Owner, Status

\* Fields of the manifest that a step leaves alone.
LEMMA Rewritten ==
    ASSUME NEW m \in Manifests, NEW s \in JobStatus, NEW o \in BOOLEAN, NEW f \in BOOLEAN
    PROVE /\ m.status \in JobStatus /\ m.open \in BOOLEAN /\ m.failed \in BOOLEAN
          /\ [m EXCEPT !.status = s] = [m EXCEPT !.status = s, !.open = m.open, !.failed = m.failed]
          /\ [m EXCEPT !.status = s, !.open = o]
               = [m EXCEPT !.status = s, !.open = o, !.failed = m.failed]
          /\ [m EXCEPT !.open = o, !.failed = f]
               = [m EXCEPT !.status = m.status, !.open = o, !.failed = f]
          /\ [m EXCEPT !.open = o]
               = [m EXCEPT !.status = m.status, !.open = o, !.failed = m.failed]
          /\ [m EXCEPT !.failed = f]
               = [m EXCEPT !.status = m.status, !.open = m.open, !.failed = f]
  BY DEF Manifests

\* The steps of an owner leave the manifest, or change it for the same job.
LEMMA OwnerSteps ==
    ASSUME Types, OwnerInv, NEW p \in Process,
           Prepare(p) \/ Begin(p) \/ EndDetect(p) \/ Publish(p) \/ Commit(p)
    PROVE /\ Owning(p) /\ UNCHANGED foreign
          /\ Owner' = Owner /\ manifest' \in Manifests
          /\ \/ pc[p] = "commit" /\ Status' = "succeeded" /\ Go(p, "succeeded")
             \/ /\ Status' \in {"validating", "running"}
                /\ \E step \in InTry \cup {"fail"} : Go(p, step)
<1>1. Owning(p) /\ UNCHANGED foreign
  BY DEF Prepare, StageFails, Begin, EndDetect, Publish, Commit, Owning, InTry, results
<1>2. manifest \in Manifests /\ Status \in {"validating", "running"} /\ Status = manifest.status
  BY <1>1, ClaimedIsOpen DEF Types, TypeOK, Manifests, OwnerInv
<1> DEFINE To(s, o, f) == manifest' = [manifest EXCEPT !.status = s, !.open = o, !.failed = f]
<1>3. ASSUME NEW s \in JobStatus, NEW o \in BOOLEAN, NEW f \in BOOLEAN, To(s, o, f)
      PROVE Owner' = Owner /\ Status' = s /\ manifest' \in Manifests
  BY <1>1, <1>3, ManifestOfOwner
<1>4. manifest.status \in JobStatus /\ manifest.open \in BOOLEAN /\ manifest.failed \in BOOLEAN
  BY <1>2 DEF Manifests
<1>a. ASSUME StageFails(p)
      PROVE Owner' = Owner /\ Status' = Status /\ manifest' \in Manifests /\ Go(p, "fail")
  <2>1. manifest' = [manifest EXCEPT !.open = FALSE, !.failed = TRUE] /\ Go(p, "fail")
    BY <1>a DEF StageFails
  <2>2. To(manifest.status, FALSE, TRUE)
    BY <1>2, <2>1, Rewritten
  <2> HIDE DEF To
  <2> QED
    BY <1>2, <1>3, <1>4, <2>1, <2>2
<1>5. CASE Prepare(p)
  <2>1. CASE Go(p, "begin") /\ UNCHANGED manifest
    BY <1>1, <1>2, <2>1 DEF InTry, Owner, Status
  <2>2. CASE StageFails(p)
    BY <1>1, <1>2, <1>a, <2>2
  <2> QED
    BY <1>5, <2>1, <2>2 DEF Prepare
<1>6. CASE Begin(p)
  <2>1. manifest' = [manifest EXCEPT !.status = "running", !.open = TRUE] /\ Go(p, "detect")
    BY <1>6 DEF Begin
  <2>2. To("running", TRUE, manifest.failed)
    BY <1>2, <2>1, Rewritten DEF JobStatus
  <2> HIDE DEF To
  <2> QED
    BY <1>1, <1>3, <1>4, <2>1, <2>2 DEF JobStatus, InTry
<1>7. CASE EndDetect(p)
  <2> DEFINE f == fails[p]  o == ~fails[p]
  <2>1. f \in BOOLEAN
    BY DEF Types
  <2>2. o \in BOOLEAN
    OBVIOUS
  <2>3. manifest' = [manifest EXCEPT !.open = o, !.failed = f]
    BY <1>7 DEF EndDetect
  <2>4. \E step \in InTry \cup {"fail"} : Go(p, step)
    BY <1>7 DEF EndDetect, InTry
  <2> HIDE DEF f, o
  <2>5. To(manifest.status, o, f)
    BY <1>2, <2>1, <2>2, <2>3, Rewritten
  <2> HIDE DEF To
  <2> QED
    BY <1>1, <1>2, <1>3, <1>4, <2>1, <2>2, <2>4, <2>5
<1>8. CASE Publish(p)
  <2>1. CASE manifest' = [manifest EXCEPT !.open = FALSE] /\ Go(p, "commit")
    <3>1. To(manifest.status, FALSE, manifest.failed)
      BY <1>2, <2>1, Rewritten
    <3> HIDE DEF To
    <3> QED
      BY <1>1, <1>2, <1>3, <1>4, <2>1, <3>1 DEF InTry
  <2>2. CASE StageFails(p)
    BY <1>1, <1>2, <1>a, <2>2
  <2> QED
    BY <1>8, <2>1, <2>2 DEF Publish
<1>9. CASE Commit(p)
  <2>1. CASE manifest' = [manifest EXCEPT !.status = "succeeded"] /\ Go(p, "succeeded")
    <3>1. To("succeeded", manifest.open, manifest.failed)
      BY <1>2, <2>1, Rewritten DEF JobStatus
    <3>2. pc[p] = "commit"
      BY <1>9 DEF Commit, StageFails
    <3> HIDE DEF To
    <3> QED
      BY <1>1, <1>3, <1>4, <2>1, <3>1, <3>2 DEF JobStatus
  <2>2. CASE StageFails(p)
    BY <1>1, <1>2, <1>a, <2>2
  <2> QED
    BY <1>9, <2>1, <2>2 DEF Commit
<1> QED
  BY <1>5, <1>6, <1>7, <1>8, <1>9

\* A job is settled: by its owner while it is open, or not at all.
LEMMA Settled ==
    ASSUME Types, OwnerInv, NEW p \in Process,
           Settle(p, "fail", "failed") \/ Settle(p, "cancel", "cancelled")
    PROVE /\ Owning(p) /\ Go(p, "summarize") /\ UNCHANGED foreign
          /\ \/ /\ Open /\ manifest' \in Manifests /\ Owner' = Owner
                /\ Status' \in {"failed", "cancelled"}
             \/ UNCHANGED manifest
<1>1. Owning(p) /\ Go(p, "summarize") /\ UNCHANGED foreign
  BY DEF Settle, Owning, results
<1>2. manifest \in Manifests
  BY <1>1, ClaimedIsOpen DEF Types, TypeOK, Manifests
<1>3. ASSUME NEW v \in {"failed", "cancelled"}, manifest' = [manifest EXCEPT !.status = v, !.open = FALSE]
      PROVE Owner' = Owner /\ Status' = v /\ manifest' \in Manifests
  <2>1. v \in JobStatus /\ manifest.failed \in BOOLEAN
    BY <1>2 DEF JobStatus, Manifests
  <2>2. manifest' = [manifest EXCEPT !.status = v, !.open = FALSE, !.failed = manifest.failed]
    BY <1>2, <1>3, <2>1, Rewritten
  <2> QED
    BY <1>1, <2>1, <2>2, ManifestOfOwner
<1> QED
  BY <1>1, <1>3 DEF Settle

LEMMA OwnerKept ==
    ASSUME Types, OwnerInv, [Next]_vars
    PROVE OwnerInv'
<1> DEFINE Frame == /\ UNCHANGED <<manifest, foreign>>
                    /\ \A q \in Process : /\ Owning(q)' => Owning(q)
                                          /\ pc'[q] = "claim" => pc[q] = "claim"
<1>a. Frame => OwnerInv'
  BY OwnerFrame
<1>b. UNCHANGED <<manifest, foreign, pc>> => Frame
  BY DEF Owning
<1>c. ASSUME NEW p \in Process, NEW step \in {"create", "succeeded", "summarize", "exited", "begin", "cancel"},
             Go(p, step), UNCHANGED <<manifest, foreign>>, step \in {"begin", "cancel"} => Owning(p)
      PROVE OwnerInv'
  <2>1. step \in Steps \ {"claim"} /\ (step \notin InTry \cup {"fail", "cancel"} \/ Owning(p))
    BY <1>c DEF Steps, InTry
  <2> QED
    BY <1>c, <2>1, <1>a, OwnersAfter
<1>1. ASSUME NEW p \in Process, Archive(p) PROVE OwnerInv'
  <2>1. UNCHANGED foreign /\ \/ Go(p, "create") \/ Go(p, "exited")
    BY <1>1 DEF Archive, Exit, results
  <2>2. CASE UNCHANGED manifest
    BY <2>1, <2>2, <1>c
  <2>3. CASE Status \in TerminalJobStatus
    <3>1. \A q \in Process : ~Owning(q)
      BY <2>3 DEF OwnerInv, TerminalJobStatus
    <3>2. \A q \in Process : ~Owning(q)' /\ (pc'[q] = "claim" => pc[q] = "claim")
      BY <2>1, <3>1, OwnersAfter DEF Steps, InTry
    <3>3. Status # "pending"
      BY <2>3 DEF TerminalJobStatus
    <3> QED
      BY <2>1, <3>2, <3>3, OwnerLeaves
  <2> QED
    BY <1>1, <2>2, <2>3 DEF Archive, ledger
<1>2. ASSUME NEW p \in Process, Create(p) \/ Claim(p) PROVE OwnerInv'
  BY <1>2, CreateKeepsOwner, ClaimKeepsOwner
<1>3. ASSUME NEW p \in Process, Prepare(p) \/ Begin(p) \/ EndDetect(p) \/ Publish(p) \/ Commit(p)
      PROVE OwnerInv'
  <2>1. Owning(p) /\ UNCHANGED foreign /\ Owner' = Owner
    BY <1>3, OwnerSteps
  <2>2. CASE Status' = "succeeded" /\ Go(p, "succeeded")
    <3>1. \A q \in Process : Owning(q) => q = p
      BY <2>1, ClaimedIsOpen
    <3>2. \A q \in Process : ~Owning(q)' /\ (pc'[q] = "claim" => pc[q] = "claim")
      BY <2>2, <3>1, OwnersAfter DEF Steps, InTry
    <3>3. Status # "pending"
      BY <2>1, ClaimedIsOpen
    <3> QED
      BY <2>1, <3>2, <3>3, OwnerLeaves
  <2>3. ASSUME Status' \in {"validating", "running"}, NEW step \in InTry \cup {"fail"}, Go(p, step)
        PROVE OwnerInv'
    <3>1. step \in Steps \ {"claim"}
      BY DEF Steps, InTry
    <3>2. \A q \in Process : (Owning(q)' => Owning(q)) /\ (pc'[q] = "claim" => pc[q] = "claim")
      BY <2>1, <2>3, <3>1, OwnersAfter
    <3> QED
      BY <2>1, <2>3, <3>2, OwnerWorks
  <2> QED
    BY <1>3, <2>2, <2>3, OwnerSteps
<1>4. ASSUME NEW p \in Process, Take(p) \/ Extract(p) \/ Save(p) PROVE OwnerInv'
  BY <1>4, <1>a, <1>b DEF Take, Extract, Save, ledger
<1>5. ASSUME NEW p \in Process, Settle(p, "fail", "failed") \/ Settle(p, "cancel", "cancelled")
      PROVE OwnerInv'
  <2>1. Owning(p) /\ Go(p, "summarize") /\ UNCHANGED foreign
    BY <1>5, Settled
  <2>2. \A q \in Process : Owning(q) => q = p
    BY <2>1, ClaimedIsOpen
  <2>3. \A q \in Process : ~Owning(q)' /\ (pc'[q] = "claim" => pc[q] = "claim")
    BY <2>1, <2>2, OwnersAfter DEF Steps, InTry
  <2>4. Status # "pending"
    BY <2>1, ClaimedIsOpen
  <2> QED
    BY <2>1, <2>3, <2>4, OwnerLeaves
<1>6. ASSUME NEW p \in Process, Summarize(p) PROVE OwnerInv'
  BY <1>6, <1>c DEF Summarize, Exit, results
<1>7. ASSUME NEW p \in Process, Interrupt(p) PROVE OwnerInv'
  BY <1>7, <1>c DEF Interrupt, Owning, ledger
<1>8. ASSUME NEW p \in Process, Kill(p) PROVE OwnerInv'
  BY <1>8, <1>c DEF Kill, Exit, ledger
<1>9. ASSUME OperatorClears PROVE OwnerInv'
  <2>1. \A q \in Process : ~Owning(q)' /\ pc'[q] # "claim" /\ pc[q] # "claim"
    BY <1>9 DEF OperatorClears, Owning
  <2> QED
    BY <1>9, <2>1, OwnerLeaves DEF OperatorClears, results
<1>10. CASE UNCHANGED vars
  BY <1>10, <1>a, <1>b DEF vars
<1> QED
  BY <1>1, <1>2, <1>3, <1>4, <1>5, <1>6, <1>7, <1>8, <1>9, <1>10 DEF Next, Work
-------------------------------------------------------------------------------
(* Verdicts. *)

\* The history grows, and a manifest with a verdict stays or moves there.
LEMMA LedgerStep ==
    ASSUME Types, OwnerInv, [Next]_vars
    PROVE /\ history \subseteq history' /\ foreign \subseteq foreign'
          /\ ~Open /\ manifest # None => manifest' = manifest \/ Record(manifest) \in history'
<1> DEFINE Kept == /\ history \subseteq history' /\ foreign \subseteq foreign'
                   /\ ~Open /\ manifest # None => manifest' = manifest \/ Record(manifest) \in history'
<1>1. ASSUME NEW p \in Process, Archive(p) PROVE Kept
  BY <1>1 DEF Archive, ledger, results
<1>2. ASSUME NEW p \in Process, Create(p) PROVE Kept
  BY <1>2 DEF Create, results
<1>3. ASSUME NEW p \in Process, Claim(p) PROVE Kept
  <2>1. Status = "pending" => Open
    BY DEF Open, JobStatus, TerminalJobStatus
  <2>2. history' = history /\ foreign \subseteq foreign' /\ (Status # "pending" => UNCHANGED manifest)
    BY <1>3 DEF Claim
  <2> QED
    BY <2>1, <2>2
<1>4. ASSUME NEW p \in Process, Prepare(p) \/ Begin(p) \/ EndDetect(p) \/ Publish(p) \/ Commit(p)
      PROVE Kept
  <2>1. Open /\ UNCHANGED foreign
    BY <1>4, OwnerSteps, ClaimedIsOpen
  <2>2. UNCHANGED history
    BY <1>4 DEF Prepare, StageFails, Begin, EndDetect, Publish, Commit
  <2> QED
    BY <2>1, <2>2
<1>5. ASSUME NEW p \in Process, Take(p) \/ Extract(p) \/ Save(p) PROVE Kept
  BY <1>5 DEF Take, Extract, Save, ledger
<1>6. ASSUME NEW p \in Process, Settle(p, "fail", "failed") \/ Settle(p, "cancel", "cancelled")
      PROVE Kept
  <2>1. Open /\ UNCHANGED foreign
    BY <1>6, Settled, ClaimedIsOpen
  <2>2. UNCHANGED history
    BY <1>6 DEF Settle
  <2> QED
    BY <2>1, <2>2
<1>7. ASSUME NEW p \in Process, Summarize(p) PROVE Kept
  BY <1>7 DEF Summarize, results
<1>8. ASSUME NEW p \in Process, Interrupt(p) \/ Kill(p) PROVE Kept
  BY <1>8 DEF Interrupt, Kill, ledger
<1>9. CASE OperatorClears
  BY <1>9 DEF OperatorClears, results
<1>10. CASE UNCHANGED vars
  BY <1>10 DEF vars
<1> QED
  BY <1>1, <1>2, <1>3, <1>4, <1>5, <1>6, <1>7, <1>8, <1>9, <1>10 DEF Next, Work

LEMMA RecordStays ==
    ASSUME Types, OwnerInv, [Next]_vars, NEW p \in Process, OnRecord(p)
    PROVE OnRecord(p)'
<1> DEFINE said == [id |-> Id[p], status |-> "succeeded"]
<1>1. CASE said \in history
  BY <1>1, LedgerStep DEF OnRecord
<1>2. CASE manifest # None /\ Record(manifest) = said
  <2>1. Status = "succeeded"
    BY <1>2 DEF Record, Status
  <2>2. ~Open
    BY <2>1 DEF Open, TerminalJobStatus
  <2>3. manifest' = manifest \/ said \in history'
    BY <1>2, <2>2, LedgerStep
  <2> QED
    BY <1>2, <2>3 DEF OnRecord, Record
<1> QED
  BY <1>1, <1>2 DEF OnRecord

\* A process gets to its good end only by the commit of its own job.
LEMMA GoodEnd ==
    ASSUME Types, OwnerInv, [Next]_vars, NEW p \in Process,
           exit'[p] = "ok" \/ pc'[p] = "succeeded", p \notin foreign
    PROVE \/ exit[p] = "ok" \/ pc[p] = "succeeded"
          \/ Owner' = Id[p] /\ Status' = "succeeded"
<1> DEFINE Before == exit[p] = "ok" \/ pc[p] = "succeeded"
<1>a. ASSUME NEW q \in Process, NEW step \in Steps \ {"succeeded"}, Go(q, step), UNCHANGED exit PROVE Before
  BY <1>a, Moved
<1>b. ASSUME NEW q \in Process, NEW how, Exit(q, how), how = "ok" => pc[q] = "succeeded" PROVE Before
  BY <1>b, Exited
<1>1. ASSUME NEW q \in Process, Archive(q) PROVE Before
  BY <1>1, <1>a, <1>b DEF Archive, Steps
<1>2. ASSUME NEW q \in Process, Create(q) PROVE Before
  BY <1>2, <1>a, <1>b DEF Create, Steps
<1>3. ASSUME NEW q \in Process, Claim(q) PROVE Before
  BY <1>3, <1>a, <1>b DEF Claim, Steps
<1>4. ASSUME NEW q \in Process, Prepare(q) \/ Begin(q) \/ EndDetect(q) \/ Publish(q) \/ Commit(q)
      PROVE Before \/ (Owner' = Id[p] /\ Status' = "succeeded")
  <2>1. UNCHANGED exit
    BY <1>4 DEF Prepare, StageFails, Begin, EndDetect, Publish, Commit
  <2>2. ASSUME NEW step \in InTry \cup {"fail"}, Go(q, step) PROVE Before
    BY <2>1, <2>2, <1>a DEF InTry, Steps
  <2>3. CASE Status' = "succeeded" /\ Go(q, "succeeded") /\ q # p
    BY <2>1, <2>3, Moved DEF Steps
  <2>4. CASE Status' = "succeeded" /\ q = p
    BY <1>4, <2>4, OwnerSteps, ClaimedIsOpen
  <2> QED
    BY <1>4, <2>2, <2>3, <2>4, OwnerSteps
<1>5. ASSUME NEW q \in Process, Take(q) \/ Extract(q) \/ Save(q) PROVE Before
  BY <1>5 DEF Take, Extract, Save
<1>6. ASSUME NEW q \in Process, Settle(q, "fail", "failed") \/ Settle(q, "cancel", "cancelled")
      PROVE Before
  BY <1>6, <1>a DEF Settle, Steps
<1>7. ASSUME NEW q \in Process, Summarize(q) PROVE Before
  BY <1>7, <1>b DEF Summarize
<1>8. ASSUME NEW q \in Process, Interrupt(q) PROVE Before
  BY <1>8, <1>a DEF Interrupt, Steps
<1>9. ASSUME NEW q \in Process, Kill(q) PROVE Before
  BY <1>9, <1>b DEF Kill
<1>10. CASE OperatorClears \/ UNCHANGED vars
  BY <1>10 DEF OperatorClears, vars
<1> QED
  BY <1>1, <1>2, <1>3, <1>4, <1>5, <1>6, <1>7, <1>8, <1>9, <1>10 DEF Next, Work

LEMMA VerdictsStay ==
    ASSUME Types, OwnerInv, VerdictInv, [Next]_vars
    PROVE VerdictInv'
<1> SUFFICES ASSUME NEW p \in Process, p \notin foreign', exit'[p] = "ok" \/ pc'[p] = "succeeded"
             PROVE OnRecord(p)'
  BY DEF VerdictInv
<1>1. p \notin foreign
  BY LedgerStep
<1>2. CASE exit[p] = "ok" \/ pc[p] = "succeeded"
  BY <1>1, <1>2, RecordStays DEF VerdictInv
<1>3. CASE Owner' = Id[p] /\ Status' = "succeeded"
  <2>1. manifest' # None /\ manifest'.id = Id[p] /\ manifest'.status = "succeeded"
    BY <1>3 DEF Owner, Status
  <2> QED
    BY <2>1 DEF OnRecord, Record
<1> QED
  BY <1>1, <1>2, <1>3, GoodEnd

-------------------------------------------------------------------------------
(* Who is still to give a verdict. *)

\* A process that is over stays so, and none ends before.
LEMMA OverIsOver ==
    ASSUME Types, [Next]_vars, NEW q \in Process
    PROVE /\ pc[q] = "exited" => pc'[q] = "exited" /\ exit'[q] = exit[q]
          /\ exit'[q] # exit[q] => pc'[q] = "exited"
<1> DEFINE T == /\ pc[q] = "exited" => pc'[q] = "exited" /\ exit'[q] = exit[q]
                /\ exit'[q] # exit[q] => pc'[q] = "exited"
<1>a. ASSUME NEW p \in Process, pc[p] # "exited",
             \/ UNCHANGED exit /\ \E step \in Steps : Go(p, step)
             \/ \E how : Exit(p, how)
      PROVE T
  BY <1>a, Moved, Exited
<1>b. UNCHANGED <<pc, exit>> => T
  OBVIOUS
<1>1. ASSUME NEW p \in Process, Archive(p) \/ Create(p) \/ Claim(p) PROVE T
  BY <1>1, <1>a DEF Archive, Create, Claim, Steps
<1>2. ASSUME NEW p \in Process, Prepare(p) \/ Begin(p) \/ EndDetect(p) PROVE T
  BY <1>2, <1>a DEF Prepare, StageFails, Begin, EndDetect, Steps
<1>3. ASSUME NEW p \in Process, Publish(p) \/ Commit(p) PROVE T
  BY <1>3, <1>a DEF Publish, StageFails, Commit, Steps
<1>4. ASSUME NEW p \in Process, Take(p) \/ Extract(p) \/ Save(p) PROVE T
  BY <1>4, <1>b DEF Take, Extract, Save
<1>5. ASSUME NEW p \in Process, Settle(p, "fail", "failed") \/ Settle(p, "cancel", "cancelled")
      PROVE T
  BY <1>5, <1>a DEF Settle, Steps
<1>6. ASSUME NEW p \in Process, Summarize(p) PROVE T
  BY <1>6, <1>a DEF Summarize
<1>7. ASSUME NEW p \in Process, Interrupt(p) PROVE T
  BY <1>7, <1>a DEF Interrupt, InTry, Steps
<1>8. ASSUME NEW p \in Process, Kill(p) PROVE T
  BY <1>8, <1>a DEF Kill
<1>9. CASE OperatorClears \/ UNCHANGED vars
  BY <1>9, <1>b DEF OperatorClears, vars
<1> QED
  BY <1>1, <1>2, <1>3, <1>4, <1>5, <1>6, <1>7, <1>8, <1>9 DEF Next, Work

\* Somebody is there who has to settle an open manifest.
Attended ==
    /\ Status = "pending" => \E p \in Process : pc[p] = "claim"
    /\ Open /\ Status # "pending" => \E p \in Process : Owning(p)

\* Whoever claims or owns does so afterwards.
LEMMA AttendedFrame ==
    ASSUME Attended, UNCHANGED manifest,
           \A q \in Process : /\ pc[q] = "claim" /\ Status = "pending" => pc'[q] = "claim"
                              /\ Owning(q) => Owning(q)'
    PROVE Attended'
<1>1. Status' = Status /\ (Open' <=> Open)
  BY DEF Status, Open
<1> QED
  BY <1>1 DEF Attended

LEMMA AttendedOver == ~Open' => Attended'
  BY DEF Attended, Open, JobStatus, TerminalJobStatus

LEMMA AttendedKept ==
    ASSUME Types, OwnerInv, Attended, [Next]_vars, ~Fault, \A p \in Process : exit'[p] # "killed"
    PROVE Attended'
<1>a. ASSUME NEW p \in Process, UNCHANGED manifest, pc[p] # "claim" \/ Status # "pending", ~Owning(p),
             \A q \in Process \ {p} : pc'[q] = pc[q]
      PROVE Attended'
  <2>1. \A q \in Process : /\ pc[q] = "claim" /\ Status = "pending" => pc'[q] = "claim"
                           /\ Owning(q) => Owning(q)'
    BY <1>a DEF Owning, InTry
  <2> QED
    BY <1>a, <2>1, AttendedFrame
<1>1. ASSUME NEW p \in Process, Archive(p) PROVE Attended'
  <2>1. CASE UNCHANGED manifest
    <3>1. \A q \in Process \ {p} : pc'[q] = pc[q]
      BY <1>1, Moved, Exited DEF Archive, Steps
    <3> QED
      BY <1>1, <2>1, <3>1, <1>a DEF Archive, Owning, InTry
  <2>2. CASE manifest' = None
    <3>1. ~Open'
      BY <2>2 DEF Open, Status, JobStatus
    <3> QED
      BY <3>1, AttendedOver
  <2> QED
    BY <1>1, <2>1, <2>2 DEF Archive, ledger
<1>2. ASSUME NEW p \in Process, Create(p) PROVE Attended'
  <2>1. CASE Go(p, "claim")
    <3>1. pc'[p] = "claim"
      BY <2>1, Moved DEF Steps
    <3>2. CASE manifest = None
      <4>1. manifest' = [id |-> Id[p], status |-> "pending", open |-> FALSE, failed |-> FALSE]
        BY <1>2, <3>2 DEF Create
      <4>2. Status' = "pending"
        <5>1. manifest' \in Manifests
          BY <4>1 DEF Manifests, JobStatus
        <5> QED
          BY <4>1, <5>1, RecordsAreThings DEF Status
      <4> QED
        BY <3>1, <4>2 DEF Attended
    <3>3. CASE manifest # None
      <4>1. UNCHANGED manifest /\ (Status = "pending" \/ Exit(p, "error"))
        BY <1>2, <3>3 DEF Create
      <4>2. Status = "pending"
        BY <3>1, <4>1, Exited
      <4>3. Status' = "pending"
        BY <4>1, <4>2 DEF Status
      <4> QED
        BY <3>1, <4>3 DEF Attended
    <3> QED
      BY <3>2, <3>3
  <2>2. CASE Exit(p, "error") /\ UNCHANGED manifest
    <3>1. \A q \in Process \ {p} : pc'[q] = pc[q]
      BY <2>2, Exited
    <3> QED
      BY <1>2, <2>2, <3>1, <1>a DEF Create, Owning, InTry
  <2> QED
    BY <1>2, <2>1, <2>2 DEF Create
<1>3. ASSUME NEW p \in Process, Claim(p) PROVE Attended'
  <2>1. CASE Status = "pending"
    <3>1. Go(p, "prepare") /\ manifest' = [manifest EXCEPT !.status = "validating"]
      BY <1>3, <2>1 DEF Claim
    <3>2. Owning(p)'
      BY <3>1, Moved DEF Steps, Owning, InTry
    <3>3. manifest \in Manifests
      BY <2>1 DEF Types, TypeOK, Manifests, Status
    <3>4. manifest' \in Manifests /\ manifest'.status = "validating"
      BY <3>1, <3>3 DEF Manifests, JobStatus
    <3>5. Status' = "validating"
      BY <3>4, RecordsAreThings DEF Status
    <3> QED
      BY <3>2, <3>5 DEF Attended
  <2>2. CASE Status # "pending"
    <3>1. UNCHANGED manifest /\ \A q \in Process \ {p} : pc'[q] = pc[q]
      BY <1>3, <2>2, Exited DEF Claim
    <3> QED
      BY <1>3, <2>2, <3>1, <1>a DEF Claim, Owning, InTry
  <2> QED
    BY <2>1, <2>2
<1>4. ASSUME NEW p \in Process, Prepare(p) \/ Begin(p) \/ EndDetect(p) \/ Publish(p) \/ Commit(p)
      PROVE Attended'
  <2>1. CASE Status' = "succeeded"
    <3>1. ~Open'
      BY <2>1 DEF Open, TerminalJobStatus
    <3> QED
      BY <3>1, AttendedOver
  <2>2. ASSUME Status' \in {"validating", "running"}, NEW step \in InTry \cup {"fail"}, Go(p, step)
        PROVE Attended'
    <3>1. step \in Steps
      BY DEF InTry, Steps
    <3>2. Owning(p)'
      BY <2>2, <3>1, Moved DEF Owning
    <3> QED
      BY <2>2, <3>2 DEF Attended
  <2> QED
    BY <1>4, <2>1, <2>2, OwnerSteps
<1>5. ASSUME NEW p \in Process, Take(p) \/ Extract(p) \/ Save(p) PROVE Attended'
  <2>1. UNCHANGED <<manifest, pc>>
    BY <1>5 DEF Take, Extract, Save, ledger
  <2>2. \A q \in Process : Owning(q) => Owning(q)'
    BY <2>1 DEF Owning
  <2> QED
    BY <2>1, <2>2, AttendedFrame
<1>6. ASSUME NEW p \in Process, Settle(p, "fail", "failed") \/ Settle(p, "cancel", "cancelled")
      PROVE Attended'
  <2>1. Open /\ Owning(p)
    BY <1>6, Settled, ClaimedIsOpen
  <2>2. \E v \in {"failed", "cancelled"} : manifest' = [manifest EXCEPT !.status = v, !.open = FALSE]
    BY <1>6, <2>1 DEF Settle
  <2>3. manifest \in Manifests
    BY <2>1, ClaimedIsOpen DEF Types, TypeOK, Manifests
  <2>4. manifest'.status \in {"failed", "cancelled"}
    BY <2>2, <2>3 DEF Manifests
  <2>5. ~Open'
    BY <2>4 DEF Open, Status, JobStatus, TerminalJobStatus
  <2> QED
    BY <2>5, AttendedOver
<1>7. ASSUME NEW p \in Process, Summarize(p) PROVE Attended'
  <2>1. UNCHANGED manifest /\ \A q \in Process \ {p} : pc'[q] = pc[q]
    BY <1>7, Exited DEF Summarize
  <2> QED
    BY <1>7, <2>1, <1>a DEF Summarize, Owning, InTry
<1>8. ASSUME NEW p \in Process, Interrupt(p) PROVE Attended'
  <2>1. /\ UNCHANGED manifest /\ Owning(p)
        /\ pc'[p] = "cancel" /\ \A q \in Process \ {p} : pc'[q] = pc[q]
    BY <1>8, Moved DEF Interrupt, ledger, Owning, Steps
  <2>2. \A q \in Process : /\ pc[q] = "claim" /\ Status = "pending" => pc'[q] = "claim"
                           /\ Owning(q) => Owning(q)'
    BY <2>1 DEF Owning, InTry
  <2> QED
    BY <2>1, <2>2, AttendedFrame
<1>9. ASSUME NEW p \in Process, Kill(p) PROVE Attended'
  <2>1. exit'[p] = "killed"
    BY <1>9, Exited DEF Kill
  <2> QED
    BY <2>1
<1>10. CASE OperatorClears
  <2>1. ~Open'
    BY <1>10 DEF OperatorClears, Open, Status, JobStatus
  <2> QED
    BY <2>1, AttendedOver
<1>11. CASE UNCHANGED vars
  BY <1>11, AttendedFrame DEF vars, Owning
<1> QED
  BY <1>1, <1>2, <1>3, <1>4, <1>5, <1>6, <1>7, <1>8, <1>9, <1>10, <1>11 DEF Next, Work

LEMMA IdleKept ==
    ASSUME Types, OwnerInv, IdleInv, [Next]_vars
    PROVE IdleInv'
<1>1. \A p \in Process : exit'[p] = "killed" => pc'[p] = "exited"
  BY OverIsOver DEF IdleInv
<1>2. ASSUME faults' = MaxFaults, \A p \in Process : exit'[p] # "killed" PROVE Attended'
  <2>1. faults = MaxFaults /\ ~Fault
    BY <1>2, BudgetsKept
  <2>2. \A p \in Process : exit[p] # "killed"
    BY <1>2, OverIsOver DEF IdleInv
  <2>3. Attended
    BY <2>1, <2>2 DEF IdleInv, Attended
  <2> QED
    BY <1>2, <2>1, <2>3, AttendedKept
<1> QED
  BY <1>1, <1>2 DEF IdleInv, Attended
-------------------------------------------------------------------------------
(* What the workers of a job have done. *)

\* Nothing of q changes, and what it has done stays in its file or is known to be lost.
LEMMA WorkFrame ==
    ASSUME NEW q \in Process, Worked(q), pc'[q] = pc[q], hand'[q] = hand[q], got'[q] = got[q],
           todo'[q] = todo[q], fails'[q] = fails[q],
           shp' = shp \/ (shp' # None => shp'.by # q),
           pc[q] \in {"detect", "publish"} => \A g \in got[q] :
             txt[g[1]] = [fp |-> Fp[q], kind |-> g[2]] \/ g[1] \in stray
               => txt'[g[1]] = [fp |-> Fp[q], kind |-> g[2]] \/ g[1] \in stray'
    PROVE Worked(q)'
<1>1. Images(q)' = Images(q) /\ InHand(q)' = InHand(q)
  BY DEF Images, InHand
<1>2. pc[q] \in {"detect", "publish"} => Progress(q)'
  BY <1>1 DEF Worked, Progress
<1>3. pc[q] \in Early \cup {"detect", "publish"} => (shp' # None => shp'.by # q)
  BY DEF Worked
<1> QED
  BY <1>2, <1>3 DEF Worked

\* One process moves, no result changes.
LEMMA WorkMoves ==
    ASSUME WorkInv, NEW p \in Process, NEW step,
           pc'[p] = step, \A q \in Process \ {p} : pc'[q] = pc[q],
           UNCHANGED <<txt, shp, fails, got, stray>>, \A q \in Process \ {p} : todo'[q] = todo[q],
           hand' = hand \/ (hand'[p] = None /\ \A q \in Process \ {p} : hand'[q] = hand[q]),
           step \notin {"detect", "publish"},
           hand[p] # None => step = "exited" \/ hand'[p] = None, step \in Early => pc[p] \in Early
    PROVE WorkInv'
<1>1. ASSUME NEW q \in Process \ {p} PROVE Worked(q)'
  <2>1. Worked(q) /\ pc'[q] = pc[q] /\ hand'[q] = hand[q]
    BY DEF WorkInv
  <2> QED
    BY <2>1, WorkFrame
<1>2. Worked(p)'
  <2>1. Worked(p)
    BY DEF WorkInv
  <2>2. hand'[p] # None => step = "exited"
    OBVIOUS
  <2> QED
    BY <2>1, <2>2 DEF Worked
<1> QED
  BY <1>1, <1>2 DEF WorkInv

LEMMA BeginWorks ==
    ASSUME Types, WorkInv, NEW p \in Process, Begin(p)
    PROVE WorkInv'
<1>1. /\ pc[p] = "begin" /\ pc'[p] = "detect" /\ \A q \in Process \ {p} : pc'[q] = pc[q]
      /\ UNCHANGED <<txt, shp, hand, fails, got, stray>>
  BY Moved DEF Begin, Steps
<1>2. todo'[p] = Slice[p] /\ \A q \in Process \ {p} : todo'[q] = todo[q]
  BY DEF Begin, Types, TypeOK
<1>3. ASSUME NEW q \in Process \ {p} PROVE Worked(q)'
  BY <1>1, <1>2, WorkFrame DEF WorkInv
<1>4. got[p] = {} /\ ~fails[p] /\ hand[p] = None /\ (shp # None => shp.by # p)
  BY <1>1 DEF WorkInv, Worked, Early
<1>5. Images(p)' = {} /\ InHand(p)' = {}
  BY <1>1, <1>4 DEF Images, InHand
<1>6. Progress(p)'
  BY <1>1, <1>2, <1>4, <1>5 DEF Progress
<1>7. Worked(p)'
  BY <1>1, <1>4, <1>6 DEF Worked, Early
<1> QED
  BY <1>3, <1>7 DEF WorkInv

LEMMA TakeWorks ==
    ASSUME Types, WorkInv, NEW p \in Process, Take(p)
    PROVE WorkInv'
<1>1. PICK i \in todo[p] :
        /\ todo' = [todo EXCEPT ![p] = @ \ {i}]
        /\ IF Reusable(p, i)
           THEN /\ got' = [got EXCEPT ![p] = @ \cup {<<i, txt[i].kind>>}] /\ UNCHANGED hand
           ELSE /\ hand' = [hand EXCEPT ![p] = <<i, "extract">>] /\ UNCHANGED got
  BY DEF Take
<1>2. /\ UNCHANGED <<txt, shp, fails, stray, pc>>
      /\ pc[p] \in {"detect", "exited"} /\ hand[p] = None
  BY DEF Take
<1>3. todo'[p] = todo[p] \ {i} /\ \A q \in Process \ {p} : todo'[q] = todo[q]
  BY <1>1 DEF Types, TypeOK
<1>4. \A q \in Process \ {p} : got'[q] = got[q] /\ hand'[q] = hand[q]
  BY <1>1 DEF Types
<1>5. ASSUME NEW q \in Process \ {p} PROVE Worked(q)'
  BY <1>2, <1>3, <1>4, WorkFrame DEF WorkInv
<1>6. /\ i \in Image /\ Worked(p) /\ InHand(p) = {}
      /\ pc[p] = "detect" => Progress(p)
  BY <1>2 DEF Types, TypeOK, WorkInv, Worked, InHand
<1>7. CASE pc[p] = "exited"
  <2>1. Worked(p)'
    BY <1>2, <1>7 DEF Worked, Early
  <2> QED
    BY <1>5, <2>1 DEF WorkInv
<1>8. CASE pc[p] = "detect" /\ Reusable(p, i)
  <2> DEFINE g == <<i, txt[i].kind>>
  <2>1. got'[p] = got[p] \cup {g} /\ hand'[p] = None
    BY <1>1, <1>2, <1>8 DEF Types
  <2>2. txt[i] = [fp |-> Fp[p], kind |-> txt[i].kind] /\ txt[i].kind # "error"
    <3>1. txt[i] \in [fp : {Fp[r] : r \in Process}, kind : Kinds]
      BY <1>6, <1>8 DEF Reusable, Types, TypeOK
    <3>2. txt[i] # None /\ txt[i].fp = Fp[p] /\ Intact(i)
      BY <1>8 DEF Reusable
    <3>3. txt[i].kind # "error"
      BY <3>2 DEF Intact
    <3> QED
      BY <3>1, <3>2, <3>3
  <2>3. g[1] = i /\ g[2] = txt[i].kind
    OBVIOUS
  <2> HIDE DEF g
  <2>4. Images(p)' = Images(p) \cup {i} /\ InHand(p)' = {}
    BY <2>1, <2>3 DEF Images, InHand
  <2>5. \A h \in got'[p] : txt'[h[1]] = [fp |-> Fp[p], kind |-> h[2]] \/ h[1] \in stray'
    BY <1>2, <1>6, <1>8, <2>1, <2>2, <2>3 DEF Progress
  <2>6. ~fails[p] => \A h \in got'[p] : h[2] # "error"
    BY <1>6, <1>8, <2>1, <2>2, <2>3 DEF Progress
  <2>7. /\ todo'[p] \cap (Images(p) \cup {i}) = {}
        /\ ~fails[p] => todo'[p] \cup (Images(p) \cup {i}) = Slice[p]
    BY <1>3, <1>6, <1>8 DEF Progress
  <2>8. Progress(p)'
    BY <1>2, <2>4, <2>5, <2>6, <2>7 DEF Progress
  <2>9. Worked(p)'
    BY <1>2, <1>6, <1>8, <2>1, <2>8 DEF Worked, Early
  <2> QED
    BY <1>5, <2>9 DEF WorkInv
<1>9. CASE pc[p] = "detect" /\ ~Reusable(p, i)
  <2>1. hand'[p] = <<i, "extract">> /\ got'[p] = got[p]
    BY <1>1, <1>9 DEF Types
  <2>2. hand'[p] # None
    BY <1>6, <2>1, RecordsAreThings DEF Held
  <2>3. Images(p)' = Images(p) /\ InHand(p)' = {i}
    BY <2>1, <2>2 DEF Images, InHand
  <2>4. /\ {i} \cap (todo'[p] \cup Images(p)) = {} /\ todo'[p] \cap Images(p) = {}
        /\ ~fails[p] => todo'[p] \cup {i} \cup Images(p) = Slice[p]
    BY <1>3, <1>6, <1>9 DEF Progress
  <2>5. Progress(p)'
    BY <1>2, <1>6, <1>9, <2>1, <2>3, <2>4 DEF Progress
  <2>6. Worked(p)'
    BY <1>2, <1>6, <1>9, <2>1, <2>5 DEF Worked, Early
  <2> QED
    BY <1>5, <2>6 DEF WorkInv
<1> QED
  BY <1>2, <1>8, <1>9, <1>7

LEMMA ExtractWorks ==
    ASSUME Types, WorkInv, NEW p \in Process, Extract(p)
    PROVE WorkInv'
<1>1. hand[p] \in Held /\ hand[p] # None /\ UNCHANGED <<txt, shp, todo, got, stray, pc>>
  BY DEF Extract, Types
<1> DEFINE i == hand[p][1]
<1>2. i \in Image /\ \A k \in Kinds : <<i, k>> # None
  BY <1>1, RecordsAreThings DEF Held
<1>3. /\ \A q \in Process \ {p} : hand'[q] = hand[q] /\ fails'[q] = fails[q]
      /\ \/ \E k \in Kinds : hand'[p] = <<i, k>> /\ fails'[p] = fails[p]
         \/ hand'[p] = None /\ fails'[p]
  BY DEF Extract, Types
<1>4. ASSUME NEW q \in Process \ {p} PROVE Worked(q)'
  BY <1>1, <1>3, WorkFrame DEF WorkInv
<1>5. Worked(p)
  BY DEF WorkInv
<1>6. pc[p] \in {"detect", "exited"}
  BY <1>1, <1>5 DEF Worked
<1>7. InHand(p) = {i} /\ Images(p)' = Images(p)
  BY <1>1 DEF InHand, Images
<1>8. (InHand(p)' = {i} /\ fails'[p] = fails[p]) \/ (InHand(p)' = {} /\ fails'[p])
  BY <1>2, <1>3 DEF InHand
<1>9. pc[p] = "detect" => Progress(p)'
  BY <1>1, <1>5, <1>7, <1>8 DEF Progress, Worked
<1>10. Worked(p)'
  BY <1>1, <1>5, <1>6, <1>9 DEF Worked, Early
<1> QED
  BY <1>4, <1>10 DEF WorkInv

LEMMA SaveWorks ==
    ASSUME Types, OwnerInv, WorkInv, NEW p \in Process, Save(p)
    PROVE WorkInv'
<1> DEFINE i == hand[p][1]
           k == hand[p][2]
           r == [fp |-> Fp[p], kind |-> k]
<1>1. hand[p] \in Held /\ hand[p] # None /\ UNCHANGED <<shp, todo, pc>>
  BY DEF Save, Types
<1>2. i \in Image /\ hand[p] = <<i, k>>
  BY <1>1 DEF Held
<1>3. hand'[p] = None /\ \A q \in Process \ {p} : hand'[q] = hand[q]
  BY DEF Save, Types
<1>4. \/ /\ txt' = [txt EXCEPT ![i] = r]
         /\ got' = [got EXCEPT ![p] = @ \cup {hand[p]}]
         /\ fails' = [fails EXCEPT ![p] = @ \/ k = "error"]
         /\ stray' = IF pc[p] = "exited" THEN stray \cup {i} ELSE stray
      \/ fails' = [fails EXCEPT ![p] = TRUE] /\ UNCHANGED <<txt, got, stray>>
  BY DEF Save
<1>5. Worked(p) /\ pc[p] \in {"detect", "exited"}
  BY <1>1 DEF WorkInv, Worked
<1>6. \A q \in Process \ {p} : fails'[q] = fails[q] /\ got'[q] = got[q]
  BY <1>4 DEF Types
<1>7. \A j \in Image : j # i => txt'[j] = txt[j]
  BY <1>4 DEF Types, TypeOK
<1>8. stray \subseteq stray'
  BY <1>4
<1>9. ASSUME NEW q \in Process \ {p} PROVE Worked(q)'
  <2>1. ASSUME pc[q] \in {"detect", "publish"}, NEW g \in got[q],
               txt[g[1]] = [fp |-> Fp[q], kind |-> g[2]] \/ g[1] \in stray
        PROVE txt'[g[1]] = [fp |-> Fp[q], kind |-> g[2]] \/ g[1] \in stray'
    <3>1. Owning(q)
      BY <2>1 DEF Owning, InTry
    <3>2. ~Owning(p)
      BY <3>1, ClaimedIsOpen
    <3>3. pc[p] = "exited"
      BY <1>5, <3>2 DEF Owning, InTry
    <3>4. g[1] \in Image
      BY DEF Types
    <3>5. CASE g[1] # i
      BY <2>1, <1>7, <1>8, <3>4, <3>5
    <3>6. CASE g[1] = i
      BY <2>1, <1>4, <3>3, <3>6
    <3> QED
      BY <3>5, <3>6
  <2>2. Worked(q)
    BY DEF WorkInv
  <2> QED
    BY <1>1, <1>3, <1>6, <2>1, <2>2, WorkFrame
<1>10. CASE pc[p] = "exited"
  <2>1. Worked(p)'
    BY <1>1, <1>3, <1>10 DEF Worked, Early
  <2> QED
    BY <1>9, <2>1 DEF WorkInv
<1>11. CASE pc[p] = "detect"
  <2>1. Progress(p) /\ InHand(p) = {i} /\ InHand(p)' = {}
    BY <1>1, <1>3, <1>5, <1>11 DEF Worked, InHand
  <2>2. \A g \in got[p] : g[1] # i /\ g[1] \in Image
    BY <2>1 DEF Progress, Images, Types
  <2>3. ASSUME txt' = [txt EXCEPT ![i] = r],
               got' = [got EXCEPT ![p] = @ \cup {hand[p]}],
               fails' = [fails EXCEPT ![p] = @ \/ k = "error"]
        PROVE Progress(p)'
    <3>1. txt'[i] = r
      BY <1>2, <2>3 DEF Types, TypeOK
    <3>2. got'[p] = got[p] \cup {hand[p]}
      BY <2>3 DEF Types
    <3>3. ~fails'[p] => ~fails[p] /\ k # "error"
      BY <2>3 DEF Types
    <3>4. Images(p)' = Images(p) \cup {i}
      BY <1>2, <3>2 DEF Images
    <3>5. \A g \in got'[p] : txt'[g[1]] = [fp |-> Fp[p], kind |-> g[2]] \/ g[1] \in stray'
      <4>1. \A g \in got[p] : txt'[g[1]] = [fp |-> Fp[p], kind |-> g[2]] \/ g[1] \in stray'
        BY <1>7, <1>8, <2>1, <2>2 DEF Progress
      <4>2. txt'[hand[p][1]] = [fp |-> Fp[p], kind |-> hand[p][2]]
        BY <3>1
      <4> QED
        BY <3>2, <4>1, <4>2
    <3>6. ~fails'[p] => \A g \in got'[p] : g[2] # "error"
      BY <2>1, <3>2, <3>3 DEF Progress
    <3>7. /\ todo[p] \cap (Images(p) \cup {i}) = {}
          /\ ~fails'[p] => todo[p] \cup (Images(p) \cup {i}) = Slice[p]
      BY <2>1, <3>3 DEF Progress
    <3> QED
      BY <1>1, <2>1, <3>4, <3>5, <3>6, <3>7 DEF Progress
  <2>4. ASSUME fails' = [fails EXCEPT ![p] = TRUE], UNCHANGED <<txt, got, stray>>
        PROVE Progress(p)'
    <3>1. fails'[p] /\ Images(p)' = Images(p)
      BY <2>4 DEF Images, Types
    <3> QED
      BY <1>1, <2>1, <2>4, <3>1 DEF Progress
  <2>5. Progress(p)'
    BY <1>4, <2>3, <2>4
  <2>6. Worked(p)'
    BY <1>1, <1>3, <1>5, <1>11, <2>5 DEF Worked, Early
  <2> QED
    BY <1>9, <2>6 DEF WorkInv
<1> QED
  BY <1>5, <1>10, <1>11

LEMMA WorkKept ==
    ASSUME Types, OwnerInv, WorkInv, [Next]_vars
    PROVE WorkInv'
<1>a. ASSUME NEW p \in Process, UNCHANGED <<txt, shp, todo, hand, fails, got, stray>>,
             pc[p] # "exited",
             \/ \E how : Exit(p, how)
             \/ \E step \in Steps \ {"detect", "publish"} :
                  /\ Go(p, step)
                  /\ pc[p] # "detect" \/ hand[p] = None
                  /\ step \in Early => pc[p] \in Early
      PROVE WorkInv'
  <2>1. \A q \in Process \ {p} : pc'[q] = pc[q]
    BY <1>a, Moved, Exited
  <2>2. CASE \E how : Exit(p, how)
    <3>1. pc'[p] = "exited"
      BY <2>2, Exited
    <3> QED
      BY <1>a, <2>1, <3>1, WorkMoves DEF Early
  <2>3. ASSUME NEW step \in Steps \ {"detect", "publish"}, Go(p, step),
               pc[p] # "detect" \/ hand[p] = None, step \in Early => pc[p] \in Early
        PROVE WorkInv'
    <3>1. pc'[p] = step
      BY <2>3, Moved
    <3>2. hand[p] = None
      BY <1>a, <2>3 DEF WorkInv, Worked
    <3> QED
      BY <1>a, <2>1, <2>3, <3>1, <3>2, WorkMoves
  <2> QED
    BY <1>a, <2>2, <2>3
<1>1. ASSUME NEW p \in Process, Archive(p) \/ Create(p) \/ Claim(p) PROVE WorkInv'
  BY <1>1, <1>a DEF Archive, Create, Claim, results, Early, Steps
<1>2. ASSUME NEW p \in Process, Prepare(p) PROVE WorkInv'
  BY <1>2, <1>a DEF Prepare, StageFails, results, Early, Steps
<1>3. ASSUME NEW p \in Process, EndDetect(p) PROVE WorkInv'
  <2>1. CASE fails[p]
    BY <1>3, <2>1, <1>a DEF EndDetect, results, Early, Steps
  <2>2. CASE ~fails[p]
    <3>1. /\ pc[p] = "detect" /\ todo[p] = {} /\ hand[p] = None
          /\ UNCHANGED <<txt, shp, todo, hand, fails, got, stray>> /\ Go(p, "publish")
      BY <1>3, <2>2 DEF EndDetect, results
    <3>2. pc'[p] = "publish" /\ \A q \in Process \ {p} : pc'[q] = pc[q]
      BY <3>1, Moved DEF Steps
    <3>3. ASSUME NEW q \in Process \ {p} PROVE Worked(q)'
      BY <3>1, <3>2, WorkFrame DEF WorkInv
    <3>4. Worked(p) /\ Progress(p)
      BY <3>1 DEF WorkInv, Worked
    <3>5. Images(p)' = Images(p) /\ InHand(p)' = InHand(p)
      BY <3>1 DEF Images, InHand
    <3>6. Progress(p)'
      BY <3>1, <3>4, <3>5 DEF Progress
    <3>7. Worked(p)'
      BY <2>2, <3>1, <3>2, <3>4, <3>6 DEF Worked, Early
    <3> QED
      BY <3>3, <3>7 DEF WorkInv
  <2> QED
    BY <2>1, <2>2
<1>4. ASSUME NEW p \in Process, Begin(p) \/ Take(p) \/ Extract(p) \/ Save(p) PROVE WorkInv'
  BY <1>4, BeginWorks, TakeWorks, ExtractWorks, SaveWorks
<1>5. ASSUME NEW p \in Process, Publish(p) PROVE WorkInv'
  <2>1. /\ pc[p] = "publish" /\ UNCHANGED <<txt, todo, hand, fails, got, stray>>
        /\ \/ shp' = [by |-> p, images |-> Collected(p)] /\ Go(p, "commit")
           \/ UNCHANGED shp /\ Go(p, "fail")
    BY <1>5 DEF Publish, StageFails
  <2>2. pc'[p] \in {"commit", "fail"} /\ \A q \in Process \ {p} : pc'[q] = pc[q]
    BY <2>1, Moved DEF Steps
  <2>3. ASSUME NEW q \in Process \ {p} PROVE Worked(q)'
    <3>1. shp' = shp \/ (shp' # None => shp'.by # q)
      BY <2>1
    <3> QED
      BY <2>1, <2>2, <3>1, WorkFrame DEF WorkInv
  <2>4. hand'[p] = None
    BY <2>1 DEF WorkInv, Worked
  <2>5. Worked(p)'
    BY <2>2, <2>4 DEF Worked, Early
  <2> QED
    BY <2>3, <2>5 DEF WorkInv
<1>6. ASSUME NEW p \in Process, Commit(p) PROVE WorkInv'
  BY <1>6, <1>a DEF Commit, StageFails, results, Early, Steps
<1>7. ASSUME NEW p \in Process, Settle(p, "fail", "failed") \/ Settle(p, "cancel", "cancelled")
      PROVE WorkInv'
  BY <1>7, <1>a DEF Settle, results, Early, Steps
<1>8. ASSUME NEW p \in Process, Summarize(p) PROVE WorkInv'
  BY <1>8, <1>a DEF Summarize, results
<1>9. ASSUME NEW p \in Process, Interrupt(p) PROVE WorkInv'
  <2>1. /\ pc'[p] = "cancel" /\ \A q \in Process \ {p} : pc'[q] = pc[q]
        /\ UNCHANGED <<txt, shp, fails, got, stray>>
    BY <1>9, Moved DEF Interrupt, Steps
  <2>2. /\ hand'[p] = None
        /\ \A q \in Process \ {p} : hand'[q] = hand[q] /\ todo'[q] = todo[q]
    BY <1>9 DEF Interrupt, Types, TypeOK
  <2> QED
    BY <2>1, <2>2, WorkMoves DEF Early
<1>10. ASSUME NEW p \in Process, Kill(p) PROVE WorkInv'
  <2>1. /\ pc'[p] = "exited" /\ \A q \in Process \ {p} : pc'[q] = pc[q]
        /\ UNCHANGED <<txt, fails, got, stray>>
    BY <1>10, Exited DEF Kill
  <2>2. \A q \in Process \ {p} : hand'[q] = hand[q] /\ todo'[q] = todo[q]
    BY <1>10 DEF Kill, Types, TypeOK
  <2>3. shp' = shp \/ (shp' # None => shp'.by = None)
    BY <1>10 DEF Kill
  <2>4. ASSUME NEW q \in Process \ {p} PROVE Worked(q)'
    <3>1. shp' = shp \/ (shp' # None => shp'.by # q)
      BY <2>3, RecordsAreThings
    <3> QED
      BY <2>1, <2>2, <3>1, WorkFrame DEF WorkInv
  <2>5. Worked(p)'
    BY <2>1 DEF Worked, Early
  <2> QED
    BY <2>4, <2>5 DEF WorkInv
<1>11. CASE OperatorClears \/ UNCHANGED vars
  <2>1. UNCHANGED <<pc, txt, shp, todo, hand, fails, got, stray>>
    BY <1>11 DEF OperatorClears, results, vars
  <2> QED
    BY <2>1, WorkFrame DEF WorkInv
<1> QED
  BY <1>1, <1>2, <1>3, <1>4, <1>5, <1>6, <1>7, <1>8, <1>9, <1>10, <1>11 DEF Next, Work

-------------------------------------------------------------------------------
(* What the published bundles hold. *)

LEMMA PublishedFrame ==
    ASSUME WorkInv, PublishedInv, UNCHANGED shp, foreign \subseteq foreign', stray \subseteq stray',
           \A q \in Process : pc'[q] = "commit" => pc[q] = "commit",
           \A q \in Process :
             hand[q] = None /\ pc[q] \notin {"begin", "detect"} /\ todo[q] = {}
               => hand'[q] = None /\ got'[q] = got[q] /\ todo'[q] = {},
           Status' = "succeeded" =>
             \/ Status = "succeeded" /\ Owner' = Owner
             \/ \E p \in Process : pc[p] = "commit" /\ (Owner' = Id[p] \/ p \in foreign)
    PROVE PublishedInv'
<1>1. ASSUME NEW p \in Process, shp # None, shp.by = p
      PROVE hand'[p] = None /\ got'[p] = got[p] /\ todo'[p] = {}
  <2>1. hand[p] = None /\ pc[p] \notin {"begin", "detect"} /\ todo[p] = {}
    BY <1>1 DEF PublishedInv, WorkInv, Worked, Early
  <2> QED
    BY <2>1
<1>2. PublishedIsComplete'
  BY <1>1 DEF PublishedInv, PublishedIsComplete
<1>3. SucceededDescribesRoot'
  <2>1. CASE Status = "succeeded" /\ Owner' = Owner
    BY <2>1 DEF PublishedInv, SucceededDescribesRoot
  <2>2. ASSUME NEW p \in Process, pc[p] = "commit", Owner' = Id[p] \/ p \in foreign
        PROVE shp' # None /\ shp'.by # None /\ (Owner' = Id[shp'.by] \/ shp'.by \in foreign')
    BY <2>2, RecordsAreThings DEF PublishedInv
  <2> QED
    BY <2>1, <2>2 DEF SucceededDescribesRoot
<1> QED
  BY <1>1, <1>2, <1>3 DEF PublishedInv

LEMMA PublishDeclares ==
    ASSUME Types, OwnerInv, WorkInv, PublishedInv, NEW p \in Process, Publish(p)
    PROVE PublishedInv'
<1>1. /\ pc[p] = "publish" /\ Owning(p) /\ UNCHANGED <<foreign, hand, todo, got, stray>>
  BY DEF Publish, StageFails, Owning, InTry
<1>2. Status' # "succeeded"
  BY <1>1, OwnerSteps
<1>3. \A q \in Process : pc[q] # "commit"
  BY <1>1, ClaimedIsOpen DEF Owning, InTry
<1>4. CASE shp' = [by |-> p, images |-> Collected(p)] /\ Go(p, "commit")
  <2>1. pc'[p] = "commit" /\ \A q \in Process \ {p} : pc'[q] = pc[q]
    BY <1>4, Moved DEF Steps
  <2>2. shp' \in Bundles /\ shp'.by = p /\ shp'.images = Collected(p)
    BY <1>4 DEF Bundles, Collected
  <2>3. Progress(p) /\ ~fails[p] /\ todo[p] = {} /\ hand[p] = None
    BY <1>1 DEF WorkInv, Worked
  <2>4. Images(p) = Slice[p]
    BY <2>3 DEF Progress, InHand
  <2>5. ASSUME NEW g \in got[p], Exported(g[2]) PROVE g[1] \in Collected(p) \cup stray
    <3>1. g[1] \in Image /\ g[2] \in Kinds
      BY DEF Types
    <3>2. CASE txt[g[1]] = [fp |-> Fp[p], kind |-> g[2]]
      <4>1. txt[g[1]] # None
        BY <3>1, <3>2, NoneIsNothing
      <4> QED
        BY <2>5, <3>1, <3>2, <4>1 DEF Collected
    <3>3. CASE g[1] \in stray
      BY <3>3
    <3> QED
      BY <2>3, <3>2, <3>3 DEF Progress
  <2>6. PublishedIsComplete'
    <3>1. {g[1] : g \in got'[p]} = Slice[p]
      BY <1>1, <2>4 DEF Images
    <3>2. \A g \in got'[p] : g[2] # "error" /\ (Exported(g[2]) => g[1] \in shp'.images \cup stray')
      BY <1>1, <2>2, <2>3, <2>5 DEF Progress
    <3> QED
      BY <2>2, <3>1, <3>2 DEF PublishedIsComplete
  <2>7. shp' # None
    BY <2>2, RecordsAreThings
  <2> QED
    BY <1>1, <1>2, <1>3, <2>1, <2>2, <2>3, <2>6, <2>7 DEF PublishedInv, SucceededDescribesRoot
<1>5. CASE UNCHANGED shp /\ Go(p, "fail")
  <2>1. \A q \in Process : pc'[q] = "commit" => pc[q] = "commit"
    BY <1>5, Moved DEF Steps
  <2> QED
    BY <1>1, <1>2, <1>5, <2>1, PublishedFrame
<1> QED
  BY <1>4, <1>5 DEF Publish, StageFails

LEMMA KillLeaves ==
    ASSUME Types, OwnerInv, WorkInv, PublishedInv, NEW p \in Process, Kill(p)
    PROVE PublishedInv'
<1>1. /\ UNCHANGED <<manifest, foreign, got, stray>>
      /\ pc'[p] = "exited" /\ \A q \in Process \ {p} : pc'[q] = pc[q]
      /\ shp' = shp \/ (pc[p] = "publish" /\ shp' = [by |-> None, images |-> {}])
      /\ hand' \in {hand, [hand EXCEPT ![p] = None]}
  BY Exited DEF Kill, ledger
<1>2. \A q \in Process : /\ hand[q] = None => hand'[q] = None
                         /\ todo[q] = {} => todo'[q] = {}
                         /\ pc'[q] = "commit" => pc[q] = "commit"
  BY <1>1 DEF Kill, Types, TypeOK
<1>3. CASE UNCHANGED shp
  <2>1. Status' = Status /\ Owner' = Owner
    BY <1>1 DEF Status, Owner
  <2> QED
    BY <1>1, <1>2, <1>3, <2>1, PublishedFrame
<1>4. CASE pc[p] = "publish" /\ shp' = [by |-> None, images |-> {}]
  <2>1. Owning(p)
    BY <1>4 DEF Owning, InTry
  <2>2. \A q \in Process : pc[q] # "commit"
    BY <2>1, <1>4, ClaimedIsOpen DEF Owning, InTry
  <2>3. Status' # "succeeded"
    BY <1>1, <2>1 DEF OwnerInv, Status
  <2>4. \A q \in Process : shp'.by # q
    BY <1>4, RecordsAreThings
  <2> QED
    BY <1>2, <2>2, <2>3, <2>4 DEF PublishedInv, PublishedIsComplete, SucceededDescribesRoot
<1> QED
  BY <1>1, <1>3, <1>4

LEMMA PublishedKept ==
    ASSUME Types, OwnerInv, WorkInv, PublishedInv, [Next]_vars
    PROVE PublishedInv'
<1>a. foreign \subseteq foreign'
  BY LedgerStep
<1>b. ASSUME UNCHANGED <<shp, stray, hand, got>>,
             \A q \in Process : todo[q] = {} /\ pc[q] # "begin" => todo'[q] = {},
             \A q \in Process : pc'[q] = "commit" => pc[q] = "commit",
             Status' # "succeeded" \/ UNCHANGED manifest
      PROVE PublishedInv'
  <2>1. Status' = "succeeded" => Status = "succeeded" /\ Owner' = Owner
    BY <1>b DEF Status, Owner
  <2> QED
    BY <1>a, <1>b, <2>1, PublishedFrame
<1>1. ASSUME NEW p \in Process, Archive(p) PROVE PublishedInv'
  <2>1. UNCHANGED manifest \/ manifest' = None
    BY <1>1 DEF Archive, ledger
  <2>2. \A q \in Process : pc'[q] = "commit" => pc[q] = "commit"
    BY <1>1, Moved, Exited DEF Archive, Steps
  <2> QED
    BY <1>1, <2>1, <2>2, <1>b DEF Archive, results, Status
<1>2. ASSUME NEW p \in Process, Create(p) PROVE PublishedInv'
  <2>1. UNCHANGED manifest \/ manifest' = [id |-> Id[p], status |-> "pending", open |-> FALSE, failed |-> FALSE]
    BY <1>2 DEF Create
  <2>2. UNCHANGED manifest \/ Status' # "succeeded"
    BY <2>1 DEF Status
  <2>3. \A q \in Process : pc'[q] = "commit" => pc[q] = "commit"
    BY <1>2, Moved, Exited DEF Create, Steps
  <2> QED
    BY <1>2, <2>2, <2>3, <1>b DEF Create, results
<1>3. ASSUME NEW p \in Process, Claim(p) PROVE PublishedInv'
  <2>1. UNCHANGED manifest \/ Status' # "succeeded"
    <3>1. CASE Status = "pending"
      <4>1. manifest \in Manifests /\ manifest' = [manifest EXCEPT !.status = "validating"]
        BY <1>3, <3>1 DEF Claim, Types, TypeOK, Manifests, Status
      <4>2. manifest'.status = "validating"
        BY <4>1 DEF Manifests
      <4> QED
        BY <4>2 DEF Status
    <3>2. CASE Status # "pending"
      BY <1>3, <3>2 DEF Claim
    <3> QED
      BY <3>1, <3>2
  <2>2. \A q \in Process : pc'[q] = "commit" => pc[q] = "commit"
    BY <1>3, Moved, Exited DEF Claim, Steps
  <2> QED
    BY <1>3, <2>1, <2>2, <1>b DEF Claim
<1>4. ASSUME NEW p \in Process, Prepare(p) \/ Begin(p) \/ EndDetect(p) PROVE PublishedInv'
  <2>1. Status' # "succeeded"
    BY <1>4, OwnerSteps DEF Prepare, StageFails, Begin, EndDetect
  <2>2. \A q \in Process : pc'[q] = "commit" => pc[q] = "commit"
    BY <1>4, Moved DEF Prepare, StageFails, Begin, EndDetect, Steps
  <2>3. \A q \in Process : todo[q] = {} /\ pc[q] # "begin" => todo'[q] = {}
    BY <1>4 DEF Prepare, StageFails, Begin, EndDetect, results, Types, TypeOK
  <2> QED
    BY <1>4, <2>1, <2>2, <2>3, <1>b DEF Prepare, StageFails, Begin, EndDetect, results
<1>5. ASSUME NEW p \in Process, Take(p) \/ Extract(p) \/ Save(p) PROVE PublishedInv'
  <2>1. UNCHANGED <<manifest, shp, pc, foreign>> /\ stray \subseteq stray'
    BY <1>5 DEF Take, Extract, Save, ledger
  <2>2. hand[p] # None \/ todo[p] # {}
    BY <1>5 DEF Take, Extract, Save
  <2>3. \A q \in Process \ {p} : hand'[q] = hand[q] /\ got'[q] = got[q] /\ todo'[q] = todo[q]
    BY <1>5 DEF Take, Extract, Save, Types, TypeOK
  <2>4. Status' = Status /\ Owner' = Owner
    BY <2>1 DEF Status, Owner
  <2> QED
    BY <2>1, <2>2, <2>3, <2>4, PublishedFrame
<1>6. ASSUME NEW p \in Process, Publish(p) PROVE PublishedInv'
  BY <1>6, PublishDeclares
<1>7. ASSUME NEW p \in Process, Commit(p) PROVE PublishedInv'
  <2>1. pc[p] = "commit" /\ UNCHANGED <<shp, stray, hand, todo, got>>
    BY <1>7 DEF Commit, StageFails, results
  <2>2. Owner' = Id[p] \/ p \in foreign
    BY <1>7, OwnerSteps, ClaimedIsOpen
  <2>3. \A q \in Process : pc'[q] = "commit" => pc[q] = "commit"
    BY <1>7, Moved DEF Commit, StageFails, Steps
  <2> QED
    BY <1>a, <2>1, <2>2, <2>3, PublishedFrame
<1>8. ASSUME NEW p \in Process, Settle(p, "fail", "failed") \/ Settle(p, "cancel", "cancelled")
      PROVE PublishedInv'
  <2>1. Status' # "succeeded" \/ UNCHANGED manifest
    BY <1>8, Settled
  <2>2. \A q \in Process : pc'[q] = "commit" => pc[q] = "commit"
    BY <1>8, Moved DEF Settle, Steps
  <2> QED
    BY <1>8, <2>1, <2>2, <1>b DEF Settle, results
<1>9. ASSUME NEW p \in Process, Summarize(p) PROVE PublishedInv'
  <2>1. \A q \in Process : pc'[q] = "commit" => pc[q] = "commit"
    BY <1>9, Exited DEF Summarize
  <2> QED
    BY <1>9, <2>1, <1>b DEF Summarize, results
<1>10. ASSUME NEW p \in Process, Interrupt(p) PROVE PublishedInv'
  <2>1. UNCHANGED <<manifest, shp, foreign, stray, got>>
    BY <1>10 DEF Interrupt, ledger
  <2>2. \A q \in Process : /\ pc'[q] = "commit" => pc[q] = "commit"
                           /\ hand[q] = None => hand'[q] = None
                           /\ todo[q] = {} => todo'[q] = {}
    BY <1>10, Moved DEF Interrupt, Steps, Types, TypeOK
  <2>3. Status' = Status /\ Owner' = Owner
    BY <2>1 DEF Status, Owner
  <2> QED
    BY <2>1, <2>2, <2>3, PublishedFrame
<1>11. ASSUME NEW p \in Process, Kill(p) PROVE PublishedInv'
  BY <1>11, KillLeaves
<1>12. CASE OperatorClears
  BY <1>12, <1>b DEF OperatorClears, results, Status
<1>13. CASE UNCHANGED vars
  BY <1>13, <1>b DEF vars
<1> QED
  BY <1>1, <1>2, <1>3, <1>4, <1>5, <1>6, <1>7, <1>8, <1>9, <1>10, <1>11, <1>12, <1>13 DEF Next, Work

-------------------------------------------------------------------------------
(* The invariant and the theorems. *)

LEMMA InitIndInv == Init => IndInv
<1> SUFFICES ASSUME Init PROVE IndInv
  OBVIOUS
<1>1. Types
  BY InitTypes
<1>2. Status = "none" /\ ~Open /\ \A p \in Process : ~Owning(p) /\ pc[p] = "start"
  BY DEF Init, Status, Open, JobStatus, Owning, InTry
<1>3. OwnerInv
  BY <1>2 DEF OwnerInv, OneOwner, Init
<1>4. \A p \in Process : exit[p] = None /\ hand[p] = None /\ got[p] = {} /\ ~fails[p]
  BY DEF Init
<1>5. VerdictInv
  <2>1. \A p \in Process : exit[p] # "ok"
    BY <1>4, NoneIsNothing
  <2> QED
    BY <1>2, <2>1 DEF VerdictInv
<1>6. IdleInv
  <2>1. \A p \in Process : exit[p] # "killed"
    BY <1>4, NoneIsNothing
  <2> QED
    BY <1>2, <2>1 DEF IdleInv
<1>7. WorkInv /\ PublishedInv
  BY <1>2, <1>4 DEF Init, WorkInv, Worked, Early, PublishedInv, PublishedIsComplete,
     SucceededDescribesRoot
<1> QED
  BY <1>1, <1>3, <1>5, <1>6, <1>7 DEF IndInv

LEMMA NextIndInv == IndInv /\ [Next]_vars => IndInv'
  BY TypesKept, OwnerKept, VerdictsStay, IdleKept, WorkKept, PublishedKept DEF IndInv

\* The strengthened invariant holds in every reachable state, for any number of
\* processes, any job ids, slices and fingerprints, any faults and kills.
THEOREM Invariance == Spec => []IndInv
  BY InitIndInv, NextIndInv, PTL DEF Spec

\* The variables of the output directory keep their types.
THEOREM TypeCorrectness == Spec => []TypeOK
<1>1. IndInv => TypeOK
  BY DEF IndInv, Types
<1> QED
  BY Invariance, <1>1, PTL

\* The directory belongs to one job at a time, the manifest, the history and the exits
\* agree on how it went, a job that is over leaves the directory free, and what is
\* published is complete (run_pipeline, RunManifestStore).
THEOREM LedgerSafety == Spec => []LedgerSound
<1>1. IndInv => ExitHonest
  BY DEF IndInv, VerdictInv, OnRecord, ExitHonest
<1>2. IndInv => RootReleased
  BY DEF IndInv, IdleInv, RootReleased, Owning, InTry
<1>3. IndInv => LedgerSound
  BY <1>1, <1>2 DEF IndInv, OwnerInv, PublishedInv, LedgerSound
<1> QED
  BY Invariance, <1>3, PTL

\* A verdict in the manifest is never changed, and leaves the directory only for the
\* history (RunManifestStore.update, archive_terminal).
THEOREM VerdictSafety == Spec => VerdictsKept
<1>1. IndInv /\ [Next]_vars =>
        [~Open /\ manifest # None => manifest' = manifest \/ Record(manifest) \in history']_vars
  BY LedgerStep DEF IndInv
<1> QED
  BY Invariance, <1>1, PTL DEF Spec, VerdictsKept

-------------------------------------------------------------------------------
(* The boxes of a frame.  A search is at a run: every run before it has no result, and of
   its own models each is still to be read, has no result or is taken. *)

\* What the variables of the search hold, and that nothing is taken before the first run.
BoxTypes ==
    /\ runs \in Seq(CompletedRun)
    /\ turn \in Nat /\ turn # 0 /\ turn <= Len(runs) + 1
    /\ bytes \in 0..MaxRequest
    /\ unread \in SUBSET ModelKey /\ taken \in SUBSET ModelKey
    /\ short \in BOOLEAN
    /\ turn = 1 => unread = {} /\ taken = {}

\* The n-th run was read without a cut: each model has no result or is where it says.
ReadUpTo(n) ==
    runs[n].readable =>
        \A key \in ModelKeys(runs[n], MaxRequest).keys :
            key \in unread \cup taken \/ runs[n].result[key] = NoResult

SearchInv ==
    /\ \A n \in 1..(turn - 2) : Resultless(n)
    /\ (turn # 1 /\ ~short) => ReadUpTo(turn - 1)
    /\ short => unread = {}

\* Only models of a run that can be read are read; what is taken has a file.
TakenInv ==
    /\ unread \cup taken # {} => runs[turn - 1].readable
    /\ \A key \in taken : FileOf(key) # NoResult

\* Nothing is shown before the answer, which holds what was assembled.
AnswerInv ==
    /\ display.done \in BOOLEAN
    /\ ~display.done => display.shown = {} /\ display.hidden = {}
    /\ display.done =>
        /\ unread = {} /\ ~Looking
        /\ AllItems = Assembled
        /\ display.truncated = (short \/ LeftOver)

\* The inductive invariant of the search for the boxes of a frame.
BoxInv == BoxTypes /\ SearchInv /\ TakenInv /\ AnswerInv

-------------------------------------------------------------------------------
\* An entry of a sequence is of the set it is over.
LEMMA Entry ==
    ASSUME NEW S, NEW s \in Seq(S), NEW n \in 1..Len(s)
    PROVE  s[n] \in S
OBVIOUS

\* Models that are found within what is left of the budget are those of the whole budget.
LEMMA SameModels ==
    ASSUME NEW run \in CompletedRun, NEW budget \in 0..MaxRequest
    PROVE  /\ ModelKeys(run, budget).keys \in SUBSET ModelKey
           /\ ModelKeys(run, budget).used \in 0..budget
           /\ ModelKeys(run, budget).cut \in BOOLEAN
           /\ ModelKeys(run, budget).cut => ModelKeys(run, budget).keys = {}
           /\ ~ModelKeys(run, budget).cut =>
                ModelKeys(run, budget).keys = ModelKeys(run, MaxRequest).keys
<1> USE ShelfAssumption
<1> DEFINE listed == run.list # NoList /\ Bounded(run.listSize, MaxManifest)
           used == IF Bounded(run.listSize, MaxManifest) THEN run.listSize ELSE 0
           good == {n \in 1..Len(run.list) : run.list[n].status \in {"unsaid", "completed"}}
           named == IF listed THEN {run.list[n].key : n \in good} ELSE {}
           Listing(b) ==
               IF used > b THEN [keys |-> {}, used |-> 0, cut |-> TRUE]
               ELSE IF listed /\ Len(run.list) > MaxModels
                    THEN [keys |-> {}, used |-> used, cut |-> TRUE]
               ELSE IF named # {} THEN [keys |-> named, used |-> used, cut |-> FALSE]
               ELSE IF Cardinality(run.folders) > MaxModels
                    THEN [keys |-> {}, used |-> used, cut |-> TRUE]
               ELSE [keys |-> run.folders, used |-> used, cut |-> FALSE]
<1>1. \A b : ModelKeys(run, b) = Listing(b)
  BY Zenon DEF ModelKeys
<1>2. used \in Nat
  BY DEF CompletedRun
<1>3. run.folders \in SUBSET ModelKey
  BY DEF CompletedRun
<1>4. named \in SUBSET ModelKey
  <2>1. CASE listed
    <3>1. run.list \in Seq([key : ModelKey, status : STRING])
      BY <2>1 DEF CompletedRun
    <3>2. ASSUME NEW n \in good PROVE run.list[n].key \in ModelKey
      <4>1. n \in 1..Len(run.list)
        OBVIOUS
      <4>2. run.list[n] \in [key : ModelKey, status : STRING]
        BY <3>1, <4>1, Entry
      <4> QED BY <4>2
    <3> QED BY <2>1, <3>2
  <2>2. CASE ~listed
    BY <2>2
  <2> QED BY <2>1, <2>2
<1> HIDE DEF used, named, listed
<1>5. used > budget \/ ~(used > MaxRequest)
  BY <1>2
<1>6. Listing(budget).used \in 0..budget
  BY <1>2
<1>7. /\ Listing(budget).keys \in SUBSET ModelKey
      /\ Listing(budget).cut \in BOOLEAN
      /\ Listing(budget).cut => Listing(budget).keys = {}
      /\ ~Listing(budget).cut => Listing(budget).keys = Listing(MaxRequest).keys
  BY <1>3, <1>4, <1>5
<1> HIDE DEF Listing
<1>8. ModelKeys(run, budget) = Listing(budget) /\ ModelKeys(run, MaxRequest) = Listing(MaxRequest)
  BY <1>1
<1> QED BY <1>6, <1>7, <1>8

\* The file of a model that is taken has the type of a file.
LEMMA FileTypes ==
    ASSUME BoxTypes, turn # 1
    PROVE  /\ turn - 1 \in 1..Len(runs)
           /\ runs[turn - 1] \in CompletedRun
           /\ \A key \in ModelKey : FileOf(key) # NoResult => FileOf(key) \in ResultFile
<1>1. turn - 1 \in 1..Len(runs)
  BY DEF BoxTypes
<1>2. runs[turn - 1] \in CompletedRun
  BY <1>1 DEF BoxTypes
<1>3. runs[turn - 1].result \in [ModelKey -> {NoResult} \cup ResultFile]
  BY <1>2 DEF CompletedRun
<1> QED BY <1>1, <1>2, <1>3 DEF FileOf

-------------------------------------------------------------------------------
\* A search begins in its invariant.
LEMMA BoxStart == BoxInit => BoxInv
<1> USE ShelfAssumption
<1> SUFFICES ASSUME BoxInit PROVE BoxInv
  OBVIOUS
<1>1. BoxTypes
  <2>1. runs \in Seq(CompletedRun) /\ Len(runs) \in Nat
    BY DEF BoxInit
  <2>2. bytes \in 0..MaxRequest
    BY DEF BoxInit
  <2>3. short \in BOOLEAN
    BY Zenon DEF BoxInit
  <2> QED BY <2>1, <2>2, <2>3 DEF BoxInit, BoxTypes
<1>2. SearchInv /\ TakenInv
  BY DEF BoxInit, SearchInv, TakenInv
<1>3. AnswerInv
  BY DEF BoxInit, AnswerInv
<1> QED BY <1>1, <1>2, <1>3 DEF BoxInv

\* While the search goes on, there is no answer yet.
LEMMA NoAnswer ==
    ASSUME BoxInv, Looking \/ unread # {}
    PROVE  ~display.done /\ display.shown = {} /\ display.hidden = {}
BY DEF BoxInv, AnswerInv

\* A run is opened only when every run before it was read and had nothing.
LEMMA OpenKeeps ==
    ASSUME BoxInv, OpenRun
    PROVE  BoxInv'
<1> USE ShelfAssumption
<1> DEFINE models == ModelKeys(runs[turn], bytes)
<1>1. /\ Looking /\ turn' = turn + 1
      /\ runs' = runs /\ taken' = {} /\ taken = {} /\ unread = {} /\ ~short /\ display' = display
  BY DEF OpenRun, Looking
<1>2. turn \in 1..Len(runs) /\ runs[turn] \in CompletedRun
  BY <1>1 DEF Looking, CompletedRuns, BoxInv, BoxTypes
<1>3. /\ models.keys \in SUBSET ModelKey
      /\ models.used \in 0..bytes
      /\ models.cut \in BOOLEAN
      /\ models.cut => models.keys = {}
      /\ ~models.cut => models.keys = ModelKeys(runs[turn], MaxRequest).keys
  BY <1>2, SameModels DEF BoxInv, BoxTypes
<1>4. IF runs[turn].readable
      THEN bytes' = bytes - models.used /\ unread' = models.keys /\ short' = models.cut
      ELSE bytes' = bytes /\ unread' = {} /\ short' = FALSE
  BY <1>1 DEF OpenRun, BoxInv, BoxTypes
<1> HIDE DEF models
<1>5. BoxTypes'
  <2>1. bytes' \in 0..MaxRequest /\ unread' \in SUBSET ModelKey /\ short' \in BOOLEAN
    <3>1. bytes \in 0..MaxRequest
      BY DEF BoxInv, BoxTypes
    <3>2. CASE runs[turn].readable
      BY <1>3, <1>4, <3>1, <3>2
    <3>3. CASE ~runs[turn].readable
      BY <1>4, <3>1, <3>3
    <3> QED BY <3>2, <3>3
  <2>2. turn' \in Nat /\ turn' # 0 /\ turn' # 1 /\ turn' <= Len(runs) + 1
    BY <1>1, <1>2 DEF BoxInv, BoxTypes
  <2> QED BY <1>1, <2>1, <2>2 DEF BoxInv, BoxTypes
<1>6. SearchInv'
  <2>1. \A n \in 1..(turn - 1) : Resultless(n)
    <3>1. turn # 1 => Resultless(turn - 1)
      BY <1>1 DEF BoxInv, SearchInv, ReadUpTo, Resultless
    <3> QED BY <3>1, <1>2 DEF BoxInv, SearchInv
  <2>2. \A n : Resultless(n) => Resultless(n)'
    BY <1>1 DEF Resultless
  <2>3. turn' - 2 = turn - 1 /\ turn' - 1 = turn
    BY <1>1, <1>2
  <2>4. ASSUME ~short', runs[turn].readable, NEW key \in ModelKeys(runs[turn], MaxRequest).keys
        PROVE  key \in unread'
    BY <1>3, <1>4, <2>4
  <2>5. short' => unread' = {}
    BY <1>3, <1>4
  <2>6. (\A n \in 1..(turn - 2) : Resultless(n))'
    BY <2>1, <2>2, <2>3
  <2>7. (~short => ReadUpTo(turn - 1))'
    BY <1>1, <2>3, <2>4, Zenon DEF ReadUpTo
  <2> QED BY <2>5, <2>6, <2>7 DEF SearchInv
<1>7. TakenInv'
  <2>1. unread' # {} => runs[turn].readable
    BY <1>4
  <2>2. turn' - 1 = turn
    BY <1>1, <1>2
  <2> QED BY <1>1, <2>1, <2>2 DEF TakenInv
<1>8. AnswerInv'
  BY <1>1, NoAnswer DEF AnswerInv, BoxInv
<1> QED BY <1>5, <1>6, <1>7, <1>8 DEF BoxInv

\* A model that was read has no result or is taken, unless the reading is given up.
LEMMA ReadKeeps ==
    ASSUME BoxInv, ReadModel
    PROVE  BoxInv'
<1> USE ShelfAssumption
<1>1. PICK key \in unread : PassOver(key) \/ TakePayload(key) \/ GiveUp(key)
  BY DEF ReadModel
<1>2. runs' = runs /\ turn' = turn /\ display' = display /\ unread # {} /\ ~short /\ turn # 1
  BY <1>1 DEF ReadModel, BoxInv, SearchInv, BoxTypes
<1>3. /\ key \in ModelKey /\ runs[turn - 1] \in CompletedRun
      /\ FileOf(key) # NoResult => FileOf(key) \in ResultFile
  BY <1>2, FileTypes DEF BoxInv, BoxTypes
<1>4. \A other : FileOf(other)' = FileOf(other)
  BY <1>2 DEF FileOf
<1>5. /\ bytes' \in 0..MaxRequest /\ unread' \in SUBSET unread /\ short' \in BOOLEAN
      /\ taken' \in SUBSET (taken \cup {key})
      /\ taken \subseteq taken'
      /\ key \in taken' => key \in taken \/ FileOf(key) # NoResult
      /\ short' => unread' = {}
      /\ ~short' => unread' = unread \ {key} /\ (key \in taken' \/ FileOf(key) = NoResult)
  <2>1. CASE PassOver(key)
    BY <1>2, <2>1 DEF PassOver, BoxInv, BoxTypes
  <2>2. CASE TakePayload(key)
    <3>1. FileOf(key).size \in Nat /\ FileOf(key).size <= bytes
      BY <1>3, <2>2 DEF TakePayload, Consumable, Affordable, ResultFile
    <3> QED BY <1>2, <2>2, <3>1 DEF TakePayload, BoxInv, BoxTypes
  <2>3. CASE GiveUp(key)
    <3>1. Affordable(FileOf(key)) => FileOf(key).size \in Nat /\ FileOf(key).size <= bytes
      BY <1>3, <2>3 DEF GiveUp, Affordable, ResultFile
    <3>2. bytes' \in 0..MaxRequest
      BY <2>3, <3>1 DEF GiveUp, BoxInv, BoxTypes
    <3> QED BY <2>3, <3>2 DEF GiveUp
  <2> QED BY <1>1, <2>1, <2>2, <2>3
<1>6. BoxTypes'
  BY <1>2, <1>3, <1>5 DEF BoxInv, BoxTypes
<1>7. SearchInv'
  <2>1. (\A n \in 1..(turn - 2) : Resultless(n))'
    BY <1>2 DEF BoxInv, SearchInv, Resultless
  <2>2. ASSUME ~short', runs[turn - 1].readable,
               NEW k \in ModelKeys(runs[turn - 1], MaxRequest).keys
        PROVE  k \in unread' \cup taken' \/ runs[turn - 1].result[k] = NoResult
    <3>1. k \in unread \cup taken \/ runs[turn - 1].result[k] = NoResult
      BY <1>2, <2>2 DEF BoxInv, SearchInv, ReadUpTo
    <3> QED BY <1>5, <2>2, <3>1 DEF FileOf
  <2>3. (~short => ReadUpTo(turn - 1))'
    BY <1>2, <2>2 DEF ReadUpTo
  <2> QED BY <1>5, <2>1, <2>3 DEF SearchInv
<1>8. TakenInv'
  BY <1>2, <1>3, <1>4, <1>5 DEF TakenInv, BoxInv
<1>9. AnswerInv'
  BY <1>2, NoAnswer DEF AnswerInv, BoxInv
<1> QED BY <1>6, <1>7, <1>8, <1>9 DEF BoxInv

\* The answer has every item, shown or hidden.
LEMMA DetectionsKeep ==
    ASSUME BoxInv, FrameDetections
    PROVE  BoxInv'
<1>1. /\ unread = {} /\ ~Looking
      /\ <<runs, turn, bytes, unread, taken, short>>' = <<runs, turn, bytes, unread, taken, short>>
  BY DEF FrameDetections
<1>2. PICK deleted :
        LET gone == {i \in Assembled : <<i.model, i.index>> \in deleted}
        IN display' = [done |-> TRUE, shown |-> Assembled \ gone, hidden |-> gone,
                       truncated |-> short \/ LeftOver]
  BY DEF FrameDetections
<1>3. Assembled' = Assembled /\ LeftOver' = LeftOver
  BY <1>1 DEF Assembled, LeftOver, Sightings, FileOf, Of, ItemAt, Admitted, Once, WithinLimit
<1>4. AnswerInv'
  <2>1. display'.done = TRUE /\ display'.truncated = (short \/ LeftOver)
        /\ display'.shown \cup display'.hidden = Assembled
    BY <1>2
  <2>2. ~Looking'
    BY <1>1 DEF Looking, CompletedRuns
  <2>3. AllItems' = Assembled'
    BY <1>3, <2>1 DEF AllItems
  <2>4. (display.truncated = (short \/ LeftOver))'
    BY <1>1, <1>3, <2>1
  <2>5. display'.done \in BOOLEAN
    BY <2>1
  <2> QED BY <1>1, <2>1, <2>2, <2>3, <2>4, <2>5 DEF AnswerInv
<1>5. BoxTypes' /\ TakenInv'
  BY <1>1 DEF BoxInv, BoxTypes, TakenInv, FileOf
<1>6. SearchInv'
  BY <1>1 DEF BoxInv, SearchInv, ReadUpTo, Resultless
<1> QED BY <1>4, <1>5, <1>6 DEF BoxInv

\* Every reachable state of a search for the boxes of a frame satisfies its invariant.
THEOREM BoxInvariance == BoxSpec => []BoxInv
<1>1. ASSUME BoxInv, [BoxNext]_boxVars PROVE BoxInv'
  <2>1. CASE OpenRun
    BY <1>1, <2>1, OpenKeeps
  <2>2. CASE ReadModel
    BY <1>1, <2>2, ReadKeeps
  <2>3. CASE FrameDetections
    BY <1>1, <2>3, DetectionsKeep
  <2>4. CASE UNCHANGED boxVars
    <3>1. <<runs, turn, bytes, unread, taken, short, display>>' =
            <<runs, turn, bytes, unread, taken, short, display>>
      BY <2>4 DEF boxVars
    <3>2. BoxTypes' /\ TakenInv'
      BY <1>1, <3>1 DEF BoxInv, BoxTypes, TakenInv, FileOf
    <3>3. SearchInv'
      BY <1>1, <3>1 DEF BoxInv, SearchInv, ReadUpTo, Resultless
    <3>4. Assembled' = Assembled /\ LeftOver' = LeftOver
      BY <3>1 DEF Assembled, LeftOver, Sightings, FileOf, Of, ItemAt, Admitted, Once, WithinLimit
    <3>5. AnswerInv'
      BY <1>1, <3>1, <3>4 DEF BoxInv, AnswerInv, Looking, CompletedRuns, AllItems
    <3> QED BY <3>2, <3>3, <3>5 DEF BoxInv
  <2> QED BY <1>1, <2>1, <2>2, <2>3, <2>4 DEF BoxNext
<1> QED BY <1>1, BoxStart, PTL DEF BoxSpec

-------------------------------------------------------------------------------
\* A set of numbers that is not empty has a least one.
LEMMA LeastPlace ==
    ASSUME NEW N \in SUBSET Nat, N # {}
    PROVE  \E n \in N : \A m \in N : ~(m < n)
<1>1. PICK n \in N : \A m \in N : <<m, n>> \notin OpToRel(<, Nat)
  BY WFMin, NatLessThanWellFounded, Zenon
<1> QED BY <1>1, Zenon DEF OpToRel

\* Without a cut every detection that counts is among the items.
LEMMA EachAssembled ==
    ASSUME BoxInv, ~LeftOver, NEW key \in taken, NEW n \in DOMAIN FileOf(key).found,
           Admitted(<<key, n>>)
    PROVE  ItemAt(<<key, n>>) \in Assembled
<1> DEFINE same == {m \in DOMAIN FileOf(key).found :
                      Admitted(<<key, m>>) /\ ItemAt(<<key, m>>) = ItemAt(<<key, n>>)}
<1>1. key \in ModelKey /\ FileOf(key) \in ResultFile
  BY FileTypes DEF BoxInv, TakenInv, BoxTypes
<1>2. FileOf(key).found \in Seq(FoundBox)
  BY <1>1 DEF ResultFile
<1>3. same \in SUBSET Nat /\ n \in same
  BY <1>2
<1>4. PICK m \in same : \A l \in same : ~(l < m)
  BY <1>3, LeastPlace
<1>5. m \in DOMAIN FileOf(key).found /\ Admitted(<<key, m>>) /\ ItemAt(<<key, m>>) = ItemAt(<<key, n>>)
  BY <1>4
<1>6. <<key, m>> \in Sightings
  BY <1>5 DEF Sightings
<1>7. ASSUME NEW q \in Sightings, Admitted(q), ItemAt(q) = ItemAt(<<key, m>>)
      PROVE  ~Earlier(q, <<key, m>>)
  <2>1. PICK k \in taken : \E l \in DOMAIN FileOf(k).found : q = <<k, l>>
    BY DEF Sightings
  <2>0. PICK l \in DOMAIN FileOf(k).found : q = <<k, l>>
    BY <2>1
  <2>2. k = key
    BY <1>7, <2>0 DEF ItemAt
  <2>3. l \in same
    BY <1>5, <1>7, <2>0, <2>2
  <2>4. ~(l < m)
    BY <1>4, <2>3
  <2>5. key \in Nat
    BY <1>1, ShelfAssumption
  <2> QED BY <2>0, <2>2, <2>4, <2>5 DEF Earlier
<1>8. Once(<<key, m>>)
  BY <1>5, <1>7 DEF Once
<1>9. WithinLimit(<<key, m>>)
  BY <1>6 DEF LeftOver
<1> QED BY <1>5, <1>6, <1>8, <1>9 DEF Assembled

\* What is shown is of the newest run with a result; an answer that is not called truncated has every
\* box of every model of that run, is empty only if no run has a result, and names its boxes
\* as a layer of the run does: for any runs, files, models and limits.
THEOREM BoxSafety == BoxSpec => []FramesSound
<1>1. ASSUME BoxInv PROVE NeverStale
  BY <1>1 DEF NeverStale, BoxInv, SearchInv
<1>2. ASSUME BoxInv PROVE NothingMissing
  <2> SUFFICES ASSUME Complete, taken # {},
                      NEW key \in ModelKeys(runs[turn - 1], MaxRequest).keys,
                      FileOf(key) # NoResult, NEW n \in DOMAIN FileOf(key).found,
                      FileOf(key).found[n].mine,
                      Mapping(FileOf(key).found[n], FileOf(key)) # "none"
               PROVE  \E i \in AllItems : i.model = key /\ i.at = FileOf(key).found[n].at
    BY DEF NothingMissing
  <2>1. unread = {} /\ AllItems = Assembled /\ ~short /\ ~LeftOver /\ turn # 1
    BY <1>2 DEF Complete, BoxInv, AnswerInv, BoxTypes
  <2>2. runs[turn - 1].readable
    BY <1>2, <2>1 DEF BoxInv, TakenInv
  <2>3. key \in taken
    BY <1>2, <2>1, <2>2 DEF BoxInv, SearchInv, ReadUpTo, FileOf
  <2>4. Admitted(<<key, n>>)
    BY DEF Admitted, Of, ItemAt
  <2>5. ItemAt(<<key, n>>) \in Assembled
    BY <1>2, <2>1, <2>3, <2>4, EachAssembled
  <2> QED BY <2>1, <2>5 DEF ItemAt, Of
<1>3. ASSUME BoxInv PROVE EmptyIsEmpty
  <2> SUFFICES ASSUME Complete, taken = {}, NEW n \in CompletedRuns PROVE Resultless(n)
    BY DEF EmptyIsEmpty
  <2>1. unread = {} /\ ~short /\ ~Looking
    BY <1>3 DEF Complete, BoxInv, AnswerInv
  <2>2. turn \notin CompletedRuns /\ turn \in Nat /\ turn # 0 /\ n \in 1..Len(runs) /\ n <= MaxCompletedRuns
        /\ runs \in Seq(CompletedRun)
    BY <1>3, <2>1 DEF Looking, BoxInv, BoxTypes, CompletedRuns
  <2>3. n < turn
    BY <2>2, ShelfAssumption DEF CompletedRuns
  <2>4. CASE n = turn - 1
    BY <1>3, <2>1, <2>2, <2>4 DEF BoxInv, SearchInv, ReadUpTo, Resultless
  <2>5. CASE n # turn - 1
    BY <1>3, <2>2, <2>3, <2>5 DEF BoxInv, SearchInv
  <2> QED BY <2>4, <2>5
<1>4. ASSUME BoxInv PROVE SameNames
  <2> SUFFICES ASSUME Complete, NEW key \in taken,
                      \A n \in DOMAIN FileOf(key).found :
                          /\ FileOf(key).found[n].index # NoIndex
                          /\ SpaceOf(FileOf(key).found[n], FileOf(key)) = "panorama",
                      NEW b \in RawBoxes(runs[turn - 1], key)
               PROVE  \E i \in AllItems : i.model = key /\ i.index = b.index /\ i.at = b.at
    BY DEF SameNames
  <2>1. AllItems = Assembled /\ ~LeftOver
    BY <1>4 DEF Complete, BoxInv, AnswerInv
  <2>2. PICK n \in RawPlaces(FileOf(key)) :
          \E place : b = [index |-> IndexOr(FileOf(key).found[n], place),
                          at |-> FileOf(key).found[n].at]
    BY DEF RawBoxes, FileOf
  <2>3. /\ n \in DOMAIN FileOf(key).found /\ FileOf(key).found[n].mine
        /\ FileOf(key).found[n].sized /\ FileOf(key).found[n].at # 0
    BY <2>2 DEF RawPlaces
  <2>4. Mapping(FileOf(key).found[n], FileOf(key)) = "as it is"
    BY <2>3 DEF Mapping
  <2>5. Admitted(<<key, n>>)
    BY <2>3, <2>4 DEF Admitted, Of, ItemAt
  <2>6. ItemAt(<<key, n>>) \in Assembled
    BY <1>4, <2>1, <2>3, <2>5, EachAssembled
  <2>7. b.index = FileOf(key).found[n].index /\ b.at = FileOf(key).found[n].at
    BY <2>2, <2>3 DEF IndexOr
  <2>8. /\ ItemAt(<<key, n>>).index = FileOf(key).found[n].index
        /\ ItemAt(<<key, n>>).at = FileOf(key).found[n].at /\ ItemAt(<<key, n>>).model = key
    BY <2>3 DEF ItemAt, Of, IndexOr
  <2> QED BY <2>1, <2>6, <2>7, <2>8
<1>5. ASSUME BoxInv PROVE bytes \in Nat
  BY <1>5, ShelfAssumption DEF BoxInv, BoxTypes
<1>6. BoxInv => FramesSound
  BY <1>1, <1>2, <1>3, <1>4, <1>5 DEF FramesSound
<1> QED BY <1>6, BoxInvariance, PTL

-------------------------------------------------------------------------------
(* Review tasks.  First what the helpers return, and then the invariant. *)

\* The values of a function on a finite set are no more than its arguments.
LEMMA FiniteValues ==
    ASSUME NEW S, IsFiniteSet(S), NEW f, f = [x \in S |-> f[x]]
    PROVE  /\ IsFiniteSet({f[x] : x \in S})
           /\ Cardinality({f[x] : x \in S}) <= Cardinality(S)
<1> DEFINE T == {f[x] : x \in S}
<1>1. f \in Surjection(S, T)
  BY DEF Surjection
<1> QED BY <1>1, FS_Surjection

\* The least multiple beyond a number, and products.
LEMMA Multiples ==
    ASSUME NEW q \in Nat, NEW size \in Nat \ {0}
    PROVE  /\ q * size \in Nat /\ q <= q * size
           /\ (q + 1) * size = q * size + size
<1>1. (q + 1) * size = q * size + size
  OBVIOUS
<1>2. q * size = q + q * (size - 1) /\ q * (size - 1) \in Nat
  <2>1. size - 1 \in Nat
    OBVIOUS
  <2>2. \A x, y \in Nat : x * y \in Nat
    OBVIOUS
  <2>3. \A x, y \in Nat : x * (y + 1) = x + x * y
    OBVIOUS
  <2> QED BY <2>1, <2>2, <2>3
<1> QED BY <1>1, <1>2

\* A part that leaves room is the whole.
LEMMA PartFull ==
    ASSUME NEW whole, IsFiniteSet(whole), NEW room \in Nat, NEW part \in Parts(whole, room)
    PROVE  /\ part \subseteq whole /\ IsFiniteSet(part)
           /\ Cardinality(part) \in Nat /\ Cardinality(part) <= room
           /\ Cardinality(part) < room => part = whole
<1>1. part \in SUBSET whole
  BY DEF Parts
<1>2. /\ IsFiniteSet(part)
      /\ Cardinality(whole) = Cardinality(part) => part = whole
  BY <1>1, FS_Subset
<1>3. Cardinality(part) \in Nat /\ Cardinality(whole) \in Nat
  BY <1>2, FS_CardinalityType
<1>4. Cardinality(part) = IF Cardinality(whole) < room THEN Cardinality(whole) ELSE room
  BY DEF Parts
<1> QED BY <1>1, <1>2, <1>3, <1>4

\* Every place is in a chunk.
LEMMA ChunkFor ==
    ASSUME NEW places \in SUBSET Nat, NEW n \in places, NEW size \in Nat \ {0}
    PROVE  \E lo, hi \in places : IsChunk(places, lo, hi, size) /\ lo <= n /\ n <= hi
<1> DEFINE Before == {s \in 0..n : s..n \subseteq places}
<1>1. Before \in SUBSET Nat /\ n \in Before
  OBVIOUS
<1>2. PICK s \in Before : \A m \in Before : ~(m < s)
  BY <1>1, LeastPlace
<1>3. s \in Nat /\ s <= n /\ s..n \subseteq places
  BY <1>2
<1>4. \A k \in places : k + 1 # s
  <2> SUFFICES ASSUME NEW k \in places, k + 1 = s PROVE FALSE
    OBVIOUS
  <2>1. k \in Nat /\ k < s
    OBVIOUS
  <2>2. k..n \subseteq places
    <3> SUFFICES ASSUME NEW m \in k..n PROVE m \in places
      OBVIOUS
    <3>1. m = k \/ m \in s..n
      BY <1>3, <2>1
    <3> QED BY <1>3, <3>1
  <2>3. k \in Before
    BY <1>3, <2>1, <2>2
  <2> QED BY <1>2, <2>1, <2>3
<1> HIDE DEF Before
<1> DEFINE Beyond == {q \in Nat : n < s + (q + 1) * size}
<1>5. Beyond \in SUBSET Nat /\ n \in Beyond
  BY <1>3, Multiples
<1>6. PICK q \in Beyond : \A m \in Beyond : ~(m < q)
  BY <1>5, LeastPlace
<1>7. q \in Nat /\ n < s + (q + 1) * size
  BY <1>6
<1> DEFINE lo == s + q * size
<1>8. /\ q * size \in Nat /\ q <= q * size
      /\ (q + 1) * size = q * size + size
  BY <1>7, Multiples
<1>9. lo \in Nat /\ s <= lo /\ q <= lo /\ n < lo + size
  BY <1>3, <1>7, <1>8
<1>10. lo <= n
  <2>1. CASE q = 0
    BY <1>3, <2>1
  <2>2. CASE q # 0
    <3>1. q - 1 \in Nat /\ q - 1 < q
      BY <1>7, <2>2
    <3>2. ~(n < s + ((q - 1) + 1) * size)
      BY <1>6, <3>1
    <3>3. (q - 1) + 1 = q
      BY <1>7
    <3>4. ~(n < s + q * size)
      BY <3>2, <3>3
    <3> QED BY <1>3, <1>8, <3>4
  <2> QED BY <2>1, <2>2
<1> HIDE DEF Beyond
<1> DEFINE Ends == {h \in Nat : n <= h /\ (h + 1 = lo + size \/ h + 1 \notin places)}
<1> HIDE DEF lo
<1>11. Ends \in SUBSET Nat /\ lo + size - 1 \in Ends
  BY <1>9
<1>12. PICK hi \in Ends : \A m \in Ends : ~(m < hi)
  BY <1>11, LeastPlace
<1>13. hi \in Nat /\ n <= hi /\ (hi + 1 = lo + size \/ hi + 1 \notin places) /\ hi < lo + size
  BY <1>9, <1>11, <1>12
<1>14. \A m \in n..hi : m \in places
  <2> SUFFICES ASSUME NEW m \in n..hi, m \notin places PROVE FALSE
    OBVIOUS
  <2>1. m # n
    OBVIOUS
  <2>2. m - 1 \in Nat /\ n <= m - 1 /\ (m - 1) + 1 = m /\ m - 1 < hi
    BY <1>13, <2>1
  <2>3. m - 1 \in Ends
    BY <2>2
  <2> QED BY <1>12, <2>2, <2>3
<1> HIDE DEF Ends
<1>15. s..hi \subseteq places
  <2> SUFFICES ASSUME NEW m \in s..hi PROVE m \in places
    OBVIOUS
  <2>1. m \in s..n \/ m \in n..hi
    BY <1>3, <1>13
  <2> QED BY <1>3, <1>14, <2>1
<1>16. GroupStart(places, s, hi)
  BY <1>4, <1>15 DEF GroupStart
<1>17. lo \in places /\ hi \in places
  BY <1>3, <1>9, <1>10, <1>13, <1>15
<1>18. lo = s + q * size /\ s \in 0..lo /\ q \in 0..lo
  BY <1>3, <1>7, <1>9 DEF lo
<1>19. IsChunk(places, lo, hi, size)
  BY <1>9, <1>10, <1>13, <1>16, <1>18 DEF IsChunk
<1> QED BY <1>10, <1>13, <1>17, <1>19

\* The frames of a track at two places and between them.
SpanOf(s, v) ==
    {f \in DOMAIN Scans[v] :
        /\ Scans[v][f].track = s.track
        /\ s.from <= Scans[v][f].at /\ Scans[v][f].at <= s.to}

\* A task stands for exactly the frames of its interval.
SpansOf(made, v) == \A c \in made : \A s \in c.span : c.of = SpanOf(s, v)

\* Every frame to do is in an interval, and each interval is of exactly its frames.
LEMMA EachInterval ==
    ASSUME NEW v \in 1..Len(Scans), NEW rest \in SUBSET Scoped(v), NEW st \in Settings,
           NEW c \in Intervals(rest, v, st)
    PROVE  /\ c.type = "UNREVIEWED_INTERVAL"
           /\ \A s \in c.span : c.of = SpanOf(s, v)
<1> USE SourcesAssumption
<1> DEFINE At(f) == Scans[v][f].at
           Track(f) == Scans[v][f].track
<1>1. PICK f \in rest, g \in rest :
        /\ Track(g) = Track(f)
        /\ IsChunk(PlacesOf(rest, Track(f), v), At(f), At(g), st.size)
        /\ c = IntervalTask(f, g, rest, v)
  BY DEF Intervals
<1>2. /\ \A h \in DOMAIN Scans[v] : At(h) \in Nat
      /\ \A h, k \in DOMAIN Scans[v] : At(h) = At(k) => h = k
      /\ rest \subseteq DOMAIN Scans[v]
      /\ st.size \in Nat \ {0}
  BY DEF ScanTypes, Scoped
<1> HIDE DEF At, Track
<1>3. PICK s \in 0..At(f), q \in 0..At(f) :
        s..At(g) \subseteq PlacesOf(rest, Track(f), v) /\ At(f) = s + q * st.size
  BY <1>1 DEF IsChunk, GroupStart
<1>4. s <= At(f) /\ s \in Nat /\ At(f) \in Nat /\ At(g) \in Nat
  BY <1>2, <1>3
<1> DEFINE chunk == {h \in rest : Track(h) = Track(f) /\ At(f) <= At(h) /\ At(h) <= At(g)}
<1>5. /\ c.type = "UNREVIEWED_INTERVAL" /\ c.of = chunk
      /\ c.span = {[track |-> Track(f), from |-> At(f), to |-> At(g)]}
  BY <1>1 DEF IntervalTask, Track, At
<1>6. ASSUME NEW h \in DOMAIN Scans[v], Track(h) = Track(f), At(f) <= At(h), At(h) <= At(g)
      PROVE  h \in rest
  <2>1. At(h) \in s..At(g)
    BY <1>2, <1>4, <1>6
  <2>2. At(h) \in PlacesOf(rest, Track(f), v)
    BY <1>3, <2>1
  <2>3. PICK k \in rest : At(k) = At(h)
    BY <2>2 DEF PlacesOf, At
  <2> QED BY <1>2, <2>3
<1>7. chunk = {h \in DOMAIN Scans[v] : Track(h) = Track(f) /\ At(f) <= At(h) /\ At(h) <= At(g)}
  BY <1>2, <1>6
<1> QED BY <1>5, <1>7 DEF SpanOf, Track, At

LEMMA IntervalFor ==
    ASSUME NEW v \in 1..Len(Scans), NEW rest \in SUBSET Scoped(v), NEW st \in Settings,
           "UNREVIEWED_INTERVAL" \in st.sources, NEW f \in rest
    PROVE  \E c \in Intervals(rest, v, st) : \E s \in c.span : f \in SpanOf(s, v)
<1> USE SourcesAssumption
<1> DEFINE track == Scans[v][f].track
           places == PlacesOf(rest, track, v)
<1>1. rest \subseteq DOMAIN Scans[v] /\ st.size \in Nat \ {0}
  BY DEF Scoped
<1>2. places \in SUBSET Nat /\ Scans[v][f].at \in places
  BY <1>1 DEF PlacesOf, ScanTypes
<1>3. PICK lo, hi \in places :
        IsChunk(places, lo, hi, st.size) /\ lo <= Scans[v][f].at /\ Scans[v][f].at <= hi
  BY <1>1, <1>2, ChunkFor
<1>4. PICK g \in rest : Scans[v][g].track = track /\ Scans[v][g].at = lo
  BY DEF PlacesOf
<1>5. PICK h \in rest : Scans[v][h].track = track /\ Scans[v][h].at = hi
  BY DEF PlacesOf
<1>6. IntervalTask(g, h, rest, v) \in Intervals(rest, v, st)
  <2>1. IsChunk(PlacesOf(rest, Scans[v][g].track, v), Scans[v][g].at, Scans[v][h].at, st.size)
    BY <1>3, <1>4, <1>5
  <2>2. /\ <<g, h>> \in rest \X rest /\ <<g, h>>[1] = g /\ <<g, h>>[2] = h
        /\ Scans[v][h].track = Scans[v][g].track
    BY <1>4, <1>5
  <2> HIDE DEF track, places
  <2> QED BY <2>1, <2>2, Zenon DEF Intervals
<1>7. IntervalTask(g, h, rest, v).span = {[track |-> track, from |-> lo, to |-> hi]}
  BY <1>4, <1>5 DEF IntervalTask
<1>8. f \in SpanOf([track |-> track, from |-> lo, to |-> hi], v)
  BY <1>1, <1>3 DEF SpanOf
<1> QED BY <1>6, <1>7, <1>8

\* There are finitely many intervals.
LEMMA IntervalsFinite ==
    ASSUME NEW v \in 1..Len(Scans), NEW rest \in SUBSET Scoped(v), NEW st
    PROVE  IsFiniteSet(Intervals(rest, v, st))
<1> USE SourcesAssumption
<1>1. rest \in SUBSET DOMAIN Scans[v] /\ IsFiniteSet(DOMAIN Scans[v])
  BY DEF Scoped, ScanTypes
<1>2. IsFiniteSet(rest)
  BY <1>1, FS_Subset
<1>3. IsFiniteSet(rest \X rest)
  BY <1>2, FS_Product
<1> DEFINE task == [e \in rest \X rest |-> IntervalTask(e[1], e[2], rest, v)]
           all == {task[e] : e \in rest \X rest}
<1>4. IsFiniteSet(all)
  <2>1. task = [e \in rest \X rest |-> task[e]]
    BY Zenon
  <2> HIDE DEF task
  <2> QED BY <1>3, <2>1, FiniteValues
<1>5. Intervals(rest, v, st) \in SUBSET all
  BY DEF Intervals
<1> QED BY <1>4, <1>5, FS_Subset

\* Each detection of a completed model, in a file that can be used, has a task for each of
\* its reasons.
DueIn(t, made, v, st) ==
    \A n \in DOMAIN t.files :
        LET file == t.files[n]
            run  == t.runs[file.run]
        IN (/\ run.status = "completed" /\ file.model \in DOMAIN run.models
            /\ run.models[file.model].status = "completed"
            /\ Readable(file) /\ ~file.damaged /\ file.frame \in Scoped(v)) =>
                \A i \in DOMAIN file.found :
                    InClasses(file.found[i]) =>
                        \A r \in Reasons(file.found[i], st) :
                            [type |-> r,
                             of |-> [from |-> file.from, frame |-> file.frame,
                                     found |-> file.found[i]],
                             frame |-> file.frame, span |-> {}] \in made
AllDue(made, v, st) == DueIn(tree, made, v, st)

\* What is read of the files is finite, and each detection is at its place.
LEMMA Payloads ==
    ASSUME TreeTypes(tree), NEW frames
    PROVE  /\ IsFiniteSet(ArtifactPayloads(frames))
           /\ \A a \in ArtifactPayloads(frames) :
                /\ a = <<a[1], a[2]>> /\ a[1] \in DOMAIN tree.files
                /\ a[2] \in DOMAIN tree.files[a[1]].found
                /\ Artifact(a).frame \in frames
                /\ Evidence(a).place \in {NoValue} \cup Nat
<1> USE SourcesAssumption
<1>1. ASSUME NEW a \in Places(frames)
      PROVE  /\ a = <<a[1], a[2]>> /\ a[1] \in DOMAIN tree.files
             /\ a[2] \in DOMAIN tree.files[a[1]].found /\ a[2] <= MaxPerFile
             /\ tree.files[a[1]].frame \in frames
  <2>1. PICK n \in ResultFiles :
          Parsed(n, frames) /\ a \in {n} \X {i \in DOMAIN tree.files[n].found : i <= MaxPerFile}
    BY DEF Places
  <2> QED BY <2>1 DEF ResultFiles, Parsed
<1>2. DOMAIN tree.files = 1..Len(tree.files) /\ Len(tree.files) \in Nat
  BY DEF TreeTypes
<1>3. \A n \in DOMAIN tree.files :
        /\ DOMAIN tree.files[n].found = 1..Len(tree.files[n].found) /\ Len(tree.files[n].found) \in Nat
        /\ \A i \in DOMAIN tree.files[n].found : tree.files[n].found[i].place \in {NoValue} \cup Nat
  BY DEF TreeTypes
<1>4. ArtifactPayloads(frames) \in SUBSET ((1..Len(tree.files)) \X (1..MaxPerFile))
  <2> SUFFICES ASSUME NEW a \in ArtifactPayloads(frames)
               PROVE  a \in (1..Len(tree.files)) \X (1..MaxPerFile)
    OBVIOUS
  <2>1. a \in Places(frames)
    BY DEF ArtifactPayloads
  <2>2. a = <<a[1], a[2]>> /\ a[1] \in 1..Len(tree.files) /\ a[2] \in 1..MaxPerFile
    BY <1>1, <1>2, <1>3, <2>1
  <2> QED BY <2>2
<1>5. IsFiniteSet((1..Len(tree.files)) \X (1..MaxPerFile))
  <2>1. Len(tree.files) \in Int /\ MaxPerFile \in Int /\ 1 \in Int
    BY <1>2
  <2> HIDE SourcesAssumption
  <2>2. IsFiniteSet(1..Len(tree.files))
    BY <2>1, FS_Interval
  <2>3. IsFiniteSet(1..MaxPerFile)
    BY <2>1, FS_Interval
  <2> QED BY <2>2, <2>3, FS_Product
<1>6. IsFiniteSet(ArtifactPayloads(frames))
  BY <1>4, <1>5, FS_Subset
<1>7. ASSUME NEW a \in ArtifactPayloads(frames)
      PROVE  /\ a = <<a[1], a[2]>> /\ a[1] \in DOMAIN tree.files
             /\ a[2] \in DOMAIN tree.files[a[1]].found
             /\ Artifact(a).frame \in frames
             /\ Evidence(a).place \in {NoValue} \cup Nat
  <2>1. a \in Places(frames)
    BY DEF ArtifactPayloads
  <2> QED BY <1>1, <1>3, <2>1 DEF Artifact, Evidence
<1> QED BY <1>6, <1>7

LEMMA DueFinite ==
    ASSUME NEW artifacts, IsFiniteSet(artifacts), NEW st
    PROVE  IsFiniteSet(Due(artifacts, st))
<1>1. DOMAIN ReasonOrder = 1..4
  BY DEF ReasonOrder
<1>2. IsFiniteSet(artifacts \X (1..4))
  <2>1. \A n \in Int : IsFiniteSet(1..n)
    BY FS_Interval
  <2>2. PICK n \in Int : n = 4
    OBVIOUS
  <2>3. IsFiniteSet(1..n)
    BY <2>1
  <2>4. IsFiniteSet(1..4)
    BY <2>2, <2>3
  <2> QED BY <2>4, FS_Product
<1>3. Due(artifacts, st) \in SUBSET (artifacts \X (1..4))
  BY <1>1 DEF Due
<1> QED BY <1>2, <1>3, FS_Subset

\* A detection task is of one of the four reasons for a detection.
LEMMA DetectionTasks ==
    ASSUME NEW artifacts, NEW st, NEW p \in Due(artifacts, st)
    PROVE  /\ DetectionTask(p).type \in TaskType \ {"UNREVIEWED_INTERVAL", "SPACING_ANOMALY"}
           /\ DetectionTask(p).span = {}
<1>1. p[2] \in 1..4
  BY DEF Due, ReasonOrder
<1>2. ReasonOrder[p[2]] \in TaskType \ {"UNREVIEWED_INTERVAL", "SPACING_ANOMALY"}
  BY <1>1 DEF ReasonOrder, TaskType
<1> QED BY <1>2 DEF DetectionTask

\* Unless the reading was cut short, every detection that counts was read.
LEMMA EachDue ==
    ASSUME TreeTypes(tree), NEW v, NEW st, ~CutShort(Scoped(v)), NEW made,
           \A p \in Due(ArtifactPayloads(Scoped(v)), st) : DetectionTask(p) \in made
    PROVE  AllDue(made, v, st)
<1> USE SourcesAssumption
<1> DEFINE frames == Scoped(v)
<1> SUFFICES ASSUME NEW n \in DOMAIN tree.files,
                    tree.runs[tree.files[n].run].status = "completed",
                    tree.files[n].model \in DOMAIN tree.runs[tree.files[n].run].models,
                    tree.runs[tree.files[n].run].models[tree.files[n].model].status = "completed",
                    Readable(tree.files[n]), ~tree.files[n].damaged, tree.files[n].frame \in frames,
                    NEW i \in DOMAIN tree.files[n].found, InClasses(tree.files[n].found[i]),
                    NEW r \in Reasons(tree.files[n].found[i], st)
             PROVE  [type |-> r,
                     of |-> [from |-> tree.files[n].from, frame |-> tree.files[n].frame,
                             found |-> tree.files[n].found[i]],
                     frame |-> tree.files[n].frame, span |-> {}] \in made
  BY Zenon DEF AllDue, DueIn
<1>1. n \in ResultFiles
  <2>1. tree.files[n].model \in Declared(tree.runs[tree.files[n].run])
    BY DEF TreeTypes, Declared
  <2>2. tree.files[n].model \in ResultRoots(tree.runs[tree.files[n].run])
    BY <2>1 DEF ResultRoots
  <2> QED BY <2>2 DEF ResultFiles
<1>2. \A m \in ResultFiles : ~LimitMet(m) /\ ~TooMany(m, frames)
  BY DEF CutShort
<1>3. Parsed(n, frames)
  BY DEF Parsed
<1>4. i <= MaxPerFile
  <2>1. ~(Len(tree.files[n].found) > MaxPerFile)
    BY <1>1, <1>2, <1>3 DEF TooMany
  <2>2. i \in 1..Len(tree.files[n].found) /\ Len(tree.files[n].found) \in Nat
    BY DEF TreeTypes
  <2> QED BY <2>1, <2>2
<1>5. <<n, i>> \in Places(frames)
  BY <1>1, <1>3, <1>4 DEF Places
<1>6. HasRoom(<<n, i>>, frames)
  BY <1>1, <1>2, <1>3, <1>5 DEF TooMany
<1>7. Reached(n, frames)
  BY <1>2 DEF Reached
<1>8. <<n, i>> \in ArtifactPayloads(frames)
  BY <1>1, <1>2, <1>5, <1>6, <1>7 DEF ArtifactPayloads
<1>9. PICK k \in DOMAIN ReasonOrder : ReasonOrder[k] = r
  <2>1. r \in {"LOW_CONFIDENCE", "PROJECTION_FAILED", "GEOMETRY_REVIEW", "POLE_BASE_REVIEW"}
    BY DEF Reasons
  <2>2. /\ DOMAIN ReasonOrder = 1..4
        /\ ReasonOrder[1] = "LOW_CONFIDENCE" /\ ReasonOrder[2] = "PROJECTION_FAILED"
        /\ ReasonOrder[3] = "GEOMETRY_REVIEW" /\ ReasonOrder[4] = "POLE_BASE_REVIEW"
    BY DEF ReasonOrder
  <2> QED BY <2>1, <2>2
<1>10. /\ Evidence(<<n, i>>) = tree.files[n].found[i]
       /\ Artifact(<<n, i>>) = [from |-> tree.files[n].from, frame |-> tree.files[n].frame,
                                found |-> tree.files[n].found[i]]
  BY DEF Evidence, Artifact
<1> DEFINE p == <<<<n, i>>, k>>
<1>11. p \in Due(ArtifactPayloads(frames), st)
  BY <1>8, <1>9, <1>10 DEF Due
<1>12. DetectionTask(p) \in made
  BY <1>11
<1>13. Artifact(<<n, i>>).frame = tree.files[n].frame
  BY <1>10
<1>14. DetectionTask(p) = [type |-> r, of |-> Artifact(<<n, i>>),
                            frame |-> tree.files[n].frame, span |-> {}]
  BY <1>9, <1>13 DEF DetectionTask
<1> HIDE DEF p
<1> QED BY <1>10, <1>12, <1>14

\* Two k-th smallest gaps are equal.
LEMMA KthOrder ==
    ASSUME NEW gaps, IsFiniteSet(gaps), \A p \in gaps : Distance(p) \in Nat,
           NEW k \in Nat, NEW g \in Nat, NEW h \in Nat, IsKth(g, k, gaps), IsKth(h, k, gaps)
    PROVE  ~(g < h)
<1> SUFFICES ASSUME g < h PROVE FALSE
  OBVIOUS
<1> DEFINE low  == {p \in gaps : Distance(p) <= g}
           less == {p \in gaps : Distance(p) < h}
<1>1. low \in SUBSET less /\ less \in SUBSET gaps
  OBVIOUS
<1>2. IsFiniteSet(less)
  BY <1>1, FS_Subset
<1>3. Cardinality(low) <= Cardinality(less)
  BY <1>1, <1>2, FS_Subset
<1>4. IsFiniteSet(low)
  BY <1>1, <1>2, FS_Subset
<1>5. Cardinality(low) \in Nat /\ Cardinality(less) \in Nat
  BY <1>2, <1>4, FS_CardinalityType
<1>6. k <= Cardinality(low) /\ Cardinality(less) < k
  BY DEF IsKth
<1> HIDE DEF low, less
<1> QED BY <1>3, <1>5, <1>6

\* At most half of the gaps are above twice the median, which is one number.
LEMMA FewAbove ==
    ASSUME NEW gaps, IsFiniteSet(gaps), \A p \in gaps : Distance(p) \in Nat,
           NEW m, TwiceMedian(m, gaps)
    PROVE  /\ m \in Nat
           /\ \E p \in gaps : Distance(p) <= m
           /\ \A l : TwiceMedian(l, gaps) => l = m
           /\ 2 * Cardinality({p \in gaps : m < Distance(p)}) <= Cardinality(gaps)
<1> DEFINE n == Cardinality(gaps)
           j == (n + 1) \div 2
           k == n \div 2 + 1
           values == {Distance(p) : p \in gaps}
<1>1. n \in Nat
  BY FS_CardinalityType
<1> HIDE DEF n
<1>2. j \in Nat /\ k \in Nat /\ 2 * k >= n + 1 /\ k <= n + 1
  BY <1>1
<1>3. values \subseteq Nat
  OBVIOUS
<1>4. \A l : TwiceMedian(l, gaps) <=>
              \E g, h \in values : IsKth(g, j, gaps) /\ IsKth(h, k, gaps) /\ l = g + h
  BY DEF TwiceMedian, n
<1> HIDE DEF j, k, values
<1>5. PICK g \in values, h \in values : IsKth(g, j, gaps) /\ IsKth(h, k, gaps) /\ m = g + h
  BY <1>4
<1>6. g \in Nat /\ h \in Nat
  BY <1>3
<1>7. \A x, y \in Nat : \A i \in Nat : IsKth(x, i, gaps) /\ IsKth(y, i, gaps) => x = y
  <2> SUFFICES ASSUME NEW x \in Nat, NEW y \in Nat, NEW i \in Nat,
                      IsKth(x, i, gaps), IsKth(y, i, gaps)
               PROVE  x = y
    OBVIOUS
  <2>1. ~(x < y) /\ ~(y < x)
    BY KthOrder
  <2> QED BY <2>1
<1>8. ASSUME NEW l, TwiceMedian(l, gaps) PROVE l = m
  <2>1. PICK x \in values, y \in values : IsKth(x, j, gaps) /\ IsKth(y, k, gaps) /\ l = x + y
    BY <1>4, <1>8
  <2>2. x = g /\ y = h
    BY <1>2, <1>3, <1>5, <1>7, <2>1
  <2> QED BY <1>5, <2>1, <2>2
<1>9. \E p \in gaps : Distance(p) <= m
  <2>1. PICK p \in gaps : Distance(p) = h
    BY DEF values
  <2> QED BY <1>5, <1>6, <2>1
<1>10. 2 * Cardinality({p \in gaps : m < Distance(p)}) <= n
  <2> DEFINE high == {p \in gaps : m < Distance(p)}
             low  == {p \in gaps : Distance(p) <= h}
  <2>1. /\ high \in SUBSET gaps /\ low \in SUBSET gaps
        /\ high \cap low = {} /\ high \cup low \in SUBSET gaps
    BY <1>5, <1>6
  <2>2. k <= Cardinality(low)
    BY <1>5 DEF IsKth
  <2> HIDE DEF high, low
  <2>3. IsFiniteSet(high) /\ IsFiniteSet(low)
    BY <2>1, FS_Subset
  <2>4. Cardinality(high) \in Nat /\ Cardinality(low) \in Nat
    BY <2>3, FS_CardinalityType
  <2>5. Cardinality(high \cup low) = Cardinality(high) + Cardinality(low)
    <3>1. Cardinality(high \cup low) = Cardinality(high) + Cardinality(low) - Cardinality(high \cap low)
      BY <2>3, FS_Union
    <3>2. Cardinality(high \cap low) = 0
      BY <2>1, FS_EmptySet
    <3> QED BY <2>4, <3>1, <3>2
  <2>6. Cardinality(high \cup low) <= n
    BY <2>1, FS_Subset DEF n
  <2>7. 2 * Cardinality(high) <= n
    BY <1>1, <1>2, <2>2, <2>4, <2>5, <2>6
  <2> QED BY <2>7 DEF high
<1> QED BY <1>5, <1>6, <1>8, <1>9, <1>10 DEF n

\* A gap that is too wide is beyond the median.
LEMMA TooWideIsAbove ==
    ASSUME NEW gap \in Nat, NEW median \in Nat, TooWide(gap, median)
    PROVE  median < gap
<1>1. SpacingFactor \in Nat /\ SpacingFactor >= 2
  BY SourcesAssumption
<1>2. SpacingFactor * median = 2 * median + (SpacingFactor - 2) * median
      /\ (SpacingFactor - 2) * median \in Nat
  <2>1. SpacingFactor - 2 \in Nat
    BY <1>1
  <2>2. \A x, y \in Nat : x * y \in Nat /\ (x + 2) * y = 2 * y + x * y
    OBVIOUS
  <2> QED BY <1>1, <2>1, <2>2
<1>3. SpacingFactor * median \in Nat /\ 2 * median <= SpacingFactor * median
  BY <1>2
<1>4. 2 * gap > SpacingFactor * median
  BY DEF TooWide
<1> QED BY <1>3, <1>4

\* Detections that are known, each with a place or with none.
Known(artifacts) ==
    IsFiniteSet(artifacts) /\ \A a \in artifacts : Evidence(a).place \in {NoValue} \cup Nat

\* The gaps of a line lie between known places.
LEMMA LineTypes ==
    ASSUME NEW artifacts, Known(artifacts), NEW v, NEW line \in Lines(artifacts, v)
    PROVE  /\ line \subseteq Positions(artifacts) /\ line \subseteq artifacts
           /\ IsFiniteSet(GapsOf(line, v))
           /\ \A p \in GapsOf(line, v) : Distance(p) \in Nat
<1>1. line \subseteq Positions(artifacts)
  BY DEF Lines, LineOf
<1>2. \A a \in Positions(artifacts) : a \in artifacts /\ Evidence(a).place # NoValue
  BY DEF Positions
<1>3. \A a \in line : a \in artifacts /\ Evidence(a).place \in Nat
  BY <1>1, <1>2 DEF Known
<1>4. IsFiniteSet(line)
  <2>1. line \in SUBSET artifacts
    BY <1>3
  <2> QED BY <2>1, FS_Subset DEF Known
<1>5. IsFiniteSet(line \X line)
  BY <1>4, FS_Product
<1>6. GapsOf(line, v) \in SUBSET (line \X line)
  BY DEF GapsOf
<1>7. ASSUME NEW p \in line \X line PROVE Distance(p) \in Nat
  <2>1. Evidence(p[1]).place \in Nat /\ Evidence(p[2]).place \in Nat
    BY <1>3, <1>7
  <2> QED BY <2>1 DEF Distance
<1> QED BY <1>1, <1>3, <1>5, <1>6, <1>7, FS_Subset

\* At most half of the gaps of a line are too wide.
LEMMA FewWide ==
    ASSUME NEW artifacts, Known(artifacts), NEW v, NEW line \in Lines(artifacts, v)
    PROVE  /\ IsFiniteSet(WideGaps(line, v))
           /\ 2 * Cardinality(WideGaps(line, v)) <= Cardinality(GapsOf(line, v))
<1> DEFINE gaps == StableGaps(line, v)
           wide == WideGaps(line, v)
<1>1. IsFiniteSet(GapsOf(line, v)) /\ \A p \in GapsOf(line, v) : Distance(p) \in Nat
  BY LineTypes
<1>2. gaps \in SUBSET GapsOf(line, v) /\ IsFiniteSet(gaps) /\ Cardinality(gaps) <= Cardinality(GapsOf(line, v))
  <2>1. gaps \in SUBSET GapsOf(line, v)
    BY DEF StableGaps
  <2> HIDE DEF gaps
  <2> QED BY <1>1, <2>1, FS_Subset
<1>3. \A w \in wide : /\ w = <<w[1], w[2]>> /\ w[1] \in GapsOf(line, v)
                      /\ TwiceMedian(w[2], gaps) /\ TooWide(Distance(w[1]), w[2])
  BY DEF WideGaps
<1>4. Cardinality(GapsOf(line, v)) \in Nat
  BY <1>1, FS_CardinalityType
<1>5. CASE wide = {}
  BY <1>4, <1>5, FS_EmptySet
<1>6. CASE wide # {}
  <2>1. PICK m : TwiceMedian(m, gaps)
    BY <1>3, <1>6
  <2> DEFINE high == {p \in gaps : m < Distance(p)}
  <2>2. \A p \in gaps : Distance(p) \in Nat
    BY <1>1, <1>2
  <2> HIDE DEF gaps, wide
  <2>3. /\ m \in Nat
        /\ \E p \in gaps : Distance(p) <= m
        /\ \A l : TwiceMedian(l, gaps) => l = m
        /\ 2 * Cardinality(high) <= Cardinality(gaps)
    BY <1>2, <2>1, <2>2, FewAbove
  <2>4. PICK p \in gaps : Distance(p) <= m
    BY <2>3
  <2>5. LeastGap \in Nat
    BY SourcesAssumption
  <2>6. Distance(p) >= LeastGap
    BY DEF gaps, StableGaps
  <2>7. ASSUME NEW w \in wide PROVE w \in high \X {m}
    <3>1. w = <<w[1], w[2]>> /\ w[2] = m /\ w[1] \in GapsOf(line, v) /\ Distance(w[1]) \in Nat
      BY <1>1, <1>3, <2>3
    <3>2. m < Distance(w[1])
      BY <1>3, <2>3, <3>1, TooWideIsAbove
    <3>3. Distance(w[1]) >= LeastGap
      BY <2>2, <2>3, <2>4, <2>5, <2>6, <3>1, <3>2
    <3>4. w[1] \in gaps
      BY <3>1, <3>3 DEF gaps, StableGaps
    <3>5. w[1] \in high
      BY <3>2, <3>4
    <3> HIDE DEF high
    <3> QED BY <3>1, <3>5
  <2>8. high \in SUBSET gaps
    OBVIOUS
  <2> HIDE DEF high
  <2>9. IsFiniteSet(high) /\ Cardinality(high) \in Nat
    BY <1>2, <2>8, FS_Subset, FS_CardinalityType
  <2>10. IsFiniteSet({m}) /\ Cardinality({m}) = 1
    BY FS_Singleton
  <2>11. IsFiniteSet(high \X {m}) /\ Cardinality(high \X {m}) = Cardinality(high)
    <3>1. /\ IsFiniteSet(high \X {m})
          /\ Cardinality(high \X {m}) = Cardinality(high) * Cardinality({m})
      BY <2>9, <2>10, FS_Product
    <3>2. Cardinality(high) * Cardinality({m}) = Cardinality(high)
      BY <2>9, <2>10
    <3> QED BY <3>1, <3>2
  <2>12. wide \in SUBSET (high \X {m})
    BY <2>7
  <2>13. IsFiniteSet(wide) /\ Cardinality(wide) <= Cardinality(high)
    BY <2>11, <2>12, FS_Subset
  <2>14. Cardinality(wide) \in Nat /\ Cardinality(gaps) \in Nat
    BY <1>2, <2>13, FS_CardinalityType
  <2>15. 2 * Cardinality(wide) <= Cardinality(GapsOf(line, v))
    BY <1>2, <1>4, <2>3, <2>9, <2>13, <2>14
  <2> QED BY <2>13, <2>15 DEF wide
<1> QED BY <1>5, <1>6

\* The gaps that are reported to the right of the detections of a line.
ReportedOn(line, made) ==
    {c \in made : c.type = "SPACING_ANOMALY" /\ c.of.left \in {Artifact(a) : a \in line}}
RareIn(made, artifacts, v) ==
    \A line \in Lines(artifacts, v) :
        2 * Cardinality(ReportedOn(line, made)) <= Cardinality(GapsOf(line, v))

\* What is reported on a line is too wide on this line.
LEMMA RareGaps ==
    ASSUME NEW artifacts, Known(artifacts), NEW v, NEW st, NEW made,
           \A c \in made : c.type = "SPACING_ANOMALY" => c \in Spacing(artifacts, v, st)
    PROVE  RareIn(made, artifacts, v)
<1> SUFFICES ASSUME NEW line \in Lines(artifacts, v)
             PROVE  2 * Cardinality(ReportedOn(line, made)) <= Cardinality(GapsOf(line, v))
  BY DEF RareIn
<1> DEFINE wide == WideGaps(line, v)
           task == [w \in wide |-> SpacingTask(w)]
           tasks == {task[w] : w \in wide}
<1>1. IsFiniteSet(wide) /\ 2 * Cardinality(wide) <= Cardinality(GapsOf(line, v))
  BY FewWide
<1>2. ASSUME NEW c \in ReportedOn(line, made) PROVE c \in tasks
  <2>1. c \in Spacing(artifacts, v, st) /\ c.type = "SPACING_ANOMALY"
    BY DEF ReportedOn
  <2>2. PICK a \in line : c.of.left = Artifact(a)
    BY DEF ReportedOn
  <2>3. c \in UNION {{SpacingTask(w) : w \in WideGaps(other, v)} : other \in Lines(artifacts, v)}
    BY <2>1, Zenon DEF Spacing
  <2>4. PICK other \in Lines(artifacts, v) : \E w \in WideGaps(other, v) : c = SpacingTask(w)
    BY <2>3
  <2>5. PICK w \in WideGaps(other, v) : c = SpacingTask(w)
    BY <2>4
  <2>6. w[1][1] \in other
    BY <2>5 DEF WideGaps, GapsOf
  <2>7. Artifact(w[1][1]) = Artifact(a)
    BY <2>2, <2>5 DEF SpacingTask
  <2>8. PICK b \in Positions(artifacts) : line = LineOf(b, artifacts, v)
    BY DEF Lines
  <2>9. PICK d \in Positions(artifacts) : other = LineOf(d, artifacts, v)
    BY DEF Lines
  <2>10. /\ Scans[v][Artifact(b).frame].track = Scans[v][Artifact(d).frame].track
         /\ Evidence(b).class = Evidence(d).class
    <3>1. /\ Scans[v][Artifact(a).frame].track = Scans[v][Artifact(b).frame].track
          /\ Evidence(a).class = Evidence(b).class
      BY <2>2, <2>8 DEF LineOf
    <3>2. /\ Scans[v][Artifact(w[1][1]).frame].track = Scans[v][Artifact(d).frame].track
          /\ Evidence(w[1][1]).class = Evidence(d).class
      BY <2>6, <2>9 DEF LineOf
    <3> QED BY <2>7, <3>1, <3>2 DEF Evidence
  <2>11. other = line
    BY <2>8, <2>9, <2>10 DEF LineOf
  <2>12. w \in wide /\ c = task[w]
    BY <2>5, <2>11
  <2> QED BY <2>12
<1>3. task = [w \in wide |-> task[w]]
  BY Zenon
<1> HIDE DEF task, wide
<1>4. IsFiniteSet(tasks) /\ Cardinality(tasks) <= Cardinality(wide)
  BY <1>1, <1>3, FiniteValues
<1>5. ReportedOn(line, made) \in SUBSET tasks
  BY <1>2
<1> HIDE DEF tasks
<1>6. IsFiniteSet(ReportedOn(line, made)) /\ Cardinality(ReportedOn(line, made)) <= Cardinality(tasks)
  BY <1>4, <1>5, FS_Subset
<1>7. /\ Cardinality(ReportedOn(line, made)) \in Nat /\ Cardinality(tasks) \in Nat
      /\ Cardinality(wide) \in Nat /\ Cardinality(GapsOf(line, v)) \in Nat
  BY <1>1, <1>4, <1>6, LineTypes, FS_CardinalityType
<1> QED BY <1>1, <1>4, <1>6, <1>7

\* There are finitely many gaps.
LEMMA SpacingFinite ==
    ASSUME NEW artifacts, Known(artifacts), NEW v, NEW st
    PROVE  IsFiniteSet(Spacing(artifacts, v, st))
<1> DEFINE line == [a \in artifacts |-> LineOf(a, artifacts, v)]
           all  == {line[a] : a \in artifacts}
<1>1. IsFiniteSet(all)
  <2>1. line = [a \in artifacts |-> line[a]]
    BY Zenon
  <2> HIDE DEF line
  <2> QED BY <2>1, FiniteValues DEF Known
<1>2. Lines(artifacts, v) \in SUBSET all
  BY DEF Lines, Positions
<1> HIDE DEF all
<1>3. IsFiniteSet(Lines(artifacts, v))
  BY <1>1, <1>2, FS_Subset
<1> DEFINE Tasks(l) == {SpacingTask(w) : w \in WideGaps(l, v)}
<1>4. ASSUME NEW l \in Lines(artifacts, v) PROVE IsFiniteSet(Tasks(l))
  <2> DEFINE task == [w \in WideGaps(l, v) |-> SpacingTask(w)]
  <2>1. task = [w \in WideGaps(l, v) |-> task[w]]
    BY Zenon
  <2>2. Tasks(l) = {task[w] : w \in WideGaps(l, v)}
    OBVIOUS
  <2> HIDE DEF task
  <2>3. IsFiniteSet(WideGaps(l, v))
    BY FewWide
  <2> QED BY <2>1, <2>2, <2>3, FiniteValues
<1> DEFINE each == [l \in Lines(artifacts, v) |-> Tasks(l)]
           sets == {each[l] : l \in Lines(artifacts, v)}
<1>5. each = [l \in Lines(artifacts, v) |-> each[l]]
  BY Zenon
<1>6. \A T \in sets : IsFiniteSet(T)
  BY <1>4
<1>7. Spacing(artifacts, v, st) \in SUBSET UNION sets
  BY Zenon DEF Spacing
<1> HIDE DEF each
<1>8. IsFiniteSet(sets)
  BY <1>3, <1>5, FiniteValues
<1> HIDE DEF sets
<1>9. IsFiniteSet(UNION sets)
  BY <1>6, <1>8, FS_UNION
<1> QED BY <1>7, <1>9, FS_Subset

\* Tasks are sound as they are made; unless they are as many as there is room for, or the same
\* was made twice, nothing that was due is left out.
LEMMA Generated ==
    ASSUME TreeTypes(tree), NEW v \in 1..Len(Scans), NEW st \in Settings,
           NEW rest \in SUBSET Scoped(v),
           NEW artifacts, artifacts = ArtifactPayloads(Scoped(v)),
           NEW first \in Parts(Due(artifacts, st), MaxTasks),
           NEW gaps \in Parts(Spacing(artifacts, v, st), MaxTasks - Cardinality(first)),
           NEW spans \in Parts(Intervals(rest, v, st),
                               MaxTasks - Cardinality(first) - Cardinality(gaps)),
           NEW made, made = GenerateCandidates(first, gaps, spans)
    PROVE  /\ IsFiniteSet(made) /\ \A c \in made : c.type \in TaskType
           /\ SpansOf(made, v) /\ RareIn(made, artifacts, v)
           /\ ~MadeTwice(first) /\ Cardinality(made) < MaxTasks =>
                first = Due(artifacts, st) /\ spans = Intervals(rest, v, st)
<1> DEFINE due == Due(artifacts, st)
           all == Spacing(artifacts, v, st)
           some == Intervals(rest, v, st)
           task == [p \in first |-> DetectionTask(p)]
           tasks == {task[p] : p \in first}
<1>1. MaxTasks \in Nat
  BY SourcesAssumption
<1>2. Known(artifacts)
  BY Payloads DEF Known
<1>3. IsFiniteSet(due) /\ IsFiniteSet(all) /\ IsFiniteSet(some)
  BY <1>2, DueFinite, SpacingFinite, IntervalsFinite DEF Known
<1>4. made = tasks \cup gaps \cup spans
  BY DEF GenerateCandidates
<1> HIDE DEF due, all, some
<1>5. /\ first \subseteq due /\ IsFiniteSet(first)
      /\ Cardinality(first) \in Nat /\ Cardinality(first) <= MaxTasks
      /\ Cardinality(first) < MaxTasks => first = due
  <2>1. first \in Parts(due, MaxTasks)
    BY DEF due
  <2> QED BY <1>1, <1>3, <2>1, PartFull
<1> DEFINE room == MaxTasks - Cardinality(first)
<1>6. room \in Nat
  BY <1>1, <1>5
<1>7. /\ gaps \subseteq all /\ IsFiniteSet(gaps)
      /\ Cardinality(gaps) \in Nat /\ Cardinality(gaps) <= room
  <2>1. gaps \in Parts(all, room)
    BY DEF all
  <2> HIDE DEF room
  <2> QED BY <1>3, <1>6, <2>1, PartFull
<1>8. /\ spans \subseteq some /\ IsFiniteSet(spans) /\ Cardinality(spans) \in Nat
      /\ Cardinality(spans) < room - Cardinality(gaps) => spans = some
  <2>1. room - Cardinality(gaps) \in Nat
    BY <1>6, <1>7
  <2>2. spans \in Parts(some, room - Cardinality(gaps))
    BY DEF some
  <2> HIDE DEF room
  <2> QED BY <1>3, <2>1, <2>2, PartFull
<1>9. ASSUME NEW c \in tasks
      PROVE  /\ c.type \in TaskType \ {"UNREVIEWED_INTERVAL", "SPACING_ANOMALY"}
             /\ c.span = {}
  <2>1. PICK p \in first : c = DetectionTask(p)
    OBVIOUS
  <2> QED BY <1>5, <2>1, DetectionTasks DEF due
<1>10. ASSUME NEW c \in gaps PROVE c.type = "SPACING_ANOMALY" /\ c.span = {} /\ c \in all
  <2>1. c \in UNION {{SpacingTask(w) : w \in WideGaps(line, v)} : line \in Lines(artifacts, v)}
    BY <1>7, Zenon DEF all, Spacing
  <2>2. PICK line \in Lines(artifacts, v) : \E w \in WideGaps(line, v) : c = SpacingTask(w)
    BY <2>1
  <2> QED BY <1>7, <2>2 DEF SpacingTask
<1>11. ASSUME NEW c \in spans
       PROVE  c.type = "UNREVIEWED_INTERVAL" /\ \A s \in c.span : c.of = SpanOf(s, v)
  BY <1>8, EachInterval DEF some
<1>12. {"UNREVIEWED_INTERVAL", "SPACING_ANOMALY"} \subseteq TaskType
  BY DEF TaskType
<1>13. task = [p \in first |-> task[p]]
  BY Zenon
<1>14. IsFiniteSet(tasks)
  <2> HIDE DEF task
  <2> QED BY <1>5, <1>13, FiniteValues
<1>15. ~MadeTwice(first) => Cardinality(tasks) = Cardinality(first)
  <2> SUFFICES ASSUME ~MadeTwice(first) PROVE Cardinality(tasks) = Cardinality(first)
    OBVIOUS
  <2>1. \A p, q \in first : task[p] = task[q] => p = q
    BY DEF MadeTwice
  <2>2. task \in Surjection(first, tasks) /\ task \in Injection(first, tasks)
    BY <2>1 DEF Surjection, Injection, IsInjective
  <2> QED BY <1>5, <2>2, FS_Surjection
<1> HIDE DEF tasks
<1>16. ASSUME NEW c \in made PROVE c.type \in TaskType
  BY <1>4, <1>9, <1>10, <1>11, <1>12
<1>17. SpansOf(made, v)
  BY <1>4, <1>9, <1>10, <1>11 DEF SpansOf
<1>18. RareIn(made, artifacts, v)
  <2>1. \A c \in made : c.type = "SPACING_ANOMALY" => c \in Spacing(artifacts, v, st)
    BY <1>4, <1>9, <1>10, <1>11 DEF all
  <2> QED BY <1>2, <2>1, RareGaps
<1>19. IsFiniteSet(tasks \cup gaps) /\ IsFiniteSet(made)
  BY <1>4, <1>7, <1>8, <1>14, FS_Union
<1>20. Cardinality(made) = Cardinality(tasks) + Cardinality(gaps) + Cardinality(spans)
  <2>1. tasks \cap gaps = {} /\ (tasks \cup gaps) \cap spans = {}
    BY <1>9, <1>10, <1>11
  <2>2. Cardinality(tasks) \in Nat /\ Cardinality({}) = 0
    BY <1>14, FS_CardinalityType, FS_EmptySet
  <2>3. Cardinality(tasks \cup gaps) = Cardinality(tasks) + Cardinality(gaps)
    <3>1. Cardinality(tasks \cup gaps) = Cardinality(tasks) + Cardinality(gaps) - Cardinality({})
      BY <1>7, <1>14, <2>1, FS_Union
    <3> QED BY <1>7, <2>2, <3>1
  <2>4. Cardinality(made) = Cardinality(tasks \cup gaps) + Cardinality(spans) - Cardinality({})
    BY <1>4, <1>8, <1>19, <2>1, FS_Union
  <2> QED BY <1>7, <1>8, <2>2, <2>3, <2>4
<1>21. ASSUME ~MadeTwice(first), Cardinality(made) < MaxTasks
       PROVE  first = due /\ spans = some
  <2>1. Cardinality(first) + Cardinality(gaps) + Cardinality(spans) < MaxTasks
    BY <1>15, <1>20, <1>21
  <2> QED BY <1>1, <1>5, <1>7, <1>8, <2>1
<1> QED BY <1>16, <1>17, <1>18, <1>19, <1>21 DEF due, some

-------------------------------------------------------------------------------
\* A row of the registry.
TaskRow == [status : {"todo", "in_progress", "skipped"}, weight : Nat, priority : Nat,
            born : Nat, id : Nat]

SourceTypes ==
    /\ TreeTypes(tree) /\ clock \in Nat
    /\ version \in 1..Len(Scans) /\ covered \in 0..version

\* Tasks differ in when or in what order they came in.
QueueInv ==
    /\ queue \in [DOMAIN queue -> TaskRow] /\ IsFiniteSet(DOMAIN queue)
    /\ \A c \in DOMAIN queue : queue[c].born < clock
    /\ \A c, d \in DOMAIN queue : queue[c].born = queue[d].born /\ queue[c].id = queue[d].id => c = d

\* A frame is covered by a task, be it in the registry or about to come in.
Covered(f, tasks) == \E c \in tasks : CoversFrame(c, f)

\* What a request that has made its tasks holds.
MadeInv(r) ==
    /\ IsFiniteSet(r.made) /\ \A c \in r.made : c.type \in TaskType
    /\ SpansOf(r.made, r.v) /\ RareIn(r.made, r.artifacts, r.v)
    /\ ~r.truncated /\ ~r.twice => AllDue(r.made, r.v, r.st)

\* Of a scan that is still shown, the whole scope is covered.
ScanInv(r) ==
    (r.same /\ r.v = version /\ ~r.truncated /\ ~r.twice /\ "UNREVIEWED_INTERVAL" \in r.st.sources)
        => \A f \in Scoped(r.v) : Covered(f, r.made \cup DOMAIN queue)

\* A request by how far it is.
Stage(r) ==
    /\ r.pc \in {"idle", "read", "reviewed", "insert"}
    /\ r.pc # "idle" => /\ r.st \in Settings /\ r.born \in Nat /\ r.born < clock
                        /\ \A c \in DOMAIN queue : queue[c].born # r.born
    /\ r.pc \in {"reviewed", "insert"} => r.v \in 1..version
    /\ r.pc = "reviewed" =>
        /\ r.frames = Scoped(r.v) /\ r.artifacts = ArtifactPayloads(Scoped(r.v))
        /\ r.truncated = CutShort(Scoped(r.v))
    /\ r.pc = "insert" => MadeInv(r) /\ ScanInv(r)

RequestsInv ==
    /\ request = [g \in Requester |-> request[g]]
    /\ \A g \in Requester : \A r : r = request[g] => Stage(r)
    /\ \A g, h \in Requester :
        request[g].pc # "idle" /\ request[h].pc # "idle" /\ request[g].born = request[h].born => g = h

\* The scan that was covered stays so.
ForgottenInv == covered = version => \A f \in Scoped(version) : Covered(f, DOMAIN queue)

\* The pages so far are in order; a task that stays to do is on them or behind them.
PagerInv ==
    /\ pager \in [pc : {"idle", "page", "end"}, after : SUBSET DOMAIN queue,
                  got : Seq(DOMAIN queue), steady : SUBSET DOMAIN queue]
    /\ \A i, j \in DOMAIN pager.got : i < j => Ahead(pager.got[i], pager.got[j])
    /\ pager.after = IF Len(pager.got) = 0 THEN {} ELSE {pager.got[Len(pager.got)]}
    /\ \A c \in pager.steady :
        /\ queue[c].status = "todo"
        /\ \/ \E i \in DOMAIN pager.got : pager.got[i] = c
           \/ pager.pc = "page" /\ \A d \in pager.after : Ahead(d, c)

\* The inductive invariant of the tasks.
TaskInv == SourceTypes /\ QueueInv /\ RequestsInv /\ ForgottenInv /\ PagerInv

\* While the files stay, so does what is read of them and known of it.
LEMMA FilesStay ==
    ASSUME tree' = tree
    PROVE  /\ \A frames : ArtifactPayloads(frames)' = ArtifactPayloads(frames)
           /\ \A frames : CutShort(frames)' = CutShort(frames)
           /\ \A r : MadeInv(r) => MadeInv(r)'
<1>1. ResultFiles' = ResultFiles
  BY DEF ResultFiles, ResultRoots, Declared
<1>2. \A n, frames : Parsed(n, frames)' = Parsed(n, frames)
  BY DEF Parsed
<1>3. \A frames : Places(frames)' = Places(frames)
  BY <1>1, <1>2 DEF Places
<1>4. \A a, frames : HasRoom(a, frames)' = HasRoom(a, frames)
  BY <1>3 DEF HasRoom
<1>5. \A n : ReadBefore(n)' = ReadBefore(n)
  BY <1>1 DEF ReadBefore
<1>6. \A n : BytesBefore(n)' = BytesBefore(n)
  BY <1>5 DEF BytesBefore
<1>7. \A n : LimitMet(n)' = LimitMet(n)
  BY <1>5, <1>6 DEF LimitMet
<1>8. \A n, frames : TooMany(n, frames)' = TooMany(n, frames)
  BY <1>2, <1>3, <1>4 DEF TooMany
<1>9. \A m, n : SameRecord(m, n)' = SameRecord(m, n)
  BY DEF SameRecord
<1>10. \A n, frames : Reached(n, frames)' = Reached(n, frames)
  BY <1>1, <1>7, <1>8, <1>9 DEF Reached
<1>11. \A frames : ArtifactPayloads(frames)' = ArtifactPayloads(frames)
  BY <1>3, <1>4, <1>7, <1>10 DEF ArtifactPayloads
<1>12. \A frames : CutShort(frames)' = CutShort(frames)
  BY <1>1, <1>7, <1>8 DEF CutShort
<1>13. \A a : Artifact(a)' = Artifact(a)
  BY DEF Artifact
<1>14. \A a : Evidence(a)' = Evidence(a)
  BY <1>13 DEF Evidence
<1>15. \A artifacts : Positions(artifacts)' = Positions(artifacts)
  BY <1>13, <1>14 DEF Positions, Above, Confidence
<1>16. \A a, artifacts, v : LineOf(a, artifacts, v)' = LineOf(a, artifacts, v)
  BY <1>13, <1>14, <1>15 DEF LineOf
<1>17. \A artifacts, v : Lines(artifacts, v)' = Lines(artifacts, v)
  BY <1>15, <1>16 DEF Lines
<1>18. \A line, v : GapsOf(line, v)' = GapsOf(line, v)
  BY <1>13 DEF GapsOf, Ordinal
<1>19. \A line, made : ReportedOn(line, made)' = ReportedOn(line, made)
  BY <1>13 DEF ReportedOn
<1>20. \A made, artifacts, v : RareIn(made, artifacts, v)' = RareIn(made, artifacts, v)
  BY <1>17, <1>18, <1>19 DEF RareIn
<1>21. \A made, v, st : AllDue(made, v, st) => AllDue(made, v, st)'
  BY DEF AllDue
<1>22. \A r : MadeInv(r) => MadeInv(r)'
  BY <1>20, <1>21 DEF MadeInv
<1> QED BY <1>11, <1>12, <1>22

\* A frame stays covered while the scan is shown.
LEMMA ScanKept ==
    ASSUME version' = version, DOMAIN queue \subseteq DOMAIN queue'
    PROVE  /\ \A c, f : CoversFrame(c, f)' = CoversFrame(c, f)
           /\ \A f : Covered(f, DOMAIN queue) => Covered(f, DOMAIN queue)'
           /\ \A r : ScanInv(r) => ScanInv(r)'
<1>1. \A c, f : CoversFrame(c, f)' = CoversFrame(c, f)
  BY DEF CoversFrame
<1>2. \A f : Covered(f, DOMAIN queue) => Covered(f, DOMAIN queue)'
  BY <1>1 DEF Covered
<1>3. ASSUME NEW r, ScanInv(r) PROVE ScanInv(r)'
  BY <1>1, <1>3 DEF Covered, ScanInv
<1> QED BY <1>1, <1>2, <1>3

\* A request that does not move stays as it was, unless a task comes in at its own time.
LEMMA StageKept ==
    ASSUME SourceTypes, tree' = tree, version' \in {version, version + 1},
           clock' \in Nat, clock <= clock', DOMAIN queue \subseteq DOMAIN queue',
           NEW r, Stage(r),
           r.pc # "idle" => \A c \in DOMAIN queue' : queue'[c].born # r.born
    PROVE  Stage(r)'
<1>1. /\ \A frames : ArtifactPayloads(frames)' = ArtifactPayloads(frames)
      /\ \A frames : CutShort(frames)' = CutShort(frames)
      /\ MadeInv(r) => MadeInv(r)'
  BY FilesStay
<1>2. version \in Nat /\ clock \in Nat
  BY DEF SourceTypes
<1>3. r.pc # "idle" => /\ r.st \in Settings /\ r.born \in Nat /\ r.born < clock'
                       /\ \A c \in DOMAIN queue' : queue'[c].born # r.born
  BY <1>2 DEF Stage
<1>4. r.pc \in {"reviewed", "insert"} => r.v \in 1..version'
  BY <1>2 DEF Stage
<1>5. r.pc = "reviewed" =>
        /\ r.frames = Scoped(r.v) /\ r.artifacts = ArtifactPayloads(Scoped(r.v))'
        /\ r.truncated = CutShort(Scoped(r.v))'
  BY <1>1 DEF Stage
<1>6. ASSUME r.pc = "insert" PROVE MadeInv(r)' /\ ScanInv(r)'
  <2>1. MadeInv(r) /\ ScanInv(r) /\ r.v \in 1..version
    BY <1>6 DEF Stage
  <2>2. CASE version' = version
    BY <1>1, <2>1, <2>2, ScanKept
  <2>3. CASE version' = version + 1
    <3>1. r.v # version'
      BY <1>2, <2>1, <2>3
    <3> QED BY <1>1, <2>1, <3>1 DEF ScanInv
  <2> QED BY <2>2, <2>3
<1> QED BY <1>3, <1>4, <1>5, <1>6 DEF Stage

LEMMA RequestsKept ==
    ASSUME SourceTypes, RequestsInv, tree' = tree, version' \in {version, version + 1},
           clock' \in Nat, clock <= clock', DOMAIN queue \subseteq DOMAIN queue',
           NEW keep \in SUBSET Requester, \A g \in keep : request'[g] = request[g],
           \A g \in keep : request[g].pc # "idle" =>
               \A c \in DOMAIN queue' : queue'[c].born # request[g].born
    PROVE  \A g \in keep : \A r : r = request'[g] => Stage(r)'
<1> SUFFICES ASSUME NEW g \in keep, NEW r, r = request'[g] PROVE Stage(r)'
  OBVIOUS
<1>1. r = request[g]
  OBVIOUS
<1>2. Stage(r)
  BY <1>1 DEF RequestsInv
<1>3. r.pc # "idle" => \A c \in DOMAIN queue' : queue'[c].born # r.born
  BY <1>1
<1> QED BY <1>2, <1>3, StageKept

\* The place in the queue is a strict total order.
LEMMA AheadOrder ==
    ASSUME QueueInv
    PROVE  /\ \A c \in DOMAIN queue : ~Ahead(c, c)
           /\ \A c, d \in DOMAIN queue : c # d => Ahead(c, d) \/ Ahead(d, c)
           /\ \A c, d, e \in DOMAIN queue : Ahead(c, d) /\ Ahead(d, e) => Ahead(c, e)
<1>1. \A c \in DOMAIN queue : queue[c].weight \in Nat /\ queue[c].born \in Nat /\ queue[c].id \in Nat
  BY DEF QueueInv, TaskRow
<1>2. \A c \in DOMAIN queue : ~Ahead(c, c)
  BY <1>1 DEF Ahead
<1>3. \A c, d \in DOMAIN queue : c # d => Ahead(c, d) \/ Ahead(d, c)
  BY <1>1 DEF Ahead, QueueInv
<1>4. \A c, d, e \in DOMAIN queue : Ahead(c, d) /\ Ahead(d, e) => Ahead(c, e)
  BY <1>1 DEF Ahead
<1> QED BY <1>2, <1>3, <1>4

\* The pages so far stay right while the tasks keep their places.
LEMMA PagerKept ==
    ASSUME PagerInv, DOMAIN queue \subseteq DOMAIN queue',
           \A c \in DOMAIN queue : /\ queue'[c].weight = queue[c].weight
                                   /\ queue'[c].born = queue[c].born
                                   /\ queue'[c].id = queue[c].id,
           NEW steady \in SUBSET pager.steady, pager' = [pager EXCEPT !.steady = steady],
           \A c \in steady : queue'[c].status = queue[c].status
    PROVE  PagerInv'
<1>1. \A c, d \in DOMAIN queue : Ahead(c, d)' <=> Ahead(c, d)
  BY DEF Ahead
<1>2. /\ pager.after \subseteq DOMAIN queue /\ pager.got \in Seq(DOMAIN queue)
      /\ pager.steady \subseteq DOMAIN queue /\ pager.pc \in {"idle", "page", "end"}
      /\ pager \in [pc : {"idle", "page", "end"}, after : SUBSET DOMAIN queue,
                    got : Seq(DOMAIN queue), steady : SUBSET DOMAIN queue]
  BY DEF PagerInv
<1>3. /\ pager'.pc = pager.pc /\ pager'.after = pager.after /\ pager'.got = pager.got
      /\ pager'.steady = steady
  BY <1>2
<1>4. pager' \in [pc : {"idle", "page", "end"}, after : SUBSET DOMAIN queue',
                  got : Seq(DOMAIN queue'), steady : SUBSET DOMAIN queue']
  <2>1. pager.got \in Seq(DOMAIN queue')
    BY <1>2
  <2>2. pager.after \in SUBSET DOMAIN queue' /\ steady \in SUBSET DOMAIN queue'
    BY <1>2
  <2> QED BY <1>2, <2>1, <2>2
<1>5. \A i \in DOMAIN pager.got : pager.got[i] \in DOMAIN queue
  BY <1>2
<1>6. \A i, j \in DOMAIN pager'.got : i < j => Ahead(pager.got[i], pager.got[j])'
  <2> SUFFICES ASSUME NEW i \in DOMAIN pager.got, NEW j \in DOMAIN pager.got, i < j
               PROVE  \A c, d : c = pager.got[i] /\ d = pager.got[j] => Ahead(c, d)'
    BY <1>3
  <2>1. Ahead(pager.got[i], pager.got[j])
    BY DEF PagerInv
  <2> QED BY <1>1, <1>5, <2>1
<1> QED BY <1>1, <1>2, <1>3, <1>4, <1>5, <1>6 DEF PagerInv

\* What stays when neither the files nor the tasks change.
LEMMA QuietStep ==
    ASSUME TaskInv, tree' = tree, queue' = queue, clock' \in Nat, clock <= clock',
           version' = version, covered' = covered
    PROVE  SourceTypes' /\ QueueInv' /\ ForgottenInv' /\ (pager' = pager => PagerInv')
<1>1. clock \in Nat
  BY DEF TaskInv, SourceTypes
<1>2. SourceTypes'
  BY DEF TaskInv, SourceTypes, TreeTypes
<1>3. QueueInv'
  <2>1. \A c \in DOMAIN queue : queue[c].born \in Nat /\ queue[c].born < clock
    BY DEF TaskInv, QueueInv, TaskRow
  <2>2. \A c \in DOMAIN queue : queue[c].born < clock'
    BY <1>1, <2>1
  <2> QED BY <2>2 DEF TaskInv, QueueInv
<1>4. ForgottenInv'
  BY ScanKept DEF TaskInv, ForgottenInv
<1>5. ASSUME pager' = pager PROVE PagerInv'
  <2>1. pager' = [pager EXCEPT !.steady = pager.steady]
    BY <1>5 DEF TaskInv, PagerInv
  <2> QED BY <2>1, PagerKept DEF TaskInv
<1> QED BY <1>2, <1>3, <1>4, <1>5

\* The requests stay as they were when no task comes in.
LEMMA RequestsStill ==
    ASSUME TaskInv, tree' = tree, request' = request, clock' = clock,
           version' \in {version, version + 1}, DOMAIN queue' = DOMAIN queue,
           \A c \in DOMAIN queue : queue'[c].born = queue[c].born
    PROVE  RequestsInv'
<1>1. clock \in Nat
  BY DEF TaskInv, SourceTypes
<1>2. ASSUME NEW g \in Requester, request[g].pc # "idle"
      PROVE  \A c \in DOMAIN queue' : queue'[c].born # request[g].born
  <2>1. \A r : r = request[g] => Stage(r)
    BY DEF TaskInv, RequestsInv
  <2> QED BY <1>2, <2>1 DEF Stage
<1>3. \A g \in Requester : \A r : r = request'[g] => Stage(r)'
  BY <1>1, <1>2, RequestsKept DEF TaskInv
<1> QED BY <1>3 DEF TaskInv, RequestsInv

LEMMA TasksInit == SourceInit => TaskInv
<1> SUFFICES ASSUME SourceInit PROVE TaskInv
  OBVIOUS
<1> USE SourcesAssumption
<1>1. TreeTypes(tree) /\ 1 \in 1..Len(Scans)
  BY DEF SourceInit
<1>2. DOMAIN queue = {} /\ IsFiniteSet({})
  BY FS_EmptySet DEF SourceInit
<1>3. SourceTypes
  BY <1>1 DEF SourceInit, SourceTypes
<1>4. QueueInv
  <2>1. queue = [c \in {} |-> queue[c]]
    BY DEF SourceInit
  <2>2. queue \in [DOMAIN queue -> TaskRow]
    BY <1>2, <2>1
  <2> QED BY <1>2, <2>2 DEF QueueInv
<1>5. RequestsInv
  <2>1. \A g \in Requester : request[g] = Asleep
    BY DEF SourceInit
  <2>2. Stage(Asleep)
    BY DEF Stage, Asleep
  <2>3. \A g \in Requester : \A r : r = request[g] => Stage(r)
    BY <2>1, <2>2
  <2>4. request = [g \in Requester |-> request[g]]
    BY DEF SourceInit
  <2>5. \A g \in Requester : request[g].pc = "idle"
    BY <2>1 DEF Asleep
  <2> QED BY <2>3, <2>4, <2>5 DEF RequestsInv
<1>6. ForgottenInv
  BY DEF SourceInit, ForgottenInv
<1>7. PagerInv
  <2>1. pager = NoPager /\ Len(<<>>) = 0 /\ DOMAIN <<>> = {}
    BY DEF SourceInit
  <2>2. <<>> \in Seq(DOMAIN queue)
    OBVIOUS
  <2> QED BY <2>1, <2>2 DEF PagerInv, NoPager
<1> QED BY <1>3, <1>4, <1>5, <1>6, <1>7 DEF TaskInv

LEMMA RescanKeeps == TaskInv /\ Rescan => TaskInv'
<1> SUFFICES ASSUME TaskInv, Rescan PROVE TaskInv'
  OBVIOUS
<1>1. /\ version' = version + 1 /\ version < Len(Scans) /\ tree' = tree /\ queue' = queue
      /\ clock' = clock /\ request' = request /\ pager' = pager /\ covered' = covered
  BY DEF Rescan
<1>2. version \in 1..Len(Scans) /\ covered \in 0..version /\ Len(Scans) \in Nat /\ TreeTypes(tree)
  BY SourcesAssumption DEF TaskInv, SourceTypes
<1>3. SourceTypes'
  <2>1. TreeTypes(tree)'
    BY <1>1, <1>2 DEF TreeTypes
  <2> QED BY <1>1, <1>2, <2>1 DEF TaskInv, SourceTypes
<1>4. QueueInv'
  BY <1>1 DEF TaskInv, QueueInv
<1>5. RequestsInv'
  BY <1>1, RequestsStill
<1>6. ForgottenInv'
  BY <1>1, <1>2 DEF ForgottenInv
<1>7. PagerInv'
  <2>1. pager' = [pager EXCEPT !.steady = pager.steady]
    BY <1>1 DEF TaskInv, PagerInv
  <2> QED BY <1>1, <2>1, PagerKept DEF TaskInv
<1> QED BY <1>3, <1>4, <1>5, <1>6, <1>7 DEF TaskInv

LEMMA RequestTasksKeeps ==
    ASSUME TaskInv, NEW g \in Requester, NEW st \in Settings, RequestTasks(g, st)
    PROVE  TaskInv'
<1> DEFINE new == [pc |-> "read", st |-> st, born |-> clock]
<1>1. /\ request[g].pc = "idle" /\ request' = [request EXCEPT ![g] = new] /\ clock' = clock + 1
      /\ tree' = tree /\ version' = version /\ queue' = queue /\ pager' = pager
      /\ covered' = covered
  BY DEF RequestTasks
<1>2. clock \in Nat /\ clock' \in Nat /\ clock < clock' /\ clock <= clock'
  BY <1>1 DEF TaskInv, SourceTypes
<1>3. /\ request = [h \in Requester |-> request[h]]
      /\ \A h \in Requester : \A r : r = request[h] => Stage(r)
      /\ \A h, k \in Requester :
           request[h].pc # "idle" /\ request[k].pc # "idle" /\ request[h].born = request[k].born => h = k
  BY DEF TaskInv, RequestsInv
<1>4. request'[g] = new /\ \A h \in Requester \ {g} : request'[h] = request[h]
  BY <1>1, <1>3
<1>5. \A c \in DOMAIN queue : queue[c].born \in Nat /\ queue[c].born < clock
  BY DEF TaskInv, QueueInv, TaskRow
<1>6. ASSUME NEW r, r = request'[g] PROVE Stage(r)'
  <2>1. r = new
    BY <1>4, <1>6
  <2>2. r.pc = "read" /\ r.st \in Settings /\ r.born = clock
    BY <2>1
  <2> QED BY <1>1, <1>2, <1>5, <2>2 DEF Stage
<1>7. \A h \in Requester : request[h].pc # "idle" =>
        /\ request[h].born \in Nat /\ request[h].born < clock
        /\ \A c \in DOMAIN queue' : queue'[c].born # request[h].born
  BY <1>1, <1>3 DEF Stage
<1>8. \A h \in Requester \ {g} : \A r : r = request'[h] => Stage(r)'
  <2>1. Requester \ {g} \in SUBSET Requester
    OBVIOUS
  <2> HIDE DEF new
  <2> QED BY <1>1, <1>2, <1>4, <1>7, <2>1, RequestsKept DEF TaskInv
<1>9. request' = [h \in Requester |-> request'[h]]
  BY <1>1, <1>3
<1>10. \A h, k \in Requester :
          request'[h].pc # "idle" /\ request'[k].pc # "idle" /\ request'[h].born = request'[k].born => h = k
  <2>1. new.born = clock
    OBVIOUS
  <2> HIDE DEF new
  <2> QED BY <1>2, <1>3, <1>4, <1>7, <2>1
<1>11. RequestsInv'
  <2> HIDE DEF new
  <2>1. \A h \in Requester : \A r : r = request'[h] => Stage(r)'
    BY <1>6, <1>8
  <2> QED BY <1>9, <1>10, <2>1 DEF RequestsInv
<1> QED BY <1>1, <1>2, <1>11, QuietStep DEF TaskInv

LEMMA MoveTaskKeeps ==
    ASSUME TaskInv, NEW c \in DOMAIN queue, MoveTask(c)
    PROVE  TaskInv'
<1>1. PICK to \in {<<"todo", "in_progress">>, <<"in_progress", "skipped">>, <<"skipped", "todo">>} :
        queue' = [queue EXCEPT ![c].status = to[2]]
  BY DEF MoveTask
<1>2. to[2] \in {"todo", "in_progress", "skipped"}
  OBVIOUS
<1>3. /\ pager' = [pager EXCEPT !.steady = @ \ {c}] /\ tree' = tree /\ version' = version
      /\ clock' = clock /\ request' = request /\ covered' = covered
  BY DEF MoveTask
<1>4. queue \in [DOMAIN queue -> TaskRow]
  BY DEF TaskInv, QueueInv
<1>5. /\ DOMAIN queue' = DOMAIN queue
      /\ \A d \in DOMAIN queue : /\ queue'[d].weight = queue[d].weight /\ queue'[d].born = queue[d].born
                                 /\ queue'[d].id = queue[d].id
                                 /\ d # c => queue'[d] = queue[d]
  BY <1>1, <1>4 DEF TaskRow
<1>6. queue' \in [DOMAIN queue -> TaskRow]
  BY <1>1, <1>2, <1>4 DEF TaskRow
<1>7. QueueInv'
  BY <1>3, <1>5, <1>6 DEF TaskInv, QueueInv
<1>8. SourceTypes'
  BY <1>3 DEF TaskInv, SourceTypes, TreeTypes
<1>9. RequestsInv'
  BY <1>3, <1>5, RequestsStill
<1>10. ForgottenInv'
  BY <1>3, <1>5, ScanKept DEF TaskInv, ForgottenInv
<1>11. PagerInv'
  <2> DEFINE steady == pager.steady \ {c}
  <2>1. pager' = [pager EXCEPT !.steady = steady] /\ steady \in SUBSET pager.steady
    BY <1>3
  <2>2. \A d \in steady : queue'[d].status = queue[d].status
    BY <1>5 DEF TaskInv, PagerInv
  <2> HIDE DEF steady
  <2> QED BY <1>5, <2>1, <2>2, PagerKept DEF TaskInv
<1> QED BY <1>7, <1>8, <1>9, <1>10, <1>11 DEF TaskInv

LEMMA PatchPriorityKeeps ==
    ASSUME TaskInv, NEW c \in DOMAIN queue, PatchPriority(c)
    PROVE  TaskInv'
<1>1. /\ queue' = [queue EXCEPT ![c].priority = 100] /\ tree' = tree /\ version' = version
      /\ clock' = clock /\ request' = request /\ pager' = pager /\ covered' = covered
  BY DEF PatchPriority
<1>2. queue \in [DOMAIN queue -> TaskRow]
  BY DEF TaskInv, QueueInv
<1>3. /\ DOMAIN queue' = DOMAIN queue
      /\ \A d \in DOMAIN queue : /\ queue'[d].weight = queue[d].weight /\ queue'[d].born = queue[d].born
                                 /\ queue'[d].id = queue[d].id /\ queue'[d].status = queue[d].status
  BY <1>1, <1>2 DEF TaskRow
<1>4. queue' \in [DOMAIN queue -> TaskRow]
  BY <1>1, <1>2 DEF TaskRow
<1>5. QueueInv'
  BY <1>1, <1>3, <1>4 DEF TaskInv, QueueInv
<1>6. SourceTypes'
  BY <1>1 DEF TaskInv, SourceTypes, TreeTypes
<1>7. RequestsInv'
  BY <1>1, <1>3, RequestsStill
<1>8. ForgottenInv'
  BY <1>1, <1>3, ScanKept DEF TaskInv, ForgottenInv
<1>9. PagerInv'
  <2>1. pager' = [pager EXCEPT !.steady = pager.steady] /\ pager.steady \subseteq DOMAIN queue
    BY <1>1 DEF TaskInv, PagerInv
  <2> QED BY <1>3, <2>1, PagerKept DEF TaskInv
<1> QED BY <1>5, <1>6, <1>7, <1>8, <1>9 DEF TaskInv

LEMMA ListTasksKeeps == TaskInv /\ ListTasks => TaskInv'
<1> SUFFICES ASSUME TaskInv, ListTasks PROVE TaskInv'
  OBVIOUS
<1>1. /\ pager' = [pc |-> "page", after |-> {}, got |-> <<>>, steady |-> Behind({})]
      /\ tree' = tree /\ version' = version /\ queue' = queue /\ clock' = clock
      /\ request' = request /\ covered' = covered
  BY DEF ListTasks
<1>2. clock \in Nat
  BY DEF TaskInv, SourceTypes
<1>3. SourceTypes' /\ QueueInv' /\ ForgottenInv'
  BY <1>1, <1>2, QuietStep
<1>4. RequestsInv'
  BY <1>1, RequestsStill
<1>5. PagerInv'
  <2>1. \A c \in Behind({}) : c \in DOMAIN queue /\ queue[c].status = "todo"
    BY DEF Behind
  <2>2. Len(<<>>) = 0 /\ DOMAIN <<>> = {} /\ <<>> \in Seq(DOMAIN queue)
    OBVIOUS
  <2>3. /\ pager'.pc = "page" /\ pager'.after = {} /\ pager'.got = <<>>
        /\ pager'.steady = Behind({})
    BY <1>1
  <2>4. pager' \in [pc : {"idle", "page", "end"}, after : SUBSET DOMAIN queue,
                    got : Seq(DOMAIN queue), steady : SUBSET DOMAIN queue]
    BY <1>1, <2>1, <2>2
  <2> QED BY <1>1, <2>1, <2>2, <2>3, <2>4 DEF PagerInv
<1> QED BY <1>3, <1>4, <1>5 DEF TaskInv

LEMMA CompleteSessionKeeps == TaskInv /\ CompleteSession => TaskInv'
<1> SUFFICES ASSUME TaskInv, CompleteSession PROVE TaskInv'
  OBVIOUS
<1>1. /\ tree' = tree /\ version' = version /\ queue' = queue /\ clock' = clock
      /\ request' = request /\ pager' = pager /\ covered' = covered
  BY DEF CompleteSession
<1>2. clock \in Nat
  BY DEF TaskInv, SourceTypes
<1> QED BY <1>1, <1>2, QuietStep, RequestsStill DEF TaskInv

LEMMA TasksStutter == TaskInv /\ UNCHANGED sourceVars => TaskInv'
<1> SUFFICES ASSUME TaskInv, UNCHANGED sourceVars PROVE TaskInv'
  OBVIOUS
<1>1. /\ tree' = tree /\ version' = version /\ queue' = queue /\ clock' = clock
      /\ request' = request /\ pager' = pager /\ covered' = covered
  BY DEF sourceVars
<1>2. clock \in Nat
  BY DEF TaskInv, SourceTypes
<1> QED BY <1>1, <1>2, QuietStep, RequestsStill DEF TaskInv

\* A request that moves without touching the tasks, by what it has become.
LEMMA OneMoves ==
    ASSUME TaskInv, NEW g \in Requester, NEW new, request' = [request EXCEPT ![g] = new],
           tree' = tree, version' = version, queue' = queue, clock' = clock,
           pager' = pager, covered' = covered, request[g].pc # "idle",
           new.born = request[g].born, Stage(new)
    PROVE  TaskInv'
<1>1. clock \in Nat
  BY DEF TaskInv, SourceTypes
<1>2. /\ request = [h \in Requester |-> request[h]]
      /\ \A h \in Requester : \A r : r = request[h] => Stage(r)
      /\ \A h, k \in Requester :
           request[h].pc # "idle" /\ request[k].pc # "idle" /\ request[h].born = request[k].born => h = k
  BY DEF TaskInv, RequestsInv
<1>3. request'[g] = new /\ \A h \in Requester \ {g} : request'[h] = request[h]
  BY <1>2
<1>4. \A h \in Requester : request[h].pc # "idle" =>
        \A c \in DOMAIN queue' : queue'[c].born # request[h].born
  BY <1>2 DEF Stage
<1>5. \A h \in Requester \ {g} : \A r : r = request'[h] => Stage(r)'
  <2>1. Requester \ {g} \in SUBSET Requester
    OBVIOUS
  <2>2. /\ SourceTypes /\ RequestsInv /\ version' \in {version, version + 1}
        /\ clock' \in Nat /\ clock <= clock' /\ DOMAIN queue \subseteq DOMAIN queue'
    BY <1>1 DEF TaskInv
  <2> QED BY <1>3, <1>4, <2>1, <2>2, RequestsKept
<1>6. Stage(new)'
  <2>1. \A c \in DOMAIN queue' : queue'[c].born # new.born
    BY <1>4
  <2> QED BY <1>1, <2>1, StageKept DEF TaskInv
<1>7. request' = [h \in Requester |-> request'[h]]
  BY <1>2
<1>8. \A h \in Requester : \A r : r = request'[h] => Stage(r)'
  BY <1>3, <1>5, <1>6
<1>9. \A h, k \in Requester :
        request'[h].pc # "idle" /\ request'[k].pc # "idle" /\ request'[h].born = request'[k].born => h = k
  BY <1>2, <1>3
<1>10. RequestsInv'
  BY <1>7, <1>8, <1>9 DEF RequestsInv
<1> QED BY <1>1, <1>10, QuietStep DEF TaskInv

LEMMA ReadSourcesKeeps ==
    ASSUME TaskInv, NEW g \in Requester, ReadSources(g)
    PROVE  TaskInv'
<1> DEFINE frames == Scoped(version)
           new == [pc |-> "reviewed", st |-> request[g].st, born |-> request[g].born,
                   v |-> version, frames |-> frames, artifacts |-> ArtifactPayloads(frames),
                   truncated |-> CutShort(frames)]
<1>1. /\ request[g].pc = "read" /\ tree' = tree /\ version' = version /\ queue' = queue
      /\ clock' = clock /\ pager' = pager /\ covered' = covered
  BY DEF ReadSources
<1>2. request = [h \in Requester |-> request[h]]
  BY DEF TaskInv, RequestsInv
<1>3. request' = [request EXCEPT ![g] = new]
  BY <1>2 DEF ReadSources
<1>4. PICK r : r = request[g]
  OBVIOUS
<1>5. Stage(r)
  BY <1>4 DEF TaskInv, RequestsInv
<1>6. version \in Nat \ {0}
  BY DEF TaskInv, SourceTypes
<1>7. PICK n : n = new
  OBVIOUS
<1>8. /\ n.pc = "reviewed" /\ n.st = r.st /\ n.born = r.born /\ n.v = version
      /\ n.frames = Scoped(n.v) /\ n.artifacts = ArtifactPayloads(Scoped(n.v))
      /\ n.truncated = CutShort(Scoped(n.v))
  BY <1>4, <1>7
<1>9. Stage(n)
  <2>1. n.v \in 1..version
    BY <1>6, <1>8
  <2>2. /\ n.st \in Settings /\ n.born \in Nat /\ n.born < clock
        /\ \A c \in DOMAIN queue : queue[c].born # n.born
    BY <1>1, <1>4, <1>5, <1>8 DEF Stage
  <2> QED BY <1>8, <2>1, <2>2 DEF Stage
<1>10. request' = [request EXCEPT ![g] = n]
  BY <1>3, <1>7
<1> HIDE DEF new
<1> QED BY <1>1, <1>4, <1>8, <1>9, <1>10, OneMoves

\* What a request becomes once it has read what has been reviewed.
Proposed(r, made, twice) ==
    [pc |-> "insert", st |-> r.st, born |-> r.born, v |-> r.v, made |-> made,
     artifacts |-> r.artifacts, same |-> r.v = version, twice |-> twice,
     truncated |-> r.truncated \/ Cardinality(made) >= MaxTasks]

Turns(r, new) ==
    LET due  == Due(r.artifacts, r.st)
        wide == Spacing(r.artifacts, r.v, r.st)
        all  == Intervals(r.frames \ Reviewed, r.v, r.st)
    IN \E first \in Parts(due, MaxTasks) :
         \E gaps \in Parts(wide, MaxTasks - Cardinality(first)) :
           \E spans \in Parts(all, MaxTasks - Cardinality(first) - Cardinality(gaps)) :
             new = Proposed(r, GenerateCandidates(first, gaps, spans), MadeTwice(first))

\* A frame that has been reviewed is covered; any other has an interval made for it.
LEMMA ReadReviewedKeeps ==
    ASSUME TaskInv, NEW g \in Requester, ReadReviewed(g)
    PROVE  TaskInv'
<1>1. /\ request[g].pc = "reviewed" /\ tree' = tree /\ version' = version /\ queue' = queue
      /\ clock' = clock /\ pager' = pager /\ covered' = covered
  BY DEF ReadReviewed
<1>2. PICK r : r = request[g]
  OBVIOUS
<1>3. Stage(r) /\ r.pc = "reviewed"
  BY <1>1, <1>2 DEF TaskInv, RequestsInv
<1>4. /\ r.st \in Settings /\ r.v \in 1..version /\ r.frames = Scoped(r.v)
      /\ r.artifacts = ArtifactPayloads(Scoped(r.v))
  BY <1>3 DEF Stage
<1>5. r.truncated = CutShort(Scoped(r.v))
  BY <1>3 DEF Stage
<1>6. /\ version \in 1..Len(Scans) /\ Len(Scans) \in Nat /\ TreeTypes(tree)
      /\ r.v \in 1..Len(Scans)
  BY <1>4, SourcesAssumption DEF TaskInv, SourceTypes
<1> DEFINE rest == r.frames \ Reviewed
           due == Due(r.artifacts, r.st)
           wide == Spacing(r.artifacts, r.v, r.st)
           all == Intervals(rest, r.v, r.st)
<1>7. \E new : request' = [request EXCEPT ![g] = new] /\ Turns(request[g], new)
  <2> DEFINE d == Due(request[g].artifacts, request[g].st)
             w == Spacing(request[g].artifacts, request[g].v, request[g].st)
             a == Intervals(request[g].frames \ Reviewed, request[g].v, request[g].st)
             new(first, gaps, spans) ==
                 Proposed(request[g], GenerateCandidates(first, gaps, spans), MadeTwice(first))
  <2>1. PICK first \in Parts(d, MaxTasks) :
          \E gaps \in Parts(w, MaxTasks - Cardinality(first)) :
            \E spans \in Parts(a, MaxTasks - Cardinality(first) - Cardinality(gaps)) :
              Leads(first, d) /\ request' = [request EXCEPT ![g] = new(first, gaps, spans)]
    BY DEF ReadReviewed, Proposed
  <2>2. PICK gaps \in Parts(w, MaxTasks - Cardinality(first)) :
          \E spans \in Parts(a, MaxTasks - Cardinality(first) - Cardinality(gaps)) :
            request' = [request EXCEPT ![g] = new(first, gaps, spans)]
    BY <2>1
  <2>3. PICK spans \in Parts(a, MaxTasks - Cardinality(first) - Cardinality(gaps)) :
          request' = [request EXCEPT ![g] = new(first, gaps, spans)]
    BY <2>2
  <2> QED BY <2>3, Zenon DEF Turns
<1>8. PICK n : request' = [request EXCEPT ![g] = n] /\ Turns(r, n)
  BY <1>2, <1>7
<1>9. PICK first \in Parts(due, MaxTasks) :
        \E gaps \in Parts(wide, MaxTasks - Cardinality(first)) :
          \E spans \in Parts(all, MaxTasks - Cardinality(first) - Cardinality(gaps)) :
            n = Proposed(r, GenerateCandidates(first, gaps, spans), MadeTwice(first))
  BY <1>8 DEF Turns
<1>10. PICK gaps \in Parts(wide, MaxTasks - Cardinality(first)) :
        \E spans \in Parts(all, MaxTasks - Cardinality(first) - Cardinality(gaps)) :
          n = Proposed(r, GenerateCandidates(first, gaps, spans), MadeTwice(first))
  BY <1>9
<1>11. PICK spans \in Parts(all, MaxTasks - Cardinality(first) - Cardinality(gaps)) :
        n = Proposed(r, GenerateCandidates(first, gaps, spans), MadeTwice(first))
  BY <1>10
<1>12. PICK made : made = GenerateCandidates(first, gaps, spans)
  OBVIOUS
<1>13. rest \in SUBSET Scoped(r.v)
  BY <1>4
<1>14. /\ IsFiniteSet(made) /\ \A c \in made : c.type \in TaskType
       /\ SpansOf(made, r.v) /\ RareIn(made, r.artifacts, r.v)
       /\ ~MadeTwice(first) /\ Cardinality(made) < MaxTasks => first = due /\ spans = all
  BY <1>4, <1>6, <1>12, <1>13, Generated
<1>15. \A p \in first : DetectionTask(p) \in made
  BY <1>12 DEF GenerateCandidates
<1>16. spans \subseteq made
  BY <1>12 DEF GenerateCandidates
<1>17. n = Proposed(r, made, MadeTwice(first))
  BY <1>12, <1>11
<1>18. /\ n.pc = "insert" /\ n.st = r.st /\ n.born = r.born /\ n.v = r.v /\ n.made = made
       /\ n.artifacts = r.artifacts
  BY <1>17 DEF Proposed
<1>19. n.same => r.v = version
  BY <1>17 DEF Proposed
<1>20. ~n.twice => ~MadeTwice(first)
  BY <1>17 DEF Proposed
<1>21. ~n.truncated => ~r.truncated /\ ~(Cardinality(made) >= MaxTasks)
  BY <1>17, Zenon DEF Proposed
<1>22. ~n.truncated /\ ~n.twice => first = due /\ spans = all /\ ~CutShort(Scoped(r.v))
  <2>1. SUFFICES ASSUME ~n.truncated, ~n.twice
                 PROVE  first = due /\ spans = all /\ ~CutShort(Scoped(r.v))
    OBVIOUS
  <2>2. ~CutShort(Scoped(r.v))
    BY <1>5, <1>21, <2>1, Zenon
  <2>3. Cardinality(made) \in Nat /\ MaxTasks \in Nat
    BY <1>14, FS_CardinalityType, SourcesAssumption
  <2> QED BY <1>14, <1>20, <1>21, <2>1, <2>2, <2>3
<1> HIDE DEF rest, due, wide, all
<1>23. MadeInv(n)
  <2>1. ASSUME ~n.truncated, ~n.twice PROVE AllDue(made, r.v, r.st)
    <3>1. \A p \in Due(ArtifactPayloads(Scoped(r.v)), r.st) : DetectionTask(p) \in made
      BY <1>4, <1>15, <1>22, <2>1 DEF due
    <3> QED BY <1>6, <1>22, <2>1, <3>1, EachDue
  <2> QED BY <1>14, <1>18, <2>1 DEF MadeInv
<1>24. ScanInv(n)
  <2> SUFFICES ASSUME n.v = version, ~n.truncated, ~n.twice, "UNREVIEWED_INTERVAL" \in n.st.sources,
                      NEW f \in Scoped(n.v)
               PROVE  Covered(f, n.made \cup DOMAIN queue)
    BY DEF ScanInv
  <2>1. CASE f \in Reviewed
    BY <2>1 DEF Reviewed, Covered
  <2>2. CASE f \notin Reviewed
    <3>1. f \in rest
      BY <1>4, <1>18, <2>2 DEF rest
    <3>2. PICK c \in Intervals(rest, r.v, r.st) : \E s \in c.span : f \in SpanOf(s, r.v)
      BY <1>4, <1>6, <1>13, <1>18, <3>1, IntervalFor
    <3>3. c \in n.made
      BY <1>16, <1>18, <1>22, <3>2 DEF all
    <3>4. CoversFrame(c, f)
      BY <1>18, <3>2 DEF CoversFrame, SpanOf
    <3> QED BY <3>3, <3>4 DEF Covered
  <2> QED BY <2>1, <2>2
<1>25. Stage(n)
  <2>1. /\ n.st \in Settings /\ n.born \in Nat /\ n.born < clock
        /\ \A c \in DOMAIN queue : queue[c].born # n.born
    BY <1>3, <1>18 DEF Stage
  <2> QED BY <1>4, <1>18, <1>23, <1>24, <2>1 DEF Stage
<1> QED BY <1>1, <1>2, <1>8, <1>18, <1>25, OneMoves

\* The ids of tasks that come in together are their own.
IdsOf(new) ==
    CHOOSE i \in [new -> 1..Cardinality(new)] : \A c, d \in new : i[c] = i[d] => c = d

LEMMA OwnIds ==
    ASSUME NEW new, IsFiniteSet(new)
    PROVE  /\ IdsOf(new) \in [new -> 1..Cardinality(new)]
           /\ \A c, d \in new : IdsOf(new)[c] = IdsOf(new)[d] => c = d
<1>1. Cardinality(new) \in Nat
  BY FS_CardinalityType
<1>2. IsFiniteSet(1..Cardinality(new)) /\ Cardinality(1..Cardinality(new)) = Cardinality(new)
  BY <1>1, FS_Interval
<1>3. PICK i : i \in Bijection(new, 1..Cardinality(new))
  BY <1>2, FS_SameCardinalityBij DEF ExistsBijection
<1>4. i \in [new -> 1..Cardinality(new)] /\ \A c, d \in new : i[c] = i[d] => c = d
  BY <1>3 DEF Bijection, Injection, IsInjective
<1> QED BY <1>4, Zenon DEF IdsOf

LEMMA InsertTasksKeeps ==
    ASSUME TaskInv, NEW g \in Requester, InsertTasks(g)
    PROVE  TaskInv'
<1>1. /\ request[g].pc = "insert" /\ tree' = tree /\ version' = version /\ clock' = clock
      /\ pager' = pager /\ request' = [request EXCEPT ![g] = Asleep]
  BY DEF InsertTasks
<1>2. PICK r : r = request[g]
  OBVIOUS
<1>3. /\ request = [h \in Requester |-> request[h]]
      /\ \A h \in Requester : \A q : q = request[h] => Stage(q)
      /\ \A h, k \in Requester :
           request[h].pc # "idle" /\ request[k].pc # "idle" /\ request[h].born = request[k].born => h = k
  BY DEF TaskInv, RequestsInv
<1>4. /\ Stage(r) /\ r.pc = "insert" /\ r.born \in Nat /\ r.born < clock
      /\ \A c \in DOMAIN queue : queue[c].born # r.born
      /\ MadeInv(r) /\ ScanInv(r) /\ r.v \in 1..version
  BY <1>1, <1>2, <1>3 DEF Stage
<1>5. version \in Nat /\ clock \in Nat /\ covered \in 0..version
  BY DEF TaskInv, SourceTypes
<1> DEFINE new == r.made \ DOMAIN queue
<1>6. IsFiniteSet(r.made) /\ \A c \in r.made : c.type \in TaskType
  BY <1>4 DEF MadeInv
<1>7. IsFiniteSet(new)
  <2>1. new \in SUBSET r.made
    OBVIOUS
  <2> HIDE DEF new
  <2> QED BY <1>6, <2>1, FS_Subset
<1>8. PICK id : id = IdsOf(new)
  OBVIOUS
<1>9. id \in [new -> 1..Cardinality(new)] /\ \A c, d \in new : id[c] = id[d] => c = d
  BY <1>7, <1>8, OwnIds
<1>10. queue' = [c \in DOMAIN queue \cup new |->
                   IF c \in new
                   THEN [status |-> "todo", weight |-> Weight[c.type], priority |-> Weight[c.type],
                         born |-> r.born, id |-> id[c]]
                   ELSE queue[c]]
  BY <1>2, <1>8 DEF InsertTasks, IdsOf
<1>11. covered' = IF /\ r.same /\ ~r.truncated /\ ~r.twice
                     /\ "UNREVIEWED_INTERVAL" \in r.st.sources
                  THEN r.v ELSE covered
  BY <1>2 DEF InsertTasks
<1>12. DOMAIN queue' = DOMAIN queue \cup r.made /\ DOMAIN queue' = DOMAIN queue \cup new
  BY <1>10
<1>13. \A c \in DOMAIN queue : queue'[c] = queue[c]
  BY <1>10
<1>14. \A c \in new : c \notin DOMAIN queue /\ c \in r.made
  OBVIOUS
<1> HIDE DEF new
<1>15. \A c \in new : queue'[c] = [status |-> "todo", weight |-> Weight[c.type],
                                    priority |-> Weight[c.type], born |-> r.born, id |-> id[c]]
  BY <1>10
<1>16. queue \in [DOMAIN queue -> TaskRow]
  BY DEF TaskInv, QueueInv
<1>17. \A c \in new : queue'[c] \in TaskRow /\ queue'[c].born = r.born /\ queue'[c].id = id[c]
  <2> SUFFICES ASSUME NEW c \in new
               PROVE  queue'[c] \in TaskRow /\ queue'[c].born = r.born /\ queue'[c].id = id[c]
    OBVIOUS
  <2>1. Weight[c.type] \in Nat
    BY <1>6, <1>14, SourcesAssumption
  <2>2. id[c] \in Nat
    <3>1. Cardinality(new) \in Nat
      BY <1>7, FS_CardinalityType
    <3> QED BY <1>9, <3>1
  <2>3. queue'[c] = [status |-> "todo", weight |-> Weight[c.type], priority |-> Weight[c.type],
                     born |-> r.born, id |-> id[c]]
    BY <1>15
  <2>4. r.born \in Nat
    BY <1>4
  <2> QED BY <2>1, <2>2, <2>3, <2>4 DEF TaskRow
<1>18. queue' = [c \in DOMAIN queue \cup new |-> queue'[c]]
  BY <1>10
<1>19. QueueInv'
  <2>1. queue' \in [DOMAIN queue' -> TaskRow]
    BY <1>12, <1>13, <1>16, <1>17, <1>18
  <2>2. IsFiniteSet(DOMAIN queue')
    <3>1. IsFiniteSet(DOMAIN queue)
      BY DEF TaskInv, QueueInv
    <3>2. IsFiniteSet(DOMAIN queue \cup r.made)
      BY <1>6, <3>1, FS_Union
    <3> QED BY <1>12, <3>2
  <2>3. \A c \in DOMAIN queue' : queue'[c].born < clock'
    BY <1>1, <1>4, <1>12, <1>13, <1>17 DEF TaskInv, QueueInv
  <2>4. ASSUME NEW c \in DOMAIN queue', NEW d \in DOMAIN queue',
               queue'[c].born = queue'[d].born, queue'[c].id = queue'[d].id
        PROVE  c = d
    <3>1. CASE c \in DOMAIN queue /\ d \in DOMAIN queue
      BY <1>13, <2>4, <3>1 DEF TaskInv, QueueInv
    <3>2. CASE c \in new /\ d \in new
      BY <1>9, <1>17, <2>4, <3>2
    <3>3. CASE c \in DOMAIN queue /\ d \in new
      BY <1>4, <1>13, <1>17, <2>4, <3>3
    <3>4. CASE c \in new /\ d \in DOMAIN queue
      BY <1>4, <1>13, <1>17, <2>4, <3>4
    <3> QED BY <1>12, <3>1, <3>2, <3>3, <3>4
  <2> QED BY <2>1, <2>2, <2>3, <2>4 DEF QueueInv
<1>20. SourceTypes'
  <2>1. covered' \in 0..version'
    BY <1>1, <1>4, <1>5, <1>11
  <2> QED BY <1>1, <2>1 DEF TaskInv, SourceTypes, TreeTypes
<1>21. request'[g] = Asleep /\ \A h \in Requester \ {g} : request'[h] = request[h]
  BY <1>1, <1>3
<1>22. RequestsInv'
  <2>1. ASSUME NEW h \in Requester \ {g}, request[h].pc # "idle"
        PROVE  \A c \in DOMAIN queue' : queue'[c].born # request[h].born
    <3>1. request[h].born # r.born
      BY <1>1, <1>2, <1>3, <2>1
    <3>2. \A c \in DOMAIN queue : queue[c].born # request[h].born
      BY <1>3, <2>1 DEF Stage
    <3> QED BY <1>12, <1>13, <1>17, <3>1, <3>2
  <2>2. /\ Requester \ {g} \in SUBSET Requester
        /\ SourceTypes /\ RequestsInv /\ version' \in {version, version + 1}
        /\ clock' \in Nat /\ clock <= clock' /\ DOMAIN queue \subseteq DOMAIN queue'
    BY <1>1, <1>5, <1>12 DEF TaskInv
  <2>3. \A h \in Requester \ {g} : \A q : q = request'[h] => Stage(q)'
    BY <1>1, <1>21, <2>1, <2>2, RequestsKept
  <2>4. Asleep.pc = "idle"
    BY DEF Asleep
  <2>5. \A q : q = request'[g] => Stage(q)'
    BY <1>21, <2>4 DEF Stage
  <2>6. request' = [h \in Requester |-> request'[h]]
    BY <1>1, <1>3
  <2>7. \A h \in Requester : \A q : q = request'[h] => Stage(q)'
    BY <2>3, <2>5
  <2> HIDE DEF Asleep
  <2>8. \A h, k \in Requester :
          request'[h].pc # "idle" /\ request'[k].pc # "idle" /\ request'[h].born = request'[k].born => h = k
    BY <1>3, <1>21, <2>4
  <2> QED BY <2>6, <2>7, <2>8 DEF RequestsInv
<1>23. ForgottenInv'
  <2>1. ASSUME NEW f \in Scoped(version), Covered(f, DOMAIN queue) \/ Covered(f, r.made \cup DOMAIN queue)
        PROVE  Covered(f, DOMAIN queue)'
    <3>1. PICK c \in r.made \cup DOMAIN queue : CoversFrame(c, f)
      BY <2>1 DEF Covered
    <3>2. CoversFrame(c, f)'
      BY <1>1, <1>12, <3>1, ScanKept
    <3> QED BY <1>12, <3>1, <3>2 DEF Covered
  <2>2. ASSUME covered' = version PROVE \A f \in Scoped(version) : Covered(f, DOMAIN queue)'
    <3>1. CASE /\ r.same /\ ~r.truncated /\ ~r.twice
               /\ "UNREVIEWED_INTERVAL" \in r.st.sources
      <4>1. r.v = version
        BY <1>11, <2>2, <3>1
      <4> QED BY <1>4, <2>1, <3>1, <4>1 DEF ScanInv
    <3>2. CASE ~(/\ r.same /\ ~r.truncated /\ ~r.twice
                 /\ "UNREVIEWED_INTERVAL" \in r.st.sources)
      <4>1. covered = version
        BY <1>11, <2>2, <3>2
      <4> QED BY <2>1, <4>1 DEF TaskInv, ForgottenInv
    <3> QED BY <3>1, <3>2
  <2> QED BY <1>1, <2>2 DEF ForgottenInv
<1>24. PagerInv'
  <2>1. pager' = [pager EXCEPT !.steady = pager.steady] /\ pager.steady \subseteq DOMAIN queue
    BY <1>1 DEF TaskInv, PagerInv
  <2> QED BY <1>12, <1>13, <2>1, PagerKept DEF TaskInv
<1> QED BY <1>19, <1>20, <1>22, <1>23, <1>24 DEF TaskInv

\* As many tasks as there are, each once, are all of them.
LEMMA AllShown ==
    ASSUME NEW rows, IsFiniteSet(rows), NEW shown \in [1..Cardinality(rows) -> rows],
           \A i, j \in 1..Cardinality(rows) : shown[i] = shown[j] => i = j
    PROVE  \A c \in rows : \E i \in 1..Cardinality(rows) : shown[i] = c
<1>1. Cardinality(rows) \in Nat
  BY FS_CardinalityType
<1>2. IsFiniteSet(1..Cardinality(rows)) /\ Cardinality(1..Cardinality(rows)) = Cardinality(rows)
  BY <1>1, FS_Interval
<1>3. shown \in Injection(1..Cardinality(rows), rows)
  BY DEF Injection, IsInjective
<1>4. shown \in Surjection(1..Cardinality(rows), rows)
  BY <1>2, <1>3, FS_Injection
<1> QED BY <1>4 DEF Surjection

LEMMA NextPageKeeps == TaskInv /\ NextPage => TaskInv'
<1> SUFFICES ASSUME TaskInv, NextPage PROVE TaskInv'
  OBVIOUS
<1>1. /\ pager.pc = "page" /\ tree' = tree /\ version' = version /\ queue' = queue
      /\ clock' = clock /\ request' = request /\ covered' = covered
  BY DEF NextPage
<1>2. clock \in Nat
  BY DEF TaskInv, SourceTypes
<1>3. SourceTypes' /\ QueueInv' /\ ForgottenInv' /\ RequestsInv'
  BY <1>1, <1>2, QuietStep, RequestsStill
<1> DEFINE rows == Behind(pager.after)
           count == IF Cardinality(rows) < PageSize THEN Cardinality(rows) ELSE PageSize
<1>4. PICK shown \in [1..count -> rows] :
        /\ \A i \in 1..count : \A j \in 1..(i - 1) : Ahead(shown[j], shown[i])
        /\ \A i \in 1..count : \A c \in rows : c = shown[i] \/ Ahead(shown[i], c)
                                      \/ \E j \in 1..(i - 1) : c = shown[j]
        /\ pager' = [pager EXCEPT
              !.got = @ \o shown,
              !.after = IF count = 0 THEN @ ELSE {shown[count]},
              !.pc = IF Cardinality(rows) > PageSize THEN "page" ELSE "end"]
  BY DEF NextPage
<1>5. /\ rows \subseteq DOMAIN queue
      /\ \A c \in DOMAIN queue : queue[c].status = "todo" /\ (\A d \in pager.after : Ahead(d, c)) => c \in rows
      /\ \A c \in rows : \A d \in pager.after : Ahead(d, c)
  BY DEF Behind
<1>6. IsFiniteSet(rows)
  <2>1. rows \in SUBSET DOMAIN queue
    BY <1>5
  <2> HIDE DEF rows
  <2> QED BY <2>1, FS_Subset DEF TaskInv, QueueInv
<1>7. PageSize \in Nat \ {0}
  BY SourcesAssumption
<1>8. /\ Cardinality(rows) \in Nat /\ count \in Nat
      /\ Cardinality(rows) <= PageSize => count = Cardinality(rows)
      /\ ~(Cardinality(rows) <= PageSize) => count # 0
  BY <1>6, <1>7, FS_CardinalityType
<1> HIDE DEF rows, count
<1> DEFINE seen == pager.got
           last == Len(seen)
<1>9. /\ pager \in [pc : {"idle", "page", "end"}, after : SUBSET DOMAIN queue,
                    got : Seq(DOMAIN queue), steady : SUBSET DOMAIN queue]
      /\ \A i, j \in DOMAIN seen : i < j => Ahead(seen[i], seen[j])
      /\ pager.after = IF last = 0 THEN {} ELSE {seen[last]}
      /\ \A c \in pager.steady :
           /\ queue[c].status = "todo"
           /\ \/ \E i \in DOMAIN seen : seen[i] = c
              \/ \A d \in pager.after : Ahead(d, c)
  BY DEF TaskInv, PagerInv
<1>10. /\ seen \in Seq(DOMAIN queue) /\ last \in Nat /\ DOMAIN seen = 1..last
       /\ \A i \in 1..last : seen[i] \in DOMAIN queue
  BY <1>9
<1>11. shown \in Seq(DOMAIN queue) /\ Len(shown) = count /\ \A i \in 1..count : shown[i] \in rows
  <2>1. shown \in [1..count -> DOMAIN queue]
    BY <1>4, <1>5
  <2>2. shown \in Seq(DOMAIN queue)
    BY <1>8, <2>1
  <2>3. DOMAIN shown = 1..count
    BY <1>4
  <2> QED BY <1>4, <1>8, <2>2, <2>3
<1> DEFINE all == seen \o shown
<1>12. /\ all \in Seq(DOMAIN queue) /\ Len(all) = last + count
       /\ DOMAIN all = 1..(last + count)
       /\ \A i \in 1..last : all[i] = seen[i]
       /\ \A i \in 1..count : all[last + i] = shown[i]
  BY <1>8, <1>10, <1>11
<1>13. /\ pager'.got = all /\ pager'.steady = pager.steady
       /\ pager'.after = IF count = 0 THEN pager.after ELSE {shown[count]}
       /\ pager'.pc = IF Cardinality(rows) > PageSize THEN "page" ELSE "end"
  BY <1>4, <1>9
<1>14. pager' = [pc |-> pager'.pc, after |-> pager'.after, got |-> pager'.got,
                 steady |-> pager'.steady]
  BY <1>4, <1>9
<1> HIDE DEF all, seen, last
<1>15. \A i, j \in 1..(last + count) : i < j => Ahead(all[i], all[j])
  <2> SUFFICES ASSUME NEW i \in 1..(last + count), NEW j \in 1..(last + count), i < j
               PROVE  Ahead(all[i], all[j])
    OBVIOUS
  <2>1. CASE j <= last
    <3>1. i \in 1..last /\ j \in 1..last
      BY <1>8, <1>10, <2>1
    <3> QED BY <1>9, <1>10, <1>12, <3>1
  <2>2. CASE i > last
    <3>1. PICK k \in 1..count : i = last + k
      <4>1. i - last \in 1..count
        BY <1>8, <1>10, <2>2
      <4> QED BY <1>10, <4>1
    <3>2. PICK l \in 1..count : j = last + l
      <4>1. j - last \in 1..count
        BY <1>8, <1>10, <2>2
      <4> QED BY <1>10, <4>1
    <3>3. k \in 1..(l - 1)
      BY <1>8, <1>10, <3>1, <3>2
    <3>4. Ahead(shown[k], shown[l])
      BY <1>4, <3>3
    <3>5. all[i] = shown[k] /\ all[j] = shown[l]
      BY <1>12, <3>1, <3>2
    <3> QED BY <3>4, <3>5
  <2>3. CASE i <= last /\ j > last
    <3>1. PICK l \in 1..count : j = last + l
      <4>1. j - last \in 1..count
        BY <1>8, <1>10, <2>3
      <4> QED BY <1>10, <4>1
    <3>2. i \in 1..last /\ last \in 1..last /\ last # 0
      BY <1>8, <1>10, <2>3
    <3>3. Ahead(seen[last], shown[l])
      <4>1. seen[last] \in pager.after
        BY <1>9, <3>2
      <4> QED BY <1>5, <1>11, <4>1
    <3>4. i = last \/ Ahead(seen[i], seen[last])
      BY <1>9, <1>10, <3>2
    <3>5. seen[i] \in DOMAIN queue /\ seen[last] \in DOMAIN queue /\ shown[l] \in DOMAIN queue
      BY <1>5, <1>10, <1>11, <3>2
    <3>6. Ahead(seen[i], shown[l])
      BY <3>3, <3>4, <3>5, AheadOrder DEF TaskInv
    <3>7. all[i] = seen[i] /\ all[j] = shown[l]
      BY <1>12, <3>1, <3>2
    <3> QED BY <3>6, <3>7
  <2> QED BY <1>8, <1>10, <2>1, <2>2, <2>3
<1>16. pager'.after = IF Len(all) = 0 THEN {} ELSE {all[Len(all)]}
  <2>1. CASE count = 0
    <3>1. Len(all) = last
      BY <1>10, <1>12, <2>1
    <3>2. last # 0 => all[last] = seen[last]
      BY <1>10, <1>12
    <3> QED BY <1>9, <1>13, <2>1, <3>1, <3>2
  <2>2. CASE count # 0
    <3>1. count \in 1..count /\ last + count # 0
      BY <1>8, <1>10, <2>2
    <3> QED BY <1>12, <1>13, <2>2, <3>1
  <2> QED BY <2>1, <2>2
<1>17. ASSUME NEW c \in pager.steady
       PROVE  \/ \E i \in 1..(last + count) : all[i] = c
              \/ pager'.pc = "page" /\ \A d \in pager'.after : Ahead(d, c)
  <2>1. CASE \E i \in DOMAIN seen : seen[i] = c
    <3>1. PICK i \in 1..last : seen[i] = c
      BY <1>10, <2>1
    <3>2. i \in 1..(last + count) /\ all[i] = c
      BY <1>8, <1>10, <1>12, <3>1
    <3> QED BY <3>2
  <2>2. CASE ~\E i \in DOMAIN seen : seen[i] = c
    <3>1. c \in rows
      BY <1>5, <1>9, <2>2
    <3>2. CASE \E i \in 1..count : shown[i] = c
      <4>1. PICK i \in 1..count : shown[i] = c
        BY <3>2
      <4>2. last + i \in 1..(last + count) /\ all[last + i] = c
        BY <1>8, <1>10, <1>12, <4>1
      <4> QED BY <4>2
    <3>3. CASE ~\E i \in 1..count : shown[i] = c
      <4>1. ~(Cardinality(rows) <= PageSize)
        <5> SUFFICES ASSUME Cardinality(rows) <= PageSize PROVE FALSE
          OBVIOUS
        <5>1. count = Cardinality(rows)
          BY <1>8
        <5>2. \A i, j \in 1..count : shown[i] = shown[j] => i = j
          <6> SUFFICES ASSUME NEW i \in 1..count, NEW j \in 1..count, shown[i] = shown[j], i # j
                       PROVE  FALSE
            OBVIOUS
          <6>1. Ahead(shown[i], shown[j]) \/ Ahead(shown[j], shown[i])
            <7>1. i \in 1..(j - 1) \/ j \in 1..(i - 1)
              BY <1>8
            <7> QED BY <1>4, <7>1
          <6>2. shown[i] \in DOMAIN queue
            BY <1>5, <1>11
          <6> QED BY <6>1, <6>2, AheadOrder DEF TaskInv
        <5>3. shown \in [1..Cardinality(rows) -> rows]
          BY <1>4, <5>1
        <5>4. \A i, j \in 1..Cardinality(rows) : shown[i] = shown[j] => i = j
          BY <5>1, <5>2
        <5>5. \A d \in rows : \E i \in 1..Cardinality(rows) : shown[i] = d
          BY <1>6, <5>3, <5>4, AllShown
        <5> QED BY <3>1, <3>3, <5>1, <5>5
      <4>2. count \in 1..count
        BY <1>8, <4>1
      <4>3. \A j \in 1..(count - 1) : j \in 1..count
        BY <1>8
      <4>4. Ahead(shown[count], c)
        BY <1>4, <3>1, <3>3, <4>2, <4>3
      <4>5. pager'.after = {shown[count]} /\ pager'.pc = "page"
        BY <1>7, <1>8, <1>13, <4>1
      <4> QED BY <4>4, <4>5
    <3> QED BY <3>2, <3>3
  <2> QED BY <2>1, <2>2
<1>18. pager' \in [pc : {"idle", "page", "end"}, after : SUBSET DOMAIN queue,
                   got : Seq(DOMAIN queue), steady : SUBSET DOMAIN queue]
  <2>1. pager'.pc \in {"idle", "page", "end"} /\ pager'.steady \in SUBSET DOMAIN queue
    BY <1>9, <1>13
  <2>2. pager'.after \in SUBSET DOMAIN queue
    <3>1. CASE count = 0
      BY <1>9, <1>13, <3>1
    <3>2. CASE count # 0
      <4>1. count \in 1..count
        BY <1>8, <3>2
      <4> QED BY <1>5, <1>11, <1>13, <3>2, <4>1
    <3> QED BY <3>1, <3>2
  <2> QED BY <1>12, <1>13, <1>14, <2>1, <2>2
<1>19. \A c, d \in DOMAIN queue : Ahead(c, d)' <=> Ahead(c, d)
  BY <1>1 DEF Ahead
<1>20. PagerInv'
  <2>1. \A i, j \in DOMAIN pager'.got : i < j => Ahead(pager.got[i], pager.got[j])'
    <3> SUFFICES ASSUME NEW i \in 1..(last + count), NEW j \in 1..(last + count), i < j
                 PROVE  \A c, d : c = all[i] /\ d = all[j] => Ahead(c, d)'
      BY <1>12, <1>13
    <3>1. Ahead(all[i], all[j]) /\ all[i] \in DOMAIN queue /\ all[j] \in DOMAIN queue
      BY <1>12, <1>15
    <3> QED BY <1>19, <3>1
  <2>2. pager'.after = IF Len(pager'.got) = 0 THEN {} ELSE {pager'.got[Len(pager'.got)]}
    BY <1>13, <1>16
  <2>3. ASSUME NEW c \in pager'.steady
        PROVE  /\ queue'[c].status = "todo"
               /\ \/ \E i \in DOMAIN pager'.got : pager'.got[i] = c
                  \/ pager'.pc = "page" /\ \A d \in pager'.after : Ahead(d, c)'
    <3>1. c \in pager.steady /\ c \in DOMAIN queue /\ queue'[c].status = "todo"
      BY <1>1, <1>9, <1>13, <2>3
    <3>2. \A d \in pager'.after : d \in DOMAIN queue
      BY <1>18
    <3> QED BY <1>12, <1>13, <1>17, <1>19, <3>1, <3>2
  <2> QED BY <1>1, <1>18, <2>1, <2>2, <2>3 DEF PagerInv
<1> QED BY <1>3, <1>20 DEF TaskInv

LEMMA TasksNext == TaskInv /\ SourceNext => TaskInv'
<1> SUFFICES ASSUME TaskInv, SourceNext PROVE TaskInv'
  OBVIOUS
<1>1. ASSUME NEW g \in Requester, ReadSources(g) \/ ReadReviewed(g) \/ InsertTasks(g)
      PROVE  TaskInv'
  BY <1>1, ReadSourcesKeeps, ReadReviewedKeeps, InsertTasksKeeps
<1>2. ASSUME NEW g \in Requester, NEW st \in Settings, RequestTasks(g, st) PROVE TaskInv'
  BY <1>2, RequestTasksKeeps
<1>3. ASSUME NEW c \in DOMAIN queue, MoveTask(c) \/ PatchPriority(c) PROVE TaskInv'
  BY <1>3, MoveTaskKeeps, PatchPriorityKeeps
<1>4. CASE Rescan
  BY <1>4, RescanKeeps
<1>5. CASE CompleteSession
  BY <1>5, CompleteSessionKeeps
<1>6. CASE ListTasks
  BY <1>6, ListTasksKeeps
<1>7. CASE NextPage
  BY <1>7, NextPageKeeps
<1> QED BY <1>1, <1>2, <1>3, <1>4, <1>5, <1>6, <1>7 DEF SourceNext

\* In every state the tasks, the requests that make them and the pages that show them agree
\* (review_candidates.py, review_tasks.py, store.py).
THEOREM TaskInvariance == SourceSpec => []TaskInv
<1>1. TaskInv /\ [SourceNext]_sourceVars => TaskInv'
  BY TasksNext, TasksStutter
<1> QED BY <1>1, TasksInit, PTL DEF SourceSpec

\* Generated tasks and their queue are sound.
THEOREM TaskSafety == SourceSpec => []SourcesSound
<1>1. TaskInv => SourcesSound
  <2> SUFFICES ASSUME TaskInv PROVE SourcesSound
    OBVIOUS
  <2>1. NothingForgotten
    <3> SUFFICES ASSUME covered = version, \A c \in DOMAIN queue : queue[c].status \notin OpenTask,
                        NEW f \in Scoped(version)
                 PROVE  f \in Reviewed
      BY DEF NothingForgotten
    <3>1. PICK c \in DOMAIN queue : CoversFrame(c, f)
      BY DEF TaskInv, ForgottenInv, Covered
    <3>2. f \in DOMAIN Scans[version]
      BY DEF Scoped
    <3> QED BY <3>1, <3>2 DEF Reviewed
  <2>2. ASSUME NEW g \in Requester, request[g].pc = "insert"
        PROVE  MadeInv(request[g])
    BY <2>2 DEF TaskInv, RequestsInv, Stage
  <2>3. SpansExact
    BY <2>2 DEF SpansExact, MadeInv, SpansOf, SpanOf
  <2>4. NothingSlips
    <3> SUFFICES ASSUME NEW g \in Requester, request[g].pc = "insert",
                        ~request[g].truncated, ~request[g].twice,
                        NEW n \in DOMAIN tree.files,
                        tree.runs[tree.files[n].run].status = "completed",
                        tree.files[n].model \in DOMAIN tree.runs[tree.files[n].run].models,
                        tree.runs[tree.files[n].run].models[tree.files[n].model].status = "completed",
                        Readable(tree.files[n]), ~tree.files[n].damaged,
                        tree.files[n].frame \in Scoped(request[g].v),
                        NEW i \in DOMAIN tree.files[n].found, InClasses(tree.files[n].found[i]),
                        NEW r \in Reasons(tree.files[n].found[i], request[g].st)
                 PROVE  [type |-> r, of |-> Artifact(<<n, i>>), frame |-> tree.files[n].frame,
                         span |-> {}] \in request[g].made
      BY Zenon DEF NothingSlips
    <3>1. Artifact(<<n, i>>) = [from |-> tree.files[n].from, frame |-> tree.files[n].frame,
                               found |-> tree.files[n].found[i]]
      BY DEF Artifact
    <3>2. AllDue(request[g].made, request[g].v, request[g].st)
      BY <2>2 DEF MadeInv
    <3> QED BY <3>1, <3>2, Zenon DEF AllDue, DueIn
  <2>5. GapsAreRare
    BY <2>2 DEF GapsAreRare, MadeInv, RareIn, ReportedOn
  <2>6. PagesComplete
    <3> SUFFICES ASSUME pager.pc = "end" PROVE PagesComplete
      BY DEF PagesComplete
    <3>1. ASSUME NEW i \in DOMAIN pager.got, NEW j \in DOMAIN pager.got, pager.got[i] = pager.got[j]
          PROVE  i = j
      <4>1. pager.got \in Seq(DOMAIN queue)
        BY DEF TaskInv, PagerInv
      <4>2. i \in Nat /\ j \in Nat /\ pager.got[i] \in DOMAIN queue
        BY <4>1
      <4>3. ~Ahead(pager.got[i], pager.got[j]) /\ ~Ahead(pager.got[j], pager.got[i])
        BY <3>1, <4>2, AheadOrder DEF TaskInv
      <4>4. ~(i < j) /\ ~(j < i)
        BY <4>3 DEF TaskInv, PagerInv
      <4> QED BY <4>2, <4>4
    <3>2. \A c \in pager.steady : \E i \in DOMAIN pager.got : pager.got[i] = c
      BY DEF TaskInv, PagerInv
    <3> QED BY <3>1, <3>2 DEF PagesComplete
  <2> QED BY <2>1, <2>3, <2>4, <2>5, <2>6 DEF SourcesSound
<1> QED BY <1>1, TaskInvariance, PTL
===============================================================================
