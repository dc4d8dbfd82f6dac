------------------------------ MODULE LayerProofs ------------------------------
(* Theorems about the layers of features.  The gate of a review session is sound, for
   every set of layers, features, tasks and QA requests and every look of the rows; and an
   identifier leads to the right features, for every set of layers, features, identifiers
   and edits. *)
EXTENDS ReviewGate, ReferenceIndex, FiniteSetTheorems, TLAPS

USE RevisionsAreNumbers

-------------------------------------------------------------------------------
(* The inductive invariant. *)

\* What is remembered of a layer, by QA requests, by completion and in the registry.
Recollections(l) ==
    {check[c].seen[l] : c \in {d \in Checker : check[d].pc # "idle" /\ l \in DOMAIN check[d].seen}}
    \cup (IF closing.pc = "read" /\ l \in DOMAIN closing.seen THEN {closing.seen[l]} ELSE {})
    \cup (IF l \in DOMAIN examined THEN {examined[l]} ELSE {})

Statuses == {"draft", "active", "paused", "completed", "archived"}

RegistryOK ==
    /\ DOMAIN layer = Layer
    /\ layer \in [Layer -> [rev : Nat, rows : [Feature -> RowLooks \cup {NoRow}], gone : BOOLEAN]]
    /\ review = [status |-> review.status, scope |-> review.scope,
                 classes |-> review.classes, snapshot |-> review.snapshot]
    /\ review.status \in Statuses /\ review.scope \subseteq Layer /\ review.classes \in Filters
    /\ ticket \in [Ticket -> {NoTicket} \cup [status : {"todo", "in_progress", "done"},
                                             target : Layer \cup {NoTarget}]]
    /\ creating \subseteq Ticket \X (Layer \cup {NoTarget})
    /\ loaded \in BOOLEAN /\ stamp \in Nat
    /\ filtered \in Nat /\ filtered <= stamp

\* A memory of a layer is of a revision it had; of one revision there is one memory.
MemoryInv ==
    \A l \in Layer : \A m \in Recollections(l) :
        /\ m.rev \in Nat /\ m.rev <= layer[l].rev
        /\ m.rev = layer[l].rev => m.fit = Suits(layer[l].rows)
        /\ \A n \in Recollections(l) : m.rev = n.rev => m.fit = n.fit

\* A QA request reads the rows of a layer after its revision; without an error every
\* row it has read is usable, of the classes that the session had when it began.
QaOK(q) ==
    /\ q = [pc |-> q.pc, todo |-> q.todo, at |-> q.at, revs |-> q.revs, found |-> q.found,
            loaded |-> q.loaded, seen |-> q.seen, classes |-> q.classes, since |-> q.since]
    /\ q.pc \in {"scope", "revision", "rows"} /\ q.loaded \in BOOLEAN
    /\ q.classes \in Filters /\ q.since \in Nat /\ q.since <= stamp
    /\ q.since >= filtered => q.classes = review.classes
    /\ q.todo \subseteq Layer /\ DOMAIN q.revs \subseteq Layer
    /\ q.todo \cap DOMAIN q.revs = {}
    /\ q.pc = "scope" => DOMAIN q.revs = {}
    /\ q.pc \in {"scope", "revision"} => DOMAIN q.seen = DOMAIN q.revs
    /\ q.pc = "rows" => /\ q.at \in DOMAIN q.revs /\ DOMAIN q.seen = DOMAIN q.revs \ {q.at}
                        /\ q.revs[q.at] <= layer[q.at].rev
    /\ \A l \in DOMAIN q.revs : q.revs[l] \in Nat
    /\ \A l \in DOMAIN q.seen : q.revs[l] <= q.seen[l].rev
    /\ (\A n \in q.found : ~n.error) => \A l \in DOMAIN q.seen : q.classes \in q.seen[l].fit

QaInv ==
    /\ DOMAIN check = Checker
    /\ \A c \in Checker : check[c] = Idle \/ QaOK(check[c])

\* Errors of the stored QA run stay open; its snapshot is not younger than its rows.
StoredInv ==
    /\ \A i \in issues :
        /\ i = [id |-> i.id, error |-> i.error, status |-> i.status]
        /\ i.error => i.status = "open"
    /\ (\A i \in issues : ~i.error) =>
            \A l \in DOMAIN examined : judged.classes \in examined[l].fit
    /\ DOMAIN examined \subseteq Layer
    /\ review.snapshot # NoSnapshot =>
        /\ DOMAIN review.snapshot = DOMAIN examined
        /\ \A l \in DOMAIN examined :
            review.snapshot[l] \in Nat /\ review.snapshot[l] <= examined[l].rev

\* The stored QA run began at a stamp of the session, with the classes it had then.
JudgedInv == judged.since \in Nat /\ judged.since <= stamp /\ JudgedAsFiltered

\* Completion remembers the rows at the revision it has read.
ClosingInv ==
    \/ closing = Idle
    \/ /\ closing = [pc |-> "read", todo |-> closing.todo, revs |-> closing.revs,
                     seen |-> closing.seen, status |-> closing.status]
       /\ closing.todo \subseteq Layer /\ closing.status \in {"active", "paused"}
       /\ DOMAIN closing.revs = DOMAIN closing.seen /\ DOMAIN closing.seen \subseteq Layer
       /\ \A l \in DOMAIN closing.seen :
            closing.revs[l] # NoRevision => closing.seen[l].rev = closing.revs[l]

\* The registry, or a layer, is as the export has found it.
Steady == export.stamp = stamp
Still(l) == ~layer[l].gone /\ layer[l].rev = export.revs[l]
Eligible == ~Blocked([l \in Effective |-> Revision(l)])

\* While nothing has moved, what the export has read is what was to be had at once.
ExportRead ==
    /\ export.stamp \in Nat /\ export.stamp <= stamp /\ export.all \subseteq Layer
    /\ DOMAIN export.revs \subseteq export.all
    /\ \A l \in DOMAIN export.revs : export.revs[l] \in Nat /\ export.revs[l] <= layer[l].rev

ExportLayers ==
    /\ export = [pc |-> "layers", todo |-> export.todo, stamp |-> export.stamp,
                 revs |-> export.revs, all |-> export.all]
    /\ export.todo \subseteq export.all /\ DOMAIN export.revs = export.all \ export.todo
    /\ Steady => export.all = Effective

Truth ==
    /\ DOMAIN export.revs = export.all
    /\ export.counts = export.truth.counts
    /\ export.truth.rows = [l \in export.all |-> export.truth.rows[l]]
    /\ export.truth.eligible \in BOOLEAN

TruthClean ==
    export.truth.eligible =>
        \A l \in export.all : AllUsable(export.truth.rows[l], export.truth.classes)

ExportGated ==
    /\ export = [pc |-> "gate", stamp |-> export.stamp, revs |-> export.revs,
                 all |-> export.all, counts |-> export.counts, truth |-> export.truth]
    /\ Truth
    /\ Steady => export.all = Effective /\ TruthClean
    /\ \A l \in export.all : Still(l) => export.truth.rows[l] = layer[l].rows
    /\ Steady /\ (\A l \in export.all : Still(l)) => export.truth.eligible = Eligible

ExportShape ==
    /\ export = [pc |-> export.pc, stamp |-> export.stamp, revs |-> export.revs,
                 all |-> export.all, counts |-> export.counts, truth |-> export.truth,
                 eligible |-> export.eligible, todo |-> export.todo, rows |-> export.rows,
                 evidence |-> export.evidence]
    /\ export.todo \subseteq export.all
    /\ export.rows = [l \in DOMAIN export.rows |-> export.rows[l]]
    /\ export.evidence = [l \in DOMAIN export.evidence |-> export.evidence[l]]

ExportBundled ==
    /\ ExportShape /\ Truth
    /\ DOMAIN export.rows = export.all \ export.todo
    /\ export.pc = "bundle" => DOMAIN export.evidence = DOMAIN export.rows
    /\ export.pc = "evidence" =>
        \E l \in DOMAIN export.rows : DOMAIN export.evidence = DOMAIN export.rows \ {l}
    /\ Steady => TruthClean
    /\ \A l \in export.all : Still(l) =>
        /\ export.truth.rows[l] = layer[l].rows
        /\ l \in DOMAIN export.rows => export.rows[l] = export.truth.rows[l]
        /\ l \in DOMAIN export.evidence => export.evidence[l] = export.truth.rows[l]
    /\ Steady /\ (\A l \in export.all : Still(l)) => export.eligible = export.truth.eligible

ExportFenced ==
    /\ ExportShape /\ Truth /\ TruthClean
    /\ DOMAIN export.rows = export.all /\ DOMAIN export.evidence = export.all
    /\ export.pc = "served" => export.todo = {}
    /\ \A l \in export.all : (l \in export.todo => Still(l)) =>
        export.rows[l] = export.truth.rows[l] /\ export.evidence[l] = export.truth.rows[l]
    /\ (\A l \in export.todo : Still(l)) => export.eligible = export.truth.eligible

ExportInv ==
    \/ export = Idle
    \/ export.pc = "layers" /\ ExportRead /\ ExportLayers
    \/ export.pc = "gate" /\ ExportRead /\ ExportGated
    \/ export.pc \in {"bundle", "evidence"} /\ ExportRead /\ ExportBundled
    \/ export.pc \in {"fence", "served"} /\ ExportRead /\ ExportFenced

IndInv ==
    /\ RegistryOK /\ MemoryInv /\ QaInv /\ StoredInv /\ JudgedInv /\ ClosingInv
    /\ CompletedIsClean /\ ExportInv

-------------------------------------------------------------------------------
(* The registry and the layers. *)

LEMMA SeenIs ==
    ASSUME NEW l
    PROVE  Seen(l).rev = layer[l].rev /\ Seen(l).fit = Suits(layer[l].rows)
BY DEF Seen

LEMMA EffectiveLayers == ASSUME RegistryOK PROVE Effective \subseteq Layer
BY DEF RegistryOK, Effective, EffectiveOf

\* Steps that leave layers and registry alone.
Reads ==
    \/ LoadCatalog
    \/ \E t \in Ticket, l \in Layer \cup {NoTarget} : CheckTicket(t, l)
    \/ \E c \in Checker : QaBegin(c) \/ QaScope(c) \/ QaRows(c)
    \/ \E c \in Checker, l \in Layer : QaRevision(c, l)
    \/ CloseBegin \/ CloseRefused \/ \E l \in Layer : CloseRead(l)

Exports ==
    \/ \E l \in Layer : ExportLayer(l) \/ ExportBundle(l) \/ ExportEvidence(l) \/ FenceLayer(l)
    \/ ExportBegin \/ ExportCounts \/ ExportGate \/ FenceRegistry \/ Serve

LayerMoves ==
    \/ \E l \in Layer : Unregister(l)
    \/ \E l \in Layer, f \in Feature, look \in RowLooks \cup {NoRow} : Edit(l, f, look)

\* Steps of a request on the session, its tasks or its issues.
Patches ==
    \/ PatchSession
    \/ \E t \in Ticket, l \in Layer \cup {NoTarget} : InsertTicket(t, l)
    \/ \E t \in Ticket : MoveTicket(t)
    \/ \E i \in issues : PatchIssue(i)

LEMMA Kinds ==
    ASSUME GateNext
    PROVE  \/ Reads \/ Exports \/ LayerMoves \/ Patches \/ CloseCommit
           \/ \E c \in Checker : QaStore(c)
BY DEF GateNext, Reads, Exports, LayerMoves, Patches

LEMMA ReadsLeave ==
    ASSUME Reads
    PROVE  UNCHANGED <<layer, review, ticket, issues, export, examined, judged, approved,
                       filtered, stamp>>
BY DEF Reads, LoadCatalog, CheckTicket, QaBegin, QaScope, QaRows, QaRevision, CloseBegin,
       CloseRefused, CloseRead

LEMMA ExportsLeave ==
    ASSUME Exports
    PROVE  UNCHANGED <<layer, review, ticket, creating, issues, loaded, check, closing,
                       examined, judged, approved, filtered, stamp>>
BY DEF Exports, ExportLayer, ExportBundle, ExportEvidence, FenceLayer, ExportBegin, ExportCounts,
       ExportGate, FenceRegistry, Serve

LEMMA LayerMovesLeave ==
    ASSUME LayerMoves
    PROVE  UNCHANGED <<review, ticket, creating, issues, loaded, check, closing, export,
                       examined, judged, approved, filtered, stamp>>
BY DEF LayerMoves, Unregister, Edit

LEMMA PatchesLeave ==
    ASSUME Patches, RegistryOK
    PROVE  /\ UNCHANGED <<layer, loaded, check, closing, export, examined, judged, approved>>
           /\ stamp' = stamp + 1
           /\ review'.snapshot = review.snapshot
<1>1. /\ UNCHANGED <<layer, loaded, check, closing, export, examined, judged, approved>>
      /\ stamp' = stamp + 1
  BY DEF Patches, PatchSession, InsertTicket, MoveTicket, PatchIssue
<1>2. CASE PatchSession
  BY <1>2 DEF PatchSession, RegistryOK
<1>3. CASE ~PatchSession
  BY <1>3 DEF Patches, InsertTicket, MoveTicket, PatchIssue
<1> QED BY <1>1, <1>2, <1>3

\* A layer comes to a later revision whenever its rows change, and stays unregistered.
LEMMA LayersGrow ==
    ASSUME RegistryOK, GateNext, NEW l \in Layer
    PROVE  /\ layer[l].rev \in Nat /\ layer'[l].rev \in Nat /\ layer'[l].rev >= layer[l].rev
           /\ layer'[l].rev = layer[l].rev => layer'[l].rows = layer[l].rows
           /\ layer[l].gone => layer'[l].gone
           /\ layer'[l] \in [rev : Nat, rows : [Feature -> RowLooks \cup {NoRow}], gone : BOOLEAN]
           /\ DOMAIN layer' = Layer
           /\ layer' = [k \in Layer |-> layer'[k]]
<1>1. layer[l] \in [rev : Nat, rows : [Feature -> RowLooks \cup {NoRow}], gone : BOOLEAN]
  BY DEF RegistryOK
<1>2. CASE layer' = layer
  BY <1>1, <1>2 DEF RegistryOK
<1>3. ASSUME NEW k \in Layer, Unregister(k) PROVE layer' = [layer EXCEPT ![k].gone = TRUE]
  BY <1>3 DEF Unregister
<1>4. ASSUME NEW k \in Layer, layer' = [layer EXCEPT ![k].gone = TRUE]
      PROVE  /\ layer'[l].rev = layer[l].rev /\ layer'[l].rows = layer[l].rows
             /\ layer[l].gone => layer'[l].gone
             /\ layer'[l] \in [rev : Nat, rows : [Feature -> RowLooks \cup {NoRow}], gone : BOOLEAN]
             /\ DOMAIN layer' = Layer
             /\ layer' = [x \in Layer |-> layer'[x]]
  BY <1>1, <1>4 DEF RegistryOK
<1>5. ASSUME NEW k \in Layer, NEW f \in Feature, NEW look \in RowLooks \cup {NoRow}, Edit(k, f, look)
      PROVE  /\ layer'[l].rev = IF l = k THEN layer[l].rev + 1 ELSE layer[l].rev
             /\ l # k => layer'[l] = layer[l]
             /\ layer'[l].gone = layer[l].gone
             /\ layer'[l] \in [rev : Nat, rows : [Feature -> RowLooks \cup {NoRow}], gone : BOOLEAN]
             /\ DOMAIN layer' = Layer
             /\ layer' = [x \in Layer |-> layer'[x]]
  <2>1. layer' = [layer EXCEPT ![k].rev = @ + 1, ![k].rows[f] = look]
    BY <1>5 DEF Edit
  <2>2. DOMAIN layer' = Layer /\ layer' = [x \in Layer |-> layer'[x]]
    BY <2>1 DEF RegistryOK
  <2>3. CASE l = k
    <3>1. /\ layer'[l].rev = layer[l].rev + 1 /\ layer'[l].gone = layer[l].gone
          /\ layer'[l].rows = [layer[l].rows EXCEPT ![f] = look]
          /\ layer'[l] = [rev |-> layer'[l].rev, rows |-> layer'[l].rows, gone |-> layer'[l].gone]
      BY <1>1, <2>1, <2>3 DEF RegistryOK
    <3>2. layer'[l].rows \in [Feature -> RowLooks \cup {NoRow}]
      BY <1>1, <3>1
    <3> QED BY <1>1, <2>2, <2>3, <3>1, <3>2
  <2>4. CASE l # k
    BY <1>1, <2>1, <2>2, <2>4 DEF RegistryOK
  <2> QED BY <2>3, <2>4
<1>6. CASE LayerMoves
  <2>1. CASE \E k \in Layer : Unregister(k)
    BY <1>1, <1>3, <1>4, <2>1
  <2>2. CASE \E k \in Layer, f \in Feature, look \in RowLooks \cup {NoRow} : Edit(k, f, look)
    <3>1. PICK k \in Layer : \E f \in Feature, look \in RowLooks \cup {NoRow} : Edit(k, f, look)
      BY <2>2
    <3>2. CASE l = k
      BY <1>1, <1>5, <3>1, <3>2
    <3>3. CASE l # k
      BY <1>1, <1>5, <3>1, <3>3
    <3> QED BY <3>2, <3>3
  <2> QED BY <1>6, <2>1, <2>2 DEF LayerMoves
<1>7. CASE ~LayerMoves
  <2>1. layer' = layer
    BY <1>7, Kinds, ReadsLeave, ExportsLeave, PatchesLeave DEF CloseCommit, QaStore
  <2> QED BY <1>2, <2>1
<1> QED BY <1>6, <1>7

\* What PATCH may make of a session.
LEMMA Patched ==
    ASSUME RegistryOK, PatchSession
    PROVE  /\ review' = [status |-> review'.status, scope |-> review'.scope,
                         classes |-> review'.classes, snapshot |-> review'.snapshot]
           /\ review'.status \in Statuses /\ review'.scope \subseteq Layer
           /\ review'.classes \in Filters
           /\ review'.status \in Closed => review.status \in Closed
<1> DEFINE Good == /\ review' = [status |-> review'.status, scope |-> review'.scope,
                                classes |-> review'.classes, snapshot |-> review'.snapshot]
                   /\ review'.status \in Statuses /\ review'.scope \subseteq Layer
                   /\ review'.classes \in Filters
                   /\ review'.status \in Closed => review.status \in Closed
<1>1. /\ review = [status |-> review.status, scope |-> review.scope,
                   classes |-> review.classes, snapshot |-> review.snapshot]
      /\ review.status \in Statuses /\ review.scope \subseteq Layer /\ review.classes \in Filters
  BY DEF RegistryOK
<1>2. ASSUME NEW s \in SUBSET Layer, NEW c \in Filters, NEW to \in {"draft", "active"},
             review' = [review EXCEPT !.scope = s, !.classes = c, !.status = to]
      PROVE  Good
  <2>1. review' = [status |-> to, scope |-> s, classes |-> c, snapshot |-> review.snapshot]
    BY <1>1, <1>2
  <2> QED BY <2>1 DEF Statuses, Closed
<1>3. ASSUME NEW to \in {<<"draft", "active">>, <<"active", "paused">>, <<"paused", "active">>,
                         <<"completed", "archived">>},
             review.status = to[1], review' = [review EXCEPT !.status = to[2]]
      PROVE  Good
  <2>1. review' = [status |-> to[2], scope |-> review.scope,
                   classes |-> review.classes, snapshot |-> review.snapshot]
    BY <1>1, <1>3
  <2>2. to[2] \in Statuses /\ (to[2] \in Closed => review.status \in Closed)
    BY <1>3 DEF Statuses, Closed
  <2> QED BY <1>1, <2>1, <2>2
<1>4. ASSUME review' = review PROVE Good
  BY <1>1, <1>4
<1> HIDE DEF Good
<1>5. Good
  BY <1>2, <1>3, <1>4, Zenon DEF PatchSession
<1> QED BY <1>5 DEF Good

\* The classes of a session are the same as long as no filter was changed since.
LEMMA FilterMoves ==
    ASSUME RegistryOK, GateNext
    PROVE  /\ stamp \in Nat /\ stamp' \in Nat /\ stamp <= stamp' /\ filtered \in Nat
           /\ \/ filtered' = filtered /\ review'.classes = review.classes
              \/ filtered' = stamp + 1 /\ stamp' = stamp + 1
<1>1. stamp \in Nat /\ filtered \in Nat
  BY DEF RegistryOK
<1>2. CASE Reads \/ Exports \/ LayerMoves
  BY <1>1, <1>2, ReadsLeave, ExportsLeave, LayerMovesLeave
<1>3. CASE PatchSession
  <2>1. /\ stamp' = stamp + 1
        /\ filtered' = IF review'.classes = review.classes THEN filtered ELSE stamp'
    BY <1>3, Zenon DEF PatchSession
  <2> QED BY <1>1, <2>1
<1>4. CASE Patches /\ ~PatchSession
  <2>1. stamp' = stamp + 1 /\ UNCHANGED <<review, filtered>>
    BY <1>4, Zenon DEF Patches, InsertTicket, MoveTicket, PatchIssue
  <2> QED BY <1>1, <2>1
<1>5. CASE CloseCommit
  BY <1>1, <1>5 DEF CloseCommit, RegistryOK
<1>6. ASSUME NEW c \in Checker, QaStore(c)
      PROVE  /\ filtered' = filtered /\ review'.classes = review.classes
             /\ stamp' \in Nat /\ stamp <= stamp'
  BY <1>1, <1>6 DEF QaStore, RegistryOK
<1> QED BY <1>1, <1>2, <1>3, <1>4, <1>5, <1>6, Kinds

LEMMA RegistryStep == ASSUME RegistryOK, GateNext PROVE RegistryOK'
<1>1. /\ DOMAIN layer' = Layer
      /\ layer' \in [Layer -> [rev : Nat, rows : [Feature -> RowLooks \cup {NoRow}], gone : BOOLEAN]]
  <2>1. CASE Layer = {}
    <3>1. layer' = layer
      BY <2>1, Kinds, ReadsLeave, ExportsLeave, PatchesLeave DEF CloseCommit, QaStore, LayerMoves
    <3> QED BY <3>1 DEF RegistryOK
  <2>2. CASE Layer # {}
    BY <2>2, LayersGrow
  <2> QED BY <2>1, <2>2
<1>7. filtered' \in Nat /\ filtered' <= stamp'
  BY FilterMoves DEF RegistryOK
<1>2. CASE UNCHANGED <<review, ticket, creating, loaded, stamp>>
  BY <1>1, <1>2, <1>7 DEF RegistryOK
<1>3. CASE Reads
  <2>1. UNCHANGED <<review, ticket, stamp>>
    BY <1>3, ReadsLeave
  <2>2. creating' \subseteq Ticket \X (Layer \cup {NoTarget}) /\ loaded' \in BOOLEAN
    <3>1. CASE LoadCatalog
      BY <3>1 DEF RegistryOK, LoadCatalog
    <3>2. ASSUME NEW t \in Ticket, NEW l \in Layer \cup {NoTarget}, CheckTicket(t, l)
          PROVE  creating' \subseteq Ticket \X (Layer \cup {NoTarget}) /\ loaded' \in BOOLEAN
      BY <3>2 DEF RegistryOK, CheckTicket
    <3>3. CASE ~LoadCatalog /\ ~\E t \in Ticket, l \in Layer \cup {NoTarget} : CheckTicket(t, l)
      <4>1. UNCHANGED <<creating, loaded>>
        BY <1>3, <3>3 DEF Reads, QaBegin, QaScope, QaRows, QaRevision, CloseBegin, CloseRefused, CloseRead
      <4> QED BY <4>1 DEF RegistryOK
    <3> QED BY <3>1, <3>2, <3>3
  <2> QED BY <1>1, <1>7, <2>1, <2>2 DEF RegistryOK
<1>4. CASE Patches
  <2>1. loaded' = loaded /\ stamp' \in Nat
    BY <1>4, PatchesLeave DEF RegistryOK
  <2>2. CASE PatchSession
    BY <1>1, <1>7, <2>1, <2>2, Patched DEF PatchSession, RegistryOK
  <2>3. ASSUME NEW t \in Ticket, NEW l \in Layer \cup {NoTarget}, InsertTicket(t, l)
        PROVE  RegistryOK'
    BY <1>1, <1>7, <2>1, <2>3 DEF InsertTicket, RegistryOK
  <2>4. ASSUME NEW t \in Ticket, MoveTicket(t) PROVE RegistryOK'
    <3>4. PICK to \in {<<"todo", "in_progress">>, <<"in_progress", "done">>, <<"done", "todo">>} :
            ticket' = [ticket EXCEPT ![t].status = to[2]]
      BY <2>4 DEF MoveTicket
    <3>5. to[2] \in {"todo", "in_progress", "done"}
      OBVIOUS
    <3>1. PICK s \in {"todo", "in_progress", "done"} : ticket' = [ticket EXCEPT ![t].status = s]
      BY <3>4, <3>5
    <3>2. ticket[t] \in [status : {"todo", "in_progress", "done"}, target : Layer \cup {NoTarget}]
      BY <2>4 DEF MoveTicket, RegistryOK
    <3>3. ticket' \in [Ticket -> {NoTicket} \cup [status : {"todo", "in_progress", "done"},
                                                 target : Layer \cup {NoTarget}]]
      BY <3>1, <3>2 DEF RegistryOK
    <3> QED BY <1>1, <1>7, <2>1, <2>4, <3>3 DEF MoveTicket, RegistryOK
  <2>5. ASSUME NEW i \in issues, PatchIssue(i) PROVE RegistryOK'
    BY <1>1, <1>7, <2>1, <2>5 DEF PatchIssue, RegistryOK
  <2> QED BY <1>4, <2>2, <2>3, <2>4, <2>5 DEF Patches
<1>5. CASE CloseCommit
  BY <1>1, <1>5, <1>7 DEF CloseCommit, RegistryOK, Statuses
<1>6. ASSUME NEW c \in Checker, QaStore(c) PROVE RegistryOK'
  <2>1. /\ review' = review \/ review' = [review EXCEPT !.snapshot = check[c].revs]
        /\ stamp' = stamp \/ stamp' = stamp + 1
        /\ UNCHANGED <<ticket, creating, loaded>>
    BY <1>6 DEF QaStore
  <2>2. /\ review' = [status |-> review'.status, scope |-> review'.scope,
                      classes |-> review'.classes, snapshot |-> review'.snapshot]
        /\ review'.status = review.status /\ review'.scope = review.scope
        /\ review'.classes = review.classes
    <3>1. review = [status |-> review.status, scope |-> review.scope,
                    classes |-> review.classes, snapshot |-> review.snapshot]
      BY DEF RegistryOK
    <3>2. CASE review' = review
      BY <3>1, <3>2
    <3>3. CASE review' = [review EXCEPT !.snapshot = check[c].revs]
      BY <3>1, <3>3
    <3> QED BY <2>1, <3>2, <3>3
  <2>3. stamp' \in Nat
    BY <2>1 DEF RegistryOK
  <2> QED BY <1>1, <1>7, <2>1, <2>2, <2>3 DEF RegistryOK
<1> QED
  BY <1>2, <1>3, <1>4, <1>5, <1>6, Kinds, ExportsLeave, LayerMovesLeave

-------------------------------------------------------------------------------
(* What is remembered. *)

\* What a QA request holds when it has read the rows of a layer.
LEMMA RowsRead ==
    ASSUME QaInv, NEW c \in Checker, QaRows(c)
    PROVE  /\ QaOK(check[c])
           /\ \A d \in Checker : d # c => check'[d] = check[d]
           /\ DOMAIN check' = Checker
           /\ check'[c] =
                [pc |-> "revision", todo |-> check[c].todo, at |-> NoTarget, revs |-> check[c].revs,
                 found |-> check'[c].found, loaded |-> check[c].loaded, seen |-> check'[c].seen,
                 classes |-> check[c].classes, since |-> check[c].since]
           /\ check'[c].found = check[c].found \cup
                Found(check[c].at, layer[check[c].at].rows, check[c].classes,
                      Bounds[check[c].loaded])
           /\ check'[c].seen = [k \in DOMAIN check[c].seen \cup {check[c].at} |->
                                   IF k = check[c].at THEN Seen(k) ELSE check[c].seen[k]]
<1> DEFINE more == Found(check[c].at, layer[check[c].at].rows, check[c].classes,
                      Bounds[check[c].loaded])
           marks == [k \in DOMAIN check[c].seen \cup {check[c].at} |->
                        IF k = check[c].at THEN Seen(k) ELSE check[c].seen[k]]
<1>1. QaOK(check[c])
  BY DEF QaRows, QaInv, Idle
<1>2. check' = [check EXCEPT ![c] =
           [@ EXCEPT !.pc = "revision", !.at = NoTarget, !.found = check[c].found \cup more,
                     !.seen = marks]]
  BY DEF QaRows
<1> HIDE DEF more, marks
<1>3. check'[c] = [check[c] EXCEPT !.pc = "revision", !.at = NoTarget,
                                   !.found = check[c].found \cup more, !.seen = marks]
  BY <1>2 DEF QaInv
<1>4. check[c] = [pc |-> check[c].pc, todo |-> check[c].todo, at |-> check[c].at,
                  revs |-> check[c].revs, found |-> check[c].found, loaded |-> check[c].loaded,
                  seen |-> check[c].seen, classes |-> check[c].classes, since |-> check[c].since]
  BY <1>1 DEF QaOK
<1>5. check'[c] = [pc |-> "revision", todo |-> check[c].todo, at |-> NoTarget, revs |-> check[c].revs,
                   found |-> check[c].found \cup more, loaded |-> check[c].loaded, seen |-> marks,
                   classes |-> check[c].classes, since |-> check[c].since]
  BY <1>3, <1>4
<1>6. DOMAIN check' = Checker /\ \A d \in Checker : d # c => check'[d] = check[d]
  BY <1>2 DEF QaInv
<1>7. check'[c].found = check[c].found \cup more /\ check'[c].seen = marks
  BY <1>5
<1> QED BY <1>1, <1>5, <1>6, <1>7 DEF more, marks

\* Nothing is remembered but what was, and what is now.
LEMMA Recalled ==
    ASSUME RegistryOK, QaInv, ClosingInv, GateNext, NEW l \in Layer, NEW m \in Recollections(l)'
    PROVE  /\ m \in Recollections(l) \/ m = Seen(l)
           /\ layer' # layer => m \in Recollections(l)
<1>1. CASE UNCHANGED <<check, closing, examined>>
  BY <1>1 DEF Recollections
<1>2. CASE Exports \/ LayerMoves \/ Patches
  BY <1>1, <1>2, ExportsLeave, LayerMovesLeave, PatchesLeave
<1>3. CASE Reads
  <2>1. layer' = layer /\ examined' = examined
    BY <1>3, ReadsLeave
  <2>2. CASE \E c \in Checker : QaBegin(c)
    <3>1. PICK c \in Checker : QaBegin(c)
      BY <2>2
    <3>2. closing' = closing
      BY <3>1 DEF QaBegin
    <3>3. \A d \in Checker : d # c => check'[d] = check[d]
      BY <3>1 DEF QaBegin, QaInv
    <3>4. DOMAIN check'[c].seen = {}
      BY <3>1 DEF QaBegin, QaInv
    <3> QED BY <2>1, <3>2, <3>3, <3>4 DEF Recollections
  <2>8. ASSUME NEW c \in Checker, QaScope(c)
        PROVE  m \in Recollections(l)
    <3>1. closing' = closing /\ \A d \in Checker : d # c => check'[d] = check[d]
      BY <2>8 DEF QaScope, QaInv
    <3>2. QaOK(check[c])
      BY <2>8 DEF QaScope, QaInv, Idle
    <3>3. check'[c].seen = check[c].seen
      BY <2>8, <3>2 DEF QaScope, QaInv, QaOK
    <3>4. check[c].pc # "idle"
      BY <3>2 DEF QaOK
    <3> QED BY <2>1, <3>1, <3>3, <3>4 DEF Recollections
  <2>3. ASSUME NEW c \in Checker, NEW k \in Layer, QaRevision(c, k)
        PROVE  m \in Recollections(l)
    <3>1. closing' = closing /\ \A d \in Checker : d # c => check'[d] = check[d]
      BY <2>3 DEF QaRevision, QaInv
    <3>2. QaOK(check[c])
      BY <2>3 DEF QaRevision, QaInv, Idle
    <3>3. check'[c].pc = "idle" \/ check'[c].seen = check[c].seen
      BY <2>3, <3>2 DEF QaRevision, QaInv, QaOK, Idle
    <3>4. check[c].pc # "idle"
      BY <3>2 DEF QaOK
    <3> QED BY <2>1, <3>1, <3>3, <3>4 DEF Recollections
  <2>4. ASSUME NEW c \in Checker, QaRows(c)
        PROVE  m \in Recollections(l) \/ m = Seen(l)
    <3>1. closing' = closing /\ \A d \in Checker : d # c => check'[d] = check[d]
      BY <2>4, RowsRead DEF QaRows
    <3>2. QaOK(check[c])
      BY <2>4, RowsRead
    <3>3. check'[c].seen = [k \in DOMAIN check[c].seen \cup {check[c].at} |->
                               IF k = check[c].at THEN Seen(k) ELSE check[c].seen[k]]
      BY <2>4, RowsRead
    <3>4. check[c].pc # "idle"
      BY <3>2 DEF QaOK
    <3>5. l \in DOMAIN check'[c].seen =>
              \/ check'[c].seen[l] = Seen(l)
              \/ l \in DOMAIN check[c].seen /\ check'[c].seen[l] = check[c].seen[l]
      BY <3>3
    <3> QED BY <2>1, <3>1, <3>4, <3>5 DEF Recollections
  <2>5. CASE CloseBegin \/ CloseRefused
    <3>1. check' = check
      BY <2>5 DEF CloseBegin, CloseRefused
    <3>2. closing'.pc # "read" \/ DOMAIN closing'.seen = {}
      BY <2>5 DEF CloseBegin, CloseRefused, Idle
    <3> QED BY <2>1, <3>1, <3>2 DEF Recollections
  <2>6. ASSUME NEW k \in Layer, CloseRead(k)
        PROVE  m \in Recollections(l) \/ m = Seen(l)
    <3>1. check' = check
      BY <2>6 DEF CloseRead
    <3>2. closing.pc = "read"
      BY <2>6 DEF CloseRead
    <3>3. closing = [pc |-> "read", todo |-> closing.todo, revs |-> closing.revs,
                     seen |-> closing.seen, status |-> closing.status]
      BY <3>2 DEF ClosingInv, Idle
    <3>4. closing'.seen = [x \in DOMAIN closing.seen \cup {k} |->
                              IF x = k THEN Seen(k) ELSE closing.seen[x]]
      BY <2>6, <3>3 DEF CloseRead
    <3>5. l \in DOMAIN closing'.seen =>
              \/ closing'.seen[l] = Seen(l)
              \/ l \in DOMAIN closing.seen /\ closing'.seen[l] = closing.seen[l]
      BY <3>4
    <3> QED BY <2>1, <3>1, <3>2, <3>5 DEF Recollections
  <2>7. CASE LoadCatalog \/ \E t \in Ticket, k \in Layer \cup {NoTarget} : CheckTicket(t, k)
    BY <1>1, <2>1, <2>7 DEF LoadCatalog, CheckTicket
  <2> QED BY <1>3, <2>1, <2>2, <2>3, <2>4, <2>5, <2>6, <2>7, <2>8 DEF Reads
<1>4. CASE CloseCommit
  <2>1. UNCHANGED <<layer, check, examined>> /\ closing' = Idle
    BY <1>4 DEF CloseCommit
  <2>2. closing'.pc # "read"
    BY <2>1 DEF Idle
  <2> QED BY <2>1, <2>2 DEF Recollections
<1>5. ASSUME NEW c \in Checker, QaStore(c) PROVE layer' = layer /\ m \in Recollections(l)
  <2>1. UNCHANGED <<layer, closing>> /\ \A d \in Checker : d # c => check'[d] = check[d]
    BY <1>5 DEF QaStore, QaInv
  <2>2. check'[c].pc = "idle"
    BY <1>5 DEF QaStore, QaInv, Idle
  <2>3. examined' = examined \/ examined' = check[c].seen
    BY <1>5 DEF QaStore
  <2>4. check[c].pc # "idle"
    BY <1>5 DEF QaStore
  <2> QED BY <2>1, <2>2, <2>3, <2>4 DEF Recollections
<1> QED BY <1>2, <1>3, <1>4, <1>5, Kinds

LEMMA MemoryStep ==
    ASSUME RegistryOK, MemoryInv, QaInv, ClosingInv, GateNext
    PROVE  MemoryInv'
<1>1. ASSUME NEW l \in Layer, NEW m \in Recollections(l)'
      PROVE  /\ m.rev \in Nat /\ m.rev <= layer[l].rev
             /\ m.rev = layer[l].rev => m.fit = Suits(layer[l].rows)
  <2>1. m \in Recollections(l) \/ m = Seen(l)
    BY <1>1, Recalled
  <2>2. CASE m \in Recollections(l)
    BY <2>2 DEF MemoryInv
  <2>3. CASE m = Seen(l)
    <3>1. m.rev = layer[l].rev /\ m.fit = Suits(layer[l].rows)
      BY <2>3, SeenIs
    <3>2. layer[l].rev \in Nat
      BY LayersGrow
    <3> QED BY <3>1, <3>2
  <2> QED BY <2>1, <2>2, <2>3
<1>2. ASSUME NEW l \in Layer, NEW m \in Recollections(l)', NEW n \in Recollections(l)', m.rev = n.rev
      PROVE  m.fit = n.fit
  <2>1. CASE m \in Recollections(l) /\ n \in Recollections(l)
    BY <1>2, <2>1 DEF MemoryInv
  <2>2. CASE m = Seen(l) \/ n = Seen(l)
    <3>1. m.rev = layer[l].rev
      BY <1>2, <2>2, SeenIs
    <3> QED BY <1>1, <1>2, <3>1
  <2> QED BY <1>2, <2>1, <2>2, Recalled
<1>3. ASSUME NEW l \in Layer, NEW m \in Recollections(l)'
      PROVE  /\ m.rev <= layer'[l].rev
             /\ m.rev = layer'[l].rev => m.fit = Suits(layer'[l].rows)
  <2>1. m.rev \in Nat /\ m.rev <= layer[l].rev /\ layer[l].rev \in Nat /\ layer'[l].rev \in Nat
        /\ layer'[l].rev >= layer[l].rev
    BY <1>1, <1>3, LayersGrow
  <2>2. ASSUME m.rev = layer'[l].rev PROVE m.fit = Suits(layer'[l].rows)
    <3>1. m.rev = layer[l].rev /\ layer'[l].rev = layer[l].rev
      BY <2>1, <2>2
    <3>2. layer'[l].rows = layer[l].rows
      BY <3>1, LayersGrow
    <3> QED BY <1>1, <1>3, <3>1, <3>2
  <2>3. m.rev <= layer'[l].rev
    BY <2>1
  <2> QED BY <2>2, <2>3
<1>4. \A l : Suits(layer[l].rows)' = Suits(layer'[l].rows)
  BY DEF Suits, AllUsable, InScope, Usable
<1> QED BY <1>1, <1>2, <1>3, <1>4 DEF MemoryInv

-------------------------------------------------------------------------------
(* QA requests. *)

\* Where the rules find no error, the rows are usable.
LEMMA NoErrorIsClean ==
    ASSUME NEW l, NEW rows, NEW classes, NEW b \in BOOLEAN,
           \A n \in Found(l, rows, classes, Bounds[b]) : ~n.error
    PROVE  AllUsable(rows, classes)
<1> SUFFICES ASSUME NEW f \in Feature, rows[f] # NoRow, InScope(rows[f], classes)
             PROVE  Usable(rows[f])
  BY DEF AllUsable
<1> DEFINE kept == [g \in Feature |-> IF rows[g] # NoRow /\ InScope(rows[g], classes)
                                      THEN rows[g] ELSE NoRow]
           Key(g, r) == <<l, g, r, IF r = "DUPLICATE_NEARBY" THEN Near(kept, g) ELSE {}>>
<1>1. kept[f] = rows[f]
  OBVIOUS
<1>2. Found(l, rows, classes, Bounds[b]) =
        UNION {{[id |-> Key(g, r), error |-> TRUE] : r \in Errors(kept[g], Bounds[b])}
               \cup {[id |-> Key(g, r), error |-> FALSE] : r \in Warnings(kept[g], Near(kept, g))}
               : g \in {h \in Feature : kept[h] # NoRow}}
  BY DEF Found
<1>3. ASSUME NEW r \in Errors(kept[f], Bounds[b]) PROVE FALSE
  <2> DEFINE n == [id |-> Key(f, r), error |-> TRUE]
  <2>1. n \in {[id |-> Key(f, e), error |-> TRUE] : e \in Errors(kept[f], Bounds[b])}
    BY <1>3
  <2>2. f \in {h \in Feature : kept[h] # NoRow}
    BY <1>1
  <2> HIDE DEF kept, Key
  <2>3. n \in Found(l, rows, classes, Bounds[b])
    <3> HIDE DEF n
    <3> QED BY <1>2, <2>1, <2>2
  <2>4. n.error
    OBVIOUS
  <2> QED BY <2>3, <2>4
<1> HIDE DEF kept, Key
<1>4. Errors(rows[f], Bounds[b]) = {}
  BY <1>1, <1>3
<1>5. /\ "REQUIRED_FIELD" \notin Errors(rows[f], Bounds[b])
      /\ "DOMAIN_VALUE" \notin Errors(rows[f], Bounds[b])
      /\ "GEOMETRY_REQUIRED" \notin Errors(rows[f], Bounds[b])
      /\ "OUTSIDE_DATASET_BOUNDS" \notin Errors(rows[f], Bounds[b])
      /\ "Z_OUTLIER" \notin Errors(rows[f], Bounds[b])
  BY <1>4
<1>6. rows[f].filled /\ ~(rows[f].cls \in Templates /\ rows[f].blank)
  BY <1>5 DEF Errors
<1>7. rows[f].inDomain /\ rows[f].at # NoPoint
  BY <1>5 DEF Errors
<1>8. rows[f].at[1] \in Bounds[b].x
  BY <1>5, <1>7 DEF Errors
<1>9. rows[f].at[2] # NoZ /\ rows[f].at[2] \in Bounds[b].z
  BY <1>5, <1>7 DEF Errors
<1> QED BY <1>6, <1>7, <1>8, <1>9 DEF Usable

\* A request that does not move is not disturbed by later revisions.
LEMMA QaStays ==
    ASSUME RegistryOK, GateNext, NEW c \in Checker, check'[c] = check[c], QaOK(check[c])
    PROVE  QaOK(check[c])'
<1>1. check[c].pc = "rows" => /\ check[c].at \in Layer
                              /\ check[c].revs[check[c].at] \in Nat
                              /\ check[c].revs[check[c].at] <= layer[check[c].at].rev
  BY DEF QaOK
<1>2. check[c].pc = "rows" => check[c].revs[check[c].at] <= layer'[check[c].at].rev
  BY <1>1, LayersGrow
<1>3. /\ check[c].since <= stamp'
      /\ check[c].since >= filtered' => check[c].classes = review'.classes
  BY FilterMoves DEF QaOK
<1> QED BY <1>2, <1>3 DEF QaOK

LEMMA BeginQa ==
    ASSUME RegistryOK, NEW c \in Checker, QaInv, QaBegin(c)
    PROVE  QaOK(check[c])'
<1>1. check'[c] = [pc |-> "scope", todo |-> review.scope, at |-> NoTarget, revs |-> <<>>,
                   found |-> {}, loaded |-> FALSE, seen |-> <<>>, classes |-> review.classes,
                   since |-> stamp]
  BY DEF QaBegin, QaInv
<1>2. DOMAIN <<>> = {}
  OBVIOUS
<1>3. /\ review.scope \subseteq Layer /\ review.classes \in Filters /\ stamp \in Nat
      /\ UNCHANGED <<review, stamp, filtered>>
  BY DEF RegistryOK, QaBegin
<1> QED BY <1>1, <1>2, <1>3 DEF QaOK

LEMMA ScopeQa ==
    ASSUME RegistryOK, NEW c \in Checker, QaInv, QaScope(c)
    PROVE  QaOK(check[c])'
<1> DEFINE q == check[c]
           r == check'[c]
<1>1. QaOK(q) /\ q.pc = "scope"
  BY DEF QaScope, QaInv, Idle
<1>2. r = [q EXCEPT !.pc = "revision", !.todo = q.todo \cup Effective, !.loaded = loaded]
  BY DEF QaScope, QaInv
<1>3. q = [pc |-> q.pc, todo |-> q.todo, at |-> q.at, revs |-> q.revs, found |-> q.found,
           loaded |-> q.loaded, seen |-> q.seen, classes |-> q.classes, since |-> q.since]
  BY <1>1 DEF QaOK
<1>4. Effective \subseteq Layer /\ loaded \in BOOLEAN /\ UNCHANGED <<review, stamp, filtered>>
  BY EffectiveLayers DEF RegistryOK, QaScope
<1> HIDE DEF q, r, Effective
<1>5. r = [pc |-> "revision", todo |-> q.todo \cup Effective, at |-> q.at, revs |-> q.revs,
           found |-> q.found, loaded |-> loaded, seen |-> q.seen, classes |-> q.classes,
           since |-> q.since]
  BY <1>2, <1>3
<1>6. /\ r.pc = "revision" /\ r.todo = q.todo \cup Effective /\ r.revs = q.revs
      /\ r.found = q.found /\ r.loaded = loaded /\ r.seen = q.seen /\ r.classes = q.classes
      /\ r.since = q.since
      /\ r = [pc |-> r.pc, todo |-> r.todo, at |-> r.at, revs |-> r.revs, found |-> r.found,
              loaded |-> r.loaded, seen |-> r.seen, classes |-> r.classes, since |-> r.since]
  BY <1>5
<1>7. /\ q.todo \subseteq Layer /\ DOMAIN q.revs = {} /\ DOMAIN q.seen = {}
      /\ q.classes \in Filters /\ q.since \in Nat /\ q.since <= stamp
      /\ q.since >= filtered => q.classes = review.classes
  BY <1>1 DEF QaOK
<1>8. QaOK(r)
  BY <1>4, <1>6, <1>7 DEF QaOK
<1> QED BY <1>4, <1>6, <1>8 DEF r, QaOK

LEMMA RevisionQa ==
    ASSUME RegistryOK, NEW c \in Checker, NEW l \in Layer, QaInv, QaRevision(c, l)
    PROVE  check'[c] = Idle \/ QaOK(check[c])'
<1>1. QaOK(check[c])
  BY DEF QaRevision, QaInv, Idle
<1>2. layer[l].rev \in Nat /\ layer' = layer
  BY DEF RegistryOK, QaRevision
<1>3. CASE layer[l].gone
  BY <1>3 DEF QaRevision, QaInv
<1>4. CASE ~layer[l].gone
  <2> DEFINE revs == [k \in DOMAIN check[c].revs \cup {l} |->
                         IF k = l THEN layer[l].rev ELSE check[c].revs[k]]
  <2>1. check'[c] = [check[c] EXCEPT !.pc = "rows", !.at = l, !.todo = check[c].todo \ {l}, !.revs = revs]
    BY <1>4 DEF QaRevision, QaInv
  <2>2. DOMAIN revs = DOMAIN check[c].revs \cup {l} /\ revs[l] = layer[l].rev
        /\ \A k \in DOMAIN check[c].revs : k # l => revs[k] = check[c].revs[k]
    OBVIOUS
  <2>3. l \in check[c].todo /\ check[c].pc = "revision"
    BY DEF QaRevision
  <2>4. l \notin DOMAIN check[c].revs
    BY <1>1, <2>3 DEF QaOK
  <2> HIDE DEF revs
  <2>5. check'[c] = [pc |-> "rows", todo |-> check[c].todo \ {l}, at |-> l, revs |-> revs,
                     found |-> check[c].found, loaded |-> check[c].loaded, seen |-> check[c].seen,
                     classes |-> check[c].classes, since |-> check[c].since]
    <3>1. check[c] = [pc |-> check[c].pc, todo |-> check[c].todo, at |-> check[c].at,
                      revs |-> check[c].revs, found |-> check[c].found,
                      loaded |-> check[c].loaded, seen |-> check[c].seen,
                      classes |-> check[c].classes, since |-> check[c].since]
      BY <1>1 DEF QaOK
    <3> QED BY <2>1, <3>1
  <2> DEFINE q == check'[c]
  <2>6. /\ q.pc = "rows" /\ q.todo = check[c].todo \ {l} /\ q.at = l /\ q.revs = revs
        /\ q.found = check[c].found /\ q.loaded = check[c].loaded /\ q.seen = check[c].seen
        /\ q.classes = check[c].classes /\ q.since = check[c].since
        /\ q = [pc |-> q.pc, todo |-> q.todo, at |-> q.at, revs |-> q.revs, found |-> q.found,
                loaded |-> q.loaded, seen |-> q.seen, classes |-> q.classes, since |-> q.since]
    BY <2>5
  <2> HIDE DEF q
  <2>7. /\ q.todo \cap DOMAIN q.revs = {} /\ q.todo \subseteq Layer /\ DOMAIN q.revs \subseteq Layer
        /\ DOMAIN q.seen = DOMAIN q.revs \ {l} /\ q.loaded \in BOOLEAN
    BY <1>1, <2>2, <2>3, <2>4, <2>6 DEF QaOK
  <2>8. /\ \A k \in DOMAIN q.revs : q.revs[k] \in Nat
        /\ \A k \in DOMAIN q.seen : q.revs[k] <= q.seen[k].rev
        /\ q.revs[l] <= layer[l].rev
    BY <1>1, <1>2, <2>2, <2>3, <2>4, <2>6 DEF QaOK
  <2>9. (\A n \in q.found : ~n.error) => \A k \in DOMAIN q.seen : q.classes \in q.seen[k].fit
    BY <1>1, <2>6 DEF QaOK
  <2>10. /\ q.classes \in Filters /\ q.since \in Nat /\ q.since <= stamp
         /\ q.since >= filtered => q.classes = review.classes
    BY <1>1, <2>6 DEF QaOK
  <2>11. QaOK(q)
    BY <2>2, <2>6, <2>7, <2>8, <2>9, <2>10 DEF QaOK
  <2>12. UNCHANGED <<layer, review, stamp, filtered>>
    BY DEF QaRevision
  <2> QED BY <2>11, <2>12 DEF q, QaOK
<1> QED BY <1>3, <1>4

LEMMA RowsQa ==
    ASSUME RegistryOK, NEW c \in Checker, QaInv, QaRows(c)
    PROVE  QaOK(check[c])'
<1> DEFINE q == check[c]
           r == check'[c]
           l == check[c].at
<1>1. QaOK(q) /\ q.pc = "rows"
  BY RowsRead DEF QaRows
<1>2. /\ r = [pc |-> "revision", todo |-> q.todo, at |-> NoTarget, revs |-> q.revs,
              found |-> r.found, loaded |-> q.loaded, seen |-> r.seen,
              classes |-> q.classes, since |-> q.since]
      /\ r.found = q.found \cup Found(l, layer[l].rows, q.classes, Bounds[q.loaded])
      /\ r.seen = [k \in DOMAIN q.seen \cup {l} |-> IF k = l THEN Seen(k) ELSE q.seen[k]]
  BY RowsRead
<1>3. l \in DOMAIN q.revs /\ DOMAIN q.seen = DOMAIN q.revs \ {l} /\ q.revs[l] <= layer[l].rev
  BY <1>1 DEF QaOK
<1>4. Seen(l).rev = layer[l].rev /\ Seen(l).fit = Suits(layer[l].rows)
  BY SeenIs
<1> HIDE DEF q, r, l
<1>5. /\ r.pc = "revision" /\ r.todo = q.todo /\ r.at = NoTarget /\ r.revs = q.revs /\ r.loaded = q.loaded
      /\ r.classes = q.classes /\ r.since = q.since
      /\ r = [pc |-> r.pc, todo |-> r.todo, at |-> r.at, revs |-> r.revs, found |-> r.found,
              loaded |-> r.loaded, seen |-> r.seen, classes |-> r.classes, since |-> r.since]
  BY <1>2
<1>6. /\ DOMAIN r.seen = DOMAIN r.revs /\ r.seen[l] = Seen(l)
      /\ \A k \in DOMAIN r.seen : k # l => k \in DOMAIN q.seen /\ r.seen[k] = q.seen[k]
  BY <1>2, <1>3, <1>5
<1>7. \A k \in DOMAIN r.seen : r.revs[k] <= r.seen[k].rev
  BY <1>1, <1>3, <1>4, <1>5, <1>6 DEF QaOK
<1>8. ASSUME \A n \in r.found : ~n.error, NEW k \in DOMAIN r.seen
      PROVE  r.classes \in r.seen[k].fit
  <2>1. CASE k = l
    <3>1. \A n \in Found(l, layer[l].rows, q.classes, Bounds[q.loaded]) : ~n.error
      BY <1>2, <1>8
    <3>2. q.loaded \in BOOLEAN /\ q.classes \in Filters
      BY <1>1 DEF QaOK
    <3>3. AllUsable(layer[l].rows, q.classes)
      BY <3>1, <3>2, NoErrorIsClean
    <3>4. q.classes \in Suits(layer[l].rows)
      BY <3>2, <3>3 DEF Suits
    <3> QED BY <1>4, <1>5, <1>6, <2>1, <3>4
  <2>2. CASE k # l
    BY <1>1, <1>2, <1>5, <1>6, <1>8, <2>2 DEF QaOK
  <2> QED BY <2>1, <2>2
<1>9. QaOK(r)
  BY <1>1, <1>5, <1>6, <1>7, <1>8 DEF QaOK
<1>10. UNCHANGED <<review, stamp, filtered>>
  BY DEF QaRows
<1> QED BY <1>9, <1>10, <1>5 DEF r, QaOK

LEMMA QaStep ==
    ASSUME RegistryOK, QaInv, GateNext
    PROVE  QaInv'
<1>1. CASE UNCHANGED check
  BY <1>1, QaStays DEF QaInv
<1>2. ASSUME NEW c \in Checker, DOMAIN check' = Checker,
             \A d \in Checker : d # c => check'[d] = check[d],
             check'[c] = Idle \/ QaOK(check[c])'
      PROVE  QaInv'
  <2> SUFFICES ASSUME NEW d \in Checker, check'[d] # Idle PROVE QaOK(check[d])'
    BY <1>2 DEF QaInv, Idle
  <2>1. CASE d = c
    BY <1>2, <2>1
  <2>2. CASE d # c
    BY <1>2, <2>2, QaStays DEF QaInv
  <2> QED BY <2>1, <2>2
<1>3. ASSUME NEW c \in Checker, QaBegin(c) PROVE QaInv'
  BY <1>2, <1>3, BeginQa DEF QaBegin, QaInv
<1>4. ASSUME NEW c \in Checker, NEW l \in Layer, QaRevision(c, l) PROVE QaInv'
  <2>1. DOMAIN check' = Checker /\ \A d \in Checker : d # c => check'[d] = check[d]
    BY <1>4 DEF QaRevision, QaInv
  <2> QED BY <1>2, <1>4, <2>1, RevisionQa
<1>5. ASSUME NEW c \in Checker, QaRows(c) PROVE QaInv'
  BY <1>2, <1>5, RowsQa, RowsRead
<1>6. ASSUME NEW c \in Checker, QaStore(c) PROVE QaInv'
  BY <1>2, <1>6 DEF QaStore, QaInv
<1>9. ASSUME NEW c \in Checker, QaScope(c) PROVE QaInv'
  BY <1>2, <1>9, ScopeQa DEF QaScope, QaInv
<1>7. CASE Reads
  BY <1>1, <1>3, <1>4, <1>5, <1>7, <1>9
  DEF Reads, LoadCatalog, CheckTicket, CloseBegin, CloseRefused, CloseRead
<1>8. CASE CloseCommit
  BY <1>1, <1>8 DEF CloseCommit
<1> QED BY <1>1, <1>6, <1>7, <1>8, Kinds, ExportsLeave, LayerMovesLeave, PatchesLeave

-------------------------------------------------------------------------------
(* The stored QA run, and completion. *)

\* An issue of a request is stored with its kind; an error is stored as open.
LEMMA KeptErrors ==
    ASSUME NEW found
    PROVE  /\ \A i \in Kept(found) :
                /\ i = [id |-> i.id, error |-> i.error, status |-> i.status]
                /\ i.error => i.status = "open"
           /\ (\A i \in Kept(found) : ~i.error) => \A n \in found : ~n.error
<1> DEFINE Decision(n) == IF ~n.error /\ \E i \in issues : i.id = n.id
                          THEN (CHOOSE i \in issues : i.id = n.id).status ELSE "open"
           Stored(n) == [id |-> n.id, error |-> n.error, status |-> Decision(n)]
<1>1. Kept(found) = {Stored(n) : n \in found}
  BY DEF Kept
<1>2. \A n \in found : n.error => Decision(n) = "open"
  OBVIOUS
<1> HIDE DEF Decision
<1>3. ASSUME NEW n \in found
      PROVE  /\ Stored(n) = [id |-> Stored(n).id, error |-> Stored(n).error,
                             status |-> Stored(n).status]
             /\ Stored(n).error => Stored(n).status = "open"
             /\ Stored(n).error = n.error
  BY <1>2
<1> HIDE DEF Stored
<1> QED BY <1>1, <1>3

LEMMA StoredStep ==
    ASSUME RegistryOK, QaInv, StoredInv, GateNext
    PROVE  StoredInv'
<1>1. CASE UNCHANGED <<issues, examined, judged>> /\ review'.snapshot = review.snapshot
  BY <1>1 DEF StoredInv
<1>2. ASSUME NEW i \in issues, PatchIssue(i) PROVE StoredInv'
  <2>1. UNCHANGED <<examined, judged, review>> /\ ~i.error
    BY <1>2 DEF PatchIssue
  <2>2. PICK s : issues' = (issues \ {i}) \cup {[i EXCEPT !.status = s]}
    BY <1>2 DEF PatchIssue
  <2> DEFINE j == [i EXCEPT !.status = s]
  <2>3. j = [id |-> j.id, error |-> j.error, status |-> j.status] /\ j.error = i.error
    BY DEF StoredInv
  <2>4. issues' = (issues \ {i}) \cup {j}
    BY <2>2
  <2> HIDE DEF j
  <2>5. \A k \in issues' : /\ k = [id |-> k.id, error |-> k.error, status |-> k.status]
                           /\ k.error => k.status = "open"
    BY <2>1, <2>3, <2>4 DEF StoredInv
  <2>6. (\A k \in issues' : ~k.error) => \A k \in issues : ~k.error
    BY <2>1, <2>4
  <2> QED BY <2>1, <2>5, <2>6 DEF StoredInv
<1>3. ASSUME NEW c \in Checker, QaStore(c) PROVE StoredInv'
  <2>1. CASE UNCHANGED <<issues, review, examined, judged>>
    BY <1>1, <2>1
  <2>2. CASE /\ issues' = Kept(check[c].found) /\ examined' = check[c].seen
             /\ review' = [review EXCEPT !.snapshot = check[c].revs]
             /\ judged' = [classes |-> check[c].classes, since |-> check[c].since]
    <3>1. QaOK(check[c]) /\ check[c].pc = "revision"
      BY <1>3 DEF QaStore, QaInv, Idle
    <3>2. review'.snapshot = check[c].revs
      BY <2>2 DEF RegistryOK
    <3>3. DOMAIN check[c].seen = DOMAIN check[c].revs /\ DOMAIN check[c].revs \subseteq Layer
      BY <3>1 DEF QaOK
    <3>4. \A l \in DOMAIN examined' :
              review'.snapshot[l] \in Nat /\ review'.snapshot[l] <= examined'[l].rev
      BY <2>2, <3>1, <3>2, <3>3 DEF QaOK
    <3>5. (\A i \in issues' : ~i.error) =>
              \A l \in DOMAIN examined' : judged'.classes \in examined'[l].fit
      BY <2>2, <3>1, KeptErrors DEF QaOK
    <3>6. \A i \in issues' : /\ i = [id |-> i.id, error |-> i.error, status |-> i.status]
                             /\ i.error => i.status = "open"
      BY <2>2, KeptErrors
    <3> QED BY <2>2, <3>2, <3>3, <3>4, <3>5, <3>6 DEF StoredInv
  <2> QED BY <1>3, <2>1, <2>2 DEF QaStore
<1>4. CASE Patches
  <2>1. UNCHANGED <<examined, judged>> /\ review'.snapshot = review.snapshot
    BY <1>4, PatchesLeave
  <2>2. CASE PatchSession \/ (\E t \in Ticket, l \in Layer \cup {NoTarget} : InsertTicket(t, l))
             \/ (\E t \in Ticket : MoveTicket(t))
    BY <1>1, <2>1, <2>2 DEF PatchSession, InsertTicket, MoveTicket
  <2> QED BY <1>2, <1>4, <2>2 DEF Patches
<1>5. CASE CloseCommit
  BY <1>1, <1>5 DEF CloseCommit, RegistryOK
<1> QED BY <1>1, <1>3, <1>4, <1>5, Kinds, ReadsLeave, ExportsLeave, LayerMovesLeave

\* The classes that a stored QA run looked at are those of the session, or the filters have
\* changed since it began.
LEMMA JudgedStep ==
    ASSUME RegistryOK, QaInv, JudgedInv, GateNext
    PROVE  JudgedInv'
<1>1. /\ stamp \in Nat /\ stamp' \in Nat /\ stamp <= stamp' /\ filtered \in Nat
      /\ \/ filtered' = filtered /\ review'.classes = review.classes
         \/ filtered' = stamp + 1 /\ stamp' = stamp + 1
  BY FilterMoves
<1>2. CASE judged' = judged
  BY <1>1, <1>2 DEF JudgedInv, JudgedAsFiltered
<1>3. ASSUME NEW c \in Checker, QaStore(c) PROVE JudgedInv'
  <2>1. CASE judged' = [classes |-> check[c].classes, since |-> check[c].since]
    <3>1. QaOK(check[c])
      BY <1>3 DEF QaStore, QaInv, Idle
    <3>2. judged'.classes = check[c].classes /\ judged'.since = check[c].since
      BY <2>1
    <3>3. /\ check[c].since \in Nat /\ check[c].since <= stamp
          /\ check[c].since >= filtered => check[c].classes = review.classes
      BY <3>1 DEF QaOK
    <3> QED BY <1>1, <3>2, <3>3 DEF JudgedInv, JudgedAsFiltered
  <2> QED BY <1>2, <1>3, <2>1 DEF QaStore
<1>4. CASE CloseCommit
  BY <1>2, <1>4 DEF CloseCommit
<1> QED BY <1>2, <1>3, <1>4, Kinds, ReadsLeave, ExportsLeave, LayerMovesLeave, PatchesLeave

LEMMA ClosingStep ==
    ASSUME RegistryOK, ClosingInv, GateNext
    PROVE  ClosingInv'
<1>1. CASE UNCHANGED closing
  BY <1>1 DEF ClosingInv
<1>2. CASE CloseBegin
  <2>1. closing' = [pc |-> "read", todo |-> Effective, revs |-> <<>>, seen |-> <<>>,
                    status |-> review.status] /\ review.status \in {"active", "paused"}
    BY <1>2 DEF CloseBegin
  <2>2. DOMAIN <<>> = {} /\ Effective \subseteq Layer
    BY EffectiveLayers
  <2> HIDE DEF Effective
  <2> QED BY <2>1, <2>2 DEF ClosingInv
<1>3. ASSUME NEW l \in Layer, CloseRead(l) PROVE ClosingInv'
  <2>1. closing.pc = "read"
    BY <1>3 DEF CloseRead
  <2>2. /\ closing = [pc |-> "read", todo |-> closing.todo, revs |-> closing.revs,
                      seen |-> closing.seen, status |-> closing.status]
        /\ closing.todo \subseteq Layer /\ closing.status \in {"active", "paused"}
        /\ DOMAIN closing.revs = DOMAIN closing.seen /\ DOMAIN closing.seen \subseteq Layer
        /\ \A k \in DOMAIN closing.seen :
             closing.revs[k] # NoRevision => closing.seen[k].rev = closing.revs[k]
    BY <2>1 DEF ClosingInv, Idle
  <2> DEFINE revs == [k \in DOMAIN closing.revs \cup {l} |-> IF k = l THEN Revision(l) ELSE closing.revs[k]]
             seen == [k \in DOMAIN closing.seen \cup {l} |-> IF k = l THEN Seen(l) ELSE closing.seen[k]]
  <2>3. closing' = [closing EXCEPT !.todo = closing.todo \ {l}, !.revs = revs, !.seen = seen]
    BY <1>3 DEF CloseRead
  <2>4. /\ DOMAIN revs = DOMAIN seen /\ DOMAIN seen \subseteq Layer
        /\ \A k \in DOMAIN seen : revs[k] # NoRevision => seen[k].rev = revs[k]
    BY <2>2, SeenIs DEF Revision
  <2> HIDE DEF revs, seen
  <2>5. closing' = [pc |-> "read", todo |-> closing.todo \ {l}, revs |-> revs, seen |-> seen,
                    status |-> closing.status]
    <3>1. closing = [pc |-> "read", todo |-> closing.todo, revs |-> closing.revs,
                     seen |-> closing.seen, status |-> closing.status]
      BY <2>2
    <3>2. DOMAIN closing = {"pc", "todo", "revs", "seen", "status"}
      BY <3>1
    <3>3. /\ closing'.pc = "read" /\ closing'.todo = closing.todo \ {l} /\ closing'.revs = revs
          /\ closing'.seen = seen /\ closing'.status = closing.status
          /\ DOMAIN closing' = DOMAIN closing
      BY <2>1, <2>3, <3>2
    <3>4. closing' = [x \in DOMAIN closing |-> closing'[x]]
      BY <2>3
    <3> QED BY <3>2, <3>3, <3>4
  <2> QED BY <2>2, <2>4, <2>5 DEF ClosingInv
<1>4. CASE CloseRefused \/ CloseCommit
  BY <1>4 DEF CloseRefused, CloseCommit, ClosingInv
<1>5. CASE Reads
  BY <1>1, <1>2, <1>3, <1>4, <1>5 DEF Reads, LoadCatalog, CheckTicket, QaBegin, QaScope,
     QaRows, QaRevision
<1>6. ASSUME NEW c \in Checker, QaStore(c) PROVE ClosingInv'
  BY <1>1, <1>6 DEF QaStore
<1> QED BY <1>1, <1>4, <1>5, <1>6, Kinds, ExportsLeave, LayerMovesLeave, PatchesLeave

\* Completion finds no open error, and of every layer the revision of the stored run.
LEMMA ClosedStep ==
    ASSUME RegistryOK, MemoryInv, StoredInv, ClosingInv, CompletedIsClean, GateNext
    PROVE  CompletedIsClean'
<1>1. CASE UNCHANGED <<examined, judged, approved>> /\ (review'.status \in Closed => review.status \in Closed)
  BY <1>1 DEF CompletedIsClean
<1>2. CASE Patches
  <2>1. UNCHANGED <<examined, judged, approved>>
    BY <1>2, PatchesLeave
  <2>2. review'.status \in Closed => review.status \in Closed
    <3>1. CASE PatchSession
      BY <3>1, Patched
    <3>2. CASE ~PatchSession
      BY <1>2, <3>2 DEF Patches, InsertTicket, MoveTicket, PatchIssue
    <3> QED BY <3>1, <3>2
  <2> QED BY <1>1, <2>1, <2>2
<1>3. ASSUME NEW c \in Checker, QaStore(c) PROVE CompletedIsClean'
  <2>1. CASE review.status \in Closed
    BY <1>1, <1>3, <2>1 DEF QaStore
  <2>2. CASE review.status \notin Closed
    <3>1. review'.status = review.status
      BY <1>3 DEF QaStore, RegistryOK
    <3> QED BY <2>2, <3>1 DEF CompletedIsClean
  <2> QED BY <2>1, <2>2
<1>4. CASE CloseCommit
  <2>1. /\ UNCHANGED <<examined, judged>> /\ approved' = closing.seen /\ closing.pc = "read"
        /\ ~Blocked(closing.revs)
    BY <1>4 DEF CloseCommit
  <2>2. /\ DOMAIN closing.revs = DOMAIN closing.seen /\ DOMAIN closing.seen \subseteq Layer
        /\ \A l \in DOMAIN closing.seen :
             closing.revs[l] # NoRevision => closing.seen[l].rev = closing.revs[l]
    BY <2>1 DEF ClosingInv, Idle
  <2>3. /\ \A i \in issues : ~(i.error /\ i.status = "open")
        /\ review.snapshot # NoSnapshot /\ DOMAIN review.snapshot = DOMAIN closing.revs
        /\ \A l \in DOMAIN closing.revs :
             closing.revs[l] # NoRevision /\ closing.revs[l] = review.snapshot[l]
    BY <2>1 DEF Blocked
  <2>4. \A l \in DOMAIN examined : judged.classes \in examined[l].fit
    BY <2>3 DEF StoredInv
  <2>5. ASSUME NEW l \in DOMAIN closing.seen
        PROVE  /\ judged.classes \in examined[l].fit
               /\ closing.seen[l].rev >= examined[l].rev =>
                       judged.classes \in closing.seen[l].fit
    <3>1. l \in DOMAIN examined /\ l \in Layer /\ review.snapshot[l] \in Nat
          /\ review.snapshot[l] <= examined[l].rev
      BY <2>2, <2>3 DEF StoredInv
    <3>2. closing.seen[l] \in Recollections(l) /\ examined[l] \in Recollections(l)
      BY <2>1, <3>1 DEF Recollections
    <3>3. /\ examined[l].rev \in Nat /\ closing.seen[l].rev = review.snapshot[l]
          /\ closing.seen[l].rev = examined[l].rev => closing.seen[l].fit = examined[l].fit
      BY <2>2, <2>3, <3>1, <3>2 DEF MemoryInv
    <3>4. judged.classes \in examined[l].fit
      BY <2>4, <3>1
    <3>5. closing.seen[l].rev >= examined[l].rev => closing.seen[l].rev = examined[l].rev
      BY <3>1, <3>3
    <3> QED BY <3>3, <3>4, <3>5
  <2> QED BY <2>1, <2>5 DEF CompletedIsClean
<1> QED BY <1>1, <1>2, <1>3, <1>4, Kinds, ReadsLeave, ExportsLeave, LayerMovesLeave

-------------------------------------------------------------------------------
(* Exports. *)

\* When nothing stands in the way of completion, every row there is now is usable.
LEMMA EligibleNow ==
    ASSUME RegistryOK, MemoryInv, StoredInv, Eligible, NEW l \in Effective
    PROVE  AllUsable(layer[l].rows, judged.classes)
<1> DEFINE revs == [k \in Effective |-> Revision(k)]
<1>1. DOMAIN revs = Effective /\ revs[l] = Revision(l)
  OBVIOUS
<1>2. ~Blocked(revs)
  BY DEF Eligible
<1> HIDE DEF revs
<1>3. /\ \A i \in issues : ~(i.error /\ i.status = "open")
      /\ review.snapshot # NoSnapshot /\ DOMAIN review.snapshot = Effective
      /\ Revision(l) # NoRevision /\ Revision(l) = review.snapshot[l]
  BY <1>1, <1>2 DEF Blocked
<1>4. l \in Layer
  BY EffectiveLayers
<1>5. layer[l].rev = review.snapshot[l] /\ layer[l].rev \in Nat
  BY <1>3, <1>4 DEF Revision, RegistryOK
<1>6. /\ l \in DOMAIN examined /\ judged.classes \in examined[l].fit
      /\ review.snapshot[l] <= examined[l].rev
  BY <1>3 DEF StoredInv
<1>7. examined[l] \in Recollections(l)
  BY <1>6 DEF Recollections
<1>8. /\ examined[l].rev \in Nat /\ examined[l].rev <= layer[l].rev
      /\ examined[l].rev = layer[l].rev => examined[l].fit = Suits(layer[l].rows)
  BY <1>4, <1>7 DEF MemoryInv
<1>9. examined[l].rev = layer[l].rev
  BY <1>5, <1>6, <1>8
<1>10. judged.classes \in Suits(layer[l].rows)
  BY <1>6, <1>8, <1>9, Zenon
<1> QED BY <1>10 DEF Suits

\* Steps of others: unless the registry moves, session, tasks and issues are the same.
LEMMA OthersStep ==
    ASSUME RegistryOK, GateNext, ~Exports
    PROVE  /\ export' = export /\ stamp \in Nat /\ stamp' \in Nat /\ stamp <= stamp'
           /\ stamp' = stamp => UNCHANGED <<review, ticket, issues>>
<1>1. stamp \in Nat
  BY DEF RegistryOK
<1>2. CASE Reads \/ LayerMoves
  BY <1>1, <1>2, ReadsLeave, LayerMovesLeave
<1>3. CASE Patches
  BY <1>1, <1>3, PatchesLeave
<1>4. CASE CloseCommit
  BY <1>1, <1>4 DEF CloseCommit
<1>5. ASSUME NEW c \in Checker, QaStore(c)
      PROVE  /\ export' = export /\ stamp' \in Nat /\ stamp <= stamp'
             /\ stamp' = stamp => UNCHANGED <<review, ticket, issues>>
  BY <1>1, <1>5 DEF QaStore
<1> QED BY <1>1, <1>2, <1>3, <1>4, <1>5, Kinds

\* A layer that is as the export has found it was so before the step.
LEMMA StillBefore ==
    ASSUME RegistryOK, GateNext, export' = export, NEW l \in Layer,
           export.revs[l] \in Nat, export.revs[l] <= layer[l].rev, Still(l)'
    PROVE  Still(l) /\ layer'[l].rows = layer[l].rows /\ Revision(l)' = Revision(l)
<1>1. ~layer'[l].gone /\ layer'[l].rev = export.revs[l]
  BY DEF Still
<1>2. /\ layer[l].rev \in Nat /\ layer'[l].rev >= layer[l].rev
      /\ layer'[l].rev = layer[l].rev => layer'[l].rows = layer[l].rows
      /\ layer[l].gone => layer'[l].gone
  BY LayersGrow
<1>3. layer'[l].rev = layer[l].rev
  BY <1>1, <1>2
<1> QED BY <1>1, <1>2, <1>3 DEF Still, Revision

\* Such a step keeps the verdict on the session, if no layer of it has changed.
LEMMA VerdictStays ==
    ASSUME RegistryOK, UNCHANGED <<review, ticket, issues>>,
           \A l \in Effective : Revision(l)' = Revision(l)
    PROVE  Eligible' = Eligible
<1>1. Effective' = Effective
  BY DEF Effective
<1>2. [l \in Effective |-> Revision(l)]' = [l \in Effective |-> Revision(l)]
  BY <1>1
<1> DEFINE revs == [l \in Effective |-> Revision(l)]
<1>3. revs' = revs
  BY <1>2
<1> HIDE DEF revs
<1>4. Blocked(revs)' = Blocked(revs)
  BY <1>3 DEF Blocked
<1> QED BY <1>4 DEF Eligible, revs

LEMMA OthersKeepExport ==
    ASSUME RegistryOK, ExportInv, GateNext, ~Exports
    PROVE  ExportInv'
<1>1. /\ export' = export /\ stamp \in Nat /\ stamp' \in Nat /\ stamp <= stamp'
      /\ stamp' = stamp => UNCHANGED <<review, ticket, issues>>
  BY OthersStep
<1>2. CASE export = Idle
  BY <1>1, <1>2 DEF ExportInv
<1> SUFFICES ASSUME export # Idle, ExportRead PROVE ExportInv'
  BY <1>2 DEF ExportInv
<1>3. /\ export.stamp \in Nat /\ export.stamp <= stamp /\ export.all \subseteq Layer
      /\ DOMAIN export.revs \subseteq export.all
      /\ \A l \in DOMAIN export.revs : export.revs[l] \in Nat /\ export.revs[l] <= layer[l].rev
  BY DEF ExportRead
<1>4. ExportRead'
  <2>1. \A l \in DOMAIN export.revs : export.revs[l] <= layer'[l].rev
    <3> SUFFICES ASSUME NEW l \in DOMAIN export.revs PROVE export.revs[l] <= layer'[l].rev
      OBVIOUS
    <3>1. l \in Layer /\ export.revs[l] \in Nat /\ export.revs[l] <= layer[l].rev
      BY <1>3
    <3>2. layer[l].rev \in Nat /\ layer'[l].rev \in Nat /\ layer'[l].rev >= layer[l].rev
      BY <3>1, LayersGrow
    <3> QED BY <3>1, <3>2
  <2>2. export.stamp <= stamp'
    BY <1>1, <1>3
  <2> QED BY <1>1, <1>3, <2>1, <2>2 DEF ExportRead
<1>5. Steady' => Steady /\ UNCHANGED <<review, ticket, issues>>
  BY <1>1, <1>3 DEF Steady
<1>6. ASSUME NEW l \in DOMAIN export.revs, Still(l)'
      PROVE  Still(l) /\ layer'[l].rows = layer[l].rows /\ Revision(l)' = Revision(l)
  BY <1>1, <1>3, <1>6, StillBefore
<1>8. TruthClean' <=> TruthClean
  BY <1>1 DEF TruthClean, AllUsable, InScope, Usable
<1>9. Truth => Truth'
  BY <1>1 DEF Truth
<1>10. CASE export.pc = "layers" /\ ExportLayers
  <2>1. Steady' => export.all = Effective'
    BY <1>5, <1>10 DEF ExportLayers, Effective
  <2> QED BY <1>1, <1>4, <1>10, <2>1 DEF ExportLayers, ExportInv
<1>11. CASE export.pc = "gate" /\ ExportGated
  <2>1. Truth /\ Truth' /\ DOMAIN export.revs = export.all
    BY <1>9, <1>11 DEF ExportGated, Truth
  <2>2. Steady' => export.all = Effective' /\ TruthClean'
    BY <1>5, <1>8, <1>11 DEF ExportGated, Effective
  <2>3. \A l \in export.all : Still(l)' => export.truth.rows[l] = layer'[l].rows
    BY <1>6, <1>11, <2>1 DEF ExportGated
  <2>4. ASSUME Steady', \A l \in export.all : Still(l)' PROVE export.truth.eligible = Eligible'
    <3>1. Steady /\ UNCHANGED <<review, ticket, issues>> /\ export.all = Effective
      BY <1>5, <1>11, <2>4 DEF ExportGated
    <3>2. \A l \in export.all : Still(l) /\ Revision(l)' = Revision(l)
      BY <1>6, <2>1, <2>4
    <3>3. Eligible' = Eligible
      BY <3>1, <3>2, VerdictStays
    <3> QED BY <1>11, <3>1, <3>2, <3>3 DEF ExportGated
  <2>5. ExportGated'
    BY <1>1, <1>11, <2>1, <2>2, <2>3, <2>4 DEF ExportGated
  <2> QED BY <1>1, <1>4, <1>11, <2>5 DEF ExportInv
<1>12. CASE export.pc \in {"bundle", "evidence"} /\ ExportBundled
  <2>1. Truth /\ Truth' /\ DOMAIN export.revs = export.all
    BY <1>9, <1>12 DEF ExportBundled, Truth
  <2>2. ExportShape'
    BY <1>1, <1>12 DEF ExportBundled, ExportShape
  <2>3. Steady' => TruthClean'
    BY <1>5, <1>8, <1>12 DEF ExportBundled
  <2>4. ASSUME NEW l \in export.all, Still(l)'
        PROVE  /\ export.truth.rows[l] = layer'[l].rows
               /\ l \in DOMAIN export.rows => export.rows[l] = export.truth.rows[l]
               /\ l \in DOMAIN export.evidence => export.evidence[l] = export.truth.rows[l]
    BY <1>6, <1>12, <2>1, <2>4 DEF ExportBundled
  <2>5. ASSUME Steady', \A l \in export.all : Still(l)' PROVE export.eligible = export.truth.eligible
    <3>1. \A l \in export.all : Still(l)
      BY <1>6, <2>1, <2>5
    <3> QED BY <1>5, <1>12, <2>5, <3>1 DEF ExportBundled
  <2>6. ExportBundled'
    BY <1>1, <1>12, <2>1, <2>2, <2>3, <2>4, <2>5 DEF ExportBundled
  <2> QED BY <1>1, <1>4, <1>12, <2>6 DEF ExportInv
<1>13. CASE export.pc \in {"fence", "served"} /\ ExportFenced
  <2>1. Truth /\ Truth' /\ DOMAIN export.revs = export.all /\ export.todo \subseteq export.all
    BY <1>9, <1>13 DEF ExportFenced, Truth, ExportShape
  <2>2. ExportShape' /\ TruthClean'
    BY <1>1, <1>8, <1>13 DEF ExportFenced, ExportShape
  <2>3. ASSUME NEW l \in export.all, l \in export.todo => Still(l)'
        PROVE  export.rows[l] = export.truth.rows[l] /\ export.evidence[l] = export.truth.rows[l]
    BY <1>6, <1>13, <2>1, <2>3 DEF ExportFenced
  <2>4. ASSUME \A l \in export.todo : Still(l)' PROVE export.eligible = export.truth.eligible
    BY <1>6, <1>13, <2>1, <2>4 DEF ExportFenced
  <2>5. ExportFenced'
    BY <1>1, <1>13, <2>1, <2>2, <2>3, <2>4 DEF ExportFenced
  <2> QED BY <1>1, <1>4, <1>13, <2>5 DEF ExportInv
<1> QED BY <1>2, <1>10, <1>11, <1>12, <1>13 DEF ExportInv

\* The export's own steps leave the layers and the registry alone.
LEMMA OwnStep ==
    ASSUME Exports
    PROVE  /\ UNCHANGED <<layer, review, ticket, issues, stamp>>
           /\ \A l : Revision(l)' = Revision(l)
           /\ Effective' = Effective /\ Eligible' = Eligible
<1>1. UNCHANGED <<layer, review, ticket, issues, stamp>>
  BY ExportsLeave
<1>2. \A l : Revision(l)' = Revision(l)
  BY <1>1 DEF Revision
<1>3. Effective' = Effective
  BY <1>1 DEF Effective
<1> DEFINE revs == [l \in Effective |-> Revision(l)]
<1>4. revs' = revs
  BY <1>2, <1>3
<1> HIDE DEF revs
<1>5. Blocked(revs)' = Blocked(revs)
  BY <1>1, <1>4 DEF Blocked
<1>6. Eligible' = Eligible
  BY <1>5 DEF Eligible, revs
<1> QED BY <1>1, <1>2, <1>3, <1>6

LEMMA BeginExport ==
    ASSUME RegistryOK, ExportBegin
    PROVE  ExportInv'
<1>1. export' = [pc |-> "layers", todo |-> Effective, stamp |-> stamp, revs |-> <<>>,
                 all |-> Effective]
  BY DEF ExportBegin
<1>2. Exports
  BY DEF Exports
<1>3. Effective \subseteq Layer /\ Effective' = Effective /\ stamp' = stamp /\ stamp \in Nat
  BY <1>2, EffectiveLayers, OwnStep DEF RegistryOK
<1>4. DOMAIN <<>> = {}
  OBVIOUS
<1> HIDE DEF Effective
<1>5. ExportRead' /\ ExportLayers'
  BY <1>1, <1>3, <1>4 DEF ExportRead, ExportLayers, Steady
<1> QED BY <1>1, <1>5 DEF ExportInv

LEMMA LayerExport ==
    ASSUME RegistryOK, ExportInv, NEW l \in Layer, ExportLayer(l)
    PROVE  ExportInv'
<1>1. Exports
  BY DEF Exports
<1>2. UNCHANGED <<layer, stamp>> /\ Effective' = Effective
  BY <1>1, OwnStep
<1>3. export.pc = "layers" /\ l \in export.todo
  BY DEF ExportLayer
<1>4. ExportRead /\ ExportLayers
  BY <1>3 DEF ExportInv, Idle
<1>5. CASE layer[l].gone
  BY <1>5 DEF ExportLayer, ExportInv
<1>6. CASE ~layer[l].gone
  <2> DEFINE revs == [k \in DOMAIN export.revs \cup {l} |->
                         IF k = l THEN layer[l].rev ELSE export.revs[k]]
  <2>1. export' = [export EXCEPT !.todo = export.todo \ {l}, !.revs = revs]
    BY <1>6 DEF ExportLayer
  <2>2. DOMAIN revs = DOMAIN export.revs \cup {l} /\ revs[l] = layer[l].rev
        /\ \A k \in DOMAIN export.revs : k # l => revs[k] = export.revs[k]
    OBVIOUS
  <2> HIDE DEF revs
  <2>3. DOMAIN export = {"pc", "todo", "stamp", "revs", "all"}
    BY <1>4 DEF ExportLayers
  <2>4. /\ export'.pc = "layers" /\ export'.todo = export.todo \ {l} /\ export'.revs = revs
        /\ export'.stamp = export.stamp /\ export'.all = export.all
        /\ DOMAIN export' = DOMAIN export
    BY <1>3, <2>1, <2>3
  <2>5. export' = [x \in DOMAIN export |-> export'[x]]
    BY <2>1
  <2>6. export' = [pc |-> "layers", todo |-> export'.todo, stamp |-> export'.stamp,
                   revs |-> export'.revs, all |-> export'.all]
    BY <2>3, <2>4, <2>5
  <2>7. layer[l].rev \in Nat /\ l \in export.all
    BY <1>3, <1>4 DEF RegistryOK, ExportLayers
  <2>8. ExportRead'
    BY <1>2, <1>4, <2>2, <2>4, <2>7 DEF ExportRead
  <2>9. DOMAIN export'.revs = export'.all \ export'.todo /\ export'.todo \subseteq export'.all
    BY <1>3, <1>4, <2>2, <2>4, <2>7 DEF ExportLayers
  <2>10. Steady' => export'.all = Effective'
    BY <1>2, <1>4, <2>4 DEF ExportLayers, Steady
  <2>11. ExportLayers'
    BY <2>6, <2>9, <2>10 DEF ExportLayers
  <2> QED BY <2>4, <2>8, <2>11 DEF ExportInv
<1> QED BY <1>5, <1>6

\* What the report tells, and what was to be had when it was counted.
LEMMA CountsExport ==
    ASSUME RegistryOK, MemoryInv, StoredInv, ExportInv, ExportCounts
    PROVE  ExportInv'
<1>1. Exports
  BY DEF Exports
<1>2. /\ UNCHANGED <<layer, review, stamp>> /\ Effective' = Effective /\ Eligible' = Eligible
  BY <1>1, OwnStep
<1>3. export.pc = "layers" /\ export.todo = {}
  BY DEF ExportCounts
<1>4. ExportRead /\ ExportLayers
  BY <1>3 DEF ExportInv, Idle
<1> DEFINE truth == [counts |-> Counts, rows |-> [l \in export.all |-> layer[l].rows],
                     eligible |-> Eligible, classes |-> judged.classes]
<1>5. export' = [pc |-> "gate", stamp |-> export.stamp, revs |-> export.revs,
                 all |-> export.all, counts |-> Counts, truth |-> truth]
  BY DEF ExportCounts, Eligible
<1>6. /\ truth.counts = Counts /\ truth.rows = [l \in export.all |-> truth.rows[l]]
      /\ truth.eligible = Eligible /\ truth.classes = judged.classes
      /\ \A l \in export.all : truth.rows[l] = layer[l].rows
  OBVIOUS
<1>7. Eligible \in BOOLEAN
  BY DEF Eligible
<1> HIDE DEF truth, Counts, Eligible, Effective
<1>8. /\ export'.pc = "gate" /\ export'.stamp = export.stamp /\ export'.revs = export.revs
      /\ export'.all = export.all /\ export'.counts = Counts /\ export'.truth = truth
      /\ export' = [pc |-> "gate", stamp |-> export'.stamp, revs |-> export'.revs,
                    all |-> export'.all, counts |-> export'.counts, truth |-> export'.truth]
  BY <1>5
<1>9. DOMAIN export.revs = export.all
  BY <1>3, <1>4 DEF ExportLayers
<1>10. ExportRead'
  BY <1>2, <1>4, <1>8 DEF ExportRead
<1>11. Truth'
  BY <1>6, <1>7, <1>8, <1>9 DEF Truth
<1>12. Steady' => export.all = Effective
  BY <1>2, <1>4, <1>8 DEF ExportLayers, Steady
<1>13. ASSUME Steady', Eligible, NEW l \in export.all
       PROVE  AllUsable(truth.rows[l], truth.classes)
  BY <1>6, <1>12, <1>13, EligibleNow
<1>14. Steady' => TruthClean'
  BY <1>2, <1>6, <1>8, <1>13 DEF TruthClean
<1>15. ExportGated'
  BY <1>2, <1>6, <1>8, <1>11, <1>12, <1>14 DEF ExportGated
<1> QED BY <1>8, <1>10, <1>15 DEF ExportInv

LEMMA GateExport ==
    ASSUME RegistryOK, ExportInv, ExportGate
    PROVE  ExportInv'
<1>1. Exports
  BY DEF Exports
<1>2. UNCHANGED <<layer, review, stamp>>
  BY <1>1, OwnStep
<1>3. export.pc = "gate"
  BY DEF ExportGate
<1>4. ExportRead /\ ExportGated
  BY <1>3 DEF ExportInv, Idle
<1>5. export' = [pc |-> "bundle", stamp |-> export.stamp, revs |-> export.revs,
                 all |-> export.all, counts |-> export.counts, truth |-> export.truth,
                 eligible |-> Eligible, todo |-> export.all, rows |-> <<>>, evidence |-> <<>>]
  BY DEF ExportGate, Eligible
<1>6. DOMAIN <<>> = {} /\ <<>> = [l \in DOMAIN <<>> |-> <<>>[l]]
  OBVIOUS
<1> HIDE DEF Eligible
<1>7. /\ export'.pc = "bundle" /\ export'.stamp = export.stamp /\ export'.revs = export.revs
      /\ export'.all = export.all /\ export'.counts = export.counts /\ export'.truth = export.truth
      /\ export'.eligible = Eligible /\ export'.todo = export.all /\ export'.rows = <<>>
      /\ export'.evidence = <<>>
      /\ export' = [pc |-> export'.pc, stamp |-> export'.stamp, revs |-> export'.revs,
                    all |-> export'.all, counts |-> export'.counts, truth |-> export'.truth,
                    eligible |-> export'.eligible, todo |-> export'.todo,
                    rows |-> export'.rows, evidence |-> export'.evidence]
  BY <1>5
<1>8. ExportRead'
  BY <1>2, <1>4, <1>7 DEF ExportRead
<1>9. Truth' /\ ExportShape'
  BY <1>4, <1>6, <1>7 DEF ExportGated, Truth, ExportShape
<1>10. Steady' => TruthClean'
  BY <1>2, <1>4, <1>7 DEF ExportGated, TruthClean, Steady
<1>11. \A l \in export.all : Still(l)' => export.truth.rows[l] = layer[l].rows
  BY <1>2, <1>4, <1>7 DEF ExportGated, Still
<1>12. Steady' /\ (\A l \in export.all : Still(l)') => Eligible = export.truth.eligible
  BY <1>2, <1>4, <1>7 DEF ExportGated, Still, Steady
<1>13. ExportBundled'
  BY <1>2, <1>6, <1>7, <1>9, <1>10, <1>11, <1>12 DEF ExportBundled
<1> QED BY <1>7, <1>8, <1>13 DEF ExportInv

Fields == {"pc", "stamp", "revs", "all", "counts", "truth", "eligible", "todo", "rows", "evidence"}

\* A step that only writes fields of the export leaves it a record of the same fields.
LEMMA StillRecord ==
    ASSUME NEW e, DOMAIN e = Fields, e = [x \in Fields |-> e[x]]
    PROVE  e = [pc |-> e.pc, stamp |-> e.stamp, revs |-> e.revs, all |-> e.all,
                counts |-> e.counts, truth |-> e.truth, eligible |-> e.eligible,
                todo |-> e.todo, rows |-> e.rows, evidence |-> e.evidence]
BY DEF Fields

LEMMA FieldsOf == ASSUME ExportShape PROVE DOMAIN export = Fields
BY DEF ExportShape, Fields

LEMMA BundleExport ==
    ASSUME RegistryOK, ExportInv, NEW l \in Layer, ExportBundle(l)
    PROVE  ExportInv'
<1>1. Exports
  BY DEF Exports
<1>2. UNCHANGED <<layer, review, stamp>>
  BY <1>1, OwnStep
<1>3. export.pc = "bundle" /\ l \in export.todo
  BY DEF ExportBundle
<1>4. ExportRead /\ ExportBundled
  BY <1>3 DEF ExportInv, Idle
<1>5. CASE layer[l].gone
  BY <1>5 DEF ExportBundle, ExportInv
<1>6. CASE ~layer[l].gone
  <2> DEFINE rows == [k \in DOMAIN export.rows \cup {l} |->
                         IF k = l THEN layer[l].rows ELSE export.rows[k]]
  <2>1. export' = [export EXCEPT !.pc = "evidence", !.todo = export.todo \ {l}, !.rows = rows]
    BY <1>6 DEF ExportBundle
  <2>2. /\ DOMAIN rows = DOMAIN export.rows \cup {l} /\ rows[l] = layer[l].rows
        /\ \A k \in DOMAIN export.rows : k # l => rows[k] = export.rows[k]
        /\ rows = [k \in DOMAIN rows |-> rows[k]]
    OBVIOUS
  <2> HIDE DEF rows
  <2>3. DOMAIN export = Fields
    BY <1>4, FieldsOf DEF ExportBundled
  <2>4. /\ export'.pc = "evidence" /\ export'.todo = export.todo \ {l} /\ export'.rows = rows
        /\ export'.stamp = export.stamp /\ export'.revs = export.revs /\ export'.all = export.all
        /\ export'.counts = export.counts /\ export'.truth = export.truth
        /\ export'.eligible = export.eligible /\ export'.evidence = export.evidence
        /\ DOMAIN export' = Fields /\ export' = [x \in Fields |-> export'[x]]
    BY <2>1, <2>3 DEF Fields
  <2>5. /\ Truth /\ ExportShape /\ DOMAIN export.revs = export.all
        /\ DOMAIN export.rows = export.all \ export.todo
        /\ DOMAIN export.evidence = DOMAIN export.rows
        /\ export.todo \subseteq export.all
    BY <1>3, <1>4 DEF ExportBundled, Truth, ExportShape
  <2>6. ExportRead'
    BY <1>2, <1>4, <2>4 DEF ExportRead
  <2>7. Truth'
    BY <2>4, <2>5 DEF Truth
  <2>8. ExportShape'
    <3>1. export'.todo \subseteq export'.all
      BY <2>4, <2>5
    <3>2. export'.evidence = [k \in DOMAIN export'.evidence |-> export'.evidence[k]]
      BY <2>4, <2>5 DEF ExportShape
    <3> QED BY <2>2, <2>4, <3>1, <3>2, StillRecord DEF ExportShape
  <2>9. /\ DOMAIN export'.rows = export'.all \ export'.todo
        /\ l \in DOMAIN export'.rows /\ DOMAIN export'.evidence = DOMAIN export'.rows \ {l}
    BY <1>3, <2>2, <2>4, <2>5
  <2>10. Steady' => TruthClean'
    BY <1>2, <1>4, <2>4 DEF ExportBundled, TruthClean, Steady
  <2>11. ASSUME NEW k \in export.all, Still(k)'
         PROVE  /\ export'.truth.rows[k] = layer'[k].rows
                /\ k \in DOMAIN export'.rows => export'.rows[k] = export'.truth.rows[k]
                /\ k \in DOMAIN export'.evidence => export'.evidence[k] = export'.truth.rows[k]
    <3>1. Still(k)
      BY <1>2, <2>4, <2>11 DEF Still
    <3>2. /\ export.truth.rows[k] = layer[k].rows
          /\ k \in DOMAIN export.rows => export.rows[k] = export.truth.rows[k]
          /\ k \in DOMAIN export.evidence => export.evidence[k] = export.truth.rows[k]
      BY <1>4, <3>1 DEF ExportBundled
    <3> QED BY <1>2, <2>2, <2>4, <3>2
  <2>12. Steady' /\ (\A k \in export'.all : Still(k)') => export'.eligible = export'.truth.eligible
    BY <1>2, <1>4, <2>4 DEF ExportBundled, Still, Steady
  <2>13. ExportBundled'
    BY <2>4, <2>7, <2>8, <2>9, <2>10, <2>11, <2>12 DEF ExportBundled
  <2> QED BY <2>4, <2>6, <2>13 DEF ExportInv
<1> QED BY <1>5, <1>6

LEMMA EvidenceExport ==
    ASSUME RegistryOK, ExportInv, NEW l \in Layer, ExportEvidence(l)
    PROVE  ExportInv'
<1>1. Exports
  BY DEF Exports
<1>2. UNCHANGED <<layer, review, stamp>>
  BY <1>1, OwnStep
<1>3. export.pc = "evidence" /\ l \in DOMAIN export.rows \ DOMAIN export.evidence
  BY DEF ExportEvidence
<1>4. ExportRead /\ ExportBundled
  BY <1>3 DEF ExportInv, Idle
<1>5. CASE layer[l].gone
  BY <1>5 DEF ExportEvidence, ExportInv
<1>6. CASE ~layer[l].gone
  <2> DEFINE rows == [k \in DOMAIN export.evidence \cup {l} |->
                         IF k = l THEN layer[l].rows ELSE export.evidence[k]]
  <2>1. export' = [export EXCEPT !.pc = "bundle", !.evidence = rows]
    BY <1>6 DEF ExportEvidence
  <2>2. /\ DOMAIN rows = DOMAIN export.evidence \cup {l} /\ rows[l] = layer[l].rows
        /\ \A k \in DOMAIN export.evidence : k # l => rows[k] = export.evidence[k]
        /\ rows = [k \in DOMAIN rows |-> rows[k]]
    OBVIOUS
  <2> HIDE DEF rows
  <2>3. DOMAIN export = Fields
    BY <1>4, FieldsOf DEF ExportBundled
  <2>4. /\ export'.pc = "bundle" /\ export'.todo = export.todo /\ export'.rows = export.rows
        /\ export'.stamp = export.stamp /\ export'.revs = export.revs /\ export'.all = export.all
        /\ export'.counts = export.counts /\ export'.truth = export.truth
        /\ export'.eligible = export.eligible /\ export'.evidence = rows
        /\ DOMAIN export' = Fields /\ export' = [x \in Fields |-> export'[x]]
    BY <2>1, <2>3 DEF Fields
  <2>5. /\ Truth /\ ExportShape /\ DOMAIN export.rows = export.all \ export.todo
    BY <1>3, <1>4 DEF ExportBundled
  <2>6. PICK k \in DOMAIN export.rows : DOMAIN export.evidence = DOMAIN export.rows \ {k}
    BY <1>3, <1>4 DEF ExportBundled
  <2>7. DOMAIN export'.evidence = DOMAIN export'.rows
    BY <1>3, <2>2, <2>4, <2>6
  <2>8. ExportRead'
    BY <1>2, <1>4, <2>4 DEF ExportRead
  <2>9. Truth'
    BY <2>4, <2>5 DEF Truth
  <2>10. ExportShape'
    <3>1. export'.todo \subseteq export'.all
      BY <2>4, <2>5 DEF ExportShape
    <3>2. export'.rows = [x \in DOMAIN export'.rows |-> export'.rows[x]]
      BY <2>4, <2>5 DEF ExportShape
    <3> QED BY <2>2, <2>4, <3>1, <3>2, StillRecord DEF ExportShape
  <2>11. Steady' => TruthClean'
    BY <1>2, <1>4, <2>4 DEF ExportBundled, TruthClean, Steady
  <2>12. ASSUME NEW x \in export.all, Still(x)'
         PROVE  /\ export'.truth.rows[x] = layer'[x].rows
                /\ x \in DOMAIN export'.rows => export'.rows[x] = export'.truth.rows[x]
                /\ x \in DOMAIN export'.evidence => export'.evidence[x] = export'.truth.rows[x]
    <3>1. Still(x)
      BY <1>2, <2>4, <2>12 DEF Still
    <3>2. /\ export.truth.rows[x] = layer[x].rows
          /\ x \in DOMAIN export.rows => export.rows[x] = export.truth.rows[x]
          /\ x \in DOMAIN export.evidence => export.evidence[x] = export.truth.rows[x]
      BY <1>4, <3>1 DEF ExportBundled
    <3> QED BY <1>2, <2>2, <2>4, <3>2
  <2>13. Steady' /\ (\A x \in export'.all : Still(x)') => export'.eligible = export'.truth.eligible
    BY <1>2, <1>4, <2>4 DEF ExportBundled, Still, Steady
  <2>14. ExportBundled'
    BY <2>4, <2>5, <2>7, <2>9, <2>10, <2>11, <2>12, <2>13 DEF ExportBundled
  <2> QED BY <2>4, <2>8, <2>14 DEF ExportInv
<1> QED BY <1>5, <1>6

\* The registry has not moved: what was read of it holds for all layers that have not.
LEMMA RegistryFence ==
    ASSUME RegistryOK, ExportInv, FenceRegistry
    PROVE  ExportInv'
<1>1. Exports
  BY DEF Exports
<1>2. UNCHANGED <<layer, review, stamp>>
  BY <1>1, OwnStep
<1>3. export.pc = "bundle" /\ export.todo = {}
  BY DEF FenceRegistry
<1>4. ExportRead /\ ExportBundled
  BY <1>3 DEF ExportInv, Idle
<1>5. CASE export.stamp # stamp
  BY <1>5 DEF FenceRegistry, ExportInv
<1>6. CASE export.stamp = stamp
  <2>1. export' = [export EXCEPT !.pc = "fence", !.todo = export.all]
    BY <1>6 DEF FenceRegistry
  <2>2. DOMAIN export = Fields
    BY <1>4, FieldsOf DEF ExportBundled
  <2>3. /\ export'.pc = "fence" /\ export'.todo = export.all /\ export'.rows = export.rows
        /\ export'.stamp = export.stamp /\ export'.revs = export.revs /\ export'.all = export.all
        /\ export'.counts = export.counts /\ export'.truth = export.truth
        /\ export'.eligible = export.eligible /\ export'.evidence = export.evidence
        /\ DOMAIN export' = Fields /\ export' = [x \in Fields |-> export'[x]]
    BY <2>1, <2>2 DEF Fields
  <2>4. ExportRead'
    BY <1>2, <1>4, <2>3 DEF ExportRead
  <2>5. /\ Truth /\ TruthClean /\ ExportShape
        /\ DOMAIN export.rows = export.all /\ DOMAIN export.evidence = export.all
    BY <1>3, <1>4, <1>6 DEF ExportBundled, Steady
  <2>6. Truth'
    BY <2>3, <2>5 DEF Truth
  <2>7. TruthClean'
    BY <1>2, <2>3, <2>5 DEF TruthClean
  <2>8. ExportShape'
    <3>1. /\ export'.rows = [x \in DOMAIN export'.rows |-> export'.rows[x]]
          /\ export'.evidence = [x \in DOMAIN export'.evidence |-> export'.evidence[x]]
      BY <2>3, <2>5 DEF ExportShape
    <3> QED BY <2>3, <3>1, StillRecord DEF ExportShape
  <2>9. \A l \in export.all : Still(l)' =>
            export.rows[l] = export.truth.rows[l] /\ export.evidence[l] = export.truth.rows[l]
    BY <1>2, <1>4, <2>3, <2>5 DEF ExportBundled, Still
  <2>10. (\A l \in export.all : Still(l)') => export.eligible = export.truth.eligible
    BY <1>2, <1>4, <1>6, <2>3 DEF ExportBundled, Still, Steady
  <2>11. ExportFenced'
    BY <2>3, <2>5, <2>6, <2>7, <2>8, <2>9, <2>10 DEF ExportFenced
  <2> QED BY <2>3, <2>4, <2>11 DEF ExportInv
<1> QED BY <1>5, <1>6

\* A layer with the revision the export has read is as the export has found it.
LEMMA LayerFence ==
    ASSUME RegistryOK, ExportInv, NEW l \in Layer, FenceLayer(l)
    PROVE  ExportInv'
<1>1. Exports
  BY DEF Exports
<1>2. UNCHANGED <<layer, review, stamp>>
  BY <1>1, OwnStep
<1>3. export.pc = "fence" /\ l \in export.todo
  BY DEF FenceLayer
<1>4. ExportRead /\ ExportFenced
  BY <1>3 DEF ExportInv, Idle
<1>5. CASE Revision(l) # export.revs[l]
  BY <1>5 DEF FenceLayer, ExportInv
<1>6. CASE Revision(l) = export.revs[l]
  <2>1. export' = [export EXCEPT !.todo = export.todo \ {l}]
    BY <1>6 DEF FenceLayer
  <2>2. DOMAIN export = Fields
    BY <1>4, FieldsOf DEF ExportFenced
  <2>3. /\ export'.pc = "fence" /\ export'.todo = export.todo \ {l} /\ export'.rows = export.rows
        /\ export'.stamp = export.stamp /\ export'.revs = export.revs /\ export'.all = export.all
        /\ export'.counts = export.counts /\ export'.truth = export.truth
        /\ export'.eligible = export.eligible /\ export'.evidence = export.evidence
        /\ DOMAIN export' = Fields /\ export' = [x \in Fields |-> export'[x]]
    BY <1>3, <2>1, <2>2 DEF Fields
  <2>4. ExportRead'
    BY <1>2, <1>4, <2>3 DEF ExportRead
  <2>5. /\ Truth /\ TruthClean /\ ExportShape /\ export.todo \subseteq export.all
        /\ DOMAIN export.rows = export.all /\ DOMAIN export.evidence = export.all
        /\ DOMAIN export.revs = export.all
    BY <1>4 DEF ExportFenced, ExportShape, Truth
  <2>6. Still(l)
    <3>1. export.revs[l] \in Nat
      BY <1>3, <1>4, <2>5 DEF ExportRead
    <3> QED BY <1>6, <3>1 DEF Revision, Still
  <2>7. \A k : Still(k)' <=> Still(k)
    BY <1>2, <2>3 DEF Still
  <2>8. Truth'
    BY <2>3, <2>5 DEF Truth
  <2>9. TruthClean'
    BY <1>2, <2>3, <2>5 DEF TruthClean
  <2>10. ExportShape'
    <3>1. /\ export'.rows = [x \in DOMAIN export'.rows |-> export'.rows[x]]
          /\ export'.evidence = [x \in DOMAIN export'.evidence |-> export'.evidence[x]]
      BY <2>3, <2>5 DEF ExportShape
    <3> QED BY <2>3, <2>5, <3>1, StillRecord DEF ExportShape
  <2>11. ASSUME NEW k \in export.all, k \in export.todo \ {l} => Still(k)
         PROVE  export.rows[k] = export.truth.rows[k] /\ export.evidence[k] = export.truth.rows[k]
    <3>1. k \in export.todo => Still(k)
      BY <2>6, <2>11
    <3> QED BY <1>4, <3>1 DEF ExportFenced
  <2>12. ASSUME \A k \in export.todo \ {l} : Still(k)
         PROVE  export.eligible = export.truth.eligible
    <3>1. \A k \in export.todo : Still(k)
      BY <2>6, <2>12
    <3> QED BY <1>4, <3>1 DEF ExportFenced
  <2>13. ExportFenced'
    BY <2>3, <2>5, <2>7, <2>8, <2>9, <2>10, <2>11, <2>12 DEF ExportFenced
  <2> QED BY <2>3, <2>4, <2>13 DEF ExportInv
<1> QED BY <1>5, <1>6

LEMMA ServeExport ==
    ASSUME RegistryOK, ExportInv, Serve
    PROVE  ExportInv'
<1>1. Exports
  BY DEF Exports
<1>2. UNCHANGED <<layer, review, stamp>>
  BY <1>1, OwnStep
<1>3. export.pc = "fence" /\ export.todo = {}
  BY DEF Serve
<1>4. ExportRead /\ ExportFenced
  BY <1>3 DEF ExportInv, Idle
<1>5. export' = [export EXCEPT !.pc = "served"]
  BY DEF Serve
<1>6. DOMAIN export = Fields
  BY <1>4, FieldsOf DEF ExportFenced
<1>7. /\ export'.pc = "served" /\ export'.todo = {} /\ export'.rows = export.rows
      /\ export'.stamp = export.stamp /\ export'.revs = export.revs /\ export'.all = export.all
      /\ export'.counts = export.counts /\ export'.truth = export.truth
      /\ export'.eligible = export.eligible /\ export'.evidence = export.evidence
      /\ DOMAIN export' = Fields /\ export' = [x \in Fields |-> export'[x]]
  BY <1>3, <1>5, <1>6 DEF Fields
<1>8. ExportRead'
  BY <1>2, <1>4, <1>7 DEF ExportRead
<1>9. Truth' /\ TruthClean'
  BY <1>2, <1>4, <1>7 DEF ExportFenced, Truth, TruthClean
<1>10. ExportShape'
  <2>1. /\ export'.rows = [x \in DOMAIN export'.rows |-> export'.rows[x]]
        /\ export'.evidence = [x \in DOMAIN export'.evidence |-> export'.evidence[x]]
    BY <1>4, <1>7 DEF ExportFenced, ExportShape
  <2> QED BY <1>7, <2>1, StillRecord DEF ExportShape
<1>11. ExportFenced'
  BY <1>3, <1>4, <1>7, <1>9, <1>10 DEF ExportFenced
<1> QED BY <1>7, <1>8, <1>11 DEF ExportInv

LEMMA ExportStep ==
    ASSUME RegistryOK, MemoryInv, StoredInv, ExportInv, GateNext
    PROVE  ExportInv'
<1>1. CASE Exports
  BY <1>1, BeginExport, LayerExport, CountsExport, GateExport, BundleExport, EvidenceExport,
     RegistryFence, LayerFence, ServeExport DEF Exports
<1>2. CASE ~Exports
  BY <1>2, OthersKeepExport
<1> QED BY <1>1, <1>2

-------------------------------------------------------------------------------
(* The specification. *)

LEMMA InitInv == ASSUME GateInit PROVE IndInv
<1>1. RegistryOK
  <2>1. layer = [l \in Layer |-> [rev |-> 1, rows |-> [f \in Feature |-> NoRow], gone |-> FALSE]]
    BY DEF GateInit
  <2>2. layer \in [Layer -> [rev : Nat, rows : [Feature -> RowLooks \cup {NoRow}], gone : BOOLEAN]]
    BY <2>1
  <2>3. PICK c \in Filters, s \in SUBSET Layer, st \in {"draft", "active"} :
            review = [status |-> st, scope |-> s, classes |-> c, snapshot |-> NoSnapshot]
    BY DEF GateInit
  <2>4. /\ review = [status |-> review.status, scope |-> review.scope,
                     classes |-> review.classes, snapshot |-> review.snapshot]
        /\ review.status \in Statuses /\ review.scope \subseteq Layer
        /\ review.classes \in Filters
    BY <2>3 DEF Statuses
  <2>5. /\ ticket = [t \in Ticket |-> NoTicket] /\ creating = {} /\ loaded = FALSE
        /\ stamp = 0 /\ filtered = 0
    BY DEF GateInit
  <2>6. ticket \in [Ticket -> {NoTicket} \cup [status : {"todo", "in_progress", "done"},
                                               target : Layer \cup {NoTarget}]]
    BY <2>5
  <2>7. creating \subseteq Ticket \X (Layer \cup {NoTarget})
    BY <2>5
  <2>8. stamp \in Nat /\ filtered \in Nat /\ filtered <= stamp /\ loaded \in BOOLEAN
    <3>1. stamp = 0 /\ filtered = 0 /\ loaded \in BOOLEAN
      BY <2>5, Zenon
    <3> QED BY <3>1
  <2>9. DOMAIN layer = Layer
    BY <2>1
  <2> QED BY <2>2, <2>4, <2>6, <2>7, <2>8, <2>9, Zenon DEF RegistryOK
<1>2. \A l \in Layer : Recollections(l) = {}
  BY DEF GateInit, Recollections, Idle
<1>3. MemoryInv
  BY <1>2 DEF MemoryInv
<1>4. QaInv /\ ClosingInv /\ ExportInv
  BY DEF GateInit, QaInv, ClosingInv, ExportInv
<1>5. StoredInv /\ CompletedIsClean
  <2>1. issues = {} /\ DOMAIN examined = {} /\ DOMAIN approved = {} /\ review.snapshot = NoSnapshot
    BY DEF GateInit
  <2> QED BY <2>1 DEF StoredInv, CompletedIsClean
<1>6. JudgedInv
  <2>1. judged = [classes |-> review.classes, since |-> 0] /\ stamp = 0
    BY DEF GateInit
  <2> QED BY <2>1 DEF JudgedInv, JudgedAsFiltered
<1> QED BY <1>1, <1>3, <1>4, <1>5, <1>6 DEF IndInv

LEMMA InvStutters == ASSUME IndInv, UNCHANGED gateVars PROVE IndInv'
<1>1. RegistryOK' /\ MemoryInv'
  BY DEF IndInv, gateVars, RegistryOK, MemoryInv, Recollections, Suits, AllUsable, InScope, Usable
<1>2. QaInv' /\ StoredInv' /\ JudgedInv' /\ ClosingInv'
  BY DEF IndInv, gateVars, QaInv, QaOK, StoredInv, JudgedInv, JudgedAsFiltered, ClosingInv
<1>3. CompletedIsClean'
  BY DEF IndInv, gateVars, CompletedIsClean
<1>4. UNCHANGED <<export, layer, stamp, review, issues, ticket>> /\ ExportInv
  BY DEF IndInv, gateVars
<1>5. Effective' = Effective /\ Eligible' = Eligible
  BY <1>4 DEF Eligible, Blocked, Effective, Revision
<1>6. /\ ExportRead' <=> ExportRead
      /\ \A l : Still(l)' <=> Still(l)
      /\ Steady' <=> Steady
      /\ Truth' <=> Truth
      /\ TruthClean' <=> TruthClean
      /\ ExportShape' <=> ExportShape
  BY <1>4 DEF ExportRead, Still, Steady, Truth, TruthClean, ExportShape
<1>7. ExportLayers => ExportLayers'
  BY <1>4, <1>5, <1>6 DEF ExportLayers
<1>8. ExportGated => ExportGated'
  BY <1>4, <1>5, <1>6 DEF ExportGated
<1>9. ExportBundled => ExportBundled'
  BY <1>4, <1>6 DEF ExportBundled
<1>10. ExportFenced => ExportFenced'
  BY <1>4, <1>6 DEF ExportFenced
<1>11. ExportInv'
  BY <1>4, <1>6, <1>7, <1>8, <1>9, <1>10 DEF ExportInv
<1> QED BY <1>1, <1>2, <1>3, <1>11 DEF IndInv

\* The registry, what is remembered of the layers, the requests on their way, the stored QA
\* run and an export fit together in every state that is reached.
THEOREM Invariance == GateSpec => []IndInv
<1>1. ASSUME IndInv, GateNext PROVE IndInv'
  BY <1>1, RegistryStep, MemoryStep, QaStep, StoredStep, JudgedStep, ClosingStep,
     ClosedStep, ExportStep DEF IndInv
<1>2. IndInv /\ [GateNext]_gateVars => IndInv'
  BY <1>1, InvStutters
<1> QED BY <1>2, InitInv, PTL DEF GateSpec

\* A served export is of one moment; and if its report calls the session eligible for
\* completion, all of its rows of the classes that QA looked at are usable.
LEMMA ServedIsSound == ASSUME IndInv PROVE ExportIsOneMoment /\ EligibleIsClean
<1> SUFFICES ASSUME export.pc = "served"
             PROVE  /\ export.counts = export.truth.counts
                    /\ export.eligible = export.truth.eligible
                    /\ export.rows = export.truth.rows
                    /\ export.evidence = export.truth.rows
                    /\ export.eligible =>
                         \A l \in export.all : AllUsable(export.rows[l], export.truth.classes)
  BY DEF ExportIsOneMoment, EligibleIsClean
<1>1. ExportFenced
  BY DEF IndInv, ExportInv, Idle
<1>2. /\ export.todo = {} /\ Truth /\ TruthClean /\ ExportShape
      /\ DOMAIN export.rows = export.all /\ DOMAIN export.evidence = export.all
  BY <1>1 DEF ExportFenced
<1>3. /\ \A l \in export.all :
            export.rows[l] = export.truth.rows[l] /\ export.evidence[l] = export.truth.rows[l]
      /\ export.eligible = export.truth.eligible
  BY <1>1, <1>2 DEF ExportFenced
<1>4. export.rows = [l \in export.all |-> export.truth.rows[l]]
  BY <1>2, <1>3 DEF ExportShape
<1>5. export.evidence = [l \in export.all |-> export.truth.rows[l]]
  BY <1>2, <1>3 DEF ExportShape
<1>6. export.truth.rows = [l \in export.all |-> export.truth.rows[l]]
      /\ export.counts = export.truth.counts
  BY <1>2 DEF Truth
<1>7. ASSUME export.eligible, NEW l \in export.all
      PROVE  AllUsable(export.rows[l], export.truth.classes)
  BY <1>2, <1>3, <1>7 DEF TruthClean
<1> QED BY <1>3, <1>4, <1>5, <1>6, <1>7

\* Completion, QA and the exports of a review session are sound, however edits, requests,
\* tasks and changes of the filters overlap: a completed session was clean when its QA run
\* and its completion looked, in the classes of that run, which are those of the session
\* unless its filters were changed afterwards; and a served export is one moment of the
\* session (qa.py, review_reports.py, review_tasks.py, store.py).
THEOREM GateSafety == GateSpec => []GateSound
<1>1. IndInv => GateSound
  BY ServedIsSound DEF IndInv, JudgedInv, GateSound
<1> QED BY <1>1, Invariance, PTL

-------------------------------------------------------------------------------
(* The inductive invariant of the index and its readers. *)

Triples == Sheet \X Object \X BOOLEAN
Inner == {"layer", "check", "mark", "build", "revision", "rows", "tombs"}
Pcs == {"idle", "visit", "answer", "answered"} \cup Inner
Verdicts ==
    {NoStatus, "matched", "ambiguous", "unavailable", "deleted", "not_found", "hidden",
     "shown", "error"}

Verdict ==
    CASE asked.kind = "detection" -> Resolution(asked)
      [] asked.kind = "support" -> SupportResolution(asked)
      [] OTHER -> BoxResolution(asked)

Sources == Sheet \cup {Origin[s] : s \in Sheet}
SomeLayers == SUBSET DOMAIN Overlays
SomePlaces == SUBSET (Sheet \X Object)
SomeItems == SUBSET [at : Sheet \X Object, pole : BOOLEAN, revision : Nat, seen : Nat]
AskedType ==
    [pc : Pcs, kind : {"detection", "support", "boxes"}, id : Identifier, source : Sources,
     todo : SomeLayers, leaf : Nat, entries : Nat, points : Nat, builds : Nat,
     check : {"need", "ensure", "read"}, saw : Nat, phase : {"rows", "tombs"}, revision : Nat,
     linked : SomePlaces, items : SomeItems, graves : SomePlaces, complete : BOOLEAN,
     status : Verdicts]

LinkTypes ==
    /\ features \in [Sheet -> Stores]
    /\ folder \in [Sheet -> {"absent", "here", "hidden", "gone"}]
    /\ writes \in Nat
    /\ asked \in AskedType
    /\ held \in [calm : BOOLEAN, steady : SUBSET Triples, ever : SUBSET Triples, graves : SUBSET Sheet]

StoreInv == \A s \in Sheet : Sound(features[s])

\* The history holds what is true now.
HeldInv ==
    asked.pc # "idle" =>
        /\ held.steady \subseteq Carriers(asked) /\ Bearers(asked) \subseteq held.ever
        /\ held.graves \subseteq Graves(asked)
        /\ held.calm => held.steady = Carriers(asked)

PlaceInv ==
    /\ \A k \in asked.todo : folder[Overlays[k]] # "absent"
    /\ asked.kind = "support" => asked.phase = "rows"
    /\ asked.pc = "visit" /\ asked.phase = "tombs" => asked.leaf \notin asked.todo
    /\ asked.pc \in Inner =>
        /\ asked.leaf \in asked.todo /\ Concerns(Leaf, asked)
        /\ Bearing(Leaf, asked) \subseteq held.ever
        /\ held.calm => folder[Leaf] = "here" /\ Counting(Leaf, asked)
        /\ asked.pc = "layer" => asked.kind = "boxes" /\ asked.phase = "rows" /\ asked.check = "ensure"
        /\ asked.pc \in {"revision", "rows"} => asked.phase = "rows"
        /\ asked.pc = "tombs" => asked.phase = "tombs"
        /\ asked.kind = "boxes" => asked.check # "need"
        /\ asked.pc = "mark" /\ held.calm => asked.saw = features[Leaf].revision
        /\ asked.pc \in {"check", "mark"} /\ asked.check = "read" => features[Leaf].indexed
        /\ asked.pc \in {"revision", "rows", "tombs"} => features[Leaf].indexed
        /\ asked.pc = "rows" => asked.revision <= features[Leaf].revision

\* The layers whose rows are still to be read.
Pending == IF asked.phase = "tombs" THEN asked.todo \ {asked.leaf} ELSE asked.todo

Carried(i) == <<i.at[1], i.at[2], i.pole>>

FoundInv ==
    /\ asked.linked \subseteq Rows(held.ever)
    /\ \A i \in asked.items :
        /\ Carried(i) \in held.ever /\ i.revision <= i.seen
        /\ held.calm => Carried(i) \in held.steady
        /\ \A k \in Pending : Overlays[k] # i.at[1]
        /\ \A j \in asked.items : i.at = j.at => i = j

CoverInv ==
    asked.pc # "idle" /\ asked.complete /\ asked.id # Zero =>
        /\ \A c \in held.steady :
            \/ \E k \in Pending : Overlays[k] = c[1]
            \/ \E i \in asked.items : Carried(i) = c
        /\ asked.kind # "support" => \A g \in held.graves :
            \/ \E k \in asked.todo : Overlays[k] = g
            \/ \E t \in asked.graves : t[1] = g

EndInv ==
    /\ asked.pc = "answer" => ~asked.complete
    /\ asked.pc = "answered" => asked.status = Verdict /\ (asked.complete => asked.todo = {})
    /\ asked.kind = "boxes" /\ ~asked.complete /\ asked.items = {} =>
        asked.pc \in {"answer", "answered"} /\ asked.todo # {}

Excused ==
    \/ \E s \in Sheet : folder[s] # "here"
    \/ asked.entries > MaxEntries \/ asked.points >= MaxPoints
    \/ asked.builds > MaxMigrations
    \/ Cardinality(held.steady) > MaxCandidates \/ Cardinality(held.steady) > MaxSupported

ReasonInv == held.calm /\ ~asked.complete => Excused

IdleInv == asked.pc = "idle" => asked = Coming(asked)

LinkInv ==
    /\ LinkTypes /\ StoreInv /\ HeldInv /\ PlaceInv /\ FoundInv /\ CoverInv /\ EndInv
    /\ ReasonInv /\ IdleInv

-------------------------------------------------------------------------------
(* What the triggers keep. *)

RowsType == [Object -> FeatureRows \cup {NoRecord}]
Mirror(refs, rows) == {r \in AllRefs(rows) : r[2] # Zero} \subseteq refs /\ refs \subseteq AllRefs(rows)

LEMMA LiveFacts ==
    ASSUME NEW rows \in RowsType
    PROVE  /\ LiveIn(rows) \subseteq Object
           /\ \A x \in Object : x \in LiveIn(rows) <=> rows[x] \in FeatureRows /\ rows[x].live
<1> QED BY NoRecordIsNone DEF LiveIn, RowsType

\* The references of a row name its feature.
LEMMA RefsNameRows ==
    ASSUME NEW x, NEW row, NEW r \in RefsOf(x, row)
    PROVE  r[3] = x /\ r[4] \in {"property", "provenance"}
<1> QED BY DEF RefsOf, PropertyRefs, ProvenanceRefs

LEMMA AllRefsOf ==
    ASSUME NEW rows \in RowsType, NEW r
    PROVE  r \in AllRefs(rows) <=> \E x \in LiveIn(rows) : r \in RefsOf(x, rows[x])
<1> QED BY DEF AllRefs

\* An edit of one row that replaces its references leaves the index as faithful as it was.
LEMMA MirrorEdit ==
    ASSUME NEW rows \in RowsType, NEW refs, Mirror(refs, rows),
           NEW x \in Object, NEW row \in FeatureRows, NEW new,
           \A r \in refs : r[3] # x => r \in new,
           \A r \in new : IF r[3] # x THEN r \in refs ELSE row.live /\ r \in RefsOf(x, row),
           row.live => \A r \in RefsOf(x, row) : r[2] # Zero => r \in new
    PROVE  [rows EXCEPT ![x] = row] \in RowsType /\ Mirror(new, [rows EXCEPT ![x] = row])
<1> DEFINE after == [rows EXCEPT ![x] = row]
<1>1. after \in RowsType
  BY DEF RowsType
<1>2. \A y \in Object : after[y] = IF y = x THEN row ELSE rows[y]
  BY DEF RowsType
<1>3. \A y \in Object : y \in LiveIn(after) <=> IF y = x THEN row.live ELSE y \in LiveIn(rows)
  <2> HIDE DEF after
  <2>1. \A y \in Object : y \in LiveIn(after) <=> after[y] \in FeatureRows /\ after[y].live
    BY <1>1, LiveFacts
  <2>2. \A y \in Object : y \in LiveIn(rows) <=> rows[y] \in FeatureRows /\ rows[y].live
    BY LiveFacts
  <2> QED BY <1>2, <2>1, <2>2
<1> HIDE DEF after
<1>4. LiveIn(after) \subseteq Object /\ LiveIn(rows) \subseteq Object
  BY <1>1, LiveFacts
<1>5. ASSUME NEW r \in AllRefs(after), r[2] # Zero PROVE r \in new
  <2>1. PICK y \in LiveIn(after) : r \in RefsOf(y, after[y])
    BY <1>1, AllRefsOf
  <2>2. y \in Object /\ r[3] = y
    BY <1>4, <2>1, RefsNameRows
  <2>3. CASE y = x
    BY <1>2, <1>3, <1>5, <2>1, <2>2, <2>3
  <2>4. CASE y # x
    <3>1. r \in AllRefs(rows)
      BY <1>2, <1>3, <2>1, <2>2, <2>4, AllRefsOf
    <3> QED BY <1>5, <2>2, <2>4, <3>1 DEF Mirror
  <2> QED BY <2>3, <2>4
<1>6. ASSUME NEW r \in new PROVE r \in AllRefs(after)
  <2>1. CASE r[3] = x
    BY <1>1, <1>2, <1>3, <1>6, <2>1, AllRefsOf
  <2>2. CASE r[3] # x
    <3>1. PICK y \in LiveIn(rows) : r \in RefsOf(y, rows[y])
      BY <1>6, <2>2, AllRefsOf DEF Mirror
    <3>2. y \in Object /\ y # x
      BY <1>4, <2>2, <3>1, RefsNameRows
    <3> QED BY <1>1, <1>2, <1>3, <3>1, <3>2, AllRefsOf
  <2> QED BY <2>1, <2>2
<1>7. Mirror(new, after)
  BY <1>5, <1>6 DEF Mirror
<1> QED BY <1>1, <1>7 DEF after

\* The parts of a sound store.
LEMMA SoundParts ==
    ASSUME NEW store
    PROVE  Sound(store) <=>
             /\ store \in Stores
             /\ store.indexed => store.mark = store.revision /\ Mirror(store.refs, store.rows)
             /\ \A i \in store.buried \ {Zero} : \E x \in Object : <<i, x>> \in store.tombs
<1>1. store \in Stores => RebuildIndex(store).refs = {r \in AllRefs(store.rows) : r[2] # Zero}
  BY DEF RebuildIndex, Stores
<1> QED BY <1>1 DEF Sound, Mirror

\* References have types when rows have.
LEMMA RefTypes ==
    ASSUME NEW rows \in RowsType
    PROVE  AllRefs(rows) \subseteq
             {"detection", "support"} \X Identifier \X Object \X {"property", "provenance"}
<1> SUFFICES ASSUME NEW x \in LiveIn(rows)
    PROVE RefsOf(x, rows[x]) \subseteq
            {"detection", "support"} \X Identifier \X Object \X {"property", "provenance"}
  BY DEF AllRefs
<1>1. x \in Object /\ rows[x] \in FeatureRows
  BY LiveFacts
<1>2. rows[x].det \subseteq Identifier /\ rows[x].sup \subseteq Identifier /\ rows[x].prov \subseteq Identifier
  BY <1>1 DEF FeatureRows
<1> QED BY <1>1, <1>2 DEF RefsOf, PropertyRefs, ProvenanceRefs

\* A store of which only rows, references and history change is made of the same parts.
LEMMA Rewritten ==
    ASSUME NEW store, Sound(store), NEW rows \in RowsType,
           NEW refs, store.indexed => Mirror(refs, rows), ~store.indexed => refs = store.refs
    PROVE  /\ [store EXCEPT !.rows = rows, !.refs = refs] \in Stores
           /\ Sound([store EXCEPT !.rows = rows, !.refs = refs])
<1> DEFINE after == [store EXCEPT !.rows = rows, !.refs = refs]
<1>1. store \in Stores
  BY DEF Sound
<1>2. refs \subseteq {"detection", "support"} \X Identifier \X Object \X {"property", "provenance"}
  <2>1. CASE store.indexed
    BY <2>1, RefTypes DEF Mirror
  <2>2. CASE ~store.indexed
    BY <1>1, <2>2 DEF Stores
  <2> QED BY <2>1, <2>2
<1>3. /\ after \in Stores
      /\ after.rows = rows /\ after.refs = refs /\ after.indexed = store.indexed
      /\ after.mark = store.mark /\ after.revision = store.revision
      /\ after.tombs = store.tombs /\ after.buried = store.buried
  BY <1>1, <1>2 DEF Stores, RowsType
<1> HIDE DEF after
<1>4. Sound(after)
  BY <1>3, SoundParts
<1> QED BY <1>3, <1>4 DEF after

\* What an edit of the rows leaves alone.
Untouched(after, store) ==
    /\ after.revision = store.revision /\ after.fields = store.fields
    /\ store.indexed => after.indexed
    /\ after.indexed => store.indexed \/ after.mark = after.revision

LEMMA UpdateSound ==
    ASSUME NEW store, Sound(store), NEW x \in Object, NEW row \in FeatureRows
    PROVE  /\ Sound(OnUpdate(store, x, row)) /\ Untouched(OnUpdate(store, x, row), store)
           /\ OnUpdate(store, x, row).rows = [store.rows EXCEPT ![x] = row]
<1> DEFINE rows == [store.rows EXCEPT ![x] = row]
           refs == Referring(store, x, {"property", "provenance"},
                             IF row.live THEN RefsOf(x, row) ELSE {})
           after == [store EXCEPT !.rows = rows, !.refs = refs]
<1>1. store \in Stores /\ store.rows \in RowsType
  BY DEF Sound, Stores, RowsType
<1>2. OnUpdate(store, x, row) = after
  BY <1>1 DEF OnUpdate, Stores
<1>3. rows \in RowsType
  BY <1>1 DEF RowsType
<1>4. ASSUME store.indexed PROVE Mirror(refs, rows)
  <2>1. Mirror(store.refs, store.rows)
    BY <1>4, SoundParts
  <2>2. refs = {r \in store.refs : r[3] # x \/ r[4] \notin {"property", "provenance"}}
                 \cup (IF row.live THEN RefsOf(x, row) ELSE {})
    BY <1>4 DEF Referring
  <2>3. \A r \in store.refs : r[4] \in {"property", "provenance"}
    BY <1>1, <2>1, AllRefsOf, RefsNameRows DEF Mirror
  <2> HIDE DEF refs
  <2>4. \A r \in store.refs : r[3] # x => r \in refs
    BY <2>2
  <2>5. \A r \in refs : IF r[3] # x THEN r \in store.refs ELSE row.live /\ r \in RefsOf(x, row)
    BY <2>2, <2>3, RefsNameRows
  <2>6. row.live => \A r \in RefsOf(x, row) : r[2] # Zero => r \in refs
    BY <2>2
  <2> QED BY <1>1, <2>1, <2>4, <2>5, <2>6, MirrorEdit
<1>5. ~store.indexed => refs = store.refs
  BY DEF Referring
<1> HIDE DEF rows, refs
<1>6. Sound(after)
  BY <1>3, <1>4, <1>5, Rewritten
<1>7. Untouched(after, store) /\ after.rows = rows
  BY <1>1 DEF Untouched, Stores
<1> QED BY <1>2, <1>6, <1>7 DEF rows

LEMMA InsertSound ==
    ASSUME NEW store, Sound(store), NEW x \in Object, store.rows[x] = NoRecord,
           NEW row \in FeatureRows, row.live, row.prov = {}
    PROVE  /\ Sound(OnInsert(store, x, row)) /\ Untouched(OnInsert(store, x, row), store)
           /\ OnInsert(store, x, row).rows = [store.rows EXCEPT ![x] = row]
<1> DEFINE rows == [store.rows EXCEPT ![x] = row]
           refs == Referring(store, x, {}, PropertyRefs(x, row))
           after == [store EXCEPT !.rows = rows, !.refs = refs]
<1>1. store \in Stores /\ store.rows \in RowsType
  BY DEF Sound, Stores, RowsType
<1>2. OnInsert(store, x, row) = after
  BY <1>1 DEF OnInsert, Stores
<1>3. rows \in RowsType
  BY <1>1 DEF RowsType
<1>4. ASSUME store.indexed PROVE Mirror(refs, rows)
  <2>1. Mirror(store.refs, store.rows)
    BY <1>4, SoundParts
  <2>2. refs = store.refs \cup PropertyRefs(x, row)
    BY <1>4 DEF Referring
  <2>3. RefsOf(x, row) = PropertyRefs(x, row)
    BY DEF RefsOf, ProvenanceRefs
  <2>4. ASSUME NEW r \in store.refs PROVE r[3] # x
    <3>1. PICK y \in LiveIn(store.rows) : r \in RefsOf(y, store.rows[y])
      BY <1>1, <2>1, <2>4, AllRefsOf DEF Mirror
    <3> QED BY <1>1, <3>1, RefsNameRows DEF LiveIn
  <2> HIDE DEF refs
  <2>5. \A r \in refs : IF r[3] # x THEN r \in store.refs ELSE row.live /\ r \in RefsOf(x, row)
    BY <2>2, <2>3, <2>4, RefsNameRows
  <2> QED BY <1>1, <2>1, <2>2, <2>3, <2>5, MirrorEdit
<1>5. ~store.indexed => refs = store.refs
  BY DEF Referring
<1> HIDE DEF rows, refs
<1>6. Sound(after)
  BY <1>3, <1>4, <1>5, Rewritten
<1>7. Untouched(after, store) /\ after.rows = rows
  BY <1>1 DEF Untouched, Stores
<1> QED BY <1>2, <1>6, <1>7 DEF rows

LEMMA ProvenanceSound ==
    ASSUME NEW store, Sound(store), NEW x \in Object, store.rows[x] \in FeatureRows,
           NEW ids \in SUBSET Identifier
    PROVE  Sound(OnProvenance(store, x, ids)) /\ Untouched(OnProvenance(store, x, ids), store)
<1> DEFINE old == store.rows[x]
           row == [old EXCEPT !.prov = ids]
           rows == [store.rows EXCEPT ![x] = row]
           refs == Referring(store, x, {"provenance"}, IF row.live THEN ProvenanceRefs(x, row) ELSE {})
           after == [store EXCEPT !.rows = rows, !.refs = refs]
<1>1. store \in Stores /\ store.rows \in RowsType
  BY DEF Sound, Stores, RowsType
<1>2. OnProvenance(store, x, ids) = after
  BY <1>1 DEF OnProvenance, Stores
<1>3. /\ row \in FeatureRows /\ row.live = old.live /\ row.det = old.det /\ row.sup = old.sup
      /\ rows \in RowsType
  BY <1>1 DEF RowsType, FeatureRows
<1>4. ASSUME store.indexed PROVE Mirror(refs, rows)
  <2>1. Mirror(store.refs, store.rows)
    BY <1>4, SoundParts
  <2>2. refs = {r \in store.refs : r[3] # x \/ r[4] \notin {"provenance"}}
                 \cup (IF row.live THEN ProvenanceRefs(x, row) ELSE {})
    BY <1>4 DEF Referring
  <2>3. PropertyRefs(x, row) = PropertyRefs(x, old)
    BY <1>3 DEF PropertyRefs
  <2>4. (\A r \in PropertyRefs(x, old) : r[3] = x /\ r[4] = "property")
        /\ \A r \in ProvenanceRefs(x, row) \cup ProvenanceRefs(x, old) : r[3] = x /\ r[4] = "provenance"
    BY DEF PropertyRefs, ProvenanceRefs
  <2>5. ASSUME NEW r \in store.refs, r[3] = x PROVE old.live /\ r \in RefsOf(x, old)
    <3>1. PICK y \in LiveIn(store.rows) : r \in RefsOf(y, store.rows[y])
      BY <1>1, <2>1, <2>5, AllRefsOf DEF Mirror
    <3>2. y = x
      BY <2>5, <3>1, RefsNameRows
    <3> QED BY <1>1, <3>1, <3>2, LiveFacts
  <2> HIDE DEF refs, row
  <2>6. \A r \in refs : IF r[3] # x THEN r \in store.refs ELSE row.live /\ r \in RefsOf(x, row)
    <3> SUFFICES ASSUME NEW r \in refs
                 PROVE IF r[3] # x THEN r \in store.refs ELSE row.live /\ r \in RefsOf(x, row)
      OBVIOUS
    <3>1. CASE r \in store.refs /\ r[3] = x /\ r[4] # "provenance"
      BY <1>3, <2>3, <2>4, <2>5, <3>1 DEF RefsOf
    <3>2. CASE r \in store.refs /\ r[3] # x
      BY <3>2
    <3>3. CASE row.live /\ r \in ProvenanceRefs(x, row)
      BY <2>4, <3>3 DEF RefsOf
    <3> QED BY <2>2, <3>1, <3>2, <3>3
  <2>7. row.live => \A r \in RefsOf(x, row) : r[2] # Zero => r \in refs
    <3> SUFFICES ASSUME row.live, NEW r \in RefsOf(x, row), r[2] # Zero PROVE r \in refs
      OBVIOUS
    <3>1. CASE r \in ProvenanceRefs(x, row)
      BY <2>2, <3>1
    <3>2. CASE r \in PropertyRefs(x, old)
      <4>1. x \in LiveIn(store.rows)
        BY <1>1, <1>3, LiveFacts
      <4>2. r \in AllRefs(store.rows)
        BY <1>1, <3>2, <4>1, AllRefsOf DEF RefsOf
      <4> QED BY <2>1, <2>2, <2>4, <3>2, <4>2 DEF Mirror
    <3> QED BY <2>3, <3>1, <3>2 DEF RefsOf
  <2>8. \A r \in store.refs : r[3] # x => r \in refs
    BY <2>2
  <2> QED BY <1>1, <1>3, <2>1, <2>6, <2>7, <2>8, MirrorEdit
<1>5. ~store.indexed => refs = store.refs
  BY DEF Referring
<1> HIDE DEF rows, refs
<1>6. Sound(after)
  BY <1>3, <1>4, <1>5, Rewritten
<1>7. Untouched(after, store)
  BY <1>1 DEF Untouched, Stores
<1> QED BY <1>2, <1>6, <1>7

\* A rebuilt index is sound, whatever it was before.
LEMMA RebuildSound ==
    ASSUME NEW store, Sound(store)
    PROVE  /\ Sound(RebuildIndex(store)) /\ RebuildIndex(store).indexed
           /\ RebuildIndex(store).rows = store.rows /\ RebuildIndex(store).fields = store.fields
           /\ RebuildIndex(store).buried = store.buried
           /\ RebuildIndex(store).revision = store.revision
<1> DEFINE refs == {r \in AllRefs(store.rows) : r[2] # Zero}
           after == [store EXCEPT !.refs = refs, !.indexed = TRUE, !.mark = store.revision]
<1>1. store \in Stores /\ store.rows \in RowsType
  BY DEF Sound, Stores, RowsType
<1>2. RebuildIndex(store) = after
  BY DEF RebuildIndex
<1>3. refs \subseteq {"detection", "support"} \X Identifier \X Object \X {"property", "provenance"}
  BY <1>1, RefTypes
<1>4. Mirror(refs, store.rows)
  BY DEF Mirror
<1> HIDE DEF refs
<1>5. /\ after \in Stores /\ after.refs = refs /\ after.indexed /\ after.mark = store.revision
      /\ after.rows = store.rows /\ after.fields = store.fields /\ after.buried = store.buried
      /\ after.revision = store.revision /\ after.tombs = store.tombs
  BY <1>1, <1>3 DEF Stores
<1> HIDE DEF after
<1>6. Sound(after)
  BY <1>4, <1>5, SoundParts
<1> QED BY <1>2, <1>5, <1>6

\* Counting the revision keeps the mark with it.
LEMMA RevisionSound ==
    ASSUME NEW store, Sound(store)
    PROVE  /\ Sound(OnRevision(store)) /\ OnRevision(store).revision = store.revision + 1
           /\ OnRevision(store).indexed = store.indexed
<1> DEFINE mark == IF store.indexed THEN store.revision + 1 ELSE store.mark
           next == store.revision + 1
           after == [store EXCEPT !.revision = next, !.mark = mark]
<1>1. store \in Stores /\ mark \in Nat /\ next \in Nat
  BY DEF Sound, Stores
<1>2. OnRevision(store) = after
  BY <1>1 DEF OnRevision, Stores
<1>3. /\ after \in Stores /\ after.refs = store.refs /\ after.indexed = store.indexed
      /\ after.rows = store.rows /\ after.tombs = store.tombs /\ after.buried = store.buried
      /\ after.revision = next /\ after.mark = mark
  <2> HIDE DEF mark, next
  <2> QED BY <1>1 DEF Stores
<1> HIDE DEF after
<1>4. Sound(after)
  BY <1>3, SoundParts
<1> QED BY <1>2, <1>3, <1>4

-------------------------------------------------------------------------------
(* Edits. *)

\* What an edit makes of a store before it counts the revision.
Edited(store, old) ==
    Sound(store) /\ store.revision = old.revision /\ (old.indexed => store.indexed)

\* A row filled from what an edit brings is a row.
LEMMA FilledRows ==
    ASSUME NEW c \in Contents, NEW prov \in SUBSET Identifier
    PROVE  /\ Filled(c, prov) \in FeatureRows /\ Filled(c, prov).live
           /\ Filled(c, prov).prov = prov
<1> QED BY EditsHaveTypes DEF Filled, FeatureRows

LEMMA CreateCommits ==
    ASSUME LinkTypes, StoreInv, NEW s \in Sheet, NEW x \in Object, NEW c \in Contents,
           NEW ids \in Detected, CreateFeature(s, x, c, ids)
    PROVE  \E store : Edited(store, features[s]) /\ CommitEdit(s, store)
<1> DEFINE old == features[s]
           row == Filled(c, {})
           put == OnInsert(old, x, row)
           store == OnProvenance(put, x, ids)
<1>1. Sound(old) /\ old.rows[x] = NoRecord /\ ids \in SUBSET Identifier /\ CommitEdit(s, store)
  BY EditsHaveTypes DEF StoreInv, CreateFeature
<1>2. row \in FeatureRows /\ row.live /\ row.prov = {}
  BY FilledRows
<1> HIDE DEF old, row
<1>3. Sound(put) /\ Untouched(put, old) /\ put.rows = [old.rows EXCEPT ![x] = row]
  BY <1>1, <1>2, InsertSound
<1>4. put.rows[x] \in FeatureRows
  BY <1>1, <1>2, <1>3 DEF Sound, Stores
<1> HIDE DEF put
<1>5. Sound(store) /\ Untouched(store, put)
  BY <1>1, <1>3, <1>4, ProvenanceSound
<1>6. Edited(store, old)
  BY <1>3, <1>5 DEF Edited, Untouched
<1> QED BY <1>1, <1>6 DEF old

LEMMA PatchCommits ==
    ASSUME LinkTypes, StoreInv, NEW s \in Sheet, NEW x \in Object, NEW c \in Contents,
           NEW ids \in Detected, PatchFeature(s, x, c, ids)
    PROVE  \E store : Edited(store, features[s]) /\ CommitEdit(s, store)
<1> DEFINE old == features[s]
           prov == old.rows[x].prov
           row == Filled(c, prov)
           edited == OnUpdate(old, x, row)
           linked == OnProvenance(edited, x, prov \cup ids)
           store == IF ids = {} THEN edited ELSE linked
<1>1. /\ Sound(old) /\ x \in LiveIn(old.rows) /\ ids \in SUBSET Identifier
      /\ CommitEdit(s, store)
  BY EditsHaveTypes DEF StoreInv, PatchFeature
<1>2. old.rows[x] \in FeatureRows
  <2>1. old.rows \in RowsType
    BY <1>1 DEF Sound, Stores, RowsType
  <2> QED BY <1>1, <2>1, LiveFacts
<1>3. prov \in SUBSET Identifier
  BY <1>2 DEF FeatureRows
<1>4. row \in FeatureRows
  BY <1>3, FilledRows
<1> HIDE DEF old, row, prov
<1>5. Sound(edited) /\ Untouched(edited, old) /\ edited.rows = [old.rows EXCEPT ![x] = row]
  BY <1>1, <1>4, UpdateSound
<1>6. edited.rows[x] \in FeatureRows
  BY <1>1, <1>4, <1>5 DEF Sound, Stores
<1> HIDE DEF edited
<1>7. Sound(linked) /\ Untouched(linked, edited)
  BY <1>1, <1>3, <1>5, <1>6, ProvenanceSound
<1>8. Edited(store, old)
  BY <1>5, <1>7 DEF Edited, Untouched
<1> QED BY <1>1, <1>8 DEF old, row, prov, edited

LEMMA ApplyCommits ==
    ASSUME LinkTypes, StoreInv, NEW s \in Sheet, NEW x \in Object, NEW c \in Contents,
           ApplyFeatureState(s, x, c)
    PROVE  \E store : Edited(store, features[s]) /\ CommitEdit(s, store)
<1> DEFINE old == features[s]
           now == old.rows[x]
<1>1. Sound(old) /\ old.rows[x] \in FeatureRows
  <2>1. Sound(old) /\ old.rows[x] # NoRecord
    BY DEF StoreInv, ApplyFeatureState
  <2> QED BY <2>1 DEF Sound, Stores
<1>2. PICK row \in FeatureRows : CommitEdit(s, OnUpdate(old, x, row))
  <2>1. now.prov \in SUBSET Identifier /\ [now EXCEPT !.live = FALSE] \in FeatureRows
    BY <1>1 DEF FeatureRows
  <2>2. Filled(c, now.prov) \in FeatureRows
    BY <2>1, FilledRows
  <2> QED BY <2>1, <2>2 DEF ApplyFeatureState
<1>3. Edited(OnUpdate(old, x, row), old)
  BY <1>1, UpdateSound DEF Edited, Untouched
<1> QED BY <1>2, <1>3

\* The detections a feature refers to get a tombstone before it goes.
LEMMA DeleteCommits ==
    ASSUME LinkTypes, StoreInv, NEW s \in Sheet, NEW x \in Object, DeleteFeature(s, x)
    PROVE  \E store : Edited(store, features[s]) /\ CommitEdit(s, store)
<1> DEFINE old == features[s]
           store == IF IndexCurrent(s) THEN old ELSE RebuildIndex(old)
           own == {r \in store.refs : r[1] = "detection" /\ r[3] = x}
           tombs == store.tombs \cup {<<r[2], x>> : r \in own}
           buried == store.buried \cup Carrying(store.rows[x], "detection")
           marked == [store EXCEPT !.tombs = tombs, !.buried = buried]
           row == [store.rows[x] EXCEPT !.live = FALSE]
<1>1. Sound(old) /\ x \in LiveIn(old.rows)
  BY DEF StoreInv, DeleteFeature
<1>2. /\ Sound(store) /\ store.indexed /\ store.rows = old.rows
      /\ store.revision = old.revision
  <2>1. CASE IndexCurrent(s)
    BY <1>1, <2>1 DEF IndexCurrent
  <2>2. CASE ~IndexCurrent(s)
    BY <1>1, <2>2, RebuildSound
  <2> QED BY <2>1, <2>2
<1>3. CommitEdit(s, OnUpdate(marked, x, row))
  <2> HIDE DEF old
  <2>1. store \in Stores
    BY <1>2 DEF Sound
  <2>2. marked = [store EXCEPT !.tombs = store.tombs \cup {<<r[2], x>> : r \in own},
                               !.buried = store.buried \cup Carrying(store.rows[x], "detection")]
    OBVIOUS
  <2> QED BY <2>1, <2>2 DEF DeleteFeature, old
<1> HIDE DEF store, old
<1>4. store \in Stores /\ store.rows \in RowsType
  BY <1>2 DEF Sound, Stores, RowsType
<1>5. store.rows[x] \in FeatureRows /\ x \in LiveIn(store.rows)
  BY <1>1, <1>2, <1>4, LiveFacts
<1>6. row \in FeatureRows
  BY <1>5 DEF FeatureRows
<1>7. tombs \in SUBSET (Identifier \X Object) /\ buried \in SUBSET Identifier
  <2>1. \A r \in store.refs : r[2] \in Identifier
    BY <1>4 DEF Stores
  <2>2. Carrying(store.rows[x], "detection") \subseteq Identifier
    BY <1>5 DEF Carrying, FeatureRows
  <2> QED BY <1>4, <2>1, <2>2 DEF Stores
<1>8. \A i \in buried \ {Zero} : \E y \in Object : <<i, y>> \in tombs
  <2> SUFFICES ASSUME NEW i \in buried \ {Zero} PROVE \E y \in Object : <<i, y>> \in tombs
    OBVIOUS
  <2>1. CASE i \in store.buried
    BY <1>2, <2>1, SoundParts
  <2>2. CASE i \in Carrying(store.rows[x], "detection")
    <3>1. PICK r \in RefsOf(x, store.rows[x]) : r[1] = "detection" /\ r[2] = i /\ r[3] = x
      <4>1. CASE i \in store.rows[x].det
        <5>1. <<"detection", i, x, "property">> \in RefsOf(x, store.rows[x])
          BY <4>1 DEF RefsOf, PropertyRefs
        <5> QED BY <5>1
      <4>2. CASE i \in store.rows[x].prov
        <5>1. <<"detection", i, x, "provenance">> \in RefsOf(x, store.rows[x])
          BY <4>2 DEF RefsOf, ProvenanceRefs
        <5> QED BY <5>1
      <4> QED BY <2>2, <4>1, <4>2 DEF Carrying
    <3>2. r \in AllRefs(store.rows)
      BY <1>4, <1>5, <3>1, AllRefsOf
    <3>3. r \in store.refs
      BY <1>2, <3>1, <3>2, SoundParts DEF Mirror
    <3> QED BY <3>1, <3>3
  <2> QED BY <2>1, <2>2
<1> HIDE DEF tombs, buried, own
<1>9. /\ marked \in Stores /\ marked.tombs = tombs /\ marked.buried = buried
      /\ marked.refs = store.refs /\ marked.indexed = store.indexed
      /\ marked.mark = store.mark /\ marked.revision = store.revision
      /\ marked.rows = store.rows
  BY <1>4, <1>7 DEF Stores
<1> HIDE DEF marked
<1>10. Sound(marked)
  BY <1>2, <1>8, <1>9, SoundParts
<1>11. Edited(OnUpdate(marked, x, row), old)
  BY <1>2, <1>6, <1>9, <1>10, UpdateSound DEF Edited, Untouched
<1> QED BY <1>3, <1>11 DEF old

LEMMA FieldCommits ==
    ASSUME LinkTypes, StoreInv, NEW s \in Sheet, DeleteField(s)
    PROVE  \E store : Edited(store, features[s]) /\ CommitEdit(s, store)
<1> DEFINE old == features[s]
           rows == [x \in Object |-> IF old.rows[x] = NoRecord THEN NoRecord
                                     ELSE [old.rows[x] EXCEPT !.sup = {}]]
           fields == old.fields \ {"sup"}
           refs == IF old.indexed THEN AllRefs(rows) ELSE old.refs
           store == [old EXCEPT !.fields = fields, !.rows = rows, !.refs = refs]
<1>1. Sound(old) /\ old \in Stores /\ fields \in SUBSET {"det", "sup"}
  BY DEF StoreInv, Sound, Stores
<1>2. CommitEdit(s, store)
  BY <1>1 DEF DeleteField, Stores
<1>3. rows \in RowsType
  <2> SUFFICES ASSUME NEW x \in Object
      PROVE (IF old.rows[x] = NoRecord THEN NoRecord ELSE [old.rows[x] EXCEPT !.sup = {}])
               \in FeatureRows \cup {NoRecord}
    BY DEF RowsType
  <2>1. old.rows[x] \in FeatureRows \cup {NoRecord}
    BY <1>1 DEF Stores
  <2>2. old.rows[x] \in FeatureRows => [old.rows[x] EXCEPT !.sup = {}] \in FeatureRows
    BY DEF FeatureRows
  <2> QED BY <2>1, <2>2
<1> HIDE DEF rows
<1>4. refs \subseteq {"detection", "support"} \X Identifier \X Object \X {"property", "provenance"}
  <2>1. old.refs \subseteq {"detection", "support"} \X Identifier \X Object \X {"property", "provenance"}
    BY <1>1 DEF Stores
  <2> QED BY <1>3, <2>1, RefTypes
<1>5. old.indexed => Mirror(refs, rows)
  BY DEF Mirror
<1> HIDE DEF fields, refs, old
<1>6. /\ store \in Stores /\ store.rows = rows /\ store.refs = refs /\ store.indexed = old.indexed
      /\ store.mark = old.mark /\ store.revision = old.revision
      /\ store.tombs = old.tombs /\ store.buried = old.buried
  BY <1>1, <1>3, <1>4 DEF Stores, RowsType
<1> HIDE DEF store
<1>7. Sound(store)
  BY <1>1, <1>5, <1>6, SoundParts
<1> QED BY <1>2, <1>6, <1>7 DEF Edited, old

LEMMA EditCommits ==
    ASSUME LinkTypes, StoreInv, NEW s \in Sheet, EditLayer(s)
    PROVE  \E store : Edited(store, features[s]) /\ CommitEdit(s, store)
<1> QED BY CreateCommits, PatchCommits, ApplyCommits, DeleteCommits, FieldCommits DEF EditLayer

-------------------------------------------------------------------------------
(* What a change of the layers leaves of the invariant. *)

\* A change leaves the request; an index that exists stays, revisions grow, and rows
\* change only in layers that are here afterwards.
Changed ==
    /\ asked' = asked
    /\ \A s \in Sheet :
        /\ Sound(features'[s]) /\ (features[s].indexed => features'[s].indexed)
        /\ features[s].revision <= features'[s].revision
        /\ features'[s].rows # features[s].rows => folder'[s] = "here"
        /\ folder[s] # "absent" => folder'[s] # "absent"

\* The parts of a request.
LEMMA AskedParts ==
    ASSUME NEW r \in AskedType
    PROVE  /\ r.pc \in Pcs /\ r.kind \in {"detection", "support", "boxes"}
           /\ r.todo \subseteq DOMAIN Overlays /\ r.linked \subseteq Sheet \X Object
           /\ r.items \subseteq [at : Sheet \X Object, pole : BOOLEAN, revision : Nat, seen : Nat]
           /\ r.graves \subseteq Sheet \X Object /\ r.complete \in BOOLEAN
           /\ r.check \in {"need", "ensure", "read"} /\ r.phase \in {"rows", "tombs"}
           /\ {r.leaf, r.entries, r.points, r.builds, r.saw, r.revision} \subseteq Nat
<1> QED BY DEF AskedType, SomeLayers, SomePlaces, SomeItems

\* A layer that comes, goes or is edited is remembered; an archived one was hidden.
Archived ==
    /\ held' = held /\ features' = features
    /\ \A s \in Sheet : folder'[s] # folder[s] => folder[s] = "hidden" /\ folder'[s] = "gone"

LEMMA LinkTypesNext ==
    ASSUME LinkTypes, asked' = asked, features' \in [Sheet -> Stores],
           folder' \in [Sheet -> {"absent", "here", "hidden", "gone"}], writes' \in Nat,
           Remember \/ held' = held
    PROVE  LinkTypes'
<1>1. Bearers(asked)' \subseteq Triples
  <2> SUFFICES ASSUME NEW s \in Sheet, NEW b \in Bearing(s, asked)' PROVE b \in Triples
    BY DEF Bearers
  <2>1. features'[s].rows \in RowsType
    BY DEF Stores, RowsType
  <2>2. PICK x \in LiveIn(features'[s].rows) : b = <<s, x, features'[s].rows[x].pole>>
    BY DEF Bearing
  <2>3. x \in Object /\ features'[s].rows[x].pole \in BOOLEAN
    BY <2>1, LiveFacts DEF FeatureRows
  <2> QED BY <2>2, <2>3 DEF Triples
<1>2. held' \in [calm : BOOLEAN, steady : SUBSET Triples, ever : SUBSET Triples, graves : SUBSET Sheet]
  <2>1. CASE Remember
    <3> DEFINE steady == held.steady \cap Carriers(asked)'
               ever == held.ever \cup Bearers(asked)'
               graves == held.graves \cap Graves(asked)'
    <3>1. steady \subseteq Triples /\ ever \subseteq Triples /\ graves \subseteq Sheet
      BY <1>1 DEF LinkTypes
    <3>2. held' = [calm |-> FALSE, steady |-> steady, ever |-> ever, graves |-> graves]
      BY <2>1 DEF Remember
    <3> QED BY <3>1, <3>2
  <2>2. CASE held' = held
    BY <2>2 DEF LinkTypes
  <2> QED BY <2>1, <2>2
<1> QED BY <1>2 DEF LinkTypes

LEMMA ChangeKeeps ==
    ASSUME LinkInv, LinkTypes', Changed, Remember \/ Archived
    PROVE  LinkInv'
<1>1. asked' = asked /\ Leaf' = Leaf /\ Pending' = Pending
  BY DEF Changed, Leaf, Pending
<1>2. StoreInv'
  BY DEF Changed, StoreInv
<1>3. /\ held.ever \subseteq held'.ever /\ held'.steady \subseteq held.steady
      /\ held'.graves \subseteq held.graves
      /\ held'.calm => held.calm /\ held' = held /\ Archived
  BY DEF Remember, Archived
<1>4. HeldInv'
  <2> SUFFICES ASSUME asked.pc # "idle" PROVE HeldInv'
    BY <1>1 DEF HeldInv
  <2>1. CASE Remember
    BY <1>1, <2>1 DEF Remember, HeldInv
  <2>2. CASE Archived
    <3>1. ASSUME NEW s \in Sheet PROVE folder'[s] = "here" <=> folder[s] = "here"
      BY <2>2 DEF Archived
    <3>2. /\ Carriers(asked)' = Carriers(asked) /\ Bearers(asked)' = Bearers(asked)
          /\ Graves(asked)' = Graves(asked)
      BY <1>1, <2>2, <3>1 DEF Archived, Carriers, Bearers, Graves, Bearing, Counting
    <3> QED BY <1>1, <2>2, <3>2 DEF HeldInv, LinkInv, Archived
  <2> QED BY <2>1, <2>2
<1>5. PlaceInv'
  <2>0. \A k \in asked.todo : folder'[Overlays[k]] # "absent"
    <3>1. \A k \in asked.todo : Overlays[k] \in Sheet
      BY AskedParts DEF LinkInv, LinkTypes, Sheet
    <3> QED BY <3>1 DEF Changed, LinkInv, PlaceInv
  <2> SUFFICES ASSUME asked.pc \in Inner PROVE PlaceInv'
    BY <1>1, <2>0 DEF PlaceInv, LinkInv
  <2>1. PlaceInv /\ asked.leaf \in DOMAIN Overlays
    BY AskedParts DEF LinkInv, PlaceInv, LinkTypes
  <2>2. Leaf \in Sheet
    BY <2>1 DEF Leaf, Sheet
  <2>3. Bearing(Leaf, asked)' \subseteq held'.ever
    <3>1. CASE features'[Leaf].rows = features[Leaf].rows
      <4>1. Bearing(Leaf, asked)' = Bearing(Leaf, asked)
        BY <1>1, <3>1 DEF Bearing
      <4> QED BY <1>3, <2>1, <4>1 DEF PlaceInv
    <3>2. CASE features'[Leaf].rows # features[Leaf].rows
      <4>1. folder'[Leaf] = "here" /\ Remember
        BY <2>2, <3>2 DEF Changed, Archived
      <4>2. Bearing(Leaf, asked)' \subseteq Bearers(asked)'
        BY <1>1, <2>1, <2>2, <4>1 DEF Bearers, PlaceInv, Concerns
      <4> QED BY <4>1, <4>2 DEF Remember
    <3> QED BY <3>1, <3>2
  <2>4. ASSUME held'.calm
        PROVE  folder'[Leaf] = "here" /\ Counting(Leaf, asked)' /\ features' = features /\ held.calm
    <3>1. held.calm /\ Archived /\ folder[Leaf] = "here" /\ Counting(Leaf, asked)
      BY <1>3, <2>1, <2>4 DEF PlaceInv
    <3> QED BY <1>1, <2>2, <3>1 DEF Archived, Counting, Concerns
  <2>5. /\ features[Leaf].indexed => features'[Leaf].indexed
        /\ features[Leaf].revision <= features'[Leaf].revision
        /\ features[Leaf].revision \in Nat /\ features'[Leaf].revision \in Nat /\ asked.revision \in Nat
    <3>1. asked.revision \in Nat
      BY AskedParts DEF LinkInv, LinkTypes
    <3>2. features[Leaf] \in Stores /\ features'[Leaf] \in Stores
      BY <2>2 DEF LinkInv, LinkTypes
    <3> QED BY <2>2, <3>1, <3>2 DEF Changed, Stores
  <2>6. Concerns(Leaf, asked)'
    BY <1>1, <2>1 DEF PlaceInv, Concerns
  <2>7. asked.pc = "rows" => asked.revision <= features'[Leaf].revision
    BY <2>1, <2>5 DEF PlaceInv
  <2> QED BY <1>1, <2>0, <2>1, <2>3, <2>4, <2>5, <2>6, <2>7 DEF PlaceInv
<1>6. FoundInv'
  <2>1. Rows(held.ever) \subseteq Rows(held'.ever)
    BY <1>3 DEF Rows
  <2> QED BY <1>1, <1>3, <2>1 DEF FoundInv, LinkInv, Carried
<1>7. CoverInv'
  BY <1>1, <1>3 DEF CoverInv, LinkInv, Carried
<1>8. EndInv'
  BY <1>1 DEF EndInv, LinkInv, Verdict, Resolution, SupportResolution, BoxResolution, Objects
<1>9. ReasonInv'
  <2> SUFFICES ASSUME held'.calm, ~asked.complete PROVE Excused'
    BY <1>1 DEF ReasonInv
  <2>1. Excused /\ held' = held /\ Archived
    BY <1>3 DEF ReasonInv, LinkInv
  <2>2. (\E s \in Sheet : folder[s] # "here") => \E s \in Sheet : folder'[s] # "here"
    BY <2>1 DEF Archived
  <2> QED BY <1>1, <2>1, <2>2 DEF Excused
<1>10. IdleInv'
  BY <1>1 DEF IdleInv, LinkInv, Coming
<1> QED BY <1>2, <1>4, <1>5, <1>6, <1>7, <1>8, <1>9, <1>10 DEF LinkInv

LEMMA EditKeeps ==
    ASSUME LinkInv, NEW s \in Sheet, EditLayer(s)
    PROVE  LinkInv'
<1>1. LinkTypes /\ StoreInv
  BY DEF LinkInv
<1>2. PICK store : Edited(store, features[s]) /\ CommitEdit(s, store)
  BY <1>1, EditCommits
<1>3. /\ folder[s] = "here" /\ writes > 0 /\ writes' = writes - 1
      /\ features' = [features EXCEPT ![s] = OnRevision(store)]
      /\ folder' = folder /\ asked' = asked /\ Remember
  BY <1>2 DEF CommitEdit
<1>4. /\ Sound(OnRevision(store)) /\ OnRevision(store).revision = store.revision + 1
      /\ OnRevision(store).indexed = store.indexed
  BY <1>2, RevisionSound DEF Edited
<1>5. features[s].revision \in Nat
  BY <1>1 DEF LinkTypes, Stores
<1> DEFINE new == OnRevision(store)
<1>6. features' \in [Sheet -> Stores]
  BY <1>1, <1>3, <1>4 DEF LinkTypes, Sound
<1>7. ASSUME NEW q \in Sheet PROVE features'[q] = IF q = s THEN new ELSE features[q]
  BY <1>1, <1>3 DEF LinkTypes
<1> HIDE DEF new
<1>8. ASSUME NEW q \in Sheet
      PROVE  /\ Sound(features'[q]) /\ (features[q].indexed => features'[q].indexed)
             /\ features[q].revision <= features'[q].revision
             /\ features'[q].rows # features[q].rows => folder'[q] = "here"
             /\ folder[q] # "absent" => folder'[q] # "absent"
  <2>1. CASE q = s
    <3>1. new.revision = features[s].revision + 1 /\ Sound(new) /\ (features[s].indexed => new.indexed)
      BY <1>2, <1>4 DEF Edited, new
    <3> QED BY <1>3, <1>5, <1>7, <2>1, <3>1
  <2>2. CASE q # s
    <3>1. Sound(features[q]) /\ features[q].revision \in Nat
      BY <1>1 DEF StoreInv, LinkTypes, Stores
    <3> QED BY <1>3, <1>7, <2>2, <3>1
  <2> QED BY <2>1, <2>2
<1>9. Changed
  BY <1>3, <1>8 DEF Changed
<1>10. LinkTypes'
  <2>1. writes' \in Nat /\ folder' \in [Sheet -> {"absent", "here", "hidden", "gone"}]
    BY <1>1, <1>3 DEF LinkTypes
  <2> QED BY <1>1, <1>3, <1>6, <2>1, LinkTypesNext
<1> QED BY <1>3, <1>9, <1>10, ChangeKeeps

LEMMA LayersKeep ==
    ASSUME LinkInv, NEW s \in Sheet, ImportLayer(s) \/ HideLayer(s) \/ ArchiveLayer(s)
    PROVE  LinkInv'
<1>1. LinkTypes /\ StoreInv /\ \A q \in Sheet : Sound(features[q]) /\ features[q].revision \in Nat
  BY DEF LinkInv, StoreInv, LinkTypes, Stores
<1>2. CASE ImportLayer(s)
  <2>1. /\ writes > 0 /\ writes' = writes - 1 /\ folder' = [folder EXCEPT ![s] = "here"]
        /\ features' = [features EXCEPT ![s] = RebuildIndex(features[s])]
        /\ asked' = asked /\ Remember
    BY <1>2 DEF ImportLayer, Relocate
  <2> DEFINE new == RebuildIndex(features[s])
  <2>2. Sound(new) /\ new.indexed /\ new.rows = features[s].rows /\ new.revision = features[s].revision
    BY <1>1, RebuildSound
  <2>3. ASSUME NEW q \in Sheet PROVE features'[q] = IF q = s THEN new ELSE features[q]
    BY <1>1, <2>1 DEF LinkTypes
  <2>4. features' \in [Sheet -> Stores]
    BY <1>1, <2>1, <2>2 DEF LinkTypes, Sound
  <2> HIDE DEF new
  <2>5. Changed
    BY <1>1, <2>1, <2>2, <2>3 DEF Changed, LinkTypes
  <2>6. LinkTypes'
    <3>1. writes' \in Nat /\ folder' \in [Sheet -> {"absent", "here", "hidden", "gone"}]
      BY <1>1, <2>1 DEF LinkTypes
    <3> QED BY <1>1, <2>1, <2>4, <3>1, LinkTypesNext
  <2> QED BY <2>1, <2>5, <2>6, ChangeKeeps
<1>3. CASE HideLayer(s)
  <2>1. /\ writes > 0 /\ writes' = writes - 1 /\ folder' = [folder EXCEPT ![s] = "hidden"]
        /\ features' = features /\ asked' = asked /\ Remember
    BY <1>3 DEF HideLayer, Relocate
  <2>2. Changed
    BY <1>1, <2>1 DEF Changed, LinkTypes
  <2>3. LinkTypes'
    <3>1. writes' \in Nat /\ folder' \in [Sheet -> {"absent", "here", "hidden", "gone"}]
      BY <1>1, <2>1 DEF LinkTypes
    <3>2. features' \in [Sheet -> Stores]
      BY <1>1, <2>1 DEF LinkTypes
    <3> QED BY <1>1, <2>1, <3>1, <3>2, LinkTypesNext
  <2> QED BY <2>1, <2>2, <2>3, ChangeKeeps
<1>4. CASE ArchiveLayer(s)
  <2>1. /\ folder[s] = "hidden" /\ folder' = [folder EXCEPT ![s] = "gone"]
        /\ features' = features /\ asked' = asked /\ held' = held /\ writes' = writes
    BY <1>4 DEF ArchiveLayer
  <2>2. Changed
    BY <1>1, <2>1 DEF Changed, LinkTypes
  <2>3. Archived
    BY <1>1, <2>1 DEF Archived, LinkTypes
  <2>4. LinkTypes'
    <3>1. writes' \in Nat /\ folder' \in [Sheet -> {"absent", "here", "hidden", "gone"}]
      BY <1>1, <2>1 DEF LinkTypes
    <3>2. features' \in [Sheet -> Stores]
      BY <1>1, <2>1 DEF LinkTypes
    <3> QED BY <1>1, <2>1, <3>1, <3>2, LinkTypesNext
  <2> QED BY <2>2, <2>3, <2>4, ChangeKeeps
<1> QED BY <1>2, <1>3, <1>4

-------------------------------------------------------------------------------
(* What a step of the reader leaves of it. *)

\* A reply changes the request alone, and neither its question nor what is listed.
Replied ==
    /\ asked' \in AskedType
    /\ features' = features /\ folder' = folder /\ held' = held /\ writes' = writes
    /\ asked'.kind = asked.kind /\ asked'.id = asked.id /\ asked'.source = asked.source

Gathered ==
    asked'.items = asked.items /\ asked'.graves = asked.graves /\ asked'.linked = asked.linked

\* The parts of a request that gives up, and of one that leaves a layer.
LEMMA Stopped ==
    ASSUME NEW r \in AskedType, NEW n, n = Stop(r)
    PROVE  /\ n \in AskedType /\ n.pc = "answer" /\ ~n.complete
           /\ n.kind = r.kind /\ n.id = r.id /\ n.source = r.source /\ n.items = r.items
           /\ n.graves = r.graves /\ n.linked = r.linked /\ n.phase = r.phase
           /\ n.leaf = r.leaf /\ n.todo = r.todo /\ n.entries = r.entries
           /\ n.points = r.points /\ n.builds = r.builds
<1>1. n = [r EXCEPT !.pc = "answer", !.complete = FALSE] /\ "answer" \in Pcs
  BY DEF Stop, Pcs
<1>2. n \in AskedType
  BY <1>1 DEF AskedType
<1> QED BY <1>1, <1>2 DEF AskedType

Skip(r, done) == [NextLayer(r) EXCEPT !.complete = done]

LEMMA Skipped ==
    ASSUME NEW r \in AskedType, NEW done \in BOOLEAN, NEW n, n = Skip(r, done)
    PROVE  /\ n \in AskedType /\ n.pc = "visit" /\ n.complete = done
           /\ n.todo = r.todo \ {r.leaf} /\ n.leaf = r.leaf
           /\ n.kind = r.kind /\ n.id = r.id /\ n.source = r.source /\ n.items = r.items
           /\ n.graves = r.graves /\ n.linked = r.linked /\ n.phase = r.phase
           /\ n.entries = r.entries /\ n.points = r.points /\ n.builds = r.builds
<1> DEFINE rest == r.todo \ {r.leaf}
<1>1. rest \in SomeLayers /\ "visit" \in Pcs
  BY AskedParts DEF Pcs, SomeLayers
<1>2. n = [r EXCEPT !.todo = rest, !.pc = "visit", !.complete = done]
  BY DEF Skip, NextLayer, AskedType
<1> HIDE DEF rest
<1>3. n \in AskedType
  BY <1>1, <1>2 DEF AskedType
<1>4. /\ n.pc = "visit" /\ n.complete = done /\ n.todo = rest /\ n.leaf = r.leaf
      /\ n.kind = r.kind /\ n.id = r.id /\ n.source = r.source /\ n.items = r.items
      /\ n.graves = r.graves /\ n.linked = r.linked /\ n.phase = r.phase
      /\ n.entries = r.entries /\ n.points = r.points /\ n.builds = r.builds
  BY <1>2 DEF AskedType
<1> QED BY <1>3, <1>4 DEF rest

LEMMA ReplyKeeps ==
    ASSUME LinkInv, Replied, asked.pc # "idle", asked'.pc # "idle",
           PlaceInv', FoundInv', CoverInv', EndInv', ReasonInv'
    PROVE  LinkInv'
<1>1. LinkTypes'
  BY DEF Replied, LinkInv, LinkTypes
<1>2. StoreInv'
  BY DEF Replied, LinkInv, StoreInv
<1>3. HeldInv'
  <2>1. /\ Carriers(asked)' = Carriers(asked) /\ Bearers(asked)' = Bearers(asked)
        /\ Graves(asked)' = Graves(asked)
    BY DEF Replied, Carriers, Bearers, Graves, Bearing, Counting, Concerns
  <2> QED BY <2>1 DEF Replied, LinkInv, HeldInv
<1>4. IdleInv'
  BY DEF IdleInv
<1> QED BY <1>1, <1>2, <1>3, <1>4 DEF LinkInv

\* The counters of a request grow, so an excuse stays one.
Grown ==
    /\ asked'.entries >= asked.entries /\ asked'.points >= asked.points
    /\ asked'.builds >= asked.builds

LEMMA ExcuseStays ==
    ASSUME LinkInv, Replied, Grown, Excused
    PROVE  Excused'
<1>1. /\ {asked.entries, asked.points, asked.builds} \subseteq Nat
      /\ {asked'.entries, asked'.points, asked'.builds} \subseteq Nat
  BY AskedParts DEF LinkInv, LinkTypes, Replied
<1>2. {MaxEntries, MaxPoints, MaxMigrations} \subseteq Nat
  BY LimitsAreNumbers
<1> QED BY <1>1, <1>2 DEF Excused, Grown, Replied

\* A request that gives up.
LEMMA StopKeeps ==
    ASSUME LinkInv, asked.pc \in Inner \cup {"visit"}, Replied, Gathered,
           asked'.pc = "answer", ~asked'.complete, asked'.phase = asked.phase,
           asked'.todo = asked.todo, asked.todo # {},
           asked.pc \in Inner => asked'.leaf = asked.leaf,
           held.calm => Excused'
    PROVE  LinkInv'
<1>1. PlaceInv'
  BY DEF LinkInv, PlaceInv, Replied, Inner
<1>2. Pending' \subseteq Pending
  BY DEF LinkInv, PlaceInv, Pending
<1>3. FoundInv'
  BY <1>2 DEF LinkInv, FoundInv, Replied, Gathered, Carried
<1>4. CoverInv'
  BY DEF CoverInv
<1>5. EndInv'
  BY DEF EndInv
<1>6. ReasonInv'
  BY DEF ReasonInv, Replied
<1> QED BY <1>1, <1>3, <1>4, <1>5, <1>6, ReplyKeeps DEF Inner

\* A layer that is left, with the request complete only if nothing of it was missed.
LEMMA NextKeeps ==
    ASSUME LinkInv, asked.pc \in Inner \cup {"visit"}, Replied, Gathered, Grown,
           asked'.pc = "visit", asked'.phase = asked.phase,
           asked'.leaf \in asked.todo, asked'.todo = asked.todo \ {asked'.leaf},
           asked.pc \in Inner => asked'.leaf = asked.leaf,
           asked'.complete => asked.complete,
           asked.kind = "boxes" => asked'.complete = asked.complete,
           held.calm /\ asked.complete /\ ~asked'.complete => Excused,
           asked'.complete => /\ \A c \in held.steady : c[1] # Overlays[asked'.leaf]
                              /\ \A g \in held.graves : g # Overlays[asked'.leaf]
    PROVE  LinkInv'
<1>1. PlaceInv'
  BY DEF LinkInv, PlaceInv, Replied, Inner
<1>2. Pending' \subseteq Pending /\ Pending \subseteq Pending' \cup {asked'.leaf}
  BY DEF LinkInv, PlaceInv, Pending
<1>3. FoundInv'
  BY <1>2 DEF LinkInv, FoundInv, Replied, Gathered, Carried
<1>4. CoverInv'
  BY <1>2 DEF LinkInv, CoverInv, Replied, Gathered, Carried, Inner
<1>5. EndInv'
  BY DEF LinkInv, EndInv, Replied, Gathered, Inner
<1>6. ReasonInv'
  BY ExcuseStays DEF LinkInv, ReasonInv, Replied
<1> QED BY <1>1, <1>3, <1>4, <1>5, <1>6, ReplyKeeps DEF Inner

\* A step inside a layer that finds nothing yet.
LEMMA MoveKeeps ==
    ASSUME LinkInv, asked.pc \in Inner, asked'.pc \in Inner, Replied, Grown, PlaceInv',
           asked'.items = asked.items, asked'.graves = asked.graves,
           asked'.linked \subseteq Rows(held.ever), asked'.phase = asked.phase,
           asked'.leaf = asked.leaf, asked'.todo = asked.todo, asked'.complete = asked.complete
    PROVE  LinkInv'
<1>1. Pending' = Pending
  BY DEF Pending
<1>2. FoundInv'
  BY <1>1 DEF LinkInv, FoundInv, Replied, Carried
<1>3. CoverInv'
  BY <1>1 DEF LinkInv, CoverInv, Replied, Carried, Inner
<1>4. EndInv'
  BY DEF LinkInv, EndInv, Replied, Inner
<1>5. ReasonInv'
  BY ExcuseStays DEF LinkInv, ReasonInv, Replied
<1> QED BY <1>2, <1>3, <1>4, <1>5, ReplyKeeps DEF Inner

-------------------------------------------------------------------------------
(* The steps of the reader. *)

LEMMA AskKeeps ==
    ASSUME LinkInv, Ask
    PROVE  LinkInv'
<1> DEFINE listed == {i \in DOMAIN Overlays :
                         /\ folder[Overlays[i]] \in {"here", "hidden"}
                         /\ asked.kind = "boxes" => Overlays[i] = asked.source}
<1>1. /\ LinkTypes /\ StoreInv /\ asked.pc = "idle" /\ asked = Coming(asked)
      /\ asked' = [asked EXCEPT !.pc = "visit", !.todo = listed]
      /\ held' = [calm |-> TRUE, steady |-> Carriers(asked), ever |-> Bearers(asked),
                  graves |-> Graves(asked)]
      /\ features' = features /\ folder' = folder /\ writes' = writes
  BY DEF LinkInv, IdleInv, Ask
<1>2. /\ asked.items = {} /\ asked.linked = {} /\ asked.phase = "rows" /\ asked.complete
  BY <1>1 DEF Coming
<1>3. listed \in SomeLayers
  BY DEF SomeLayers
<1> HIDE DEF listed
<1>4. /\ asked' \in AskedType /\ asked'.pc = "visit" /\ asked'.kind = asked.kind
      /\ asked'.id = asked.id /\ asked'.source = asked.source /\ asked'.items = asked.items
      /\ asked'.linked = asked.linked /\ asked'.phase = asked.phase
      /\ asked'.complete = asked.complete /\ asked'.todo = listed
  BY <1>1, <1>3 DEF LinkTypes, AskedType, Pcs
<1>5. Bearers(asked) \subseteq Triples /\ Carriers(asked) \subseteq Bearers(asked)
      /\ Graves(asked) \subseteq Sheet
  <2>1. ASSUME NEW s \in Sheet, NEW b \in Bearing(s, asked) PROVE b \in Triples
    <3>1. features[s].rows \in RowsType
      BY <1>1 DEF LinkTypes, Stores, RowsType
    <3>2. PICK x \in LiveIn(features[s].rows) : b = <<s, x, features[s].rows[x].pole>>
      BY DEF Bearing
    <3>3. x \in Object /\ features[s].rows[x].pole \in BOOLEAN
      BY <3>1, LiveFacts DEF FeatureRows
    <3> QED BY <3>2, <3>3 DEF Triples
  <2> QED BY <2>1 DEF Bearers, Carriers, Counting, Graves
<1>6. LinkTypes'
  BY <1>1, <1>4, <1>5 DEF LinkTypes
<1>7. StoreInv'
  BY <1>1 DEF StoreInv
<1>8. HeldInv'
  <2>1. /\ Carriers(asked)' = Carriers(asked) /\ Bearers(asked)' = Bearers(asked)
        /\ Graves(asked)' = Graves(asked)
    BY <1>1, <1>4 DEF Carriers, Bearers, Graves, Bearing, Counting, Concerns
  <2> QED BY <1>1, <2>1 DEF HeldInv
<1>9. PlaceInv'
  BY <1>1, <1>2, <1>4 DEF PlaceInv, Inner, listed
<1>10. FoundInv'
  BY <1>2, <1>4 DEF FoundInv
<1>11. CoverInv'
  <2>1. Pending' = listed /\ asked'.todo = listed
    BY <1>2, <1>4 DEF Pending
  <2>2. ASSUME NEW s \in Sheet, folder[s] = "here", Concerns(s, asked)
        PROVE  \E k \in listed : Overlays[k] = s
    BY <2>2 DEF Sheet, Concerns, listed
  <2>3. ASSUME NEW c \in Carriers(asked) PROVE \E k \in listed : Overlays[k] = c[1]
    <3>1. PICK s \in Sheet : folder[s] = "here" /\ Counting(s, asked) /\ c \in Bearing(s, asked)
      BY DEF Carriers
    <3> QED BY <2>2, <3>1 DEF Bearing, Counting
  <2>4. ASSUME NEW g \in Graves(asked) PROVE \E k \in listed : Overlays[k] = g
    BY <2>2 DEF Graves, Counting
  <2> QED BY <1>1, <2>1, <2>3, <2>4 DEF CoverInv
<1>12. EndInv' /\ ReasonInv' /\ IdleInv'
  BY <1>2, <1>4 DEF EndInv, ReasonInv, IdleInv
<1> QED BY <1>6, <1>7, <1>8, <1>9, <1>10, <1>11, <1>12 DEF LinkInv

\* Nothing that counts is in a layer that is not here or does not count.
LEMMA LeftOut ==
    ASSUME LinkInv, asked.pc # "idle", NEW s, folder[s] # "here" \/ ~Counting(s, asked)
    PROVE  (\A c \in held.steady : c[1] # s) /\ \A g \in held.graves : g # s
<1>1. \A c \in Carriers(asked) : c[1] # s
  BY DEF Carriers, Bearing
<1>2. \A g \in Graves(asked) : g # s
  BY DEF Graves
<1> QED BY <1>1, <1>2 DEF LinkInv, HeldInv

\* A step that meets a layer it cannot read.
LEMMA BrokenKeeps ==
    ASSUME LinkInv, asked.pc \in Inner, Reply(Broken(asked)), held.calm => Excused
    PROVE  LinkInv'
<1>1. asked \in AskedType /\ asked.leaf \in asked.todo
  BY DEF LinkInv, LinkTypes, PlaceInv
<1>2. features' = features /\ folder' = folder /\ held' = held /\ writes' = writes
  BY DEF Reply
<1>3. CASE asked.kind = "detection"
  <2>1. PICK done \in BOOLEAN : ~done /\ asked' = Skip(asked, done)
    BY <1>3 DEF Reply, Broken, Skip
  <2>2. /\ Replied /\ Gathered /\ asked'.pc = "visit" /\ asked'.phase = asked.phase
        /\ asked'.leaf = asked.leaf /\ asked'.todo = asked.todo \ {asked.leaf}
        /\ ~asked'.complete /\ Grown
    <3>1. /\ asked' \in AskedType /\ asked'.pc = "visit" /\ asked'.complete = done
          /\ asked'.todo = asked.todo \ {asked.leaf} /\ asked'.leaf = asked.leaf
          /\ asked'.kind = asked.kind /\ asked'.id = asked.id /\ asked'.source = asked.source
          /\ asked'.items = asked.items /\ asked'.graves = asked.graves
          /\ asked'.linked = asked.linked /\ asked'.phase = asked.phase
          /\ asked'.entries = asked.entries /\ asked'.points = asked.points
          /\ asked'.builds = asked.builds
      BY <1>1, <2>1, Skipped
    <3>2. Grown
      BY <1>1, <3>1, AskedParts DEF Grown
    <3> QED BY <1>2, <2>1, <3>1, <3>2 DEF Replied, Gathered
  <2> QED BY <1>1, <1>3, <2>2, NextKeeps
<1>4. CASE asked.kind # "detection"
  <2>1. asked' = Stop(asked)
    BY <1>4 DEF Reply, Broken
  <2>2. /\ Replied /\ Gathered /\ asked'.pc = "answer" /\ asked'.phase = asked.phase
        /\ asked'.leaf = asked.leaf /\ asked'.todo = asked.todo /\ ~asked'.complete /\ Grown
    <3>1. /\ asked' \in AskedType /\ asked'.pc = "answer" /\ ~asked'.complete
          /\ asked'.kind = asked.kind /\ asked'.id = asked.id /\ asked'.source = asked.source
          /\ asked'.items = asked.items /\ asked'.graves = asked.graves
          /\ asked'.linked = asked.linked /\ asked'.phase = asked.phase
          /\ asked'.leaf = asked.leaf /\ asked'.todo = asked.todo
          /\ asked'.entries = asked.entries /\ asked'.points = asked.points
          /\ asked'.builds = asked.builds
      BY <1>1, <2>1, Stopped
    <3>2. Grown
      BY <1>1, <3>1, AskedParts DEF Grown
    <3> QED BY <1>2, <3>1, <3>2 DEF Replied, Gathered
  <2> QED BY <1>1, <2>2, ExcuseStays, StopKeeps
<1> QED BY <1>3, <1>4

LEMMA VisitLayerKeeps ==
    ASSUME LinkInv, VisitLayer
    PROVE  LinkInv'
<1>1. asked.pc = "visit" /\ asked \in AskedType
  BY DEF VisitLayer, LinkInv, LinkTypes
<1> DEFINE r(i) == [asked EXCEPT !.leaf = i, !.entries = @ + 1]
           inside(i) == [r(i) EXCEPT !.points = @ + 1, !.phase = "rows",
                             !.pc = IF r(i).kind = "boxes" THEN "layer" ELSE "check",
                             !.check = IF r(i).kind = "boxes" THEN "ensure" ELSE "need"]
<1>2. PICK i \in asked.todo :
         Reply(IF r(i).entries > MaxEntries THEN Stop(r(i))
               ELSE IF folder[Overlays[i]] = "gone"
               THEN (IF r(i).kind = "boxes" THEN Stop(r(i)) ELSE NextLayer(r(i)))
               ELSE IF folder[Overlays[i]] = "hidden" THEN Broken(r(i))
               ELSE IF ~Counting(Overlays[i], r(i)) THEN NextLayer(r(i))
               ELSE IF inside(i).points > MaxPoints THEN Stop(r(i)) ELSE inside(i))
  BY DEF VisitLayer
<1> DEFINE s == Overlays[i]
           req == r(i)
           more == asked.entries + 1
<1>3. /\ features' = features /\ folder' = folder /\ held' = held /\ writes' = writes
      /\ i \in DOMAIN Overlays /\ i \in Nat /\ s \in Sheet /\ more \in Nat
      /\ {asked.entries, asked.points, asked.builds} \subseteq Nat
  BY <1>1, <1>2, AskedParts, OverlaysAreSheets DEF Reply, Sheet
<1>4. /\ req \in AskedType /\ req.kind = asked.kind /\ req.id = asked.id
      /\ req.source = asked.source /\ req.items = asked.items /\ req.graves = asked.graves
      /\ req.linked = asked.linked /\ req.todo = asked.todo /\ req.leaf = i
      /\ req.phase = asked.phase /\ req.complete = asked.complete /\ req.entries = more
      /\ req.points = asked.points /\ req.builds = asked.builds /\ req.pc = asked.pc
  <2>1. req = [asked EXCEPT !.leaf = i, !.entries = more]
    BY <1>1 DEF AskedType
  <2> HIDE DEF req, more
  <2> QED BY <1>1, <1>3, <2>1 DEF AskedType
<1>5. Counting(s, req) <=> Counting(s, asked)
  BY <1>4 DEF Counting, Concerns
<1>6. held.calm /\ (more > MaxEntries \/ asked.points + 1 > MaxPoints \/ folder[s] # "here")
        => \/ \E q \in Sheet : folder[q] # "here"
           \/ more > MaxEntries \/ asked.points >= MaxPoints
  BY <1>3, LimitsAreNumbers
<1> HIDE DEF req, s
<1>7. ASSUME asked' = Stop(req),
             more > MaxEntries \/ asked.points + 1 > MaxPoints \/ folder[s] # "here"
      PROVE  LinkInv'
  <2>1. /\ Replied /\ Gathered /\ asked'.pc = "answer" /\ asked'.phase = asked.phase
        /\ asked'.todo = asked.todo /\ ~asked'.complete /\ asked'.entries = more
        /\ asked'.points = asked.points
    <3>1. /\ asked' \in AskedType /\ asked'.pc = "answer" /\ ~asked'.complete
          /\ asked'.kind = req.kind /\ asked'.id = req.id /\ asked'.source = req.source
          /\ asked'.items = req.items /\ asked'.graves = req.graves
          /\ asked'.linked = req.linked /\ asked'.phase = req.phase
          /\ asked'.leaf = req.leaf /\ asked'.todo = req.todo
          /\ asked'.entries = req.entries /\ asked'.points = req.points
          /\ asked'.builds = req.builds
      BY <1>4, <1>7, Stopped
    <3> QED BY <1>3, <1>4, <3>1 DEF Replied, Gathered
  <2>2. held.calm => Excused'
    BY <1>3, <1>6, <1>7, <2>1 DEF Excused
  <2> QED BY <1>1, <1>2, <2>1, <2>2, StopKeeps DEF Inner
<1>8. ASSUME NEW done \in BOOLEAN, asked' = Skip(req, done),
             done => asked.complete /\ (folder[s] # "here" \/ ~Counting(s, asked)),
             asked.kind = "boxes" => done = asked.complete,
             asked.complete /\ ~done => folder[s] # "here"
      PROVE  LinkInv'
  <2>1. /\ Replied /\ Gathered /\ asked'.pc = "visit" /\ asked'.phase = asked.phase
        /\ asked'.leaf = i /\ asked'.todo = asked.todo \ {i} /\ asked'.complete = done
        /\ asked'.entries = more /\ asked'.points = asked.points /\ asked'.builds = asked.builds
    <3>1. /\ asked' \in AskedType /\ asked'.pc = "visit" /\ asked'.complete = done
          /\ asked'.todo = req.todo \ {req.leaf} /\ asked'.leaf = req.leaf
          /\ asked'.kind = req.kind /\ asked'.id = req.id /\ asked'.source = req.source
          /\ asked'.items = req.items /\ asked'.graves = req.graves
          /\ asked'.linked = req.linked /\ asked'.phase = req.phase
          /\ asked'.entries = req.entries /\ asked'.points = req.points
          /\ asked'.builds = req.builds
      BY <1>4, <1>8, Skipped
    <3> QED BY <1>3, <1>4, <3>1 DEF Replied, Gathered
  <2>2. Grown
    BY <1>3, <2>1 DEF Grown
  <2>3. asked'.complete => /\ \A c \in held.steady : c[1] # Overlays[asked'.leaf]
                           /\ \A g \in held.graves : g # Overlays[asked'.leaf]
    BY <1>1, <1>8, <2>1, LeftOut DEF s
  <2>4. asked.complete /\ ~asked'.complete => Excused
    BY <1>3, <1>8, <2>1 DEF Excused
  <2> QED BY <1>1, <1>2, <1>8, <2>1, <2>2, <2>3, <2>4, NextKeeps DEF Inner
<1>9. ASSUME asked' = NextLayer(req), folder[s] # "here" \/ ~Counting(s, asked)
      PROVE  LinkInv'
  <2>1. NextLayer(req) = Skip(req, asked.complete)
    BY <1>4 DEF Skip, NextLayer, AskedType
  <2>2. asked.complete \in BOOLEAN
    BY <1>1, AskedParts
  <2> QED BY <1>8, <1>9, <2>1, <2>2
<1>10. ASSUME asked' = inside(i), folder[s] = "here", Counting(s, asked)
       PROVE  LinkInv'
  <2> DEFINE boxes == asked.kind = "boxes"
             pc == IF boxes THEN "layer" ELSE "check"
             mode == IF boxes THEN "ensure" ELSE "need"
             points == asked.points + 1
  <2>1. /\ pc \in {"layer", "check"} /\ mode \in {"ensure", "need"} /\ points \in Nat
        /\ points >= asked.points /\ more >= asked.entries
    BY <1>3
  <2>2. asked' = [req EXCEPT !.points = points, !.phase = "rows", !.pc = pc, !.check = mode]
    BY <1>4, <1>10 DEF req
  <2> HIDE DEF pc, mode, points, more
  <2>3. /\ Replied /\ Gathered /\ asked'.pc = pc /\ asked'.phase = "rows"
        /\ asked'.leaf = i /\ asked'.todo = asked.todo /\ asked'.complete = asked.complete
        /\ asked'.entries = more /\ asked'.points = points /\ asked'.builds = asked.builds
        /\ asked'.check = mode
    <3>1. pc \in Pcs /\ mode \in {"need", "ensure", "read"}
      BY <2>1 DEF Pcs, Inner
    <3>2. /\ asked' \in AskedType /\ asked'.kind = req.kind /\ asked'.id = req.id
          /\ asked'.source = req.source /\ asked'.items = req.items
          /\ asked'.graves = req.graves /\ asked'.linked = req.linked
      BY <1>4, <2>1, <2>2, <3>1 DEF AskedType
    <3>3. /\ asked'.pc = pc /\ asked'.phase = "rows" /\ asked'.leaf = i
          /\ asked'.todo = asked.todo /\ asked'.complete = asked.complete
          /\ asked'.entries = more /\ asked'.points = points
          /\ asked'.builds = asked.builds /\ asked'.check = mode
      BY <1>4, <2>2 DEF AskedType
    <3> QED BY <1>3, <1>4, <3>2, <3>3 DEF Replied, Gathered
  <2>4. Grown
    BY <1>3, <2>1, <2>3 DEF Grown
  <2>5. Pending = asked.todo /\ Pending' = asked.todo
    BY <1>1, <2>3 DEF LinkInv, PlaceInv, Pending
  <2>6. Concerns(s, asked) /\ Bearing(s, asked) \subseteq held.ever
    BY <1>1, <1>3, <1>10 DEF Counting, LinkInv, HeldInv, Bearers
  <2>7. PlaceInv'
    <3>1. Leaf' = s /\ asked'.kind = asked.kind
      BY <2>3 DEF Leaf, s, Replied
    <3>2. Concerns(s, asked') /\ Counting(s, asked') /\ Bearing(s, asked') = Bearing(s, asked)
      BY <1>10, <2>3, <2>6 DEF Concerns, Counting, Bearing, Replied
    <3>3. /\ Concerns(Leaf, asked)' /\ Counting(Leaf, asked)' /\ folder'[Leaf'] = "here"
          /\ Bearing(Leaf, asked)' \subseteq held'.ever
      BY <1>3, <1>10, <2>6, <3>1, <3>2 DEF Concerns, Counting, Bearing
    <3>4. \A k \in asked'.todo : folder'[Overlays[k]] # "absent"
      BY <1>3, <2>3 DEF LinkInv, PlaceInv
    <3> QED BY <1>2, <2>3, <3>1, <3>3, <3>4 DEF PlaceInv, pc, mode
  <2>8. FoundInv'
    BY <1>3, <2>3, <2>5 DEF LinkInv, FoundInv, Gathered, Carried
  <2>9. CoverInv'
    BY <1>1, <1>3, <2>3, <2>5 DEF LinkInv, CoverInv, Gathered, Carried, Replied
  <2>10. EndInv' /\ ReasonInv'
    <3>1. asked'.pc \notin {"answer", "answered"}
      BY <2>1, <2>3
    <3> QED BY <1>1, <1>3, <2>3, <2>4, <3>1, ExcuseStays
            DEF LinkInv, EndInv, ReasonInv, Gathered, Replied
  <2> QED BY <1>1, <2>1, <2>3, <2>7, <2>8, <2>9, <2>10, ReplyKeeps
<1>11. CASE req.entries > MaxEntries
  BY <1>2, <1>4, <1>7, <1>11 DEF Reply, req, s
<1>12. CASE ~(req.entries > MaxEntries) /\ folder[s] = "gone"
  <2>1. asked' = IF req.kind = "boxes" THEN Stop(req) ELSE NextLayer(req)
    BY <1>2, <1>12 DEF Reply, req, s
  <2> QED BY <1>7, <1>9, <1>12, <2>1
<1>13. CASE ~(req.entries > MaxEntries) /\ folder[s] = "hidden"
  <2>1. asked' = Broken(req)
    BY <1>2, <1>13 DEF Reply, req, s
  <2>2. CASE req.kind = "detection"
    <3>1. asked' = Skip(req, FALSE)
      BY <2>1, <2>2 DEF Broken, Skip
    <3> QED BY <1>4, <1>8, <1>13, <2>2, <3>1
  <2>3. CASE req.kind # "detection"
    BY <1>7, <1>13, <2>1, <2>3 DEF Broken
  <2> QED BY <2>2, <2>3
<1>14. CASE ~(req.entries > MaxEntries) /\ folder[s] \notin {"gone", "hidden"} /\ ~Counting(s, req)
  <2>1. asked' = NextLayer(req)
    BY <1>2, <1>14 DEF Reply, req, s
  <2> QED BY <1>5, <1>9, <1>14, <2>1
<1>15. CASE ~(req.entries > MaxEntries) /\ folder[s] \notin {"gone", "hidden"} /\ Counting(s, req)
  <2>1. inside(i).points = asked.points + 1
    BY <1>1, <1>4 DEF AskedType, req
  <2>2. folder[s] = "here"
    BY <1>2, <1>3, <1>15 DEF LinkInv, PlaceInv, LinkTypes, s
  <2>3. asked' = IF asked.points + 1 > MaxPoints THEN Stop(req) ELSE inside(i)
    BY <1>2, <1>15, <2>1 DEF Reply, req, s
  <2> QED BY <1>5, <1>7, <1>10, <1>15, <2>2, <2>3
<1> QED BY <1>11, <1>12, <1>13, <1>14, <1>15

\* Where a step inside a layer leads.
LEMMA PlaceKeeps ==
    ASSUME LinkInv, asked.pc \in Inner, Replied, asked'.leaf = asked.leaf,
           asked'.todo = asked.todo, asked'.phase = asked.phase,
           asked'.pc \in Inner \ {"layer"}, asked.kind = "boxes" => asked'.check # "need",
           asked'.pc \in {"revision", "rows"} => asked.phase = "rows",
           asked'.pc = "tombs" => asked.phase = "tombs",
           asked'.pc = "mark" /\ held.calm => asked'.saw = features[Leaf].revision,
           asked'.pc \in {"check", "mark"} /\ asked'.check = "read" => features[Leaf].indexed,
           asked'.pc \in {"revision", "rows", "tombs"} => features[Leaf].indexed,
           asked'.pc = "rows" => asked'.revision <= features[Leaf].revision
    PROVE  PlaceInv'
<1>1. Leaf' = Leaf
  BY DEF Leaf
<1>2. /\ Concerns(Leaf, asked)' = Concerns(Leaf, asked)
      /\ Counting(Leaf, asked)' = Counting(Leaf, asked)
      /\ Bearing(Leaf, asked)' = Bearing(Leaf, asked)
  BY <1>1 DEF Replied, Concerns, Counting, Bearing
<1>3. asked'.pc # "visit" /\ asked'.pc # "layer"
  BY DEF Inner
<1> QED BY <1>1, <1>2, <1>3 DEF LinkInv, PlaceInv, Replied

\* The layer a request is in.
LEMMA LeafFacts ==
    ASSUME LinkInv, asked.pc \in Inner
    PROVE  /\ asked \in AskedType /\ asked.leaf \in asked.todo /\ Leaf \in Sheet
           /\ features[Leaf] \in Stores /\ Sound(features[Leaf])
           /\ features[Leaf].rows \in RowsType /\ features[Leaf].revision \in Nat
<1>1. asked \in AskedType /\ asked.leaf \in asked.todo /\ asked.todo \subseteq DOMAIN Overlays
  BY AskedParts DEF LinkInv, LinkTypes, PlaceInv
<1>2. Leaf \in Sheet
  BY <1>1 DEF Leaf, Sheet
<1>3. features[Leaf] \in Stores /\ Sound(features[Leaf])
  BY <1>2 DEF LinkInv, LinkTypes, StoreInv
<1> QED BY <1>1, <1>2, <1>3 DEF Stores, RowsType

\* A layer that is gone was not here all the time.
LEMMA GoneExcuses ==
    ASSUME LinkInv, asked.pc \in Inner, folder[Leaf] = "gone"
    PROVE  held.calm => Excused
<1> QED BY LeafFacts DEF Excused

LEMMA ReadLayerKeeps ==
    ASSUME LinkInv, ReadLayer
    PROVE  LinkInv'
<1> DEFINE rows == features[Leaf].rows
           linked == {<<Leaf, x>> : x \in {y \in LiveIn(rows) : asked.id \in rows[y].det}}
<1>1. /\ asked.pc = "layer" /\ asked.pc \in Inner
      /\ Reply(IF folder[Leaf] = "gone" THEN Stop(asked)
               ELSE [asked EXCEPT !.pc = "check", !.linked = linked])
  BY DEF ReadLayer, Inner
<1>2. features' = features /\ folder' = folder /\ held' = held /\ writes' = writes
  BY <1>1 DEF Reply
<1>3. asked.kind = "boxes" /\ asked.phase = "rows" /\ asked.check = "ensure"
  BY <1>1 DEF LinkInv, PlaceInv
<1>4. CASE folder[Leaf] = "gone"
  <2>1. Broken(asked) = Stop(asked)
    BY <1>3 DEF Broken
  <2> QED BY <1>1, <1>4, <2>1, BrokenKeeps, GoneExcuses
<1>5. CASE folder[Leaf] # "gone"
  <2>1. linked \subseteq Rows(held.ever) /\ linked \in SomePlaces
    <3> SUFFICES ASSUME NEW x \in LiveIn(rows), asked.id \in rows[x].det
                 PROVE <<Leaf, x>> \in Rows(held.ever) /\ <<Leaf, x>> \in Sheet \X Object
      BY DEF SomePlaces
    <3>1. <<Leaf, x, rows[x].pole>> \in Bearing(Leaf, asked)
      BY <1>3 DEF Bearing, Carrying
    <3>2. <<Leaf, x, rows[x].pole>> \in held.ever
      BY <1>1, <3>1 DEF LinkInv, PlaceInv
    <3>3. x \in Object /\ Leaf \in Sheet
      BY <1>1, LeafFacts, LiveFacts
    <3> QED BY <3>2, <3>3 DEF Rows
  <2> HIDE DEF linked
  <2>2. asked' = [asked EXCEPT !.pc = "check", !.linked = linked]
    BY <1>1, <1>5 DEF Reply
  <2>3. /\ Replied /\ asked'.pc = "check" /\ asked'.linked = linked /\ asked'.items = asked.items
        /\ asked'.graves = asked.graves /\ asked'.phase = asked.phase
        /\ asked'.leaf = asked.leaf /\ asked'.todo = asked.todo
        /\ asked'.complete = asked.complete /\ asked'.check = asked.check
        /\ asked'.entries = asked.entries /\ asked'.points = asked.points
        /\ asked'.builds = asked.builds
    <3>1. asked \in AskedType /\ "check" \in Pcs
      BY <1>1, LeafFacts DEF Pcs, Inner
    <3>2. /\ asked' \in AskedType /\ asked'.kind = asked.kind /\ asked'.id = asked.id
          /\ asked'.source = asked.source
      BY <2>1, <2>2, <3>1 DEF AskedType
    <3>3. /\ asked'.pc = "check" /\ asked'.linked = linked /\ asked'.items = asked.items
          /\ asked'.graves = asked.graves /\ asked'.phase = asked.phase
          /\ asked'.leaf = asked.leaf /\ asked'.todo = asked.todo
          /\ asked'.complete = asked.complete /\ asked'.check = asked.check
          /\ asked'.entries = asked.entries /\ asked'.points = asked.points
          /\ asked'.builds = asked.builds
      BY <2>2, <3>1 DEF AskedType
    <3> QED BY <1>2, <3>2, <3>3 DEF Replied
  <2>4. Grown
    BY <1>1, <2>3, LeafFacts, AskedParts DEF Grown
  <2>5. PlaceInv'
    BY <1>1, <1>3, <2>3, PlaceKeeps DEF Inner
  <2> QED BY <1>1, <2>1, <2>3, <2>4, <2>5, MoveKeeps DEF Inner
<1> QED BY <1>4, <1>5

LEMMA CheckRevisionKeeps ==
    ASSUME LinkInv, CheckRevision
    PROVE  LinkInv'
<1>1. /\ asked.pc = "check" /\ asked.pc \in Inner
      /\ Reply(IF folder[Leaf] = "gone" THEN Broken(asked)
               ELSE [asked EXCEPT !.pc = "mark", !.saw = features[Leaf].revision])
  BY DEF CheckRevision, Inner
<1>2. features' = features /\ folder' = folder /\ held' = held /\ writes' = writes
  BY <1>1 DEF Reply
<1>3. CASE folder[Leaf] = "gone"
  BY <1>1, <1>3, BrokenKeeps, GoneExcuses
<1>4. CASE folder[Leaf] # "gone"
  <2> DEFINE saw == features[Leaf].revision
  <2>1. saw \in Nat
    BY <1>1, LeafFacts
  <2>2. asked' = [asked EXCEPT !.pc = "mark", !.saw = saw]
    BY <1>1, <1>4 DEF Reply
  <2> HIDE DEF saw
  <2>3. /\ Replied /\ Gathered /\ asked'.pc = "mark" /\ asked'.phase = asked.phase
        /\ asked'.leaf = asked.leaf /\ asked'.todo = asked.todo
        /\ asked'.complete = asked.complete /\ asked'.check = asked.check /\ asked'.saw = saw
        /\ asked'.entries = asked.entries /\ asked'.points = asked.points
        /\ asked'.builds = asked.builds
    <3>1. asked \in AskedType /\ "mark" \in Pcs
      BY <1>1, LeafFacts DEF Pcs, Inner
    <3>2. /\ asked' \in AskedType /\ asked'.kind = asked.kind /\ asked'.id = asked.id
          /\ asked'.source = asked.source /\ asked'.items = asked.items
          /\ asked'.graves = asked.graves /\ asked'.linked = asked.linked
      BY <2>1, <2>2, <3>1 DEF AskedType
    <3>3. /\ asked'.pc = "mark" /\ asked'.phase = asked.phase
          /\ asked'.leaf = asked.leaf /\ asked'.todo = asked.todo
          /\ asked'.complete = asked.complete /\ asked'.check = asked.check /\ asked'.saw = saw
          /\ asked'.entries = asked.entries /\ asked'.points = asked.points
          /\ asked'.builds = asked.builds
      BY <2>2, <3>1 DEF AskedType
    <3> QED BY <1>2, <3>2, <3>3 DEF Replied, Gathered
  <2>4. Grown
    BY <1>1, <2>3, LeafFacts, AskedParts DEF Grown
  <2>5. /\ asked.kind = "boxes" => asked.check # "need"
        /\ asked.check = "read" => features[Leaf].indexed
    BY <1>1 DEF LinkInv, PlaceInv
  <2>6. PlaceInv'
    BY <1>1, <2>3, <2>5, PlaceKeeps DEF Inner, saw
  <2> QED BY <1>1, <2>3, <2>4, <2>6, MoveKeeps DEF Inner, Gathered, LinkInv, FoundInv
<1> QED BY <1>3, <1>4

LEMMA CheckMarkKeeps ==
    ASSUME LinkInv, CheckMark
    PROVE  LinkInv'
<1> DEFINE ok == features[Leaf].indexed /\ features[Leaf].mark = asked.saw
           more == asked.builds + 1
           counted == [asked EXCEPT !.builds = @ + 1]
<1>1. /\ asked.pc = "mark" /\ asked.pc \in Inner /\ asked \in AskedType
      /\ features' = features /\ folder' = folder /\ held' = held /\ writes' = writes
      /\ asked.leaf \in asked.todo
      /\ asked.check \in {"need", "ensure", "read"} /\ asked.phase \in {"rows", "tombs"}
  BY LeafFacts, AskedParts DEF CheckMark, Inner, Reply
<1>2. asked' =
        CASE asked.check = "need" /\ ok -> [asked EXCEPT !.pc = "check", !.check = "ensure"]
          [] asked.check = "need" /\ ~ok ->
                IF counted.builds > MaxMigrations THEN Stop(counted)
                ELSE [counted EXCEPT !.pc = "check", !.check = "ensure"]
          [] asked.check = "ensure" /\ ok -> [asked EXCEPT !.pc = "check", !.check = "read"]
          [] asked.check = "ensure" /\ ~ok -> [asked EXCEPT !.pc = "build"]
          [] asked.check = "read" /\ ~ok -> Broken(asked)
          [] OTHER -> [asked EXCEPT !.pc = IF asked.phase = "rows" THEN "revision" ELSE "tombs"]
  BY DEF CheckMark, Reply
<1>3. /\ asked.kind = "boxes" => asked.check # "need"
      /\ asked.check = "read" => features[Leaf].indexed
      /\ held.calm => asked.saw = features[Leaf].revision
  BY <1>1 DEF LinkInv, PlaceInv
<1>4. more \in Nat /\ more >= asked.builds /\ asked.builds \in Nat /\ counted = [asked EXCEPT !.builds = more]
  BY <1>1, AskedParts
<1>5. counted.builds = more /\ counted \in AskedType
  <2> HIDE DEF counted, more
  <2> QED BY <1>1, <1>4 DEF AskedType
<1>6. features[Leaf].indexed => features[Leaf].mark = features[Leaf].revision
  BY <1>1, LeafFacts, SoundParts
<1> HIDE DEF ok, counted, more
\* Any outcome that goes on in the layer.
<1>7. ASSUME NEW pc \in {"check", "build", "revision", "tombs"}, NEW where \in {"need", "ensure", "read"},
             NEW n \in {asked.builds, more},
             asked' = [asked EXCEPT !.pc = pc, !.check = where, !.builds = n],
             asked.kind = "boxes" => where # "need",
             pc = "check" /\ where = "read" => ok, pc \in {"revision", "tombs"} => ok,
             pc = "revision" => asked.phase = "rows", pc = "tombs" => asked.phase = "tombs"
      PROVE  LinkInv'
  <2>1. /\ Replied /\ Gathered /\ asked'.pc = pc /\ asked'.phase = asked.phase
        /\ asked'.leaf = asked.leaf /\ asked'.todo = asked.todo
        /\ asked'.complete = asked.complete /\ asked'.check = where
        /\ asked'.entries = asked.entries /\ asked'.points = asked.points /\ asked'.builds = n
    <3>1. pc \in Pcs /\ n \in Nat
      BY <1>4 DEF Pcs, Inner
    <3>2. /\ asked' \in AskedType /\ asked'.kind = asked.kind /\ asked'.id = asked.id
          /\ asked'.source = asked.source /\ asked'.items = asked.items
          /\ asked'.graves = asked.graves /\ asked'.linked = asked.linked
      BY <1>1, <1>7, <3>1 DEF AskedType
    <3>3. /\ asked'.pc = pc /\ asked'.phase = asked.phase
          /\ asked'.leaf = asked.leaf /\ asked'.todo = asked.todo
          /\ asked'.complete = asked.complete /\ asked'.check = where
          /\ asked'.entries = asked.entries /\ asked'.points = asked.points /\ asked'.builds = n
      BY <1>1, <1>7 DEF AskedType
    <3> QED BY <1>1, <3>2, <3>3 DEF Replied, Gathered
  <2>2. Grown
    BY <1>1, <1>4, <2>1, AskedParts DEF Grown
  <2>3. PlaceInv'
    BY <1>1, <1>7, <2>1, PlaceKeeps DEF Inner, ok
  <2> QED BY <1>1, <2>1, <2>2, <2>3, MoveKeeps DEF Inner, Gathered, LinkInv, FoundInv
<1>8. CASE asked.check = "need" /\ ok
  <2>1. asked' = [asked EXCEPT !.pc = "check", !.check = "ensure", !.builds = asked.builds]
    BY <1>1, <1>2, <1>8 DEF AskedType
  <2> QED BY <1>7, <2>1
<1>9. CASE asked.check = "need" /\ ~ok /\ ~(counted.builds > MaxMigrations)
  <2>1. asked' = [asked EXCEPT !.pc = "check", !.check = "ensure", !.builds = more]
    BY <1>1, <1>2, <1>4, <1>9 DEF AskedType
  <2> QED BY <1>7, <2>1
<1>10. CASE asked.check = "need" /\ ~ok /\ counted.builds > MaxMigrations
  <2>1. /\ counted.kind = asked.kind /\ counted.id = asked.id /\ counted.source = asked.source
        /\ counted.items = asked.items /\ counted.graves = asked.graves
        /\ counted.linked = asked.linked /\ counted.phase = asked.phase
        /\ counted.leaf = asked.leaf /\ counted.todo = asked.todo
    BY <1>1, <1>4 DEF AskedType
  <2>2. /\ Replied /\ Gathered /\ asked'.pc = "answer" /\ asked'.phase = asked.phase
        /\ asked'.leaf = asked.leaf /\ asked'.todo = asked.todo /\ ~asked'.complete
        /\ asked'.builds = more
    <3>1. /\ asked' \in AskedType /\ asked'.pc = "answer" /\ ~asked'.complete
          /\ asked'.kind = counted.kind /\ asked'.id = counted.id /\ asked'.source = counted.source
          /\ asked'.items = counted.items /\ asked'.graves = counted.graves
          /\ asked'.linked = counted.linked /\ asked'.phase = counted.phase
          /\ asked'.leaf = counted.leaf /\ asked'.todo = counted.todo
          /\ asked'.entries = counted.entries /\ asked'.points = counted.points
          /\ asked'.builds = counted.builds
      BY <1>1, <1>2, <1>5, <1>10, Stopped
    <3> QED BY <1>1, <1>2, <1>4, <1>5, <2>1, <3>1 DEF Replied, Gathered
  <2>3. Excused'
    BY <1>5, <1>10, <2>2 DEF Excused
  <2> QED BY <1>1, <2>2, <2>3, StopKeeps
<1>11. CASE asked.check = "ensure" /\ ok
  <2>1. asked' = [asked EXCEPT !.pc = "check", !.check = "read", !.builds = asked.builds]
    BY <1>1, <1>2, <1>11 DEF AskedType
  <2> QED BY <1>7, <1>11, <2>1
<1>12. CASE asked.check = "ensure" /\ ~ok
  <2>1. asked' = [asked EXCEPT !.pc = "build", !.check = "ensure", !.builds = asked.builds]
    BY <1>1, <1>2, <1>12 DEF AskedType
  <2> QED BY <1>7, <2>1
<1>13. CASE asked.check = "read" /\ ~ok
  <2>1. Reply(Broken(asked))
    BY <1>1, <1>2, <1>13 DEF Reply
  <2>2. ~held.calm
    BY <1>3, <1>6, <1>13 DEF ok
  <2> QED BY <1>1, <2>1, <2>2, BrokenKeeps
<1>14. CASE asked.check = "read" /\ ok
  <2> DEFINE pc == IF asked.phase = "rows" THEN "revision" ELSE "tombs"
  <2>1. asked' = [asked EXCEPT !.pc = pc, !.check = "read", !.builds = asked.builds]
    BY <1>1, <1>2, <1>14 DEF AskedType
  <2> QED BY <1>1, <1>7, <1>14, <2>1
<1> QED BY <1>1, <1>8, <1>9, <1>10, <1>11, <1>12, <1>13, <1>14

\* A rebuild changes neither rows nor history.
LEMMA EnsureIndexKeeps ==
    ASSUME LinkInv, EnsureIndex
    PROVE  LinkInv'
<1>1. /\ asked.pc = "build" /\ asked.pc \in Inner /\ asked \in AskedType /\ Leaf \in Sheet
      /\ features \in [Sheet -> Stores] /\ \A s \in Sheet : Sound(features[s])
  BY LeafFacts DEF EnsureIndex, Inner, LinkInv, LinkTypes, StoreInv
<1>2. CASE folder[Leaf] = "gone"
  BY <1>1, <1>2, BrokenKeeps, GoneExcuses DEF EnsureIndex
<1>3. CASE folder[Leaf] # "gone"
  <2> DEFINE old == features[Leaf]
             new == IF IndexCurrent(Leaf) THEN old ELSE RebuildIndex(old)
  <2>1. /\ asked' = [asked EXCEPT !.pc = "check", !.check = "read"]
        /\ features' = [features EXCEPT ![Leaf] = new]
        /\ folder' = folder /\ held' = held /\ writes' = writes
    BY <1>3 DEF EnsureIndex
  <2>2. /\ Sound(new) /\ new.indexed /\ new.rows = old.rows /\ new.fields = old.fields
        /\ new.buried = old.buried /\ new.revision = old.revision
    BY <1>1, RebuildSound DEF IndexCurrent
  <2> HIDE DEF new
  <2>3. ASSUME NEW s \in Sheet
        PROVE  /\ Sound(features'[s]) /\ features'[s].rows = features[s].rows
               /\ features'[s].fields = features[s].fields
               /\ features'[s].buried = features[s].buried
               /\ features'[s].revision = features[s].revision
    BY <1>1, <2>1, <2>2
  <2>4. features' \in [Sheet -> Stores] /\ features'[Leaf].indexed
    BY <1>1, <2>1, <2>2 DEF Sound
  <2>5. /\ asked' \in AskedType /\ asked'.pc = "check" /\ asked'.kind = asked.kind
        /\ asked'.id = asked.id /\ asked'.source = asked.source /\ asked'.items = asked.items
        /\ asked'.graves = asked.graves /\ asked'.linked = asked.linked
        /\ asked'.phase = asked.phase /\ asked'.leaf = asked.leaf /\ asked'.todo = asked.todo
        /\ asked'.complete = asked.complete /\ asked'.check = "read"
        /\ asked'.entries = asked.entries /\ asked'.points = asked.points
        /\ asked'.builds = asked.builds
    <3>1. "check" \in Pcs
      BY DEF Pcs, Inner
    <3>2. /\ asked' \in AskedType /\ asked'.kind = asked.kind
          /\ asked'.id = asked.id /\ asked'.source = asked.source /\ asked'.items = asked.items
          /\ asked'.graves = asked.graves /\ asked'.linked = asked.linked
      BY <1>1, <2>1, <3>1 DEF AskedType
    <3>3. /\ asked'.phase = asked.phase /\ asked'.leaf = asked.leaf /\ asked'.todo = asked.todo
          /\ asked'.complete = asked.complete /\ asked'.check = "read" /\ asked'.pc = "check"
          /\ asked'.entries = asked.entries /\ asked'.points = asked.points
          /\ asked'.builds = asked.builds
      BY <1>1, <2>1 DEF AskedType
    <3> QED BY <3>2, <3>3
  <2>6. Leaf' = Leaf /\ Pending' = Pending
    BY <2>5 DEF Leaf, Pending
  <2>7. /\ \A s \in Sheet : /\ Bearing(s, asked)' = Bearing(s, asked)
                            /\ Concerns(s, asked)' = Concerns(s, asked)
                            /\ Counting(s, asked)' = Counting(s, asked)
        /\ Carriers(asked)' = Carriers(asked) /\ Bearers(asked)' = Bearers(asked)
        /\ Graves(asked)' = Graves(asked)
    <3>1. ASSUME NEW s \in Sheet
          PROVE /\ Bearing(s, asked)' = Bearing(s, asked)
                /\ Concerns(s, asked)' = Concerns(s, asked)
                /\ Counting(s, asked)' = Counting(s, asked)
      BY <2>3, <2>5 DEF Bearing, Concerns, Counting
    <3>2. Carriers(asked)' = Carriers(asked)
      BY <2>1, <3>1 DEF Carriers
    <3>3. Bearers(asked)' = Bearers(asked)
      BY <2>1, <3>1 DEF Bearers
    <3>4. Graves(asked)' = Graves(asked)
      BY <2>1, <2>3, <2>5, <3>1 DEF Graves
    <3> QED BY <3>1, <3>2, <3>3, <3>4
  <2>8. LinkTypes'
    BY <2>1, <2>4, <2>5 DEF LinkTypes, LinkInv
  <2>9. StoreInv' /\ HeldInv' /\ IdleInv'
    BY <1>1, <2>1, <2>3, <2>5, <2>7 DEF StoreInv, HeldInv, IdleInv, LinkInv
  <2>10. PlaceInv'
    BY <1>1, <2>1, <2>4, <2>5, <2>6, <2>7 DEF PlaceInv, LinkInv, Inner
  <2>11. FoundInv' /\ CoverInv'
    BY <1>1, <2>1, <2>5, <2>6 DEF FoundInv, CoverInv, LinkInv, Carried, Inner
  <2>12. EndInv'
    BY <1>1, <2>5 DEF EndInv, LinkInv, Inner
  <2>13. ReasonInv'
    BY <2>1, <2>5 DEF ReasonInv, LinkInv, Excused
  <2> QED BY <2>8, <2>9, <2>10, <2>11, <2>12, <2>13 DEF LinkInv
<1> QED BY <1>2, <1>3

LEMMA ReadRevisionKeeps ==
    ASSUME LinkInv, ReadRevision
    PROVE  LinkInv'
<1> DEFINE revision == features[Leaf].revision
<1>1. /\ asked.pc = "revision" /\ asked.pc \in Inner /\ asked \in AskedType /\ revision \in Nat
      /\ asked' = [asked EXCEPT !.pc = "rows", !.revision = revision]
      /\ features' = features /\ folder' = folder /\ held' = held /\ writes' = writes
  BY LeafFacts DEF ReadRevision, Reply, Inner
<1> HIDE DEF revision
<1>2. /\ Replied /\ Gathered /\ asked'.pc = "rows" /\ asked'.phase = asked.phase
      /\ asked'.leaf = asked.leaf /\ asked'.todo = asked.todo
      /\ asked'.complete = asked.complete /\ asked'.revision = revision
      /\ asked'.check = asked.check
      /\ asked'.entries = asked.entries /\ asked'.points = asked.points
      /\ asked'.builds = asked.builds
  <2>1. "rows" \in Pcs
    BY DEF Pcs, Inner
  <2>2. /\ asked' \in AskedType /\ asked'.kind = asked.kind /\ asked'.id = asked.id
        /\ asked'.source = asked.source /\ asked'.items = asked.items
        /\ asked'.graves = asked.graves /\ asked'.linked = asked.linked
    BY <1>1, <2>1 DEF AskedType
  <2>3. /\ asked'.pc = "rows" /\ asked'.phase = asked.phase
        /\ asked'.leaf = asked.leaf /\ asked'.todo = asked.todo
        /\ asked'.complete = asked.complete /\ asked'.revision = revision
        /\ asked'.check = asked.check
        /\ asked'.entries = asked.entries /\ asked'.points = asked.points
        /\ asked'.builds = asked.builds
    BY <1>1 DEF AskedType
  <2> QED BY <1>1, <2>2, <2>3 DEF Replied, Gathered
<1>3. Grown
  BY <1>1, <1>2, AskedParts DEF Grown
<1>4. /\ asked.phase = "rows" /\ features[Leaf].indexed /\ revision <= features[Leaf].revision
      /\ asked.kind = "boxes" => asked.check # "need"
  BY <1>1 DEF LinkInv, PlaceInv, revision
<1>5. PlaceInv'
  BY <1>1, <1>2, <1>4, PlaceKeeps DEF Inner
<1> QED BY <1>1, <1>2, <1>3, <1>5, MoveKeeps DEF Inner, Gathered, LinkInv, FoundInv

\* A current index leads to the rows of a layer that carry the identifier, and to no other.
FoundIn(store) ==
    LET kind == IF asked.kind = "support" THEN "support" ELSE "detection"
    IN {x \in LiveIn(store.rows) :
            \E r \in store.refs : r[1] = kind /\ r[2] = asked.id /\ r[3] = x}

LEMMA IndexLeads ==
    ASSUME NEW store, Sound(store), store.indexed, asked.kind \in {"detection", "support", "boxes"},
           NEW x \in LiveIn(store.rows)
    PROVE  /\ x \in FoundIn(store) => asked.id \in Carrying(store.rows[x], asked.kind)
           /\ asked.id \in Carrying(store.rows[x], asked.kind) /\ asked.id # Zero => x \in FoundIn(store)
<1> DEFINE kind == IF asked.kind = "support" THEN "support" ELSE "detection"
           row == store.rows[x]
<1>1. store.rows \in RowsType /\ Mirror(store.refs, store.rows)
  BY SoundParts DEF Stores, RowsType
<1>2. ASSUME x \in FoundIn(store) PROVE asked.id \in Carrying(row, asked.kind)
  <2>1. PICK r \in store.refs : r[1] = kind /\ r[2] = asked.id /\ r[3] = x
    BY <1>2 DEF FoundIn
  <2>2. PICK y \in LiveIn(store.rows) : r \in RefsOf(y, store.rows[y])
    BY <1>1, <2>1, AllRefsOf DEF Mirror
  <2>3. y = x
    BY <2>1, <2>2, RefsNameRows
  <2>4. r \in RefsOf(x, row)
    BY <2>2, <2>3
  <2>5. CASE r \in {<<"detection", i, x, "property">> : i \in row.det}
    BY <2>1, <2>5 DEF Carrying
  <2>6. CASE r \in {<<"support", i, x, "property">> : i \in row.sup}
    BY <2>1, <2>6 DEF Carrying
  <2>7. CASE r \in {<<"detection", i, x, "provenance">> : i \in row.prov}
    BY <2>1, <2>7 DEF Carrying
  <2> QED BY <2>4, <2>5, <2>6, <2>7 DEF RefsOf, PropertyRefs, ProvenanceRefs
<1>3. ASSUME asked.id \in Carrying(row, asked.kind), asked.id # Zero PROVE x \in FoundIn(store)
  <2>1. PICK r \in RefsOf(x, row) : r[1] = kind /\ r[2] = asked.id /\ r[3] = x
    <3> DEFINE property == <<kind, asked.id, x, "property">>
               provenance == <<kind, asked.id, x, "provenance">>
    <3>1. property \in RefsOf(x, row) \/ provenance \in RefsOf(x, row)
      <4>1. CASE asked.kind = "support"
        BY <1>3, <4>1 DEF Carrying, RefsOf, PropertyRefs
      <4>2. CASE asked.kind # "support" /\ asked.id \in row.det
        BY <4>2 DEF RefsOf, PropertyRefs
      <4>3. CASE asked.kind # "support" /\ asked.id \in row.prov
        BY <4>3 DEF RefsOf, ProvenanceRefs
      <4> QED BY <1>3, <4>1, <4>2, <4>3 DEF Carrying
    <3> QED BY <3>1
  <2>2. r \in AllRefs(store.rows)
    BY <1>1, <2>1, AllRefsOf
  <2>3. r \in store.refs
    BY <1>1, <1>3, <2>1, <2>2 DEF Mirror
  <2> QED BY <2>1, <2>3 DEF FoundIn
<1> QED BY <1>2, <1>3

\* The history is finite.
LEMMA HistoryIsFinite ==
    /\ IsFiniteSet(Triples) /\ IsFiniteSet(Sheet \X Object)
<1>1. IsFiniteSet(Sheet \X Object)
  BY OverlaysAreSheets, FS_Product, Zenon
<1>2. IsFiniteSet(BOOLEAN)
  <2>1. IsFiniteSet({TRUE}) /\ IsFiniteSet({FALSE})
    BY FS_Singleton
  <2>2. IsFiniteSet({TRUE} \cup {FALSE})
    BY <2>1, FS_Union
  <2>3. BOOLEAN = {TRUE} \cup {FALSE}
    OBVIOUS
  <2> QED BY <2>2, <2>3
<1>3. IsFiniteSet((Sheet \X Object) \X BOOLEAN)
  BY <1>1, <1>2, FS_Product, Zenon
<1> DEFINE f == [t \in Triples |-> <<<<t[1], t[2]>>, t[3]>>]
<1>4. f \in Injection(Triples, (Sheet \X Object) \X BOOLEAN)
  BY DEF Triples, Injection, IsInjective
<1> HIDE DEF f
<1> QED BY <1>1, <1>3, <1>4, FS_Injection

\* What is found is not more than what it comes from.
LEMMA FoundIsFew ==
    ASSUME NEW some \in SUBSET Triples,
           NEW items \in SomeItems,
           \A i \in items : Carried(i) \in some,
           \A i, j \in items : i.at = j.at => i = j
    PROVE  /\ IsFiniteSet(items) /\ IsFiniteSet(some) /\ Cardinality(items) \in Nat
           /\ Cardinality(some) \in Nat /\ Cardinality(items) <= Cardinality(some)
<1> DEFINE f == [i \in items |-> Carried(i)]
<1>1. f \in Injection(items, some)
  <2>1. ASSUME NEW i \in items, NEW j \in items, Carried(i) = Carried(j) PROVE i = j
    <3>1. i.at \in Sheet \X Object /\ j.at \in Sheet \X Object
      BY DEF SomeItems
    <3>2. i.at = j.at
      BY <2>1, <3>1 DEF Carried
    <3> QED BY <3>2
  <2>2. f \in [items -> some]
    OBVIOUS
  <2> QED BY <2>1, <2>2 DEF Injection, IsInjective
<1> HIDE DEF f
<1>2. IsFiniteSet(some)
  BY HistoryIsFinite, FS_Subset
<1>3. IsFiniteSet(items) /\ Cardinality(items) <= Cardinality(some)
  BY <1>1, <1>2, FS_Injection
<1> QED BY <1>2, <1>3, FS_CardinalityType

LEMMA ReadRowsKeeps ==
    ASSUME LinkInv, ReadRows
    PROVE  LinkInv'
<1> DEFINE store == features[Leaf]
           item(x) == [at |-> <<Leaf, x>>, pole |-> store.rows[x].pole,
                       revision |-> asked.revision, seen |-> store.revision]
           all == asked.items \cup {item(x) : x \in FoundIn(store)}
           full == asked.complete /\ Cardinality(all) <= MaxCandidates
<1>1. /\ asked.pc = "rows" /\ asked.pc \in Inner /\ asked \in AskedType /\ Leaf \in Sheet
      /\ Sound(store) /\ store.rows \in RowsType /\ store.revision \in Nat
      /\ asked.leaf \in asked.todo /\ asked.leaf \in DOMAIN Overlays
      /\ asked.revision \in Nat /\ asked.complete \in BOOLEAN
  BY LeafFacts, AskedParts DEF ReadRows, Inner
<1>2. /\ features' = features /\ folder' = folder /\ held' = held /\ writes' = writes
      /\ asked' = IF asked.kind # "support"
                  THEN [asked EXCEPT !.items = all, !.phase = "tombs", !.pc = "check",
                                     !.check = "ensure",
                                     !.complete = @ /\ Cardinality(all) <= MaxCandidates]
                  ELSE IF Cardinality(all) > MaxSupported THEN Stop(asked)
                  ELSE NextLayer([asked EXCEPT !.items = all])
  BY DEF ReadRows, FoundIn, Reply
<1>3. /\ asked.phase = "rows" /\ store.indexed /\ asked.revision <= store.revision
      /\ Bearing(Leaf, asked) \subseteq held.ever /\ Concerns(Leaf, asked)
      /\ held.calm => folder[Leaf] = "here" /\ Counting(Leaf, asked)
      /\ \A k \in asked.todo : folder[Overlays[k]] # "absent"
  BY <1>1 DEF LinkInv, PlaceInv
<1>4. Pending = asked.todo /\ asked.kind \in {"detection", "support", "boxes"}
  BY <1>1, <1>3, AskedParts DEF Pending
<1> HIDE DEF store
<1>5. ASSUME NEW x \in FoundIn(store)
      PROVE  /\ x \in Object /\ store.rows[x].pole \in BOOLEAN
             /\ <<Leaf, x, store.rows[x].pole>> \in Bearing(Leaf, asked)
  <2>1. x \in LiveIn(store.rows)
    BY DEF FoundIn
  <2>2. asked.id \in Carrying(store.rows[x], asked.kind)
    BY <1>1, <1>3, <1>4, <2>1, IndexLeads
  <2>3. x \in Object /\ store.rows[x] \in FeatureRows
    BY <1>1, <2>1, LiveFacts
  <2> QED BY <2>1, <2>2, <2>3 DEF Bearing, FeatureRows, store
<1>6. all \in SomeItems
  <2>1. asked.items \subseteq [at : Sheet \X Object, pole : BOOLEAN, revision : Nat, seen : Nat]
    BY <1>1, AskedParts
  <2>2. ASSUME NEW x \in FoundIn(store)
        PROVE item(x) \in [at : Sheet \X Object, pole : BOOLEAN, revision : Nat, seen : Nat]
    <3>1. <<Leaf, x>> \in Sheet \X Object
      BY <1>1, <1>5
    <3> QED BY <1>1, <1>5, <3>1
  <2> QED BY <2>1, <2>2 DEF SomeItems
<1>7. ASSUME NEW i \in all
      PROVE  /\ Carried(i) \in held.ever /\ i.revision <= i.seen
             /\ held.calm => Carried(i) \in held.steady
             /\ \A k \in asked.todo \ {asked.leaf} : Overlays[k] # i.at[1]
             /\ \A j \in all : i.at = j.at => i = j
  <2>1. CASE i \in asked.items
    <3>1. \A k \in asked.todo : Overlays[k] # i.at[1]
      BY <1>4, <2>1 DEF LinkInv, FoundInv
    <3>2. i.at[1] # Leaf
      BY <1>1, <3>1 DEF Leaf
    <3>3. ASSUME NEW j \in all, i.at = j.at PROVE i = j
      <4>1. j \in asked.items
        BY <3>2, <3>3
      <4> QED BY <2>1, <3>3, <4>1 DEF LinkInv, FoundInv
    <3> QED BY <2>1, <3>1, <3>3 DEF LinkInv, FoundInv
  <2>2. CASE i \notin asked.items
    <3>1. PICK x \in FoundIn(store) : i = item(x)
      BY <2>2
    <3>2. /\ i.at = <<Leaf, x>> /\ i.pole = store.rows[x].pole
          /\ i.revision = asked.revision /\ i.seen = store.revision
      BY <3>1
    <3>3. Carried(i) \in Bearing(Leaf, asked)
      BY <1>5, <3>2 DEF Carried
    <3>4. held.calm => Carried(i) \in held.steady
      BY <1>1, <1>3, <3>3 DEF Carriers, LinkInv, HeldInv
    <3>5. \A k \in asked.todo \ {asked.leaf} : Overlays[k] # i.at[1]
      BY <1>1, <3>2, AskedParts, OverlaysAreSheets DEF Leaf
    <3>6. ASSUME NEW j \in all, i.at = j.at PROVE i = j
      <4>1. j \notin asked.items
        BY <1>1, <1>4, <3>2, <3>6 DEF LinkInv, FoundInv, Leaf
      <4>2. PICK y \in FoundIn(store) : j = item(y)
        BY <4>1
      <4>3. y = x
        BY <3>2, <3>6, <4>2
      <4> QED BY <3>1, <4>2, <4>3
    <3> QED BY <1>3, <3>2, <3>3, <3>4, <3>5, <3>6
  <2> QED BY <2>1, <2>2
\* What stood all the time in this layer is found.
<1>8. ASSUME NEW c \in held.steady, c[1] = Leaf, asked.id # Zero
      PROVE  \E i \in all : Carried(i) = c
  <2>1. PICK s \in Sheet : c \in Bearing(s, asked)
    BY <1>1 DEF LinkInv, HeldInv, Carriers
  <2>2. PICK x \in LiveIn(features[s].rows) :
            /\ asked.id \in Carrying(features[s].rows[x], asked.kind)
            /\ c = <<s, x, features[s].rows[x].pole>>
    BY <2>1 DEF Bearing
  <2>3. s = Leaf
    BY <1>8, <2>2
  <2>4. x \in FoundIn(store)
    BY <1>1, <1>3, <1>4, <1>8, <2>2, <2>3, IndexLeads DEF store
  <2>5. item(x) \in all /\ Carried(item(x)) = c
    BY <2>2, <2>3, <2>4 DEF Carried, store
  <2> QED BY <2>5
<1>9. held.calm => Cardinality(all) <= Cardinality(held.steady) /\ Cardinality(held.steady) \in Nat
  <2>1. held.steady \in SUBSET Triples
    BY DEF LinkInv, LinkTypes
  <2> QED BY <1>6, <1>7, <2>1, FoundIsFew
<1>10. Cardinality(all) \in Nat /\ {MaxCandidates, MaxSupported} \subseteq Nat
  <2>1. held.ever \in SUBSET Triples
    BY DEF LinkInv, LinkTypes
  <2> QED BY <1>6, <1>7, <2>1, FoundIsFew, LimitsAreNumbers
<1> HIDE DEF all, full
<1>11. ASSUME asked'.items = all, asked'.complete => asked.complete, asked'.linked = asked.linked,
              asked'.graves = asked.graves, asked'.kind = asked.kind, asked'.id = asked.id,
              Pending' = asked.todo \ {asked.leaf}, asked.kind # "support" => asked'.todo = asked.todo
       PROVE  FoundInv' /\ CoverInv'
  <2>1. FoundInv'
    BY <1>2, <1>7, <1>11 DEF FoundInv, Carried, LinkInv
  <2>2. ASSUME asked'.complete, asked.id # Zero, NEW c \in held.steady
        PROVE  (\E k \in Pending' : Overlays[k] = c[1]) \/ \E i \in all : Carried(i) = c
    <3>1. CASE \E k \in asked.todo : Overlays[k] = c[1]
      BY <1>1, <1>8, <1>11, <2>2, <3>1 DEF Leaf
    <3>2. CASE \E i \in asked.items : Carried(i) = c
      BY <3>2 DEF all
    <3> QED BY <1>1, <1>4, <1>11, <2>2, <3>1, <3>2 DEF LinkInv, CoverInv
  <2>3. CoverInv'
    BY <1>1, <1>2, <1>11, <2>2 DEF CoverInv, LinkInv, Carried
  <2> QED BY <2>1, <2>3
<1>12. CASE asked.kind # "support"
  <2>1. asked' = [asked EXCEPT !.items = all, !.phase = "tombs", !.pc = "check",
                               !.check = "ensure", !.complete = full]
    BY <1>1, <1>2, <1>12 DEF full, AskedType
  <2>2. full \in BOOLEAN
    BY <1>1 DEF full
  <2>3. /\ asked' \in AskedType /\ asked'.kind = asked.kind /\ asked'.id = asked.id
        /\ asked'.source = asked.source /\ asked'.items = all
        /\ asked'.graves = asked.graves /\ asked'.linked = asked.linked
    <3>1. "check" \in Pcs
      BY DEF Pcs, Inner
    <3> QED BY <1>1, <1>6, <2>1, <2>2, <3>1 DEF AskedType
  <2>4. /\ asked'.pc = "check" /\ asked'.phase = "tombs" /\ asked'.check = "ensure"
        /\ asked'.leaf = asked.leaf /\ asked'.todo = asked.todo /\ asked'.complete = full
        /\ asked'.entries = asked.entries /\ asked'.points = asked.points
        /\ asked'.builds = asked.builds
    BY <1>1, <2>1 DEF AskedType
  <2>5. Replied
    BY <1>2, <2>3 DEF Replied
  <2>6. Pending' = asked.todo \ {asked.leaf}
    BY <2>4 DEF Pending
  <2>7. FoundInv' /\ CoverInv'
    BY <1>11, <2>3, <2>4, <2>6 DEF full
  <2>8. PlaceInv'
    <3>1. Leaf' = Leaf
      BY <2>4 DEF Leaf
    <3>2. /\ Concerns(Leaf, asked)' = Concerns(Leaf, asked)
          /\ Counting(Leaf, asked)' = Counting(Leaf, asked)
          /\ Bearing(Leaf, asked)' = Bearing(Leaf, asked)
      BY <2>5, <3>1 DEF Replied, Concerns, Counting, Bearing
    <3> QED BY <1>1, <1>2, <1>3, <1>12, <2>3, <2>4, <3>1, <3>2 DEF PlaceInv
  <2>9. EndInv'
    <3>1. ASSUME asked.kind = "boxes", ~full, all = {} PROVE FALSE
      <4>1. Cardinality(all) = 0
        BY <3>1, FS_EmptySet
      <4>2. ~asked.complete /\ asked.items = {}
        BY <1>10, <3>1, <4>1 DEF full, all
      <4> QED BY <1>1, <3>1, <4>2 DEF LinkInv, EndInv
    <3> QED BY <2>3, <2>4, <3>1 DEF EndInv
  <2>10. ReasonInv'
    <3> SUFFICES ASSUME held.calm, ~full PROVE Excused'
      BY <1>2, <2>4 DEF ReasonInv
    <3>1. CASE ~asked.complete
      BY <1>2, <2>4, <3>1 DEF LinkInv, ReasonInv, Excused
    <3>2. CASE asked.complete
      <4>1. Cardinality(held.steady) > MaxCandidates
        BY <1>9, <1>10, <3>2 DEF full
      <4> QED BY <1>2, <4>1 DEF Excused
    <3> QED BY <3>1, <3>2
  <2> QED BY <1>1, <2>4, <2>5, <2>7, <2>8, <2>9, <2>10, ReplyKeeps
<1>13. CASE asked.kind = "support" /\ Cardinality(all) > MaxSupported
  <2>1. asked' = Stop(asked)
    BY <1>2, <1>13
  <2>2. /\ Replied /\ Gathered /\ asked'.pc = "answer" /\ asked'.phase = asked.phase
        /\ asked'.leaf = asked.leaf /\ asked'.todo = asked.todo /\ ~asked'.complete
    <3>1. asked \in AskedType
      BY <1>1
    <3>2. /\ asked' \in AskedType /\ asked'.pc = "answer" /\ ~asked'.complete
          /\ asked'.kind = asked.kind /\ asked'.id = asked.id /\ asked'.source = asked.source
          /\ asked'.items = asked.items /\ asked'.graves = asked.graves
          /\ asked'.linked = asked.linked /\ asked'.phase = asked.phase
          /\ asked'.leaf = asked.leaf /\ asked'.todo = asked.todo
      BY <2>1, <3>1, Stopped
    <3> QED BY <1>2, <3>2 DEF Replied, Gathered
  <2>3. held.calm => Excused'
    <3>1. held.calm => Cardinality(held.steady) > MaxSupported
      BY <1>9, <1>10, <1>13
    <3> QED BY <1>2, <3>1 DEF Excused
  <2> QED BY <1>1, <2>2, <2>3, StopKeeps
<1>14. CASE asked.kind = "support" /\ ~(Cardinality(all) > MaxSupported)
  <2> DEFINE rest == asked.todo \ {asked.leaf}
  <2>1. rest \in SomeLayers
    BY <1>1, AskedParts DEF SomeLayers
  <2>2. asked' = [asked EXCEPT !.items = all, !.todo = rest, !.pc = "visit"]
    BY <1>1, <1>2, <1>14 DEF NextLayer, AskedType
  <2> HIDE DEF rest
  <2>3. /\ asked' \in AskedType /\ asked'.kind = asked.kind /\ asked'.id = asked.id
        /\ asked'.source = asked.source /\ asked'.items = all
        /\ asked'.graves = asked.graves /\ asked'.linked = asked.linked
    <3>1. "visit" \in Pcs
      BY DEF Pcs
    <3> QED BY <1>1, <1>6, <2>1, <2>2, <3>1 DEF AskedType
  <2>4. /\ asked'.pc = "visit" /\ asked'.phase = "rows" /\ asked'.leaf = asked.leaf
        /\ asked'.todo = rest /\ asked'.complete = asked.complete
        /\ asked'.entries = asked.entries /\ asked'.points = asked.points
        /\ asked'.builds = asked.builds
    BY <1>1, <1>3, <2>2 DEF AskedType
  <2>5. Replied
    BY <1>2, <2>3 DEF Replied
  <2>6. FoundInv' /\ CoverInv'
    <3>1. Pending' = rest
      BY <2>4 DEF Pending
    <3> QED BY <1>11, <1>14, <2>3, <2>4, <3>1 DEF rest
  <2>7. PlaceInv'
    BY <1>2, <1>3, <2>3, <2>4 DEF PlaceInv, Inner, rest
  <2>8. EndInv' /\ ReasonInv'
    BY <1>2, <1>14, <2>3, <2>4 DEF LinkInv, EndInv, ReasonInv, Excused
  <2> QED BY <1>1, <2>4, <2>5, <2>6, <2>7, <2>8, ReplyKeeps
<1> QED BY <1>12, <1>13, <1>14

LEMMA ReadTombstonesKeeps ==
    ASSUME LinkInv, ReadTombstones
    PROVE  LinkInv'
<1> DEFINE store == features[Leaf]
           dead == {<<Leaf, t[2]>> : t \in {u \in store.tombs : u[1] = asked.id}}
           graves == asked.graves \cup dead
           rest == asked.todo \ {asked.leaf}
<1>1. /\ asked.pc = "tombs" /\ asked.pc \in Inner /\ asked \in AskedType /\ Leaf \in Sheet
      /\ store \in Stores /\ Sound(store) /\ asked.leaf \in asked.todo
      /\ features' = features /\ folder' = folder /\ held' = held /\ writes' = writes
  BY LeafFacts DEF ReadTombstones, Reply, Inner
<1>2. asked.phase = "tombs" /\ rest \in SomeLayers
  BY <1>1, AskedParts DEF LinkInv, PlaceInv, SomeLayers
<1>3. graves \in SomePlaces
  <2>1. \A t \in store.tombs : t[2] \in Object
    BY <1>1 DEF Stores
  <2> QED BY <1>1, <2>1, AskedParts DEF SomePlaces
<1>4. asked' = [asked EXCEPT !.graves = graves, !.todo = rest, !.pc = "visit"]
  BY <1>1 DEF ReadTombstones, Reply, NextLayer, AskedType
<1> HIDE DEF graves, rest
<1>5. /\ asked' \in AskedType /\ asked'.kind = asked.kind /\ asked'.id = asked.id
      /\ asked'.source = asked.source /\ asked'.items = asked.items
      /\ asked'.graves = graves /\ asked'.linked = asked.linked
  <2>1. "visit" \in Pcs
    BY DEF Pcs
  <2> QED BY <1>1, <1>2, <1>3, <1>4, <2>1 DEF AskedType
<1>6. /\ asked'.pc = "visit" /\ asked'.phase = "tombs" /\ asked'.leaf = asked.leaf
      /\ asked'.todo = rest /\ asked'.complete = asked.complete
      /\ asked'.entries = asked.entries /\ asked'.points = asked.points
      /\ asked'.builds = asked.builds
  BY <1>1, <1>2, <1>4 DEF AskedType
<1>7. Replied
  BY <1>1, <1>5 DEF Replied
<1>8. Pending = rest /\ Pending' = rest
  BY <1>2, <1>6 DEF Pending, rest
<1>9. PlaceInv'
  BY <1>1, <1>2, <1>5, <1>6 DEF PlaceInv, Inner, LinkInv, rest
<1>10. FoundInv'
  BY <1>1, <1>5, <1>8 DEF FoundInv, LinkInv, Carried
<1>11. CoverInv'
  <2>1. ASSUME asked.complete, asked.id # Zero, asked.kind # "support", NEW g \in held.graves
        PROVE  (\E k \in rest : Overlays[k] = g) \/ \E t \in graves : t[1] = g
    <3>1. CASE g = Leaf
      <4>1. asked.id \in store.buried
        BY <1>1, <3>1 DEF LinkInv, HeldInv, Graves, Inner
      <4>2. PICK x \in Object : <<asked.id, x>> \in store.tombs
        BY <1>1, <2>1, <4>1, SoundParts
      <4>3. <<Leaf, x>> \in graves
        <5>1. \E u \in store.tombs : u[1] = asked.id /\ u[2] = x
          BY <4>2
        <5>2. <<Leaf, x>> \in dead
          BY <5>1
        <5> QED BY <5>2 DEF graves
      <4> QED BY <3>1, <4>3
    <3>2. CASE g # Leaf
      BY <1>1, <2>1, <3>2 DEF LinkInv, CoverInv, rest, graves, Leaf
    <3> QED BY <3>1, <3>2
  <2> QED BY <1>1, <1>5, <1>6, <1>8, <2>1 DEF CoverInv, LinkInv, Carried
<1>12. EndInv' /\ ReasonInv'
  BY <1>1, <1>5, <1>6 DEF LinkInv, EndInv, ReasonInv, Excused
<1> QED BY <1>1, <1>6, <1>7, <1>9, <1>10, <1>11, <1>12, ReplyKeeps

LEMMA AnswerKeeps ==
    ASSUME LinkInv, Answer
    PROVE  LinkInv'
<1>1. /\ asked \in AskedType
      /\ features' = features /\ folder' = folder /\ held' = held /\ writes' = writes
      /\ asked' = [asked EXCEPT !.pc = "answered", !.status = Verdict]
      /\ asked.pc = "answer" \/ (asked.pc = "visit" /\ asked.todo = {})
  BY DEF Answer, Reply, Verdict, LinkInv, LinkTypes
<1>2. Verdict \in Verdicts /\ "answered" \in Pcs
  BY DEF Verdict, Verdicts, Resolution, SupportResolution, BoxResolution, Pcs
<1> DEFINE said == Verdict
<1> HIDE DEF said
<1>3. asked' = [asked EXCEPT !.pc = "answered", !.status = said]
  BY <1>1 DEF said
<1>4. /\ asked' \in AskedType /\ asked'.kind = asked.kind /\ asked'.id = asked.id
      /\ asked'.source = asked.source /\ asked'.items = asked.items
      /\ asked'.graves = asked.graves /\ asked'.linked = asked.linked
  BY <1>1, <1>2, <1>3 DEF AskedType, said
<1>5. /\ asked'.pc = "answered" /\ asked'.phase = asked.phase /\ asked'.leaf = asked.leaf
      /\ asked'.todo = asked.todo /\ asked'.complete = asked.complete
      /\ asked'.entries = asked.entries /\ asked'.points = asked.points
      /\ asked'.builds = asked.builds /\ asked'.status = said
  BY <1>1, <1>3 DEF AskedType
<1>6. Replied
  BY <1>1, <1>4 DEF Replied
<1>7. Pending' = Pending
  BY <1>5 DEF Pending
<1>8. PlaceInv'
  BY <1>1, <1>4, <1>5 DEF PlaceInv, Inner, LinkInv
<1>9. FoundInv' /\ CoverInv'
  BY <1>1, <1>4, <1>5, <1>7 DEF FoundInv, CoverInv, LinkInv, Carried
<1>10. EndInv'
  <2>1. Verdict' = said
    BY <1>4, <1>5 DEF said, Verdict, Resolution, SupportResolution, BoxResolution, Objects
  <2> QED BY <1>1, <1>4, <1>5, <2>1 DEF EndInv, LinkInv
<1>11. ReasonInv'
  BY <1>1, <1>5 DEF LinkInv, ReasonInv, Excused
<1> QED BY <1>1, <1>5, <1>6, <1>8, <1>9, <1>10, <1>11, ReplyKeeps

-------------------------------------------------------------------------------
(* The theorems. *)

LEMMA LinkInitially ==
    ASSUME LinkInit
    PROVE  LinkInv
<1>1. PICK k \in LinkStarts :
         /\ features = k.features /\ folder = k.folder /\ writes = k.writes
         /\ \E a \in k.asks : asked = Coming(a)
  BY DEF LinkInit
<1>2. PICK a \in k.asks : asked = Coming(a)
  BY <1>1
<1>3. /\ features \in [Sheet -> Stores] /\ \A s \in Sheet : Sound(features[s])
      /\ folder \in [Sheet -> {"absent", "here", "hidden", "gone"}] /\ writes \in Nat
      /\ a \in Requests
  BY <1>1, <1>2, BeginningsAreSound
<1>4. held = [calm |-> TRUE, steady |-> {}, ever |-> {}, graves |-> {}]
  BY DEF LinkInit
<1>5. asked =
        [pc |-> "idle", kind |-> a.kind, id |-> a.id, source |-> a.source, todo |-> {},
         leaf |-> 0, entries |-> 0, points |-> 0, builds |-> 0, check |-> "need", saw |-> 0,
         phase |-> "rows", revision |-> 0, linked |-> {}, items |-> {}, graves |-> {},
         complete |-> TRUE, status |-> NoStatus]
  BY <1>2 DEF Coming
<1>6. asked \in AskedType
  BY <1>3, <1>5 DEF AskedType, Requests, Pcs, Sources, SomeLayers, SomePlaces, SomeItems, Verdicts
<1>7. LinkTypes
  BY <1>3, <1>4, <1>6 DEF LinkTypes
<1>8. /\ asked.pc = "idle" /\ asked.todo = {} /\ asked.items = {} /\ asked.linked = {}
      /\ asked.complete /\ asked.phase = "rows"
  BY <1>5
<1>9. asked = Coming(asked)
  BY <1>5 DEF Coming
<1> QED BY <1>3, <1>4, <1>7, <1>8, <1>9
        DEF LinkInv, StoreInv, HeldInv, PlaceInv, FoundInv, CoverInv, EndInv, ReasonInv, IdleInv, Inner

LEMMA LinkStep ==
    ASSUME LinkInv, [LinkNext]_linkVars
    PROVE  LinkInv'
<1>1. CASE Reading
  BY <1>1, AskKeeps, VisitLayerKeeps, ReadLayerKeeps, CheckRevisionKeeps, CheckMarkKeeps,
     EnsureIndexKeeps, ReadRevisionKeeps, ReadRowsKeeps, ReadTombstonesKeeps, AnswerKeeps
     DEF Reading
<1>2. CASE Layers
  BY <1>2, LayersKeep DEF Layers
<1>3. ASSUME NEW s \in Sheet, EditLayer(s) PROVE LinkInv'
  BY <1>3, EditKeeps
<1>4. CASE UNCHANGED linkVars
  <2>1. /\ features' = features /\ folder' = folder /\ asked' = asked /\ held' = held
        /\ writes' = writes
    BY <1>4 DEF linkVars
  <2>2. Leaf' = Leaf /\ Pending' = Pending
    BY <2>1 DEF Leaf, Pending
  <2>3. LinkTypes' /\ StoreInv' /\ IdleInv'
    BY <2>1 DEF LinkInv, LinkTypes, StoreInv, IdleInv
  <2>4. Changed
    BY <2>1 DEF Changed, LinkInv, StoreInv, LinkTypes, Stores
  <2>5. Archived
    BY <2>1 DEF Archived
  <2> QED BY <2>3, <2>4, <2>5, ChangeKeeps
<1> QED BY <1>1, <1>2, <1>3, <1>4 DEF LinkNext

\* Index, reader and history fit together in every state: the inductive invariant of the
\* reference index and of the requests that read it (overlays.py).
THEOREM LinkInvariance == LinkSpec => []LinkInv
<1>1. LinkInit => LinkInv
  BY LinkInitially
<1>2. LinkInv /\ [LinkNext]_linkVars => LinkInv'
  BY LinkStep
<1> QED BY <1>1, <1>2, PTL DEF LinkSpec

LEMMA IndexIsFaithful == ASSUME LinkInv PROVE IndexFaithful
<1> SUFFICES ASSUME NEW s \in Sheet, IndexCurrent(s)
             PROVE  /\ RebuildIndex(features[s]).refs \subseteq features[s].refs
                    /\ features[s].refs \subseteq AllRefs(features[s].rows)
  BY DEF IndexFaithful
<1> QED BY DEF IndexCurrent, LinkInv, StoreInv, Sound

\* What an answer knows of what it found.
LEMMA ItemFacts ==
    ASSUME LinkInv
    PROVE  /\ asked.items \in SomeItems
           /\ \A i \in asked.items :
                /\ Carried(i) \in held.ever /\ i.at \in Rows(held.ever)
                /\ i.at = <<Carried(i)[1], Carried(i)[2]>>
                /\ \A j \in asked.items : i.at = j.at => i = j
           /\ IsFiniteSet(asked.items) /\ Cardinality(asked.items) \in Nat
           /\ IsFiniteSet(Rows(held.ever)) /\ Cardinality(Rows(held.ever)) \in Nat
           /\ Cardinality(asked.items) <= Cardinality(Rows(held.ever))
<1>1. /\ asked.items \in SomeItems
      /\ held.ever \in SUBSET Triples
  BY AskedParts DEF LinkInv, LinkTypes, SomeItems
<1>2. ASSUME NEW i \in asked.items
      PROVE  /\ Carried(i) \in held.ever /\ i.at \in Rows(held.ever)
             /\ i.at = <<Carried(i)[1], Carried(i)[2]>>
             /\ \A j \in asked.items : i.at = j.at => i = j
  <2>1. Carried(i) \in held.ever /\ \A j \in asked.items : i.at = j.at => i = j
    BY DEF LinkInv, FoundInv
  <2>2. i.at \in Sheet \X Object
    BY <1>1 DEF SomeItems
  <2>3. i.at = <<Carried(i)[1], Carried(i)[2]>>
    BY <2>2 DEF Carried
  <2> QED BY <2>1, <2>3 DEF Rows
<1>3. Rows(held.ever) \in SUBSET (Sheet \X Object)
  BY <1>1 DEF Rows, Triples
<1>4. IsFiniteSet(Rows(held.ever))
  BY <1>3, HistoryIsFinite, FS_Subset
<1> DEFINE f == [i \in asked.items |-> i.at]
<1>5. f \in Injection(asked.items, Rows(held.ever))
  <2>1. f \in [asked.items -> Rows(held.ever)]
    BY <1>2
  <2>2. \A i, j \in asked.items : f[i] = f[j] => i = j
    BY <1>2
  <2> QED BY <2>1, <2>2 DEF Injection, IsInjective
<1> HIDE DEF f
<1>6. /\ IsFiniteSet(asked.items)
      /\ Cardinality(asked.items) <= Cardinality(Rows(held.ever))
  BY <1>4, <1>5, FS_Injection
<1> QED BY <1>1, <1>2, <1>4, <1>6, FS_CardinalityType

\* What stood all the time is among what a complete answer found.
LEMMA CompleteMissesNothing ==
    ASSUME LinkInv, asked.pc = "answered", asked.complete, asked.id # Zero
    PROVE  /\ \A c \in held.steady : \E i \in asked.items : Carried(i) = c
           /\ asked.kind # "support" /\ held.graves # {} => asked.graves # {}
<1>1. asked.todo = {} /\ Pending = {}
  BY DEF LinkInv, EndInv, Pending
<1> QED BY <1>1 DEF LinkInv, CoverInv

LEMMA DetectionsAreHonest == ASSUME LinkInv PROVE DetectionsHonest
<1> SUFFICES ASSUME asked.pc = "answered", asked.kind = "detection", asked.id # Zero
             PROVE DetectionsHonest
  BY DEF DetectionsHonest, Answered
<1>1. asked.status = Resolution(asked)
  BY DEF LinkInv, EndInv, Verdict
<1> DEFINE objects == Objects(asked)
<1>2. objects \subseteq asked.items /\ IsFiniteSet(objects) /\ Cardinality(objects) \in Nat
  <2>1. objects \subseteq asked.items
    BY DEF Objects
  <2> QED BY <2>1, ItemFacts, FS_Subset, FS_CardinalityType
<1>3. \A i \in asked.items : i.pole \in BOOLEAN /\ (i \in objects <=> ~i.pole)
  BY ItemFacts DEF Objects, SomeItems
<1> HIDE DEF objects
\* An editable feature that carried the detection all the time is found as one.
<1>4. ASSUME asked.complete, NEW c \in Editable(held.steady)
      PROVE  \E i \in objects : i.at = <<c[1], c[2]>>
  <2>1. PICK i \in asked.items : Carried(i) = c
    BY <1>4, CompleteMissesNothing DEF Editable
  <2>2. i.at = <<c[1], c[2]>>
    BY <2>1, ItemFacts
  <2>3. ~i.pole
    BY <1>4, <2>1 DEF Editable, Carried
  <2> QED BY <1>3, <2>2, <2>3
<1>5. ASSUME asked.status = "matched"
      PROVE  LET match == IF Cardinality(objects) = 1 THEN objects ELSE asked.items
             IN \E i \in match : /\ match = {i} /\ i.at \in Rows(held.ever)
                                 /\ Rows(Editable(held.steady)) \subseteq {i.at}
  <2> DEFINE match == IF Cardinality(objects) = 1 THEN objects ELSE asked.items
  <2>1. asked.complete
    BY <1>1, <1>5 DEF Resolution, objects
  <2>2. objects \subseteq match /\ match \subseteq asked.items
    BY <1>2
  <2>3. \E i \in match : match = {i}
    <3>1. CASE Cardinality(objects) = 1
      BY <1>2, <3>1, FS_Singleton
    <3>2. CASE Cardinality(objects) # 1
      <4>1. asked.items # {} /\ ~(Cardinality(asked.items) > 1)
        BY <1>1, <1>5, <2>1, <3>2 DEF Resolution, objects
      <4>2. Cardinality(asked.items) = 1
        BY <4>1, ItemFacts, FS_EmptySet
      <4> QED BY <3>2, <4>2, ItemFacts, FS_Singleton
    <3> QED BY <3>1, <3>2
  <2>4. PICK i \in match : match = {i}
    BY <2>3
  <2>5. Rows(Editable(held.steady)) \subseteq {i.at}
    BY <1>4, <2>1, <2>2, <2>4 DEF Rows
  <2>6. i.at \in Rows(held.ever)
    BY <2>2, ItemFacts
  <2> QED BY <2>4, <2>5, <2>6
<1>6. asked.status = "ambiguous" => Cardinality(Rows(held.ever)) > 1
  BY <1>1, ItemFacts DEF Resolution
<1>7. asked.status = "deleted" => Editable(held.steady) = {}
  BY <1>1, <1>4 DEF Resolution, objects
<1>8. asked.status = "not_found" => held.steady = {} /\ held.graves = {}
  <2> SUFFICES ASSUME asked.status = "not_found" PROVE held.steady = {} /\ held.graves = {}
    OBVIOUS
  <2>1. asked.complete /\ asked.items = {} /\ ~(asked.graves # {} /\ objects = {})
    BY <1>1 DEF Resolution, objects
  <2>2. objects = {} /\ asked.graves = {}
    BY <1>2, <2>1
  <2> QED BY <2>1, <2>2, CompleteMissesNothing
<1>9. ASSUME held.graves # {}, Editable(held.ever) = {}, Cardinality(Rows(held.ever)) <= 1
      PROVE  asked.status \in {"deleted", "unavailable"}
  <2>1. objects = {}
    <3> SUFFICES ASSUME NEW i \in objects PROVE FALSE
      OBVIOUS
    <3>1. Carried(i) \in held.ever /\ ~i.pole
      BY <1>2, <1>3, ItemFacts
    <3>2. Carried(i) \in Editable(held.ever)
      BY <3>1 DEF Editable, Carried
    <3> QED BY <1>9, <3>2
  <2>2. Cardinality(objects) = 0 /\ ~(Cardinality(asked.items) > 1)
    BY <1>9, <2>1, ItemFacts, FS_EmptySet
  <2>3. asked.complete => asked.graves # {}
    BY <1>9, CompleteMissesNothing
  <2> QED BY <1>1, <2>1, <2>2, <2>3 DEF Resolution, objects
<1> QED BY <1>5, <1>6, <1>7, <1>8, <1>9 DEF DetectionsHonest, objects

LEMMA SupportsAreHonest == ASSUME LinkInv PROVE SupportsHonest
<1> SUFFICES ASSUME asked.pc = "answered", asked.kind = "support", asked.id # Zero,
                    asked.status # "unavailable"
             PROVE  LET shown == {i.at : i \in asked.items}
                    IN Rows(held.steady) \subseteq shown /\ shown \subseteq Rows(held.ever)
  BY DEF SupportsHonest, Answered
<1>1. asked.complete
  BY DEF LinkInv, EndInv, Verdict, SupportResolution
<1>2. ASSUME NEW c \in held.steady PROVE \E i \in asked.items : i.at = <<c[1], c[2]>>
  <2>1. PICK i \in asked.items : Carried(i) = c
    BY <1>1, CompleteMissesNothing
  <2> QED BY <2>1, ItemFacts
<1> QED BY <1>2, ItemFacts DEF Rows

LEMMA BoxesAreHonest == ASSUME LinkInv PROVE BoxesHonest
<1> SUFFICES ASSUME asked.pc = "answered", asked.kind = "boxes", asked.id # Zero
             PROVE  /\ asked.linked \subseteq Rows(held.ever)
                    /\ asked.status = "hidden" => held.steady = {}
                    /\ held.graves # {} /\ held.ever = {} => asked.status # "shown"
  BY DEF BoxesHonest, Answered
<1>1. asked.status = BoxResolution(asked)
  BY DEF LinkInv, EndInv, Verdict
<1>2. asked.status = "hidden" => held.steady = {}
  <2> SUFFICES ASSUME asked.status = "hidden" PROVE held.steady = {}
    OBVIOUS
  <2>1. asked.complete /\ asked.items = {}
    BY <1>1 DEF BoxResolution
  <2> QED BY <2>1, CompleteMissesNothing
<1>3. ASSUME held.graves # {}, held.ever = {} PROVE asked.status # "shown"
  <2>1. asked.items = {}
    BY <1>3, ItemFacts
  <2>2. CASE asked.complete
    BY <1>1, <1>3, <2>1, <2>2, CompleteMissesNothing DEF BoxResolution
  <2>3. CASE ~asked.complete
    <3>1. asked.todo # {}
      BY <2>1, <2>3 DEF LinkInv, EndInv
    <3> QED BY <1>1, <2>3, <3>1 DEF BoxResolution
  <2> QED BY <2>2, <2>3
<1> QED BY <1>2, <1>3 DEF LinkInv, FoundInv

LEMMA AnswersAreGiven == ASSUME LinkInv PROVE AnswersGiven
<1> SUFFICES ASSUME asked.pc = "answered", held.calm, asked.status \in {"unavailable", "error"}
             PROVE  Excused
  BY DEF AnswersGiven, Excused
<1>1. ~asked.complete
  BY DEF LinkInv, EndInv, Verdict, Resolution, SupportResolution, BoxResolution
<1> QED BY <1>1 DEF LinkInv, ReasonInv

\* Identifiers lead to the right features, whatever is edited, imported or taken away while
\* a request is served (resolve_detection_overlay_features and its kin).
THEOREM LinkSafety == LinkSpec => []LinksSound
<1>1. LinkInv => LinksSound
  <2> SUFFICES ASSUME LinkInv PROVE LinksSound
    OBVIOUS
  <2>1. RevisionsSafe
    BY DEF RevisionsSafe, LinkInv, FoundInv
  <2> QED BY <2>1, IndexIsFaithful, DetectionsAreHonest, SupportsAreHonest, BoxesAreHonest,
             AnswersAreGiven DEF LinksSound
<1> QED BY <1>1, LinkInvariance, PTL
================================================================================
