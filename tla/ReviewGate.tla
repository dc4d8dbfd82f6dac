------------------------------- MODULE ReviewGate -------------------------------
(* The quality gate of a review session (qa.py, qa_rules.py, store.py, review_tasks.py)
   and the exports that are taken of it (review_reports.py).  A QA run reads the layers
   while they are edited and replaces the issues of the session; the session may be
   completed when the last QA run saw every layer as it is now; an export reads registry
   and layers without a lock and is served if neither has changed meanwhile.
   Rows come from Edit, which stands for edits, commits, undo and redo (Review.tla). *)
EXTENDS Naturals, FiniteSets

CONSTANTS
    Layer, Feature, Ticket,  \* layers of the dataset, feature ids, review tasks
    RowLooks,       \* what a feature may look like
    Filters,        \* class_filters that a session may have
    Bounds,         \* Bounds[loaded]: extent by the catalog, or by the frames
    Checker,        \* QA requests
    NoRow, NoPoint, NoZ, NoProv, NoRevision, NoSnapshot, NoTicket, NoTarget,
    GateBudgets     \* bounds: records of "edits", "moves" of session, tasks and
                    \* issues, "checks", "closings" and "exports"

ASSUME RevisionsAreNumbers == NoRevision \notin Nat

VARIABLES
    layer,     \* [rev, rows, gone]: revision, active features, unregistered
    review,    \* the session: [status, scope, classes, snapshot]
    ticket,    \* the tasks: [status, target] or NoTicket
    creating,  \* tasks whose request has been checked and is to be inserted
    issues,    \* qa_issues: a set of [id, error, status]
    loaded,    \* the point cloud catalog is in memory
    check,     \* the QA requests
    closing,   \* the PATCH that is to complete the session; it holds review_session_lock
    export,    \* one report or export request
    examined,  \* history: per layer, [rev, fit] of the rows the stored QA run has read
    judged,    \* history: [classes, since] of that run, since is the stamp at its start
    approved,  \* history: what examined is, of the rows when completion has read their revision
    filtered,  \* history: the stamp when class_filters were last changed
    stamp,     \* how often updated_at or an event id of the session has moved
    left       \* of the budget

gateVars == <<layer, review, ticket, creating, issues, loaded, check, closing, export,
              examined, judged, approved, filtered, stamp, left>>

Closed == {"completed", "archived"}
Unfinished == {"todo", "in_progress"}
Templates == {"sign", "pole"}
DuplicateRadius(cls) == IF cls = "sign" THEN 2 ELSE 1
DuplicateZ == 2

Apart(a, b) == IF a > b THEN a - b ELSE b - a
Pay(what) == left[what] > 0 /\ left' = [left EXCEPT ![what] = @ - 1]

-------------------------------------------------------------------------------
(* The rules.  A look has cls (the class by field or provenance, or "none"), blank (the
   class field is there and empty), filled (required fields), inDomain, at (<<x, z>> or
   NoPoint, z may be NoZ), frame, support, flagged (fields) and prov. *)

\* nearby_duplicate_ids: rows of one layer and class, the larger radius counts.
Near(rows, f) ==
    {g \in Feature \ {f} :
        /\ rows[g] # NoRow /\ rows[g].cls = rows[f].cls
        /\ \A h \in {f, g} : rows[h].at # NoPoint /\ rows[h].at[2] # NoZ
        /\ Apart(rows[f].at[1], rows[g].at[1]) <= DuplicateRadius(rows[f].cls)
        /\ Apart(rows[f].at[2], rows[g].at[2]) <= DuplicateZ}

Errors(look, extent) ==
    {r \in {"REQUIRED_FIELD", "DOMAIN_VALUE", "GEOMETRY_REQUIRED",
            "OUTSIDE_DATASET_BOUNDS", "Z_OUTLIER"} :
        \/ r = "REQUIRED_FIELD"
           /\ (~look.filled \/ (look.cls \in Templates /\ look.blank))
        \/ r = "DOMAIN_VALUE" /\ ~look.inDomain
        \/ r = "GEOMETRY_REQUIRED" /\ look.at = NoPoint
        \/ r = "OUTSIDE_DATASET_BOUNDS"
           /\ look.at # NoPoint /\ look.at[1] \notin extent.x
        \/ r = "Z_OUTLIER"
           /\ look.at # NoPoint /\ (look.at[2] = NoZ \/ look.at[2] \notin extent.z)}

Warnings(look, near) ==
    {r \in {"DUPLICATE_NEARBY", "MISSING_SOURCE_FRAME", "UNREVIEWED_MANUAL_FEATURE",
            "REVIEW_PROPOSAL_UNRESOLVED", "SUPPORT_RELATION_REQUIRED"} :
        \/ r = "DUPLICATE_NEARBY" /\ near # {}
        \/ r = "MISSING_SOURCE_FRAME"
           /\ IF look.prov = NoProv THEN ~look.frame ELSE ~look.prov.frame
        \/ r = "UNREVIEWED_MANUAL_FEATURE" /\ look.prov # NoProv /\ look.prov.unreviewed
        \/ r = "REVIEW_PROPOSAL_UNRESOLVED"
           /\ (look.flagged \/ (look.prov # NoProv /\ look.prov.proposal))
        \/ r = "SUPPORT_RELATION_REQUIRED" /\ look.cls = "sign" /\ ~look.support}

\* A feature whose class is not known is checked whatever the filters are.
InScope(look, classes) == classes = {} \/ look.cls = "none" \/ look.cls \in classes

\* The issues of one layer; an id tells layer, feature, rule and duplicates apart.
Found(l, rows, classes, extent) ==
    LET kept == [f \in Feature |->
                    IF rows[f] # NoRow /\ InScope(rows[f], classes) THEN rows[f] ELSE NoRow]
        Key(f, r) == <<l, f, r, IF r = "DUPLICATE_NEARBY" THEN Near(kept, f) ELSE {}>>
    IN UNION {{[id |-> Key(f, r), error |-> TRUE] : r \in Errors(kept[f], extent)}
              \cup {[id |-> Key(f, r), error |-> FALSE] :
                        r \in Warnings(kept[f], Near(kept, f))}
              : f \in {g \in Feature : kept[g] # NoRow}}

-------------------------------------------------------------------------------
(* Registry and layers. *)

\* The layers a session is about: its scope and the targets of its tasks.
EffectiveOf(scope, tk) ==
    scope \cup ({tk[t].target : t \in {u \in Ticket : tk[u] # NoTicket}} \ {NoTarget})
Effective == EffectiveOf(review.scope, ticket)

\* Mutant of Blocked: revisions are not compared.
BlockedBySnapshot(revs) ==
    \/ \E t \in Ticket : ticket[t] # NoTicket /\ ticket[t].status \in Unfinished
    \/ \E i \in issues : i.error /\ i.status = "open"
    \/ review.snapshot = NoSnapshot
    \/ DOMAIN review.snapshot # DOMAIN revs

\* What still stands in the way of completion, for the revisions that were read.
Blocked(revs) ==
    \/ \E t \in Ticket : ticket[t] # NoTicket /\ ticket[t].status \in Unfinished
    \/ \E i \in issues : i.error /\ i.status = "open"
    \/ review.snapshot = NoSnapshot
    \/ DOMAIN review.snapshot # DOMAIN revs
    \/ \E l \in DOMAIN revs : revs[l] = NoRevision \/ revs[l] # review.snapshot[l]

\* What a customer may rely on: fields filled and in their domain, a class that is not
\* blank, a point with a height inside what is known of the dataset.
Usable(look) ==
    /\ look.filled /\ look.inDomain /\ ~(look.cls \in Templates /\ look.blank)
    /\ look.at # NoPoint /\ look.at[2] # NoZ
    /\ \E b \in BOOLEAN : look.at[1] \in Bounds[b].x /\ look.at[2] \in Bounds[b].z

AllUsable(rows, classes) ==
    \A f \in Feature : rows[f] # NoRow /\ InScope(rows[f], classes) => Usable(rows[f])

\* What is remembered of a layer that was looked at: its revision, and the filters that let
\* only usable rows through.
Suits(rows) == {c \in Filters : AllUsable(rows, c)}
Seen(l) == [rev |-> layer[l].rev, fit |-> Suits(layer[l].rows)]

Revision(l) == IF layer[l].gone THEN NoRevision ELSE layer[l].rev

Idle == [pc |-> "idle"]

GateInit ==
    /\ left \in GateBudgets
    /\ layer = [l \in Layer |-> [rev |-> 1, rows |-> [f \in Feature |-> NoRow], gone |-> FALSE]]
    /\ \E c \in Filters, s \in SUBSET Layer, st \in {"draft", "active"} :
          review = [status |-> st, scope |-> s, classes |-> c, snapshot |-> NoSnapshot]
    /\ ticket = [t \in Ticket |-> NoTicket] /\ creating = {}
    /\ issues = {} /\ loaded = FALSE
    /\ check = [c \in Checker |-> Idle] /\ closing = Idle /\ export = Idle
    /\ examined = <<>> /\ judged = [classes |-> review.classes, since |-> 0]
    /\ approved = <<>> /\ filtered = 0 /\ stamp = 0

\* Any change of the rows raises the revision, in one transaction with it.
Edit(l, f, look) ==
    /\ Pay("edits") /\ ~layer[l].gone /\ look # layer[l].rows[f]
    /\ layer' = [layer EXCEPT ![l].rev = @ + 1, ![l].rows[f] = look]
    /\ UNCHANGED <<review, ticket, creating, issues, loaded, check, closing, export,
                   examined, judged, approved, filtered, stamp>>

Unregister(l) ==
    /\ Pay("edits") /\ ~layer[l].gone
    /\ layer' = [layer EXCEPT ![l].gone = TRUE]
    /\ UNCHANGED <<review, ticket, creating, issues, loaded, check, closing, export,
                   examined, judged, approved, filtered, stamp>>

\* catalogs[dataset_id] is filled by the first request that needs it.
LoadCatalog ==
    /\ ~loaded /\ Pay("moves") /\ loaded' = TRUE
    /\ UNCHANGED <<layer, review, ticket, creating, issues, check, closing, export,
                   examined, judged, approved, filtered, stamp>>

\* _validate_session_scope: every PATCH asks for the layers of the scope.
ScopeLives(scope) == \A l \in scope : ~layer[l].gone

\* Scope and class_filters may be changed in a draft without tasks, also by the request
\* that activates it; the status by _SESSION_TRANSITIONS; last_task_id at any time.  What
\* the last QA run has left stays.
PatchSession ==
    /\ Pay("moves") /\ closing = Idle /\ stamp' = stamp + 1
    /\ \/ /\ review.status = "draft" /\ \A t \in Ticket : ticket[t] = NoTicket
          /\ \E s \in SUBSET Layer, c \in Filters, to \in {"draft", "active"} :
                review' = [review EXCEPT !.scope = s, !.classes = c, !.status = to]
       \/ \E to \in {<<"draft", "active">>, <<"active", "paused">>, <<"paused", "active">>,
                     <<"completed", "archived">>} :
             review.status = to[1] /\ review' = [review EXCEPT !.status = to[2]]
       \/ review' = review
    /\ ScopeLives(review'.scope)
    /\ filtered' = IF review'.classes = review.classes THEN filtered ELSE stamp'
    /\ UNCHANGED <<layer, ticket, creating, issues, loaded, check, closing, export,
                   examined, judged, approved>>

\* A task is checked against the session, and inserted later whatever has become of it.
CheckTicket(t, l) ==
    /\ Pay("moves") /\ review.status = "active"
    /\ ticket[t] = NoTicket /\ \A c \in creating : c[1] # t
    /\ l # NoTarget => ~layer[l].gone /\ (review.scope = {} \/ l \in review.scope)
    /\ creating' = creating \cup {<<t, l>>}
    /\ UNCHANGED <<layer, review, ticket, issues, loaded, check, closing, export,
                   examined, judged, approved, filtered, stamp>>

InsertTicket(t, l) ==
    /\ <<t, l>> \in creating /\ creating' = creating \ {<<t, l>>}
    /\ ticket' = [ticket EXCEPT ![t] = [status |-> "todo", target |-> l]]
    /\ stamp' = stamp + 1
    /\ UNCHANGED <<layer, review, issues, loaded, check, closing, export,
                   examined, judged, approved, filtered, left>>

\* start, resolve and reopen; the transaction looks at the session again.
MoveTicket(t) ==
    /\ Pay("moves") /\ review.status = "active" /\ ticket[t] # NoTicket
    /\ \E to \in {<<"todo", "in_progress">>, <<"in_progress", "done">>, <<"done", "todo">>} :
          /\ ticket[t].status = to[1]
          /\ ticket' = [ticket EXCEPT ![t].status = to[2]]
    /\ stamp' = stamp + 1
    /\ UNCHANGED <<layer, review, creating, issues, loaded, check, closing, export,
                   examined, judged, approved, filtered>>

\* Warnings may be resolved, dismissed and opened again, errors only by another QA run.
PatchIssue(i) ==
    /\ Pay("moves") /\ review.status \notin Closed /\ ~i.error
    /\ \E s \in {"open", "resolved", "dismissed"} \ {i.status} :
          issues' = (issues \ {i}) \cup {[i EXCEPT !.status = s]}
    /\ stamp' = stamp + 1
    /\ UNCHANGED <<layer, review, ticket, creating, loaded, check, closing, export,
                   examined, judged, approved, filtered>>

-------------------------------------------------------------------------------
(* run_review_qa: the session, its tasks, of each layer the revision, then the rows; then
   one transaction. *)

QaBegin(c) ==
    /\ check[c] = Idle /\ Pay("checks") /\ review.status \notin Closed
    /\ check' = [check EXCEPT ![c] =
           [pc |-> "scope", todo |-> review.scope, at |-> NoTarget, revs |-> <<>>, found |-> {},
            loaded |-> FALSE, seen |-> <<>>, classes |-> review.classes, since |-> stamp]]
    /\ UNCHANGED <<layer, review, ticket, creating, issues, loaded, closing, export,
                   examined, judged, approved, filtered, stamp>>

\* The layers are those of the session that was read and those it is about by now.
QaScope(c) ==
    /\ check[c].pc = "scope"
    /\ check' = [check EXCEPT ![c] = [check[c] EXCEPT
                    !.pc = "revision", !.todo = @ \cup Effective, !.loaded = loaded]]
    /\ UNCHANGED <<layer, review, ticket, creating, issues, loaded, closing, export,
                   examined, judged, approved, filtered, stamp, left>>

\* A layer that is not there ends the request.
QaRevision(c, l) ==
    /\ check[c].pc = "revision" /\ l \in check[c].todo
    /\ check' = [check EXCEPT ![c] =
           IF layer[l].gone THEN Idle
           ELSE [check[c] EXCEPT
                   !.pc = "rows", !.at = l, !.todo = @ \ {l},
                   !.revs = [k \in DOMAIN @ \cup {l} |-> IF k = l THEN layer[l].rev ELSE @[k]]]]
    /\ UNCHANGED <<layer, review, ticket, creating, issues, loaded, closing, export,
                   examined, judged, approved, filtered, stamp, left>>

QaRows(c) ==
    /\ check[c].pc = "rows"
    /\ check' = [check EXCEPT ![c] =
           [check[c] EXCEPT
                     !.pc = "revision", !.at = NoTarget,
                     !.found = @ \cup Found(check[c].at, layer[check[c].at].rows,
                                            check[c].classes, Bounds[check[c].loaded]),
                     !.seen = [k \in DOMAIN @ \cup {check[c].at} |->
                                  IF k = check[c].at THEN Seen(k) ELSE @[k]]]]
    /\ UNCHANGED <<layer, review, ticket, creating, issues, loaded, closing, export,
                   examined, judged, approved, filtered, stamp, left>>

\* replace_review_qa_issues.  The decision on a warning that is found again is kept.
Kept(found) ==
    {[id |-> n.id, error |-> n.error,
      status |-> IF ~n.error /\ \E i \in issues : i.id = n.id
                 THEN (CHOOSE i \in issues : i.id = n.id).status ELSE "open"] : n \in found}

QaStore(c) ==
    /\ check[c].pc = "revision" /\ check[c].todo = {}
    /\ IF review.status \notin Closed /\ DOMAIN check[c].revs = Effective
       THEN /\ issues' = Kept(check[c].found)
            /\ review' = [review EXCEPT !.snapshot = check[c].revs]
            /\ examined' = check[c].seen /\ stamp' = stamp + 1
            /\ judged' = [classes |-> check[c].classes, since |-> check[c].since]
       ELSE UNCHANGED <<issues, review, examined, judged, stamp>>
    /\ check' = [check EXCEPT ![c] = Idle]
    /\ UNCHANGED <<layer, ticket, creating, loaded, closing, export, approved, filtered, left>>

-------------------------------------------------------------------------------
(* PATCH to "completed": the revisions of the layers, then one transaction. *)

CloseBegin ==
    /\ closing = Idle /\ Pay("closings") /\ review.status \in {"active", "paused"}
    /\ ScopeLives(review.scope)
    /\ closing' = [pc |-> "read", todo |-> Effective, revs |-> <<>>, seen |-> <<>>,
                   status |-> review.status]
    /\ UNCHANGED <<layer, review, ticket, creating, issues, loaded, check, export,
                   examined, judged, approved, filtered, stamp>>

CloseRead(l) ==
    /\ closing.pc = "read" /\ l \in closing.todo
    /\ closing' = [closing EXCEPT
           !.todo = @ \ {l},
           !.revs = [k \in DOMAIN @ \cup {l} |-> IF k = l THEN Revision(l) ELSE @[k]],
           !.seen = [k \in DOMAIN @ \cup {l} |-> IF k = l THEN Seen(l) ELSE @[k]]]
    /\ UNCHANGED <<layer, review, ticket, creating, issues, loaded, check, export,
                   examined, judged, approved, filtered, stamp, left>>

CloseCommit ==
    /\ closing.pc = "read" /\ closing.todo = {}
    /\ review.status = closing.status /\ ~Blocked(closing.revs)
    /\ review' = [review EXCEPT !.status = "completed"]
    /\ approved' = closing.seen /\ closing' = Idle /\ stamp' = stamp + 1
    /\ UNCHANGED <<layer, ticket, creating, issues, loaded, check, export,
                   examined, judged, filtered, left>>

\* Refused: blockers were counted before or in the transaction, or an outbox has
\* unfinished resolutions.
CloseRefused ==
    /\ closing.pc = "read" /\ closing.todo = {} /\ closing' = Idle
    /\ UNCHANGED <<layer, review, ticket, creating, issues, loaded, check, export,
                   examined, judged, approved, filtered, stamp, left>>

-------------------------------------------------------------------------------
(* A report, a review export or an active-learning export. *)

Counts ==
    [tickets |-> {<<t, ticket[t].status>> : t \in {u \in Ticket : ticket[u] # NoTicket}},
     open |-> Cardinality({i \in issues : i.status = "open"})]

\* _capture_registry_snapshot: one read transaction.
ExportBegin ==
    /\ export = Idle /\ Pay("exports")
    /\ export' = [pc |-> "layers", todo |-> Effective, stamp |-> stamp, revs |-> <<>>,
                  all |-> Effective]
    /\ UNCHANGED <<layer, review, ticket, creating, issues, loaded, check, closing,
                   examined, judged, approved, filtered, stamp>>

\* _capture_layer_snapshots.
ExportLayer(l) ==
    /\ export.pc = "layers" /\ l \in export.todo
    /\ export' = IF layer[l].gone THEN Idle
                 ELSE [export EXCEPT !.todo = @ \ {l},
                         !.revs = [k \in DOMAIN @ \cup {l} |->
                                      IF k = l THEN layer[l].rev ELSE @[k]]]
    /\ UNCHANGED <<layer, review, ticket, creating, issues, loaded, check, closing,
                   examined, judged, approved, filtered, stamp, left>>

\* review_report_aggregates.  `truth` is what is to be had at this moment, and the filter
\* of the QA run that is stored.
ExportCounts ==
    /\ export.pc = "layers" /\ export.todo = {}
    /\ export' = [pc |-> "gate", stamp |-> export.stamp, revs |-> export.revs,
                  all |-> export.all, counts |-> Counts,
                  truth |-> [counts |-> Counts, rows |-> [l \in export.all |-> layer[l].rows],
                             eligible |-> ~Blocked([l \in Effective |-> Revision(l)]),
                             classes |-> judged.classes]]
    /\ UNCHANGED <<layer, review, ticket, creating, issues, loaded, check, closing,
                   examined, judged, approved, filtered, stamp, left>>

\* The completion gate as the report tells it.
ExportGate ==
    /\ export.pc = "gate"
    /\ export' = [pc |-> "bundle", stamp |-> export.stamp, revs |-> export.revs,
                  all |-> export.all, counts |-> export.counts, truth |-> export.truth,
                  eligible |-> ~Blocked([l \in Effective |-> Revision(l)]),
                  todo |-> export.all, rows |-> <<>>, evidence |-> <<>>]
    /\ UNCHANGED <<layer, review, ticket, creating, issues, loaded, check, closing,
                   examined, judged, approved, filtered, stamp, left>>

\* The edited bundle of a layer, and then, from the same rows, its provenance,
\* observations and labels.
ExportBundle(l) ==
    /\ export.pc = "bundle" /\ l \in export.todo
    /\ export' = IF layer[l].gone THEN Idle
                 ELSE [export EXCEPT !.pc = "evidence", !.todo = @ \ {l},
                         !.rows = [k \in DOMAIN @ \cup {l} |->
                                      IF k = l THEN layer[l].rows ELSE @[k]]]
    /\ UNCHANGED <<layer, review, ticket, creating, issues, loaded, check, closing,
                   examined, judged, approved, filtered, stamp, left>>

ExportEvidence(l) ==
    /\ export.pc = "evidence" /\ l \in DOMAIN export.rows \ DOMAIN export.evidence
    /\ export' = IF layer[l].gone THEN Idle
                 ELSE [export EXCEPT !.pc = "bundle",
                         !.evidence = [k \in DOMAIN @ \cup {l} |->
                                          IF k = l THEN layer[l].rows ELSE @[k]]]
    /\ UNCHANGED <<layer, review, ticket, creating, issues, loaded, check, closing,
                   examined, judged, approved, filtered, stamp, left>>

\* _assert_export_fence: the registry again, then the layers again.
FenceRegistry ==
    /\ export.pc = "bundle" /\ export.todo = {}
    /\ export' = IF export.stamp # stamp THEN Idle
                 ELSE [export EXCEPT !.pc = "fence", !.todo = export.all]
    /\ UNCHANGED <<layer, review, ticket, creating, issues, loaded, check, closing,
                   examined, judged, approved, filtered, stamp, left>>

FenceLayer(l) ==
    /\ export.pc = "fence" /\ l \in export.todo
    /\ export' = IF Revision(l) # export.revs[l] THEN Idle
                 ELSE [export EXCEPT !.todo = @ \ {l}]
    /\ UNCHANGED <<layer, review, ticket, creating, issues, loaded, check, closing,
                   examined, judged, approved, filtered, stamp, left>>

Serve ==
    /\ export.pc = "fence" /\ export.todo = {} /\ export' = [export EXCEPT !.pc = "served"]
    /\ UNCHANGED <<layer, review, ticket, creating, issues, loaded, check, closing,
                   examined, judged, approved, filtered, stamp, left>>

-------------------------------------------------------------------------------
GateNext ==
    \/ \E l \in Layer : Unregister(l) \/ CloseRead(l) \/ ExportLayer(l)
                        \/ ExportBundle(l) \/ ExportEvidence(l) \/ FenceLayer(l)
    \/ \E l \in Layer, f \in Feature, look \in RowLooks \cup {NoRow} : Edit(l, f, look)
    \/ \E t \in Ticket, l \in Layer \cup {NoTarget} : CheckTicket(t, l) \/ InsertTicket(t, l)
    \/ \E t \in Ticket : MoveTicket(t)
    \/ \E i \in issues : PatchIssue(i)
    \/ \E c \in Checker : QaBegin(c) \/ QaScope(c) \/ QaRows(c) \/ QaStore(c)
    \/ \E c \in Checker, l \in Layer : QaRevision(c, l)
    \/ LoadCatalog \/ PatchSession \/ CloseBegin \/ CloseCommit \/ CloseRefused
    \/ ExportBegin \/ ExportCounts \/ ExportGate \/ FenceRegistry \/ Serve

GateSpec == GateInit /\ [][GateNext]_gateVars

-------------------------------------------------------------------------------
\* A session is completed only after a QA run that found every row it looked at usable, in
\* every layer the session is about; and unless that run ended while completion was on its
\* way, and has read a later revision than completion, the rows that completion approved
\* are usable too.  The rows are those of the classes that QA run was to look at.
CompletedIsClean ==
    review.status \in Closed =>
        \A l \in DOMAIN approved :
            /\ judged.classes \in examined[l].fit
            /\ approved[l].rev >= examined[l].rev => judged.classes \in approved[l].fit

\* They are the classes of the session unless its filters were changed when the QA run had
\* begun, or later.
JudgedAsFiltered == judged.since >= filtered => judged.classes = review.classes

\* What an export says comes from one moment: the counts and the gate of its report, the
\* bundles and the evidence beside them.
ExportIsOneMoment ==
    export.pc = "served" =>
        /\ export.counts = export.truth.counts
        /\ export.eligible = export.truth.eligible
        /\ export.rows = export.truth.rows
        /\ export.evidence = export.truth.rows

\* An export whose report calls the session eligible for completion holds usable rows only,
\* of the classes that the stored QA run looked at.
EligibleIsClean ==
    export.pc = "served" /\ export.eligible =>
        \A l \in export.all : AllUsable(export.rows[l], export.truth.classes)

\* The gate of a review session and the exports of it are sound.
GateSound == CompletedIsClean /\ JudgedAsFiltered /\ ExportIsOneMoment /\ EligibleIsClean

\* What the documents say: all target layers are checked before a session is completed, and
\* an error goes only when the data have been corrected and checked again.  Then the rows of
\* the classes of a completed session are usable in the revisions that completion approved.
CompletedForItsClasses ==
    review.status \in Closed =>
        \A l \in DOMAIN approved :
            approved[l].rev >= examined[l].rev => review.classes \in approved[l].fit
===============================================================================
