---------------------------- MODULE ReferenceIndex ----------------------------
(* Which feature belongs to a detection or a support (overlays.py).  Every layer keeps
   an index from identifiers to features in its store; the triggers of the store keep it
   current with every edit, and a reader that finds it out of date builds it again.  A
   request visits the layers one after the other, each in several statements that are
   not one transaction, while features are edited and layers come and go. *)
EXTENDS Naturals, FiniteSets

CONSTANTS
    Overlays,     \* the layers, in the order of their names
    Origin,       \* the detection source a layer was imported from
    Object,       \* features
    Identifier,   \* what identifies a detection or a support
    Zero,         \* the identifier 0, a number
    Contents,     \* what an edit may put into a feature: [det, sup, pole]
    Detected,     \* source_detection_ids a provenance may name
    NoRecord, NoStatus,
    MaxEntries, MaxPoints, MaxMigrations, MaxCandidates, MaxSupported,
    LinkStarts    \* [features, folder, asks, writes]: where a behaviour starts, the
                  \* requests that may come, and the bound on edits

VARIABLES
    features,   \* features.sqlite3 of each layer
    folder,     \* its directory: absent, here, hidden by its manifest, gone
    asked,      \* the request that is served
    held,       \* history: what was true of its identifier meanwhile
    writes      \* edits that may still come

linkVars == <<features, folder, asked, held, writes>>

Sheet == {Overlays[i] : i \in DOMAIN Overlays}

FeatureRows ==
    [live : BOOLEAN, det : SUBSET Identifier, sup : SUBSET Identifier, pole : BOOLEAN,
     prov : SUBSET Identifier]
Stores ==
    [rows : [Object -> FeatureRows \cup {NoRecord}],
     refs : SUBSET ({"detection", "support"} \X Identifier \X Object \X {"property", "provenance"}),
     fields : SUBSET {"det", "sup"}, tombs : SUBSET (Identifier \X Object),
     buried : SUBSET Identifier, revision : Nat, indexed : BOOLEAN, mark : Nat]
Requests ==
    [kind : {"detection", "support", "boxes"}, id : Identifier,
     source : Sheet \cup {Origin[s] : s \in Sheet}]

-------------------------------------------------------------------------------
(* The index.  A store has the rows, the references <<kind, id, feature, evidence>>, the
   tombstones <<id, feature>>, the revision, and whether it has table and triggers and
   for which revision (indexed, mark); buried is history, the detections of features that
   were deleted.  A row has [live, det, sup, pole, prov]. *)

PropertyRefs(x, row) ==
    {<<"detection", i, x, "property">> : i \in row.det}
        \cup {<<"support", i, x, "property">> : i \in row.sup}
ProvenanceRefs(x, row) == {<<"detection", i, x, "provenance">> : i \in row.prov}
RefsOf(x, row) == PropertyRefs(x, row) \cup ProvenanceRefs(x, row)

LiveIn(rows) == {x \in Object : rows[x] # NoRecord /\ (rows[x] # NoRecord => rows[x].live)}
AllRefs(rows) == UNION {RefsOf(x, rows[x]) : x \in LiveIn(rows)}

IndexCurrent(s) == features[s].indexed /\ features[s].mark = features[s].revision

\* The rebuild takes the number 0 for an empty value; the triggers do not.
RebuildIndex(store) ==
    [store EXCEPT !.refs = {r \in AllRefs(store.rows) : r[2] # Zero},
                  !.indexed = TRUE, !.mark = store.revision]

\* What the triggers do to the references of x, if the store has them: those of the
\* dropped evidence go, the new ones come.
Referring(store, x, dropped, new) ==
    IF ~store.indexed THEN store.refs
    ELSE {r \in store.refs : r[3] # x \/ r[4] \notin dropped} \cup new

OnInsert(store, x, row) ==
    [store EXCEPT !.rows[x] = row,
                  !.refs = Referring(store, x, {}, PropertyRefs(x, row))]

\* Mutant of OnUpdate: the evidence of the provenance is not written again.
OnUpdateOfProperties(store, x, row) ==
    [store EXCEPT !.rows[x] = row,
                  !.refs = Referring(store, x, {"property", "provenance"},
                                     IF row.live THEN PropertyRefs(x, row) ELSE {})]

OnUpdate(store, x, row) ==
    [store EXCEPT !.rows[x] = row,
                  !.refs = Referring(store, x, {"property", "provenance"},
                                     IF row.live THEN RefsOf(x, row) ELSE {})]

OnProvenance(store, x, ids) ==
    LET row == [store.rows[x] EXCEPT !.prov = ids]
    IN [store EXCEPT !.rows[x] = row,
                     !.refs = Referring(store, x, {"provenance"},
                                        IF row.live THEN ProvenanceRefs(x, row) ELSE {})]

OnRevision(store) ==
    [store EXCEPT !.revision = @ + 1, !.mark = IF store.indexed THEN store.revision + 1 ELSE @]

-------------------------------------------------------------------------------
(* Edits, each one transaction on the store of a registered layer. *)

Carrying(row, kind) == IF kind = "support" THEN row.sup ELSE row.det \cup row.prov

\* The layers a request is about; supports are looked for where the field is.
Concerns(s, a) ==
    (a.kind = "detection" => Origin[s] = a.source) /\ (a.kind = "boxes" => s = a.source)
Counting(s, a) == Concerns(s, a) /\ (a.kind = "support" => "sup" \in features[s].fields)

\* The rows that carry the identifier asked for, in these layers and in those that count.
Bearing(s, a) ==
    LET rows == features[s].rows
    IN {<<s, x, rows[x].pole>> : x \in {y \in LiveIn(rows) : a.id \in Carrying(rows[y], a.kind)}}
Bearers(a) == UNION {Bearing(s, a) : s \in {q \in Sheet : folder[q] = "here" /\ Concerns(q, a)}}
Carriers(a) == UNION {Bearing(s, a) : s \in {q \in Sheet : folder[q] = "here" /\ Counting(q, a)}}

Graves(a) ==
    {s \in Sheet : folder[s] = "here" /\ Counting(s, a) /\ a.id \in features[s].buried}

\* What changes while a request is served is remembered with it; an undo can bring the
\* value of a field back that is gone, so rows of all its layers belong to the history.
Remember ==
    held' = [calm |-> FALSE, steady |-> held.steady \cap Carriers(asked)',
             ever |-> held.ever \cup Bearers(asked)', graves |-> held.graves \cap Graves(asked)']

CommitEdit(s, store) ==
    /\ folder[s] = "here" /\ writes > 0 /\ writes' = writes - 1
    /\ features' = [features EXCEPT ![s] = OnRevision(store)]
    /\ UNCHANGED <<folder, asked>>
    /\ Remember

Fits(s, c) == c.sup = {} \/ "sup" \in features[s].fields

Filled(c, prov) == [live |-> TRUE, det |-> c.det, sup |-> c.sup, pole |-> c.pole, prov |-> prov]

CreateFeature(s, x, c, ids) ==
    /\ features[s].rows[x] = NoRecord /\ Fits(s, c)
    /\ CommitEdit(s, OnProvenance(OnInsert(features[s], x, Filled(c, {})), x, ids))

\* A correction adds the detections of its task to the provenance.
PatchFeature(s, x, c, ids) ==
    /\ x \in LiveIn(features[s].rows) /\ Fits(s, c)
    /\ LET prov == features[s].rows[x].prov
           edited == OnUpdate(features[s], x, Filled(c, prov))
       IN CommitEdit(s, IF ids = {} THEN edited ELSE OnProvenance(edited, x, prov \cup ids))

\* Undo and redo put a feature back to what it was, with the properties of that time,
\* or take it away; neither writes or removes a tombstone.
ApplyFeatureState(s, x, c) ==
    /\ features[s].rows[x] # NoRecord
    /\ LET row == features[s].rows[x] IN
       \/ CommitEdit(s, OnUpdate(features[s], x, Filled(c, row.prov)))
       \/ row.live /\ CommitEdit(s, OnUpdate(features[s], x, [row EXCEPT !.live = FALSE]))

\* The detections of a feature are kept as tombstones before it is deleted.
DeleteFeature(s, x) ==
    /\ x \in LiveIn(features[s].rows)
    /\ LET store == IF IndexCurrent(s) THEN features[s] ELSE RebuildIndex(features[s])
           own == {r \in store.refs : r[1] = "detection" /\ r[3] = x}
           marked == [store EXCEPT !.tombs = @ \cup {<<r[2], x>> : r \in own},
                                   !.buried = @ \cup Carrying(store.rows[x], "detection")]
       IN CommitEdit(s, OnUpdate(marked, x, [store.rows[x] EXCEPT !.live = FALSE]))

\* Every row, deleted ones included, is written again without the field.
DeleteField(s) ==
    /\ "sup" \in features[s].fields
    /\ LET old == features[s].rows
           rows == [x \in Object |-> IF old[x] = NoRecord THEN NoRecord
                                     ELSE [old[x] EXCEPT !.sup = {}]]
       IN CommitEdit(s, [features[s] EXCEPT
              !.fields = @ \ {"sup"}, !.rows = rows,
              !.refs = IF features[s].indexed THEN AllRefs(rows) ELSE @])

Relocate(s, from, to) ==
    /\ folder[s] = from /\ writes > 0 /\ writes' = writes - 1
    /\ folder' = [folder EXCEPT ![s] = to]
    /\ UNCHANGED asked

\* An import publishes the directory with its index.
ImportLayer(s) ==
    /\ Relocate(s, "absent", "here")
    /\ features' = [features EXCEPT ![s] = RebuildIndex(@)]
    /\ Remember

\* unregister_overlay marks the manifest, then moves the directory.
HideLayer(s) == Relocate(s, "here", "hidden") /\ UNCHANGED features /\ Remember
ArchiveLayer(s) ==
    /\ folder[s] = "hidden" /\ folder' = [folder EXCEPT ![s] = "gone"]
    /\ UNCHANGED <<features, asked, held, writes>>

-------------------------------------------------------------------------------
(* A request: for the feature of a detection among the layers of its source, for the
   features of a support among all layers, or for the boxes that a layer shows. *)

Coming(a) ==
    [pc |-> "idle", kind |-> a.kind, id |-> a.id, source |-> a.source, todo |-> {}, leaf |-> 0,
     entries |-> 0, points |-> 0, builds |-> 0, check |-> "need", saw |-> 0,
     phase |-> "rows", revision |-> 0, linked |-> {}, items |-> {}, graves |-> {},
     complete |-> TRUE, status |-> NoStatus]

\* The directory is listed once; boxes are asked of one layer.
Ask ==
    /\ asked.pc = "idle"
    /\ asked' = [asked EXCEPT !.pc = "visit",
                    !.todo = {i \in DOMAIN Overlays :
                                /\ folder[Overlays[i]] \in {"here", "hidden"}
                                /\ asked.kind = "boxes" => Overlays[i] = asked.source}]
    /\ held' = [calm |-> TRUE, steady |-> Carriers(asked), ever |-> Bearers(asked),
                graves |-> Graves(asked)]
    /\ UNCHANGED <<features, folder, writes>>

Leaf == Overlays[asked.leaf]
Reply(r) == asked' = r /\ UNCHANGED <<features, folder, held, writes>>

NextLayer(r) == [r EXCEPT !.todo = @ \ {r.leaf}, !.pc = "visit"]
Stop(r) == [r EXCEPT !.pc = "answer", !.complete = FALSE]

\* A layer that cannot be read: one request goes on, the others give up.
Broken(r) ==
    IF r.kind = "detection" THEN [NextLayer(r) EXCEPT !.complete = FALSE] ELSE Stop(r)

VisitLayer ==
    /\ asked.pc = "visit"
    /\ \E i \in asked.todo :
        /\ \A j \in asked.todo : i <= j
        /\ LET r == [asked EXCEPT !.leaf = i, !.entries = @ + 1]
               on == folder[Overlays[i]]
               inside == [r EXCEPT !.points = @ + 1, !.phase = "rows",
                                   !.pc = IF r.kind = "boxes" THEN "layer" ELSE "check",
                                   !.check = IF r.kind = "boxes" THEN "ensure" ELSE "need"]
           IN Reply(IF r.entries > MaxEntries THEN Stop(r)
                    ELSE IF on = "gone" THEN (IF r.kind = "boxes" THEN Stop(r) ELSE NextLayer(r))
                    ELSE IF on = "hidden" THEN Broken(r)
                    ELSE IF ~Counting(Overlays[i], r) THEN NextLayer(r)
                    ELSE IF inside.points > MaxPoints THEN Stop(r) ELSE inside)

\* project_overlay_on_panorama reads the rows for the items it projects; a box gets the
\* feature whose properties name its detection.
ReadLayer ==
    /\ asked.pc = "layer"
    /\ LET rows == features[Leaf].rows
       IN Reply(IF folder[Leaf] = "gone" THEN Stop(asked)
                ELSE [asked EXCEPT !.pc = "check",
                        !.linked = {<<Leaf, x>> : x \in {y \in LiveIn(rows) : asked.id \in rows[y].det}}])

\* _exact_reference_index_current reads the revision, then the mark of the index.
CheckRevision ==
    /\ asked.pc = "check"
    /\ Reply(IF folder[Leaf] = "gone" THEN Broken(asked)
             ELSE [asked EXCEPT !.pc = "mark", !.saw = features[Leaf].revision])

CheckMark ==
    /\ asked.pc = "mark"
    /\ LET ok == features[Leaf].indexed /\ features[Leaf].mark = asked.saw
           counted == [asked EXCEPT !.builds = @ + 1]
           go(r, where) == [r EXCEPT !.pc = "check", !.check = where]
       IN Reply(CASE asked.check = "need" /\ ok -> go(asked, "ensure")
                  [] asked.check = "need" /\ ~ok ->
                        IF counted.builds > MaxMigrations THEN Stop(counted)
                        ELSE go(counted, "ensure")
                  [] asked.check = "ensure" /\ ok -> go(asked, "read")
                  [] asked.check = "ensure" /\ ~ok -> [asked EXCEPT !.pc = "build"]
                  [] asked.check = "read" /\ ~ok -> Broken(asked)
                  [] OTHER -> [asked EXCEPT
                                !.pc = IF asked.phase = "rows" THEN "revision" ELSE "tombs"])

EnsureIndex ==
    /\ asked.pc = "build"
    /\ IF folder[Leaf] = "gone" THEN Reply(Broken(asked))
       ELSE /\ asked' = [asked EXCEPT !.pc = "check", !.check = "read"]
            /\ features' = [features EXCEPT ![Leaf] = IF IndexCurrent(Leaf) THEN @
                                                      ELSE RebuildIndex(@)]
            /\ UNCHANGED <<folder, held, writes>>

ReadRevision ==
    /\ asked.pc = "revision"
    /\ Reply([asked EXCEPT !.pc = "rows", !.revision = features[Leaf].revision])

\* The index joined with the rows that are not deleted.
ReadRows ==
    /\ asked.pc = "rows"
    /\ LET store == features[Leaf]
           kind == IF asked.kind = "support" THEN "support" ELSE "detection"
           found == {x \in LiveIn(store.rows) :
                        \E r \in store.refs : r[1] = kind /\ r[2] = asked.id /\ r[3] = x}
           all == asked.items \cup
                    {[at |-> <<Leaf, x>>, pole |-> store.rows[x].pole,
                      revision |-> asked.revision, seen |-> store.revision] : x \in found}
           full == [asked EXCEPT !.items = all, !.phase = "tombs", !.pc = "check",
                                 !.check = "ensure",
                                 !.complete = @ /\ Cardinality(all) <= MaxCandidates]
       IN Reply(IF asked.kind # "support" THEN full
                ELSE IF Cardinality(all) > MaxSupported THEN Stop(asked)
                ELSE NextLayer([asked EXCEPT !.items = all]))

ReadTombstones ==
    /\ asked.pc = "tombs"
    /\ Reply(NextLayer([asked EXCEPT !.graves = @ \cup
                {<<Leaf, t[2]>> : t \in {u \in features[Leaf].tombs : u[1] = asked.id}}]))

Objects(r) == {i \in r.items : ~i.pole}

\* One editable detection wins over pole rows that share its identifier.
Resolution(r) ==
    IF r.complete /\ Cardinality(Objects(r)) = 1 THEN "matched"
    ELSE IF Cardinality(r.items) > 1 THEN "ambiguous"
    ELSE IF ~r.complete THEN "unavailable"
    ELSE IF r.graves # {} /\ Objects(r) = {} THEN "deleted"
    ELSE IF r.items # {} THEN "matched" ELSE "not_found"

SupportResolution(r) ==
    IF ~r.complete THEN "unavailable" ELSE IF r.items # {} THEN "matched" ELSE "not_found"

\* A box is hidden when its observation was deleted and no row carries it.
BoxResolution(r) ==
    IF r.complete THEN (IF r.graves # {} /\ r.items = {} THEN "hidden" ELSE "shown")
    ELSE IF r.todo = {} THEN "shown" ELSE "error"

Answer ==
    /\ asked.pc = "answer" \/ (asked.pc = "visit" /\ asked.todo = {})
    /\ Reply([asked EXCEPT !.pc = "answered",
                 !.status = CASE asked.kind = "detection" -> Resolution(asked)
                              [] asked.kind = "support" -> SupportResolution(asked)
                              [] OTHER -> BoxResolution(asked)])

-------------------------------------------------------------------------------
\* A store is current if it is indexed, and keeps a tombstone of every detection deleted.
Sound(store) ==
    /\ store \in Stores
    /\ store.indexed =>
        /\ store.mark = store.revision
        /\ RebuildIndex(store).refs \subseteq store.refs /\ store.refs \subseteq AllRefs(store.rows)
    /\ \A i \in store.buried \ {Zero} : \E x \in Object : <<i, x>> \in store.tombs

ASSUME OverlaysAreSheets ==
    /\ DOMAIN Overlays \subseteq Nat /\ IsFiniteSet(Sheet) /\ IsFiniteSet(Object)
    /\ \A i, j \in DOMAIN Overlays : Overlays[i] = Overlays[j] => i = j
ASSUME NoRecordIsNone == NoRecord \notin FeatureRows
ASSUME EditsHaveTypes ==
    /\ Contents \subseteq [det : SUBSET Identifier, sup : SUBSET Identifier, pole : BOOLEAN]
    /\ Detected \subseteq SUBSET Identifier
ASSUME LimitsAreNumbers ==
    {MaxEntries, MaxPoints, MaxMigrations, MaxCandidates, MaxSupported} \subseteq Nat
ASSUME BeginningsAreSound ==
    \A k \in LinkStarts :
        /\ k.features \in [Sheet -> Stores] /\ \A s \in Sheet : Sound(k.features[s])
        /\ k.folder \in [Sheet -> {"absent", "here", "hidden", "gone"}]
        /\ k.asks \subseteq Requests /\ k.writes \in Nat

LinkInit ==
    /\ \E k \in LinkStarts :
          /\ features = k.features /\ folder = k.folder /\ writes = k.writes
          /\ \E a \in k.asks : asked = Coming(a)
    /\ held = [calm |-> TRUE, steady |-> {}, ever |-> {}, graves |-> {}]

EditLayer(s) ==
    \/ \E x \in Object, c \in Contents :
          \/ ApplyFeatureState(s, x, c)
          \/ \E ids \in Detected : CreateFeature(s, x, c, ids) \/ PatchFeature(s, x, c, ids)
    \/ \E x \in Object : DeleteFeature(s, x)
    \/ DeleteField(s)

Layers == \E s \in Sheet : ImportLayer(s) \/ HideLayer(s) \/ ArchiveLayer(s)

Reading ==
    \/ Ask \/ VisitLayer \/ ReadLayer \/ CheckRevision \/ CheckMark \/ EnsureIndex
    \/ ReadRevision \/ ReadRows \/ ReadTombstones \/ Answer

LinkNext == Reading \/ Layers \/ \E s \in Sheet : EditLayer(s)

LinkSpec == LinkInit /\ [][LinkNext]_linkVars

-------------------------------------------------------------------------------
\* An index that passes for current has every reference a rebuild would find, and none
\* that no live row has; they differ only in the number 0.
IndexFaithful ==
    \A s \in Sheet : IndexCurrent(s) =>
        /\ RebuildIndex(features[s]).refs \subseteq features[s].refs
        /\ features[s].refs \subseteq AllRefs(features[s].rows)

Rows(some) == {<<c[1], c[2]>> : c \in some}
Editable(some) == {c \in some : ~c[3]}

Answered(kind) == asked.pc = "answered" /\ asked.kind = kind /\ asked.id # Zero

\* A match is a feature that did carry the detection, and no other editable one carried it
\* from the question to the answer.  Nothing is called absent or deleted that was there all
\* the time; a deletion that stands, with at most one pole row beside it, keeps the
\* detection from being called absent.
DetectionsHonest ==
    Answered("detection") =>
        /\ asked.status = "matched" =>
              LET match == IF Cardinality(Objects(asked)) = 1 THEN Objects(asked) ELSE asked.items
              IN \E i \in match :
                    match = {i} /\ i.at \in Rows(held.ever) /\ Rows(Editable(held.steady)) \subseteq {i.at}
        /\ asked.status = "ambiguous" => Cardinality(Rows(held.ever)) > 1
        /\ asked.status = "deleted" => Editable(held.steady) = {}
        /\ asked.status = "not_found" => held.steady = {} /\ held.graves = {}
        /\ (held.graves # {} /\ Editable(held.ever) = {} /\ Cardinality(Rows(held.ever)) <= 1)
              => asked.status \in {"deleted", "unavailable"}

\* The features of a support are all those that carried it all the time, and no other.
SupportsHonest ==
    Answered("support") /\ asked.status # "unavailable" =>
        LET shown == {i.at : i \in asked.items}
        IN Rows(held.steady) \subseteq shown /\ shown \subseteq Rows(held.ever)

\* A box is hidden only while no row carries it, stays hidden as long as its deletion
\* stands, and leads to no feature that did not carry its detection meanwhile.
BoxesHonest ==
    Answered("boxes") =>
        /\ asked.linked \subseteq Rows(held.ever)
        /\ asked.status = "hidden" => held.steady = {}
        /\ held.graves # {} /\ held.ever = {} => asked.status # "shown"

\* A revision that comes with an answer is never newer than the row it came with.
RevisionsSafe == \A i \in asked.items : i.revision <= i.seen

\* When nothing changes meanwhile and no layer is hidden or over a limit, an answer is given.
AnswersGiven ==
    (/\ asked.pc = "answered" /\ held.calm /\ asked.status \in {"unavailable", "error"})
        => \/ \E s \in Sheet : folder[s] # "here"
           \/ asked.entries > MaxEntries \/ asked.points >= MaxPoints
           \/ asked.builds > MaxMigrations
           \/ Cardinality(held.steady) > MaxCandidates \/ Cardinality(held.steady) > MaxSupported

\* Identifiers lead to the right features.
LinksSound ==
    /\ IndexFaithful /\ DetectionsHonest /\ SupportsHonest /\ BoxesHonest
    /\ RevisionsSafe /\ AnswersGiven
===============================================================================
