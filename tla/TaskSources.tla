------------------------------ MODULE TaskSources ------------------------------
(* Where review tasks come from and how they are listed (review_candidates.py, parts of
   review_tasks.py and store.py).  A request reads the frames of the dataset and the result
   files of finished runs up to its limits, proposes one task per detection and reason,
   per gap between detections and per interval of frames that nobody has reviewed, and
   inserts those whose fingerprint is new.  Meanwhile tasks are worked on, other requests
   do the same, the dataset is scanned again, and a client turns the pages of the queue. *)
EXTENDS Naturals, FiniteSets, Sequences

CONSTANTS
    Scans,          \* what each scan of the dataset found: frame |-> [track, at]
    Scope,          \* of the session: [tracks, range], either may be empty
    SessionClasses, \* class filters of the session
    Settings,       \* of a request: [sources, threshold, size]
    Requester,      \* requests that generate tasks
    PageSize,
    Weight,         \* _TASK_WEIGHTS
    NoValue,
    MaxFiles, MaxBytes, MaxFile, MaxPerFile, MaxArtifacts, MaxTasks,
    SpacingFloor, SpacingFactor, LeastGap, LeastGaps,
    Starts          \* [tree, spent]: runs and the files they have left, and the bounds on
                    \* "requests", "moves" of tasks and "pages"

VARIABLES
    tree,     \* [runs, files]: the runs of the session and their result files
    version,  \* which scan the dataset shows
    session,  \* status of the session
    queue,    \* review_tasks: fingerprint |-> task
    clock,    \* utc_now
    request,  \* the requests that generate tasks
    pager,    \* the client that lists the tasks to do
    covered,  \* history: the last scan whose frames a request has covered whole
    spent     \* of the budget

sourceVars == <<tree, version, session, queue, clock, request, pager, covered, spent>>

TaskType == {"LOW_CONFIDENCE", "PROJECTION_FAILED", "GEOMETRY_REVIEW", "POLE_BASE_REVIEW",
             "UNREVIEWED_INTERVAL", "SPACING_ANOMALY"}

\* The place of a frame in its dataset is its own.
ScanTypes(scan) ==
    /\ IsFiniteSet(DOMAIN scan)
    /\ \A f \in DOMAIN scan : scan[f].at \in Nat
    /\ \A f, g \in DOMAIN scan : scan[f].at = scan[g].at => f = g

\* A model with a file has a root.
TreeTypes(t) ==
    /\ Len(t.files) \in Nat /\ DOMAIN t.files = 1..Len(t.files)
    /\ \A n \in DOMAIN t.files :
        LET file   == t.files[n]
            models == t.runs[file.run].models
        IN /\ file.size \in Nat
           /\ Len(file.found) \in Nat /\ DOMAIN file.found = 1..Len(file.found)
           /\ \A i \in DOMAIN file.found : file.found[i].place \in {NoValue} \cup Nat
           /\ file.model \in DOMAIN models => models[file.model].there

ASSUME SourcesAssumption ==
    /\ Len(Scans) \in Nat \ {0} /\ \A v \in 1..Len(Scans) : ScanTypes(Scans[v])
    /\ \A s \in Starts : TreeTypes(s.tree)
    /\ \A st \in Settings : st.size \in Nat \ {0}
    /\ Weight \in [TaskType -> Nat]
    /\ MaxPerFile \in Nat /\ MaxTasks \in Nat /\ PageSize \in Nat \ {0}
    /\ LeastGap \in Nat /\ SpacingFloor \in Nat /\ SpacingFactor \in Nat /\ SpacingFactor >= 2

OpenTask == {"todo", "in_progress"}
Spend(what) == spent[what] > 0 /\ spent' = [spent EXCEPT ![what] = @ - 1]

-------------------------------------------------------------------------------
(* Frames and result files. *)

Scoped(v) ==
    {f \in DOMAIN Scans[v] :
        /\ Scope.tracks = {} \/ Scans[v][f].track \in Scope.tracks
        /\ Scope.range = {} \/ Scans[v][f].at \in Scope.range}

\* A run has a status and its models by the manifest: [status, there], there when the model
\* has a root.  The files are in the order in which they would be read; a file of model 0
\* is in the root of its run.  When no model is completed, every root is read.
Declared(run) ==
    {m \in DOMAIN run.models : run.models[m].status = "completed" /\ run.models[m].there}

ResultRoots(run) ==
    IF Declared(run) # {} THEN Declared(run) ELSE {0} \cup DOMAIN run.models

ResultFiles ==
    {n \in DOMAIN tree.files :
        LET run == tree.runs[tree.files[n].run]
        IN run.status = "completed" /\ tree.files[n].model \in ResultRoots(run)}

SameRecord(m, n) ==
    /\ tree.files[m].run = tree.files[n].run /\ tree.files[m].model = tree.files[n].model
    /\ tree.files[m].record = tree.files[n].record

\* An empty file, or one that is too large, is passed over.
Readable(file) == 0 < file.size /\ file.size <= MaxFile

\* Files and bytes that are read before a file, and whether a limit is met there.
ReadBefore(n)  == {m \in ResultFiles : m < n /\ Readable(tree.files[m])}
BytesBefore(n) == Cardinality(UNION {{m} \X (1..tree.files[m].size) : m \in ReadBefore(n)})
LimitMet(n) ==
    \/ Cardinality(ReadBefore(n)) >= MaxFiles
    \/ BytesBefore(n) + tree.files[n].size > MaxBytes

\* A detection, by its file and its place there, of a file that can be used.
Parsed(n, frames) ==
    Readable(tree.files[n]) /\ ~tree.files[n].damaged /\ tree.files[n].frame \in frames
Places(frames) ==
    UNION {{n} \X {i \in DOMAIN tree.files[n].found : i <= MaxPerFile} :
                n \in {m \in ResultFiles : Parsed(m, frames)}}
Precedes(a, b) == a[1] < b[1] \/ (a[1] = b[1] /\ a[2] < b[2])
HasRoom(a, frames) == Cardinality({b \in Places(frames) : Precedes(b, a)}) < MaxArtifacts

\* More detections in a file than are read of one, or than there is room for.
TooMany(n, frames) ==
    /\ Parsed(n, frames)
    /\ \/ Len(tree.files[n].found) > MaxPerFile
       \/ \E a \in Places(frames) : a[1] = n /\ ~HasRoom(a, frames)

\* A limit on files ends the search; too many detections end it after the record.
Reached(n, frames) ==
    \A m \in ResultFiles : m < n => ~LimitMet(m) /\ (TooMany(m, frames) => SameRecord(m, n))
ArtifactPayloads(frames) ==
    {a \in Places(frames) : Reached(a[1], frames) /\ ~LimitMet(a[1]) /\ HasRoom(a, frames)}
CutShort(frames) == \E n \in ResultFiles : LimitMet(n) \/ TooMany(n, frames)

-------------------------------------------------------------------------------
(* Candidates.  A detection has [index, class, confidence, accepted, place, review, pole].
   A fingerprint is the evidence it is made of. *)

\* What is known of a detection, by its place.
Artifact(a) ==
    [from |-> tree.files[a[1]].from, frame |-> tree.files[a[1]].frame,
     found |-> tree.files[a[1]].found[a[2]]]
Evidence(a) == Artifact(a).found

InClasses(found) == SessionClasses = {} \/ found.class \in SessionClasses

Reasons(found, st) ==
    {r \in st.sources :
        \/ r = "LOW_CONFIDENCE" /\ found.confidence # NoValue /\ found.confidence < st.threshold
        \/ r = "PROJECTION_FAILED" /\ (found.accepted = "no" \/ found.place = NoValue)
        \/ r = "GEOMETRY_REVIEW" /\ found.review
        \/ r = "POLE_BASE_REVIEW" /\ found.pole = "review"}

ReasonOrder == <<"LOW_CONFIDENCE", "PROJECTION_FAILED", "GEOMETRY_REVIEW", "POLE_BASE_REVIEW">>

\* Reasons for which detections are due, in the order of both, and the task of one.
Due(artifacts, st) ==
    {p \in artifacts \X DOMAIN ReasonOrder :
        InClasses(Evidence(p[1])) /\ ReasonOrder[p[2]] \in Reasons(Evidence(p[1]), st)}
Sooner(p, q) == Precedes(p[1], q[1]) \/ (p[1] = q[1] /\ p[2] < q[2])
DetectionTask(p) ==
    [type |-> ReasonOrder[p[2]], of |-> Artifact(p[1]), frame |-> Artifact(p[1]).frame,
     span |-> {}]

\* One position per frame, track and class: the one of the highest confidence.
Confidence(a) == IF Evidence(a).confidence = NoValue THEN 0 ELSE Evidence(a).confidence
Above(a, b) ==
    \/ Confidence(a) > Confidence(b)
    \/ /\ Confidence(a) = Confidence(b)
       /\ \/ Evidence(a).index > Evidence(b).index
          \/ Evidence(a).index = Evidence(b).index /\ Precedes(a, b)
Positions(artifacts) ==
    LET usable == {a \in artifacts :
                      Evidence(a).accepted # "no" /\ Evidence(a).place # NoValue /\ InClasses(Evidence(a))}
    IN {a \in usable : ~\E b \in usable :
            /\ Artifact(b).frame = Artifact(a).frame /\ Evidence(b).class = Evidence(a).class
            /\ Above(b, a)}

\* The positions of one track and class, and the gaps between neighbours.
Ordinal(a, v) == Scans[v][Artifact(a).frame].at
LineOf(a, artifacts, v) ==
    {b \in Positions(artifacts) :
        /\ Scans[v][Artifact(b).frame].track = Scans[v][Artifact(a).frame].track
        /\ Evidence(b).class = Evidence(a).class}
Lines(artifacts, v) == {LineOf(a, artifacts, v) : a \in Positions(artifacts)}

GapsOf(line, v) ==
    {p \in line \X line :
        /\ Ordinal(p[1], v) < Ordinal(p[2], v)
        /\ ~\E c \in line : Ordinal(p[1], v) < Ordinal(c, v) /\ Ordinal(c, v) < Ordinal(p[2], v)}
Distance(p) ==
    IF Evidence(p[1]).place > Evidence(p[2]).place THEN Evidence(p[1]).place - Evidence(p[2]).place
    ELSE Evidence(p[2]).place - Evidence(p[1]).place

\* The k-th smallest gap, and twice the median, which for an even number is an integer.
StableGaps(line, v) == {p \in GapsOf(line, v) : Distance(p) >= LeastGap}
IsKth(g, k, gaps) ==
    /\ Cardinality({p \in gaps : Distance(p) < g}) < k
    /\ k <= Cardinality({p \in gaps : Distance(p) <= g})
TwiceMedian(m, gaps) ==
    LET n == Cardinality(gaps)
    IN \E g, h \in {Distance(p) : p \in gaps} :
         IsKth(g, (n + 1) \div 2, gaps) /\ IsKth(h, n \div 2 + 1, gaps) /\ m = g + h

TooWide(gap, median) == 2 * gap > 2 * SpacingFloor /\ 2 * gap > SpacingFactor * median

\* Gaps that are too wide against their like, and the median they were held against.
WideGaps(line, v) ==
    LET gaps == StableGaps(line, v)
        sums == {Distance(p) + Distance(q) : p \in gaps, q \in gaps}
    IN {w \in GapsOf(line, v) \X sums :
          /\ Cardinality(gaps) >= LeastGaps
          /\ TwiceMedian(w[2], gaps) /\ TooWide(Distance(w[1]), w[2])}
SpacingTask(w) ==
    [type |-> "SPACING_ANOMALY", frame |-> Artifact(w[1][2]).frame, span |-> {},
     of |-> [left |-> Artifact(w[1][1]), right |-> Artifact(w[1][2]), median |-> w[2]]]
Spacing(artifacts, v, st) ==
    IF "SPACING_ANOMALY" \notin st.sources THEN {}
    ELSE UNION {{SpacingTask(w) : w \in WideGaps(line, v)} : line \in Lines(artifacts, v)}

\* Intervals: the frames to do, in groups without a break on one track, in chunks of a
\* size; a chunk by its first and its last place.
GroupStart(places, s, n) == s..n \subseteq places /\ ~\E k \in places : k + 1 = s

IsChunk(places, lo, hi, size) ==
    /\ lo <= hi /\ hi < lo + size
    /\ \E s, q \in 0..lo : GroupStart(places, s, hi) /\ lo = s + q * size
    /\ hi + 1 = lo + size \/ hi + 1 \notin places

PlacesOf(todo, track, v) == {Scans[v][f].at : f \in {g \in todo : Scans[v][g].track = track}}

\* The task stands at the middle frame.
IntervalTask(f, g, todo, v) ==
    LET first == Scans[v][f].at
        last  == Scans[v][g].at
        chunk == {h \in todo : /\ Scans[v][h].track = Scans[v][f].track
                              /\ first <= Scans[v][h].at /\ Scans[v][h].at <= last}
    IN [type |-> "UNREVIEWED_INTERVAL", of |-> chunk,
        frame |-> CHOOSE h \in chunk : Scans[v][h].at = first + (last + 1 - first) \div 2,
        span |-> {[track |-> Scans[v][f].track, from |-> first, to |-> last]}]

Intervals(todo, v, st) ==
    IF "UNREVIEWED_INTERVAL" \notin st.sources THEN {}
    ELSE LET chunks == {e \in todo \X todo :
                          LET track == Scans[v][e[1]].track
                          IN /\ Scans[v][e[2]].track = track
                             /\ IsChunk(PlacesOf(todo, track, v), Scans[v][e[1]].at,
                                        Scans[v][e[2]].at, st.size)}
         IN {IntervalTask(e[1], e[2], todo, v) : e \in chunks}

\* As many as there is room for.
Parts(whole, room) ==
    {part \in SUBSET whole :
        Cardinality(part) = IF Cardinality(whole) < room THEN Cardinality(whole) ELSE room}
Leads(first, due) == \A p \in first : \A q \in due \ first : Sooner(p, q)

\* Detections first, then gaps, then intervals; the order in which the last two are cut is left
\* open.  The same fingerprint counts once.
GenerateCandidates(first, gaps, spans) == {DetectionTask(p) : p \in first} \cup gaps \cup spans
MadeTwice(first) == \E p, q \in first : p # q /\ DetectionTask(p) = DetectionTask(q)

-------------------------------------------------------------------------------
(* Tasks in the registry. *)

\* A task covers its frame and, by ordinals, the frames of its interval.
CoversFrame(c, f) ==
    LET now == Scans[version][f]
    IN \/ c.frame = f
       \/ \E s \in c.span : s.track = now.track /\ s.from <= now.at /\ now.at <= s.to

Reviewed ==
    {f \in DOMAIN Scans[version] :
        /\ \E c \in DOMAIN queue : CoversFrame(c, f) /\ queue[c].status \notin OpenTask
        /\ ~\E c \in DOMAIN queue : CoversFrame(c, f) /\ queue[c].status \in OpenTask}

\* Mutant: the place in the queue is that of the priority an operator can change.
AheadByPriority(c, d) ==
    \/ queue[c].priority > queue[d].priority
    \/ /\ queue[c].priority = queue[d].priority
       /\ \/ queue[c].born < queue[d].born
          \/ queue[c].born = queue[d].born /\ queue[c].id < queue[d].id

\* queue_priority DESC, created_at, id.
Ahead(c, d) ==
    \/ queue[c].weight > queue[d].weight
    \/ /\ queue[c].weight = queue[d].weight
       /\ \/ queue[c].born < queue[d].born
          \/ queue[c].born = queue[d].born /\ queue[c].id < queue[d].id

Asleep == [pc |-> "idle"]
NoPager == [pc |-> "idle", after |-> {}, got |-> <<>>, steady |-> {}]

SourceInit ==
    /\ \E s \in Starts : tree = s.tree /\ spent = s.spent
    /\ version = 1 /\ session = "active"
    /\ queue = <<>> /\ clock = 0 /\ request = [g \in Requester |-> Asleep]
    /\ pager = NoPager /\ covered = 0

\* The dataset is scanned again; neither the session nor its tasks keep it from that.
Rescan ==
    /\ version < Len(Scans) /\ version' = version + 1
    /\ UNCHANGED <<tree, session, queue, clock, request, pager, covered, spent>>

RequestTasks(g, st) ==
    /\ request[g].pc = "idle" /\ session = "active" /\ Spend("requests")
    /\ request' = [request EXCEPT ![g] = [pc |-> "read", st |-> st, born |-> clock]]
    /\ clock' = clock + 1
    /\ UNCHANGED <<tree, version, session, queue, pager, covered>>

\* The frames, and the files of the runs, which do not change any more.
ReadSources(g) ==
    /\ request[g].pc = "read"
    /\ LET frames == Scoped(version)
       IN request' = [request EXCEPT ![g] =
              [pc |-> "reviewed", st |-> @.st, born |-> @.born, v |-> version, frames |-> frames,
               artifacts |-> ArtifactPayloads(frames), truncated |-> CutShort(frames)]]
    /\ UNCHANGED <<tree, version, session, queue, clock, pager, covered, spent>>

ReadReviewed(g) ==
    /\ request[g].pc = "reviewed"
    /\ LET r    == request[g]
           todo == r.frames \ Reviewed
           due  == Due(r.artifacts, r.st)
       IN \E first \in Parts(due, MaxTasks) :
            \E gaps \in Parts(Spacing(r.artifacts, r.v, r.st), MaxTasks - Cardinality(first)) :
            \E spans \in Parts(Intervals(todo, r.v, r.st),
                              MaxTasks - Cardinality(first) - Cardinality(gaps)) :
            /\ Leads(first, due)
            /\ LET made == GenerateCandidates(first, gaps, spans)
               IN request' = [request EXCEPT ![g] =
                    [pc |-> "insert", st |-> r.st, born |-> r.born, v |-> r.v, made |-> made,
                     artifacts |-> r.artifacts, same |-> r.v = version, twice |-> MadeTwice(first),
                     truncated |-> r.truncated \/ Cardinality(made) >= MaxTasks]]
    /\ UNCHANGED <<tree, version, session, queue, clock, pager, covered, spent>>

\* create_review_tasks_idempotent: whatever the session has become.  Ids are in some order.
InsertTasks(g) ==
    /\ request[g].pc = "insert"
    /\ LET r == request[g]
           new == r.made \ DOMAIN queue
           id == CHOOSE i \in [new -> 1..Cardinality(new)] : \A c, d \in new : i[c] = i[d] => c = d
       IN /\ queue' = [c \in DOMAIN queue \cup new |->
                          IF c \in new
                          THEN [status |-> "todo", weight |-> Weight[c.type],
                                priority |-> Weight[c.type], born |-> r.born,
                                id |-> id[c]]
                          ELSE queue[c]]
          /\ request' = [request EXCEPT ![g] = Asleep]
          /\ covered' = IF /\ r.same /\ ~r.truncated /\ ~r.twice
                           /\ "UNREVIEWED_INTERVAL" \in r.st.sources
                        THEN r.v ELSE covered
    /\ UNCHANGED <<tree, version, session, clock, pager, spent>>

\* start, resolve and reopen, each a compare-and-set in an active session.
MoveTask(c) ==
    /\ c \in DOMAIN queue /\ session = "active" /\ Spend("moves")
    /\ \E to \in {<<"todo", "in_progress">>, <<"in_progress", "skipped">>,
                  <<"skipped", "todo">>} :
          /\ queue[c].status = to[1] /\ queue' = [queue EXCEPT ![c].status = to[2]]
    /\ pager' = [pager EXCEPT !.steady = @ \ {c}]
    /\ UNCHANGED <<tree, version, session, clock, request, covered>>

\* An operator gives an open task another priority; its place in the queue stays.
PatchPriority(c) ==
    /\ c \in DOMAIN queue /\ session = "active" /\ Spend("moves")
    /\ queue[c].status \in OpenTask
    /\ queue' = [queue EXCEPT ![c].priority = 100]
    /\ UNCHANGED <<tree, version, session, clock, request, pager, covered>>

CompleteSession ==
    /\ session = "active" /\ \A c \in DOMAIN queue : queue[c].status \notin OpenTask
    /\ session' = "completed"
    /\ UNCHANGED <<tree, version, queue, clock, request, pager, covered, spent>>

-------------------------------------------------------------------------------
(* A client lists the tasks to do, page by page; the cursor is the last one it has. *)

Behind(cursor) ==
    {c \in DOMAIN queue : queue[c].status = "todo" /\ \A d \in cursor : Ahead(d, c)}

ListTasks ==
    /\ pager.pc = "idle" /\ Spend("pages")
    /\ pager' = [pc |-> "page", after |-> {}, got |-> <<>>, steady |-> Behind({})]
    /\ UNCHANGED <<tree, version, session, queue, clock, request, covered>>

NextPage ==
    /\ pager.pc = "page"
    /\ LET rows  == Behind(pager.after)
           count == IF Cardinality(rows) < PageSize THEN Cardinality(rows) ELSE PageSize
       IN \E shown \in [1..count -> rows] :
            /\ \A i \in 1..count : \A j \in 1..(i - 1) : Ahead(shown[j], shown[i])
            /\ \A i \in 1..count : \A c \in rows : c = shown[i] \/ Ahead(shown[i], c)
                                          \/ \E j \in 1..(i - 1) : c = shown[j]
            /\ pager' = [pager EXCEPT
                  !.got = @ \o shown,
                  !.after = IF count = 0 THEN @ ELSE {shown[count]},
                  !.pc = IF Cardinality(rows) > PageSize THEN "page" ELSE "end"]
    /\ UNCHANGED <<tree, version, session, queue, clock, request, covered, spent>>

-------------------------------------------------------------------------------
SourceNext ==
    \/ \E g \in Requester : ReadSources(g) \/ ReadReviewed(g) \/ InsertTasks(g)
    \/ \E g \in Requester, st \in Settings : RequestTasks(g, st)
    \/ \E c \in DOMAIN queue : MoveTask(c) \/ PatchPriority(c)
    \/ Rescan \/ CompleteSession \/ ListTasks \/ NextPage

SourceSpec == SourceInit /\ [][SourceNext]_sourceVars

-------------------------------------------------------------------------------
\* After a request that was not cut short and made no evidence twice, no frame of the scope is
\* forgotten until the dataset is scanned again: when nothing is left to do, every frame has been reviewed,
\* whatever was resolved, reopened or generated in between.
NothingForgotten ==
    (covered = version /\ \A c \in DOMAIN queue : queue[c].status \notin OpenTask)
        => Scoped(version) \subseteq Reviewed

\* An interval stands, by its ordinals, for exactly the frames that its evidence names.
SpansExact ==
    \A g \in Requester : request[g].pc = "insert" =>
        \A c \in request[g].made : \A s \in c.span :
            c.of = {f \in DOMAIN Scans[request[g].v] :
                       /\ Scans[request[g].v][f].track = s.track
                       /\ s.from <= Scans[request[g].v][f].at
                       /\ Scans[request[g].v][f].at <= s.to}

\* Unless the answer says that it was cut short, or one evidence came twice, each detection of
\* a completed model of a finished run, in a file that can be used, has a task proposed for each reason it gives.
NothingSlips ==
    \A g \in Requester : request[g].pc = "insert" /\ ~request[g].truncated /\ ~request[g].twice =>
        \A n \in DOMAIN tree.files :
            LET file == tree.files[n]
                run  == tree.runs[file.run]
            IN (/\ run.status = "completed" /\ file.model \in DOMAIN run.models
                /\ run.models[file.model].status = "completed"
                /\ Readable(file) /\ ~file.damaged /\ file.frame \in Scoped(request[g].v)) =>
                    \A i \in DOMAIN file.found :
                        InClasses(file.found[i]) =>
                            \A r \in Reasons(file.found[i], request[g].st) :
                                [type |-> r, of |-> Artifact(<<n, i>>), frame |-> file.frame,
                                 span |-> {}] \in request[g].made

\* Gaps are reported against their like: never more than half of those on one line.
GapsAreRare ==
    \A g \in Requester : request[g].pc = "insert" =>
        \A line \in Lines(request[g].artifacts, request[g].v) :
            2 * Cardinality({c \in request[g].made :
                                c.type = "SPACING_ANOMALY" /\ c.of.left \in {Artifact(a) : a \in line}})
                <= Cardinality(GapsOf(line, request[g].v))

\* The pages show every task that was to be done all the time exactly once, and none twice.
PagesComplete ==
    pager.pc = "end" =>
        /\ \A i, j \in DOMAIN pager.got : pager.got[i] = pager.got[j] => i = j
        /\ \A c \in pager.steady : \E i \in DOMAIN pager.got : pager.got[i] = c

\* Generated tasks and their queue are sound.
SourcesSound == NothingForgotten /\ SpansExact /\ NothingSlips /\ GapsAreRare /\ PagesComplete
===============================================================================
