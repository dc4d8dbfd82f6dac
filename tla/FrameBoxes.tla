------------------------------ MODULE FrameBoxes ------------------------------
(* The detection boxes of a frame (detections.py) and those of an imported layer in the
   same frame (overlays.py).  A request looks through the completed runs of the dataset,
   newest first, for a result of the frame, within a budget of bytes; every model of
   the first run that has one is shown.  A layer shows the result of its own run. *)
EXTENDS Naturals, Sequences, FiniteSets

CONSTANTS
    Shelf,        \* completed runs that there may be, newest first
    ModelKey,     \* a model, by the place of its key in their order
    NoList,       \* no manifest of models
    NoResult, NoIndex, NoSpace,
    MaxCompletedRuns, MaxModels, MaxManifest, MaxResult, MaxRequest, MaxBoxes,
    MaxRaw, MaxRawBytes

VARIABLES
    runs,       \* the completed runs
    turn,       \* the run that is read next
    bytes,      \* of the budget
    unread,     \* models of the run before that, whose file is still to be read
    taken,      \* models of that run whose payload was found
    short,      \* payload_scan_truncated
    display     \* the answer

boxVars == <<runs, turn, bytes, unread, taken, short, display>>

\* The file of a frame by one model.  A detection says where its box is, 0 for a malformed
\* one, its space, whether it has the size of the panorama, its index and whether it is of
\* this image; for the first the payload has defaults, and a schema.
FoundBox  == [at : Nat, space : {NoSpace} \cup STRING, sized : BOOLEAN,
         index : {NoIndex} \cup Nat, mine : BOOLEAN]
ResultFile == [size : Nat, valid : BOOLEAN, here : BOOLEAN, schema : Nat,
         space : {NoSpace} \cup STRING, sized : BOOLEAN, forward : BOOLEAN, found : Seq(FoundBox)]

\* What the manifest of a run says of its models, its directories, and the files.
CompletedRun == [readable : BOOLEAN,
                 list : {NoList} \cup Seq([key : ModelKey, status : STRING]), listSize : Nat,
                 folders : SUBSET ModelKey, result : [ModelKey -> {NoResult} \cup ResultFile]]

ASSUME ShelfAssumption ==
    /\ ModelKey \subseteq Nat
    /\ Shelf \subseteq Seq(CompletedRun)
    /\ MaxCompletedRuns \in Nat /\ MaxRequest \in Nat

\* _bounded_regular_file_size
Bounded(size, limit) == size > 0 /\ size <= limit

\* Models that are completed by the manifest; without any, the directories there are,
\* in the order of their names.  The answer is [keys, used, cut].
ModelKeys(run, budget) ==
    LET listed == run.list # NoList /\ Bounded(run.listSize, MaxManifest)
        used == IF Bounded(run.listSize, MaxManifest) THEN run.listSize ELSE 0
        good == {n \in 1..Len(run.list) : run.list[n].status \in {"unsaid", "completed"}}
        named == IF listed THEN {run.list[n].key : n \in good} ELSE {}
        answer(keys, cut) == [keys |-> keys, used |-> used, cut |-> cut]
    IN IF used > budget THEN [keys |-> {}, used |-> 0, cut |-> TRUE]
       ELSE IF listed /\ Len(run.list) > MaxModels THEN answer({}, TRUE)
       ELSE IF named # {} THEN answer(named, FALSE)
       ELSE IF Cardinality(run.folders) > MaxModels THEN answer({}, TRUE)
       ELSE answer(run.folders, FALSE)

-------------------------------------------------------------------------------
\* _panorama_bbox: the space of the box, and by what it came to panorama pixels.
SpaceOf(d, payload) ==
    IF d.space # NoSpace THEN d.space
    ELSE IF payload.space # NoSpace THEN payload.space
    ELSE IF payload.schema >= 17 THEN "panorama" ELSE NoSpace

\* A box of the forward view comes back only with complete metadata of the view.
MapsBack(d, payload) == payload.forward /\ (d.sized \/ payload.sized)

Mapping(d, payload) ==
    CASE d.at = 0 -> "none"
      [] d.at # 0 /\ SpaceOf(d, payload) = "panorama" ->
            IF d.sized \/ payload.sized THEN "as it is" ELSE "none"
      [] d.at # 0 /\ SpaceOf(d, payload) = "forward" ->
            IF MapsBack(d, payload) THEN "inverse" ELSE "none"
      [] OTHER -> "none"

\* An index that is given counts, also the index 0; else the place in the file.
IndexOr(d, place) == IF d.index = NoIndex THEN place ELSE d.index

\* A detection, by its model and its place in the file, and the item it is shown as.
FileOf(key) == runs[turn - 1].result[key]
Sightings   == UNION {{key} \X DOMAIN FileOf(key).found : key \in taken}
Of(p)       == FileOf(p[1]).found[p[2]]
ItemAt(p)   == [model |-> p[1], index |-> IndexOr(Of(p), p[2]), at |-> Of(p).at,
                how |-> Mapping(Of(p), FileOf(p[1]))]

\* The same box of the same index counts once.
Admitted(p) == Of(p).mine /\ ItemAt(p).how # "none"
Earlier(p, q) == p[1] < q[1] \/ (p[1] = q[1] /\ p[2] < q[2])
Once(p) ==
    Admitted(p) /\ \A q \in Sightings : Admitted(q) /\ ItemAt(q) = ItemAt(p) => ~Earlier(q, p)

\* The items of all models together; none is looked at past the limit of a frame.
WithinLimit(p) == Cardinality({q \in Sightings : Once(q) /\ Earlier(q, p)}) < MaxBoxes
Assembled      == {ItemAt(p) : p \in {q \in Sightings : Once(q) /\ WithinLimit(q)}}
LeftOver       == \E p \in Sightings : ~WithinLimit(p)

\* _raw_detection_boxes_for_frame: the boxes of one model that an imported layer shows.
\* They are in panorama pixels whatever they say; without an index they count themselves.
RawPlaces(file) ==
    {n \in DOMAIN file.found :
        n <= MaxRaw /\ file.found[n].at # 0 /\ file.found[n].sized /\ file.found[n].mine}

RawBoxes(run, key) ==
    LET file  == run.result[key]
        place(n) == Cardinality({m \in RawPlaces(file) : m < n}) + 1
    IN IF ~run.readable \/ file = NoResult THEN {}
       ELSE IF file.size > MaxRawBytes \/ ~file.valid \/ ~file.here THEN {}
       ELSE {[index |-> IndexOr(file.found[n], place(n)), at |-> file.found[n].at] :
                n \in RawPlaces(file)}

-------------------------------------------------------------------------------
BoxInit ==
    /\ runs \in Shelf
    /\ turn = 1 /\ bytes = MaxRequest /\ unread = {} /\ taken = {} /\ short = FALSE
    /\ display = [done |-> FALSE, shown |-> {}, hidden |-> {}, truncated |-> FALSE]

\* list_completed_runs_for_dataset: the newest ones
CompletedRuns == {n \in DOMAIN runs : n <= MaxCompletedRuns}

Looking == unread = {} /\ taken = {} /\ ~short /\ turn \in CompletedRuns

\* The next run, for its models.
OpenRun ==
    /\ Looking
    /\ LET models == ModelKeys(runs[turn], bytes)
       IN IF runs[turn].readable
          THEN bytes' = bytes - models.used /\ unread' = models.keys /\ short' = models.cut
          ELSE UNCHANGED <<bytes, unread, short>>
    /\ turn' = turn + 1
    /\ UNCHANGED <<runs, taken, display>>

\* A model whose file may be read, and then used.
Affordable(file) == Bounded(file.size, MaxResult) /\ file.size <= bytes
Consumable(file) == Affordable(file) /\ file.valid /\ file.here

\* A model without a file is passed over.
PassOver(key) ==
    /\ FileOf(key) = NoResult
    /\ unread' = unread \ {key}
    /\ UNCHANGED <<bytes, taken, short>>

TakePayload(key) ==
    /\ FileOf(key) # NoResult /\ Consumable(FileOf(key))
    /\ unread' = unread \ {key} /\ taken' = taken \cup {key}
    /\ bytes' = bytes - FileOf(key).size
    /\ UNCHANGED short

\* Mutant: a result that cannot be used is passed over like one that is not there.
LookFurther(key) ==
    /\ FileOf(key) # NoResult /\ ~Consumable(FileOf(key))
    /\ unread' = unread \ {key}
    /\ UNCHANGED <<bytes, taken, short>>

\* A file that cannot be used ends the search, so that older results do not take its place.
GiveUp(key) ==
    /\ FileOf(key) # NoResult /\ ~Consumable(FileOf(key))
    /\ bytes' = IF Affordable(FileOf(key)) THEN bytes - FileOf(key).size ELSE bytes
    /\ unread' = {} /\ short' = TRUE
    /\ UNCHANGED taken

\* The models of a run in the order of their keys.
ReadModel ==
    /\ \E key \in unread :
        /\ \A other \in unread : key <= other
        /\ PassOver(key) \/ TakePayload(key) \/ GiveUp(key)
    /\ UNCHANGED <<runs, turn, display>>

\* Items of a detection that was deleted in a layer are left out; the resolver, which
\* ReferenceIndex models, is asked by model and index.
FrameDetections ==
    /\ unread = {} /\ ~Looking /\ ~display.done
    /\ \E deleted \in SUBSET {<<i.model, i.index>> : i \in Assembled} :
        LET gone == {i \in Assembled : <<i.model, i.index>> \in deleted}
        IN display' = [done |-> TRUE, shown |-> Assembled \ gone, hidden |-> gone,
                       truncated |-> short \/ LeftOver]
    /\ UNCHANGED <<runs, turn, bytes, unread, taken, short>>

BoxNext == OpenRun \/ ReadModel \/ FrameDetections

BoxSpec == BoxInit /\ [][BoxNext]_boxVars

-------------------------------------------------------------------------------
\* No model of the n-th run that counts has a file of the frame.
Resultless(n) ==
    runs[n].readable =>
        \A key \in ModelKeys(runs[n], MaxRequest).keys : runs[n].result[key] = NoResult

\* What is shown is of the newest run that has a result of the frame by a model that
\* counts; older ones never stand in for it.
NeverStale == display.shown # {} => \A n \in 1..(turn - 2) : Resultless(n)

Complete == display.done /\ ~display.truncated
AllItems == display.shown \cup display.hidden

\* An answer that is not called truncated has every box of every model of that run.
NothingMissing ==
    (Complete /\ taken # {}) =>
        \A key \in ModelKeys(runs[turn - 1], MaxRequest).keys :
            FileOf(key) # NoResult =>
                \A n \in DOMAIN FileOf(key).found :
                    LET d == FileOf(key).found[n]
                    IN (d.mine /\ Mapping(d, FileOf(key)) # "none") =>
                        \E i \in AllItems : i.model = key /\ i.at = d.at

\* An answer that is not truncated and empty means that no listed run has a usable result.
EmptyIsEmpty == (Complete /\ taken = {}) => \A n \in CompletedRuns : Resultless(n)

\* Where every detection has its index, a layer of the run calls its boxes what the frame
\* calls them.
SameNames ==
    Complete =>
        \A key \in taken :
            (\A n \in DOMAIN FileOf(key).found :
                LET d == FileOf(key).found[n]
                IN d.index # NoIndex /\ SpaceOf(d, FileOf(key)) = "panorama") =>
                 \A b \in RawBoxes(runs[turn - 1], key) : \E i \in AllItems :
                    i.model = key /\ i.index = b.index /\ i.at = b.at

\* The boxes of a frame are the current ones, all of them, under one name, within the budget.
FramesSound ==
    NeverStale /\ NothingMissing /\ EmptyIsEmpty /\ SameNames /\ bytes \in Nat
===============================================================================
