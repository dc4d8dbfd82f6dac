------------------------------- MODULE MCOutputs -------------------------------
(* Five models that share no state, checked in one run.  In each behaviour one of them
   moves: jobs share an output directory, a review session is checked, completed and
   exported, its tasks are made and listed, identifiers are resolved to features of the
   layers, or the boxes of a frame are collected from runs. *)
EXTENDS OutputRoot, MCReviewGate, TaskSources, ReferenceIndex, FrameBoxes

CONSTANTS p1, p2, p3, i1, w0, w1, w2, w3, w4, w5, g1, g2, o1, o2, o3, x1, x2, e1, k1,
    m1, m2

VARIABLE part

\* p1 and p2 are two starts of one job, p3 another job with another configuration.
JobIds == p1 :> "a" @@ p2 :> "a" @@ p3 :> "b"
Fingerprints == p1 :> "f" @@ p2 :> "f" @@ p3 :> "g"
OneImage == [p \in {p1, p2, p3} |-> {i1}]

View(rear, pole) ==
    [rear |-> rear, near |-> TRUE, far |-> TRUE, cluster |-> TRUE, dense |-> TRUE, pole |-> pole]
TwoScenes == {View(FALSE, "absent"), View(FALSE, "error")}

Standing(track, place) == [track |-> track, at |-> place]
TwoScans == <<w1 :> Standing("a", 0) @@ w2 :> Standing("a", 1) @@ w3 :> Standing("a", 2)
              @@ w4 :> Standing("a", 3) @@ w5 :> Standing("b", 4),
              w0 :> Standing("a", 0) @@ w1 :> Standing("a", 1) @@ w2 :> Standing("a", 2)
              @@ w3 :> Standing("a", 3) @@ w4 :> Standing("a", 4) @@ w5 :> Standing("b", 5)>>
WholeScope == [tracks |-> {}, range |-> {}]

\* A detection that is fine at a place, one that failed, one to look at, one of another class.
Hit(i, cls, confidence, accepted, place, unsure) ==
    [index |-> i, class |-> cls, confidence |-> confidence, accepted |-> accepted,
     place |-> place, review |-> unsure, pole |-> IF unsure THEN "review" ELSE "auto"]
Good(place) == Hit(1, "sign", 9, "yes", place, FALSE)
Failed == Hit(1, "sign", NoValue, "no", NoValue, FALSE)
Unsure == Hit(2, "sign", 2, "unsaid", 0, TRUE)
Ignored == Hit(3, "post", 2, "yes", 0, FALSE)
Result(model, record, on, size, broken, hits) ==
    [run |-> 1, model |-> model, record |-> record, from |-> 1, frame |-> on, size |-> size,
     damaged |-> broken, found |-> hits]
Model(status, there) == [status |-> status, there |-> there]
Completed(models) == [status |-> "completed", models |-> models]
Only(files) == [runs |-> <<Completed(<<Model("completed", TRUE)>>)>>, files |-> files]
Fine(frame, place) == Result(1, 1, frame, 1, FALSE, <<Good(place)>>)
InRun(n, file) == [file EXCEPT !.run = n, !.from = n]
FiveTrees ==
    {\* places 0, 3, 6, 16: one gap out of line
     Only(<<Fine(w1, 0), Fine(w2, 3), Fine(w3, 6), Fine(w4, 16)>>),
     \* three records in two models, of which one failed, and a run that failed
     [runs  |-> <<Completed(<<Model("completed", TRUE), Model("failed", TRUE)>>),
                  [status |-> "failed", models |-> <<>>]>>,
      files |-> <<Result(1, 1, w1, 1, FALSE, <<Failed, Unsure, Ignored>>),
                  Result(1, 1, w0, 1, FALSE, <<Failed>>),
                  Result(1, 2, w5, 1, TRUE, <<Failed>>), Result(1, 2, w5, 0, FALSE, <<>>),
                  Result(2, 1, w2, 1, FALSE, <<Good(0)>>),
                  InRun(2, Result(0, 1, w2, 1, FALSE, <<Good(0)>>))>>],
     \* more detections in a file than are read, and a file that is too large
     Only(<<Result(1, 1, w3, 4, FALSE, <<Failed>>),
            Result(1, 1, w1, 1, FALSE, <<Ignored, Failed, Ignored, Unsure>>)>>),
     \* more detections in all than are read
     Only(<<Result(1, 1, w1, 1, FALSE, <<Ignored, Ignored, Ignored>>),
            Result(1, 2, w2, 1, FALSE, <<Ignored, Failed>>)>>),
     \* a manifest without a completed model
     [runs  |-> <<Completed(<<Model("failed", TRUE)>>)>>,
      files |-> <<Result(0, 1, w3, 1, FALSE, <<Unsure>>), Result(1, 1, w2, 9, FALSE, <<Unsure>>)>>]}
Asked(sources, size) == [sources |-> sources, threshold |-> 5, size |-> size]
Detections == {"LOW_CONFIDENCE", "PROJECTION_FAILED", "GEOMETRY_REVIEW", "POLE_BASE_REVIEW"}
TwoSettings == {Asked({"UNREVIEWED_INTERVAL"}, 2),
                Asked(Detections \cup {"SPACING_ANOMALY", "UNREVIEWED_INTERVAL"}, 4)}
Weights == [LOW_CONFIDENCE |-> 20, PROJECTION_FAILED |-> 35, GEOMETRY_REVIEW |-> 30,
            POLE_BASE_REVIEW |-> 25, UNREVIEWED_INTERVAL |-> 10, SPACING_ANOMALY |-> 8]
Allow(r, m, p) == [requests |-> r, moves |-> m, pages |-> p]
NoTree == [runs |-> <<>>, files |-> <<>>]
SevenStarts == {[tree |-> t, spent |-> Allow(2, 0, 0)] : t \in FiveTrees}
             \cup {[tree |-> NoTree, spent |-> Allow(2, 3, 0)], [tree |-> NoTree, spent |-> Allow(2, 1, 1)]}

\* Signs, poles and, later, signs of another source; features carry e1 and k1 or the number 0.
ThreeSheets == <<o1, o2, o3>>
SheetSources == o1 :> m1 @@ o2 :> m1 @@ o3 :> m2
Carries(det, sup, pole, prov) ==
    [live |-> TRUE, det |-> det, sup |-> sup, pole |-> pole, prov |-> prov]
Sign == Carries({e1}, {k1}, FALSE, {})
Linked == Carries({}, {}, FALSE, {e1})
Support == Carries({e1}, {k1}, TRUE, {})
TwoContents == {[det |-> {e1}, sup |-> {k1}, pole |-> FALSE], [det |-> {}, sup |-> {Zero}, pole |-> FALSE]}
OneSource == {{}, {e1}}
Identifiers == {e1, k1, Zero}
Unindexed(first, second, dead) ==
    [rows |-> x1 :> first @@ x2 :> second, refs |-> {}, fields |-> {"det", "sup"},
     tombs |-> {<<d, x1>> : d \in dead}, buried |-> dead, revision |-> 1,
     indexed |-> FALSE, mark |-> 0]
Indexed(first, second, dead) == RebuildIndex(Unindexed(first, second, dead))
Buried == Indexed([Sign EXCEPT !.live = FALSE], NoRecord, {e1})
TwoSheets == o1 :> "here" @@ o2 :> "here" @@ o3 :> "absent"
AllSheets == [o \in {o1, o2, o3} |-> "here"]
Wish(kind, id, source) == [kind |-> kind, id |-> id, source |-> source]
ThreeWishes == {Wish("detection", e1, m1), Wish("support", k1, m1), Wish("boxes", e1, o1)}
Beginning(on1, on2, on3, dirs, wishes, n) ==
    [features |-> o1 :> on1 @@ o2 :> on2 @@ o3 :> on3, folder |-> dirs, writes |-> n,
     asks |-> wishes]
SixBeginnings ==
    LET lone == Unindexed(Sign, NoRecord, {})
        both == Indexed(Sign, NoRecord, {})
        pole == Indexed(Support, NoRecord, {})
    IN {Beginning(both, pole, lone, TwoSheets, ThreeWishes, 1),
        Beginning(both, pole, lone, TwoSheets, {Wish("boxes", e1, o1)}, 2),
        Beginning(Unindexed(Linked, NoRecord, {}), Unindexed(Support, Sign, {}), lone, TwoSheets,
                  ThreeWishes, 1),
        Beginning(Buried, pole, lone, TwoSheets, ThreeWishes, 1),
        Beginning(Buried, pole, lone, TwoSheets, {Wish("support", k1, m1)}, 2),
        Beginning(Buried, Unindexed(Support, NoRecord, {}), Unindexed(Linked, Sign, {}), AllSheets,
                  ThreeWishes, 1)}

\* Result files of a frame, and runs that have left them; a model is a number.
Box(where, space, sized, index, mine) ==
    [at |-> where, space |-> space, sized |-> sized, index |-> index, mine |-> mine]
File(size, valid, here, schema, boxes) ==
    [size |-> size, valid |-> valid, here |-> here, schema |-> schema, found |-> boxes,
     space |-> NoSpace, sized |-> FALSE, forward |-> FALSE]
Current(boxes) == File(1, TRUE, TRUE, 17, boxes)
Plain(where, index) == Box(where, NoSpace, TRUE, index, TRUE)
TwoPlain == Current(<<Plain(1, 0), Plain(2, 1)>>)
Forward == [Current(<<Box(1, "forward", FALSE, 1, TRUE), Box(2, "other", TRUE, 2, TRUE)>>)
               EXCEPT !.forward = TRUE, !.sized = TRUE]
Left(models, listed, folders, one, two) ==
    [readable |-> TRUE, list |-> models, listSize |-> listed, folders |-> folders,
     result |-> <<one, two>>]
Says(key, status) == [key |-> key, status |-> status]
First == <<Says(1, "completed")>>
Eleven ==
    {Left(<<Says(1, "completed"), Says(2, "unsaid")>>, 1, {}, TwoPlain, Forward),
     Left(First, 1, {1}, NoResult, TwoPlain),
     Left(First, 1, {1}, File(1, FALSE, TRUE, 17, <<>>), NoResult),
     Left(First, 1, {1}, File(3, TRUE, TRUE, 17, <<Plain(1, 0)>>), NoResult),
     Left(First, 1, {1}, File(1, TRUE, FALSE, 17, <<Plain(1, 0)>>), NoResult),
     Left(<<Says(1, "failed")>>, 1, {1}, TwoPlain, NoResult),
     [Left(First, 1, {1}, TwoPlain, NoResult) EXCEPT !.readable = FALSE],
     Left(NoList, 0, {1, 2}, File(2, TRUE, TRUE, 16, <<Plain(1, 0), Box(2, "panorama", TRUE, 1, TRUE)>>),
          Current(<<Plain(1, NoIndex), Plain(0, NoIndex), Plain(2, NoIndex), Plain(2, 3)>>)),
     Left(<<Says(1, "failed"), Says(2, "failed"), Says(1, "unsaid")>>, 1, {1}, TwoPlain, TwoPlain),
     Left(First, 3, {1, 2}, Current(<<Plain(1, 0), Box(3, NoSpace, TRUE, 5, FALSE), Plain(2, 1), Plain(3, 2)>>),
          TwoPlain),
     Left(First, 2, {}, File(2, TRUE, TRUE, 17, <<Plain(1, 0)>>), NoResult)}
Models == {1, 2}
Shelves == {<<>>} \cup {<<a, b>> : a \in Eleven, b \in Eleven} \cup {<<a, b, c>> : a \in Eleven, b \in Eleven, c \in Eleven}

\* The models that do not move keep one state.
MCInit ==
    /\ part \in {"root", "gate", "sources", "links", "boxes"}
    /\ IF part = "gate" THEN TRUE
       ELSE left = Budget(0, 4, 0, 0, 0) /\ review = [status |-> "active", scope |-> {},
                classes |-> {}, snapshot |-> NoSnapshot]
    /\ GateInit
    \* the budgets with the most steps begin with one layer in scope
    /\ left.checks > 0 /\ left.exports + left.moves > 1 => Cardinality(review.scope) = 1
    /\ IF part = "sources" THEN TRUE ELSE tree = NoTree /\ spent = Allow(2, 3, 0)
    /\ IF part = "links" THEN TRUE
       ELSE folder = AllSheets /\ asked = Coming(Wish("boxes", e1, o1))
    /\ IF part = "boxes" THEN TRUE ELSE runs = <<>>
    /\ Init /\ SourceInit /\ LinkInit /\ BoxInit

MCNext ==
    /\ part' = part
    /\ \/ part = "root" /\ Next /\ UNCHANGED <<gateVars, sourceVars, linkVars, boxVars>>
       \/ part = "gate" /\ GateNext /\ LowestChecker /\ UNCHANGED <<vars, sourceVars, linkVars, boxVars>>
       \/ part = "sources" /\ SourceNext /\ UNCHANGED <<vars, gateVars, linkVars, boxVars>>
       \/ part = "links" /\ LinkNext /\ UNCHANGED <<vars, gateVars, sourceVars, boxVars>>
       \/ part = "boxes" /\ BoxNext /\ UNCHANGED <<vars, gateVars, sourceVars, linkVars>>

MCSpec == MCInit /\ [][MCNext]_<<vars, gateVars, sourceVars, linkVars, boxVars, part>>
===============================================================================
