------------------------------ MODULE MCMultiModel -----------------------------
(* Two models, two frames, queues of one job, a pole stage for one; two errors  *)
(* (an out-of-memory error and the failure of its retry are two) and a Ctrl-C.  *)
(* Beside it three models that share no state with it: publishers of one bundle   *)
(* directory, the sightings of a record that are merged, and the pole search of    *)
(* one detection.  In each behaviour one of the four moves.                          *)
EXTENDS MultiModel, BundlePublish, SupportMerge, PoleSearch, TLC

CONSTANTS p1, p3, d1, d2, d3, d4, a1, a2, a3

VARIABLE part

TwoSuffixes == <<"dbf", "shp">>
SignsAndPoles == p1 :> <<"sign", "pole">> @@ p3 :> <<"sign">>

\* Three images of one record; d2 and d3 are in the same one.
ThreeFrames == d1 :> 1 @@ d2 :> 2 @@ d3 :> 2 @@ d4 :> 3

Sight(x, pole, status, type, valid, hyp) ==
    [x |-> x, pole |-> pole, status |-> status, type |-> type, valid |-> valid, hyps |-> hyp]
Unseen == Sight(3, NoPole, "REVIEW", "SINGLE", TRUE, {})
SixLooks ==
    {Sight(0, 0, "AUTO", "SINGLE", TRUE, {}), Sight(1, 0, "AUTO", "ARM", FALSE, {}),
     Sight(4, 0, "AUTO", "SINGLE", TRUE, {}), Sight(4, 1, "REVIEW", "SINGLE", TRUE, {0}),
     Sight(1, NoPole, "AUTO", "SINGLE", TRUE, {0}), Unseen}

AllPolicies == [classified : BOOLEAN, requireGround : BOOLEAN, wider : BOOLEAN]

\* Direct axes first, which lack one thing each; then axes on either side of the sign.
At(far, seen, arm, noisy, shaft, ground) ==
    [far |-> far, seen |-> seen, arm |-> arm, noisy |-> noisy, shaft |-> shaft,
     ground |-> ground, long |-> far > 3, dense |-> far # 2,
     side |-> IF far = 2 THEN "left" ELSE "right"]
Post == At(0, {"narrow"}, "gap", FALSE, "full", "hidden")
Both == {"narrow", "expanded"}
Axes ==
    {Post,
     At(0, {"narrow"}, "gap", TRUE, "full", "clear"),
     At(0, {"narrow"}, "gap", FALSE, "part", "poor"),
     At(0, Both, "gap", FALSE, "full", "conflict"),
     At(2, {"expanded"}, "arm", FALSE, "full", "clear"),
     At(2, {"expanded"}, "arm", FALSE, "full", "none"),
     At(3, Both, "arm", FALSE, "full", "clear"),
     At(3, {"expanded"}, "weak", FALSE, "full", "clear"),
     At(4, {"expanded"}, "weak", FALSE, "full", "clear"),
     At(1, Both, "gap", FALSE, "full", "clear"),
     At(1, Both, "tilted", FALSE, "broken", "none")}

\* The models that do not move keep one state.
MCInit ==
    /\ part \in {"models", "bundles", "merge", "poles"}
    /\ IF part = "bundles" THEN TRUE ELSE target = NoFiles
    /\ IF part = "merge" THEN TRUE ELSE look = [d \in Sighting |-> Unseen]
    /\ IF part = "poles" THEN TRUE
       ELSE policy = [classified |-> TRUE, requireGround |-> TRUE, wider |-> TRUE]
            /\ shape = [a \in Axis |-> Post] /\ empty = {} /\ more = FALSE
    /\ PipelineInit /\ BundleInit /\ MergeInit /\ PoleInit

MCNext ==
    /\ part' = part
    /\ \/ part = "models" /\ Next /\ UNCHANGED <<bundleVars, mergeVars, poleVars>>
       \/ part = "bundles" /\ BundleNext /\ UNCHANGED <<vars, mergeVars, poleVars>>
       \/ part = "merge" /\ MergeNext /\ UNCHANGED <<vars, bundleVars, poleVars>>
       \/ part = "poles" /\ PoleNext /\ UNCHANGED <<vars, bundleVars, mergeVars>>

MCSpec == MCInit /\ [][MCNext]_<<vars, bundleVars, mergeVars, poleVars, part>>

\* Fairness is that of the threads, so the liveness property speaks of the behaviours in
\* which they are the ones that move.
MCFairSpec == MCSpec /\ WF_vars(Threads)
==============================================================================
