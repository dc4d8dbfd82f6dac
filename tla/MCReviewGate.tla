------------------------------ MODULE MCReviewGate ------------------------------
(* A review session with two layers, for TLC; MCOutputs checks it beside other models. *)
EXTENDS ReviewGate, TLC

CONSTANTS l1, l2, f1, f2, t1, q1, q2

\* A row that passes, one that fails whatever the filter, one that the filter leaves out.
Placed(cls, filled, place, frame) ==
    [cls |-> cls, blank |-> ~filled, filled |-> filled, inDomain |-> TRUE, at |-> place,
     prov |-> NoProv, frame |-> frame, support |-> TRUE, flagged |-> FALSE]
ThreeRows == {Placed("sign", TRUE, <<1, 1>>, TRUE), Placed("none", TRUE, <<4, NoZ>>, FALSE),
              Placed("pole", FALSE, NoPoint, FALSE)}
AllOrSigns == {{}, {"sign"}}
Extents == TRUE :> [x |-> {0, 1, 2}, z |-> {0, 1}] @@ FALSE :> [x |-> 0..6, z |-> 0..6]
Budget(e, m, q, c, x) == [edits |-> e, moves |-> m, checks |-> q, closings |-> c, exports |-> x]
SixBudgets == {Budget(2, 0, 1, 1, 0), Budget(1, 0, 2, 1, 0), Budget(1, 2, 1, 1, 0),
               Budget(1, 1, 1, 0, 1), Budget(1, 1, 0, 1, 1), Budget(0, 4, 0, 0, 0)}
OneOfEach == {Budget(1, 1, 1, 1, 0)}

\* Layers and features are interchangeable.  So are the QA requests, which remember nothing
\* when they have ended: one that starts is q1 when q1 is free.
Alike == Permutations({l1, l2}) \cup Permutations({f1, f2})
LowestChecker == check[q1] = Idle /\ check[q2] = Idle => check'[q2] = Idle
=================================================================================
