-------------------------------- MODULE MCReview -------------------------------
(* One task, one key, one feature from the source bundle. *)
EXTENDS Review

Budget(w, n, r, f) ==
    [writes |-> w, features |-> n, requests |-> r, faults |-> f]

Instances == {Budget(5,1,0,0), Budget(3,2,0,0), Budget(3,1,1,1), Budget(3,0,2,0),
              Budget(2,0,2,1), Budget(1,1,4,0), Budget(1,0,3,1)}
==============================================================================
