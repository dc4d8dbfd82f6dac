----------------------------- MODULE MCRunProgress -----------------------------
(* The liveness of RunLifecycle, for TLC.  A behaviour keeps one of two bounds: a single
   run with two restarts and two faults, or a queue of two runs with one restart. *)
EXTENDS RunLifecycle

VARIABLE bound  \* the runs it creates, and how many restarts and faults it has

\* Runs are interchangeable: this one is created first.
First == CHOOSE r \in Run : TRUE

Bounds ==
    {[runs |-> {First}, restarts |-> MaxRestarts, faults |-> MaxFaults],
     [runs |-> Run, restarts |-> 1, faults |-> 0]}

\* A step that stays within the bound; a stop that begins has a restart left for its end.
Within ==
    /\ \A r \in Run \ {First} : status'[r] # "none" => r \in bound.runs /\ status'[First] # "none"
    /\ restarts' <= bound.restarts /\ faults' <= bound.faults
    /\ spc' # "none" => restarts' < bound.restarts

\* Fairness is asked of the steps that the bound leaves.
BoundedSpec ==
    /\ Init /\ bound \in Bounds
    /\ [][Next /\ Within /\ UNCHANGED bound]_<<vars, bound>>
    /\ WF_vars(Worker /\ Within) /\ WF_vars(Recovery /\ Within) /\ WF_vars(CancelSync /\ Within)
    /\ WF_vars((StopActive \/ StopSync \/ StopWait \/ StopDone) /\ Within)
    /\ SF_vars(RefreshBlock("exited") /\ Within)
================================================================================
