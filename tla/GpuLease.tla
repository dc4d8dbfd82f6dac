------------------------------- MODULE GpuLease ------------------------------
(* What the run queue promises, with no registry, worker or process in sight: *)
(* the GPU is leased to one run at a time, a run gets the lease at most once, *)
(* and the outcome of a run is decided once - success only by the lease       *)
(* holder, whose lease ends with that decision.                               *)
CONSTANT Run

VARIABLES lease, outcome

vars == <<lease, outcome>>

Lease == {"unused", "held", "over"}
Outcome == {"open", "succeeded", "failed", "cancelled"}

Init ==
    /\ lease = [r \in Run |-> "unused"]
    /\ outcome = [r \in Run |-> "open"]

Grant(r) ==
    /\ \A q \in Run : lease[q] # "held"
    /\ lease[r] = "unused"
    /\ lease' = [lease EXCEPT ![r] = "held"]
    /\ UNCHANGED outcome

Succeed(r) ==
    /\ lease[r] = "held" /\ outcome[r] = "open"
    /\ lease' = [lease EXCEPT ![r] = "over"]
    /\ outcome' = [outcome EXCEPT ![r] = "succeeded"]

\* A failure or a cancellation may be decided by anyone, at any time.
GiveUp(r) ==
    /\ outcome[r] = "open"
    /\ \E o \in {"failed", "cancelled"} : outcome' = [outcome EXCEPT ![r] = o]
    /\ UNCHANGED lease

Release(r) ==
    /\ lease[r] = "held"
    /\ lease' = [lease EXCEPT ![r] = "over"]
    /\ UNCHANGED outcome

Next == \E r \in Run : Grant(r) \/ Succeed(r) \/ GiveUp(r) \/ Release(r)

Spec == Init /\ [][Next]_vars
==============================================================================
