------------------------------- MODULE StageGates ------------------------------
(* The two limiters of MultiModelCoordinator (pipeline.py): the inference gate *)
(* _AdaptiveStageGate, whose capacity falls to one after a CUDA out-of-memory  *)
(* error, and the pole gate _QueuedStageGate, which admits in arrival order.   *)
(*                                                                             *)
(* Each is a monitor: a thread that may not pass sleeps on its condition until *)
(* the next notify_all, and then looks again.                                  *)
EXTENDS Naturals, Sequences

CONSTANTS
    InferenceWorkers,  \* multi_model_inference_workers
    PoleWorkers        \* multi_model_pole_workers

ASSUME GateAssumption ==
    InferenceWorkers \in Nat \ {0} /\ PoleWorkers \in Nat \ {0}

VARIABLES
    capacity, active, asleep,      \* inference gate, and who sleeps at it
    waiters, poleActive, poleAsleep  \* pole gate

inferenceGate == <<capacity, active, asleep>>
poleGate      == <<waiters, poleActive, poleAsleep>>

GatesInit ==
    /\ capacity = InferenceWorkers /\ active = 0 /\ asleep = {}
    /\ waiters = <<>> /\ poleActive = 0 /\ poleAsleep = {}

------------------------------------------------------------------------------
(* _AdaptiveStageGate *)

\* Thread t passes.
Enter(t) ==
    /\ t \notin asleep /\ active < capacity
    /\ active' = active + 1 /\ UNCHANGED <<capacity, asleep>>

\* Thread t finds the gate full.
Sleep(t) ==
    /\ t \notin asleep /\ active >= capacity
    /\ asleep' = asleep \cup {t} /\ UNCHANGED <<capacity, active>>

Leave == active' = active - 1 /\ asleep' = {} /\ UNCHANGED capacity

\* The threads that are inside stay there.
ReduceToOne == capacity' = 1 /\ asleep' = {} /\ UNCHANGED active

------------------------------------------------------------------------------
(* _QueuedStageGate *)

Arrive(t) == waiters' = Append(waiters, t) /\ UNCHANGED <<poleActive, poleAsleep>>

Turn(t) == Head(waiters) = t /\ poleActive < PoleWorkers

Pass(t) ==
    /\ t \notin poleAsleep /\ Turn(t)
    /\ waiters' = Tail(waiters) /\ poleActive' = poleActive + 1
    /\ poleAsleep' = {}

PoleSleep(t) ==
    /\ t \notin poleAsleep /\ ~Turn(t)
    /\ poleAsleep' = poleAsleep \cup {t} /\ UNCHANGED <<waiters, poleActive>>

\* Mutant of PoleLeave: nobody is notified.
PoleLeaveSilently == poleActive' = poleActive - 1 /\ UNCHANGED <<waiters, poleAsleep>>

PoleLeave == poleActive' = poleActive - 1 /\ poleAsleep' = {} /\ UNCHANGED waiters
==============================================================================
