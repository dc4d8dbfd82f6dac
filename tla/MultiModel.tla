------------------------------- MODULE MultiModel ------------------------------
(* run_parallel_multi_model_pipeline (pipeline.py): the main thread prepares   *)
(* and loads the models, renders each frame once, lets every model predict it  *)
(* in a pool thread, and puts the candidates into a bounded queue per model;   *)
(* a consumer thread per model post-processes them.  Errors and interrupts     *)
(* cancel the run; in the end the models publish or fail.                      *)
(*                                                                             *)
(* A model's entry is its status in models_manifest.json.  The polling of      *)
(* queues and threads (timeouts of 0.2 s) is a step that waits for its guard.  *)
EXTENDS StageGates, FiniteSets

CONSTANTS
    Model,       \* models of the run
    Frames,      \* number of frames
    QueueDepth,  \* multi_model_queue_depth
    Main,        \* the main thread, as a thread of the inference gate
    MaxFaults,   \* bound on errors
    MaxInterrupts  \* bound on KeyboardInterrupts

ASSUME PipelineAssumption ==
    /\ IsFiniteSet(Model) /\ Model # {} /\ Main \notin Model
    /\ Frames \in Nat /\ QueueDepth \in Nat \ {0}
    /\ MaxFaults \in Nat /\ MaxInterrupts \in Nat

Frame == 1 .. Frames
Stop  == 0        \* the stop token

VARIABLES
    entry,          \* status of each model in the manifest
    main, frame,    \* main thread: where it is, and the frame it is at
    loaded,         \* active_states
    needed, jobs,   \* models that predict the frame; those whose job is ready
    future,         \* prediction of each model, in its pool thread
    terminal,       \* terminal_model_errors
    work,           \* queue of each model
    consumer, job,  \* consumer thread of each model, and its frame
    consumerErrors, \* models whose consumer died
    cancel,         \* cancel_event
    error,          \* producer_error, or the exception on its way to it
    recorded, failures,  \* results per model and frame; models with a failure
    faults, interrupts

manifestVars == <<entry, terminal>>
producerVars == <<main, frame, loaded, needed, jobs, error>>
consumerVars == <<consumer, job, consumerErrors>>
summaryVars  == <<recorded, failures>>
bounds       == <<faults, interrupts>>
vars == <<capacity, active, asleep, waiters, poleActive, poleAsleep,
          entry, main, frame, loaded, needed, jobs, future, terminal, work,
          consumer, job, consumerErrors, cancel, error, recorded, failures,
          faults, interrupts>>

------------------------------------------------------------------------------

Fault == faults < MaxFaults /\ faults' = faults + 1 /\ UNCHANGED interrupts
Interrupt == interrupts < MaxInterrupts /\ interrupts' = interrupts + 1
             /\ UNCHANGED faults

Unfinished == {"pending", "preparing", "running"}
Running    == {m \in Model : entry[m] = "running"}

\* Entries with a status in `from` get the status `to`.
Mark(from, to) ==
    entry' = [m \in Model |-> IF entry[m] \in from THEN to ELSE entry[m]]

\* record_result, for frame n of these models
Record(models, n) ==
    recorded' = [m \in Model |-> [f \in Frame |->
                    IF f = n /\ m \in models THEN recorded[m][f] + 1
                                             ELSE recorded[m][f]]]

\* A prediction that uses the pool thread.
Predicting(m) == future[m] \in {"wait", "predict", "oom", "rewait", "repredict"}
Settled == {"candidates", "failure", "memory", "dead"}

------------------------------------------------------------------------------
(* Preparation and model loading, one model after the other *)

\* _run_single_model_pipeline with _parallel_prepare
Prepared(m) ==
    /\ main = "prepare" /\ entry[m] = "preparing"
    /\ entry' = [entry EXCEPT ![m] = "running"]
    /\ UNCHANGED <<inferenceGate, poleGate, producerVars, future, terminal, work,
                   consumerVars, cancel, summaryVars, bounds>>

PrepareFails(m) ==
    /\ main = "prepare" /\ entry[m] = "preparing" /\ Fault
    /\ entry' = [entry EXCEPT ![m] = "failed"]
    /\ UNCHANGED <<inferenceGate, poleGate, producerVars, future, terminal, work,
                   consumerVars, cancel, summaryVars>>

\* The models disagree on the view or on the frames: the run raises.
Disagree ==
    /\ main = "prepare" /\ \A m \in Model : entry[m] # "preparing"
    /\ Running # {} /\ Fault
    /\ Mark({"running"}, "failed") /\ main' = "failed"
    /\ UNCHANGED <<inferenceGate, poleGate, frame, loaded, needed, jobs, error,
                   future, terminal, work, consumerVars, cancel, summaryVars>>

\* Without a model, the run raises.
PrepareDone ==
    /\ main = "prepare" /\ \A m \in Model : entry[m] # "preparing"
    /\ main' = IF Running = {} THEN "failed" ELSE "load"
    /\ UNCHANGED <<inferenceGate, poleGate, frame, loaded, needed, jobs, error,
                   manifestVars, future, work, consumerVars, cancel, summaryVars,
                   bounds>>

Load(m) ==
    /\ main = "load" /\ m \in Running \ loaded
    /\ loaded' = loaded \cup {m}
    /\ UNCHANGED <<inferenceGate, poleGate, main, frame, needed, jobs, error,
                   manifestVars, future, work, consumerVars, cancel, summaryVars,
                   bounds>>

LoadFails(m) ==
    /\ main = "load" /\ m \in Running \ loaded /\ Fault
    /\ entry' = [entry EXCEPT ![m] = "failed"]
    /\ UNCHANGED <<inferenceGate, poleGate, producerVars, future, terminal, work,
                   consumerVars, cancel, summaryVars>>

\* The consumers are started; without a model the run raises.
LoadDone ==
    /\ main = "load" /\ loaded = Running
    /\ main' = IF loaded = {} THEN "failed" ELSE "frame"
    /\ consumer' = [m \in Model |-> IF m \in loaded THEN "idle" ELSE "ended"]
    /\ UNCHANGED <<inferenceGate, poleGate, frame, loaded, needed, jobs, error,
                   manifestVars, future, work, job, consumerErrors, cancel,
                   summaryVars, bounds>>

\* Ctrl-C, before the consumers exist.
InterruptEarly ==
    /\ main \in {"prepare", "load"} /\ Interrupt
    /\ Mark(Unfinished, "interrupted") /\ main' = "interrupted"
    /\ UNCHANGED <<inferenceGate, poleGate, frame, loaded, needed, jobs, error,
                   future, terminal, work, consumerVars, cancel, summaryVars>>

------------------------------------------------------------------------------
(* The frame producer *)

\* The main thread raises exc: the pool is awaited before the handler runs.
Raise(exc) == main' = "drain" /\ error' = exc

\* raise_pending_consumer_error
PendingError ==
    \E m \in consumerErrors : consumerErrors' = consumerErrors \ {m}

\* A frame: models with a compatible result on disk record it, models that ran
\* out of memory for good skip it, the others predict the shared view.
BeginFrame ==
    /\ main = "frame" /\ consumerErrors = {} /\ frame <= Frames
    /\ \E existing \in SUBSET (loaded \ terminal) :
          LET todo == (loaded \ terminal) \ existing
          IN  /\ Record(existing, frame)
              /\ needed' = todo
              /\ main' = IF todo = {} THEN "frame" ELSE "collect"
              /\ frame' = IF todo = {} THEN frame + 1 ELSE frame
              /\ future' = [m \in Model |-> IF m \in todo THEN "wait" ELSE future[m]]
    /\ UNCHANGED <<inferenceGate, poleGate, loaded, jobs, error, manifestVars, work,
                   consumerVars, cancel, failures, bounds>>

\* The panorama cannot be read or rendered: one failure per model.
DecodeFails ==
    /\ main = "frame" /\ consumerErrors = {} /\ frame <= Frames /\ Fault
    /\ Record(loaded \ terminal, frame) /\ failures' = failures \cup (loaded \ terminal)
    /\ frame' = frame + 1
    /\ UNCHANGED <<inferenceGate, poleGate, main, loaded, needed, jobs, error,
                   manifestVars, future, work, consumerVars, cancel>>

\* MemoryError
DecodeRaises ==
    /\ main = "frame" /\ consumerErrors = {} /\ frame <= Frames /\ Fault
    /\ Raise("failed")
    /\ UNCHANGED <<inferenceGate, poleGate, frame, loaded, needed, jobs, manifestVars,
                   future, work, consumerVars, cancel, summaryVars>>

\* A consumer has died: its error is pending, or cancel_event was seen first.
ProducerRaises ==
    /\ \/ main = "frame" /\ frame <= Frames
       \/ main = "deliver" /\ jobs # {}
    /\ \/ PendingError
       \/ main = "deliver" /\ cancel /\ UNCHANGED consumerErrors
    /\ Raise("failed")
    /\ UNCHANGED <<inferenceGate, poleGate, frame, loaded, needed, jobs, manifestVars,
                   future, work, consumer, job, cancel, summaryVars, bounds>>

\* as_completed: the candidates of a model
Collect(m) ==
    /\ main = "collect" /\ m \in needed /\ future[m] = "candidates"
    /\ needed' = needed \ {m} /\ jobs' = jobs \cup {m}
    /\ future' = [future EXCEPT ![m] = "none"]
    /\ UNCHANGED <<inferenceGate, poleGate, main, frame, loaded, error, manifestVars,
                   work, consumerVars, cancel, summaryVars, bounds>>

CollectFailure(m) ==
    /\ main = "collect" /\ m \in needed /\ future[m] = "failure"
    /\ needed' = needed \ {m} /\ future' = [future EXCEPT ![m] = "none"]
    /\ Record({m}, frame) /\ failures' = failures \cup {m}
    /\ UNCHANGED <<inferenceGate, poleGate, main, frame, loaded, jobs, error,
                   manifestVars, work, consumerVars, cancel, bounds>>

CollectMemoryError(m) ==
    /\ main = "collect" /\ m \in needed /\ future[m] = "memory"
    /\ future' = [future EXCEPT ![m] = "none"] /\ Raise("failed")
    /\ UNCHANGED <<inferenceGate, poleGate, frame, loaded, needed, jobs, manifestVars,
                   work, consumerVars, cancel, summaryVars, bounds>>

\* The serialized retry ran out of memory, too: the model is out of the run.
CircuitBreak(m) ==
    /\ main = "collect" /\ m \in needed /\ future[m] = "dead"
    /\ terminal' = terminal \cup {m} /\ entry' = [entry EXCEPT ![m] = "failed"]
    /\ main' = "offload"
    /\ UNCHANGED <<inferenceGate, poleGate, frame, loaded, needed, jobs, error, future,
                   work, consumerVars, cancel, summaryVars, bounds>>

\* Its weights leave the GPU in a slot of the gate.
Offload ==
    /\ main = "offload"
    /\ \/ Enter(Main) /\ main' = "offloading"
       \/ Sleep(Main) /\ UNCHANGED main
    /\ UNCHANGED <<poleGate, frame, loaded, needed, jobs, error, manifestVars, future,
                   work, consumerVars, cancel, summaryVars, bounds>>

Offloaded ==
    /\ main = "offloading" /\ Leave
    /\ \E m \in needed :
          /\ m \in terminal /\ future' = [future EXCEPT ![m] = "none"]
          /\ needed' = needed \ {m}
          /\ Record({m}, frame) /\ failures' = failures \cup {m}
    /\ main' = "collect"
    /\ UNCHANGED <<poleGate, frame, loaded, jobs, error, manifestVars, work,
                   consumerVars, cancel, bounds>>

Collected ==
    /\ main = "collect" /\ needed = {}
    /\ main' = "deliver"
    /\ UNCHANGED <<inferenceGate, poleGate, frame, loaded, needed, jobs, error,
                   manifestVars, future, work, consumerVars, cancel, summaryVars,
                   bounds>>

\* Mutant of Deliver: a full queue takes one more.
DeliverBeyond(m) ==
    /\ main = "deliver" /\ m \in jobs /\ Len(work[m]) <= QueueDepth
    /\ work' = [work EXCEPT ![m] = Append(@, frame)]
    /\ jobs' = jobs \ {m}
    /\ UNCHANGED <<inferenceGate, poleGate, main, frame, loaded, needed, error,
                   manifestVars, future, consumerVars, cancel, summaryVars, bounds>>

\* enqueue_frame_jobs_round_robin: a full queue does not hold up the others.
Deliver(m) ==
    /\ main = "deliver" /\ m \in jobs /\ Len(work[m]) < QueueDepth
    /\ work' = [work EXCEPT ![m] = Append(@, frame)]
    /\ jobs' = jobs \ {m}
    /\ UNCHANGED <<inferenceGate, poleGate, main, frame, loaded, needed, error,
                   manifestVars, future, consumerVars, cancel, summaryVars, bounds>>

NextFrame ==
    /\ main = "deliver" /\ jobs = {}
    /\ main' = "frame" /\ frame' = frame + 1
    /\ UNCHANGED <<inferenceGate, poleGate, loaded, needed, jobs, error, manifestVars,
                   future, work, consumerVars, cancel, summaryVars, bounds>>

InterruptProducer ==
    /\ main \in {"frame", "collect", "offload", "offloading", "deliver"}
    /\ Interrupt /\ Raise("interrupted")
    /\ IF main = "offloading" THEN Leave
       ELSE asleep' = asleep \ {Main} /\ UNCHANGED <<capacity, active>>
    /\ UNCHANGED <<poleGate, frame, loaded, needed, jobs, manifestVars, future, work,
                   consumerVars, cancel, summaryVars>>

\* The pool has no prediction left: the handler keeps the exception and cancels.
Drained ==
    /\ main = "drain" /\ \A m \in Model : ~Predicting(m)
    /\ cancel' = TRUE /\ main' = "join"
    /\ UNCHANGED <<inferenceGate, poleGate, frame, loaded, needed, jobs, error,
                   manifestVars, future, work, consumerVars, summaryVars, bounds>>

\* The wait for the pool, or for space for a stop token, is interrupted.
WaitInterrupted ==
    /\ main \in {"drain", "stop"} /\ Interrupt /\ error' = "interrupted"
    /\ cancel' = TRUE /\ main' = "join"
    /\ UNCHANGED <<inferenceGate, poleGate, frame, loaded, needed, jobs, manifestVars,
                   future, work, consumerVars, summaryVars>>

------------------------------------------------------------------------------
(* run_yolo_prediction, in the pool thread of a model *)

Goto(m, where) == future' = [future EXCEPT ![m] = where]

\* The gate, for the first prediction and for the serialized one.
WaitForGate(m) ==
    /\ future[m] \in {"wait", "rewait"}
    /\ \/ Enter(m) /\ Goto(m, IF future[m] = "wait" THEN "predict" ELSE "repredict")
       \/ Sleep(m) /\ UNCHANGED future
    /\ UNCHANGED <<poleGate, producerVars, manifestVars, work, consumerVars, cancel,
                   summaryVars, bounds>>

Predict(m) ==
    /\ future[m] \in {"predict", "repredict"} /\ Leave /\ Goto(m, "candidates")
    /\ UNCHANGED <<poleGate, producerVars, manifestVars, work, consumerVars, cancel,
                   summaryVars, bounds>>

\* model.predict raises: CUDA out of memory (retried once), MemoryError or other.
PredictFails(m) ==
    /\ future[m] \in {"predict", "repredict"} /\ Leave /\ Fault
    /\ \/ Goto(m, IF future[m] = "predict" THEN "oom" ELSE "dead")
       \/ Goto(m, "memory")
       \/ Goto(m, "failure")
    /\ UNCHANGED <<poleGate, producerVars, manifestVars, work, consumerVars, cancel,
                   summaryVars>>

\* Mutant of Downgrade: the gate keeps its capacity.
RetryAtOnce(m) ==
    /\ future[m] = "oom" /\ Goto(m, "rewait")
    /\ UNCHANGED <<inferenceGate, poleGate, producerVars, manifestVars, work,
                   consumerVars, cancel, summaryVars, bounds>>

\* downgrade_inference_after_oom
Downgrade(m) ==
    /\ future[m] = "oom" /\ ReduceToOne /\ Goto(m, "rewait")
    /\ UNCHANGED <<poleGate, producerVars, manifestVars, work, consumerVars, cancel,
                   summaryVars, bounds>>

------------------------------------------------------------------------------
(* consume_model_frames, in the consumer thread of a model *)

Consumer(m, where) == consumer' = [consumer EXCEPT ![m] = where]

\* The loop looks at cancel_event, and then waits for a job.
ConsumerWaits(m) ==
    /\ consumer[m] = "idle" /\ ~cancel /\ Consumer(m, "get")
    /\ UNCHANGED <<inferenceGate, poleGate, producerVars, manifestVars, future, work,
                   job, consumerErrors, cancel, summaryVars, bounds>>

ConsumerCancelled(m) ==
    /\ cancel
    /\ \/ consumer[m] = "idle"
       \/ consumer[m] = "get" /\ work[m] = <<>>
    /\ Consumer(m, "ended")
    /\ UNCHANGED <<inferenceGate, poleGate, producerVars, manifestVars, future, work,
                   job, consumerErrors, cancel, summaryVars, bounds>>

Take(m) ==
    /\ consumer[m] = "get" /\ work[m] # <<>>
    /\ work' = [work EXCEPT ![m] = Tail(@)]
    /\ job' = [job EXCEPT ![m] = Head(work[m])]
    /\ Consumer(m, IF Head(work[m]) = Stop THEN "ended" ELSE "work")
    /\ UNCHANGED <<inferenceGate, poleGate, producerVars, manifestVars, future,
                   consumerErrors, cancel, summaryVars, bounds>>

\* An accepted detection needs the pole stage (process_detection).
PoleArrive(m) ==
    /\ consumer[m] = "work" /\ Arrive(m) /\ Consumer(m, "queue")
    /\ UNCHANGED <<inferenceGate, producerVars, manifestVars, future, work, job,
                   consumerErrors, cancel, summaryVars, bounds>>

PoleWait(m) ==
    /\ consumer[m] = "queue"
    /\ \/ Pass(m) /\ Consumer(m, "pole")
       \/ PoleSleep(m) /\ UNCHANGED consumer
    /\ UNCHANGED <<inferenceGate, producerVars, manifestVars, future, work, job,
                   consumerErrors, cancel, summaryVars, bounds>>

PoleDone(m) ==
    /\ consumer[m] = "pole" /\ PoleLeave /\ Consumer(m, "after")
    /\ UNCHANGED <<inferenceGate, producerVars, manifestVars, future, work, job,
                   consumerErrors, cancel, summaryVars, bounds>>

Processed(m) ==
    /\ consumer[m] \in {"work", "after"} /\ Consumer(m, "idle")
    /\ Record({m}, job[m])
    /\ UNCHANGED <<inferenceGate, poleGate, producerVars, manifestVars, future, work,
                   job, consumerErrors, cancel, failures, bounds>>

ProcessFails(m) ==
    /\ consumer[m] \in {"work", "after"} /\ Fault /\ Consumer(m, "idle")
    /\ Record({m}, job[m]) /\ failures' = failures \cup {m}
    /\ UNCHANGED <<inferenceGate, poleGate, producerVars, manifestVars, future, work,
                   job, consumerErrors, cancel>>

\* Mutant of ConsumerDies: the thread ends without a trace.
ConsumerVanishes(m) ==
    /\ consumer[m] \in {"work", "after"} /\ Fault /\ Consumer(m, "ended")
    /\ UNCHANGED <<inferenceGate, poleGate, producerVars, manifestVars, future, work,
                   job, consumerErrors, cancel, summaryVars>>

\* MemoryError: the consumer leaves its error for the main thread, and cancels.
ConsumerDies(m) ==
    /\ consumer[m] \in {"work", "after"} /\ Fault /\ Consumer(m, "dying")
    /\ consumerErrors' = consumerErrors \cup {m}
    /\ UNCHANGED <<inferenceGate, poleGate, producerVars, manifestVars, future, work,
                   job, cancel, summaryVars>>

ConsumerCancels(m) ==
    /\ consumer[m] = "dying" /\ cancel' = TRUE /\ Consumer(m, "ended")
    /\ UNCHANGED <<inferenceGate, poleGate, producerVars, manifestVars, future, work,
                   job, consumerErrors, summaryVars, bounds>>

------------------------------------------------------------------------------
(* The end of the run *)

\* The frames are done and the pool is closed.
FramesDone ==
    /\ main = "frame" /\ frame > Frames
    /\ main' = (IF cancel THEN "join" ELSE "stop") /\ needed' = loaded
    /\ UNCHANGED <<inferenceGate, poleGate, frame, loaded, jobs, error, manifestVars,
                   future, work, consumerVars, cancel, summaryVars, bounds>>

\* enqueue_consumer_job: cancel_event may be set between its check and the put.
StopConsumer(m) ==
    /\ main = "stop" /\ m \in needed /\ Len(work[m]) < QueueDepth
    /\ work' = [work EXCEPT ![m] = Append(@, Stop)]
    /\ needed' = needed \ {m}
    /\ UNCHANGED <<inferenceGate, poleGate, main, frame, loaded, jobs, error,
                   manifestVars, future, consumerVars, cancel, summaryVars, bounds>>

StopFails ==
    /\ main = "stop" /\ needed # {}
    /\ \/ PendingError
       \/ cancel /\ UNCHANGED consumerErrors
    /\ error' = "failed" /\ cancel' = TRUE /\ main' = "join"
    /\ UNCHANGED <<inferenceGate, poleGate, frame, loaded, needed, jobs, manifestVars,
                   future, work, consumer, job, summaryVars, bounds>>

StopDone ==
    /\ main = "stop" /\ needed = {} /\ main' = "join"
    /\ UNCHANGED <<inferenceGate, poleGate, frame, loaded, needed, jobs, error,
                   manifestVars, future, work, consumerVars, cancel, summaryVars, bounds>>

\* While it joins the consumers and once after, the main thread looks for errors.
JoinNotices ==
    /\ main = "join" /\ error = "none" /\ PendingError
    /\ error' = "failed" /\ cancel' = TRUE
    /\ UNCHANGED <<inferenceGate, poleGate, main, frame, loaded, needed, jobs,
                   manifestVars, future, work, consumer, job, summaryVars, bounds>>

\* A KeyboardInterrupt leaves the join; _run_pipeline_impl marks the entries.
JoinInterrupted ==
    /\ main = "join" /\ Interrupt
    /\ Mark(Unfinished, "interrupted") /\ main' = "interrupted"
    /\ UNCHANGED <<inferenceGate, poleGate, frame, loaded, needed, jobs, error,
                   terminal, future, work, consumerVars, cancel, summaryVars>>

Joined == main = "join" /\ \A m \in loaded : consumer[m] = "ended"

\* Mutant of Abort: it writes the entry of every loaded model.
AbortAll ==
    /\ Joined /\ error # "none"
    /\ entry' = [m \in Model |-> IF m \in loaded THEN error ELSE entry[m]]
    /\ main' = error
    /\ UNCHANGED <<inferenceGate, poleGate, frame, loaded, needed, jobs, error,
                   terminal, future, work, consumerVars, cancel, summaryVars, bounds>>

Abort ==
    /\ Joined /\ error # "none"
    /\ Mark({"running"}, error) /\ main' = error
    /\ UNCHANGED <<inferenceGate, poleGate, frame, loaded, needed, jobs, error,
                   terminal, future, work, consumerVars, cancel, summaryVars, bounds>>

Finalize ==
    /\ Joined /\ error = "none" /\ consumerErrors = {}
    /\ main' = "finalize" /\ needed' = loaded \ terminal
    /\ UNCHANGED <<inferenceGate, poleGate, frame, loaded, jobs, error, manifestVars,
                   future, work, consumerVars, cancel, summaryVars, bounds>>

\* finalize_prepared_model_run: a model with a failure is not published.
Publish(m) ==
    /\ main = "finalize" /\ m \in needed
    /\ entry' = [entry EXCEPT ![m] = IF m \in failures THEN "failed" ELSE "completed"]
    /\ needed' = needed \ {m}
    /\ UNCHANGED <<inferenceGate, poleGate, main, frame, loaded, jobs, error, terminal,
                   future, work, consumerVars, cancel, summaryVars, bounds>>

PublishRaises(m) ==
    /\ main = "finalize" /\ m \in needed /\ Fault
    /\ entry' = [entry EXCEPT ![m] = "failed"] /\ needed' = needed \ {m}
    /\ UNCHANGED <<inferenceGate, poleGate, main, frame, loaded, jobs, error, terminal,
                   future, work, consumerVars, cancel, summaryVars>>

FinalizeInterrupted ==
    /\ main = "finalize" /\ Interrupt
    /\ Mark({"running"}, "interrupted") /\ main' = "interrupted"
    /\ UNCHANGED <<inferenceGate, poleGate, frame, loaded, needed, jobs, error,
                   terminal, future, work, consumerVars, cancel, summaryVars>>

\* The run raises if any model failed.
End ==
    /\ main = "finalize" /\ needed = {}
    /\ main' = IF \E m \in Model : entry[m] = "failed" THEN "failed" ELSE "ok"
    /\ UNCHANGED <<inferenceGate, poleGate, frame, loaded, needed, jobs, error,
                   manifestVars, future, work, consumerVars, cancel, summaryVars, bounds>>

------------------------------------------------------------------------------

PipelineInit ==
    /\ GatesInit
    /\ entry = [m \in Model |-> "preparing"] /\ main = "prepare" /\ frame = 1
    /\ loaded = {} /\ needed = {} /\ jobs = {} /\ error = "none"
    /\ future = [m \in Model |-> "none"] /\ terminal = {}
    /\ work = [m \in Model |-> <<>>]
    /\ consumer = [m \in Model |-> "none"] /\ job = [m \in Model |-> Stop]
    /\ consumerErrors = {} /\ cancel = FALSE
    /\ recorded = [m \in Model |-> [f \in Frame |-> 0]] /\ failures = {}
    /\ faults = 0 /\ interrupts = 0

\* What the threads do by themselves, in the phases of the main thread ...
Preparing == PrepareDone \/ LoadDone \/ \E m \in Model : Prepared(m) \/ Load(m)

Producing ==
    \/ BeginFrame \/ ProducerRaises \/ Offload \/ Offloaded \/ Collected
    \/ NextFrame \/ Drained \/ FramesDone
    \/ \E m \in Model : Collect(m) \/ CollectFailure(m) \/ CollectMemoryError(m)
                        \/ CircuitBreak(m) \/ Deliver(m)

Ending ==
    \/ StopFails \/ StopDone \/ JoinNotices \/ Abort \/ Finalize \/ End
    \/ \E m \in Model : StopConsumer(m) \/ Publish(m)

\* ... and in the pool and consumer threads.
Pooling == \E m \in Model : WaitForGate(m) \/ Predict(m) \/ Downgrade(m)

Consuming ==
    \E m \in Model : \/ ConsumerWaits(m) \/ ConsumerCancelled(m) \/ Take(m)
                     \/ PoleArrive(m) \/ PoleWait(m) \/ PoleDone(m)
                     \/ Processed(m) \/ ConsumerCancels(m)

Errors ==
    \/ Disagree \/ DecodeFails \/ DecodeRaises
    \/ \E m \in Model : \/ PrepareFails(m) \/ LoadFails(m) \/ PredictFails(m)
                        \/ ProcessFails(m) \/ ConsumerDies(m) \/ PublishRaises(m)

Interrupts ==
    \/ InterruptEarly \/ InterruptProducer \/ WaitInterrupted \/ JoinInterrupted
    \/ FinalizeInterrupted

Threads == Preparing \/ Producing \/ Ending \/ Pooling \/ Consuming

Next == Threads \/ Errors \/ Interrupts

Spec == PipelineInit /\ [][Next]_vars

\* The interpreter runs some thread that can run.
FairSpec == Spec /\ WF_vars(Threads)

------------------------------------------------------------------------------

EntryStatus == Unfinished \cup {"completed", "failed", "interrupted"}
MainPlace == {"prepare", "load", "frame", "collect", "offload", "offloading",
              "deliver", "drain", "stop", "join", "finalize",
              "ok", "failed", "interrupted"}
FuturePlace == {"none", "wait", "predict", "oom", "rewait", "repredict"} \cup Settled
ConsumerPlace == {"none", "idle", "get", "work", "queue", "pole", "after", "dying",
                  "ended"}

\* Type invariant; no queue holds more than multi_model_queue_depth jobs.
TypeOK ==
    /\ capacity \in 1 .. InferenceWorkers /\ active \in 0 .. InferenceWorkers
    /\ asleep \in SUBSET (Model \cup {Main})
    /\ waiters \in Seq(Model) /\ poleActive \in 0 .. PoleWorkers
    /\ poleAsleep \in SUBSET Model
    /\ entry \in [Model -> EntryStatus] /\ main \in MainPlace
    /\ frame \in 1 .. Frames + 1 /\ loaded \in SUBSET Model
    /\ needed \in SUBSET Model /\ jobs \in SUBSET Model
    /\ future \in [Model -> FuturePlace] /\ terminal \in SUBSET Model
    /\ work \in [Model -> Seq(Frame \cup {Stop})]
    /\ \A m \in Model : Len(work[m]) <= QueueDepth
    /\ consumer \in [Model -> ConsumerPlace] /\ job \in [Model -> Frame \cup {Stop}]
    /\ consumerErrors \in SUBSET Model /\ cancel \in BOOLEAN
    /\ error \in {"none", "failed", "interrupted"}
    /\ recorded \in [Model -> [Frame -> Nat]] /\ failures \in SUBSET Model
    /\ faults \in 0 .. MaxFaults /\ interrupts \in 0 .. MaxInterrupts

\* The threads in a slot of the inference gate; the consumers in the pole stage.
InSlot == {m \in Model : future[m] \in {"predict", "repredict"}}
InPole == {m \in Model : consumer[m] = "pole"}

\* The inference gate counts the threads inside, and a prediction that is retried
\* after an out-of-memory error has the GPU to itself ("retrying with serialized
\* model inference").
RetryRunsAlone ==
    /\ active = Cardinality(InSlot) + (IF main = "offloading" THEN 1 ELSE 0)
    /\ active <= InferenceWorkers
    /\ \A m \in Model : future[m] \in {"rewait", "repredict"} => capacity = 1
    /\ \A m \in Model : future[m] = "repredict" => active = 1

\* The pole gate counts the consumers inside, and its list holds every consumer
\* that waits, once.
PoleGateCounts ==
    /\ poleActive = Cardinality(InPole) /\ poleActive <= PoleWorkers
    /\ {waiters[i] : i \in DOMAIN waiters} = {m \in Model : consumer[m] = "queue"}
    /\ \A i, j \in DOMAIN waiters : waiters[i] = waiters[j] => i = j

GatesSound == RetryRunsAlone /\ PoleGateCounts

Over == main \in {"ok", "failed", "interrupted"}

\* A model is published only when each frame was processed, once and without a
\* failure, and no error was seen; no entry of a run that is over is unfinished,
\* and a run is a success only if all models are.
EntriesHonest ==
    /\ \A m \in Model : entry[m] = "completed" =>
          m \notin failures \cup terminal /\ \A f \in Frame : recorded[m][f] = 1
    /\ \A m \in Model, f \in Frame : recorded[m][f] <= 1
    /\ Over => \A m \in Model : entry[m] \notin Unfinished
    /\ main = "ok" => \A m \in Model : entry[m] = "completed"
    /\ (\E m \in Model : entry[m] = "interrupted") => interrupts > 0

\* The outcome of a model, once it is in the manifest, stays: neither the end of
\* the run nor its abortion replaces the failure of a model that is out of it.
EntriesSettleOnce ==
    [][\A m \in Model : entry[m] \notin Unfinished => entry'[m] = entry[m]]_vars

\* Whatever fails, the run ends and leaves no thread behind: nobody waits for
\* ever at a gate, at a full queue or for a consumer that has died.
PipelineEnds ==
    <>(/\ Over
       /\ \A m \in Model : consumer[m] \in {"none", "ended"} /\ ~Predicting(m))
==============================================================================
