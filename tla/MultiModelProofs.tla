---------------------------- MODULE MultiModelProofs ---------------------------
(* The gates, the queues and the entries of a multi-model run, for every set of *)
(* models, number of frames, depth of the queues and size of the gates.         *)
EXTENDS MultiModel, FiniteSetTheorems, SequenceTheorems, TLAPS

USE GateAssumption, PipelineAssumption
    DEF inferenceGate, poleGate, manifestVars, producerVars, consumerVars, summaryVars, bounds

-------------------------------------------------------------------------------
(* The inductive invariant.  Its parts say what is open where the main thread  *)
(* is, what it knows of errors, what the entries are meanwhile, how a gate and *)
(* its queue are related to the threads, and where each frame of a model is.   *)

\* The main thread has yet to give out frames, is at a frame, or is past them: it has
\* begun the last one, or an error has ended the loop.
Early == {"prepare", "load", "frame"}
Mid   == {"collect", "offload", "offloading", "deliver"}
Past  == {"stop", "join", "finalize", "ok", "failed", "interrupted"}

\* No error has happened that the producer would raise.
Clean == error = "none" /\ consumerErrors = {}

Items(s) == {s[i] : i \in DOMAIN s}
Once(s)  == \A i, j \in DOMAIN s : s[i] = s[j] => i = j

Busy(m) == consumer[m] \in {"work", "queue", "pole", "after"}

\* Model m has yet to get frame f; its consumer has frame f in its hands or in its queue.
Due(m, f) == \/ f > frame
             \/ f = frame /\ main \in Early
             \/ f = frame /\ main \in Mid /\ m \in needed \cup jobs
Held(m, f) == f \in Items(work[m]) \/ (Busy(m) /\ job[m] = f)

InferenceTypes ==
    /\ capacity \in 1 .. InferenceWorkers /\ active \in 0 .. InferenceWorkers
    /\ asleep \in SUBSET (Model \cup {Main})

PoleTypes ==
    /\ waiters \in Seq(Model) /\ poleActive \in 0 .. PoleWorkers
    /\ poleAsleep \in SUBSET Model

\* The pole gate
Queueing == {m \in Model : consumer[m] = "queue"}
PoleInv ==
    /\ PoleTypes
    /\ poleActive = Cardinality(InPole) /\ Items(waiters) = Queueing /\ Once(waiters)

MainTypes ==
    /\ main \in MainPlace /\ frame \in 1 .. Frames + 1 /\ loaded \in SUBSET Model
    /\ needed \in SUBSET Model /\ jobs \in SUBSET Model
    /\ error \in {"none", "failed", "interrupted"}

ThreadTypes ==
    /\ future \in [Model -> FuturePlace]
    /\ consumer \in [Model -> ConsumerPlace] /\ job \in [Model -> Frame \cup {Stop}]
    /\ consumerErrors \in SUBSET Model /\ cancel \in BOOLEAN

WorkTypes ==
    /\ work \in [Model -> Seq(Frame \cup {Stop})]
    /\ \A m \in Model : Len(work[m]) <= QueueDepth

ResultTypes ==
    /\ entry \in [Model -> EntryStatus] /\ terminal \in SUBSET Model
    /\ recorded \in [Model -> [Frame -> Nat]] /\ failures \in SUBSET Model
    /\ faults \in 0 .. MaxFaults /\ interrupts \in 0 .. MaxInterrupts

\* Predictions exist only for the models that the frame still needs.
PredictInv ==
    /\ main \in Early \cup {"deliver"} => \A m \in Model : future[m] = "none"
    /\ main \in Mid => \A m \in Model : future[m] # "none" => m \in needed
    /\ main \in {"offload", "offloading"} =>
          \A m \in needed \cap terminal : future[m] = "dead"

\* The models and frames that are open, by the place of the main thread.
PlaceInv ==
    /\ main \in {"prepare", "load"} => frame = 1
    /\ main \in Mid => frame <= Frames /\ needed \subseteq loaded /\ needed \cap jobs = {}
    /\ main \in Early => jobs = {}
    /\ main = "deliver" => needed = {}
    /\ main \in {"collect", "deliver"} => needed \cap terminal = {}
    /\ main \in {"offload", "offloading"} => \A k, n \in needed \cap terminal : k = n

\* Consumers are started with the frames, for loaded models; when models are published
\* they are done.
ConsumerInv ==
    /\ main \in {"prepare", "load"} => \A m \in Model : consumer[m] = "none"
    /\ \A m \in Model : consumer[m] \notin {"none", "ended"} => m \in loaded
    /\ main = "finalize" => \A m \in loaded : consumer[m] = "ended"

\* What the main thread knows of errors and interrupts.
ErrorInv ==
    /\ main \in Early \cup Mid \cup {"stop", "finalize"} => error = "none"
    /\ main = "drain" => error # "none"
    /\ main = "finalize" => consumerErrors = {}
    /\ main \in {"stop", "join", "finalize"} /\ error = "none" => frame > Frames
    /\ (cancel \/ \E m \in Model : consumer[m] = "dying") => ~Clean
    /\ error = "interrupted" => interrupts > 0

\* The status of each model, by the place of the main thread.
EntryInv ==
    /\ main \in {"prepare", "load"} => terminal = {}
    /\ main = "prepare" =>
          loaded = {} /\ \A m \in Model : entry[m] \in {"preparing", "running", "failed"}
    /\ main = "load" => \A m \in Model :
          IF m \in loaded THEN entry[m] = "running" ELSE entry[m] \in {"running", "failed"}
    /\ main \in Mid \cup {"frame", "drain", "stop", "join"} => \A m \in Model :
          entry[m] = IF m \in loaded \ terminal THEN "running" ELSE "failed"
    /\ main = "finalize" => needed \subseteq loaded \ terminal
    /\ main = "finalize" => \A m \in Model :
          IF m \in needed THEN entry[m] = "running" ELSE entry[m] \in {"failed", "completed"}
    /\ main \in {"ok", "failed", "interrupted"} => \A m \in Model : entry[m] \notin Unfinished
    /\ main = "ok" => \A m \in Model : entry[m] = "completed"
    /\ (\E m \in Model : entry[m] = "interrupted") => interrupts > 0

\* A published model is done for good.
PublishedInv ==
    \A m \in Model : entry[m] = "completed" =>
        /\ main \in {"finalize", "ok", "failed", "interrupted"}
        /\ m \in loaded /\ consumer[m] = "ended" /\ m \notin failures \cup terminal
        /\ \A f \in Frame : recorded[m][f] = 1

\* A queue has no job twice, nothing behind its stop token, which comes when the frames
\* are over, and not the frame the consumer has in its hands.
QueueInv ==
    \A m \in Model :
        /\ Once(work[m])
        /\ \A i \in DOMAIN work[m] : work[m][i] = Stop =>
              i = Len(work[m]) /\ main \in Past /\ ~(main = "stop" /\ m \in needed)
        /\ Busy(m) => job[m] \in Frame /\ job[m] \notin Items(work[m])

\* A consumer that ends without an error has emptied its queue, of the stop token, too.
EmptiedInv ==
    \A m \in Model :
        (Clean /\ m \in loaded /\ consumer[m] = "ended") =>
              work[m] = <<>> /\ main \in Past /\ ~(main = "stop" /\ m \in needed)

\* No frame of a model is in two places: due, held by its consumer, recorded.
OncePlaced ==
    \A m \in Model, f \in Frame :
        /\ recorded[m][f] <= 1
        /\ Due(m, f) => recorded[m][f] = 0 /\ ~Held(m, f)
        /\ Held(m, f) => recorded[m][f] = 0

\* Without an error no frame is lost.
NoneLost ==
    \A m \in Model, f \in Frame :
        (Clean /\ m \in loaded \ terminal /\ ~Over) =>
            Due(m, f) \/ Held(m, f) \/ recorded[m][f] = 1

Types ==
    /\ InferenceTypes /\ PoleTypes /\ MainTypes /\ ThreadTypes /\ WorkTypes
    /\ ResultTypes

IndInv ==
    /\ Types /\ RetryRunsAlone /\ PoleInv
    /\ PredictInv /\ PlaceInv /\ ConsumerInv /\ ErrorInv /\ EntryInv /\ PublishedInv
    /\ QueueInv /\ EmptiedInv /\ OncePlaced /\ NoneLost

-------------------------------------------------------------------------------
(* Counting, and sequences without repetition *)

\* A set of models that gets one more member counts one more.
LEMMA OneMore == ASSUME NEW S \in SUBSET Model, NEW m \in Model, m \notin S
                 PROVE  Cardinality(S \cup {m}) = Cardinality(S) + 1 /\ Cardinality(S) \in Nat
<1>1. IsFiniteSet(S)
  BY FS_Subset
<1> QED
  BY <1>1, FS_AddElement, FS_CardinalityType

\* A set of models that loses a member counts one less; it was not empty, and a set of one
\* has no other member.
LEMMA OneLess == ASSUME NEW S \in SUBSET Model, NEW m \in S
                 PROVE  /\ Cardinality(S \ {m}) = Cardinality(S) - 1
                        /\ Cardinality(S) \in Nat \ {0}
                        /\ Cardinality(S) = 1 => S = {m}
<1>1. IsFiniteSet(S) /\ IsFiniteSet(S \ {m})
  BY FS_Subset
<1>2. Cardinality(S \ {m}) = Cardinality(S) - 1 /\ Cardinality(S) \in Nat
  BY <1>1, FS_RemoveElement, FS_CardinalityType
<1>3. Cardinality(S) # 0
  BY <1>1, FS_EmptySet
<1>4. ASSUME Cardinality(S) = 1 PROVE S = {m}
  BY <1>1, <1>2, <1>4, FS_EmptySet
<1> QED
  BY <1>2, <1>3, <1>4

\* The threads at both gates can be counted.
LEMMA Counted == Cardinality(InSlot) \in Nat /\ Cardinality(InPole) \in Nat
<1>1. InSlot \in SUBSET Model /\ InPole \in SUBSET Model
  BY DEF InSlot, InPole
<1> QED
  BY <1>1, FS_Subset, FS_CardinalityType

\* What put does to a queue: the job is last, and the queue has it as well as what it had.
LEMMA Appended == ASSUME NEW S, NEW s \in Seq(S), NEW x \in S
                  PROVE  /\ Append(s, x) \in Seq(S) /\ Len(Append(s, x)) = Len(s) + 1
                         /\ Items(Append(s, x)) = Items(s) \cup {x}
                         /\ Once(s) /\ x \notin Items(s) => Once(Append(s, x))
                         /\ \A i \in DOMAIN s : Append(s, x)[i] = s[i] /\ i \in 1 .. Len(s)
                         /\ DOMAIN Append(s, x) = DOMAIN s \cup {Len(s) + 1}
                         /\ Append(s, x)[Len(s) + 1] = x
<1> DEFINE t == Append(s, x)
<1>1. t \in Seq(S) /\ Len(t) = Len(s) + 1 /\ Len(s) \in Nat
  OBVIOUS
<1>2. DOMAIN s = 1 .. Len(s) /\ DOMAIN t = 1 .. Len(s) + 1
  BY <1>1
<1>3. (\A i \in 1 .. Len(s) : t[i] = s[i]) /\ t[Len(s) + 1] = x
  OBVIOUS
<1> HIDE DEF t
<1>4. Items(t) = Items(s) \cup {x}
  BY <1>1, <1>2, <1>3 DEF Items
<1>5. Once(s) /\ x \notin Items(s) => Once(t)
  BY <1>1, <1>2, <1>3 DEF Items, Once
<1> QED
  BY <1>1, <1>2, <1>3, <1>4, <1>5 DEF t

\* What get does to a queue: the first job is taken out, the others stay in their order.
LEMMA Removed == ASSUME NEW S, NEW s \in Seq(S), s # <<>>
                 PROVE  /\ Head(s) \in S /\ Tail(s) \in Seq(S) /\ Len(Tail(s)) = Len(s) - 1
                        /\ Len(s) \in Nat \ {0} /\ DOMAIN s = 1 .. Len(s)
                        /\ Items(s) = Items(Tail(s)) \cup {Head(s)} /\ Head(s) = s[1]
                        /\ Once(s) => Once(Tail(s)) /\ Head(s) \notin Items(Tail(s))
                        /\ \A i \in DOMAIN Tail(s) : Tail(s)[i] = s[i + 1] /\ i + 1 \in DOMAIN s
<1> DEFINE t == Tail(s)
<1>1. t \in Seq(S) /\ Len(t) = Len(s) - 1 /\ Len(s) \in Nat \ {0} /\ Head(s) \in S
  OBVIOUS
<1>2. DOMAIN s = 1 .. Len(s) /\ DOMAIN t = 1 .. Len(s) - 1
  BY <1>1
<1>3. (\A i \in 1 .. Len(s) - 1 : t[i] = s[i + 1]) /\ Head(s) = s[1]
  OBVIOUS
<1> HIDE DEF t
<1>4. \A i \in 1 .. Len(s) : i = 1 \/ (\E j \in 1 .. Len(s) - 1 : s[i] = t[j])
  <2>1. ASSUME NEW i \in 1 .. Len(s), i # 1 PROVE i - 1 \in 1 .. Len(s) - 1 /\ s[i] = t[i - 1]
    BY <1>1, <1>3, <2>1
  <2> QED
    BY <2>1
<1>5. Items(s) = Items(t) \cup {Head(s)}
  <2>1. \A i \in 1 .. Len(s) - 1 : i + 1 \in 1 .. Len(s)
    BY <1>1
  <2>2. \A x \in Items(t) : x \in Items(s)
    BY <1>2, <1>3, <2>1 DEF Items
  <2>3. \A x \in Items(s) : x \in Items(t) \/ x = Head(s)
    <3>1. \A j \in 1 .. Len(s) - 1 : t[j] \in Items(t)
      BY <1>2 DEF Items
    <3>2. \A i \in 1 .. Len(s) : s[i] \in Items(t) \/ s[i] = Head(s)
      BY <1>3, <1>4, <3>1
    <3> QED
      BY <1>2, <3>2 DEF Items
  <2>4. 1 \in DOMAIN s
    BY <1>1, <1>2
  <2>5. Head(s) \in Items(s)
    BY <2>4, <1>3 DEF Items
  <2> QED
    BY <2>2, <2>3, <2>5
<1>6. ASSUME Once(s) PROVE Once(t) /\ Head(s) \notin Items(t)
  <2>1. ASSUME NEW i \in 1 .. Len(s) - 1 PROVE i + 1 \in DOMAIN s /\ i + 1 # 1 /\ 1 \in DOMAIN s
    BY <1>1, <1>2
  <2>2. ASSUME NEW i \in DOMAIN t, NEW j \in DOMAIN t, t[i] = t[j] PROVE i = j
    <3>1. s[i + 1] = s[j + 1] /\ i + 1 \in DOMAIN s /\ j + 1 \in DOMAIN s
      BY <1>2, <1>3, <2>1, <2>2
    <3>2. i + 1 = j + 1
      BY <3>1, <1>6 DEF Once
    <3> QED
      BY <3>2, <1>2
  <2>3. ASSUME NEW i \in DOMAIN t PROVE t[i] # Head(s)
    BY <1>2, <1>3, <2>1, <1>6 DEF Once
  <2> QED
    BY <2>2, <2>3 DEF Once, Items
<1> QED
  BY <1>1, <1>2, <1>3, <1>5, <1>6 DEF t

\* A job that is put into the queue of a model is in that queue and in no other.
LEMMA Queued == ASSUME WorkTypes, NEW m \in Model, NEW x \in Frame \cup {Stop},
                       work' = [work EXCEPT ![m] = Append(@, x)]
                PROVE  /\ Items(work'[m]) = Items(work[m]) \cup {x}
                       /\ \A k \in Model \ {m} : work'[k] = work[k]
<1>1. work[m] \in Seq(Frame \cup {Stop}) /\ work'[m] = Append(work[m], x)
  BY DEF WorkTypes
<1> QED
  BY <1>1, Appended DEF WorkTypes

\* A job that is taken out of the queue of a model is not in it any more.
LEMMA Dequeued == ASSUME WorkTypes, NEW m \in Model, Once(work[m]), work[m] # <<>>,
                         work' = [work EXCEPT ![m] = Tail(@)]
                  PROVE  /\ Items(work[m]) = Items(work'[m]) \cup {Head(work[m])}
                         /\ Head(work[m]) \notin Items(work'[m])
<1>1. work[m] \in Seq(Frame \cup {Stop}) /\ work'[m] = Tail(work[m])
  BY DEF WorkTypes
<1> QED
  BY <1>1, Removed

-------------------------------------------------------------------------------
(* Types *)

\* Every other step leaves the main thread alone.
LEMMA MainSteps == ASSUME Next PROVE
    \/ UNCHANGED <<main, frame, loaded, needed, jobs, error>>
    \/ PrepareDone \/ LoadDone \/ BeginFrame \/ ProducerRaises \/ Offload \/ Offloaded
    \/ Collected \/ NextFrame \/ Drained \/ FramesDone \/ StopFails \/ StopDone
    \/ JoinNotices \/ Abort \/ Finalize \/ End \/ Disagree \/ DecodeFails \/ DecodeRaises
    \/ InterruptEarly \/ InterruptProducer \/ WaitInterrupted \/ JoinInterrupted
    \/ FinalizeInterrupted
    \/ \E m \in Model :
          \/ Load(m) \/ Collect(m) \/ CollectFailure(m) \/ CollectMemoryError(m)
          \/ CircuitBreak(m) \/ Deliver(m) \/ StopConsumer(m) \/ Publish(m)
          \/ PublishRaises(m)
  BY Zenon DEF Next, Threads, Preparing, Producing, Ending, Pooling, Consuming, Errors,
     Interrupts, Prepared, WaitForGate, Predict, Downgrade, ConsumerWaits,
     ConsumerCancelled, Take, PoleArrive, PoleWait, PoleDone, Processed, ConsumerCancels,
     PrepareFails, LoadFails, PredictFails, ProcessFails, ConsumerDies, Arrive, Consumer,
     Enter, Fault, Goto, Leave, Pass, PoleLeave, PoleSleep, Record, ReduceToOne, Sleep,
     Turn, inferenceGate, poleGate, manifestVars, producerVars, consumerVars, summaryVars,
     bounds

\* Every step keeps the types of the main thread; a frame that is left is one of the frames,
\* so that the count stays within one more.
LEMMA MainTypesKept == ASSUME MainTypes, PlaceInv, Next PROVE MainTypes'
<1> USE DEF MainTypes, PlaceInv, MainPlace, Early, Mid, Frame
<1>1. CASE UNCHANGED <<main, frame, loaded, needed, jobs, error>>
  BY <1>1
<1>2. CASE PrepareDone \/ LoadDone
  BY <1>2 DEF PrepareDone, LoadDone, Running
<1>3. CASE BeginFrame
  BY <1>3 DEF BeginFrame, Record
<1>4. CASE ProducerRaises \/ Offload \/ Offloaded \/ Collected
  BY <1>4 DEF ProducerRaises, Offload, Offloaded, Collected, Raise, PendingError, Enter,
     Sleep, Leave, Record
<1>5. CASE NextFrame \/ Drained \/ FramesDone
  BY <1>5 DEF NextFrame, Drained, FramesDone
<1>6. CASE StopFails \/ StopDone \/ JoinNotices \/ Abort
  BY <1>6 DEF StopFails, StopDone, JoinNotices, Abort, PendingError, Mark, Joined
<1>7. CASE Finalize \/ End
  BY <1>7 DEF Finalize, End, Joined
<1>8. CASE Disagree
  BY <1>8 DEF Disagree, Mark, Fault, Running
<1>9. CASE DecodeFails
  BY <1>9 DEF DecodeFails, Record, Fault
<1>10. CASE DecodeRaises
  BY <1>10 DEF DecodeRaises, Raise, Fault
<1>11. CASE InterruptEarly \/ InterruptProducer \/ WaitInterrupted \/ JoinInterrupted
  BY <1>11 DEF InterruptEarly, InterruptProducer, WaitInterrupted, JoinInterrupted,
     Interrupt, Mark, Unfinished, Raise, Leave
<1>12. CASE FinalizeInterrupted
  BY <1>12 DEF FinalizeInterrupted, Interrupt, Mark
<1>13. ASSUME NEW m \in Model, Load(m) PROVE MainTypes'
  BY <1>13 DEF Load, Running
<1>14. ASSUME NEW m \in Model, Collect(m) \/ CollectFailure(m) \/ CollectMemoryError(m) \/ CircuitBreak(m)
      PROVE  MainTypes'
  BY <1>14 DEF Collect, CollectFailure, CollectMemoryError, CircuitBreak, Record, Raise
<1>15. ASSUME NEW m \in Model, Deliver(m) PROVE MainTypes'
  BY <1>15 DEF Deliver
<1>16. ASSUME NEW m \in Model, StopConsumer(m) \/ Publish(m) PROVE MainTypes'
  BY <1>16 DEF StopConsumer, Publish
<1>17. ASSUME NEW m \in Model, PublishRaises(m) PROVE MainTypes'
  BY <1>17 DEF PublishRaises, Fault
<1> QED
  BY <1>1, <1>2, <1>3, <1>4, <1>5, <1>6, <1>7, <1>8, <1>9, <1>10, <1>11, <1>12, <1>13,
     <1>14, <1>15, <1>16, <1>17, MainSteps

\* Every other step leaves the threads alone.
LEMMA ThreadSteps == ASSUME Next PROVE
    \/ UNCHANGED <<future, consumer, job, consumerErrors, cancel>>
    \/ LoadDone \/ BeginFrame \/ ProducerRaises \/ Offloaded \/ Drained \/ StopFails
    \/ JoinNotices \/ WaitInterrupted
    \/ \E m \in Model :
          \/ Collect(m) \/ CollectFailure(m) \/ CollectMemoryError(m)
          \/ WaitForGate(m) \/ Predict(m) \/ Downgrade(m) \/ ConsumerWaits(m)
          \/ ConsumerCancelled(m) \/ Take(m) \/ PoleArrive(m) \/ PoleWait(m)
          \/ PoleDone(m) \/ Processed(m) \/ ConsumerCancels(m) \/ PredictFails(m)
          \/ ProcessFails(m) \/ ConsumerDies(m)
  BY Zenon DEF Next, Threads, Preparing, Producing, Ending, Pooling, Consuming, Errors,
     Interrupts, PrepareDone, Prepared, Load, Offload, Collected, NextFrame, FramesDone,
     CircuitBreak, Deliver, StopDone, Abort, Finalize, End, StopConsumer, Publish, Disagree,
     DecodeFails, DecodeRaises, PrepareFails, LoadFails, PublishRaises, InterruptEarly,
     InterruptProducer, JoinInterrupted, FinalizeInterrupted, Enter, Fault, Interrupt,
     Joined, Leave, Mark, Raise, Record, Sleep, Unfinished, inferenceGate, poleGate,
     manifestVars, producerVars, consumerVars, summaryVars, bounds

\* Every step keeps the types of the pool and consumer threads; a job is what was in the
\* queue.
LEMMA ThreadTypesKept == ASSUME ThreadTypes, WorkTypes, Next PROVE ThreadTypes'
<1> USE DEF ThreadTypes, WorkTypes, FuturePlace, ConsumerPlace, Settled, Frame, Stop
<1>1. CASE UNCHANGED <<future, consumer, job, consumerErrors, cancel>>
  BY <1>1
<1>2. CASE LoadDone
  BY <1>2 DEF LoadDone, Running
<1>3. CASE BeginFrame
  BY <1>3 DEF BeginFrame, Record
<1>4. CASE ProducerRaises \/ Offloaded
  BY <1>4 DEF ProducerRaises, Offloaded, Raise, PendingError, Leave, Record
<1>5. CASE Drained
  BY <1>5 DEF Drained
<1>6. CASE StopFails \/ JoinNotices
  BY <1>6 DEF StopFails, JoinNotices, PendingError
<1>7. CASE WaitInterrupted
  BY <1>7 DEF WaitInterrupted, Interrupt
<1>8. ASSUME NEW m \in Model, Collect(m) \/ CollectFailure(m) PROVE ThreadTypes'
  BY <1>8 DEF Collect, CollectFailure, Record
<1>9. ASSUME NEW m \in Model, CollectMemoryError(m) PROVE ThreadTypes'
  BY <1>9 DEF CollectMemoryError, Raise
<1>10. ASSUME NEW m \in Model, WaitForGate(m) \/ Predict(m) PROVE ThreadTypes'
  BY <1>10 DEF WaitForGate, Predict, Enter, Sleep, Goto, Leave
<1>11. ASSUME NEW m \in Model, Downgrade(m) PROVE ThreadTypes'
  BY <1>11 DEF Downgrade, ReduceToOne, Goto
<1>12. ASSUME NEW m \in Model, ConsumerWaits(m) \/ ConsumerCancelled(m) PROVE ThreadTypes'
  BY <1>12 DEF ConsumerWaits, ConsumerCancelled, Consumer
<1>13. ASSUME NEW m \in Model, Take(m) PROVE ThreadTypes'
  BY <1>13 DEF Take, Consumer
<1>14. ASSUME NEW m \in Model, PoleArrive(m) \/ PoleWait(m) PROVE ThreadTypes'
  BY <1>14 DEF PoleArrive, PoleWait, Arrive, Consumer, Pass, PoleSleep, Turn
<1>15. ASSUME NEW m \in Model, PoleDone(m) \/ Processed(m) PROVE ThreadTypes'
  BY <1>15 DEF PoleDone, Processed, PoleLeave, Consumer, Record
<1>16. ASSUME NEW m \in Model, ConsumerCancels(m) PROVE ThreadTypes'
  BY <1>16 DEF ConsumerCancels, Consumer
<1>17. ASSUME NEW m \in Model, PredictFails(m) \/ ProcessFails(m) PROVE ThreadTypes'
  BY <1>17 DEF PredictFails, ProcessFails, Leave, Fault, Goto, Consumer, Record
<1>18. ASSUME NEW m \in Model, ConsumerDies(m) PROVE ThreadTypes'
  BY <1>18 DEF ConsumerDies, Fault, Consumer
<1> QED
  BY <1>1, <1>2, <1>3, <1>4, <1>5, <1>6, <1>7, <1>8, <1>9, <1>10, <1>11, <1>12, <1>13,
     <1>14, <1>15, <1>16, <1>17, <1>18, ThreadSteps

\* Every other step leaves the queues alone.
LEMMA WorkSteps == ASSUME Next PROVE
    \/ UNCHANGED <<work>>
    \/ \E m \in Model :
          \/ Deliver(m) \/ StopConsumer(m) \/ Take(m)
  BY Zenon DEF Next, Threads, Preparing, Producing, Ending, Pooling, Consuming, Errors,
     Interrupts, PrepareDone, LoadDone, Prepared, Load, BeginFrame, ProducerRaises, Offload,
     Offloaded, Collected, NextFrame, Drained, FramesDone, Collect, CollectFailure,
     CollectMemoryError, CircuitBreak, StopFails, StopDone, JoinNotices, Abort, Finalize,
     End, Publish, WaitForGate, Predict, Downgrade, ConsumerWaits, ConsumerCancelled,
     PoleArrive, PoleWait, PoleDone, Processed, ConsumerCancels, Disagree, DecodeFails,
     DecodeRaises, PrepareFails, LoadFails, PredictFails, ProcessFails, ConsumerDies,
     PublishRaises, InterruptEarly, InterruptProducer, WaitInterrupted, JoinInterrupted,
     FinalizeInterrupted, Arrive, Consumer, Enter, Fault, Goto, Interrupt, Joined, Leave,
     Mark, Pass, PendingError, PoleLeave, PoleSleep, Raise, Record, ReduceToOne, Sleep,
     Turn, Unfinished, inferenceGate, poleGate, manifestVars, producerVars, consumerVars,
     summaryVars, bounds

\* Every step keeps the queues, and none gets longer than multi_model_queue_depth: both that
\* put into a queue look at its length in the same step.
LEMMA WorkTypesKept == ASSUME MainTypes, PlaceInv, WorkTypes, Next PROVE WorkTypes'
<1> USE DEF WorkTypes, MainTypes, PlaceInv, Mid, Frame, Stop
<1>1. CASE UNCHANGED <<work>>
  BY <1>1
<1>2. ASSUME NEW m \in Model, Deliver(m) PROVE WorkTypes'
  BY <1>2 DEF Deliver
<1>3. ASSUME NEW m \in Model, StopConsumer(m) PROVE WorkTypes'
  BY <1>3 DEF StopConsumer
<1>4. ASSUME NEW m \in Model, Take(m) PROVE WorkTypes'
  BY <1>4 DEF Take, Consumer
<1> QED
  BY <1>1, <1>2, <1>3, <1>4, WorkSteps

\* Every other step leaves entries and results alone.
LEMMA ResultSteps == ASSUME Next PROVE
    \/ UNCHANGED <<entry, terminal, recorded, failures, faults, interrupts>>
    \/ BeginFrame \/ Offloaded \/ Abort \/ Disagree \/ DecodeFails \/ DecodeRaises
    \/ InterruptEarly \/ InterruptProducer \/ WaitInterrupted \/ JoinInterrupted
    \/ FinalizeInterrupted
    \/ \E m \in Model :
          \/ Prepared(m) \/ CollectFailure(m) \/ CircuitBreak(m) \/ Publish(m)
          \/ Processed(m) \/ PrepareFails(m) \/ LoadFails(m) \/ PredictFails(m)
          \/ ProcessFails(m) \/ ConsumerDies(m) \/ PublishRaises(m)
  BY Zenon DEF Next, Threads, Preparing, Producing, Ending, Pooling, Consuming, Errors,
     Interrupts, PrepareDone, LoadDone, Load, ProducerRaises, Offload, Collected, NextFrame,
     Drained, FramesDone, Collect, CollectMemoryError, Deliver, StopFails, StopDone,
     JoinNotices, Finalize, End, StopConsumer, WaitForGate, Predict, Downgrade,
     ConsumerWaits, ConsumerCancelled, Take, PoleArrive, PoleWait, PoleDone,
     ConsumerCancels, Arrive, Consumer, Enter, Goto, Joined, Leave, Pass, PendingError,
     PoleLeave, PoleSleep, Raise, ReduceToOne, Sleep, Turn, inferenceGate, poleGate,
     manifestVars, producerVars, consumerVars, summaryVars, bounds

\* Every step keeps the types of entries and results; the status that an abortion writes is
\* one of an entry.
LEMMA ResultTypesKept == ASSUME ResultTypes, MainTypes, ThreadTypes, Next PROVE ResultTypes'
<1> USE DEF ResultTypes, MainTypes, ThreadTypes, EntryStatus, Unfinished, Frame
<1>1. CASE UNCHANGED <<entry, terminal, recorded, failures, faults, interrupts>>
  BY <1>1
<1>2. CASE BeginFrame
  BY <1>2 DEF BeginFrame, Record
<1>3. CASE Offloaded
  BY <1>3 DEF Offloaded, Leave, Record
<1>4. CASE Abort
  BY <1>4 DEF Abort, Mark, Joined
<1>5. CASE Disagree
  BY <1>5 DEF Disagree, Mark, Fault, Running
<1>6. CASE DecodeFails
  BY <1>6 DEF DecodeFails, Record, Fault
<1>7. CASE DecodeRaises
  BY <1>7 DEF DecodeRaises, Raise, Fault
<1>8. CASE InterruptEarly
  BY <1>8 DEF InterruptEarly, Interrupt, Mark, Unfinished
<1>9. CASE InterruptProducer
  BY <1>9 DEF InterruptProducer, Interrupt, Raise, Leave
<1>10. CASE WaitInterrupted
  BY <1>10 DEF WaitInterrupted, Interrupt
<1>11. CASE JoinInterrupted
  BY <1>11 DEF JoinInterrupted, Interrupt, Mark, Unfinished
<1>12. CASE FinalizeInterrupted
  BY <1>12 DEF FinalizeInterrupted, Interrupt, Mark
<1>13. ASSUME NEW m \in Model, Prepared(m) PROVE ResultTypes'
  BY <1>13 DEF Prepared
<1>14. ASSUME NEW m \in Model, CollectFailure(m) PROVE ResultTypes'
  BY <1>14 DEF CollectFailure, Record
<1>15. ASSUME NEW m \in Model, CircuitBreak(m) PROVE ResultTypes'
  BY <1>15 DEF CircuitBreak
<1>16. ASSUME NEW m \in Model, Publish(m) PROVE ResultTypes'
  BY <1>16 DEF Publish
<1>17. ASSUME NEW m \in Model, Processed(m) PROVE ResultTypes'
  BY <1>17 DEF Processed, Consumer, Record
<1>18. ASSUME NEW m \in Model, PrepareFails(m) PROVE ResultTypes'
  BY <1>18 DEF PrepareFails, Fault
<1>19. ASSUME NEW m \in Model, LoadFails(m) PROVE ResultTypes'
  BY <1>19 DEF LoadFails, Fault, Running
<1>20. ASSUME NEW m \in Model, PredictFails(m) PROVE ResultTypes'
  BY <1>20 DEF PredictFails, Leave, Fault, Goto
<1>21. ASSUME NEW m \in Model, ProcessFails(m) PROVE ResultTypes'
  BY <1>21 DEF ProcessFails, Fault, Consumer, Record
<1>22. ASSUME NEW m \in Model, ConsumerDies(m) PROVE ResultTypes'
  BY <1>22 DEF ConsumerDies, Fault, Consumer
<1>23. ASSUME NEW m \in Model, PublishRaises(m) PROVE ResultTypes'
  BY <1>23 DEF PublishRaises, Fault
<1> QED
  BY <1>1, <1>2, <1>3, <1>4, <1>5, <1>6, <1>7, <1>8, <1>9, <1>10, <1>11, <1>12, <1>13,
     <1>14, <1>15, <1>16, <1>17, <1>18, <1>19, <1>20, <1>21, <1>22, <1>23,
     ResultSteps

-------------------------------------------------------------------------------
(* The main thread *)

\* Every other step leaves the predictions alone.
LEMMA PredictSteps == ASSUME Next PROVE
    \/ UNCHANGED <<main, needed, future, terminal>>
    \/ PrepareDone \/ LoadDone \/ BeginFrame \/ ProducerRaises \/ Offload \/ Offloaded
    \/ Collected \/ NextFrame \/ Drained \/ FramesDone \/ StopFails \/ StopDone \/ Abort
    \/ Finalize \/ End \/ Disagree \/ DecodeRaises \/ InterruptEarly \/ InterruptProducer
    \/ WaitInterrupted \/ JoinInterrupted \/ FinalizeInterrupted
    \/ \E m \in Model :
          \/ Collect(m) \/ CollectFailure(m) \/ CollectMemoryError(m)
          \/ CircuitBreak(m) \/ StopConsumer(m) \/ Publish(m) \/ WaitForGate(m)
          \/ Predict(m) \/ Downgrade(m) \/ PredictFails(m) \/ PublishRaises(m)
  BY Zenon DEF Next, Threads, Preparing, Producing, Ending, Pooling, Consuming, Errors,
     Interrupts, Prepared, Load, Deliver, JoinNotices, ConsumerWaits, ConsumerCancelled,
     Take, PoleArrive, PoleWait, PoleDone, Processed, ConsumerCancels, DecodeFails,
     PrepareFails, LoadFails, ProcessFails, ConsumerDies, Arrive, Consumer, Fault, Pass,
     PendingError, PoleLeave, PoleSleep, Record, Turn, inferenceGate, poleGate,
     manifestVars, producerVars, consumerVars, summaryVars, bounds

\* Predictions are started with a frame, for the models that need it, and a model is out of
\* the frame only when its prediction has been collected. The model that the circuit
\* breaker stops is the only one whose prediction is dead.
LEMMA PredictInvKept == ASSUME PredictInv, PlaceInv, MainTypes, ThreadTypes, Next PROVE PredictInv'
<1> USE DEF PredictInv, PlaceInv, MainTypes, ThreadTypes, MainPlace, FuturePlace, Early, Mid
<1>1. CASE UNCHANGED <<main, needed, future, terminal>>
  BY <1>1
<1>2. CASE PrepareDone \/ LoadDone
  BY <1>2 DEF PrepareDone, LoadDone, Running
<1>3. CASE BeginFrame
  BY <1>3 DEF BeginFrame, Record
<1>4. CASE ProducerRaises \/ Offload \/ Offloaded \/ Collected
  BY <1>4 DEF ProducerRaises, Offload, Offloaded, Collected, Raise, PendingError, Enter,
     Sleep, Leave, Record
<1>5. CASE NextFrame \/ Drained \/ FramesDone
  BY <1>5 DEF NextFrame, Drained, FramesDone
<1>6. CASE StopFails \/ StopDone \/ Abort \/ Finalize
  BY <1>6 DEF StopFails, StopDone, Abort, Finalize, PendingError, Mark, Joined
<1>7. CASE End
  BY <1>7 DEF End
<1>8. CASE Disagree \/ DecodeRaises
  BY <1>8 DEF Disagree, DecodeRaises, Mark, Fault, Running, Raise
<1>9. CASE InterruptEarly \/ InterruptProducer \/ WaitInterrupted \/ JoinInterrupted
  BY <1>9 DEF InterruptEarly, InterruptProducer, WaitInterrupted, JoinInterrupted,
     Interrupt, Mark, Unfinished, Raise, Leave
<1>10. CASE FinalizeInterrupted
  BY <1>10 DEF FinalizeInterrupted, Interrupt, Mark
<1>11. ASSUME NEW m \in Model, Collect(m) \/ CollectFailure(m) \/ CollectMemoryError(m) \/ CircuitBreak(m)
      PROVE  PredictInv'
  BY <1>11 DEF Collect, CollectFailure, CollectMemoryError, CircuitBreak, Record, Raise
<1>12. ASSUME NEW m \in Model, StopConsumer(m) \/ Publish(m) PROVE PredictInv'
  BY <1>12 DEF StopConsumer, Publish
<1>13. ASSUME NEW m \in Model, WaitForGate(m) \/ Predict(m) \/ Downgrade(m)
      PROVE  PredictInv'
  BY <1>13 DEF WaitForGate, Predict, Downgrade, Enter, Sleep, Goto, Leave, ReduceToOne
<1>14. ASSUME NEW m \in Model, PredictFails(m) \/ PublishRaises(m) PROVE PredictInv'
  BY <1>14 DEF PredictFails, PublishRaises, Leave, Fault, Goto
<1> QED
  BY <1>1, <1>2, <1>3, <1>4, <1>5, <1>6, <1>7, <1>8, <1>9, <1>10, <1>11, <1>12, <1>13,
     <1>14, PredictSteps

\* Every other step leaves what the main thread has open alone.
LEMMA PlaceSteps == ASSUME Next PROVE
    \/ UNCHANGED <<main, frame, loaded, needed, jobs, terminal>>
    \/ PrepareDone \/ LoadDone \/ BeginFrame \/ ProducerRaises \/ Offload \/ Offloaded
    \/ Collected \/ NextFrame \/ Drained \/ FramesDone \/ StopFails \/ StopDone \/ Abort
    \/ Finalize \/ End \/ Disagree \/ DecodeFails \/ DecodeRaises \/ InterruptEarly
    \/ InterruptProducer \/ WaitInterrupted \/ JoinInterrupted \/ FinalizeInterrupted
    \/ \E m \in Model :
          \/ Load(m) \/ Collect(m) \/ CollectFailure(m) \/ CollectMemoryError(m)
          \/ CircuitBreak(m) \/ Deliver(m) \/ StopConsumer(m) \/ Publish(m)
          \/ PublishRaises(m)
  BY Zenon DEF Next, Threads, Preparing, Producing, Ending, Pooling, Consuming, Errors,
     Interrupts, Prepared, JoinNotices, WaitForGate, Predict, Downgrade, ConsumerWaits,
     ConsumerCancelled, Take, PoleArrive, PoleWait, PoleDone, Processed, ConsumerCancels,
     PrepareFails, LoadFails, PredictFails, ProcessFails, ConsumerDies, Arrive, Consumer,
     Enter, Fault, Goto, Leave, Pass, PendingError, PoleLeave, PoleSleep, Record,
     ReduceToOne, Sleep, Turn, inferenceGate, poleGate, manifestVars, producerVars,
     consumerVars, summaryVars, bounds

\* What the main thread has open changes only as it goes from place to place: the jobs of a
\* frame are gone before the next frame, and the circuit breaker handles one model at a
\* time.
LEMMA PlaceInvKept == ASSUME PredictInv, PlaceInv, MainTypes, ResultTypes, Next PROVE PlaceInv'
<1> USE DEF PredictInv, PlaceInv, MainTypes, MainPlace, Early, Mid
<1>1. CASE UNCHANGED <<main, frame, loaded, needed, jobs, terminal>>
  BY <1>1
<1>2. CASE PrepareDone \/ LoadDone
  BY <1>2 DEF PrepareDone, LoadDone, Running
<1>3. CASE BeginFrame
  BY <1>3 DEF BeginFrame, Record
<1>4. CASE ProducerRaises \/ Offload \/ Offloaded \/ Collected
  BY <1>4 DEF ProducerRaises, Offload, Offloaded, Collected, Raise, PendingError, Enter,
     Sleep, Leave, Record
<1>5. CASE NextFrame \/ Drained \/ FramesDone
  BY <1>5 DEF NextFrame, Drained, FramesDone
<1>6. CASE StopFails \/ StopDone \/ Abort \/ Finalize
  BY <1>6 DEF StopFails, StopDone, Abort, Finalize, PendingError, Mark, Joined
<1>7. CASE End
  BY <1>7 DEF End
<1>8. CASE Disagree
  BY <1>8 DEF Disagree, Mark, Fault, Running
<1>9. CASE DecodeFails
  BY <1>9 DEF DecodeFails, Record, Fault
<1>10. CASE DecodeRaises
  BY <1>10 DEF DecodeRaises, Raise, Fault
<1>11. CASE InterruptEarly \/ InterruptProducer \/ WaitInterrupted \/ JoinInterrupted
  BY <1>11 DEF InterruptEarly, InterruptProducer, WaitInterrupted, JoinInterrupted,
     Interrupt, Mark, Unfinished, Raise, Leave
<1>12. CASE FinalizeInterrupted
  BY <1>12 DEF FinalizeInterrupted, Interrupt, Mark
<1>13. ASSUME NEW m \in Model, Load(m) PROVE PlaceInv'
  BY <1>13 DEF Load, Running
<1>14. ASSUME NEW m \in Model, Collect(m) \/ CollectFailure(m) \/ CollectMemoryError(m) \/ CircuitBreak(m)
      PROVE  PlaceInv'
  BY <1>14 DEF Collect, CollectFailure, CollectMemoryError, CircuitBreak, Record, Raise
<1>15. ASSUME NEW m \in Model, Deliver(m) PROVE PlaceInv'
  BY <1>15 DEF Deliver
<1>16. ASSUME NEW m \in Model, StopConsumer(m) \/ Publish(m) PROVE PlaceInv'
  BY <1>16 DEF StopConsumer, Publish
<1>17. ASSUME NEW m \in Model, PublishRaises(m) PROVE PlaceInv'
  BY <1>17 DEF PublishRaises, Fault
<1> QED
  BY <1>1, <1>2, <1>3, <1>4, <1>5, <1>6, <1>7, <1>8, <1>9, <1>10, <1>11, <1>12, <1>13,
     <1>14, <1>15, <1>16, <1>17, PlaceSteps

\* Every other step leaves who consumes alone.
LEMMA ConsumerSteps == ASSUME Next PROVE
    \/ UNCHANGED <<main, loaded, consumer>>
    \/ PrepareDone \/ LoadDone \/ BeginFrame \/ ProducerRaises \/ Offload \/ Offloaded
    \/ Collected \/ NextFrame \/ Drained \/ FramesDone \/ StopFails \/ StopDone \/ Abort
    \/ Finalize \/ End \/ Disagree \/ DecodeRaises \/ InterruptEarly \/ InterruptProducer
    \/ WaitInterrupted \/ JoinInterrupted \/ FinalizeInterrupted
    \/ \E m \in Model :
          \/ Load(m) \/ CollectMemoryError(m) \/ CircuitBreak(m) \/ ConsumerWaits(m)
          \/ ConsumerCancelled(m) \/ Take(m) \/ PoleArrive(m) \/ PoleWait(m)
          \/ PoleDone(m) \/ Processed(m) \/ ConsumerCancels(m) \/ ProcessFails(m)
          \/ ConsumerDies(m)
  BY Zenon DEF Next, Threads, Preparing, Producing, Ending, Pooling, Consuming, Errors,
     Interrupts, Prepared, Collect, CollectFailure, Deliver, JoinNotices, StopConsumer,
     Publish, WaitForGate, Predict, Downgrade, DecodeFails, PrepareFails, LoadFails,
     PredictFails, PublishRaises, Enter, Fault, Goto, Leave, PendingError, Record,
     ReduceToOne, Sleep, inferenceGate, poleGate, manifestVars, producerVars, consumerVars,
     summaryVars, bounds

\* Consumers exist from the first frame on, for loaded models only, and a consumer that has
\* ended does nothing any more.
LEMMA ConsumerInvKept == ASSUME ConsumerInv, MainTypes, ThreadTypes, Next PROVE ConsumerInv'
<1> USE DEF ConsumerInv, MainTypes, ThreadTypes, MainPlace, ConsumerPlace
<1>1. CASE UNCHANGED <<main, loaded, consumer>>
  BY <1>1
<1>2. CASE PrepareDone \/ LoadDone
  BY <1>2 DEF PrepareDone, LoadDone, Running
<1>3. CASE BeginFrame
  BY <1>3 DEF BeginFrame, Record
<1>4. CASE ProducerRaises \/ Offload \/ Offloaded \/ Collected
  BY <1>4 DEF ProducerRaises, Offload, Offloaded, Collected, Raise, PendingError, Enter,
     Sleep, Leave, Record
<1>5. CASE NextFrame \/ Drained \/ FramesDone
  BY <1>5 DEF NextFrame, Drained, FramesDone
<1>6. CASE StopFails \/ StopDone \/ Abort \/ Finalize
  BY <1>6 DEF StopFails, StopDone, Abort, Finalize, PendingError, Mark, Joined
<1>7. CASE End
  BY <1>7 DEF End
<1>8. CASE Disagree \/ DecodeRaises
  BY <1>8 DEF Disagree, DecodeRaises, Mark, Fault, Running, Raise
<1>9. CASE InterruptEarly \/ InterruptProducer \/ WaitInterrupted \/ JoinInterrupted
  BY <1>9 DEF InterruptEarly, InterruptProducer, WaitInterrupted, JoinInterrupted,
     Interrupt, Mark, Unfinished, Raise, Leave
<1>10. CASE FinalizeInterrupted
  BY <1>10 DEF FinalizeInterrupted, Interrupt, Mark
<1>11. ASSUME NEW m \in Model, Load(m) PROVE ConsumerInv'
  BY <1>11 DEF Load, Running
<1>12. ASSUME NEW m \in Model, CollectMemoryError(m) \/ CircuitBreak(m) PROVE ConsumerInv'
  BY <1>12 DEF CollectMemoryError, CircuitBreak, Raise
<1>13. ASSUME NEW m \in Model, ConsumerWaits(m) \/ ConsumerCancelled(m) PROVE ConsumerInv'
  BY <1>13 DEF ConsumerWaits, ConsumerCancelled, Consumer
<1>14. ASSUME NEW m \in Model, Take(m) PROVE ConsumerInv'
  BY <1>14 DEF Take, Consumer
<1>15. ASSUME NEW m \in Model, PoleArrive(m) \/ PoleWait(m) \/ PoleDone(m) \/ Processed(m)
      PROVE  ConsumerInv'
  BY <1>15 DEF PoleArrive, PoleWait, PoleDone, Processed, Arrive, Consumer, Pass, PoleSleep,
     Turn, PoleLeave, Record
<1>16. ASSUME NEW m \in Model, ConsumerCancels(m) PROVE ConsumerInv'
  BY <1>16 DEF ConsumerCancels, Consumer
<1>17. ASSUME NEW m \in Model, ProcessFails(m) PROVE ConsumerInv'
  BY <1>17 DEF ProcessFails, Fault, Consumer, Record
<1>18. ASSUME NEW m \in Model, ConsumerDies(m) PROVE ConsumerInv'
  BY <1>18 DEF ConsumerDies, Fault, Consumer
<1> QED
  BY <1>1, <1>2, <1>3, <1>4, <1>5, <1>6, <1>7, <1>8, <1>9, <1>10, <1>11, <1>12, <1>13,
     <1>14, <1>15, <1>16, <1>17, <1>18, ConsumerSteps

\* Every other step leaves errors and interrupts alone.
LEMMA ErrorSteps == ASSUME Next PROVE
    \/ UNCHANGED <<main, frame, error, cancel, consumer, consumerErrors, interrupts>>
    \/ PrepareDone \/ LoadDone \/ BeginFrame \/ ProducerRaises \/ Offload \/ Offloaded
    \/ Collected \/ NextFrame \/ Drained \/ FramesDone \/ StopFails \/ StopDone
    \/ JoinNotices \/ Abort \/ Finalize \/ End \/ Disagree \/ DecodeFails \/ DecodeRaises
    \/ InterruptEarly \/ InterruptProducer \/ WaitInterrupted \/ JoinInterrupted
    \/ FinalizeInterrupted
    \/ \E m \in Model :
          \/ CollectMemoryError(m) \/ CircuitBreak(m) \/ ConsumerWaits(m)
          \/ ConsumerCancelled(m) \/ Take(m) \/ PoleArrive(m) \/ PoleWait(m)
          \/ PoleDone(m) \/ Processed(m) \/ ConsumerCancels(m) \/ PrepareFails(m)
          \/ LoadFails(m) \/ PredictFails(m) \/ ProcessFails(m) \/ ConsumerDies(m)
          \/ PublishRaises(m)
  BY Zenon DEF Next, Threads, Preparing, Producing, Ending, Pooling, Consuming, Errors,
     Interrupts, Prepared, Load, Collect, CollectFailure, Deliver, StopConsumer, Publish,
     WaitForGate, Predict, Downgrade, Enter, Goto, Leave, Record, ReduceToOne, Sleep,
     inferenceGate, poleGate, manifestVars, producerVars, consumerVars, summaryVars, bounds

\* An error that a consumer leaves is taken by the main thread in the step that keeps it, so
\* that from the first error on the run is never clean again, and the producer's loop
\* ends without an error only behind the last frame.
LEMMA ErrorInvKept == ASSUME ErrorInv, ConsumerInv, MainTypes, ThreadTypes, ResultTypes, Next PROVE ErrorInv'
<1> USE DEF ErrorInv, ConsumerInv, MainTypes, ThreadTypes, ResultTypes, MainPlace, Early,
   Mid, Clean
<1>1. CASE UNCHANGED <<main, frame, error, cancel, consumer, consumerErrors, interrupts>>
  BY <1>1
<1>2. CASE PrepareDone \/ LoadDone
  BY <1>2 DEF PrepareDone, LoadDone, Running
<1>3. CASE BeginFrame
  BY <1>3 DEF BeginFrame, Record
<1>4. CASE ProducerRaises \/ Offload \/ Offloaded \/ Collected
  BY <1>4 DEF ProducerRaises, Offload, Offloaded, Collected, Raise, PendingError, Enter,
     Sleep, Leave, Record
<1>5. CASE NextFrame \/ Drained \/ FramesDone
  BY <1>5 DEF NextFrame, Drained, FramesDone
<1>6. CASE StopFails \/ StopDone \/ JoinNotices \/ Abort
  BY <1>6 DEF StopFails, StopDone, JoinNotices, Abort, PendingError, Mark, Joined
<1>7. CASE Finalize \/ End
  BY <1>7 DEF Finalize, End, Joined
<1>8. CASE Disagree
  BY <1>8 DEF Disagree, Mark, Fault, Running
<1>9. CASE DecodeFails
  BY <1>9 DEF DecodeFails, Record, Fault
<1>10. CASE DecodeRaises
  BY <1>10 DEF DecodeRaises, Raise, Fault
<1>11. CASE InterruptEarly \/ InterruptProducer \/ WaitInterrupted \/ JoinInterrupted
  BY <1>11 DEF InterruptEarly, InterruptProducer, WaitInterrupted, JoinInterrupted,
     Interrupt, Mark, Unfinished, Raise, Leave
<1>12. CASE FinalizeInterrupted
  BY <1>12 DEF FinalizeInterrupted, Interrupt, Mark
<1>13. ASSUME NEW m \in Model, CollectMemoryError(m) \/ CircuitBreak(m) PROVE ErrorInv'
  BY <1>13 DEF CollectMemoryError, CircuitBreak, Raise
<1>14. ASSUME NEW m \in Model, ConsumerWaits(m) \/ ConsumerCancelled(m) PROVE ErrorInv'
  BY <1>14 DEF ConsumerWaits, ConsumerCancelled, Consumer
<1>15. ASSUME NEW m \in Model, Take(m) PROVE ErrorInv'
  BY <1>15 DEF Take, Consumer
<1>16. ASSUME NEW m \in Model, PoleArrive(m) \/ PoleWait(m) \/ PoleDone(m) \/ Processed(m)
      PROVE  ErrorInv'
  BY <1>16 DEF PoleArrive, PoleWait, PoleDone, Processed, Arrive, Consumer, Pass, PoleSleep,
     Turn, PoleLeave, Record
<1>17. ASSUME NEW m \in Model, ConsumerCancels(m) PROVE ErrorInv'
  BY <1>17 DEF ConsumerCancels, Consumer
<1>18. ASSUME NEW m \in Model, PrepareFails(m) \/ LoadFails(m) \/ PredictFails(m) \/ ProcessFails(m)
      PROVE  ErrorInv'
  BY <1>18 DEF PrepareFails, LoadFails, PredictFails, ProcessFails, Fault, Running, Leave,
     Goto, Consumer, Record
<1>19. ASSUME NEW m \in Model, ConsumerDies(m) PROVE ErrorInv'
  BY <1>19 DEF ConsumerDies, Fault, Consumer
<1>20. ASSUME NEW m \in Model, PublishRaises(m) PROVE ErrorInv'
  BY <1>20 DEF PublishRaises, Fault
<1> QED
  BY <1>1, <1>2, <1>3, <1>4, <1>5, <1>6, <1>7, <1>8, <1>9, <1>10, <1>11, <1>12, <1>13,
     <1>14, <1>15, <1>16, <1>17, <1>18, <1>19, <1>20, ErrorSteps

\* Every other step leaves the entries alone.
LEMMA EntrySteps == ASSUME Next PROVE
    \/ UNCHANGED <<main, entry, loaded, needed, terminal, error, interrupts>>
    \/ PrepareDone \/ LoadDone \/ BeginFrame \/ ProducerRaises \/ Offload \/ Offloaded
    \/ Collected \/ NextFrame \/ Drained \/ FramesDone \/ StopFails \/ StopDone
    \/ JoinNotices \/ Abort \/ Finalize \/ End \/ Disagree \/ DecodeFails \/ DecodeRaises
    \/ InterruptEarly \/ InterruptProducer \/ WaitInterrupted \/ JoinInterrupted
    \/ FinalizeInterrupted
    \/ \E m \in Model :
          \/ Prepared(m) \/ Load(m) \/ Collect(m) \/ CollectFailure(m)
          \/ CollectMemoryError(m) \/ CircuitBreak(m) \/ StopConsumer(m) \/ Publish(m)
          \/ PrepareFails(m) \/ LoadFails(m) \/ PredictFails(m) \/ ProcessFails(m)
          \/ ConsumerDies(m) \/ PublishRaises(m)
  BY Zenon DEF Next, Threads, Preparing, Producing, Ending, Pooling, Consuming, Errors,
     Interrupts, Deliver, WaitForGate, Predict, Downgrade, ConsumerWaits, ConsumerCancelled,
     Take, PoleArrive, PoleWait, PoleDone, Processed, ConsumerCancels, Arrive, Consumer,
     Enter, Goto, Leave, Pass, PoleLeave, PoleSleep, Record, ReduceToOne, Sleep, Turn,
     inferenceGate, poleGate, manifestVars, producerVars, consumerVars, summaryVars, bounds

\* The entries follow the main thread: each place has the statuses that its models may have.
LEMMA EntryInvKept == ASSUME EntryInv, ErrorInv, MainTypes, ResultTypes, Next PROVE EntryInv'
<1> USE DEF EntryInv, ErrorInv, MainTypes, ResultTypes, EntryStatus, Unfinished, MainPlace,
   Early, Mid
<1>1. CASE UNCHANGED <<main, entry, loaded, needed, terminal, error, interrupts>>
  BY <1>1
<1>2. CASE PrepareDone \/ LoadDone
  BY <1>2 DEF PrepareDone, LoadDone, Running
<1>3. CASE BeginFrame
  BY <1>3 DEF BeginFrame, Record
<1>4. CASE ProducerRaises \/ Offload \/ Offloaded \/ Collected
  BY <1>4 DEF ProducerRaises, Offload, Offloaded, Collected, Raise, PendingError, Enter,
     Sleep, Leave, Record
<1>5. CASE NextFrame \/ Drained \/ FramesDone
  BY <1>5 DEF NextFrame, Drained, FramesDone
<1>6. CASE StopFails \/ StopDone \/ JoinNotices \/ Abort
  BY <1>6 DEF StopFails, StopDone, JoinNotices, Abort, PendingError, Mark, Joined
<1>7. CASE Finalize \/ End
  BY <1>7 DEF Finalize, End, Joined
<1>8. CASE Disagree
  BY <1>8 DEF Disagree, Mark, Fault, Running
<1>9. CASE DecodeFails
  BY <1>9 DEF DecodeFails, Record, Fault
<1>10. CASE DecodeRaises
  BY <1>10 DEF DecodeRaises, Raise, Fault
<1>11. CASE InterruptEarly \/ InterruptProducer \/ WaitInterrupted \/ JoinInterrupted
  BY <1>11 DEF InterruptEarly, InterruptProducer, WaitInterrupted, JoinInterrupted,
     Interrupt, Mark, Unfinished, Raise, Leave
<1>12. CASE FinalizeInterrupted
  BY <1>12 DEF FinalizeInterrupted, Interrupt, Mark
<1>13. ASSUME NEW m \in Model, Prepared(m) \/ Load(m) PROVE EntryInv'
  BY <1>13 DEF Prepared, Load, Running
<1>14. ASSUME NEW m \in Model, Collect(m) \/ CollectFailure(m) \/ CollectMemoryError(m) \/ CircuitBreak(m)
      PROVE  EntryInv'
  BY <1>14 DEF Collect, CollectFailure, CollectMemoryError, CircuitBreak, Record, Raise
<1>15. ASSUME NEW m \in Model, StopConsumer(m) \/ Publish(m) PROVE EntryInv'
  BY <1>15 DEF StopConsumer, Publish
<1>16. ASSUME NEW m \in Model, PrepareFails(m) \/ LoadFails(m) \/ PredictFails(m) \/ ProcessFails(m)
      PROVE  EntryInv'
  BY <1>16 DEF PrepareFails, LoadFails, PredictFails, ProcessFails, Fault, Running, Leave,
     Goto, Consumer, Record
<1>17. ASSUME NEW m \in Model, ConsumerDies(m) PROVE EntryInv'
  BY <1>17 DEF ConsumerDies, Fault, Consumer
<1>18. ASSUME NEW m \in Model, PublishRaises(m) PROVE EntryInv'
  BY <1>18 DEF PublishRaises, Fault
<1> QED
  BY <1>1, <1>2, <1>3, <1>4, <1>5, <1>6, <1>7, <1>8, <1>9, <1>10, <1>11, <1>12, <1>13,
     <1>14, <1>15, <1>16, <1>17, <1>18, EntrySteps

-------------------------------------------------------------------------------
(* The gates *)

\* Every other step leaves the inference gate alone.
LEMMA InferenceSteps == ASSUME Next PROVE
    \/ UNCHANGED <<capacity, active, asleep, future>> /\ (main = "offloading" <=> main' = "offloading")
    \/ BeginFrame \/ Offload \/ Offloaded \/ InterruptProducer \/ Abort
    \/ \E m \in Model :
          \/ Collect(m) \/ CollectFailure(m) \/ CollectMemoryError(m)
          \/ WaitForGate(m) \/ Predict(m) \/ Downgrade(m) \/ PredictFails(m)
  BY Zenon DEF Next, Threads, Preparing, Producing, Ending, Pooling, Consuming, Errors,
     Interrupts, PrepareDone, LoadDone, Prepared, Load, ProducerRaises, Collected,
     NextFrame, Drained, FramesDone, CircuitBreak, Deliver, StopFails, StopDone,
     JoinNotices, Finalize, End, StopConsumer, Publish, ConsumerWaits, ConsumerCancelled,
     Take, PoleArrive, PoleWait, PoleDone, Processed, ConsumerCancels, Disagree,
     DecodeFails, DecodeRaises, PrepareFails, LoadFails, ProcessFails, ConsumerDies,
     PublishRaises, InterruptEarly, WaitInterrupted, JoinInterrupted, FinalizeInterrupted,
     Arrive, Consumer, Fault, Interrupt, Joined, Mark, Pass, PendingError, PoleLeave,
     PoleSleep, Raise, Record, Turn, Unfinished, inferenceGate, poleGate, manifestVars,
     producerVars, consumerVars, summaryVars, bounds

\* Who enters the gate is counted and who leaves it is; the retry after an out-of-memory
\* error enters only when nobody is inside a gate of capacity one, and nobody enters
\* beside it.
LEMMA InferenceKept == ASSUME InferenceTypes, RetryRunsAlone, PredictInv, ThreadTypes, MainTypes, Next PROVE (InferenceTypes /\ RetryRunsAlone)'
<1> USE DEF InferenceTypes, RetryRunsAlone, PredictInv, ThreadTypes, MainTypes, MainPlace,
   FuturePlace, Settled, Early, Mid
<1>1. CASE UNCHANGED <<capacity, active, asleep, future>> /\ (main = "offloading" <=> main' = "offloading")
  <2>1. InSlot' = InSlot
  BY <1>1 DEF InSlot
<2> QED
  BY <1>1, <2>1, Counted
<1>2. CASE BeginFrame
  <2>1. InSlot' = InSlot
    BY <1>2 DEF BeginFrame, InSlot
  <2> QED
    BY <1>2, <2>1, Counted DEF BeginFrame
<1>3. CASE Offload
  <2>1. InSlot' = InSlot
    BY <1>3 DEF Offload, Enter, Sleep, InSlot
  <2> QED
    BY <1>3, <2>1, Counted DEF Offload, Enter, Sleep
<1>4. CASE Offloaded
  <2>1. InSlot' = InSlot
    BY <1>4 DEF Offloaded, Leave, InSlot
  <2>2. \A m \in Model : future[m] = "repredict" => Cardinality(InSlot) >= 1
    <3>1. InSlot \in SUBSET Model /\ \A m \in Model : future[m] = "repredict" => m \in InSlot
      BY DEF InSlot
    <3>2. \A m \in InSlot : Cardinality(InSlot) \in Nat \ {0}
      BY <3>1, OneLess
    <3> QED
      BY <3>1, <3>2
  <2> QED
    BY <1>4, <2>1, Counted, <2>2 DEF Offloaded, Leave
<1>5. CASE InterruptProducer
  <2>1. InSlot' = InSlot
    BY <1>5 DEF InterruptProducer, Interrupt, Raise, Leave, InSlot
  <2>2. \A m \in Model : future[m] = "repredict" => Cardinality(InSlot) >= 1
    <3>1. InSlot \in SUBSET Model /\ \A m \in Model : future[m] = "repredict" => m \in InSlot
      BY DEF InSlot
    <3>2. \A m \in InSlot : Cardinality(InSlot) \in Nat \ {0}
      BY <3>1, OneLess
    <3> QED
      BY <3>1, <3>2
  <2> QED
    BY <1>5, <2>1, Counted, <2>2 DEF InterruptProducer, Interrupt, Raise, Leave
<1>6. CASE Abort
  <2>1. InSlot' = InSlot
    BY <1>6 DEF Abort, Mark, Joined, InSlot
  <2> QED
    BY <1>6, <2>1, Counted DEF Abort, Mark, Joined
<1>7. ASSUME NEW m \in Model, Collect(m) PROVE (InferenceTypes /\ RetryRunsAlone)'
  <2>1. InSlot' = InSlot
    BY <1>7 DEF Collect, InSlot
  <2> QED
    BY <1>7, <2>1, Counted DEF Collect
<1>8. ASSUME NEW m \in Model, CollectFailure(m) PROVE (InferenceTypes /\ RetryRunsAlone)'
  <2>1. InSlot' = InSlot
    BY <1>8 DEF CollectFailure, InSlot
  <2> QED
    BY <1>8, <2>1, Counted DEF CollectFailure
<1>9. ASSUME NEW m \in Model, CollectMemoryError(m)
      PROVE  (InferenceTypes /\ RetryRunsAlone)'
  <2>1. InSlot' = InSlot
    BY <1>9 DEF CollectMemoryError, Raise, InSlot
  <2> QED
    BY <1>9, <2>1, Counted DEF CollectMemoryError, Raise
<1>10. ASSUME NEW m \in Model, WaitForGate(m) PROVE (InferenceTypes /\ RetryRunsAlone)'
  <2>1. CASE Enter(m)
    <3>1. InSlot' = InSlot \cup {m} /\ m \notin InSlot /\ InSlot \in SUBSET Model
      BY <1>10, <2>1 DEF WaitForGate, Enter, Sleep, Goto, InSlot
    <3>2. Cardinality(InSlot') = Cardinality(InSlot) + 1
      BY <3>1, OneMore
    <3> QED
      BY <1>10, <2>1, <3>2, Counted DEF WaitForGate, Enter, Sleep, Goto
  <2>2. CASE Sleep(m)
    <3>1. InSlot' = InSlot
      BY <1>10, <2>2 DEF WaitForGate, Enter, Sleep, InSlot
    <3> QED
      BY <1>10, <2>2, <3>1, Counted DEF WaitForGate, Enter, Sleep
  <2> QED
    BY <1>10, <2>1, <2>2 DEF WaitForGate
<1>11. ASSUME NEW m \in Model, Predict(m) PROVE (InferenceTypes /\ RetryRunsAlone)'
  <2>1. InSlot' = InSlot \ {m} /\ m \in InSlot /\ InSlot \in SUBSET Model
    BY <1>11 DEF Predict, Leave, Goto, InSlot
  <2>2. Cardinality(InSlot') = Cardinality(InSlot) - 1 /\ Cardinality(InSlot) \in Nat \ {0}
    BY <2>1, OneLess
  <2>3. \A k \in Model \ {m} : future[k] = "repredict" => Cardinality(InSlot) # 1
    BY <2>1, OneLess DEF InSlot
  <2> QED
    BY <1>11, <2>2, <2>3 DEF Predict, Leave, Goto
<1>12. ASSUME NEW m \in Model, Downgrade(m) PROVE (InferenceTypes /\ RetryRunsAlone)'
  <2>1. InSlot' = InSlot
    BY <1>12 DEF Downgrade, ReduceToOne, Goto, InSlot
  <2> QED
    BY <1>12, <2>1, Counted DEF Downgrade, ReduceToOne, Goto
<1>13. ASSUME NEW m \in Model, PredictFails(m) PROVE (InferenceTypes /\ RetryRunsAlone)'
  <2>1. InSlot' = InSlot \ {m} /\ m \in InSlot /\ InSlot \in SUBSET Model
    BY <1>13 DEF PredictFails, Leave, Fault, Goto, InSlot
  <2>2. Cardinality(InSlot') = Cardinality(InSlot) - 1 /\ Cardinality(InSlot) \in Nat \ {0}
    BY <2>1, OneLess
  <2>3. \A k \in Model \ {m} : future[k] = "repredict" => Cardinality(InSlot) # 1
    BY <2>1, OneLess DEF InSlot
  <2> QED
    BY <1>13, <2>2, <2>3 DEF PredictFails, Leave, Fault, Goto
<1> QED
  BY <1>1, <1>2, <1>3, <1>4, <1>5, <1>6, <1>7, <1>8, <1>9, <1>10, <1>11, <1>12, <1>13,
     InferenceSteps

\* Every other step leaves the pole gate alone.
LEMMA PoleSteps == ASSUME Next PROVE
    \/ UNCHANGED <<waiters, poleActive, poleAsleep, consumer>>
    \/ LoadDone
    \/ \E m \in Model :
          \/ ConsumerWaits(m) \/ ConsumerCancelled(m) \/ Take(m) \/ PoleArrive(m)
          \/ PoleWait(m) \/ PoleDone(m) \/ Processed(m) \/ ConsumerCancels(m)
          \/ ProcessFails(m) \/ ConsumerDies(m)
  BY Zenon DEF Next, Threads, Preparing, Producing, Ending, Pooling, Consuming, Errors,
     Interrupts, PrepareDone, Prepared, Load, BeginFrame, ProducerRaises, Offload,
     Offloaded, Collected, NextFrame, Drained, FramesDone, Collect, CollectFailure,
     CollectMemoryError, CircuitBreak, Deliver, StopFails, StopDone, JoinNotices, Abort,
     Finalize, End, StopConsumer, Publish, WaitForGate, Predict, Downgrade, Disagree,
     DecodeFails, DecodeRaises, PrepareFails, LoadFails, PredictFails, PublishRaises,
     InterruptEarly, InterruptProducer, WaitInterrupted, JoinInterrupted,
     FinalizeInterrupted, Enter, Fault, Goto, Interrupt, Joined, Leave, Mark, PendingError,
     Raise, Record, ReduceToOne, Sleep, Unfinished, inferenceGate, poleGate, manifestVars,
     producerVars, consumerVars, summaryVars, bounds

\* The consumers that wait at the pole gate are in its list once each, in the order of their
\* arrival, and those inside are counted.
LEMMA PoleKept == ASSUME PoleInv, ConsumerInv, ThreadTypes, MainTypes, Next PROVE PoleInv'
<1> USE DEF PoleInv, PoleTypes, ConsumerInv, ThreadTypes, MainTypes, ConsumerPlace
<1>1. CASE UNCHANGED <<waiters, poleActive, poleAsleep, consumer>>
  <2>1. InPole' = InPole /\ Queueing' = Queueing
    BY <1>1 DEF InPole, Queueing
  <2> QED
    BY <1>1, <2>1
<1>2. CASE LoadDone
  <2>1. InPole' = InPole /\ Queueing' = Queueing
    BY <1>2 DEF LoadDone, InPole, Queueing
  <2> QED
    BY <1>2, <2>1 DEF LoadDone
<1>3. ASSUME NEW m \in Model, ConsumerWaits(m) PROVE PoleInv'
  <2>1. InPole' = InPole /\ Queueing' = Queueing
    BY <1>3 DEF ConsumerWaits, Consumer, InPole, Queueing
  <2> QED
    BY <1>3, <2>1 DEF ConsumerWaits, Consumer
<1>4. ASSUME NEW m \in Model, ConsumerCancelled(m) PROVE PoleInv'
  <2>1. InPole' = InPole /\ Queueing' = Queueing
    BY <1>4 DEF ConsumerCancelled, Consumer, InPole, Queueing
  <2> QED
    BY <1>4, <2>1 DEF ConsumerCancelled, Consumer
<1>5. ASSUME NEW m \in Model, Take(m) PROVE PoleInv'
  <2>1. InPole' = InPole /\ Queueing' = Queueing
    BY <1>5 DEF Take, Consumer, InPole, Queueing
  <2> QED
    BY <1>5, <2>1 DEF Take, Consumer
<1>6. ASSUME NEW m \in Model, PoleArrive(m) PROVE PoleInv'
  <2>1. InPole' = InPole /\ Queueing' = Queueing \cup {m} /\ m \notin Queueing
    BY <1>6 DEF PoleArrive, Consumer, InPole, Queueing
  <2>2. waiters' \in Seq(Model) /\ Items(waiters') = Items(waiters) \cup {m} /\ Once(waiters')
    BY <1>6, <2>1, Appended DEF PoleArrive, Arrive
  <2> QED
    BY <1>6, <2>1, <2>2 DEF PoleArrive, Arrive
<1>7. ASSUME NEW m \in Model, PoleWait(m) PROVE PoleInv'
  <2>1. CASE Pass(m)
    <3>1. waiters # <<>>
      BY <1>7 DEF PoleWait, Queueing, Items
    <3>2. InPole' = InPole \cup {m} /\ m \notin InPole /\ Queueing' = Queueing \ {m}
      BY <1>7, <2>1 DEF PoleWait, Pass, PoleSleep, Turn, Consumer, InPole, Queueing
    <3>3. Cardinality(InPole') = Cardinality(InPole) + 1
      <4>1. InPole \in SUBSET Model
        BY DEF InPole
      <4> QED
        BY <3>2, <4>1, OneMore
    <3>4. waiters' \in Seq(Model) /\ Once(waiters') /\ Items(waiters') = Items(waiters) \ {m}
      BY <2>1, <3>1, Removed DEF Pass, Turn
    <3> QED
      BY <1>7, <2>1, <3>2, <3>3, <3>4, Counted DEF PoleWait, Pass, Turn
  <2>2. CASE PoleSleep(m)
    <3>1. InPole' = InPole /\ Queueing' = Queueing
      BY <1>7, <2>2 DEF PoleWait, Pass, PoleSleep, Turn, InPole, Queueing
    <3> QED
      BY <1>7, <2>2, <3>1 DEF PoleWait, PoleSleep
  <2> QED
    BY <1>7, <2>1, <2>2 DEF PoleWait
<1>8. ASSUME NEW m \in Model, PoleDone(m) PROVE PoleInv'
  <2>1. InPole' = InPole \ {m} /\ m \in InPole /\ InPole \in SUBSET Model /\ Queueing' = Queueing
    BY <1>8 DEF PoleDone, Consumer, InPole, Queueing
  <2>2. Cardinality(InPole') = Cardinality(InPole) - 1 /\ Cardinality(InPole) \in Nat \ {0}
    BY <2>1, OneLess
  <2> QED
    BY <1>8, <2>1, <2>2 DEF PoleDone, PoleLeave
<1>9. ASSUME NEW m \in Model, Processed(m) PROVE PoleInv'
  <2>1. InPole' = InPole /\ Queueing' = Queueing
    BY <1>9 DEF Processed, Consumer, Record, InPole, Queueing
  <2> QED
    BY <1>9, <2>1 DEF Processed, Consumer, Record
<1>10. ASSUME NEW m \in Model, ConsumerCancels(m) PROVE PoleInv'
  <2>1. InPole' = InPole /\ Queueing' = Queueing
    BY <1>10 DEF ConsumerCancels, Consumer, InPole, Queueing
  <2> QED
    BY <1>10, <2>1 DEF ConsumerCancels, Consumer
<1>11. ASSUME NEW m \in Model, ProcessFails(m) PROVE PoleInv'
  <2>1. InPole' = InPole /\ Queueing' = Queueing
    BY <1>11 DEF ProcessFails, Fault, Consumer, Record, InPole, Queueing
  <2> QED
    BY <1>11, <2>1 DEF ProcessFails, Fault, Consumer, Record
<1>12. ASSUME NEW m \in Model, ConsumerDies(m) PROVE PoleInv'
  <2>1. InPole' = InPole /\ Queueing' = Queueing
    BY <1>12 DEF ConsumerDies, Fault, Consumer, InPole, Queueing
  <2> QED
    BY <1>12, <2>1 DEF ConsumerDies, Fault, Consumer
<1> QED
  BY <1>1, <1>2, <1>3, <1>4, <1>5, <1>6, <1>7, <1>8, <1>9, <1>10, <1>11, <1>12,
     PoleSteps

-------------------------------------------------------------------------------
(* Queues and frames *)

\* Every other step leaves queues and jobs alone.
LEMMA QueueSteps == ASSUME Next PROVE
    \/ UNCHANGED <<main, needed, work, consumer, job>>
    \/ PrepareDone \/ LoadDone \/ BeginFrame \/ ProducerRaises \/ Offload \/ Offloaded
    \/ Collected \/ NextFrame \/ Drained \/ FramesDone \/ StopFails \/ StopDone \/ Abort
    \/ Finalize \/ End \/ Disagree \/ DecodeRaises \/ InterruptEarly \/ InterruptProducer
    \/ WaitInterrupted \/ JoinInterrupted \/ FinalizeInterrupted
    \/ \E m \in Model :
          \/ Collect(m) \/ CollectFailure(m) \/ CollectMemoryError(m)
          \/ CircuitBreak(m) \/ Deliver(m) \/ StopConsumer(m) \/ Publish(m)
          \/ ConsumerWaits(m) \/ ConsumerCancelled(m) \/ Take(m) \/ PoleArrive(m)
          \/ PoleWait(m) \/ PoleDone(m) \/ Processed(m) \/ ConsumerCancels(m)
          \/ ProcessFails(m) \/ ConsumerDies(m) \/ PublishRaises(m)
  BY Zenon DEF Next, Threads, Preparing, Producing, Ending, Pooling, Consuming, Errors,
     Interrupts, Prepared, Load, JoinNotices, WaitForGate, Predict, Downgrade, DecodeFails,
     PrepareFails, LoadFails, PredictFails, Enter, Fault, Goto, Leave, PendingError, Record,
     ReduceToOne, Sleep, inferenceGate, poleGate, manifestVars, producerVars, consumerVars,
     summaryVars, bounds

\* The frame that goes into a queue was due, so it is neither in the queue nor in the
\* consumer's hands; the stop token goes in once, last, when no frame follows.
LEMMA QueueInvKept == ASSUME QueueInv, OncePlaced, PlaceInv, WorkTypes, ThreadTypes, MainTypes, Next PROVE QueueInv'
<1> USE DEF QueueInv, WorkTypes, ThreadTypes, MainTypes, MainPlace, ConsumerPlace, Busy,
   Stop, Frame, Past
<1>h. OncePlaced
  OBVIOUS
<1>1. CASE UNCHANGED <<main, needed, work, consumer, job>>
  BY <1>1
<1>2. CASE PrepareDone
  BY <1>2 DEF PrepareDone, Running
<1>3. CASE LoadDone
  BY <1>3 DEF LoadDone, Running
<1>4. CASE BeginFrame
  BY <1>4 DEF BeginFrame, Record
<1>5. CASE ProducerRaises
  BY <1>5 DEF ProducerRaises, Raise, PendingError
<1>6. CASE Offload
  BY <1>6 DEF Offload, Enter, Sleep
<1>7. CASE Offloaded
  BY <1>7 DEF Offloaded, Leave, Record
<1>8. CASE Collected
  BY <1>8 DEF Collected
<1>9. CASE NextFrame
  BY <1>9 DEF NextFrame
<1>10. CASE Drained
  BY <1>10 DEF Drained
<1>11. CASE FramesDone
  BY <1>11 DEF FramesDone
<1>12. CASE StopFails
  BY <1>12 DEF StopFails, PendingError
<1>13. CASE StopDone
  BY <1>13 DEF StopDone
<1>14. CASE Abort
  BY <1>14 DEF Abort, Mark, Joined
<1>15. CASE Finalize
  BY <1>15 DEF Finalize, Joined
<1>16. CASE End
  BY <1>16 DEF End
<1>17. CASE Disagree
  BY <1>17 DEF Disagree, Mark, Fault, Running
<1>18. CASE DecodeRaises
  BY <1>18 DEF DecodeRaises, Raise, Fault
<1>19. CASE InterruptEarly
  BY <1>19 DEF InterruptEarly, Interrupt, Mark, Unfinished
<1>20. CASE InterruptProducer
  BY <1>20 DEF InterruptProducer, Interrupt, Raise, Leave
<1>21. CASE WaitInterrupted
  BY <1>21 DEF WaitInterrupted, Interrupt
<1>22. CASE JoinInterrupted
  BY <1>22 DEF JoinInterrupted, Interrupt, Mark, Unfinished
<1>23. CASE FinalizeInterrupted
  BY <1>23 DEF FinalizeInterrupted, Interrupt, Mark
<1>24. ASSUME NEW m \in Model, Collect(m) PROVE QueueInv'
  BY <1>24 DEF Collect
<1>25. ASSUME NEW m \in Model, CollectFailure(m) PROVE QueueInv'
  BY <1>25 DEF CollectFailure, Record
<1>26. ASSUME NEW m \in Model, CollectMemoryError(m) PROVE QueueInv'
  BY <1>26 DEF CollectMemoryError, Raise
<1>27. ASSUME NEW m \in Model, CircuitBreak(m) PROVE QueueInv'
  BY <1>27 DEF CircuitBreak
<1>28. ASSUME NEW m \in Model, Deliver(m) PROVE QueueInv'
  <2>1. frame \in Frame /\ Due(m, frame)
    BY <1>28 DEF Deliver, Due, PlaceInv, Mid, Frame
  <2>2. frame \notin Items(work[m]) /\ ~(Busy(m) /\ job[m] = frame)
    BY <2>1, <1>h DEF OncePlaced, Held
  <2>3. /\ work[m] \in Seq(Frame \cup {Stop})
        /\ work' = [work EXCEPT ![m] = Append(work[m], frame)] /\ work'[m] = Append(work[m], frame)
    BY <1>28 DEF Deliver
  <2>4. /\ Items(work'[m]) = Items(work[m]) \cup {frame} /\ Once(work'[m])
        /\ \A i \in DOMAIN work'[m] : (i \in DOMAIN work[m] /\ work'[m][i] = work[m][i]) \/ work'[m][i] = frame
    BY <2>1, <2>2, <2>3, Appended
  <2>5. \A i \in DOMAIN work[m] : work[m][i] # Stop
    BY <1>28 DEF Deliver, Past
  <2>6. frame # Stop
    BY <2>1
  <2> QED
    BY <1>28, <2>2, <2>3, <2>4, <2>5, <2>6 DEF Deliver
<1>29. ASSUME NEW m \in Model, StopConsumer(m) PROVE QueueInv'
  <2>1. \A i \in DOMAIN work[m] : work[m][i] # Stop
    BY <1>29 DEF StopConsumer
  <2>2. Stop \notin Items(work[m])
    BY <2>1 DEF Items
  <2>3. /\ work[m] \in Seq(Frame \cup {Stop})
        /\ work' = [work EXCEPT ![m] = Append(work[m], Stop)] /\ work'[m] = Append(work[m], Stop)
    BY <1>29 DEF StopConsumer
  <2>4. /\ Items(work'[m]) = Items(work[m]) \cup {Stop} /\ Once(work'[m])
        /\ \A i \in DOMAIN work'[m] : (i \in DOMAIN work[m] /\ work'[m][i] = work[m][i]) \/ i = Len(work'[m])
    BY <2>2, <2>3, Appended
  <2> QED
    BY <1>29, <2>1, <2>3, <2>4 DEF StopConsumer, Past
<1>30. ASSUME NEW m \in Model, Publish(m) PROVE QueueInv'
  BY <1>30 DEF Publish
<1>31. ASSUME NEW m \in Model, ConsumerWaits(m) PROVE QueueInv'
  BY <1>31 DEF ConsumerWaits, Consumer
<1>32. ASSUME NEW m \in Model, ConsumerCancelled(m) PROVE QueueInv'
  BY <1>32 DEF ConsumerCancelled, Consumer
<1>33. ASSUME NEW m \in Model, Take(m) PROVE QueueInv'
  <2>1. work[m] \in Seq(Frame \cup {Stop}) /\ work[m] # <<>> /\ work'[m] = Tail(work[m])
    BY <1>33 DEF Take
  <2>2. /\ Once(work'[m]) /\ Head(work[m]) \notin Items(work'[m]) /\ Head(work[m]) \in Frame \cup {Stop}
        /\ Items(work'[m]) \subseteq Items(work[m]) /\ Len(work'[m]) = Len(work[m]) - 1
        /\ Len(work[m]) \in Nat
        /\ \A i \in DOMAIN work'[m] : work'[m][i] = work[m][i + 1] /\ i + 1 \in DOMAIN work[m] /\ i \in Nat
    <3>1. work'[m] \in Seq(Frame \cup {Stop})
      BY <2>1, Removed
    <3>2. \A i \in DOMAIN work'[m] : i \in Nat
      BY <3>1
    <3> QED
      BY <2>1, <3>2, Removed
  <2>3. job' = [job EXCEPT ![m] = Head(work[m])] /\ work' = [work EXCEPT ![m] = Tail(work[m])]
    BY <1>33 DEF Take
  <2>4. \A k \in Model \ {m} : work'[k] = work[k] /\ job'[k] = job[k] /\ consumer'[k] = consumer[k]
    BY <1>33, <2>3 DEF Take, Consumer
  <2>5. consumer'[m] = (IF Head(work[m]) = Stop THEN "ended" ELSE "work") /\ job'[m] = Head(work[m])
    BY <1>33, <2>3 DEF Take, Consumer
  <2>6. main' = main /\ needed' = needed
    BY <1>33 DEF Take
  <2> QED
    BY <2>2, <2>4, <2>5, <2>6
<1>34. ASSUME NEW m \in Model, PoleArrive(m) PROVE QueueInv'
  BY <1>34 DEF PoleArrive, Arrive, Consumer
<1>35. ASSUME NEW m \in Model, PoleWait(m) PROVE QueueInv'
  BY <1>35 DEF PoleWait, Pass, PoleSleep, Turn, Consumer
<1>36. ASSUME NEW m \in Model, PoleDone(m) PROVE QueueInv'
  BY <1>36 DEF PoleDone, PoleLeave, Consumer
<1>37. ASSUME NEW m \in Model, Processed(m) PROVE QueueInv'
  BY <1>37 DEF Processed, Consumer, Record
<1>38. ASSUME NEW m \in Model, ConsumerCancels(m) PROVE QueueInv'
  BY <1>38 DEF ConsumerCancels, Consumer
<1>39. ASSUME NEW m \in Model, ProcessFails(m) PROVE QueueInv'
  BY <1>39 DEF ProcessFails, Fault, Consumer, Record
<1>40. ASSUME NEW m \in Model, ConsumerDies(m) PROVE QueueInv'
  BY <1>40 DEF ConsumerDies, Fault, Consumer
<1>41. ASSUME NEW m \in Model, PublishRaises(m) PROVE QueueInv'
  BY <1>41 DEF PublishRaises, Fault
<1> QED
  BY <1>1, <1>2, <1>3, <1>4, <1>5, <1>6, <1>7, <1>8, <1>9, <1>10, <1>11, <1>12, <1>13,
     <1>14, <1>15, <1>16, <1>17, <1>18, <1>19, <1>20, <1>21, <1>22, <1>23, <1>24, <1>25,
     <1>26, <1>27, <1>28, <1>29, <1>30, <1>31, <1>32, <1>33, <1>34, <1>35, <1>36, <1>37,
     <1>38, <1>39, <1>40, <1>41, QueueSteps

\* Every other step leaves the end of consumers alone.
LEMMA EmptySteps == ASSUME Next PROVE
    \/ UNCHANGED <<main, needed, loaded, work, consumer, error, consumerErrors>>
    \/ PrepareDone \/ LoadDone \/ BeginFrame \/ ProducerRaises \/ Offload \/ Offloaded
    \/ Collected \/ NextFrame \/ Drained \/ FramesDone \/ StopFails \/ StopDone
    \/ JoinNotices \/ Abort \/ Finalize \/ End \/ Disagree \/ DecodeRaises \/ InterruptEarly
    \/ InterruptProducer \/ WaitInterrupted \/ JoinInterrupted \/ FinalizeInterrupted
    \/ \E m \in Model :
          \/ Load(m) \/ Collect(m) \/ CollectFailure(m) \/ CollectMemoryError(m)
          \/ CircuitBreak(m) \/ Deliver(m) \/ StopConsumer(m) \/ Publish(m)
          \/ ConsumerWaits(m) \/ ConsumerCancelled(m) \/ Take(m) \/ PoleArrive(m)
          \/ PoleWait(m) \/ PoleDone(m) \/ Processed(m) \/ ConsumerCancels(m)
          \/ ProcessFails(m) \/ ConsumerDies(m) \/ PublishRaises(m)
  BY Zenon DEF Next, Threads, Preparing, Producing, Ending, Pooling, Consuming, Errors,
     Interrupts, Prepared, WaitForGate, Predict, Downgrade, DecodeFails, PrepareFails,
     LoadFails, PredictFails, Enter, Fault, Goto, Leave, Record, ReduceToOne, Sleep,
     inferenceGate, poleGate, manifestVars, producerVars, consumerVars, summaryVars, bounds

\* A consumer ends by the stop token, the last of its queue, or because of an error.
LEMMA EmptiedInvKept == ASSUME EmptiedInv, QueueInv, ErrorInv, ConsumerInv, PlaceInv, WorkTypes, ThreadTypes, MainTypes, Next PROVE EmptiedInv'
<1> USE DEF EmptiedInv, ErrorInv, ConsumerInv, PlaceInv, WorkTypes, ThreadTypes, MainTypes,
   MainPlace, ConsumerPlace, Clean, Past, Early, Mid
<1>1. CASE UNCHANGED <<main, needed, loaded, work, consumer, error, consumerErrors>>
  BY <1>1
<1>2. CASE PrepareDone \/ LoadDone
  BY <1>2 DEF PrepareDone, LoadDone, Running
<1>3. CASE BeginFrame
  BY <1>3 DEF BeginFrame, Record
<1>4. CASE ProducerRaises \/ Offload
  BY <1>4 DEF ProducerRaises, Offload, Raise, PendingError, Enter, Sleep
<1>5. CASE Offloaded \/ Collected
  BY <1>5 DEF Offloaded, Collected, Leave, Record
<1>6. CASE NextFrame \/ Drained
  BY <1>6 DEF NextFrame, Drained
<1>7. CASE FramesDone
  BY <1>7 DEF FramesDone
<1>8. CASE StopFails \/ StopDone
  BY <1>8 DEF StopFails, StopDone, PendingError
<1>9. CASE JoinNotices \/ Abort
  BY <1>9 DEF JoinNotices, Abort, PendingError, Mark, Joined
<1>10. CASE Finalize \/ End
  BY <1>10 DEF Finalize, End, Joined
<1>11. CASE Disagree \/ DecodeRaises
  BY <1>11 DEF Disagree, DecodeRaises, Mark, Fault, Running, Raise
<1>12. CASE InterruptEarly \/ InterruptProducer
  BY <1>12 DEF InterruptEarly, InterruptProducer, Interrupt, Mark, Unfinished, Raise, Leave
<1>13. CASE WaitInterrupted \/ JoinInterrupted
  BY <1>13 DEF WaitInterrupted, JoinInterrupted, Interrupt, Mark, Unfinished
<1>14. CASE FinalizeInterrupted
  BY <1>14 DEF FinalizeInterrupted, Interrupt, Mark
<1>15. ASSUME NEW m \in Model, Load(m) PROVE EmptiedInv'
  BY <1>15 DEF Load, Running
<1>16. ASSUME NEW m \in Model, Collect(m) \/ CollectFailure(m) PROVE EmptiedInv'
  BY <1>16 DEF Collect, CollectFailure, Record
<1>17. ASSUME NEW m \in Model, CollectMemoryError(m) \/ CircuitBreak(m) PROVE EmptiedInv'
  BY <1>17 DEF CollectMemoryError, CircuitBreak, Raise
<1>18. ASSUME NEW m \in Model, Deliver(m) PROVE EmptiedInv'
  BY <1>18 DEF Deliver
<1>19. ASSUME NEW m \in Model, StopConsumer(m) \/ Publish(m) PROVE EmptiedInv'
  BY <1>19 DEF StopConsumer, Publish
<1>20. ASSUME NEW m \in Model, ConsumerWaits(m) \/ ConsumerCancelled(m) PROVE EmptiedInv'
  BY <1>20 DEF ConsumerWaits, ConsumerCancelled, Consumer
<1>21. ASSUME NEW m \in Model, Take(m) PROVE EmptiedInv'
  <2>1. work[m] \in Seq(Frame \cup {Stop}) /\ work[m] # <<>> /\ work'[m] = Tail(work[m])
    BY <1>21 DEF Take, WorkTypes
  <2>2. CASE Head(work[m]) = Stop
    <3>1. Head(work[m]) = work[m][1] /\ 1 \in DOMAIN work[m]
      BY <2>1, Removed
    <3>2. Len(work[m]) = 1 /\ main \in Past /\ ~(main = "stop" /\ m \in needed)
      BY <2>2, <3>1 DEF QueueInv
    <3>3. work'[m] = <<>>
      BY <2>1, <3>2, Removed, EmptySeq
    <3> QED
      BY <1>21, <3>2, <3>3 DEF Take, Consumer
  <2>3. CASE Head(work[m]) # Stop
    BY <1>21, <2>3 DEF Take, Consumer
  <2> QED
    BY <2>2, <2>3
<1>22. ASSUME NEW m \in Model, PoleArrive(m) \/ PoleWait(m) PROVE EmptiedInv'
  BY <1>22 DEF PoleArrive, PoleWait, Arrive, Consumer, Pass, PoleSleep, Turn
<1>23. ASSUME NEW m \in Model, PoleDone(m) \/ Processed(m) PROVE EmptiedInv'
  BY <1>23 DEF PoleDone, Processed, PoleLeave, Consumer, Record
<1>24. ASSUME NEW m \in Model, ConsumerCancels(m) PROVE EmptiedInv'
  BY <1>24 DEF ConsumerCancels, Consumer
<1>25. ASSUME NEW m \in Model, ProcessFails(m) PROVE EmptiedInv'
  BY <1>25 DEF ProcessFails, Fault, Consumer, Record
<1>26. ASSUME NEW m \in Model, ConsumerDies(m) PROVE EmptiedInv'
  BY <1>26 DEF ConsumerDies, Fault, Consumer
<1>27. ASSUME NEW m \in Model, PublishRaises(m) PROVE EmptiedInv'
  BY <1>27 DEF PublishRaises, Fault
<1> QED
  BY <1>1, <1>2, <1>3, <1>4, <1>5, <1>6, <1>7, <1>8, <1>9, <1>10, <1>11, <1>12, <1>13,
     <1>14, <1>15, <1>16, <1>17, <1>18, <1>19, <1>20, <1>21, <1>22, <1>23, <1>24, <1>25,
     <1>26, <1>27, EmptySteps

\* Every other step leaves the places of frames alone.
LEMMA PlacedSteps == ASSUME Next PROVE
    \/ UNCHANGED <<main, frame, needed, jobs, work, consumer, job, recorded>>
    \/ PrepareDone \/ LoadDone \/ BeginFrame \/ ProducerRaises \/ Offload \/ Offloaded
    \/ Collected \/ NextFrame \/ Drained \/ FramesDone \/ StopFails \/ StopDone \/ Abort
    \/ Finalize \/ End \/ Disagree \/ DecodeFails \/ DecodeRaises \/ InterruptEarly
    \/ InterruptProducer \/ WaitInterrupted \/ JoinInterrupted \/ FinalizeInterrupted
    \/ \E m \in Model :
          \/ Collect(m) \/ CollectFailure(m) \/ CollectMemoryError(m)
          \/ CircuitBreak(m) \/ Deliver(m) \/ StopConsumer(m) \/ Publish(m)
          \/ ConsumerWaits(m) \/ ConsumerCancelled(m) \/ Take(m) \/ PoleArrive(m)
          \/ PoleWait(m) \/ PoleDone(m) \/ Processed(m) \/ ConsumerCancels(m)
          \/ ProcessFails(m) \/ ConsumerDies(m) \/ PublishRaises(m)
  BY Zenon DEF Next, Threads, Preparing, Producing, Ending, Pooling, Consuming, Errors,
     Interrupts, Prepared, Load, JoinNotices, WaitForGate, Predict, Downgrade, PrepareFails,
     LoadFails, PredictFails, Enter, Fault, Goto, Leave, PendingError, ReduceToOne, Sleep,
     inferenceGate, poleGate, manifestVars, producerVars, consumerVars, summaryVars, bounds

\* A frame goes from due to the queue, to the consumer's hands and to the results, or from
\* due to the results, and leaves the one place when it gets to the other.
LEMMA OncePlacedKept == ASSUME OncePlaced, QueueInv, PredictInv, PlaceInv, WorkTypes, ThreadTypes, MainTypes, ResultTypes, Next PROVE OncePlaced'
<1> USE DEF OncePlaced, PlaceInv, WorkTypes, ThreadTypes, MainTypes, MainPlace,
   ConsumerPlace, ResultTypes, Due, Held, Busy, Early, Mid, Frame
<1>1. CASE UNCHANGED <<main, frame, needed, jobs, work, consumer, job, recorded>>
  BY <1>1
<1>2. CASE PrepareDone
  BY <1>2 DEF PrepareDone, Running
<1>3. CASE LoadDone
  BY <1>3 DEF LoadDone, Running
<1>4. CASE BeginFrame
  BY <1>4 DEF BeginFrame, Record
<1>5. CASE ProducerRaises
  BY <1>5 DEF ProducerRaises, Raise, PendingError
<1>6. CASE Offload
  BY <1>6 DEF Offload, Enter, Sleep
<1>7. CASE Offloaded
  BY <1>7 DEF Offloaded, Leave, Record
<1>8. CASE Collected
  BY <1>8 DEF Collected
<1>9. CASE NextFrame
  BY <1>9 DEF NextFrame
<1>10. CASE Drained
  BY <1>10 DEF Drained
<1>11. CASE FramesDone
  BY <1>11 DEF FramesDone
<1>12. CASE StopFails
  BY <1>12 DEF StopFails, PendingError
<1>13. CASE StopDone
  BY <1>13 DEF StopDone
<1>14. CASE Abort
  BY <1>14 DEF Abort, Mark, Joined
<1>15. CASE Finalize
  BY <1>15 DEF Finalize, Joined
<1>16. CASE End
  BY <1>16 DEF End
<1>17. CASE Disagree
  BY <1>17 DEF Disagree, Mark, Fault, Running
<1>18. CASE DecodeFails
  BY <1>18 DEF DecodeFails, Record, Fault
<1>19. CASE DecodeRaises
  BY <1>19 DEF DecodeRaises, Raise, Fault
<1>20. CASE InterruptEarly
  BY <1>20 DEF InterruptEarly, Interrupt, Mark, Unfinished
<1>21. CASE InterruptProducer
  BY <1>21 DEF InterruptProducer, Interrupt, Raise, Leave
<1>22. CASE WaitInterrupted
  BY <1>22 DEF WaitInterrupted, Interrupt
<1>23. CASE JoinInterrupted
  BY <1>23 DEF JoinInterrupted, Interrupt, Mark, Unfinished
<1>24. CASE FinalizeInterrupted
  BY <1>24 DEF FinalizeInterrupted, Interrupt, Mark
<1>25. ASSUME NEW m \in Model, Collect(m) PROVE OncePlaced'
  BY <1>25 DEF Collect
<1>26. ASSUME NEW m \in Model, CollectFailure(m) PROVE OncePlaced'
  BY <1>26 DEF CollectFailure, Record
<1>27. ASSUME NEW m \in Model, CollectMemoryError(m) PROVE OncePlaced'
  BY <1>27 DEF CollectMemoryError, Raise
<1>28. ASSUME NEW m \in Model, CircuitBreak(m) PROVE OncePlaced'
  BY <1>28 DEF CircuitBreak
<1>29. ASSUME NEW m \in Model, Deliver(m) PROVE OncePlaced'
  <2>1. frame \in Frame /\ Due(m, frame)
    BY <1>29 DEF Deliver
  <2>2. Items(work'[m]) = Items(work[m]) \cup {frame} /\ \A k \in Model \ {m} : work'[k] = work[k]
    BY <1>29, <2>1, Queued DEF Deliver
  <2>3. \A k \in Model, f \in Frame : Due(k, f)' => Due(k, f) /\ ~(k = m /\ f = frame)
    BY <1>29 DEF Deliver
  <2>4. \A k \in Model, f \in Frame : Held(k, f)' => Held(k, f) \/ (k = m /\ f = frame)
    BY <1>29, <2>2 DEF Deliver
  <2> HIDE DEF Due, Held
  <2> QED
    BY <1>29, <2>1, <2>3, <2>4 DEF Deliver
<1>30. ASSUME NEW m \in Model, StopConsumer(m) PROVE OncePlaced'
  <2>1. Stop \in Frame \cup {Stop} /\ work' = [work EXCEPT ![m] = Append(@, Stop)]
    BY <1>30 DEF StopConsumer, Stop
  <2>2. Items(work'[m]) = Items(work[m]) \cup {Stop} /\ \A k \in Model \ {m} : work'[k] = work[k]
    BY <2>1, Queued
  <2> QED
    BY <1>30, <2>2 DEF StopConsumer, Stop
<1>31. ASSUME NEW m \in Model, Publish(m) PROVE OncePlaced'
  BY <1>31 DEF Publish
<1>32. ASSUME NEW m \in Model, ConsumerWaits(m) PROVE OncePlaced'
  BY <1>32 DEF ConsumerWaits, Consumer
<1>33. ASSUME NEW m \in Model, ConsumerCancelled(m) PROVE OncePlaced'
  BY <1>33 DEF ConsumerCancelled, Consumer
<1>34. ASSUME NEW m \in Model, Take(m) PROVE OncePlaced'
  <2>1. Items(work[m]) = Items(work'[m]) \cup {Head(work[m])} /\ Head(work[m]) \notin Items(work'[m])
    BY <1>34, Dequeued DEF Take, QueueInv
  <2>2. \A k \in Model \ {m} : work'[k] = work[k]
    BY <1>34 DEF Take
  <2>3. \A k \in Model, f \in Frame : Due(k, f)' <=> Due(k, f)
    BY <1>34 DEF Take
  <2>4. \A k \in Model, f \in Frame : Held(k, f)' => Held(k, f)
    BY <1>34, <2>1, <2>2 DEF Take, Consumer
  <2> HIDE DEF Due, Held
  <2> QED
    BY <1>34, <2>3, <2>4 DEF Take
<1>35. ASSUME NEW m \in Model, PoleArrive(m) PROVE OncePlaced'
  BY <1>35 DEF PoleArrive, Arrive, Consumer
<1>36. ASSUME NEW m \in Model, PoleWait(m) PROVE OncePlaced'
  BY <1>36 DEF PoleWait, Pass, PoleSleep, Turn, Consumer
<1>37. ASSUME NEW m \in Model, PoleDone(m) PROVE OncePlaced'
  BY <1>37 DEF PoleDone, PoleLeave, Consumer
<1>38. ASSUME NEW m \in Model, Processed(m) PROVE OncePlaced'
  <2>1. job[m] \in Frame /\ job[m] \notin Items(work[m]) /\ Held(m, job[m])
    BY <1>38 DEF QueueInv, Processed, Consumer, Record
  <2>2. recorded[m][job[m]] = 0 /\ ~Due(m, job[m])
    BY <2>1
  <2>3. \A k \in Model, f \in Frame :
          recorded'[k][f] = IF f = job[m] /\ k = m THEN 1 ELSE recorded[k][f]
    BY <1>38, <2>2 DEF Processed, Consumer, Record
  <2>4. \A k \in Model, f \in Frame : Due(k, f)' <=> Due(k, f)
    BY <1>38 DEF Processed, Consumer, Record
  <2>5. \A k \in Model, f \in Frame : Held(k, f)' => Held(k, f) /\ ~(k = m /\ f = job[m])
    BY <1>38, <2>1 DEF Processed, Consumer, Record
  <2> HIDE DEF Due, Held
  <2>6. ASSUME NEW k \in Model, NEW f \in Frame, k = m, f = job[m]
        PROVE  (recorded[k][f] <= 1)' /\ ~Due(k, f)' /\ ~Held(k, f)'
    BY <2>2, <2>3, <2>4, <2>5, <2>6
  <2>7. ASSUME NEW k \in Model, NEW f \in Frame, ~(k = m /\ f = job[m])
        PROVE  /\ (recorded[k][f] <= 1)' /\ (Due(k, f)' => (recorded[k][f] = 0)' /\ ~Held(k, f)')
               /\ (Held(k, f)' => (recorded[k][f] = 0)')
    BY <2>3, <2>4, <2>5, <2>7
  <2> QED
    BY <2>6, <2>7
<1>39. ASSUME NEW m \in Model, ConsumerCancels(m) PROVE OncePlaced'
  BY <1>39 DEF ConsumerCancels, Consumer
<1>40. ASSUME NEW m \in Model, ProcessFails(m) PROVE OncePlaced'
  <2>1. job[m] \in Frame /\ job[m] \notin Items(work[m]) /\ Held(m, job[m])
    BY <1>40 DEF QueueInv, ProcessFails, Fault, Consumer, Record
  <2>2. recorded[m][job[m]] = 0 /\ ~Due(m, job[m])
    BY <2>1
  <2>3. \A k \in Model, f \in Frame :
          recorded'[k][f] = IF f = job[m] /\ k = m THEN 1 ELSE recorded[k][f]
    BY <1>40, <2>2 DEF ProcessFails, Fault, Consumer, Record
  <2>4. \A k \in Model, f \in Frame : Due(k, f)' <=> Due(k, f)
    BY <1>40 DEF ProcessFails, Fault, Consumer, Record
  <2>5. \A k \in Model, f \in Frame : Held(k, f)' => Held(k, f) /\ ~(k = m /\ f = job[m])
    BY <1>40, <2>1 DEF ProcessFails, Fault, Consumer, Record
  <2> HIDE DEF Due, Held
  <2>6. ASSUME NEW k \in Model, NEW f \in Frame, k = m, f = job[m]
        PROVE  (recorded[k][f] <= 1)' /\ ~Due(k, f)' /\ ~Held(k, f)'
    BY <2>2, <2>3, <2>4, <2>5, <2>6
  <2>7. ASSUME NEW k \in Model, NEW f \in Frame, ~(k = m /\ f = job[m])
        PROVE  /\ (recorded[k][f] <= 1)' /\ (Due(k, f)' => (recorded[k][f] = 0)' /\ ~Held(k, f)')
               /\ (Held(k, f)' => (recorded[k][f] = 0)')
    BY <2>3, <2>4, <2>5, <2>7
  <2> QED
    BY <2>6, <2>7
<1>41. ASSUME NEW m \in Model, ConsumerDies(m) PROVE OncePlaced'
  BY <1>41 DEF ConsumerDies, Fault, Consumer
<1>42. ASSUME NEW m \in Model, PublishRaises(m) PROVE OncePlaced'
  BY <1>42 DEF PublishRaises, Fault
<1> QED
  BY <1>1, <1>2, <1>3, <1>4, <1>5, <1>6, <1>7, <1>8, <1>9, <1>10, <1>11, <1>12, <1>13,
     <1>14, <1>15, <1>16, <1>17, <1>18, <1>19, <1>20, <1>21, <1>22, <1>23, <1>24, <1>25,
     <1>26, <1>27, <1>28, <1>29, <1>30, <1>31, <1>32, <1>33, <1>34, <1>35, <1>36, <1>37,
     <1>38, <1>39, <1>40, <1>41, <1>42, PlacedSteps

\* Every other step leaves frames or errors alone.
LEMMA LossSteps == ASSUME Next PROVE
    \/ UNCHANGED <<main, frame, loaded, needed, jobs, error, terminal, work, consumer, consumerErrors, job, recorded>>
    \/ PrepareDone \/ LoadDone \/ BeginFrame \/ ProducerRaises \/ Offload \/ Offloaded
    \/ Collected \/ NextFrame \/ Drained \/ FramesDone \/ StopFails \/ StopDone
    \/ JoinNotices \/ Abort \/ Finalize \/ End \/ Disagree \/ DecodeFails \/ DecodeRaises
    \/ InterruptEarly \/ InterruptProducer \/ WaitInterrupted \/ JoinInterrupted
    \/ FinalizeInterrupted
    \/ \E m \in Model :
          \/ Load(m) \/ Collect(m) \/ CollectFailure(m) \/ CollectMemoryError(m)
          \/ CircuitBreak(m) \/ Deliver(m) \/ StopConsumer(m) \/ Publish(m)
          \/ ConsumerWaits(m) \/ ConsumerCancelled(m) \/ Take(m) \/ PoleArrive(m)
          \/ PoleWait(m) \/ PoleDone(m) \/ Processed(m) \/ ConsumerCancels(m)
          \/ ProcessFails(m) \/ ConsumerDies(m) \/ PublishRaises(m)
  BY Zenon DEF Next, Threads, Preparing, Producing, Ending, Pooling, Consuming, Errors,
     Interrupts, Prepared, WaitForGate, Predict, Downgrade, PrepareFails, LoadFails,
     PredictFails, Enter, Fault, Goto, Leave, ReduceToOne, Sleep, inferenceGate, poleGate,
     manifestVars, producerVars, consumerVars, summaryVars, bounds

\* Without an error each step that takes a frame from one place puts it into the next.
LEMMA NoneLostKept == ASSUME NoneLost, OncePlaced, QueueInv, ErrorInv, EntryInv, PlaceInv, WorkTypes, ThreadTypes, MainTypes, ResultTypes, Next PROVE NoneLost'
<1> USE DEF NoneLost, PlaceInv, ErrorInv, WorkTypes, ThreadTypes, MainTypes, MainPlace,
   ConsumerPlace, ResultTypes, Early, Mid, Frame
<1>1. CASE UNCHANGED <<main, frame, loaded, needed, jobs, error, terminal, work, consumer, consumerErrors, job, recorded>>
  BY <1>1 DEF Due, Held, Busy, Clean, Over
<1>2. CASE PrepareDone
  BY <1>2 DEF PrepareDone, Running, Due, Held, Busy, Clean, Over
<1>3. CASE LoadDone
  BY <1>3 DEF LoadDone, Running, Due, Held, Busy, Clean, Over
<1>4. CASE BeginFrame
  <2>0. PICK existing \in SUBSET (loaded \ terminal) :
          /\ Record(existing, frame) /\ needed' = (loaded \ terminal) \ existing
          /\ main' = IF (loaded \ terminal) \ existing = {} THEN "frame" ELSE "collect"
          /\ frame' = IF (loaded \ terminal) \ existing = {} THEN frame + 1 ELSE frame
    BY <1>4 DEF BeginFrame

  <2>1. existing \in SUBSET Model /\ frame \in Frame /\ \A k \in existing : Due(k, frame) \/ Held(k, frame)
    BY <1>4, <2>0 DEF BeginFrame, QueueInv, Due, Held, Busy
  <2>2. \A k \in existing : recorded[k][frame] = 0
    BY <2>1 DEF OncePlaced
  <2>3. \A k \in Model, f \in Frame :
          recorded'[k][f] = IF k \in existing /\ f = frame THEN 1 ELSE recorded[k][f]
    BY <2>0, <2>1, <2>2 DEF Record
  <2>4. \A k \in loaded \ terminal, f \in Frame : Due(k, f) => Due(k, f)' \/ (k \in existing /\ f = frame)
    <3>1. CASE (loaded \ terminal) \ existing = {}
      BY <1>4, <2>0, <3>1 DEF BeginFrame, Due
    <3>2. CASE (loaded \ terminal) \ existing # {}
      BY <1>4, <2>0, <3>2 DEF BeginFrame, Due
    <3> QED
      BY <3>1, <3>2
  <2>5. \A k \in Model, f \in Frame : Held(k, f) => Held(k, f)' \/ (k \in existing /\ f = frame)
    BY <1>4, <2>0 DEF BeginFrame, Held, Busy
  <2>6. (~Over' => ~Over) /\ (Clean' => Clean) /\ UNCHANGED <<loaded, terminal>>
    BY <1>4 DEF BeginFrame, Over, Clean
  <2>7. ASSUME NEW k \in Model, NEW f \in Frame, Clean', k \in (loaded \ terminal)', ~Over'
        PROVE  Due(k, f)' \/ Held(k, f)' \/ recorded'[k][f] = 1
    <3>1. Due(k, f) \/ Held(k, f) \/ recorded[k][f] = 1
      BY <2>6, <2>7
    <3>2. CASE k \in existing /\ f = frame
      BY <2>3, <3>2
    <3>3. CASE ~(k \in existing /\ f = frame)
      <4>1. recorded'[k][f] = recorded[k][f]
        BY <2>3, <3>3
      <4>2. (Due(k, f) => Due(k, f)') /\ (Held(k, f) => Held(k, f)')
        BY <2>4, <2>5, <2>6, <2>7, <3>3
      <4> QED
        BY <3>1, <4>1, <4>2
    <3> QED
      BY <3>2, <3>3
  <2> QED
    BY <2>7
<1>5. CASE ProducerRaises
  BY <1>5 DEF ProducerRaises, Raise, PendingError, Due, Held, Busy, Clean, Over
<1>6. CASE Offload
  BY <1>6 DEF Offload, Enter, Sleep, Due, Held, Busy, Clean, Over
<1>7. CASE Offloaded
  BY <1>7 DEF Offloaded, Leave, Record, Due, Held, Busy, Clean, Over
<1>8. CASE Collected
  BY <1>8 DEF Collected, Due, Held, Busy, Clean, Over
<1>9. CASE NextFrame
  BY <1>9 DEF NextFrame, Due, Held, Busy, Clean, Over
<1>10. CASE Drained
  BY <1>10 DEF Drained, Due, Held, Busy, Clean, Over
<1>11. CASE FramesDone
  BY <1>11 DEF FramesDone, Due, Held, Busy, Clean, Over
<1>12. CASE StopFails
  BY <1>12 DEF StopFails, PendingError, Due, Held, Busy, Clean, Over
<1>13. CASE StopDone
  BY <1>13 DEF StopDone, Due, Held, Busy, Clean, Over
<1>14. CASE JoinNotices
  BY <1>14 DEF JoinNotices, PendingError, Due, Held, Busy, Clean, Over
<1>15. CASE Abort
  BY <1>15 DEF Abort, Mark, Joined, Due, Held, Busy, Clean, Over
<1>16. CASE Finalize
  BY <1>16 DEF Finalize, Joined, Due, Held, Busy, Clean, Over
<1>17. CASE End
  BY <1>17 DEF End, Due, Held, Busy, Clean, Over
<1>18. CASE Disagree
  BY <1>18 DEF Disagree, Mark, Fault, Running, Due, Held, Busy, Clean, Over
<1>19. CASE DecodeFails
  <2>0. Record(loaded \ terminal, frame)
    BY <1>19 DEF DecodeFails
  <2>1. (loaded \ terminal) \in SUBSET Model /\ frame \in Frame /\ \A k \in (loaded \ terminal) : Due(k, frame) \/ Held(k, frame)
    BY <1>19, <2>0 DEF DecodeFails, Fault, QueueInv, Due, Held, Busy
  <2>2. \A k \in (loaded \ terminal) : recorded[k][frame] = 0
    BY <2>1 DEF OncePlaced
  <2>3. \A k \in Model, f \in Frame :
          recorded'[k][f] = IF k \in (loaded \ terminal) /\ f = frame THEN 1 ELSE recorded[k][f]
    BY <2>0, <2>1, <2>2 DEF Record
  <2>4. \A k \in loaded \ terminal, f \in Frame : Due(k, f) => Due(k, f)' \/ (k \in (loaded \ terminal) /\ f = frame)
    BY <1>19, <2>0 DEF DecodeFails, Fault, Due
  <2>5. \A k \in Model, f \in Frame : Held(k, f) => Held(k, f)' \/ (k \in (loaded \ terminal) /\ f = frame)
    BY <1>19, <2>0 DEF DecodeFails, Fault, Held, Busy
  <2>6. (~Over' => ~Over) /\ (Clean' => Clean) /\ UNCHANGED <<loaded, terminal>>
    BY <1>19 DEF DecodeFails, Fault, Over, Clean
  <2>7. ASSUME NEW k \in Model, NEW f \in Frame, Clean', k \in (loaded \ terminal)', ~Over'
        PROVE  Due(k, f)' \/ Held(k, f)' \/ recorded'[k][f] = 1
    <3>1. Due(k, f) \/ Held(k, f) \/ recorded[k][f] = 1
      BY <2>6, <2>7
    <3>2. CASE k \in (loaded \ terminal) /\ f = frame
      BY <2>3, <3>2
    <3>3. CASE ~(k \in (loaded \ terminal) /\ f = frame)
      <4>1. recorded'[k][f] = recorded[k][f]
        BY <2>3, <3>3
      <4>2. (Due(k, f) => Due(k, f)') /\ (Held(k, f) => Held(k, f)')
        BY <2>4, <2>5, <2>6, <2>7, <3>3
      <4> QED
        BY <3>1, <4>1, <4>2
    <3> QED
      BY <3>2, <3>3
  <2> QED
    BY <2>7
<1>20. CASE DecodeRaises
  BY <1>20 DEF DecodeRaises, Raise, Fault, Due, Held, Busy, Clean, Over
<1>21. CASE InterruptEarly
  BY <1>21 DEF InterruptEarly, Interrupt, Mark, Unfinished, Due, Held, Busy, Clean, Over
<1>22. CASE InterruptProducer
  BY <1>22 DEF InterruptProducer, Interrupt, Raise, Leave, Due, Held, Busy, Clean, Over
<1>23. CASE WaitInterrupted
  BY <1>23 DEF WaitInterrupted, Interrupt, Due, Held, Busy, Clean, Over
<1>24. CASE JoinInterrupted
  BY <1>24 DEF JoinInterrupted, Interrupt, Mark, Unfinished, Due, Held, Busy, Clean, Over
<1>25. CASE FinalizeInterrupted
  BY <1>25 DEF FinalizeInterrupted, Interrupt, Mark, Due, Held, Busy, Clean, Over
<1>26. ASSUME NEW m \in Model, Load(m) PROVE NoneLost'
  BY <1>26 DEF Load, Running, Due, Held, Busy, Clean, Over
<1>27. ASSUME NEW m \in Model, Collect(m) PROVE NoneLost'
  BY <1>27 DEF Collect, Due, Held, Busy, Clean, Over
<1>28. ASSUME NEW m \in Model, CollectFailure(m) PROVE NoneLost'
  <2>0. Record({m}, frame)
    BY <1>28 DEF CollectFailure
  <2>1. {m} \in SUBSET Model /\ frame \in Frame /\ \A k \in {m} : Due(k, frame) \/ Held(k, frame)
    BY <1>28, <2>0 DEF CollectFailure, QueueInv, Due, Held, Busy
  <2>2. \A k \in {m} : recorded[k][frame] = 0
    BY <2>1 DEF OncePlaced
  <2>3. \A k \in Model, f \in Frame :
          recorded'[k][f] = IF k \in {m} /\ f = frame THEN 1 ELSE recorded[k][f]
    BY <2>0, <2>1, <2>2 DEF Record
  <2>4. \A k \in loaded \ terminal, f \in Frame : Due(k, f) => Due(k, f)' \/ (k \in {m} /\ f = frame)
    BY <1>28, <2>0 DEF CollectFailure, Due
  <2>5. \A k \in Model, f \in Frame : Held(k, f) => Held(k, f)' \/ (k \in {m} /\ f = frame)
    BY <1>28, <2>0 DEF CollectFailure, Held, Busy
  <2>6. (~Over' => ~Over) /\ (Clean' => Clean) /\ UNCHANGED <<loaded, terminal>>
    BY <1>28 DEF CollectFailure, Over, Clean
  <2>7. ASSUME NEW k \in Model, NEW f \in Frame, Clean', k \in (loaded \ terminal)', ~Over'
        PROVE  Due(k, f)' \/ Held(k, f)' \/ recorded'[k][f] = 1
    <3>1. Due(k, f) \/ Held(k, f) \/ recorded[k][f] = 1
      BY <2>6, <2>7
    <3>2. CASE k \in {m} /\ f = frame
      BY <2>3, <3>2
    <3>3. CASE ~(k \in {m} /\ f = frame)
      <4>1. recorded'[k][f] = recorded[k][f]
        BY <2>3, <3>3
      <4>2. (Due(k, f) => Due(k, f)') /\ (Held(k, f) => Held(k, f)')
        BY <2>4, <2>5, <2>6, <2>7, <3>3
      <4> QED
        BY <3>1, <4>1, <4>2
    <3> QED
      BY <3>2, <3>3
  <2> QED
    BY <2>7
<1>29. ASSUME NEW m \in Model, CollectMemoryError(m) PROVE NoneLost'
  BY <1>29 DEF CollectMemoryError, Raise, Due, Held, Busy, Clean, Over
<1>30. ASSUME NEW m \in Model, CircuitBreak(m) PROVE NoneLost'
  BY <1>30 DEF CircuitBreak, Due, Held, Busy, Clean, Over
<1>31. ASSUME NEW m \in Model, Deliver(m) PROVE NoneLost'
  <2>1. frame \in Frame
    BY <1>31 DEF Deliver
  <2>2. Items(work'[m]) = Items(work[m]) \cup {frame} /\ \A k \in Model \ {m} : work'[k] = work[k]
    BY <1>31, <2>1, Queued DEF Deliver
  <2>3. \A k \in Model, f \in Frame : Due(k, f) => Due(k, f)' \/ Held(k, f)'
    BY <1>31, <2>2 DEF Deliver, Due, Held, Busy
  <2>4. \A k \in Model, f \in Frame : Held(k, f) => Held(k, f)'
    BY <1>31, <2>2 DEF Deliver, Due, Held, Busy
  <2> QED
    BY <1>31, <2>3, <2>4 DEF Deliver, Over, Clean
<1>32. ASSUME NEW m \in Model, StopConsumer(m) PROVE NoneLost'
  <2>1. Items(work'[m]) = Items(work[m]) \cup {Stop} /\ \A k \in Model \ {m} : work'[k] = work[k]
    BY <1>32, Queued DEF StopConsumer
  <2>2. \A k \in Model, f \in Frame : (Due(k, f) => Due(k, f)') /\ (Held(k, f) => Held(k, f)')
    BY <1>32, <2>1 DEF StopConsumer, Due, Held, Busy
  <2> QED
    BY <1>32, <2>2 DEF StopConsumer, Over, Clean
<1>33. ASSUME NEW m \in Model, Publish(m) PROVE NoneLost'
  BY <1>33 DEF Publish, Due, Held, Busy, Clean, Over
<1>34. ASSUME NEW m \in Model, ConsumerWaits(m) PROVE NoneLost'
  BY <1>34 DEF ConsumerWaits, Consumer, Due, Held, Busy, Clean, Over
<1>35. ASSUME NEW m \in Model, ConsumerCancelled(m) PROVE NoneLost'
  BY <1>35 DEF ConsumerCancelled, Consumer, Due, Held, Busy, Clean, Over
<1>36. ASSUME NEW m \in Model, Take(m) PROVE NoneLost'
  <2>1. Items(work[m]) = Items(work'[m]) \cup {Head(work[m])}
    BY <1>36, Dequeued DEF Take, QueueInv
  <2>2. \A k \in Model \ {m} : work'[k] = work[k]
    BY <1>36 DEF Take
  <2>3. \A k \in Model, f \in Frame : Due(k, f) => Due(k, f)'
    BY <1>36 DEF Take, Due, Held, Busy
  <2>4. \A k \in Model, f \in Frame : Held(k, f) => Held(k, f)'
    BY <1>36, <2>1, <2>2 DEF Take, Consumer, Stop, Due, Held, Busy
  <2> QED
    BY <1>36, <2>3, <2>4 DEF Take, Over, Clean
<1>37. ASSUME NEW m \in Model, PoleArrive(m) PROVE NoneLost'
  BY <1>37 DEF PoleArrive, Arrive, Consumer, Due, Held, Busy, Clean, Over
<1>38. ASSUME NEW m \in Model, PoleWait(m) PROVE NoneLost'
  BY <1>38 DEF PoleWait, Pass, PoleSleep, Turn, Consumer, Due, Held, Busy, Clean, Over
<1>39. ASSUME NEW m \in Model, PoleDone(m) PROVE NoneLost'
  BY <1>39 DEF PoleDone, PoleLeave, Consumer, Due, Held, Busy, Clean, Over
<1>40. ASSUME NEW m \in Model, Processed(m) PROVE NoneLost'
  <2>0. Record({m}, job[m])
    BY <1>40 DEF Processed
  <2>1. {m} \in SUBSET Model /\ job[m] \in Frame /\ \A k \in {m} : Due(k, job[m]) \/ Held(k, job[m])
    BY <1>40, <2>0 DEF Processed, Consumer, QueueInv, Due, Held, Busy
  <2>2. \A k \in {m} : recorded[k][job[m]] = 0
    BY <2>1 DEF OncePlaced
  <2>3. \A k \in Model, f \in Frame :
          recorded'[k][f] = IF k \in {m} /\ f = job[m] THEN 1 ELSE recorded[k][f]
    BY <2>0, <2>1, <2>2 DEF Record
  <2>4. \A k \in loaded \ terminal, f \in Frame : Due(k, f) => Due(k, f)' \/ (k \in {m} /\ f = job[m])
    BY <1>40, <2>0 DEF Processed, Consumer, Due
  <2>5. \A k \in Model, f \in Frame : Held(k, f) => Held(k, f)' \/ (k \in {m} /\ f = job[m])
    BY <1>40, <2>0 DEF Processed, Consumer, Held, Busy
  <2>6. (~Over' => ~Over) /\ (Clean' => Clean) /\ UNCHANGED <<loaded, terminal>>
    BY <1>40 DEF Processed, Consumer, Over, Clean
  <2>7. ASSUME NEW k \in Model, NEW f \in Frame, Clean', k \in (loaded \ terminal)', ~Over'
        PROVE  Due(k, f)' \/ Held(k, f)' \/ recorded'[k][f] = 1
    <3>1. Due(k, f) \/ Held(k, f) \/ recorded[k][f] = 1
      BY <2>6, <2>7
    <3>2. CASE k \in {m} /\ f = job[m]
      BY <2>3, <3>2
    <3>3. CASE ~(k \in {m} /\ f = job[m])
      <4>1. recorded'[k][f] = recorded[k][f]
        BY <2>3, <3>3
      <4>2. (Due(k, f) => Due(k, f)') /\ (Held(k, f) => Held(k, f)')
        BY <2>4, <2>5, <2>6, <2>7, <3>3
      <4> QED
        BY <3>1, <4>1, <4>2
    <3> QED
      BY <3>2, <3>3
  <2> QED
    BY <2>7
<1>41. ASSUME NEW m \in Model, ConsumerCancels(m) PROVE NoneLost'
  BY <1>41 DEF ConsumerCancels, Consumer, Due, Held, Busy, Clean, Over
<1>42. ASSUME NEW m \in Model, ProcessFails(m) PROVE NoneLost'
  <2>0. Record({m}, job[m])
    BY <1>42 DEF ProcessFails
  <2>1. {m} \in SUBSET Model /\ job[m] \in Frame /\ \A k \in {m} : Due(k, job[m]) \/ Held(k, job[m])
    BY <1>42, <2>0 DEF ProcessFails, Fault, Consumer, QueueInv, Due, Held, Busy
  <2>2. \A k \in {m} : recorded[k][job[m]] = 0
    BY <2>1 DEF OncePlaced
  <2>3. \A k \in Model, f \in Frame :
          recorded'[k][f] = IF k \in {m} /\ f = job[m] THEN 1 ELSE recorded[k][f]
    BY <2>0, <2>1, <2>2 DEF Record
  <2>4. \A k \in loaded \ terminal, f \in Frame : Due(k, f) => Due(k, f)' \/ (k \in {m} /\ f = job[m])
    BY <1>42, <2>0 DEF ProcessFails, Fault, Consumer, Due
  <2>5. \A k \in Model, f \in Frame : Held(k, f) => Held(k, f)' \/ (k \in {m} /\ f = job[m])
    BY <1>42, <2>0 DEF ProcessFails, Fault, Consumer, Held, Busy
  <2>6. (~Over' => ~Over) /\ (Clean' => Clean) /\ UNCHANGED <<loaded, terminal>>
    BY <1>42 DEF ProcessFails, Fault, Consumer, Over, Clean
  <2>7. ASSUME NEW k \in Model, NEW f \in Frame, Clean', k \in (loaded \ terminal)', ~Over'
        PROVE  Due(k, f)' \/ Held(k, f)' \/ recorded'[k][f] = 1
    <3>1. Due(k, f) \/ Held(k, f) \/ recorded[k][f] = 1
      BY <2>6, <2>7
    <3>2. CASE k \in {m} /\ f = job[m]
      BY <2>3, <3>2
    <3>3. CASE ~(k \in {m} /\ f = job[m])
      <4>1. recorded'[k][f] = recorded[k][f]
        BY <2>3, <3>3
      <4>2. (Due(k, f) => Due(k, f)') /\ (Held(k, f) => Held(k, f)')
        BY <2>4, <2>5, <2>6, <2>7, <3>3
      <4> QED
        BY <3>1, <4>1, <4>2
    <3> QED
      BY <3>2, <3>3
  <2> QED
    BY <2>7
<1>43. ASSUME NEW m \in Model, ConsumerDies(m) PROVE NoneLost'
  BY <1>43 DEF ConsumerDies, Fault, Consumer, Due, Held, Busy, Clean, Over
<1>44. ASSUME NEW m \in Model, PublishRaises(m) PROVE NoneLost'
  BY <1>44 DEF PublishRaises, Fault, Due, Held, Busy, Clean, Over
<1> QED
  BY <1>1, <1>2, <1>3, <1>4, <1>5, <1>6, <1>7, <1>8, <1>9, <1>10, <1>11, <1>12, <1>13,
     <1>14, <1>15, <1>16, <1>17, <1>18, <1>19, <1>20, <1>21, <1>22, <1>23, <1>24, <1>25,
     <1>26, <1>27, <1>28, <1>29, <1>30, <1>31, <1>32, <1>33, <1>34, <1>35, <1>36, <1>37,
     <1>38, <1>39, <1>40, <1>41, <1>42, <1>43, <1>44, LossSteps

\* Every other step leaves what is published alone.
LEMMA PublishSteps == ASSUME Next PROVE
    \/ UNCHANGED <<main, entry, loaded, terminal, failures, consumer, recorded>>
    \/ PrepareDone \/ LoadDone \/ BeginFrame \/ ProducerRaises \/ Offload \/ Offloaded
    \/ Collected \/ NextFrame \/ Drained \/ FramesDone \/ StopFails \/ StopDone \/ Abort
    \/ Finalize \/ End \/ Disagree \/ DecodeFails \/ DecodeRaises \/ InterruptEarly
    \/ InterruptProducer \/ WaitInterrupted \/ JoinInterrupted \/ FinalizeInterrupted
    \/ \E m \in Model :
          \/ Prepared(m) \/ Load(m) \/ CollectFailure(m) \/ CollectMemoryError(m)
          \/ CircuitBreak(m) \/ Publish(m) \/ ConsumerWaits(m) \/ ConsumerCancelled(m)
          \/ Take(m) \/ PoleArrive(m) \/ PoleWait(m) \/ PoleDone(m) \/ Processed(m)
          \/ ConsumerCancels(m) \/ PrepareFails(m) \/ LoadFails(m) \/ ProcessFails(m)
          \/ ConsumerDies(m) \/ PublishRaises(m)
  BY Zenon DEF Next, Threads, Preparing, Producing, Ending, Pooling, Consuming, Errors,
     Interrupts, Collect, Deliver, JoinNotices, StopConsumer, WaitForGate, Predict,
     Downgrade, PredictFails, Enter, Fault, Goto, Leave, PendingError, ReduceToOne, Sleep,
     inferenceGate, poleGate, manifestVars, producerVars, consumerVars, summaryVars, bounds

\* A model is published at the end of the run, when no frame is due, its consumer has ended
\* with an empty queue, and so every frame is recorded; nothing that could record again
\* is left.
LEMMA PublishedInvKept == ASSUME IndInv, Next PROVE PublishedInv'
<1> USE DEF PublishedInv, ErrorInv, EntryInv, ConsumerInv, MainTypes, ThreadTypes,
   ResultTypes, MainPlace, EntryStatus, Unfinished, Early, Mid
<1>h. PublishedInv /\ EntryInv /\ ErrorInv /\ ConsumerInv /\ MainTypes /\ ThreadTypes /\ ResultTypes
  BY DEF IndInv, Types
<1>1. CASE UNCHANGED <<main, entry, loaded, terminal, failures, consumer, recorded>>
  BY <1>1, <1>h
<1>2. CASE PrepareDone \/ LoadDone
  BY <1>2, <1>h DEF PrepareDone, LoadDone, Running
<1>3. CASE BeginFrame
  BY <1>3, <1>h DEF BeginFrame, Record
<1>4. CASE ProducerRaises \/ Offload \/ Offloaded \/ Collected
  BY <1>4, <1>h DEF ProducerRaises, Offload, Offloaded, Collected, Raise, PendingError,
     Enter, Sleep, Leave, Record
<1>5. CASE NextFrame \/ Drained \/ FramesDone
  BY <1>5, <1>h DEF NextFrame, Drained, FramesDone
<1>6. CASE StopFails \/ StopDone \/ Abort \/ Finalize
  BY <1>6, <1>h DEF StopFails, StopDone, Abort, Finalize, PendingError, Mark, Joined
<1>7. CASE End
  BY <1>7, <1>h DEF End
<1>8. CASE Disagree
  BY <1>8, <1>h DEF Disagree, Mark, Fault, Running
<1>9. CASE DecodeFails
  BY <1>9, <1>h DEF DecodeFails, Record, Fault
<1>10. CASE DecodeRaises
  BY <1>10, <1>h DEF DecodeRaises, Raise, Fault
<1>11. CASE InterruptEarly \/ InterruptProducer \/ WaitInterrupted \/ JoinInterrupted
  BY <1>11, <1>h DEF InterruptEarly, InterruptProducer, WaitInterrupted, JoinInterrupted,
     Interrupt, Mark, Unfinished, Raise, Leave
<1>12. CASE FinalizeInterrupted
  BY <1>12, <1>h DEF FinalizeInterrupted, Interrupt, Mark
<1>13. ASSUME NEW m \in Model, Prepared(m) \/ Load(m) PROVE PublishedInv'
  BY <1>13, <1>h DEF Prepared, Load, Running
<1>14. ASSUME NEW m \in Model, CollectFailure(m) \/ CollectMemoryError(m) \/ CircuitBreak(m)
      PROVE  PublishedInv'
  BY <1>14, <1>h DEF CollectFailure, CollectMemoryError, CircuitBreak, Record, Raise
<1>15. ASSUME NEW m \in Model, Publish(m) PROVE PublishedInv'
  <2>1. ASSUME NEW f \in Frame, m \notin failures PROVE recorded[m][f] = 1
    <3>1. Clean /\ m \in loaded \ terminal /\ consumer[m] = "ended" /\ frame > Frames /\ ~Over
      BY <1>15, <1>h DEF Publish, Clean, Over
    <3>2. ~Due(m, f)
      BY <1>15, <3>1, <1>h DEF Due, Publish, Frame
    <3>3. ~Held(m, f)
      BY <3>1, <1>h DEF IndInv, EmptiedInv, Held, Busy, Items
    <3> QED
      BY <3>1, <3>2, <3>3 DEF IndInv, NoneLost
  <2> QED
    BY <1>15, <2>1, <1>h DEF Publish
<1>16. ASSUME NEW m \in Model, ConsumerWaits(m) \/ ConsumerCancelled(m) PROVE PublishedInv'
  BY <1>16, <1>h DEF ConsumerWaits, ConsumerCancelled, Consumer
<1>17. ASSUME NEW m \in Model, Take(m) PROVE PublishedInv'
  BY <1>17, <1>h DEF Take, Consumer
<1>18. ASSUME NEW m \in Model, PoleArrive(m) \/ PoleWait(m) \/ PoleDone(m) \/ Processed(m)
      PROVE  PublishedInv'
  BY <1>18, <1>h DEF PoleArrive, PoleWait, PoleDone, Processed, Arrive, Consumer, Pass,
     PoleSleep, Turn, PoleLeave, Record
<1>19. ASSUME NEW m \in Model, ConsumerCancels(m) PROVE PublishedInv'
  BY <1>19, <1>h DEF ConsumerCancels, Consumer
<1>20. ASSUME NEW m \in Model, PrepareFails(m) \/ LoadFails(m) \/ ProcessFails(m)
      PROVE  PublishedInv'
  BY <1>20, <1>h DEF PrepareFails, LoadFails, ProcessFails, Fault, Running, Consumer, Record
<1>21. ASSUME NEW m \in Model, ConsumerDies(m) PROVE PublishedInv'
  BY <1>21, <1>h DEF ConsumerDies, Fault, Consumer
<1>22. ASSUME NEW m \in Model, PublishRaises(m) PROVE PublishedInv'
  BY <1>22, <1>h DEF PublishRaises, Fault
<1> QED
  BY <1>1, <1>2, <1>3, <1>4, <1>5, <1>6, <1>7, <1>8, <1>9, <1>10, <1>11, <1>12, <1>13,
     <1>14, <1>15, <1>16, <1>17, <1>18, <1>19, <1>20, <1>21, <1>22, PublishSteps

-------------------------------------------------------------------------------
(* The theorems *)

\* The initial state: nothing is open, and every frame is due.
LEMMA InitHolds == PipelineInit => IndInv
<1> SUFFICES ASSUME PipelineInit PROVE IndInv
  OBVIOUS
<1> USE DEF PipelineInit, GatesInit
<1>1. Types
  <2>1. InferenceTypes /\ PoleTypes
    BY DEF InferenceTypes, PoleTypes
  <2>2. MainTypes
    BY DEF MainTypes, MainPlace
  <2>5. ThreadTypes
    BY DEF ThreadTypes, FuturePlace, ConsumerPlace, Stop
  <2>3. WorkTypes
    BY EmptySeq DEF WorkTypes
  <2>4. ResultTypes
    BY DEF ResultTypes, EntryStatus, Unfinished
  <2> QED
    BY <2>1, <2>2, <2>3, <2>4, <2>5 DEF Types
<1>2. InSlot = {} /\ InPole = {} /\ Queueing = {} /\ Cardinality({}) = 0
  BY FS_EmptySet DEF InSlot, InPole, Queueing
<1>3. RetryRunsAlone /\ PoleInv
  BY <1>1, <1>2 DEF RetryRunsAlone, PoleInv, Types, Items, Once
<1>4. PredictInv /\ PlaceInv /\ ConsumerInv /\ ErrorInv
  BY DEF PredictInv, PlaceInv, ConsumerInv, ErrorInv, Early, Mid, Clean
<1>5. EntryInv /\ PublishedInv
  BY DEF EntryInv, PublishedInv, Unfinished, Mid
<1>6. QueueInv /\ EmptiedInv
  BY DEF QueueInv, EmptiedInv, Busy, Once, Items
<1>7. OncePlaced
  BY DEF OncePlaced, Held, Busy, Items, Frame
<1>8. NoneLost
  BY DEF NoneLost, Frame
<1> QED
  BY <1>1, <1>3, <1>4, <1>5, <1>6, <1>7, <1>8 DEF IndInv

\* Every step keeps the invariant.
LEMMA StepKeeps == ASSUME IndInv, Next PROVE IndInv'
<1> USE DEF IndInv, Types
<1>1. Types'
  BY MainTypesKept, ThreadTypesKept, WorkTypesKept, ResultTypesKept, InferenceKept, PoleKept
     DEF PoleInv
<1>2. RetryRunsAlone' /\ PoleInv'
  BY InferenceKept, PoleKept
<1>3. PredictInv' /\ PlaceInv' /\ ConsumerInv' /\ ErrorInv' /\ EntryInv'
  BY PredictInvKept, PlaceInvKept, ConsumerInvKept, ErrorInvKept, EntryInvKept
<1>4. PublishedInv'
  BY PublishedInvKept
<1>5. QueueInv' /\ EmptiedInv' /\ OncePlaced' /\ NoneLost'
  BY QueueInvKept, EmptiedInvKept, OncePlacedKept, NoneLostKept
<1> QED
  BY <1>1, <1>2, <1>3, <1>4, <1>5

\* A step that changes nothing the invariant speaks of keeps it.
LEMMA StutterKeeps == ASSUME IndInv, UNCHANGED vars PROVE IndInv'
<1> USE DEF vars
<1>1. Types'
  BY DEF IndInv, Types, InferenceTypes, PoleTypes, MainTypes, ThreadTypes, WorkTypes, ResultTypes
<1>2. RetryRunsAlone' /\ PoleInv'
  BY DEF IndInv, RetryRunsAlone, PoleInv, PoleTypes, InSlot, InPole, Queueing
<1>3. PredictInv' /\ PlaceInv' /\ ConsumerInv' /\ ErrorInv'
  BY DEF IndInv, PredictInv, PlaceInv, ConsumerInv, ErrorInv, Clean
<1>4. EntryInv' /\ PublishedInv'
  BY DEF IndInv, EntryInv, PublishedInv
<1>5. QueueInv' /\ EmptiedInv'
  BY DEF IndInv, QueueInv, EmptiedInv, Busy, Clean
<1>6. OncePlaced' /\ NoneLost'
  BY DEF IndInv, OncePlaced, NoneLost, Due, Held, Busy, Clean, Over
<1> QED
  BY <1>1, <1>2, <1>3, <1>4, <1>5, <1>6 DEF IndInv

\* The inductive invariant holds throughout every run.
THEOREM Invariance == Spec => []IndInv
<1>1. PipelineInit => IndInv
  BY InitHolds
<1>2. IndInv /\ [Next]_vars => IndInv'
  BY StepKeeps, StutterKeeps
<1> QED
  BY <1>1, <1>2, PTL DEF Spec

\* Every variable keeps its type; above all no gate admits more threads than it has room
\* for, and no queue holds more than multi_model_queue_depth jobs.
THEOREM TypeCorrectness == Spec => []TypeOK
<1>1. IndInv => TypeOK
  BY DEF IndInv, Types, TypeOK, InferenceTypes, PoleTypes, MainTypes, ThreadTypes, WorkTypes,
     ResultTypes
<1> QED
  BY <1>1, Invariance, PTL

\* The inference gate counts who is inside, a prediction that is retried after an
\* out-of-memory error has the GPU to itself, and the pole gate's list is who waits for it.
THEOREM GateSafety == Spec => []GatesSound
<1>1. ASSUME IndInv PROVE GatesSound
  <2>1. PoleInv /\ RetryRunsAlone
    BY <1>1 DEF IndInv
  <2>2. PoleGateCounts
    BY <2>1 DEF PoleInv, PoleTypes, PoleGateCounts, Items, Once, Queueing
  <2> QED
    BY <2>1, <2>2 DEF GatesSound
<1> QED
  BY <1>1, Invariance, PTL

\* A model is published only when each of its frames was processed, once and without a
\* failure; no entry of a run that is over is unfinished, and the run succeeds only if all
\* models do.
THEOREM EntrySafety == Spec => []EntriesHonest
<1>1. ASSUME IndInv PROVE EntriesHonest
  <2>1. EntryInv /\ PublishedInv /\ OncePlaced
    BY <1>1 DEF IndInv
  <2> QED
    BY <2>1 DEF EntryInv, PublishedInv, OncePlaced, EntriesHonest, Over
<1> QED
  BY <1>1, Invariance, PTL

\* The steps that write an entry.
LEMMA SettleSteps == ASSUME Next PROVE
    \/ UNCHANGED entry
    \/ Abort \/ Disagree \/ InterruptEarly \/ JoinInterrupted \/ FinalizeInterrupted
    \/ \E m \in Model :
          \/ Prepared(m) \/ CircuitBreak(m) \/ Publish(m) \/ PrepareFails(m)
          \/ LoadFails(m) \/ PublishRaises(m)
  BY Zenon DEF Next, Threads, Preparing, Producing, Ending, Pooling, Consuming, Errors,
     Interrupts, PrepareDone, LoadDone, Load, BeginFrame, ProducerRaises, Offload,
     Offloaded, Collected, NextFrame, Drained, FramesDone, Collect, CollectFailure,
     CollectMemoryError, Deliver, StopFails, StopDone, JoinNotices, Finalize, End,
     StopConsumer, WaitForGate, Predict, Downgrade, ConsumerWaits, ConsumerCancelled, Take,
     PoleArrive, PoleWait, PoleDone, Processed, ConsumerCancels, DecodeFails, DecodeRaises,
     PredictFails, ProcessFails, ConsumerDies, InterruptProducer, WaitInterrupted, Arrive,
     Consumer, Enter, Fault, Goto, Interrupt, Joined, Leave, Pass, PendingError, PoleLeave,
     PoleSleep, Raise, Record, ReduceToOne, Sleep, Turn, inferenceGate, poleGate,
     manifestVars, producerVars, consumerVars, summaryVars, bounds

\* The outcome of a model stays in the manifest: who writes an entry writes that of a model
\* whose entry is still open there.
LEMMA EntrySettles == ASSUME IndInv, Next
                      PROVE  \A k \in Model : entry[k] \notin Unfinished => entry'[k] = entry[k]
<1> USE DEF Unfinished
<1>h. /\ entry \in [Model -> EntryStatus] /\ needed \in SUBSET Model
      /\ EntryInv /\ PlaceInv
  BY DEF IndInv, Types, MainTypes, ResultTypes
<1>1. CASE UNCHANGED entry
  BY <1>1
<1>2. ASSUME NEW m \in Model, Prepared(m)
      PROVE  \A k \in Model : entry[k] \notin Unfinished => entry'[k] = entry[k]
  BY <1>2, <1>h DEF Prepared
<1>3. ASSUME NEW m \in Model, CircuitBreak(m)
      PROVE  \A k \in Model : entry[k] \notin Unfinished => entry'[k] = entry[k]
  BY <1>3, <1>h DEF CircuitBreak, EntryInv, PlaceInv, Mid
<1>4. CASE Abort
  BY <1>4, <1>h DEF Abort, Mark, Joined
<1>5. ASSUME NEW m \in Model, Publish(m)
      PROVE  \A k \in Model : entry[k] \notin Unfinished => entry'[k] = entry[k]
  BY <1>5, <1>h DEF Publish, EntryInv
<1>6. CASE Disagree
  BY <1>6, <1>h DEF Disagree, Mark, Fault, Running
<1>7. ASSUME NEW m \in Model, PrepareFails(m)
      PROVE  \A k \in Model : entry[k] \notin Unfinished => entry'[k] = entry[k]
  BY <1>7, <1>h DEF PrepareFails, Fault
<1>8. ASSUME NEW m \in Model, LoadFails(m)
      PROVE  \A k \in Model : entry[k] \notin Unfinished => entry'[k] = entry[k]
  BY <1>8, <1>h DEF LoadFails, Fault, Running
<1>9. ASSUME NEW m \in Model, PublishRaises(m)
      PROVE  \A k \in Model : entry[k] \notin Unfinished => entry'[k] = entry[k]
  BY <1>9, <1>h DEF PublishRaises, Fault, EntryInv
<1>10. CASE InterruptEarly
  BY <1>10, <1>h DEF InterruptEarly, Interrupt, Mark
<1>11. CASE JoinInterrupted
  BY <1>11, <1>h DEF JoinInterrupted, Interrupt, Mark
<1>12. CASE FinalizeInterrupted
  BY <1>12, <1>h DEF FinalizeInterrupted, Interrupt, Mark
<1> QED
  BY <1>1, <1>2, <1>3, <1>4, <1>5, <1>6, <1>7, <1>8, <1>9, <1>10, <1>11, <1>12, SettleSteps

\* The outcome of a model, once it is in the manifest, stays: neither the end of the run nor
\* its abortion replaces the failure of a model that is out of it.
THEOREM EntriesSettle == Spec => EntriesSettleOnce
<1>1. IndInv /\ [Next]_vars =>
          [\A m \in Model : entry[m] \notin Unfinished => entry'[m] = entry[m]]_vars
  BY EntrySettles
<1> QED
  BY <1>1, Invariance, PTL DEF Spec, EntriesSettleOnce
================================================================================
