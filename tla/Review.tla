-------------------------------- MODULE Review ---------------------------------
(* A review session, its tasks and the edits of a layer that resolve them      *)
(* (review_tasks.py, review_edits.py, overlays.py, manual_objects.py,          *)
(* task_resolution_outbox.py).  Tasks and sessions are in the registry, edits  *)
(* in the layer's database; an edit leaves an intent beside it in the outbox,  *)
(* and the replay of intents carries it over to the task.                      *)
(*                                                                             *)
(* Processes: "loop", the event loop, whose segments between awaits exclude    *)
(* each other; "call", a synchronous endpoint in the thread pool; "manual" and *)
(* "history", requests that work in a thread under the layer's lock.           *)
EXTENDS FeatureLayer

CONSTANTS
    Budgets  \* bounds: of each, a number of edits, undos and redos ("writes"), of
             \* new features ("features"), of requests that change a task or the
             \* session ("requests"), of restarts, registry errors and lost proposals
             \* ("faults")

ASSUME ReviewAssumption ==
    \A b \in Budgets : /\ b \in [{"writes", "features", "requests", "faults"} -> Nat]
                       /\ b["writes"] < MaxRevision

VARIABLES
    session, tasks,  \* registry: status of the session; status and feature of tasks
    pc, req,         \* place and request of each process
    queue, plan,     \* intents that loop and call are to replay; the one at work, what to do
    lock,            \* holder of the layer's lock
    proposal,        \* a proposal is in memory
    reached,         \* intents whose task has been in the desired state
    bound            \* what is left of a budget

registry == <<session, tasks>>
replay   == <<queue, plan>>
vars == <<revision, features, audit, requests, outbox, session, tasks, pc, req,
          queue, plan, lock, proposal, reached, bound>>

Process   == {"loop", "call", "manual", "history"}
Replayer  == {"loop", "call"}
NoRequest == [kind |-> "none"]

Open     == {"todo", "in_progress"}
Terminal == {"manual_added", "corrected", "dismissed"}  \* the other four are one
Ended    == {"completed", "archived"}

\* _SESSION_TRANSITIONS
Transitions(s) ==
    CASE s = "active"    -> {"paused", "completed"}
      [] s = "paused"    -> {"active", "completed"}
      [] s = "completed" -> {"archived"}
      [] s = "archived"  -> {}

Goto(p, place) == pc' = [pc EXCEPT ![p] = place]
Spend(what) == bound[what] > 0 /\ bound' = [bound EXCEPT ![what] = @ - 1]

\* The budget after an edit, of a new feature if `new`.
Written(new) == [bound EXCEPT !["writes"] = @ - 1,
                              !["features"] = IF new THEN @ - 1 ELSE @]

\* The event loop is free.
Idle == pc["loop"] = "idle"

\* Mutant of SessionLocked: history takes no session lock.
NeverLocked == FALSE

\* A linked undo or redo holds the session's lock.
SessionLocked == pc["history"] \in {"check", "commit", "done"}
                 /\ req["history"].task # NoTask

------------------------------------------------------------------------------
(* Registry *)

Task0 == [status |-> "todo", feature |-> 0]

\* What update_review_task answers when t is expected to be `from`.
Outcome(t, from) ==
    IF tasks[t].status # from THEN "stale"
    ELSE IF session \in Ended THEN "immutable"
    ELSE IF session # "active" THEN "inactive" ELSE "updated"

\* update_review_task: t becomes `to` with feature f, if it may.
Update(t, from, to, f) ==
    tasks' = IF Outcome(t, from) = "updated"
             THEN [tasks EXCEPT ![t] = [status |-> to, feature |-> f]] ELSE tasks

\* _desired_state
Desired(intent, task) ==
    IF intent.kind = "reopen" THEN task.status = "todo"
    ELSE task.status = intent.resolution /\ task.feature = intent.feature

\* Remembers the intents whose task is in the desired state after a step.
Witness(after) ==
    reached' = reached \cup {i \in DOMAIN outbox' : Desired(outbox'[i], after[outbox'[i].task])}

------------------------------------------------------------------------------
(* Replay of the outbox (reconcile_layer_task_resolutions) by process p *)

Replay(p, intents) == queue' = [queue EXCEPT ![p] = intents]
Only(i) == [j \in {i} \ {0} |-> "new"]
Unsettled(i) == IF i \in DOMAIN Outstanding THEN i ELSE 0
NoPlan  == [do |-> "none", intent |-> 0]

\* _attempt_intent, up to its first write; the reads of an attempt are one step.
Decision(intent) ==
    LET task == tasks[intent.task]
    IN  IF Desired(intent, task) THEN "reconciled"
        ELSE IF intent.kind = "resolve"
                /\ ~Linked(intent.task, intent.feature, intent.resolution) THEN "error"
        ELSE IF session \in Ended THEN "error"
        ELSE IF session # "active" THEN "pending"
        ELSE IF intent.kind = "reopen"
             THEN IF task.status = intent.resolution /\ task.feature = intent.feature
                  THEN "reopen" ELSE "error"
        ELSE IF task.status = "todo" /\ intent.claim THEN "claim"
        ELSE IF task.status = "in_progress" THEN "resolve" ELSE "error"

\* The next intent, in the order of the query; a registry error leaves it pending.
Attempt(p) ==
    /\ pc[p] = "replay" /\ plan[p] = NoPlan
    /\ \E i \in DOMAIN queue[p] :
          /\ \A j \in DOMAIN queue[p] : Before(queue[p], i, j)
          /\ \/ /\ plan' = [plan EXCEPT ![p] = [do |-> Decision(outbox[i]), intent |-> i]]
                /\ UNCHANGED bound
             \/ /\ plan' = [plan EXCEPT ![p] = [do |-> "pending", intent |-> i]]
                /\ Spend("faults")
    /\ UNCHANGED <<layer, registry, pc, req, queue, lock, proposal, reached>>

\* Mutant of Refused: the intent is settled, as if it had been carried out.
AssumeDone(intent, outcome) == "reconciled"

\* After a write that did not happen.
Refused(intent, outcome) ==
    IF outcome = "inactive" THEN "pending"
    ELSE IF outcome = "immutable" THEN "error"
    ELSE IF Desired(intent, tasks[intent.task]) THEN "reconciled" ELSE "error"

\* The write of an attempt; a claim is followed by the resolution.
Carry(p) ==
    /\ pc[p] = "replay" /\ plan[p].do \in {"reopen", "claim", "resolve"}
    /\ LET i == outbox[plan[p].intent]
           do == plan[p].do
           from == CASE do = "reopen"  -> i.resolution
                     [] do = "claim"   -> "todo"
                     [] do = "resolve" -> "in_progress"
           to   == CASE do = "reopen"  -> "todo"
                     [] do = "claim"   -> "in_progress"
                     [] do = "resolve" -> i.resolution
           answer == Outcome(i.task, from)
           next == IF answer = "updated"
                   THEN IF do = "claim" THEN "resolve" ELSE "reconciled"
                   ELSE IF do = "claim" /\ answer = "stale"
                           /\ tasks[i.task].status = "in_progress" THEN "resolve"
                   ELSE Refused(i, answer)
       IN  /\ Update(i.task, from, to, IF do = "resolve" THEN i.feature ELSE 0)
           /\ plan' = [plan EXCEPT ![p].do = next]
    /\ UNCHANGED <<layer, session, pc, req, queue, lock, proposal, bound>>
    /\ Witness(tasks')

\* _update_intent, a transaction of its own: it may overwrite a newer status.
Recorded(p) ==
    /\ pc[p] = "replay" /\ plan[p].do \in {"reconciled", "pending", "error"}
    /\ Settle(plan[p].intent, plan[p].do)
    /\ Replay(p, [i \in DOMAIN queue[p] \ {plan[p].intent} |-> queue[p][i]])
    /\ plan' = [plan EXCEPT ![p] = NoPlan]
    /\ UNCHANGED <<registry, pc, req, lock, proposal, reached, bound>>

\* Back to the request.
Replayed(p) ==
    /\ pc[p] = "replay" /\ DOMAIN queue[p] = {}
    /\ req' = IF req[p].kind = "start" THEN [req EXCEPT ![p] = NoRequest] ELSE req
    /\ Goto(p, IF req[p].kind \in {"none", "start"} THEN "idle" ELSE "act")
    /\ UNCHANGED <<layer, registry, replay, lock, proposal, reached, bound>>

\* The loop ends its segment with the replay of intent i, if there is one.
ReplayOne(i) ==
    /\ Goto("loop", IF i = 0 THEN "idle" ELSE "replay")
    /\ Replay("loop", Only(i))
    /\ req' = [req EXCEPT !["loop"] = NoRequest]

------------------------------------------------------------------------------
(* create_overlay_feature, update_overlay_feature, delete_overlay_feature *)

\* _validate_review_task_scope
EditAllowed(t) == t # NoTask => session = "active" /\ tasks[t].status = "in_progress"

\* The checks, on the loop and under the lock.
CheckEdit(action, f, t, k) ==
    /\ Idle /\ lock = "none" /\ WithKey(k) = {} /\ EditAllowed(t)
    /\ IF action = "create" THEN f = 0 /\ bound["features"] > 0 ELSE f \in Active
    /\ bound["writes"] > 0
    /\ req' = [req EXCEPT !["loop"] = [kind |-> action, feature |-> f, task |-> t,
                                       key |-> k]]
    /\ Goto("loop", "edit")
    /\ UNCHANGED <<layer, registry, replay, lock, proposal, reached, bound>>

CreateFeature(t, k)    == CheckEdit("create", 0, t, k)
UpdateFeature(f, t, k) == CheckEdit("update", f, t, k)
DeleteFeature(f)       == CheckEdit("delete", f, NoTask, NoKey)

\* The commit; a thread may have changed the task since.
CommitEdit ==
    /\ pc["loop"] = "edit"
    /\ LET r == req["loop"]
       IN  /\ Edit(r.kind, IF r.kind = "create" THEN Len(features) + 1 ELSE r.feature,
                   r.task, r.key)
           /\ ReplayOne(IF r.task = NoTask THEN 0 ELSE Len(outbox'))
           /\ bound' = Written(r.kind = "create")
    /\ Witness(tasks)
    /\ UNCHANGED <<registry, plan, lock, proposal>>

\* A retry finds its key: nothing but the replay of its intent.
RetryEdit(k) ==
    /\ Idle /\ lock = "none"
    /\ \E e \in WithKey(k) :
          /\ audit[e].action # "manual_create" /\ audit[e].task # NoTask
          /\ ReplayOne(Unsettled(audit[e].intent))
    /\ UNCHANGED <<layer, registry, plan, lock, proposal, reached, bound>>

------------------------------------------------------------------------------
(* Manual objects: commit_manual_object_proposal *)

\* On the loop, before the locks; a resolved task passes only for the same commit.
CheckManual(t, k) ==
    /\ Idle /\ pc["manual"] = "idle" /\ proposal
    /\ \/ EditAllowed(t)
       \/ /\ t # NoTask /\ session = "active" /\ tasks[t].status = "manual_added"
          /\ \E e \in WithKey(k) : audit[e].task = t
                                   /\ audit[e].feature = tasks[t].feature
    /\ req' = [req EXCEPT !["manual"] = [kind |-> "manual_create", task |-> t,
                                         key |-> k, intent |-> 0]]
    /\ Goto("manual", "wait")
    /\ UNCHANGED <<layer, registry, replay, lock, proposal, reached, bound>>

LockManual ==
    /\ Idle /\ pc["manual"] = "wait" /\ lock = "none"
    /\ lock' = "manual" /\ Goto("manual", "commit")
    /\ UNCHANGED <<layer, registry, req, replay, proposal, reached, bound>>

\* The thread is done; intent i is left to replay.
ManualDone(i) ==
    Goto("manual", "done") /\ req' = [req EXCEPT !["manual"].intent = i]

\* Mutant of CommitManual: the key is not looked up.
CommitManualAgain ==
    /\ pc["manual"] = "commit"
    /\ LET r == req["manual"]
       IN  /\ Edit("manual_create", Len(features) + 1, r.task, r.key)
           /\ ManualDone(IF r.task = NoTask THEN 0 ELSE Len(outbox'))
    /\ bound["writes"] > 0 /\ bound["features"] > 0 /\ bound' = Written(TRUE)
    /\ Witness(tasks)
    /\ UNCHANGED <<registry, replay, lock, proposal>>

\* _commit_proposal_to_overlay, in a thread; the registry is not read again.
CommitManual ==
    /\ pc["manual"] = "commit" /\ WithKey(req["manual"].key) = {}
    /\ LET r == req["manual"]
       IN  /\ Edit("manual_create", Len(features) + 1, r.task, r.key)
           /\ ManualDone(IF r.task = NoTask THEN 0 ELSE Len(outbox'))
    /\ bound["writes"] > 0 /\ bound["features"] > 0 /\ bound' = Written(TRUE)
    /\ Witness(tasks)
    /\ UNCHANGED <<registry, replay, lock, proposal>>

\* A retry, or a refusal (a duplicate, another use of the key, the limits).
RefuseManual ==
    /\ pc["manual"] = "commit"
    /\ \/ ManualDone(0)
       \/ \E e \in WithKey(req["manual"].key) :
             /\ audit[e].action = "manual_create" /\ audit[e].task = req["manual"].task
             /\ audit[e].task # NoTask /\ ManualDone(audit[e].intent)
    /\ UNCHANGED <<layer, registry, replay, lock, proposal, reached, bound>>

\* Mutant of Release: the layer's lock is kept.
ReleaseNothing(p) ==
    /\ Idle /\ pc[p] = "done"
    /\ LET i == Unsettled(req[p].intent)
       IN  pc' = [pc EXCEPT ![p] = "idle", !["loop"] = IF i = 0 THEN "idle" ELSE "replay"]
           /\ Replay("loop", Only(i))
    /\ req' = [req EXCEPT ![p] = NoRequest]
    /\ UNCHANGED <<layer, registry, plan, lock, proposal, reached, bound>>

\* The loop releases a request's locks and replays its intent.
Release(p) ==
    /\ Idle /\ pc[p] = "done"
    /\ lock' = "none"
    /\ LET i == Unsettled(req[p].intent)
       IN  pc' = [pc EXCEPT ![p] = "idle", !["loop"] = IF i = 0 THEN "idle" ELSE "replay"]
           /\ Replay("loop", Only(i))
    /\ req' = [req EXCEPT ![p] = NoRequest]
    /\ UNCHANGED <<layer, registry, plan, proposal, reached, bound>>

\* _proposal_store: time to live, eviction; delete_manual_object_proposal.
DropProposal ==
    /\ Idle /\ proposal /\ pc["manual"] = "idle" /\ proposal' = FALSE
    /\ Spend("faults")
    /\ UNCHANGED <<layer, registry, pc, req, replay, lock, reached>>

------------------------------------------------------------------------------
(* Undo and redo: _history_endpoint *)

StartHistory(op) ==
    /\ Idle /\ pc["history"] = "idle" /\ lock = "none" /\ bound["writes"] > 0
    /\ \E e \in IF op = "undo" THEN UndoTargets ELSE RedoTargets :
          req' = [req EXCEPT !["history"] = [kind |-> op, edit |-> e, intent |-> 0,
                                             task |-> audit[e].task]]
    /\ lock' = "history" /\ Goto("history", "fence")
    /\ UNCHANGED <<layer, registry, replay, proposal, reached, bound>>

\* _validate_history_task_fence: op of edit e, or a retry of it.
Fence(op, e, retry) ==
    LET t == audit[e].task
        done == tasks[t].status = Resolution(audit[e].action)
                /\ tasks[t].feature = audit[e].feature
    IN  t # NoTask => /\ session = "active"
                      /\ IF (op = "undo") = retry THEN tasks[t].status = "todo" ELSE done

\* On the loop: the fence, the session's lock, and the fence again.
FenceHistory ==
    /\ Idle /\ pc["history"] = "fence"
    /\ Goto("history", IF Fence(req["history"].kind, req["history"].edit, FALSE)
                       THEN "check" ELSE "done")
    /\ UNCHANGED <<layer, registry, req, replay, lock, proposal, reached, bound>>

\* In the thread, within the transaction: the last look before the commit.
CheckHistory ==
    /\ pc["history"] = "check"
    /\ LET r == req["history"]
       IN  Goto("history", IF /\ Fence(r.kind, r.edit, FALSE)
                              /\ r.kind = "redo" => Redoable(r.edit)
                           THEN "commit" ELSE "done")
    /\ UNCHANGED <<layer, registry, req, replay, lock, proposal, reached, bound>>

CommitHistory ==
    /\ pc["history"] = "commit"
    /\ Apply(req["history"].kind, req["history"].edit)
    /\ Goto("history", "done")
    /\ req' = [req EXCEPT !["history"].intent =
                  IF req["history"].task = NoTask THEN 0 ELSE Len(outbox')]
    /\ bound' = Written(FALSE) /\ Witness(tasks)
    /\ UNCHANGED <<registry, replay, lock, proposal>>

\* A request whose key is known changes nothing, and replays its intent.
RetryHistory ==
    /\ Idle /\ pc["history"] = "idle" /\ lock = "none"
    /\ \E n \in DOMAIN requests :
          LET r == requests[n]
          IN  /\ audit[r.edit].task # NoTask /\ Fence(r.op, r.edit, TRUE)
              /\ ReplayOne(Unsettled(r.intent))
    /\ UNCHANGED <<layer, registry, plan, lock, proposal, reached, bound>>

------------------------------------------------------------------------------
(* The session: patch_review_session, on the loop and under the session's lock *)

PatchSession(to) ==
    /\ Idle /\ ~SessionLocked /\ Spend("requests")
    /\ to \in Transitions(session) \cup {session}
    /\ req' = [req EXCEPT !["loop"] = [kind |-> "patch", to |-> to]]
    /\ Goto("loop", "replay") /\ Replay("loop", Outstanding)
    /\ UNCHANGED <<layer, registry, plan, lock, proposal, reached>>

\* The blockers are counted; the QA gate, which is not modelled, may refuse, too.
CountBlockers ==
    /\ pc["loop"] = "act"
    /\ \/ /\ req["loop"].to = "completed" =>
                DOMAIN Outstanding = {} /\ \A t \in Task : tasks[t].status \notin Open
          /\ Goto("loop", "write") /\ UNCHANGED <<req, queue>>
       \/ req["loop"].to = "completed" /\ ReplayOne(0)
    /\ UNCHANGED <<layer, registry, plan, lock, proposal, reached, bound>>

\* update_review_session; an active session, or a refusal, replays the intents again.
WriteSession ==
    /\ pc["loop"] = "write"
    /\ LET to == req["loop"].to
           blocked == to = "completed" /\ \E t \in Task : tasks[t].status \in Open
       IN  /\ session' = IF blocked THEN session ELSE to
           /\ IF blocked \/ to = "active"
              THEN Goto("loop", "replay") /\ Replay("loop", Outstanding)
              ELSE Goto("loop", "idle") /\ UNCHANGED queue
    /\ req' = [req EXCEPT !["loop"] = NoRequest]
    /\ UNCHANGED <<layer, tasks, plan, lock, proposal, reached, bound>>

------------------------------------------------------------------------------
(* Tasks: patch_review_task, resolve_review_task, reopen_review_task, in a thread *)

\* Task and session are read first; then the session's intents are replayed.
Call(kind, t, f) ==
    /\ pc["call"] = "idle" /\ req["loop"].kind # "start" /\ Spend("requests")
    /\ session = "active"
    /\ CASE kind = "claim"  -> tasks[t].status = "todo"
         [] kind = "reopen" -> tasks[t].status \in Terminal
         [] OTHER           -> tasks[t].status = "in_progress"
    /\ req' = [req EXCEPT !["call"] = [kind |-> kind, task |-> t, feature |-> f,
                                       seen |-> tasks[t].status]]
    /\ Goto("call", "replay") /\ Replay("call", Outstanding)
    /\ UNCHANGED <<layer, registry, plan, lock, proposal, reached>>

PatchTask(t)            == Call("claim", t, 0)
ResolveTask(kind, t, f) == Call(kind, t, f)
ReopenTask(t)           == Call("reopen", t, 0)

\* review_resolution_feature_error, before the write.
CheckCall ==
    /\ pc["call"] = "act"
    /\ LET r == req["call"]
           allowed == r.kind \in {"manual_added", "corrected"}
                         => Linked(r.task, r.feature, r.kind)
       IN  /\ Goto("call", IF allowed THEN "write" ELSE "idle")
           /\ req' = IF allowed THEN req ELSE [req EXCEPT !["call"] = NoRequest]
    /\ UNCHANGED <<layer, registry, replay, lock, proposal, reached, bound>>

WriteCall ==
    /\ pc["call"] = "write"
    /\ LET r == req["call"]
       IN  Update(r.task, r.seen,
                  CASE r.kind = "claim"  -> "in_progress"
                    [] r.kind = "reopen" -> "todo"
                    [] OTHER             -> r.kind,
                  r.feature)
    /\ Goto("call", "idle") /\ req' = [req EXCEPT !["call"] = NoRequest]
    /\ UNCHANGED <<layer, session, replay, lock, proposal, bound>>
    /\ Witness(tasks')

------------------------------------------------------------------------------
(* A crash, and the start of the next process *)

\* Mutant of Restart: the intents wait for somebody to look at their session.
RestartWithoutReplay ==
    /\ Spend("faults")
    /\ pc' = [p \in Process |-> "idle"] /\ req' = [p \in Process |-> NoRequest]
    /\ queue' = [p \in Replayer |-> Only(0)] /\ plan' = [p \in Replayer |-> NoPlan]
    /\ lock' = "none" /\ proposal' = FALSE
    /\ UNCHANGED <<layer, registry, reached>>

\* reconcile_all_task_resolutions before the first request.
Restart ==
    /\ Spend("faults")
    /\ pc' = [p \in Process |-> IF p = "loop" THEN "replay" ELSE "idle"]
    /\ req' = [p \in Process |-> IF p = "loop" THEN [kind |-> "start"] ELSE NoRequest]
    /\ queue' = [p \in Replayer |-> IF p = "loop" THEN Outstanding ELSE Only(0)]
    /\ plan' = [p \in Replayer |-> NoPlan]
    /\ lock' = "none" /\ proposal' = FALSE
    /\ UNCHANGED <<layer, registry, reached>>

------------------------------------------------------------------------------

Init ==
    /\ LayerInit
    /\ session = "active" /\ tasks = [t \in Task |-> Task0]
    /\ pc = [p \in Process |-> "idle"] /\ req = [p \in Process |-> NoRequest]
    /\ queue = [p \in Replayer |-> Only(0)] /\ plan = [p \in Replayer |-> NoPlan]
    /\ lock = "none" /\ proposal = TRUE /\ reached = {}
    /\ bound \in Budgets

\* What a request that was begun does next.
Progress ==
    \/ CommitEdit \/ LockManual \/ CommitManual \/ RefuseManual
    \/ FenceHistory \/ CheckHistory \/ CommitHistory
    \/ CountBlockers \/ WriteSession \/ CheckCall \/ WriteCall
    \/ \E p \in {"manual", "history"} : Release(p)
    \/ \E p \in Replayer : Attempt(p) \/ Carry(p) \/ Recorded(p) \/ Replayed(p)

\* New requests.
Edits ==
    \/ \E t \in Task \cup {NoTask}, k \in Key \cup {NoKey} :
          CreateFeature(t, k) \/ \E f \in Active : UpdateFeature(f, t, k)
    \/ \E f \in Active : DeleteFeature(f)
    \/ \E k \in Key : RetryEdit(k)

Requests ==
    \/ \E t \in Task \cup {NoTask}, k \in Key : CheckManual(t, k)
    \/ \E op \in {"undo", "redo"} : StartHistory(op)
    \/ RetryHistory
    \/ \E to \in {"active", "paused", "completed", "archived"} : PatchSession(to)
    \/ \E t \in Task : PatchTask(t) \/ ReopenTask(t) \/ ResolveTask("dismissed", t, 0)
    \/ \E t \in Task, kind \in {"manual_added", "corrected"}, f \in Active :
          ResolveTask(kind, t, f)

Next == Progress \/ Edits \/ Requests \/ DropProposal \/ Restart

Spec == Init /\ [][Next]_vars

\* Requests that were begun run on.
FairSpec == Spec /\ WF_vars(Progress)

------------------------------------------------------------------------------

Status  == Open \cup Terminal
Feature == 1 .. Sources + MaxRevision
Places  == [loop    |-> {"idle", "edit", "replay", "act", "write"},
            call    |-> {"idle", "replay", "act", "write"},
            manual  |-> {"idle", "wait", "commit", "done"},
            history |-> {"idle", "fence", "check", "commit", "done"}]

IntentOK(i) ==
    /\ i.kind \in {"resolve", "reopen"} /\ i.task \in Task /\ i.feature \in Feature
    /\ i.resolution \in {"manual_added", "corrected"} /\ i.claim \in BOOLEAN
    /\ i.status \in {"new", "pending", "error", "reconciled"}

EditOK(e) ==
    /\ e.rev \in 2 .. revision /\ e.lastOp \in 0 .. revision
    /\ e.action \in {"create", "update", "delete", "manual_create"}
    /\ e.feature \in DOMAIN features /\ {e.before, e.after} \subseteq 0 .. revision
    /\ e.task \in Task \cup {NoTask} /\ e.key \in Key \cup {NoKey}
    /\ e.intent \in 0 .. Len(outbox) /\ e.undone \in BOOLEAN

\* Type invariant; the lock belongs to a request that is under way.
TypeOK ==
    /\ revision \in Imported .. MaxRevision
    /\ Len(features) <= Sources + MaxRevision
    /\ \A f \in DOMAIN features : features[f] \in 0 .. revision
    /\ \A e \in DOMAIN audit : EditOK(audit[e])
    /\ \A n \in DOMAIN requests : requests[n].edit \in DOMAIN audit
    /\ \A i \in DOMAIN outbox : IntentOK(outbox[i])
    /\ session \in {"active", "paused", "completed", "archived"}
    /\ tasks \in [Task -> [status : Status, feature : Feature \cup {0}]]
    /\ \A p \in Process : pc[p] \in Places[p]
    /\ \A p \in Replayer : DOMAIN queue[p] \subseteq DOMAIN outbox
    /\ lock \in {"none", "manual", "history"}
    /\ lock # "none" => pc[lock] \notin {"idle", "wait"}
    /\ proposal \in BOOLEAN /\ reached \subseteq DOMAIN outbox

\* The layer is what its history says: the edits that are in effect, in their
\* order, give each feature its content, whatever was undone, redone, retried or
\* lost in a crash in between.
FeaturesFollowHistory ==
    \A f \in DOMAIN features :
        LET edits == {e \in DOMAIN audit : audit[e].feature = f}
            live  == edits \cap InEffect
            created == \E e \in edits : audit[e].action \in {"create", "manual_create"}
        IN  features[f] = IF live # {} THEN audit[CHOOSE e \in live : \A d \in live : d <= e].after
                          ELSE IF created THEN Gone ELSE Imported

\* An intent is closed only if its task was carried over: since the edit, the task
\* was in the state the intent asks for.
IntentsHonest ==
    \A i \in DOMAIN outbox : outbox[i].status = "reconciled" => i \in reached

\* A task that counts as added or corrected has a committed edit of its own that
\* did so, on the feature it names.
TasksOwnEdits ==
    \A t \in Task : tasks[t].status \in {"manual_added", "corrected"} =>
        \E e \in DOMAIN audit : /\ audit[e].task = t
                               /\ audit[e].feature = tasks[t].feature
                               /\ Resolution(audit[e].action) = tasks[t].status

ReviewSound == FeaturesFollowHistory /\ IntentsHonest /\ TasksOwnEdits

\* Undo and redo are linear, and every idempotency key counts once.
HistoryRefines == History!Spec

\* Tasks change only while the session is active, along the edges of the queue.
TasksFenced ==
    \A t \in Task : tasks'[t] # tasks[t] =>
        /\ session = "active"
        /\ \/ tasks[t].status = "todo" /\ tasks'[t].status = "in_progress"
           \/ tasks[t].status = "in_progress" /\ tasks'[t].status \in Terminal
           \/ tasks[t].status \in Terminal /\ tasks'[t].status = "todo"

\* A session is completed only when no task is open.
CompletedWhenDone ==
    session' = "completed" /\ session # "completed" =>
        \A t \in Task : tasks[t].status \in Terminal

\* A linked edit, undo or redo commits in an active session (but see README on
\* manual objects: their commit does not look again after it waited).
EditsFenced ==
    /\ Len(audit') > Len(audit) =>
          LET e == audit'[Len(audit')]
          IN  e.task = NoTask \/ e.action = "manual_create" \/ session = "active"
    /\ Len(requests') > Len(requests) =>
          audit[requests'[Len(requests')].edit].task = NoTask \/ session = "active"

ReviewSteps == [][TasksFenced /\ CompletedWhenDone /\ EditsFenced]_vars

\* No intent is forgotten: whatever crashes, each is attempted, though it may have
\* to wait after that for its session or for an operator.
IntentsAttempted ==
    \A i \in 1 .. MaxRevision - 1 :
        (i \in DOMAIN outbox /\ outbox[i].status = "new")
            ~> (i \in DOMAIN outbox /\ outbox[i].status # "new")
==============================================================================
