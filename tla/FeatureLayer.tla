----------------------------- MODULE FeatureLayer ------------------------------
(* The database of one overlay layer (overlays.py, review_edits.py,            *)
(* manual_objects.py): the features, the audit trail with the state of its     *)
(* undo history, the keys of requests, and the outbox of task transitions      *)
(* (task_resolution_outbox.py).  Each operator here is one transaction.        *)
(*                                                                             *)
(* The content of a feature is named by the revision of the edit that wrote    *)
(* it.  A key stands for an idempotency key with its request's fingerprint.    *)
EXTENDS Naturals, Sequences, FiniteSets

CONSTANTS
    Task,        \* review tasks
    NoTask,      \* an edit without one
    Key, NoKey,  \* idempotency keys of create, update and commit requests
    Sources,     \* number of features of the source bundle
    MaxRevision  \* bound of the revision

ASSUME LayerAssumption ==
    /\ NoTask \notin Task /\ NoKey \notin Key
    /\ Sources \in Nat /\ MaxRevision \in Nat \ {0}

VARIABLES
    revision,  \* metadata.revision
    features,  \* content of each feature, Gone when it is deleted
    audit,     \* original edits: audit joined with edit_transactions and
               \* edit_history_state
    requests,  \* edit_history_requests
    outbox     \* task_resolution_outbox

layer == <<revision, features, audit, requests, outbox>>

Gone     == 0
Imported == 1   \* content, and revision, of the source bundle

LayerInit ==
    /\ revision = Imported /\ features = [f \in 1 .. Sources |-> Imported]
    /\ audit = <<>> /\ requests = <<>> /\ outbox = <<>>

------------------------------------------------------------------------------
(* Reading *)

\* _EDIT_ACTIONS; only updates and creations are linked to a task.
Resolution(action) == IF action = "update" THEN "corrected" ELSE "manual_added"

\* Active features.
Active == {f \in DOMAIN features : features[f] # Gone}

\* The edit of an idempotency key.
WithKey(k) == {e \in DOMAIN audit : audit[e].key = k /\ k # NoKey}

InEffect == {e \in DOMAIN audit : ~audit[e].undone}
Undone   == DOMAIN audit \ InEffect

\* _history_preflight: the newest edit in effect, and the last one undone.
UndoTargets == {e \in InEffect : \A d \in InEffect : d <= e}
RedoTargets == {e \in Undone : \A d \in Undone : audit[d].lastOp <= audit[e].lastOp}

\* redo_invalidated: an edit was made since.
Redoable(e) == \A d \in DOMAIN audit : audit[d].rev <= audit[e].lastOp

\* provenance.review_status; undo and redo leave it as it is.
ReviewStatus(f) ==
    LET reviewed == {e \in DOMAIN audit : audit[e].feature = f
                        /\ (audit[e].task # NoTask \/ audit[e].action = "manual_create")}
        latest == CHOOSE e \in reviewed : \A d \in reviewed : d <= e
    IN  IF reviewed = {} THEN "none" ELSE Resolution(audit[latest].action)

\* review_resolution_feature_error
Linked(t, f, resolution) ==
    /\ f \in Active /\ ReviewStatus(f) = resolution
    /\ \E e \in DOMAIN audit : audit[e].task = t /\ audit[e].feature = f
                               /\ Resolution(audit[e].action) = resolution

\* _read_intents, and the order of its query: pending intents before failed ones.
Outstanding ==
    [i \in {i \in DOMAIN outbox : outbox[i].status # "reconciled"} |-> outbox[i].status]

Before(intents, i, j) ==
    IF (intents[i] = "error") = (intents[j] = "error") THEN i <= j
                                                      ELSE intents[j] = "error"

------------------------------------------------------------------------------
(* Writing *)

\* enqueue_task_resolution_intent; "new" is a pending intent with no attempt yet.
Enqueue(kind, t, f, action, claim) ==
    outbox' = IF t = NoTask THEN outbox
              ELSE Append(outbox, [kind |-> kind, task |-> t, feature |-> f,
                                   resolution |-> Resolution(action),
                                   claim |-> claim, status |-> "new"])

\* A new edit of feature f: its content, the audit row, the intent of its task.
Edit(action, f, t, k) ==
    LET new    == action \in {"create", "manual_create"}
        before == IF new THEN Gone ELSE features[f]
        after  == IF action = "delete" THEN Gone ELSE revision + 1
    IN  /\ revision' = revision + 1
        /\ features' = IF new THEN Append(features, after)
                       ELSE [features EXCEPT ![f] = after]
        /\ Enqueue("resolve", t, f, action, FALSE)
        /\ audit' = Append(audit, [rev |-> revision + 1, action |-> action,
                                   feature |-> f, before |-> before, after |-> after,
                                   task |-> t, key |-> k,
                                   intent |-> Len(outbox'),
                                   undone |-> FALSE, lastOp |-> 0])
        /\ UNCHANGED requests

\* _mutate_history
Apply(op, e) ==
    /\ revision' = revision + 1
    /\ features' = [features EXCEPT ![audit[e].feature] =
                       IF op = "undo" THEN audit[e].before ELSE audit[e].after]
    /\ audit' = [audit EXCEPT ![e].undone = (op = "undo"), ![e].lastOp = revision + 1]
    /\ Enqueue(IF op = "undo" THEN "reopen" ELSE "resolve", audit[e].task,
               audit[e].feature, audit[e].action, op = "redo")
    /\ requests' = Append(requests, [op |-> op, edit |-> e, intent |-> Len(outbox')])

\* _update_intent
Settle(i, status) ==
    /\ outbox' = [outbox EXCEPT ![i].status = status]
    /\ UNCHANGED <<revision, features, audit, requests>>

------------------------------------------------------------------------------
(* The history that the audit trail stands for *)

\* The n-th least number of a set, and what a function gives for them in their order.
Nth(S, n)     == CHOOSE x \in S : Cardinality({y \in S : y <= x}) = n
InOrder(S, c) == [n \in 1 .. Cardinality(S) |-> c[Nth(S, n)]]

\* Undone edits that no edit has forgotten, by the revision of their undo.
Redoables    == {e \in Undone : Redoable(e)}
UndoTimes    == {audit[e].lastOp : e \in Redoables}
UndoneAt(op) == CHOOSE e \in Redoables : audit[e].lastOp = op

EditRevs == [e \in DOMAIN audit |-> audit[e].rev]
UndoRevs == [op \in UndoTimes |-> audit[UndoneAt(op)].rev]

\* Edits in effect by their age; those that can be redone by the time of their undo.
History == INSTANCE EditHistory WITH
    EditId <- 2 .. MaxRevision,
    done <- InOrder(InEffect, EditRevs), undone <- InOrder(UndoTimes, UndoRevs),
    keys <- [e \in DOMAIN audit |-> audit[e].key],
    applied <- Len(requests)
==============================================================================
