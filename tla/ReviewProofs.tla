----------------------------- MODULE ReviewProofs ------------------------------
(* Review: types, the fences of sessions and tasks, that no intent is closed  *)
(* before its task was carried over, that features and tasks follow the edits,*)
(* and that the history of the keys implements EditHistory.                   *)
EXTENDS Review, SequenceTheorems, FiniteSetTheorems, TLAPS

------------------------------------------------------------------------------
(* The inductive invariant *)

Action == {"create", "update", "delete", "manual_create"}
New    == {"create", "manual_create"}
Maybe  == Task \cup {NoTask}
Named  == Key \cup {NoKey}

Row == [rev : Nat, action : Action, feature : Nat, before : Nat, after : Nat,
        task : Maybe, key : Named, intent : Nat, undone : BOOLEAN, lastOp : Nat]

Applied == [op : {"undo", "redo"}, edit : Nat, intent : Nat]

Intent == [kind : {"resolve", "reopen"}, task : Task, feature : Nat,
           resolution : {"manual_added", "corrected"}, claim : BOOLEAN,
           status : {"new", "pending", "error", "reconciled"}]

LayerTypes ==
    /\ revision \in Nat /\ features \in Seq(Nat) /\ audit \in Seq(Row)
    /\ requests \in Seq(Applied) /\ outbox \in Seq(Intent)
    /\ bound \in [{"writes", "features", "requests", "faults"} -> Nat]

\* The tables refer to each other's rows, and the budget bounds the revision.
LayerLinks ==
    /\ revision > 0 /\ revision + bound["writes"] <= MaxRevision
    /\ Len(features) <= Sources + revision
    /\ \A f \in DOMAIN features : features[f] <= revision
    /\ \A e \in DOMAIN audit : /\ audit[e].rev \in 2 .. revision
                              /\ audit[e].feature \in DOMAIN features
                              /\ audit[e].before <= revision
                              /\ audit[e].after <= revision
                              /\ audit[e].lastOp <= revision
                              /\ audit[e].intent <= Len(outbox)
    /\ \A n \in DOMAIN requests : requests[n].edit \in DOMAIN audit
    /\ \A i \in DOMAIN outbox : outbox[i].feature \in DOMAIN features

SessionStatus == {"active", "paused", "completed", "archived"}

Registry ==
    /\ session \in SessionStatus
    /\ tasks \in [Task -> [status : Status, feature : Nat]]
    /\ \A t \in Task : tasks[t].feature \in {0} \cup DOMAIN features

\* Where the processes are, and what they were asked for.
LoopInv ==
    /\ pc["loop"] \in {"idle", "edit", "replay", "act", "write"}
    /\ pc["loop"] = "idle" => req["loop"] = NoRequest
    /\ pc["loop"] = "edit" =>
          /\ req["loop"] \in [kind : {"create", "update", "delete"}, feature : Nat,
                              task : Maybe, key : Named]
          /\ req["loop"].kind # "create" => req["loop"].feature \in DOMAIN features
          /\ req["loop"].task # NoTask => session = "active"
          /\ lock = "none" /\ bound["writes"] > 0
          /\ req["loop"].kind = "create" => bound["features"] > 0
    /\ pc["loop"] \in {"act", "write"} =>
          req["loop"] \in [kind : {"patch"}, to : SessionStatus]
    /\ pc["loop"] = "replay" =>
          \/ req["loop"] = NoRequest \/ req["loop"] = [kind |-> "start"]
          \/ req["loop"] \in [kind : {"patch"}, to : SessionStatus]

CallInv ==
    /\ pc["call"] \in {"idle", "replay", "act", "write"}
    /\ pc["call"] # "idle" =>
          LET r == req["call"]
          IN  /\ r \in [kind : {"claim", "dismissed", "reopen", "manual_added", "corrected"},
                        task : Task, feature : Nat, seen : Status]
              /\ r.feature \in {0} \cup DOMAIN features
              /\ r.kind = "claim" => r.seen = "todo"
              /\ r.kind = "reopen" => r.seen \in Terminal
              /\ r.kind \notin {"claim", "reopen"} => r.seen = "in_progress"

ManualInv ==
    /\ pc["manual"] \in {"idle", "wait", "commit", "done"}
    /\ pc["manual"] \in {"commit", "done"} <=> lock = "manual"
    /\ pc["manual"] # "idle" =>
          req["manual"] \in [kind : {"manual_create"}, task : Maybe, key : Named,
                             intent : Nat]

\* A linked undo or redo that passed the fence keeps its session active.
HistoryInv ==
    /\ pc["history"] \in {"idle", "fence", "check", "commit", "done"}
    /\ pc["history"] # "idle" <=> lock = "history"
    /\ pc["history"] # "idle" =>
          LET r == req["history"]
          IN  /\ r \in [kind : {"undo", "redo"}, edit : Nat, intent : Nat, task : Maybe]
              /\ r.edit \in DOMAIN audit /\ r.task = audit[r.edit].task
    /\ pc["history"] \in {"fence", "check", "commit"} => bound["writes"] > 0
    /\ pc["history"] \in {"check", "commit"} /\ req["history"].task # NoTask =>
          session = "active" /\ pc["loop"] # "act" /\ pc["loop"] # "write"
          /\ req["loop"].kind # "patch"

ProcessInv ==
    /\ DOMAIN pc = Process /\ DOMAIN req = Process
    /\ lock \in {"none", "manual", "history"} /\ proposal \in BOOLEAN
    /\ LoopInv /\ CallInv /\ ManualInv /\ HistoryInv

Doing == {"none", "reconciled", "pending", "error", "reopen", "claim", "resolve"}

\* What is replayed is in the outbox; nothing else is at work.
ReplayInv ==
    /\ DOMAIN queue = Replayer /\ plan \in [Replayer -> [do : Doing, intent : Nat]]
    /\ \A p \in Replayer :
          /\ DOMAIN queue[p] \subseteq DOMAIN outbox
          /\ plan[p].do = "none" => plan[p] = NoPlan
          /\ plan[p].do # "none" => pc[p] = "replay" /\ plan[p].intent \in DOMAIN queue[p]
          /\ plan[p].do = "reopen" => outbox[plan[p].intent].kind = "reopen"
          /\ plan[p].do \in {"claim", "resolve"} => outbox[plan[p].intent].kind = "resolve"

\* An intent whose task is as it asks for has been reached, and so has one that
\* is about to be closed.
HonestInv ==
    /\ reached \subseteq DOMAIN outbox
    /\ \A i \in DOMAIN outbox : Desired(outbox[i], tasks[outbox[i].task]) => i \in reached
    /\ \A i \in DOMAIN outbox : outbox[i].status = "reconciled" => i \in reached
    /\ \A p \in Replayer : plan[p].do = "reconciled" => plan[p].intent \in reached

IndInv ==
    LayerTypes /\ LayerLinks /\ Registry /\ ProcessInv /\ ReplayInv /\ HonestInv

------------------------------------------------------------------------------
(* What a step does to the layer *)

EditStep(action, f, t, k) ==
    /\ Edit(action, f, t, k)
    /\ IF action \in New THEN f = Len(features) + 1 /\ bound["features"] > 0
                         ELSE f \in DOMAIN features
    /\ bound["writes"] > 0 /\ bound' = Written(action \in New)

ApplyStep(op, e) ==
    Apply(op, e) /\ bound["writes"] > 0 /\ bound' = Written(FALSE)

SettleStep(i, s) == Settle(i, s) /\ UNCHANGED bound

QuietStep ==
    /\ UNCHANGED layer
    /\ bound' \in [{"writes", "features", "requests", "faults"} -> Nat]
    /\ bound'["writes"] = bound["writes"] /\ bound'["features"] = bound["features"]

LayerStep ==
    \/ QuietStep
    \/ \E a \in Action, f \in Nat, t \in Maybe, k \in Named : EditStep(a, f, t, k)
    \/ \E op \in {"undo", "redo"}, e \in DOMAIN audit : ApplyStep(op, e)
    \/ \E i \in DOMAIN outbox, s \in {"reconciled", "pending", "error"} : SettleStep(i, s)

LEMMA LayerStepLemma == IndInv /\ [Next]_vars => LayerStep
<1> SUFFICES ASSUME IndInv, [Next]_vars PROVE LayerStep OBVIOUS
<1> USE DEF IndInv, LayerTypes, ProcessInv
<1>1. CASE UNCHANGED vars BY <1>1 DEF LayerStep, QuietStep, vars, layer
<1>2. CASE CommitEdit
  <2> DEFINE r == req["loop"]
             f == IF r.kind = "create" THEN Len(features) + 1 ELSE r.feature
  <2>1. /\ r.kind \in {"create", "update", "delete"} /\ r.feature \in Nat
        /\ r.task \in Maybe /\ r.key \in Named /\ Len(features) \in Nat
    BY <1>2 DEF CommitEdit, LoopInv
  <2>2. EditStep(r.kind, f, r.task, r.key)
    BY <1>2, <2>1 DEF CommitEdit, LoopInv, EditStep, New, ReplayOne
  <2> QED BY <2>1, <2>2 DEF LayerStep, Action
<1>3. CASE CommitManual
  <2> DEFINE r == req["manual"]
  <2>1. r.task \in Maybe /\ r.key \in Named /\ Len(features) + 1 \in Nat
    BY <1>3 DEF CommitManual, ManualInv
  <2>2. EditStep("manual_create", Len(features) + 1, r.task, r.key)
    BY <1>3 DEF CommitManual, EditStep, New
  <2> QED BY <2>1, <2>2 DEF LayerStep, Action
<1>4. CASE CommitHistory
  <2> DEFINE r == req["history"]
  <2>1. r.kind \in {"undo", "redo"} /\ r.edit \in DOMAIN audit
    BY <1>4 DEF CommitHistory, HistoryInv
  <2>2. ApplyStep(r.kind, r.edit) BY <1>4 DEF CommitHistory, HistoryInv, ApplyStep
  <2> QED BY <2>1, <2>2 DEF LayerStep
<1>5. CASE \E p \in Replayer : Recorded(p)
  BY <1>5 DEF Recorded, ReplayInv, LayerStep, SettleStep
<1>6. CASE \E p \in Replayer : Attempt(p)
  BY <1>6 DEF Attempt, Spend, LayerStep, QuietStep, layer
<1>7. CASE \/ \E p \in Replayer : Carry(p) \/ Replayed(p)
           \/ LockManual \/ RefuseManual \/ FenceHistory \/ CheckHistory
           \/ CountBlockers \/ WriteSession \/ CheckCall \/ WriteCall
           \/ \E p \in {"manual", "history"} : Release(p)
  BY <1>7 DEF Carry, Replayed, LockManual, RefuseManual, FenceHistory, CheckHistory,
     CountBlockers, WriteSession, CheckCall, WriteCall, Release, LayerStep, QuietStep, layer
<1>8. CASE Edits
  BY <1>8 DEF Edits, CreateFeature, UpdateFeature, DeleteFeature, CheckEdit, RetryEdit,
              LayerStep, QuietStep, layer
<1>9. CASE Requests
  <2>1. CASE \E to \in {"active", "paused", "completed", "archived"} : PatchSession(to)
    BY <2>1 DEF PatchSession, Spend, LayerStep, QuietStep, layer
  <2>2. ASSUME NEW kind, NEW t, NEW f, Call(kind, t, f) PROVE LayerStep
    BY <2>2 DEF Call, Spend, LayerStep, QuietStep, layer
  <2>3. CASE \/ RetryHistory \/ \E op \in {"undo", "redo"} : StartHistory(op)
             \/ \E t \in Task \cup {NoTask}, k \in Key : CheckManual(t, k)
    BY <2>3 DEF RetryHistory, StartHistory, CheckManual, LayerStep, QuietStep, layer
  <2> QED BY <1>9, <2>1, <2>2, <2>3 DEF Requests, PatchTask, ResolveTask, ReopenTask
<1>10. CASE DropProposal \/ Restart
  BY <1>10 DEF DropProposal, Restart, Spend, LayerStep, QuietStep, layer
<1> QED BY <1>1, <1>2, <1>3, <1>4, <1>5, <1>6, <1>7, <1>8, <1>9, <1>10
        DEF Next, Progress

\* Rows stay where they are; an intent changes nothing but its status.
LayerGrows ==
    /\ DOMAIN features \subseteq DOMAIN features'
    /\ DOMAIN audit \subseteq DOMAIN audit'
    /\ \A e \in DOMAIN audit : audit'[e].task = audit[e].task
    /\ DOMAIN outbox \subseteq DOMAIN outbox'
    /\ \A i \in DOMAIN outbox :
          /\ outbox'[i].kind = outbox[i].kind /\ outbox'[i].task = outbox[i].task
          /\ outbox'[i].feature = outbox[i].feature
          /\ outbox'[i].resolution = outbox[i].resolution

\* A transaction that enqueues an intent.
LEMMA EnqueueLemma ==
    ASSUME LayerTypes, NEW kind \in {"resolve", "reopen"}, NEW t \in Maybe, NEW f \in Nat,
           NEW action \in Action, NEW claim \in BOOLEAN, Enqueue(kind, t, f, action, claim)
    PROVE  /\ outbox' \in Seq(Intent) /\ Len(outbox) <= Len(outbox')
           /\ \A i \in DOMAIN outbox : outbox'[i] = outbox[i]
           /\ \A i \in DOMAIN outbox' \ DOMAIN outbox :
                 outbox'[i].feature = f /\ outbox'[i].status = "new"
<1> DEFINE row == [kind |-> kind, task |-> t, feature |-> f, resolution |-> Resolution(action),
                   claim |-> claim, status |-> "new"]
<1>1. outbox \in Seq(Intent) BY DEF LayerTypes
<1>2. CASE t = NoTask BY <1>1, <1>2 DEF Enqueue
<1>3. CASE t # NoTask
  <2>1. row \in Intent BY <1>3 DEF Intent, Maybe, Resolution
  <2>2. outbox' = Append(outbox, row) BY <1>3 DEF Enqueue
  <2> QED BY <1>1, <2>1, <2>2
<1> QED BY <1>2, <1>3

LEMMA WrittenLemma ==
    ASSUME bound \in [{"writes", "features", "requests", "faults"} -> Nat],
           NEW new \in BOOLEAN, bound["writes"] > 0, new => bound["features"] > 0
    PROVE  /\ Written(new) \in [{"writes", "features", "requests", "faults"} -> Nat]
           /\ Written(new)["writes"] = bound["writes"] - 1
<1> DEFINE kinds == {"writes", "features", "requests", "faults"}
           mid == [bound EXCEPT !["writes"] = bound["writes"] - 1]
           rest == IF new THEN bound["features"] - 1 ELSE bound["features"]
<1>1. bound["writes"] - 1 \in Nat /\ rest \in Nat OBVIOUS
<1>2. mid \in [kinds -> Nat] /\ mid["writes"] = bound["writes"] - 1
      /\ mid["features"] = bound["features"]
  BY <1>1
<1>3. Written(new) = [mid EXCEPT !["features"] = rest] BY <1>2 DEF Written
<1> QED BY <1>1, <1>2, <1>3

\* The part of LayerLinks that is about one edit.
RowLinked(r) ==
    /\ r.rev \in 2 .. revision /\ r.feature \in 1 .. Len(features)
    /\ r.before \in 0 .. revision /\ r.after \in 0 .. revision
    /\ r.lastOp \in 0 .. revision /\ r.intent \in 0 .. Len(outbox)

LEMMA RowFields ==
    ASSUME NEW r \in Row
    PROVE  /\ r.rev \in Nat /\ r.action \in Action /\ r.feature \in Nat /\ r.before \in Nat
           /\ r.after \in Nat /\ r.task \in Maybe /\ r.key \in Named /\ r.intent \in Nat
           /\ r.undone \in BOOLEAN /\ r.lastOp \in Nat
BY DEF Row

LEMMA Lengths ==
    ASSUME LayerTypes
    PROVE  /\ DOMAIN features = 1 .. Len(features) /\ Len(features) \in Nat
           /\ DOMAIN audit = 1 .. Len(audit) /\ Len(audit) \in Nat
           /\ DOMAIN requests = 1 .. Len(requests) /\ Len(requests) \in Nat
           /\ DOMAIN outbox = 1 .. Len(outbox) /\ Len(outbox) \in Nat
           /\ \A e \in 1 .. Len(audit) : audit[e] \in Row
           /\ \A i \in 1 .. Len(outbox) : outbox[i] \in Intent
           /\ \A f \in 1 .. Len(features) : features[f] \in Nat
BY DEF LayerTypes

LEMMA RowStays ==
    ASSUME NEW r, RowLinked(r), revision \in Nat, revision' = revision + 1,
           Len(features) \in Nat, Len(features') \in Nat, Len(features) <= Len(features'),
           Len(outbox) \in Nat, Len(outbox') \in Nat, Len(outbox) <= Len(outbox')
    PROVE  /\ r.rev \in 2 .. revision' /\ r.feature \in 1 .. Len(features')
           /\ r.before \in 0 .. revision' /\ r.after \in 0 .. revision'
           /\ r.lastOp \in 0 .. revision' /\ r.intent \in 0 .. Len(outbox')
<1>1. \A n \in 2 .. revision : n \in 2 .. revision' OBVIOUS
<1>2. \A n \in 0 .. revision : n \in 0 .. revision' OBVIOUS
<1>3. \A n \in 1 .. Len(features) : n \in 1 .. Len(features') OBVIOUS
<1>4. \A n \in 0 .. Len(outbox) : n \in 0 .. Len(outbox') OBVIOUS
<1> QED BY <1>1, <1>2, <1>3, <1>4, Zenon DEF RowLinked

LEMMA AuditLinked ==
    ASSUME LayerTypes, LayerLinks
    PROVE  \A d \in 1 .. Len(audit) : RowLinked(audit[d])
<1>1. /\ DOMAIN audit = 1 .. Len(audit) /\ DOMAIN features = 1 .. Len(features)
      /\ \A d \in 1 .. Len(audit) : audit[d] \in Row
  BY Lengths
<1> SUFFICES ASSUME NEW d \in 1 .. Len(audit) PROVE RowLinked(audit[d]) OBVIOUS
<1>2. /\ audit[d].rev \in 2 .. revision /\ audit[d].feature \in 1 .. Len(features)
      /\ audit[d].before <= revision /\ audit[d].after <= revision
      /\ audit[d].lastOp <= revision /\ audit[d].intent <= Len(outbox)
  BY <1>1 DEF LayerLinks
<1>3. /\ audit[d].before \in Nat /\ audit[d].after \in Nat
      /\ audit[d].lastOp \in Nat /\ audit[d].intent \in Nat
  BY <1>1, RowFields
<1>4. revision \in Nat /\ Len(outbox) \in Nat BY Lengths DEF LayerTypes
<1> QED BY <1>2, <1>3, <1>4 DEF RowLinked

LEMMA SameRowStays ==
    ASSUME NEW d, RowLinked(audit[d]), audit'[d] = audit[d],
           revision \in Nat, revision' = revision + 1,
           Len(features) \in Nat, Len(features') \in Nat, Len(features) <= Len(features'),
           Len(outbox) \in Nat, Len(outbox') \in Nat, Len(outbox) <= Len(outbox')
    PROVE  RowLinked(audit[d])'
<1> DEFINE r == audit[d]
<1>1. RowLinked(r) OBVIOUS
<1> HIDE DEF r
<1>2. /\ r.rev \in 2 .. revision' /\ r.feature \in 1 .. Len(features')
      /\ r.before \in 0 .. revision' /\ r.after \in 0 .. revision'
      /\ r.lastOp \in 0 .. revision' /\ r.intent \in 0 .. Len(outbox')
  BY <1>1, RowStays
<1>3. audit'[d] = r BY DEF r
<1> QED BY <1>2, <1>3, Zenon DEF RowLinked

LEMMA EditLemma ==
    ASSUME LayerTypes, LayerLinks, NEW action \in Action, NEW f \in Nat, NEW t \in Maybe,
           NEW k \in Named, EditStep(action, f, t, k)
    PROVE  LayerTypes' /\ LayerLinks' /\ LayerGrows
<1> DEFINE after  == IF action = "delete" THEN Gone ELSE revision + 1
           before == IF action \in New THEN Gone ELSE features[f]
           row == [rev |-> revision + 1, action |-> action, feature |-> f, before |-> before,
                   after |-> after, task |-> t, key |-> k, intent |-> Len(outbox'),
                   undone |-> FALSE, lastOp |-> 0]
<1>1. /\ revision' = revision + 1
      /\ features' = IF action \in New THEN Append(features, after)
                     ELSE [features EXCEPT ![f] = after]
      /\ Enqueue("resolve", t, f, action, FALSE)
      /\ audit' = Append(audit, row) /\ requests' = requests
      /\ bound' = Written(action \in New)
  BY DEF EditStep, Edit, New
<1>2. /\ outbox' \in Seq(Intent) /\ Len(outbox) <= Len(outbox')
      /\ \A i \in DOMAIN outbox : outbox'[i] = outbox[i]
      /\ \A i \in DOMAIN outbox' \ DOMAIN outbox : outbox'[i].feature = f
  BY <1>1, EnqueueLemma
<1>3. /\ revision \in Nat \ {0} /\ features \in Seq(Nat) /\ audit \in Seq(Row)
      /\ requests \in Seq(Applied) /\ Len(outbox) \in Nat /\ Len(outbox') \in Nat
  BY <1>2, Lengths DEF LayerTypes, LayerLinks
<1>4. after \in Nat /\ after <= revision + 1 BY <1>3 DEF Gone
<1>5. /\ features' \in Seq(Nat) /\ f \in 1 .. Len(features')
      /\ Len(features) <= Len(features') /\ Len(features') <= Len(features) + 1
      /\ \A g \in 1 .. Len(features') : features'[g] <= revision + 1
  <2>1. \A g \in 1 .. Len(features) : features[g] <= revision
    BY Lengths DEF LayerLinks
  <2>2. CASE action \in New
    <3>1. f = Len(features) + 1 /\ features' = Append(features, after)
      BY <1>1, <2>2 DEF EditStep
    <3> QED BY <1>3, <1>4, <2>1, <3>1
  <2>3. CASE action \notin New
    <3>1. f \in 1 .. Len(features) BY <2>3, Lengths DEF EditStep
    <3>2. /\ features' \in Seq(Nat) /\ Len(features') = Len(features)
          /\ \A g \in 1 .. Len(features) : features'[g] = IF g = f THEN after ELSE features[g]
      <4>1. features' = [features EXCEPT ![f] = after] BY <1>1, <2>3
      <4>2. features \in Seq(Nat) /\ after \in Nat BY <1>3, <1>4
      <4> HIDE DEF after
      <4> QED BY <3>1, <4>1, <4>2, ExceptSeq
    <3>3. after <= revision + 1 /\ revision \in Nat BY <1>3, <1>4
    <3>4. ASSUME NEW g \in 1 .. Len(features) PROVE features'[g] <= revision + 1
      <4>1. features[g] \in Nat /\ features[g] <= revision BY <2>1, Lengths
      <4>2. features'[g] = IF g = f THEN after ELSE features[g] BY <3>2
      <4> QED BY <3>3, <4>1, <4>2
    <3> QED BY <3>1, <3>2, <3>4, Lengths
  <2> QED BY <2>2, <2>3
<1>6. before \in Nat /\ before <= revision
  <2>1. CASE action \in New BY <1>3, <2>1 DEF Gone
  <2>2. CASE action \notin New
    <3>1. f \in 1 .. Len(features) BY <2>2, Lengths DEF EditStep
    <3> QED BY <1>3, <2>2, <3>1, Lengths DEF LayerLinks
  <2> QED BY <2>1, <2>2
<1>7. row \in Row BY <1>3, <1>4, <1>6 DEF Row
<1>8. bound' \in [{"writes", "features", "requests", "faults"} -> Nat]
      /\ bound'["writes"] = bound["writes"] - 1
  <2>1. bound["writes"] > 0 /\ (action \in New => bound["features"] > 0) BY DEF EditStep
  <2>2. (action \in New) \in BOOLEAN OBVIOUS
  <2>3. /\ Written(action \in New) \in [{"writes", "features", "requests", "faults"} -> Nat]
        /\ Written(action \in New)["writes"] = bound["writes"] - 1
    BY <2>1, <2>2, WrittenLemma DEF LayerTypes
  <2> QED BY <1>1, <2>3
<1>9. /\ audit' \in Seq(Row) /\ Len(audit') = Len(audit) + 1 /\ audit'[Len(audit) + 1] = row
      /\ \A e \in 1 .. Len(audit) : audit'[e] = audit[e]
  BY <1>1, <1>3, <1>7
<1>10. LayerTypes' BY <1>1, <1>2, <1>3, <1>5, <1>8, <1>9 DEF LayerTypes
<1> HIDE DEF row
<1>13. /\ revision \in Nat \ {0} /\ revision' = revision + 1
       /\ Len(features) \in Nat /\ Len(features') \in Nat /\ Len(features) <= Len(features')
       /\ Len(outbox) \in Nat /\ Len(outbox') \in Nat /\ Len(outbox) <= Len(outbox')
  BY <1>1, <1>2, <1>3, <1>5, Lengths
<1>11. LayerLinks'
  <2>1. revision' > 0 /\ revision' + bound'["writes"] <= MaxRevision
    <3>1. bound["writes"] \in Nat /\ revision + bound["writes"] <= MaxRevision
      BY DEF LayerTypes, LayerLinks
    <3>2. bound'["writes"] = bound["writes"] - 1 BY <1>8
    <3> QED BY <1>13, <3>1, <3>2, LayerAssumption
  <2>2. Len(features') <= Sources + revision'
    <3>1. Len(features) <= Sources + revision BY DEF LayerLinks
    <3>2. Len(features') <= Len(features) + 1 BY <1>5
    <3> QED BY <1>13, <3>1, <3>2, LayerAssumption
  <2>3. \A g \in DOMAIN features' : features'[g] <= revision'
    <3>1. \A g \in 1 .. Len(features') : features'[g] <= revision' BY <1>5, <1>13
    <3>2. DOMAIN features' = 1 .. Len(features') BY <1>10, Lengths
    <3> QED BY <3>1, <3>2
  <2>4. ASSUME NEW e \in 1 .. Len(audit) + 1 PROVE RowLinked(audit[e])'
    <3>1. CASE e \in 1 .. Len(audit)
      <4>1. audit'[e] = audit[e] BY <1>9, <3>1
      <4>2. RowLinked(audit[e]) BY <3>1, AuditLinked
      <4>3. revision \in Nat BY <1>13
      <4> QED BY <1>13, <4>1, <4>2, <4>3, SameRowStays
    <3>2. CASE e = Len(audit) + 1
      <4>1. audit'[e] = row BY <1>9, <3>2
      <4>2. /\ row.rev = revision + 1 /\ row.feature = f /\ row.before = before
            /\ row.after = after /\ row.lastOp = 0 /\ row.intent = Len(outbox')
        BY DEF row
      <4>3. f \in 1 .. Len(features') /\ before \in 0 .. revision' /\ after \in 0 .. revision'
        BY <1>4, <1>5, <1>6, <1>13
      <4> HIDE DEF before, after
      <4> QED BY <1>13, <4>1, <4>2, <4>3 DEF RowLinked
    <3> QED BY <3>1, <3>2, Lengths
  <2>5. \A e \in DOMAIN audit' : RowLinked(audit[e])' BY <1>9, <2>4
  <2>6. \A n \in DOMAIN requests' : requests'[n].edit \in DOMAIN audit'
    BY <1>1, <1>9, Lengths DEF LayerLinks
  <2>7. \A i \in DOMAIN outbox' : outbox'[i].feature \in DOMAIN features'
    <3>1. \A i \in DOMAIN outbox : outbox[i].feature \in 1 .. Len(features)
      BY Lengths DEF LayerLinks
    <3> QED BY <1>2, <1>5, <3>1, Lengths
  <2>8. \A e \in DOMAIN audit' : /\ audit'[e].rev \in 2 .. revision'
                                  /\ audit'[e].feature \in DOMAIN features'
                                  /\ audit'[e].before <= revision'
                                  /\ audit'[e].after <= revision'
                                  /\ audit'[e].lastOp <= revision'
                                  /\ audit'[e].intent <= Len(outbox')
    <3>1. DOMAIN features' = 1 .. Len(features') BY <1>10, Lengths
    <3> QED BY <1>13, <2>5, <3>1 DEF RowLinked
  <2> QED BY <2>1, <2>2, <2>3, <2>6, <2>7, <2>8 DEF LayerLinks
<1>12. LayerGrows
  <2>1. DOMAIN outbox \subseteq DOMAIN outbox' BY <1>2, Lengths
  <2>2. DOMAIN features \subseteq DOMAIN features' BY <1>5, Lengths
  <2>3. DOMAIN audit \subseteq DOMAIN audit' BY <1>9, Lengths
  <2> QED BY <1>2, <1>9, <2>1, <2>2, <2>3, Lengths DEF LayerGrows
<1> QED BY <1>10, <1>11, <1>12

LEMMA ApplyLemma ==
    ASSUME LayerTypes, LayerLinks, NEW op \in {"undo", "redo"}, NEW e \in DOMAIN audit,
           ApplyStep(op, e)
    PROVE  LayerTypes' /\ LayerLinks' /\ LayerGrows
<1> DEFINE f == audit[e].feature
           content == IF op = "undo" THEN audit[e].before ELSE audit[e].after
           row == [audit[e] EXCEPT !.undone = (op = "undo"), !.lastOp = revision + 1]
           request == [op |-> op, edit |-> e, intent |-> Len(outbox')]
<1>1. e \in 1 .. Len(audit) /\ audit[e] \in Row /\ RowLinked(audit[e])
  BY Lengths, RowFields DEF LayerLinks, RowLinked
<1>2. /\ revision' = revision + 1
      /\ features' = [features EXCEPT ![f] = content]
      /\ audit' = [audit EXCEPT ![e] = row]
      /\ requests' = Append(requests, request)
      /\ bound' = Written(FALSE)
  BY <1>1 DEF ApplyStep, Apply
<1>3. /\ outbox' \in Seq(Intent) /\ Len(outbox) <= Len(outbox')
      /\ \A i \in DOMAIN outbox : outbox'[i] = outbox[i]
      /\ \A i \in DOMAIN outbox' \ DOMAIN outbox : outbox'[i].feature = f
  <2>1. Enqueue(IF op = "undo" THEN "reopen" ELSE "resolve", audit[e].task, f,
                audit[e].action, op = "redo")
    BY DEF ApplyStep, Apply
  <2>2. audit[e].task \in Maybe /\ f \in Nat /\ audit[e].action \in Action
    BY <1>1, RowFields
  <2>3. (IF op = "undo" THEN "reopen" ELSE "resolve") \in {"resolve", "reopen"}
        /\ (op = "redo") \in BOOLEAN
    OBVIOUS
  <2> QED BY <2>1, <2>2, <2>3, EnqueueLemma
<1>4. /\ revision \in Nat \ {0} /\ features \in Seq(Nat) /\ audit \in Seq(Row)
      /\ requests \in Seq(Applied) /\ Len(outbox) \in Nat /\ Len(outbox') \in Nat
  BY <1>3, Lengths DEF LayerTypes, LayerLinks
<1>5. f \in 1 .. Len(features) /\ content \in Nat /\ content <= revision
  BY <1>1, <1>4 DEF RowLinked
<1>16. f = audit[e].feature OBVIOUS
<1> HIDE DEF f, content
<1>6. /\ features' \in Seq(Nat) /\ Len(features') = Len(features)
      /\ \A g \in 1 .. Len(features) : features'[g] = IF g = f THEN content ELSE features[g]
  <2>1. features' = [features EXCEPT ![f] = content] BY <1>2
  <2>2. features \in Seq(Nat) BY <1>4
  <2>3. f \in 1 .. Len(features) /\ content \in Nat BY <1>5
  <2> QED BY <2>1, <2>2, <2>3, ExceptSeq
<1>7. row \in Row /\ row.task = audit[e].task /\ row.rev = audit[e].rev
      /\ row.feature = f /\ row.before = audit[e].before /\ row.after = audit[e].after
      /\ row.intent = audit[e].intent /\ row.lastOp = revision + 1
  <2>1. row.task = audit[e].task /\ row.rev = audit[e].rev
        /\ row.feature = f /\ row.before = audit[e].before /\ row.after = audit[e].after
        /\ row.intent = audit[e].intent /\ row.lastOp = revision + 1
    BY <1>1, <1>16 DEF Row
  <2>2. revision + 1 \in Nat /\ (op = "undo") \in BOOLEAN BY <1>4
  <2>3. row \in Row BY <1>1, <2>2 DEF Row
  <2> QED BY <2>1, <2>3
<1> HIDE DEF row
<1>8. /\ audit' \in Seq(Row) /\ Len(audit') = Len(audit)
      /\ \A d \in 1 .. Len(audit) : audit'[d] = IF d = e THEN row ELSE audit[d]
  <2>1. audit' = [audit EXCEPT ![e] = row] BY <1>2 DEF row
  <2>2. audit \in Seq(Row) /\ e \in 1 .. Len(audit) BY <1>1, <1>4
  <2>3. row \in Row BY <1>7
  <2> QED BY <2>1, <2>2, <2>3, ExceptSeq
<1>9. bound' \in [{"writes", "features", "requests", "faults"} -> Nat]
      /\ bound'["writes"] = bound["writes"] - 1
  BY <1>2, WrittenLemma DEF ApplyStep, LayerTypes
<1>10. request \in Applied BY <1>1, <1>4, Lengths DEF Applied
<1>11. requests' \in Seq(Applied) /\ Len(requests') = Len(requests) + 1
       /\ requests'[Len(requests) + 1].edit = e
       /\ \A n \in 1 .. Len(requests) : requests'[n] = requests[n]
  BY <1>2, <1>4, <1>10
<1>15. /\ revision \in Nat \ {0} /\ revision' = revision + 1
       /\ Len(features) \in Nat /\ Len(features') = Len(features)
       /\ Len(outbox) \in Nat /\ Len(outbox') \in Nat /\ Len(outbox) <= Len(outbox')
  BY <1>2, <1>3, <1>4, <1>6, Lengths
<1>12. LayerTypes'
  <2>1. revision' \in Nat BY <1>15
  <2> QED BY <1>3, <1>6, <1>8, <1>9, <1>11, <2>1 DEF LayerTypes
<1>13. LayerLinks'
  <2>1. revision' > 0 /\ revision' + bound'["writes"] <= MaxRevision
    <3>1. bound["writes"] \in Nat /\ revision + bound["writes"] <= MaxRevision
      BY DEF LayerTypes, LayerLinks
    <3>2. bound'["writes"] = bound["writes"] - 1 BY <1>9
    <3> QED BY <1>15, <3>1, <3>2, LayerAssumption
  <2>2. Len(features') <= Sources + revision'
    <3>1. Len(features) <= Sources + revision BY DEF LayerLinks
    <3> QED BY <1>15, <3>1, LayerAssumption
  <2>3. \A g \in DOMAIN features' : features'[g] <= revision'
    <3>1. \A g \in 1 .. Len(features) : features[g] \in Nat /\ features[g] <= revision
      BY Lengths DEF LayerLinks
    <3>2. ASSUME NEW g \in 1 .. Len(features) PROVE features'[g] <= revision'
      <4>1. features'[g] = IF g = f THEN content ELSE features[g] BY <1>6
      <4>2. features[g] \in Nat /\ features[g] <= revision BY <3>1
      <4> QED BY <1>5, <1>15, <4>1, <4>2
    <3>3. DOMAIN features' = 1 .. Len(features) BY <1>6
    <3> QED BY <3>2, <3>3
  <2>4. ASSUME NEW d \in 1 .. Len(audit) PROVE RowLinked(audit[d])'
    <3>1. RowLinked(audit[d]) BY AuditLinked
    <3>2. audit'[d] = IF d = e THEN row ELSE audit[d] BY <1>8
    <3>3. CASE d = e
      <4>1. audit'[d] = row BY <3>2, <3>3
      <4>2. RowLinked(audit[d])'
        <5>1. RowLinked(audit[e]) BY <1>1
        <5>2. /\ row.rev = audit[e].rev /\ row.feature = audit[e].feature
              /\ row.before = audit[e].before /\ row.after = audit[e].after
              /\ row.intent = audit[e].intent /\ row.lastOp = revision + 1
          BY <1>7, <1>16
        <5>3. /\ audit[e].rev \in 2 .. revision' /\ audit[e].feature \in 1 .. Len(features')
              /\ audit[e].before \in 0 .. revision' /\ audit[e].after \in 0 .. revision'
              /\ audit[e].intent \in 0 .. Len(outbox')
          <6>1. Len(features) <= Len(features') /\ revision \in Nat BY <1>15
          <6> QED BY <1>15, <5>1, <6>1, RowStays
        <5>4. /\ row.rev \in 2 .. revision' /\ row.feature \in 1 .. Len(features')
              /\ row.before \in 0 .. revision' /\ row.after \in 0 .. revision'
              /\ row.intent \in 0 .. Len(outbox')
          BY <5>2, <5>3
        <5>5. row.lastOp \in 0 .. revision' BY <1>15, <5>2
        <5> QED BY <4>1, <5>4, <5>5, Zenon DEF RowLinked
      <4> QED BY <4>2
    <3>4. CASE d # e
      <4>1. audit'[d] = audit[d] BY <3>2, <3>4
      <4>2. Len(features) <= Len(features') /\ revision \in Nat BY <1>15
      <4> QED BY <1>15, <3>1, <4>1, <4>2, SameRowStays
    <3> QED BY <3>3, <3>4
  <2>5. \A d \in DOMAIN audit' : RowLinked(audit[d])' BY <1>8, <2>4
  <2>6. \A n \in DOMAIN requests' : requests'[n].edit \in DOMAIN audit'
    <3>1. \A n \in 1 .. Len(requests) : requests[n].edit \in 1 .. Len(audit)
      BY Lengths DEF LayerLinks
    <3> QED BY <1>1, <1>8, <1>11, <3>1
  <2>7. \A i \in DOMAIN outbox' : outbox'[i].feature \in DOMAIN features'
    <3>1. \A i \in DOMAIN outbox : outbox[i].feature \in 1 .. Len(features)
      BY Lengths DEF LayerLinks
    <3>2. DOMAIN features' = 1 .. Len(features) BY <1>6
    <3>3. ASSUME NEW i \in DOMAIN outbox' PROVE outbox'[i].feature \in 1 .. Len(features)
      <4>1. CASE i \in DOMAIN outbox BY <1>3, <3>1, <4>1
      <4>2. CASE i \notin DOMAIN outbox BY <1>3, <1>5, <4>2
      <4> QED BY <4>1, <4>2
    <3> QED BY <3>2, <3>3
  <2>8. \A d \in DOMAIN audit' : /\ audit'[d].rev \in 2 .. revision'
                                  /\ audit'[d].feature \in DOMAIN features'
                                  /\ audit'[d].before <= revision'
                                  /\ audit'[d].after <= revision'
                                  /\ audit'[d].lastOp <= revision'
                                  /\ audit'[d].intent <= Len(outbox')
    <3>1. DOMAIN features' = 1 .. Len(features') BY <1>12, Lengths
    <3> QED BY <1>15, <2>5, <3>1 DEF RowLinked
  <2> QED BY <2>1, <2>2, <2>3, <2>6, <2>7, <2>8 DEF LayerLinks
<1>14. LayerGrows
  <2>1. DOMAIN outbox \subseteq DOMAIN outbox' BY <1>3, Lengths
  <2>2. DOMAIN features = DOMAIN features' BY <1>6, Lengths
  <2>3. DOMAIN audit = DOMAIN audit' BY <1>8, Lengths
  <2>4. \A d \in DOMAIN audit : audit'[d].task = audit[d].task BY <1>7, <1>8, Lengths
  <2> QED BY <1>3, <2>1, <2>2, <2>3, <2>4 DEF LayerGrows
<1> QED BY <1>12, <1>13, <1>14

LEMMA SettleLemma ==
    ASSUME LayerTypes, LayerLinks, NEW i \in DOMAIN outbox,
           NEW s \in {"reconciled", "pending", "error"}, SettleStep(i, s)
    PROVE  LayerTypes' /\ LayerLinks' /\ LayerGrows
<1> DEFINE row == [outbox[i] EXCEPT !.status = s]
<1>1. i \in 1 .. Len(outbox) /\ outbox[i] \in Intent BY Lengths
<1>2. row \in Intent /\ row.kind = outbox[i].kind /\ row.task = outbox[i].task
      /\ row.feature = outbox[i].feature /\ row.resolution = outbox[i].resolution
  BY <1>1 DEF Intent
<1>3. outbox' = [outbox EXCEPT ![i] = row] BY <1>1 DEF SettleStep, Settle
<1> HIDE DEF row
<1>4. /\ outbox' \in Seq(Intent) /\ Len(outbox') = Len(outbox)
      /\ \A j \in 1 .. Len(outbox) : outbox'[j] = IF j = i THEN row ELSE outbox[j]
  <2>1. outbox \in Seq(Intent) BY DEF LayerTypes
  <2> QED BY <1>1, <1>2, <1>3, <2>1, ExceptSeq
<1>5. UNCHANGED <<revision, features, audit, requests, bound>> BY DEF SettleStep, Settle
<1>6. LayerTypes' BY <1>4, <1>5 DEF LayerTypes
<1>7. LayerGrows
  <2>1. DOMAIN outbox' = 1 .. Len(outbox) BY <1>4
  <2> QED BY <1>2, <1>4, <1>5, <2>1, Lengths DEF LayerGrows
<1>8. LayerLinks'
  <2>1. \A j \in DOMAIN outbox' : outbox'[j].feature \in DOMAIN features'
    BY <1>2, <1>4, <1>5, Lengths DEF LayerLinks
  <2> QED BY <1>4, <1>5, <2>1 DEF LayerLinks
<1> QED BY <1>6, <1>7, <1>8

\* What every step does to the layer.
LEMMA LayerLemma == IndInv /\ [Next]_vars => LayerTypes' /\ LayerLinks' /\ LayerGrows
<1> SUFFICES ASSUME IndInv, [Next]_vars PROVE LayerTypes' /\ LayerLinks' /\ LayerGrows
  OBVIOUS
<1>1. LayerTypes /\ LayerLinks /\ LayerStep BY LayerStepLemma DEF IndInv
<1>2. CASE QuietStep
  <2>1. UNCHANGED <<revision, features, audit, requests, outbox>>
    BY <1>2 DEF QuietStep, layer
  <2>2. /\ bound' \in [{"writes", "features", "requests", "faults"} -> Nat]
        /\ bound'["writes"] = bound["writes"]
    BY <1>2 DEF QuietStep
  <2> QED BY <1>1, <2>1, <2>2 DEF LayerTypes, LayerLinks, LayerGrows
<1>3. CASE \E a \in Action, f \in Nat, t \in Maybe, k \in Named : EditStep(a, f, t, k)
  BY <1>1, <1>3, EditLemma
<1>4. CASE \E op \in {"undo", "redo"}, e \in DOMAIN audit : ApplyStep(op, e)
  BY <1>1, <1>4, ApplyLemma
<1>5. CASE \E i \in DOMAIN outbox, s \in {"reconciled", "pending", "error"} : SettleStep(i, s)
  BY <1>1, <1>5, SettleLemma
<1> QED BY <1>1, <1>2, <1>3, <1>4, <1>5 DEF LayerStep

------------------------------------------------------------------------------
(* What a step does to the registry *)

Edge(from, to) ==
    \/ from = "todo" /\ to = "in_progress"
    \/ from = "in_progress" /\ to \in Terminal
    \/ from \in Terminal /\ to = "todo"

UpdateStep(t, from, to, f) == Edge(from, to) /\ Update(t, from, to, f) /\ UNCHANGED session

RegistryStep ==
    \/ UNCHANGED registry
    \/ WriteSession
    \/ \E t \in Task, from \in Status, to \in Status, f \in {0} \cup DOMAIN features :
          UpdateStep(t, from, to, f)

LEMMA IntentFields ==
    ASSUME NEW i \in Intent
    PROVE  /\ i.kind \in {"resolve", "reopen"} /\ i.task \in Task /\ i.feature \in Nat
           /\ i.resolution \in {"manual_added", "corrected"} /\ i.claim \in BOOLEAN
           /\ i.status \in {"new", "pending", "error", "reconciled"}
BY DEF Intent

LEMMA CarryUpdates ==
    ASSUME IndInv, NEW p \in Replayer, Carry(p)
    PROVE  \E t \in Task, from \in Status, to \in Status, f \in {0} \cup DOMAIN features :
              UpdateStep(t, from, to, f)
<1> DEFINE n == plan[p].intent
           i == outbox[n]
           f == IF plan[p].do = "resolve" THEN i.feature ELSE 0
<1>1. n \in DOMAIN outbox BY DEF IndInv, ReplayInv, Carry
<1>2. i \in Intent BY <1>1, Lengths DEF IndInv
<1>3. i.task \in Task /\ i.resolution \in {"manual_added", "corrected"} BY <1>2, IntentFields
<1>4. f \in {0} \cup DOMAIN features BY <1>1 DEF IndInv, LayerLinks
<1>5. CASE plan[p].do = "reopen"
  <2>1. UpdateStep(i.task, i.resolution, "todo", f)
    BY <1>3, <1>5 DEF Carry, UpdateStep, Edge, Terminal
  <2> QED BY <1>3, <1>4, <2>1 DEF Status, Open, Terminal
<1>6. CASE plan[p].do = "claim"
  <2>1. UpdateStep(i.task, "todo", "in_progress", f)
    BY <1>3, <1>6 DEF Carry, UpdateStep, Edge, Terminal
  <2> QED BY <1>3, <1>4, <2>1 DEF Status, Open, Terminal
<1>7. CASE plan[p].do = "resolve"
  <2>1. UpdateStep(i.task, "in_progress", i.resolution, f)
    BY <1>3, <1>7 DEF Carry, UpdateStep, Edge, Terminal
  <2> QED BY <1>3, <1>4, <2>1 DEF Status, Open, Terminal
<1> QED BY <1>5, <1>6, <1>7 DEF Carry

LEMMA CallUpdates ==
    ASSUME IndInv, WriteCall
    PROVE  \E t \in Task, from \in Status, to \in Status, f \in {0} \cup DOMAIN features :
              UpdateStep(t, from, to, f)
<1> DEFINE r == req["call"]
           to == CASE r.kind = "claim" -> "in_progress" [] r.kind = "reopen" -> "todo"
                   [] OTHER -> r.kind
<1>1. /\ r.kind \in {"claim", "dismissed", "reopen", "manual_added", "corrected"}
      /\ r.task \in Task /\ r.feature \in {0} \cup DOMAIN features /\ r.seen \in Status
      /\ r.kind = "claim" => r.seen = "todo"
      /\ r.kind = "reopen" => r.seen \in Terminal
      /\ r.kind \notin {"claim", "reopen"} => r.seen = "in_progress"
  BY DEF IndInv, ProcessInv, CallInv, WriteCall
<1>2. to \in Status /\ Edge(r.seen, to) BY <1>1 DEF Edge, Status, Open, Terminal
<1>3. UpdateStep(r.task, r.seen, to, r.feature) BY <1>2 DEF UpdateStep, WriteCall
<1> QED BY <1>1, <1>2, <1>3

LEMMA RegistryStepLemma == IndInv /\ [Next]_vars => RegistryStep
<1> SUFFICES ASSUME IndInv, [Next]_vars PROVE RegistryStep OBVIOUS
<1>1. CASE UNCHANGED vars BY <1>1 DEF RegistryStep, vars, registry
<1>2. CASE \E p \in Replayer : Carry(p) BY <1>2, CarryUpdates DEF RegistryStep
<1>3. CASE WriteCall BY <1>3, CallUpdates DEF RegistryStep
<1>4. CASE WriteSession BY <1>4 DEF RegistryStep
<1>5. CASE \/ CommitEdit \/ LockManual \/ CommitManual \/ RefuseManual
           \/ FenceHistory \/ CheckHistory \/ CommitHistory \/ CountBlockers \/ CheckCall
           \/ \E p \in {"manual", "history"} : Release(p)
           \/ \E p \in Replayer : Attempt(p) \/ Recorded(p) \/ Replayed(p)
  BY <1>5 DEF CommitEdit, LockManual, CommitManual, RefuseManual, FenceHistory, CheckHistory,
     CommitHistory, CountBlockers, CheckCall, Release, Attempt, Recorded, Replayed,
     RegistryStep, registry
<1>6. CASE Edits
  BY <1>6 DEF Edits, CreateFeature, UpdateFeature, DeleteFeature, CheckEdit, RetryEdit,
              RegistryStep, registry
<1>7. CASE Requests
  <2>1. ASSUME NEW to, PatchSession(to) PROVE RegistryStep
    BY <2>1 DEF PatchSession, RegistryStep, registry
  <2>2. ASSUME NEW kind, NEW t, NEW f, Call(kind, t, f) PROVE RegistryStep
    BY <2>2 DEF Call, RegistryStep, registry
  <2>3. CASE \/ RetryHistory \/ \E op \in {"undo", "redo"} : StartHistory(op)
             \/ \E t \in Task \cup {NoTask}, k \in Key : CheckManual(t, k)
    BY <2>3 DEF RetryHistory, StartHistory, CheckManual, RegistryStep, registry
  <2> QED BY <1>7, <2>1, <2>2, <2>3 DEF Requests, PatchTask, ResolveTask, ReopenTask
<1>8. CASE DropProposal \/ Restart BY <1>8 DEF DropProposal, Restart, RegistryStep, registry
<1> QED BY <1>1, <1>2, <1>3, <1>4, <1>5, <1>6, <1>7, <1>8 DEF Next, Progress

\* The fence of the tasks and of the end of a session, for any step.
LEMMA RegistryLemma ==
    IndInv /\ [Next]_vars => Registry' /\ TasksFenced /\ CompletedWhenDone
<1> SUFFICES ASSUME IndInv, [Next]_vars PROVE Registry' /\ TasksFenced /\ CompletedWhenDone
  OBVIOUS
<1>1. Registry /\ RegistryStep /\ DOMAIN features \subseteq DOMAIN features'
  BY RegistryStepLemma, LayerLemma DEF IndInv, LayerGrows
<1>2. CASE UNCHANGED registry
  BY <1>1, <1>2 DEF registry, Registry, TasksFenced, CompletedWhenDone
<1>3. CASE WriteSession
  <2>1. req["loop"].to \in SessionStatus BY <1>3 DEF IndInv, ProcessInv, LoopInv, WriteSession
  <2>2. Registry' BY <1>1, <1>3, <2>1 DEF WriteSession, Registry
  <2>3. TasksFenced BY <1>3 DEF WriteSession, TasksFenced
  <2>4. CompletedWhenDone
    BY <1>1, <1>3 DEF WriteSession, CompletedWhenDone, Registry, Status
  <2> QED BY <2>2, <2>3, <2>4
<1>4. ASSUME NEW t \in Task, NEW from \in Status, NEW to \in Status,
             NEW f \in {0} \cup DOMAIN features, UpdateStep(t, from, to, f)
      PROVE  Registry' /\ TasksFenced /\ CompletedWhenDone
  <2>1. session' = session BY <1>4 DEF UpdateStep
  <2>2. CASE tasks' = tasks
    BY <1>1, <2>1, <2>2 DEF Registry, TasksFenced, CompletedWhenDone
  <2>3. CASE tasks' # tasks
    <3>1. /\ tasks' = [tasks EXCEPT ![t] = [status |-> to, feature |-> f]]
          /\ tasks[t].status = from /\ session = "active" /\ Edge(from, to)
      BY <1>4, <2>3 DEF UpdateStep, Update, Outcome, Ended
    <3>2. f \in Nat BY Lengths DEF IndInv
    <3>3. Registry' BY <1>1, <2>1, <3>1, <3>2 DEF Registry
    <3>4. \A u \in Task : tasks'[u] # tasks[u] => u = t BY <1>1, <3>1 DEF Registry
    <3>5. tasks'[t].status = to BY <1>1, <3>1 DEF Registry
    <3>6. TasksFenced BY <3>1, <3>4, <3>5 DEF TasksFenced, Edge
    <3>7. CompletedWhenDone BY <2>1 DEF CompletedWhenDone
    <3> QED BY <3>3, <3>6, <3>7
  <2> QED BY <2>2, <2>3
<1> QED BY <1>1, <1>2, <1>3, <1>4 DEF RegistryStep

------------------------------------------------------------------------------
(* What a step does to the replay *)

LEMMA Queues ==
    /\ DOMAIN Outstanding \subseteq DOMAIN outbox
    /\ \A i : DOMAIN Only(i) = {i} \ {0}
    /\ \A i : Unsettled(i) \in DOMAIN outbox \cup {0}
BY DEF Outstanding, Only, Unsettled

LEMMA DecisionLemma ==
    ASSUME NEW i \in Intent
    PROVE  /\ Decision(i) \in Doing \ {"none"}
           /\ Decision(i) = "reconciled" => Desired(i, tasks[i.task])
           /\ Decision(i) = "reopen" => i.kind = "reopen"
           /\ Decision(i) \in {"claim", "resolve"} => i.kind = "resolve"
BY IntentFields DEF Decision, Doing

LEMMA AttemptLemma ==
    ASSUME IndInv, NEW p \in Replayer, Attempt(p)
    PROVE  ReplayInv' /\ \A q \in Replayer : plan'[q].do = "reconciled" => plan'[q].intent \in reached
<1> PICK i \in DOMAIN queue[p] :
         \/ plan' = [plan EXCEPT ![p] = [do |-> Decision(outbox[i]), intent |-> i]]
         \/ plan' = [plan EXCEPT ![p] = [do |-> "pending", intent |-> i]]
  BY DEF Attempt
<1>1. PICK d : plan' = [plan EXCEPT ![p] = [do |-> d, intent |-> i]]
               /\ (d = Decision(outbox[i]) \/ d = "pending")
  OBVIOUS
<1>2. i \in DOMAIN outbox /\ outbox[i] \in Intent /\ i \in Nat
  BY Lengths DEF IndInv, ReplayInv
<1>3. /\ d \in Doing \ {"none"}
      /\ d = "reconciled" => Desired(outbox[i], tasks[outbox[i].task])
      /\ d = "reopen" => outbox[i].kind = "reopen"
      /\ d \in {"claim", "resolve"} => outbox[i].kind = "resolve"
  BY <1>1, <1>2, DecisionLemma DEF Doing
<1>4. /\ pc[p] = "replay" /\ UNCHANGED <<pc, queue, outbox>>
  BY DEF Attempt, layer
<1>5. \A q \in Replayer : plan'[q] = IF q = p THEN [do |-> d, intent |-> i] ELSE plan[q]
  BY <1>1 DEF IndInv, ReplayInv
<1>6. ReplayInv'
  <2>1. plan' \in [Replayer -> [do : Doing, intent : Nat]]
    BY <1>1, <1>2, <1>3 DEF IndInv, ReplayInv
  <2> QED BY <1>3, <1>4, <1>5, <2>1 DEF IndInv, ReplayInv
<1>7. d = "reconciled" => i \in reached BY <1>2, <1>3 DEF IndInv, HonestInv
<1> QED BY <1>5, <1>6, <1>7 DEF IndInv, HonestInv

\* A carried intent is reached, whatever came of its write.
LEMMA CarryLemma ==
    ASSUME IndInv, NEW p \in Replayer, Carry(p)
    PROVE  ReplayInv' /\ \A q \in Replayer : plan'[q].do = "reconciled" => plan'[q].intent \in reached'
<1> DEFINE n == plan[p].intent
           i == outbox[n]
           do == plan[p].do
           from == CASE do = "reopen"  -> i.resolution
                     [] do = "claim"   -> "todo"
                     [] do = "resolve" -> "in_progress"
           to   == CASE do = "reopen"  -> "todo"
                     [] do = "claim"   -> "in_progress"
                     [] do = "resolve" -> i.resolution
           answer == Outcome(i.task, from)
           next == IF answer = "updated"
                   THEN IF do = "claim" THEN "resolve" ELSE "reconciled"
                   ELSE IF do = "claim" /\ answer = "stale"
                           /\ tasks[i.task].status = "in_progress" THEN "resolve"
                   ELSE Refused(i, answer)
           f == IF do = "resolve" THEN i.feature ELSE 0
<1>1. /\ pc[p] = "replay" /\ do \in {"reopen", "claim", "resolve"}
      /\ Update(i.task, from, to, f) /\ plan' = [plan EXCEPT ![p].do = next]
      /\ UNCHANGED <<pc, queue, outbox>> /\ Witness(tasks')
  BY DEF Carry, layer
<1>2. /\ n \in DOMAIN queue[p] /\ n \in DOMAIN outbox /\ n \in Nat /\ i \in Intent
      /\ do = "reopen" => i.kind = "reopen"
      /\ do \in {"claim", "resolve"} => i.kind = "resolve"
      /\ plan[p] \in [do : Doing, intent : Nat]
  BY <1>1, Lengths DEF IndInv, ReplayInv
<1>3. i.task \in Task /\ tasks[i.task] \in [status : Status, feature : Nat]
      /\ tasks \in [Task -> [status : Status, feature : Nat]]
  BY <1>2, IntentFields DEF IndInv, Registry
<1>4. \A j \in DOMAIN outbox : Desired(outbox[j], tasks'[outbox[j].task]) => j \in reached'
  BY <1>1 DEF Witness
<1>5. Refused(i, answer) \in {"pending", "error", "reconciled"}
      /\ (Refused(i, answer) = "reconciled" => Desired(i, tasks[i.task]))
  BY DEF Refused
<1>6. /\ next \in {"resolve", "reconciled", "pending", "error"}
      /\ next = "resolve" => do = "claim"
  BY <1>1, <1>5
<1>7. next = "reconciled" => n \in reached'
  <2>1. CASE answer # "updated"
    <3>1. tasks' = tasks BY <1>1, <2>1 DEF Update
    <3>2. next = "reconciled" => Desired(i, tasks[i.task]) BY <1>5, <2>1
    <3> HIDE DEF next
    <3> QED BY <1>2, <1>4, <3>1, <3>2
  <2>2. CASE answer = "updated" /\ do # "claim"
    <3>1. tasks'[i.task] = [status |-> to, feature |-> f] BY <1>1, <1>3, <2>2 DEF Update
    <3>2. Desired(i, tasks'[i.task]) BY <1>1, <1>2, <2>2, <3>1, IntentFields DEF Desired
    <3> QED BY <1>2, <1>4, <3>2
  <2>3. CASE answer = "updated" /\ do = "claim" BY <2>3
  <2> QED BY <2>1, <2>2, <2>3
<1> HIDE DEF next, from, to, f
<1>8. \A q \in Replayer : plan'[q] = IF q = p THEN [do |-> next, intent |-> n] ELSE plan[q]
  BY <1>1, <1>2 DEF IndInv, ReplayInv
<1>9. plan' \in [Replayer -> [do : Doing, intent : Nat]]
  BY <1>1, <1>2, <1>6, <1>8 DEF IndInv, ReplayInv, Doing
<1>10. ReplayInv'
  BY <1>1, <1>2, <1>6, <1>8, <1>9 DEF IndInv, ReplayInv
<1>11. reached \subseteq reached' BY <1>1 DEF Witness
<1> QED BY <1>7, <1>8, <1>10, <1>11 DEF IndInv, HonestInv

LEMMA RecordedLemma ==
    ASSUME IndInv, NEW p \in Replayer, Recorded(p)
    PROVE  ReplayInv' /\ HonestInv'
<1> DEFINE n == plan[p].intent
<1>1. /\ pc[p] = "replay" /\ plan[p].do \in {"reconciled", "pending", "error"}
      /\ Settle(n, plan[p].do)
      /\ queue' = [queue EXCEPT ![p] = [i \in DOMAIN queue[p] \ {n} |-> queue[p][i]]]
      /\ plan' = [plan EXCEPT ![p] = NoPlan] /\ UNCHANGED <<pc, tasks, reached>>
  BY DEF Recorded, Replay, registry
<1>2. n \in DOMAIN outbox /\ outbox[n] \in Intent BY <1>1, Lengths DEF IndInv, ReplayInv
<1>3. DOMAIN outbox' = DOMAIN outbox
      /\ \A i \in DOMAIN outbox :
            /\ outbox'[i].kind = outbox[i].kind /\ outbox'[i].task = outbox[i].task
            /\ outbox'[i].feature = outbox[i].feature
            /\ outbox'[i].resolution = outbox[i].resolution
            /\ outbox'[i].status = IF i = n THEN plan[p].do ELSE outbox[i].status
  <2>1. outbox' = [outbox EXCEPT ![n] = [outbox[n] EXCEPT !.status = plan[p].do]]
    BY <1>1, <1>2 DEF Settle
  <2> QED BY <1>2, <2>1 DEF Intent
<1>4. ReplayInv'
  <2>1. plan' \in [Replayer -> [do : Doing, intent : Nat]]
    BY <1>1 DEF IndInv, ReplayInv, NoPlan, Doing
  <2>2. \A q \in Replayer : plan'[q] = IF q = p THEN NoPlan ELSE plan[q]
    BY <1>1 DEF IndInv, ReplayInv
  <2>3. DOMAIN queue' = Replayer
        /\ \A q \in Replayer : DOMAIN queue'[q] = IF q = p THEN DOMAIN queue[q] \ {n}
                                                        ELSE DOMAIN queue[q]
    BY <1>1 DEF IndInv, ReplayInv
  <2>4. NoPlan.do = "none" BY DEF NoPlan
  <2> QED BY <1>1, <1>3, <2>1, <2>2, <2>3, <2>4 DEF IndInv, ReplayInv
<1>5. HonestInv'
  <2>1. \A i \in DOMAIN outbox : Desired(outbox'[i], tasks'[outbox'[i].task])
                                    => Desired(outbox[i], tasks[outbox[i].task])
    BY <1>1, <1>3 DEF Desired
  <2>2. \A q \in Replayer : plan'[q] = IF q = p THEN NoPlan ELSE plan[q]
    BY <1>1 DEF IndInv, ReplayInv
  <2>3. NoPlan.do = "none" BY DEF NoPlan
  <2> QED BY <1>1, <1>3, <2>1, <2>2, <2>3 DEF IndInv, HonestInv
<1> QED BY <1>4, <1>5

\* Any other step plans nothing, and may give an idle process its queue.
Requeued(p) ==
    \/ queue'[p] = queue[p] /\ (pc[p] = "replay" => pc'[p] = "replay" \/ DOMAIN queue[p] = {})
    \/ DOMAIN queue'[p] \subseteq DOMAIN outbox' /\ pc[p] # "replay"

Planless == UNCHANGED plan /\ DOMAIN queue' = Replayer /\ Requeued("loop") /\ Requeued("call")

LEMMA PlanlessLemma ==
    ASSUME IndInv, [Next]_vars, Planless
    PROVE  ReplayInv'
<1>1. /\ DOMAIN outbox \subseteq DOMAIN outbox'
      /\ \A i \in DOMAIN outbox : outbox'[i].kind = outbox[i].kind
  BY LayerLemma DEF LayerGrows
<1>2. plan' = plan /\ DOMAIN queue' = Replayer /\ \A p \in Replayer : Requeued(p)
  BY DEF Planless, Replayer
<1>3. ASSUME NEW p \in Replayer
      PROVE  /\ DOMAIN queue'[p] \subseteq DOMAIN outbox'
             /\ plan'[p].do = "none" => plan'[p] = NoPlan
             /\ plan'[p].do # "none" => pc'[p] = "replay" /\ plan'[p].intent \in DOMAIN queue'[p]
             /\ plan'[p].do = "reopen" => outbox'[plan'[p].intent].kind = "reopen"
             /\ plan'[p].do \in {"claim", "resolve"} => outbox'[plan'[p].intent].kind = "resolve"
  <2>1. Requeued(p) /\ plan'[p] = plan[p] BY <1>2
  <2>2. /\ DOMAIN queue[p] \subseteq DOMAIN outbox
        /\ plan[p].do = "none" => plan[p] = NoPlan
        /\ plan[p].do # "none" => pc[p] = "replay" /\ plan[p].intent \in DOMAIN queue[p]
        /\ plan[p].do = "reopen" => outbox[plan[p].intent].kind = "reopen"
        /\ plan[p].do \in {"claim", "resolve"} => outbox[plan[p].intent].kind = "resolve"
    BY DEF IndInv, ReplayInv
  <2> QED BY <1>1, <2>1, <2>2 DEF Requeued
<1> QED BY <1>2, <1>3 DEF IndInv, ReplayInv

LEMMA ReplayLemma == IndInv /\ [Next]_vars => ReplayInv'
<1> SUFFICES ASSUME IndInv, [Next]_vars PROVE Planless \/ ReplayInv'
  BY PlanlessLemma
<1>1. CASE \E p \in Replayer : Attempt(p) BY <1>1, AttemptLemma
<1>2. CASE \E p \in Replayer : Carry(p) BY <1>2, CarryLemma
<1>3. CASE \E p \in Replayer : Recorded(p) BY <1>3, RecordedLemma
<1>4. DOMAIN outbox \subseteq DOMAIN outbox' BY LayerLemma DEF LayerGrows
<1>5. /\ DOMAIN pc = Process /\ DOMAIN queue = Replayer
      /\ Process = {"loop", "call", "manual", "history"} /\ Replayer = {"loop", "call"}
  BY DEF IndInv, ProcessInv, ReplayInv, Process, Replayer
<1>7. ASSUME NEW i, pc["loop"] # "replay", ReplayOne(i), i \in DOMAIN outbox' \cup {0},
             UNCHANGED plan
      PROVE  Planless
  <2>1. queue' = [queue EXCEPT !["loop"] = Only(i)] /\ pc'["call"] = pc["call"]
    BY <1>5, <1>7 DEF ReplayOne, Replay, Goto
  <2>2. DOMAIN Only(i) \subseteq DOMAIN outbox' BY <1>7, Queues
  <2> QED BY <1>5, <1>7, <2>1, <2>2 DEF Planless, Requeued
<1>8. CASE UNCHANGED vars BY <1>5, <1>8 DEF vars, Planless, Requeued
<1>9. CASE CommitEdit
  <2>1. Len(outbox') \in DOMAIN outbox' \cup {0} BY LayerLemma, Lengths DEF LayerTypes
  <2> QED BY <1>7, <1>9, <2>1 DEF CommitEdit
<1>10. CASE \/ LockManual \/ CommitManual \/ RefuseManual \/ FenceHistory \/ CheckHistory
            \/ CommitHistory \/ CheckCall \/ WriteCall
  <2>1. UNCHANGED <<queue, plan>> BY <1>10 DEF LockManual, CommitManual, RefuseManual,
     FenceHistory, CheckHistory, CommitHistory, CheckCall, WriteCall, replay
  <2>2. pc'["loop"] = pc["loop"] /\ (pc["call"] = "replay" => pc'["call"] = "replay")
    BY <1>5, <1>10 DEF LockManual, CommitManual, RefuseManual, FenceHistory, CheckHistory,
       CommitHistory, CheckCall, WriteCall, ManualDone, Goto
  <2> QED BY <1>5, <2>1, <2>2 DEF Planless, Requeued
<1>11. CASE CountBlockers
  <2>1. CASE ReplayOne(0) BY <1>7, <1>11, <2>1 DEF CountBlockers, replay
  <2>2. CASE Goto("loop", "write") /\ UNCHANGED queue
    BY <1>5, <1>11, <2>2 DEF CountBlockers, Goto, Planless, Requeued
  <2> QED BY <1>11, <2>1, <2>2 DEF CountBlockers
<1>12. CASE WriteSession
  <2>1. pc["loop"] = "write" /\ pc'["call"] = pc["call"] /\ UNCHANGED <<plan, outbox>>
    BY <1>5, <1>12 DEF WriteSession, Goto, layer
  <2>2. queue' = queue \/ queue' = [queue EXCEPT !["loop"] = Outstanding]
    BY <1>12 DEF WriteSession, Replay
  <2> QED BY <1>5, <2>1, <2>2, Queues DEF Planless, Requeued
<1>13. ASSUME NEW p \in {"manual", "history"}, Release(p) PROVE Planless
  <2>1. pc["loop"] = "idle" /\ pc'["call"] = pc["call"] /\ UNCHANGED <<plan, outbox>>
    BY <1>5, <1>13 DEF Release, Idle, layer
  <2>2. queue' = [queue EXCEPT !["loop"] = Only(Unsettled(req[p].intent))]
    BY <1>13 DEF Release, Replay
  <2>3. DOMAIN Only(Unsettled(req[p].intent)) \subseteq DOMAIN outbox
    <3>1. DOMAIN Only(Unsettled(req[p].intent)) = {Unsettled(req[p].intent)} \ {0} BY Queues
    <3>2. Unsettled(req[p].intent) \in DOMAIN outbox \cup {0} BY Queues
    <3> QED BY <3>1, <3>2
  <2> QED BY <1>5, <2>1, <2>2, <2>3 DEF Planless, Requeued
<1>14. ASSUME NEW p \in Replayer, Replayed(p) PROVE Planless
  <2>1. UNCHANGED <<queue, plan>> /\ DOMAIN queue[p] = {} BY <1>14 DEF Replayed, replay
  <2>2. \A q \in Replayer : q # p => pc'[q] = pc[q] BY <1>5, <1>14 DEF Replayed, Goto
  <2> QED BY <1>5, <1>14, <2>1, <2>2 DEF Planless, Requeued
<1>15. CASE Edits
  <2>1. ASSUME NEW k, RetryEdit(k) PROVE Planless
    BY <1>4, <1>7, <2>1, Queues DEF RetryEdit, Idle
  <2>2. ASSUME NEW action, NEW f, NEW t, NEW k, CheckEdit(action, f, t, k) PROVE Planless
    <3>1. UNCHANGED <<queue, plan>> /\ pc["loop"] = "idle" /\ pc'["call"] = pc["call"]
      BY <1>5, <2>2 DEF CheckEdit, Goto, replay, Idle
    <3> QED BY <1>5, <3>1 DEF Planless, Requeued
  <2> QED BY <1>15, <2>1, <2>2 DEF Edits, CreateFeature, UpdateFeature, DeleteFeature
<1>16. CASE Requests
  <2>1. ASSUME NEW to, PatchSession(to) PROVE Planless
    <3>1. /\ queue' = [queue EXCEPT !["loop"] = Outstanding] /\ UNCHANGED <<plan, outbox>>
          /\ pc["loop"] = "idle" /\ pc'["call"] = pc["call"]
      BY <1>5, <2>1 DEF PatchSession, Replay, Goto, Idle, layer
    <3> QED BY <1>5, <3>1, Queues DEF Planless, Requeued
  <2>2. ASSUME NEW kind, NEW t, NEW f, Call(kind, t, f) PROVE Planless
    <3>1. /\ queue' = [queue EXCEPT !["call"] = Outstanding] /\ UNCHANGED <<plan, outbox>>
          /\ pc["call"] = "idle" /\ pc'["loop"] = pc["loop"]
      BY <1>5, <2>2 DEF Call, Replay, Goto, layer
    <3> QED BY <1>5, <3>1, Queues DEF Planless, Requeued
  <2>3. CASE RetryHistory BY <1>4, <1>7, <2>3, Queues DEF RetryHistory, Idle
  <2>4. CASE \/ \E op \in {"undo", "redo"} : StartHistory(op)
             \/ \E t \in Task \cup {NoTask}, k \in Key : CheckManual(t, k)
    <3>1. UNCHANGED <<queue, plan>> /\ pc'["loop"] = pc["loop"] /\ pc'["call"] = pc["call"]
      BY <1>5, <2>4 DEF StartHistory, CheckManual, Goto, replay
    <3> QED BY <1>5, <3>1 DEF Planless, Requeued
  <2> QED BY <1>16, <2>1, <2>2, <2>3, <2>4 DEF Requests, PatchTask, ResolveTask, ReopenTask
<1>17. CASE DropProposal BY <1>5, <1>17 DEF DropProposal, replay, Planless, Requeued
<1>18. CASE Restart
  <2>1. plan' = [p \in Replayer |-> NoPlan] BY <1>18 DEF Restart
  <2>2. DOMAIN queue' = Replayer /\ \A p \in Replayer : DOMAIN queue'[p] \subseteq DOMAIN outbox
    BY <1>18, Queues DEF Restart
  <2>3. ReplayInv' BY <1>4, <2>1, <2>2 DEF ReplayInv, NoPlan, Doing
  <2> QED BY <2>3
<1> QED BY <1>1, <1>2, <1>3, <1>8, <1>9, <1>10, <1>11, <1>12, <1>13, <1>14, <1>15, <1>16,
           <1>17, <1>18 DEF Next, Progress

------------------------------------------------------------------------------
(* Closed intents were reached *)

LEMMA HonestLemma == IndInv /\ [Next]_vars => HonestInv'
<1> SUFFICES ASSUME IndInv, [Next]_vars PROVE HonestInv' OBVIOUS
<1>1. CASE \E p \in Replayer : Recorded(p) BY <1>1, RecordedLemma
<1>2. /\ DOMAIN outbox \subseteq DOMAIN outbox'
      /\ \A i \in DOMAIN outbox :
            /\ outbox'[i].kind = outbox[i].kind /\ outbox'[i].task = outbox[i].task
            /\ outbox'[i].feature = outbox[i].feature
            /\ outbox'[i].resolution = outbox[i].resolution
  BY LayerLemma DEF LayerGrows
<1>3. HonestInv BY DEF IndInv
\* A step that looks at the tasks, and enqueues at most.
<1>4. ASSUME Witness(tasks'),
             \A i \in DOMAIN outbox : outbox'[i] = outbox[i],
             \A i \in DOMAIN outbox' \ DOMAIN outbox : outbox'[i].status = "new",
             \A p \in Replayer : plan'[p].do = "reconciled" => plan'[p].intent \in reached'
      PROVE  HonestInv'
  <2>1. reached' = reached \cup {i \in DOMAIN outbox' :
                                   Desired(outbox'[i], tasks'[outbox'[i].task])}
    BY <1>4 DEF Witness
  <2>2. reached' \subseteq DOMAIN outbox' BY <1>2, <1>3, <2>1 DEF HonestInv
  <2>3. \A i \in DOMAIN outbox' : Desired(outbox'[i], tasks'[outbox'[i].task]) => i \in reached'
    BY <2>1
  <2>4. \A i \in DOMAIN outbox' : outbox'[i].status = "reconciled" => i \in reached'
    BY <1>3, <1>4, <2>1 DEF HonestInv
  <2> QED BY <1>4, <2>2, <2>3, <2>4 DEF HonestInv, Desired
\* A step that leaves outbox and tasks alone.
<1>5. ASSUME UNCHANGED <<outbox, tasks, reached>>,
             \A p \in Replayer : plan'[p].do = "reconciled" => plan'[p].intent \in reached
      PROVE  HonestInv'
  BY <1>3, <1>5 DEF HonestInv, Desired
<1>6. ASSUME UNCHANGED <<outbox, tasks, reached, plan>> PROVE HonestInv'
  BY <1>3, <1>5, <1>6 DEF HonestInv
\* A transaction of an edit.
<1>7. ASSUME NEW kind \in {"resolve", "reopen"}, NEW t \in Maybe, NEW f \in Nat,
             NEW action \in Action, NEW claim \in BOOLEAN,
             Enqueue(kind, t, f, action, claim), Witness(tasks), UNCHANGED <<tasks, plan>>
      PROVE  HonestInv'
  <2>1. /\ \A i \in DOMAIN outbox : outbox'[i] = outbox[i]
        /\ \A i \in DOMAIN outbox' \ DOMAIN outbox : outbox'[i].status = "new"
    BY <1>7, EnqueueLemma DEF IndInv
  <2>2. Witness(tasks') /\ reached \subseteq reached' BY <1>7 DEF Witness
  <2>3. \A p \in Replayer : plan'[p].do = "reconciled" => plan'[p].intent \in reached'
    BY <1>3, <1>7, <2>2 DEF HonestInv
  <2> QED BY <1>4, <2>1, <2>2, <2>3
<1>8. CASE \E p \in Replayer : Attempt(p)
  <2> PICK p \in Replayer : Attempt(p) BY <1>8
  <2>1. UNCHANGED <<outbox, tasks, reached>> BY DEF Attempt, layer, registry
  <2> QED BY <1>5, <2>1, AttemptLemma
<1>9. CASE \E p \in Replayer : Carry(p)
  <2> PICK p \in Replayer : Carry(p) BY <1>9
  <2>1. outbox' = outbox /\ Witness(tasks') BY DEF Carry, layer
  <2> QED BY <1>4, <2>1, CarryLemma
<1>10. CASE WriteCall
  <2>1. UNCHANGED <<outbox, plan>> /\ Witness(tasks') BY <1>10 DEF WriteCall, layer, replay
  <2>2. reached \subseteq reached' BY <2>1 DEF Witness
  <2>3. \A p \in Replayer : plan'[p].do = "reconciled" => plan'[p].intent \in reached'
    BY <1>3, <2>1, <2>2 DEF HonestInv
  <2> QED BY <1>4, <2>1, <2>3
<1>11. CASE CommitEdit
  <2> DEFINE r == req["loop"]
             f == IF r.kind = "create" THEN Len(features) + 1 ELSE r.feature
  <2>1. /\ r.kind \in Action /\ r.feature \in Nat
        /\ r.task \in Maybe /\ Len(features) \in Nat
    BY <1>11, Lengths DEF CommitEdit, IndInv, ProcessInv, LoopInv, Action
  <2>2. Enqueue("resolve", r.task, f, r.kind, FALSE) /\ Witness(tasks) /\ UNCHANGED <<tasks, plan>>
    BY <1>11 DEF CommitEdit, Edit, registry
  <2>3. f \in Nat BY <2>1
  <2> HIDE DEF f
  <2> QED BY <1>7, <2>1, <2>2, <2>3
<1>12. CASE CommitManual
  <2> DEFINE r == req["manual"]
             f == Len(features) + 1
  <2>1. r.task \in Maybe /\ f \in Nat /\ "manual_create" \in Action
    BY <1>12, Lengths DEF CommitManual, IndInv, ProcessInv, ManualInv, Action
  <2>2. Enqueue("resolve", r.task, f, "manual_create", FALSE) /\ Witness(tasks)
        /\ UNCHANGED <<tasks, plan>>
    BY <1>12 DEF CommitManual, Edit, registry, replay
  <2> HIDE DEF f
  <2> QED BY <1>7, <2>1, <2>2
<1>13. CASE CommitHistory
  <2> DEFINE r == req["history"]
             e == audit[r.edit]
             kind == IF r.kind = "undo" THEN "reopen" ELSE "resolve"
  <2>1. e \in Row
    BY <1>13, Lengths DEF CommitHistory, IndInv, ProcessInv, HistoryInv
  <2>2. e.task \in Maybe /\ e.feature \in Nat /\ e.action \in Action BY <2>1, RowFields
  <2>3. Enqueue(kind, e.task, e.feature, e.action, r.kind = "redo") /\ Witness(tasks)
        /\ UNCHANGED <<tasks, plan>>
    BY <1>13 DEF CommitHistory, Apply, registry, replay
  <2>4. kind \in {"resolve", "reopen"} /\ (r.kind = "redo") \in BOOLEAN OBVIOUS
  <2> HIDE DEF kind, e
  <2> QED BY <1>7, <2>2, <2>3, <2>4
<1>14. CASE \/ LockManual \/ RefuseManual \/ FenceHistory \/ CheckHistory \/ CheckCall
            \/ \E p \in {"manual", "history"} : Release(p)
            \/ \E p \in Replayer : Replayed(p)
            \/ CountBlockers \/ WriteSession
  BY <1>6, <1>14 DEF LockManual, RefuseManual, FenceHistory, CheckHistory, CheckCall, Release,
     Replayed, CountBlockers, WriteSession, layer, registry, replay
<1>15. CASE Edits
  BY <1>6, <1>15 DEF Edits, CreateFeature, UpdateFeature, DeleteFeature, CheckEdit,
                     RetryEdit, layer, registry, replay
<1>16. CASE Requests
  <2>1. ASSUME NEW to, PatchSession(to) PROVE HonestInv'
    BY <1>6, <2>1 DEF PatchSession, layer, registry
  <2>2. ASSUME NEW kind, NEW t, NEW f, Call(kind, t, f) PROVE HonestInv'
    BY <1>6, <2>2 DEF Call, layer, registry
  <2>3. CASE \/ RetryHistory \/ \E op \in {"undo", "redo"} : StartHistory(op)
             \/ \E t \in Task \cup {NoTask}, k \in Key : CheckManual(t, k)
    BY <1>6, <2>3 DEF RetryHistory, StartHistory, CheckManual, layer, registry, replay
  <2> QED BY <1>16, <2>1, <2>2, <2>3 DEF Requests, PatchTask, ResolveTask, ReopenTask
<1>17. CASE DropProposal \/ UNCHANGED vars
  BY <1>6, <1>17 DEF DropProposal, layer, registry, replay, vars
<1>18. CASE Restart
  <2>1. plan' = [p \in Replayer |-> NoPlan] /\ UNCHANGED <<outbox, tasks, reached>>
    BY <1>18 DEF Restart, layer, registry
  <2> QED BY <1>5, <2>1 DEF NoPlan
<1> QED BY <1>1, <1>8, <1>9, <1>10, <1>11, <1>12, <1>13, <1>14, <1>15, <1>16, <1>17, <1>18
        DEF Next, Progress

------------------------------------------------------------------------------
(* Where the processes are: what keeps the invariant of each *)

LoopFrame ==
    /\ pc'["loop"] = pc["loop"] /\ req'["loop"] = req["loop"]
    /\ pc["loop"] = "edit" => /\ session' = session /\ lock' = lock
                              /\ bound'["writes"] = bound["writes"]
                              /\ bound'["features"] = bound["features"]

CallFrame == pc'["call"] = pc["call"] /\ req'["call"] = req["call"]

ManualFrame ==
    /\ pc'["manual"] = pc["manual"] /\ req'["manual"] = req["manual"]
    /\ lock' = "manual" <=> lock = "manual"

HistoryFrame ==
    /\ pc'["history"] = pc["history"] /\ req'["history"] = req["history"]
    /\ lock' = "history" <=> lock = "history"
    /\ pc["history"] # "idle" => bound'["writes"] = bound["writes"]
    /\ pc["history"] \in {"check", "commit"} /\ req["history"].task # NoTask =>
          /\ session' = session /\ pc'["loop"] # "act" /\ pc'["loop"] # "write"
          /\ req'["loop"].kind # "patch"

LEMMA LoopFrameLemma == IndInv /\ LayerGrows /\ LoopFrame => LoopInv'
<1> SUFFICES ASSUME IndInv, LayerGrows, LoopFrame PROVE LoopInv' OBVIOUS
<1>1. LoopInv /\ DOMAIN features \subseteq DOMAIN features' BY DEF IndInv, ProcessInv, LayerGrows
<1> QED BY <1>1 DEF LoopInv, LoopFrame

LEMMA CallFrameLemma == IndInv /\ LayerGrows /\ CallFrame => CallInv'
<1> SUFFICES ASSUME IndInv, LayerGrows, CallFrame PROVE CallInv' OBVIOUS
<1>1. CallInv /\ DOMAIN features \subseteq DOMAIN features' BY DEF IndInv, ProcessInv, LayerGrows
<1> QED BY <1>1 DEF CallInv, CallFrame

LEMMA ManualFrameLemma == IndInv /\ ManualFrame => ManualInv'
BY DEF IndInv, ProcessInv, ManualInv, ManualFrame

LEMMA HistoryFrameLemma == IndInv /\ LayerGrows /\ HistoryFrame => HistoryInv'
<1> SUFFICES ASSUME IndInv, LayerGrows, HistoryFrame PROVE HistoryInv' OBVIOUS
<1>1. /\ HistoryInv /\ DOMAIN audit \subseteq DOMAIN audit'
      /\ \A e \in DOMAIN audit : audit'[e].task = audit[e].task
  BY DEF IndInv, ProcessInv, LayerGrows
<1> QED BY <1>1 DEF HistoryInv, HistoryFrame

\* The four frames together.
Frames == LoopFrame /\ CallFrame /\ ManualFrame /\ HistoryFrame

Shape ==
    /\ DOMAIN pc = Process /\ DOMAIN req = Process
    /\ lock \in {"none", "manual", "history"} /\ proposal \in BOOLEAN

LEMMA SpendLemma ==
    ASSUME LayerTypes, NEW what \in {"requests", "faults"}, Spend(what)
    PROVE  bound'["writes"] = bound["writes"] /\ bound'["features"] = bound["features"]
BY DEF Spend, LayerTypes

LEMMA ShapeLemma == IndInv /\ [Next]_vars => Shape'
<1> SUFFICES ASSUME IndInv, [Next]_vars PROVE Shape' OBVIOUS
<1>1. Shape BY DEF IndInv, ProcessInv, Shape
<1> USE <1>1
<1>2. CASE Progress
  <2>1. CASE CommitEdit BY <2>1 DEF CommitEdit, ReplayOne, Goto, Shape
  <2>2. CASE LockManual \/ CommitManual \/ RefuseManual
    BY <2>2 DEF LockManual, CommitManual, RefuseManual, ManualDone, Goto, Shape
  <2>3. CASE FenceHistory \/ CheckHistory \/ CommitHistory
    BY <2>3 DEF FenceHistory, CheckHistory, CommitHistory, Goto, Shape
  <2>4. CASE CountBlockers \/ WriteSession
    BY <2>4 DEF CountBlockers, WriteSession, ReplayOne, Goto, Shape
  <2>5. CASE CheckCall \/ WriteCall BY <2>5 DEF CheckCall, WriteCall, Goto, Shape
  <2>6. ASSUME NEW p, Release(p) PROVE Shape' BY <2>6 DEF Release, Shape
  <2>7. ASSUME NEW p, Attempt(p) \/ Carry(p) \/ Recorded(p) \/ Replayed(p) PROVE Shape'
    BY <2>7 DEF Attempt, Carry, Recorded, Replayed, Goto, Shape
  <2> QED BY <1>2, <2>1, <2>2, <2>3, <2>4, <2>5, <2>6, <2>7 DEF Progress
<1>3. CASE Edits
  <2>1. ASSUME NEW action, NEW f, NEW t, NEW k, CheckEdit(action, f, t, k) PROVE Shape'
    BY <2>1 DEF CheckEdit, Goto, Shape
  <2>2. ASSUME NEW k, RetryEdit(k) PROVE Shape' BY <2>2 DEF RetryEdit, ReplayOne, Goto, Shape
  <2> QED BY <1>3, <2>1, <2>2 DEF Edits, CreateFeature, UpdateFeature, DeleteFeature
<1>4. CASE Requests
  <2>1. ASSUME NEW t, NEW k, CheckManual(t, k) PROVE Shape' BY <2>1 DEF CheckManual, Goto, Shape
  <2>2. ASSUME NEW op, StartHistory(op) PROVE Shape' BY <2>2 DEF StartHistory, Goto, Shape
  <2>3. CASE RetryHistory BY <2>3 DEF RetryHistory, ReplayOne, Goto, Shape
  <2>4. ASSUME NEW to, PatchSession(to) PROVE Shape' BY <2>4 DEF PatchSession, Goto, Shape
  <2>5. ASSUME NEW kind, NEW t, NEW f, Call(kind, t, f) PROVE Shape'
    BY <2>5 DEF Call, Goto, Shape
  <2> QED BY <1>4, <2>1, <2>2, <2>3, <2>4, <2>5 DEF Requests, PatchTask, ResolveTask, ReopenTask
<1>5. CASE DropProposal \/ Restart \/ UNCHANGED vars
  BY <1>5 DEF DropProposal, Restart, vars, Shape
<1> QED BY <1>2, <1>3, <1>4, <1>5 DEF Next

AllInv == LoopInv /\ CallInv /\ ManualInv /\ HistoryInv

LEMMA Invs == IndInv => AllInv /\ LayerTypes /\ Shape
BY DEF IndInv, ProcessInv, AllInv, Shape

\* The segment of the loop ends with the replay of at most one intent.
LEMMA LoopEnds ==
    ASSUME IndInv, NEW i, ReplayOne(i)
    PROVE  /\ LoopInv' /\ pc'["loop"] \in {"idle", "replay"} /\ req'["loop"] = NoRequest
           /\ \A p \in Process \ {"loop"} : pc'[p] = pc[p] /\ req'[p] = req[p]
<1>1. /\ DOMAIN pc = Process /\ DOMAIN req = Process
      /\ pc' = [pc EXCEPT !["loop"] = IF i = 0 THEN "idle" ELSE "replay"]
      /\ req' = [req EXCEPT !["loop"] = NoRequest]
  BY Invs DEF ReplayOne, Goto, Shape
<1>2. pc'["loop"] \in {"idle", "replay"} /\ req'["loop"] = NoRequest BY <1>1 DEF Process
<1>3. \A p \in Process \ {"loop"} : pc'[p] = pc[p] /\ req'[p] = req[p] BY <1>1
<1> QED BY <1>2, <1>3 DEF LoopInv

LEMMA LoopActions ==
    ASSUME IndInv, LayerGrows,
           \/ CommitEdit \/ CountBlockers \/ WriteSession \/ RetryHistory
           \/ \E k \in Key : RetryEdit(k)
           \/ \E to \in SessionStatus : PatchSession(to)
           \/ \E a \in {"create", "update", "delete"}, f \in 0 .. Len(features),
                 t \in Maybe, k \in Named : CheckEdit(a, f, t, k)
    PROVE  AllInv'
<1> USE DEF Process
<1>1. AllInv /\ LayerTypes /\ Shape /\ DOMAIN pc = Process /\ DOMAIN req = Process BY Invs DEF Shape
<1>2. NoRequest.kind # "patch" BY DEF NoRequest
\* The other processes are left alone, and the loop begins no patch or edit of theirs.
<1>3. ASSUME NEW i, ReplayOne(i), UNCHANGED <<lock, session>>,
             pc["history"] # "idle" => bound'["writes"] = bound["writes"]
      PROVE  AllInv'
  <2>1. CallFrame /\ ManualFrame BY <1>3, LoopEnds DEF CallFrame, ManualFrame
  <2>2. HistoryFrame BY <1>2, <1>3, LoopEnds DEF HistoryFrame
  <2> QED BY <1>3, <2>1, <2>2, LoopEnds, CallFrameLemma, ManualFrameLemma, HistoryFrameLemma
          DEF AllInv
<1>4. CASE CommitEdit
  <2>1. pc["history"] = "idle" BY <1>1, <1>4 DEF CommitEdit, AllInv, LoopInv, HistoryInv
  <2> QED BY <1>3, <1>4, <2>1 DEF CommitEdit, registry
<1>5. CASE CountBlockers
  <2>1. UNCHANGED <<lock, session, bound>> BY <1>5 DEF CountBlockers, registry
  <2>2. CASE ReplayOne(0) BY <1>3, <2>1, <2>2
  <2>3. CASE Goto("loop", "write") /\ UNCHANGED req
    <3>1. pc["loop"] = "act" /\ pc' = [pc EXCEPT !["loop"] = "write"] /\ req' = req
      BY <1>5, <2>3 DEF CountBlockers, Goto
    <3>2. LoopInv' BY <1>1, <3>1 DEF AllInv, LoopInv
    <3>3. HistoryFrame BY <1>1, <2>1, <3>1 DEF HistoryFrame, AllInv, HistoryInv
    <3>4. CallFrame /\ ManualFrame BY <1>1, <2>1, <3>1 DEF CallFrame, ManualFrame
    <3> QED BY <3>2, <3>3, <3>4, CallFrameLemma, ManualFrameLemma, HistoryFrameLemma DEF AllInv
  <2> QED BY <1>5, <2>2, <2>3 DEF CountBlockers
<1>6. CASE WriteSession
  <2>1. UNCHANGED <<lock, bound>> /\ pc["loop"] = "write" BY <1>6 DEF WriteSession
  <2>2. PICK place \in {"idle", "replay"} : pc' = [pc EXCEPT !["loop"] = place]
    BY <1>6 DEF WriteSession, Goto
  <2>3. req' = [req EXCEPT !["loop"] = NoRequest] BY <1>6 DEF WriteSession
  <2>4. LoopInv' BY <1>1, <2>2, <2>3 DEF LoopInv
  <2>5. HistoryFrame BY <1>1, <2>1, <2>2, <2>3 DEF HistoryFrame, AllInv, HistoryInv
  <2>6. CallFrame /\ ManualFrame BY <1>1, <2>1, <2>2, <2>3 DEF CallFrame, ManualFrame
  <2> QED BY <2>4, <2>5, <2>6, CallFrameLemma, ManualFrameLemma, HistoryFrameLemma DEF AllInv
<1>7. CASE RetryHistory BY <1>3, <1>7 DEF RetryHistory, registry
<1>8. ASSUME NEW k \in Key, RetryEdit(k) PROVE AllInv' BY <1>3, <1>8 DEF RetryEdit, registry
<1>9. ASSUME NEW to \in SessionStatus, PatchSession(to) PROVE AllInv'
  <2>1. /\ pc["loop"] = "idle" /\ ~SessionLocked /\ UNCHANGED <<lock, session>>
        /\ pc' = [pc EXCEPT !["loop"] = "replay"]
        /\ req' = [req EXCEPT !["loop"] = [kind |-> "patch", to |-> to]]
    BY <1>9 DEF PatchSession, Idle, Goto, registry
  <2>2. bound'["writes"] = bound["writes"] /\ bound'["features"] = bound["features"]
    BY <1>1, <1>9, SpendLemma DEF PatchSession
  <2>3. LoopInv' BY <1>1, <2>1 DEF LoopInv
  <2>4. HistoryFrame BY <1>1, <2>1, <2>2 DEF HistoryFrame, SessionLocked
  <2>5. CallFrame /\ ManualFrame BY <1>1, <2>1 DEF CallFrame, ManualFrame
  <2> QED BY <2>3, <2>4, <2>5, CallFrameLemma, ManualFrameLemma, HistoryFrameLemma DEF AllInv
<1>10. ASSUME NEW a \in {"create", "update", "delete"}, NEW f \in 0 .. Len(features),
              NEW t \in Maybe, NEW k \in Named, CheckEdit(a, f, t, k)
       PROVE  AllInv'
  <2> DEFINE r == [kind |-> a, feature |-> f, task |-> t, key |-> k]
  <2>1. /\ lock = "none" /\ UNCHANGED <<lock, session, features, bound>>
        /\ (t # NoTask => session = "active")
        /\ bound["writes"] > 0 /\ (a = "create" => bound["features"] > 0)
        /\ (a # "create" => f \in DOMAIN features)
        /\ pc' = [pc EXCEPT !["loop"] = "edit"]
        /\ req' = [req EXCEPT !["loop"] = r]
    BY <1>10 DEF CheckEdit, EditAllowed, Goto, registry, layer, Active
  <2>2. f \in Nat BY <1>1, Lengths
  <2>3. LoopInv' BY <1>1, <2>1, <2>2 DEF LoopInv
  <2>4. HistoryFrame BY <1>1, <2>1 DEF HistoryFrame
  <2>5. CallFrame /\ ManualFrame BY <1>1, <2>1 DEF CallFrame, ManualFrame
  <2> QED BY <2>3, <2>4, <2>5, CallFrameLemma, ManualFrameLemma, HistoryFrameLemma DEF AllInv
<1> QED BY <1>4, <1>5, <1>6, <1>7, <1>8, <1>9, <1>10

\* A replayer that stays in its replay, or leaves it.
LEMMA ReplayActions ==
    ASSUME IndInv, LayerGrows,
           \E p \in Replayer : Attempt(p) \/ Carry(p) \/ Recorded(p) \/ Replayed(p)
    PROVE  AllInv'
<1> USE DEF Process
<1>1. AllInv /\ LayerTypes /\ Shape /\ DOMAIN pc = Process /\ DOMAIN req = Process BY Invs DEF Shape
<1>2. CASE \E p \in Replayer : Attempt(p) \/ Carry(p) \/ Recorded(p)
  <2> PICK p \in Replayer : Attempt(p) \/ Carry(p) \/ Recorded(p) BY <1>2
  <2>1. UNCHANGED <<pc, req, lock, session>>
    BY DEF Attempt, Carry, Recorded, registry
  <2>2. bound'["writes"] = bound["writes"] /\ bound'["features"] = bound["features"]
    BY <1>1, SpendLemma DEF Attempt, Carry, Recorded
  <2>3. LoopFrame /\ CallFrame /\ ManualFrame BY <2>1, <2>2
     DEF LoopFrame, CallFrame, ManualFrame
  <2>4. HistoryFrame BY <1>1, <2>1, <2>2 DEF HistoryFrame, AllInv, HistoryInv
  <2> QED BY <2>3, <2>4, LoopFrameLemma, CallFrameLemma, ManualFrameLemma, HistoryFrameLemma
          DEF AllInv
<1>3. ASSUME NEW p \in Replayer, Replayed(p) PROVE AllInv'
  <2>1. PICK place : /\ pc' = [pc EXCEPT ![p] = place]
                     /\ place = IF req[p].kind \in {"none", "start"} THEN "idle" ELSE "act"
    BY <1>3 DEF Replayed, Goto
  <2>2. /\ pc[p] = "replay" /\ UNCHANGED <<lock, session, bound>>
        /\ req' = IF req[p].kind = "start" THEN [req EXCEPT ![p] = NoRequest] ELSE req
    BY <1>3 DEF Replayed, registry
  <2>3. CASE p = "loop"
    <3>1. LoopInv'
      <4>1. \/ req["loop"] = NoRequest \/ req["loop"] = [kind |-> "start"]
            \/ req["loop"] \in [kind : {"patch"}, to : SessionStatus]
        BY <1>1, <2>2, <2>3 DEF AllInv, LoopInv
      <4>2. CASE req["loop"] = NoRequest
        BY <1>1, <2>1, <2>2, <2>3, <4>2 DEF LoopInv, NoRequest
      <4>3. CASE req["loop"] = [kind |-> "start"]
        BY <1>1, <2>1, <2>2, <2>3, <4>3 DEF LoopInv, NoRequest
      <4>4. CASE req["loop"] \in [kind : {"patch"}, to : SessionStatus]
        BY <1>1, <2>1, <2>2, <2>3, <4>4 DEF LoopInv, NoRequest
      <4> QED BY <4>1, <4>2, <4>3, <4>4
    <3>2. CallFrame /\ ManualFrame BY <1>1, <2>1, <2>2, <2>3 DEF CallFrame, ManualFrame
    <3>3. HistoryFrame
      <4>1. SUFFICES ASSUME pc["history"] \in {"check", "commit"}, req["history"].task # NoTask
                     PROVE  pc'["loop"] # "act" /\ pc'["loop"] # "write"
                            /\ req'["loop"].kind # "patch"
        BY <1>1, <2>1, <2>2, <2>3 DEF HistoryFrame
      <4>2. req["loop"].kind # "patch" BY <1>1, <4>1 DEF AllInv, HistoryInv
      <4>3. req["loop"].kind \in {"none", "start"}
        BY <1>1, <2>2, <2>3, <4>2 DEF AllInv, LoopInv, NoRequest
      <4> QED BY <1>1, <2>1, <2>2, <2>3, <4>2, <4>3 DEF NoRequest
    <3> QED BY <3>1, <3>2, <3>3, CallFrameLemma, ManualFrameLemma, HistoryFrameLemma DEF AllInv
  <2>4. CASE p = "call"
    <3>1. req["call"].kind \in {"claim", "dismissed", "reopen", "manual_added", "corrected"}
      BY <1>1, <2>2, <2>4 DEF AllInv, CallInv
    <3>2. pc' = [pc EXCEPT !["call"] = "act"] /\ req' = req BY <2>1, <2>2, <2>4, <3>1
    <3>3. CallInv'
      <4>1. CallInv /\ DOMAIN features \subseteq DOMAIN features' BY <1>1 DEF AllInv, LayerGrows
      <4> QED BY <1>1, <2>2, <2>4, <3>2, <4>1 DEF CallInv
    <3>4. LoopFrame /\ ManualFrame BY <1>1, <2>2, <3>2 DEF LoopFrame, ManualFrame
    <3>5. HistoryFrame BY <1>1, <2>2, <3>2 DEF HistoryFrame, AllInv, HistoryInv
    <3> QED BY <3>3, <3>4, <3>5, LoopFrameLemma, ManualFrameLemma, HistoryFrameLemma DEF AllInv
  <2> QED BY <2>3, <2>4 DEF Replayer
<1> QED BY <1>2, <1>3

LEMMA ManualActions ==
    ASSUME IndInv, LayerGrows,
           \/ LockManual \/ CommitManual \/ RefuseManual
           \/ \E t \in Maybe, k \in Key : CheckManual(t, k)
    PROVE  AllInv'
<1> USE DEF Process
<1>1. AllInv /\ LayerTypes /\ Shape /\ DOMAIN pc = Process /\ DOMAIN req = Process BY Invs DEF Shape
\* Only the manual request moves.
<1>2. ASSUME pc'["loop"] = pc["loop"], req'["loop"] = req["loop"], CallFrame,
             pc'["history"] = pc["history"], req'["history"] = req["history"],
             session' = session, ManualInv',
             pc["loop"] = "edit" => UNCHANGED <<lock, bound>>,
             lock' = "history" <=> lock = "history",
             pc["history"] # "idle" => bound' = bound
      PROVE  AllInv'
  <2>1. LoopFrame BY <1>2 DEF LoopFrame
  <2>2. HistoryFrame BY <1>1, <1>2 DEF HistoryFrame, AllInv, HistoryInv
  <2> QED BY <1>2, <2>1, <2>2, LoopFrameLemma, CallFrameLemma, HistoryFrameLemma DEF AllInv
<1>3. CASE LockManual
  <2>1. /\ pc["loop"] = "idle" /\ pc["manual"] = "wait" /\ lock = "none" /\ lock' = "manual"
        /\ pc' = [pc EXCEPT !["manual"] = "commit"] /\ UNCHANGED <<req, session, bound>>
    BY <1>3 DEF LockManual, Idle, Goto, registry
  <2>2. ManualInv' BY <1>1, <2>1 DEF AllInv, ManualInv
  <2> QED BY <1>1, <1>2, <2>1, <2>2 DEF CallFrame
<1>4. CASE CommitManual \/ RefuseManual
  <2>1. PICK i : ManualDone(i) /\ (i \in Nat)
    <3>1. CASE CommitManual
      <4>1. Len(outbox') \in Nat
        <5>1. outbox' = outbox \/ \E row : outbox' = Append(outbox, row)
          BY <3>1 DEF CommitManual, Edit, Enqueue
        <5> QED BY <1>1, <5>1 DEF LayerTypes
      <4> QED BY <3>1, <4>1 DEF CommitManual
    <3>2. CASE RefuseManual
      <4>1. \A e \in DOMAIN audit : audit[e].intent \in Nat BY <1>1, Lengths, RowFields
      <4> QED BY <3>2, <4>1 DEF RefuseManual, WithKey
    <3> QED BY <1>4, <3>1, <3>2
  <2>2. /\ pc["manual"] = "commit" /\ UNCHANGED <<session, lock>>
        /\ pc' = [pc EXCEPT !["manual"] = "done"]
        /\ req' = [req EXCEPT !["manual"].intent = i]
    BY <1>4, <2>1 DEF CommitManual, RefuseManual, ManualDone, Goto, registry
  <2>3. lock = "manual" BY <1>1, <2>2 DEF AllInv, ManualInv
  <2>4. req["manual"] \in [kind : {"manual_create"}, task : Maybe, key : Named, intent : Nat]
    BY <1>1, <2>2 DEF AllInv, ManualInv
  <2>5. req'["manual"] \in [kind : {"manual_create"}, task : Maybe, key : Named, intent : Nat]
    BY <1>1, <2>1, <2>2, <2>4
  <2>6. ManualInv' BY <1>1, <2>2, <2>3, <2>5 DEF ManualInv
  <2>7. pc["loop"] # "edit" /\ pc["history"] = "idle"
    BY <1>1, <2>3 DEF AllInv, LoopInv, HistoryInv
  <2> QED BY <1>1, <1>2, <2>2, <2>6, <2>7 DEF CallFrame
<1>5. ASSUME NEW t \in Maybe, NEW k \in Key, CheckManual(t, k) PROVE AllInv'
  <2> DEFINE r == [kind |-> "manual_create", task |-> t, key |-> k, intent |-> 0]
  <2>1. /\ pc["manual"] = "idle" /\ UNCHANGED <<session, lock, bound>>
        /\ pc' = [pc EXCEPT !["manual"] = "wait"] /\ req' = [req EXCEPT !["manual"] = r]
    BY <1>5 DEF CheckManual, Goto, registry
  <2>2. k \in Named BY DEF Named
  <2>3. ManualInv' BY <1>1, <2>1, <2>2 DEF AllInv, ManualInv
  <2> QED BY <1>1, <1>2, <2>1, <2>3 DEF CallFrame
<1> QED BY <1>3, <1>4, <1>5

LEMMA HistoryActions ==
    ASSUME IndInv, LayerGrows,
           \/ FenceHistory \/ CheckHistory \/ CommitHistory
           \/ \E op \in {"undo", "redo"} : StartHistory(op)
    PROVE  AllInv'
<1> USE DEF Process
<1>1. AllInv /\ LayerTypes /\ Shape /\ DOMAIN pc = Process /\ DOMAIN req = Process BY Invs DEF Shape
<1>2. /\ DOMAIN audit \subseteq DOMAIN audit'
      /\ \A e \in DOMAIN audit : audit'[e].task = audit[e].task
  BY DEF LayerGrows
<1>3. ASSUME pc'["loop"] = pc["loop"], req'["loop"] = req["loop"], CallFrame,
             pc'["manual"] = pc["manual"], req'["manual"] = req["manual"],
             session' = session, HistoryInv',
             pc["loop"] = "edit" => UNCHANGED <<lock, bound>>,
             lock' = "manual" <=> lock = "manual"
      PROVE  AllInv'
  <2>1. LoopFrame BY <1>3 DEF LoopFrame
  <2>2. ManualFrame BY <1>3 DEF ManualFrame
  <2> QED BY <1>3, <2>1, <2>2, LoopFrameLemma, CallFrameLemma, ManualFrameLemma DEF AllInv
<1>4. CASE FenceHistory
  <2>1. PICK place \in {"check", "done"} :
           /\ pc' = [pc EXCEPT !["history"] = place]
           /\ place = "check" => Fence(req["history"].kind, req["history"].edit, FALSE)
    BY <1>4 DEF FenceHistory, Goto
  <2>2. pc["loop"] = "idle" /\ pc["history"] = "fence"
        /\ UNCHANGED <<req, lock, session, bound>>
    BY <1>4 DEF FenceHistory, Idle, registry
  <2>3. req["history"].edit \in DOMAIN audit
        /\ req["history"].task = audit[req["history"].edit].task
    BY <1>1, <2>2 DEF AllInv, HistoryInv
  <2>4. place = "check" /\ req["history"].task # NoTask => session = "active"
    BY <2>1, <2>3 DEF Fence
  <2>5. req["loop"].kind # "patch" BY <1>1, <2>2 DEF AllInv, LoopInv, NoRequest
  <2>6. HistoryInv' BY <1>1, <1>2, <2>1, <2>2, <2>4, <2>5 DEF AllInv, HistoryInv
  <2> QED BY <1>1, <1>3, <2>1, <2>2, <2>6 DEF CallFrame
<1>5. CASE CheckHistory
  <2>1. PICK place \in {"commit", "done"} : pc' = [pc EXCEPT !["history"] = place]
    BY <1>5 DEF CheckHistory, Goto
  <2>2. pc["history"] = "check" /\ UNCHANGED <<req, lock, session, bound>>
    BY <1>5 DEF CheckHistory, registry
  <2>3. HistoryInv' BY <1>1, <1>2, <2>1, <2>2 DEF AllInv, HistoryInv
  <2> QED BY <1>1, <1>3, <2>1, <2>2, <2>3 DEF CallFrame
<1>6. CASE CommitHistory
  <2>1. PICK i : /\ req' = [req EXCEPT !["history"].intent = i] /\ i \in Nat
    <3>1. outbox' = outbox \/ \E row : outbox' = Append(outbox, row)
      BY <1>6 DEF CommitHistory, Apply, Enqueue
    <3>2. Len(outbox') \in Nat BY <1>1, <3>1 DEF LayerTypes
    <3> QED BY <1>6, <3>2 DEF CommitHistory
  <2>2. /\ pc["history"] = "commit" /\ pc' = [pc EXCEPT !["history"] = "done"]
        /\ UNCHANGED <<lock, session>>
    BY <1>6 DEF CommitHistory, Goto, registry
  <2>3. LET r == req["history"]
        IN  /\ r \in [kind : {"undo", "redo"}, edit : Nat, intent : Nat, task : Maybe]
            /\ r.edit \in DOMAIN audit /\ r.task = audit[r.edit].task
    BY <1>1, <2>2 DEF AllInv, HistoryInv
  <2>4. LET r == req'["history"]
        IN  /\ r \in [kind : {"undo", "redo"}, edit : Nat, intent : Nat, task : Maybe]
            /\ r.edit = req["history"].edit /\ r.task = req["history"].task
    BY <1>1, <2>1, <2>3
  <2>5. lock = "history" BY <1>1, <2>2 DEF AllInv, HistoryInv
  <2>6. HistoryInv' BY <1>1, <1>2, <2>2, <2>3, <2>4, <2>5 DEF HistoryInv
  <2>7. pc["loop"] # "edit" BY <1>1, <2>5 DEF AllInv, LoopInv
  <2> QED BY <1>1, <1>3, <2>1, <2>2, <2>6, <2>7 DEF CallFrame
<1>7. ASSUME NEW op \in {"undo", "redo"}, StartHistory(op) PROVE AllInv'
  <2>1. /\ pc["loop"] = "idle" /\ lock = "none" /\ lock' = "history" /\ bound["writes"] > 0
        /\ pc' = [pc EXCEPT !["history"] = "fence"] /\ UNCHANGED <<session, bound, audit>>
    BY <1>7 DEF StartHistory, Idle, Goto, registry, layer
  <2>2. PICK e \in DOMAIN audit :
           req' = [req EXCEPT !["history"] = [kind |-> op, edit |-> e, intent |-> 0,
                                              task |-> audit[e].task]]
    BY <1>7 DEF StartHistory, UndoTargets, RedoTargets, InEffect, Undone
  <2>3. e \in Nat /\ audit[e].task \in Maybe BY <1>1, Lengths, RowFields
  <2>4. HistoryInv' BY <1>1, <2>1, <2>2, <2>3 DEF HistoryInv
  <2> QED BY <1>1, <1>3, <2>1, <2>2, <2>4 DEF CallFrame
<1> QED BY <1>4, <1>5, <1>6, <1>7

LEMMA CallActions ==
    ASSUME IndInv, LayerGrows,
           \/ CheckCall \/ WriteCall
           \/ \E t \in Task, kind \in {"claim", "dismissed", "reopen"} : Call(kind, t, 0)
           \/ \E t \in Task, kind \in {"manual_added", "corrected"}, f \in Active :
                 Call(kind, t, f)
    PROVE  AllInv'
<1> USE DEF Process
<1>1. AllInv /\ LayerTypes /\ Shape /\ DOMAIN pc = Process /\ DOMAIN req = Process BY Invs DEF Shape
<1>2. DOMAIN features \subseteq DOMAIN features' BY DEF LayerGrows
<1>3. ASSUME pc'["loop"] = pc["loop"], req'["loop"] = req["loop"],
             pc'["manual"] = pc["manual"], req'["manual"] = req["manual"],
             pc'["history"] = pc["history"], req'["history"] = req["history"],
             UNCHANGED <<session, lock>>, CallInv',
             bound'["writes"] = bound["writes"], bound'["features"] = bound["features"]
      PROVE  AllInv'
  <2>1. LoopFrame /\ ManualFrame BY <1>3 DEF LoopFrame, ManualFrame
  <2>2. HistoryFrame BY <1>1, <1>3 DEF HistoryFrame, AllInv, HistoryInv
  <2> QED BY <1>3, <2>1, <2>2, LoopFrameLemma, ManualFrameLemma, HistoryFrameLemma DEF AllInv
<1>4. CASE CheckCall
  <2>1. /\ pc["call"] = "act" /\ UNCHANGED <<session, lock, bound>>
        /\ \/ pc' = [pc EXCEPT !["call"] = "write"] /\ req' = req
           \/ /\ pc' = [pc EXCEPT !["call"] = "idle"]
              /\ req' = [req EXCEPT !["call"] = NoRequest]
    BY <1>4 DEF CheckCall, Goto, registry
  <2>2. CallInv' BY <1>1, <1>2, <2>1 DEF AllInv, CallInv
  <2> QED BY <1>1, <1>3, <2>1, <2>2
<1>5. CASE WriteCall
  <2>1. /\ UNCHANGED <<session, lock, bound>> /\ pc' = [pc EXCEPT !["call"] = "idle"]
        /\ req' = [req EXCEPT !["call"] = NoRequest]
    BY <1>5 DEF WriteCall, Goto
  <2>2. CallInv' BY <1>1, <2>1 DEF CallInv
  <2> QED BY <1>1, <1>3, <2>1, <2>2
<1>6. ASSUME NEW kind \in {"claim", "dismissed", "reopen", "manual_added", "corrected"},
             NEW t \in Task, NEW f \in {0} \cup Active, Call(kind, t, f)
      PROVE  AllInv'
  <2> DEFINE r == [kind |-> kind, task |-> t, feature |-> f, seen |-> tasks[t].status]
  <2>1. /\ UNCHANGED <<session, lock, features>> /\ pc' = [pc EXCEPT !["call"] = "replay"]
        /\ req' = [req EXCEPT !["call"] = r]
    BY <1>6 DEF Call, Goto, registry, layer
  <2>2. bound'["writes"] = bound["writes"] /\ bound'["features"] = bound["features"]
    BY <1>1, <1>6, SpendLemma DEF Call
  <2>3. /\ kind = "claim" => tasks[t].status = "todo"
        /\ kind = "reopen" => tasks[t].status \in Terminal
        /\ kind \notin {"claim", "reopen"} => tasks[t].status = "in_progress"
    BY <1>6 DEF Call
  <2>4. tasks[t].status \in Status BY DEF IndInv, Registry
  <2>5. f \in {0} \cup DOMAIN features /\ f \in Nat BY <1>1, Lengths DEF Active
  <2>6. CallInv' BY <1>1, <2>1, <2>3, <2>4, <2>5 DEF CallInv
  <2> QED BY <1>1, <1>3, <2>1, <2>2, <2>6
<1> QED BY <1>4, <1>5, <1>6

LEMMA ProcessLemma == IndInv /\ [Next]_vars => ProcessInv'
<1> SUFFICES ASSUME IndInv, [Next]_vars PROVE AllInv'
  BY ShapeLemma DEF ProcessInv, AllInv, Shape
<1> USE DEF Process
<1>1. LayerGrows BY LayerLemma
<1>2. AllInv /\ LayerTypes /\ Shape /\ DOMAIN pc = Process /\ DOMAIN req = Process BY Invs DEF Shape
<1>3. CASE Progress
  <2>1. ASSUME NEW p \in {"manual", "history"}, Release(p) PROVE AllInv'
    <3>1. PICK place \in {"idle", "replay"} :
             pc' = [pc EXCEPT ![p] = "idle", !["loop"] = place]
      BY <2>1 DEF Release
    <3>2. /\ pc["loop"] = "idle" /\ pc[p] = "done" /\ lock' = "none"
          /\ req' = [req EXCEPT ![p] = NoRequest] /\ UNCHANGED <<session, bound>>
      BY <2>1 DEF Release, Idle, registry
    <3>3. req["loop"] = NoRequest /\ req'["loop"] = NoRequest
      BY <1>2, <3>2 DEF AllInv, LoopInv
    <3>4. LoopInv' BY <1>2, <3>1, <3>2, <3>3 DEF LoopInv
    <3>5. CallFrame BY <1>2, <3>1, <3>2 DEF CallFrame
    <3>6. CASE p = "manual"
      <4>1. lock = "manual" BY <1>2, <3>2, <3>6 DEF AllInv, ManualInv
      <4>2. ManualInv' BY <1>2, <3>1, <3>2, <3>6 DEF ManualInv
      <4>3. pc["history"] = "idle" BY <1>2, <4>1 DEF AllInv, HistoryInv
      <4>4. HistoryFrame BY <1>2, <3>1, <3>2, <3>6, <4>1, <4>3 DEF HistoryFrame
      <4> QED BY <1>1, <3>4, <3>5, <4>2, <4>4, CallFrameLemma, HistoryFrameLemma DEF AllInv
    <3>7. CASE p = "history"
      <4>1. lock = "history" BY <1>2, <3>2, <3>7 DEF AllInv, HistoryInv
      <4>2. HistoryInv' BY <1>2, <3>1, <3>2, <3>7 DEF HistoryInv
      <4>3. ManualFrame BY <1>2, <3>1, <3>2, <3>7, <4>1 DEF ManualFrame
      <4> QED BY <1>1, <3>4, <3>5, <4>2, <4>3, CallFrameLemma, ManualFrameLemma DEF AllInv
    <3> QED BY <3>6, <3>7
  <2> QED BY <1>1, <1>3, <2>1, LoopActions, ManualActions, HistoryActions, CallActions,
             ReplayActions
          DEF Progress
<1>4. CASE Edits
  <2>0. 0 \in 0 .. Len(features) /\ Active \subseteq 0 .. Len(features)
    BY <1>2, Invs, Lengths DEF Active
  <2>1. ASSUME NEW action \in {"create", "update"}, NEW f \in 0 .. Len(features),
               NEW t \in Maybe, NEW k \in Named, CheckEdit(action, f, t, k)
        PROVE  AllInv'
    BY <1>1, <2>1, LoopActions
  <2>2. ASSUME NEW f \in 0 .. Len(features), CheckEdit("delete", f, NoTask, NoKey)
        PROVE  AllInv'
    BY <1>1, <2>2, LoopActions DEF Maybe, Named
  <2>3. CASE \E k \in Key : RetryEdit(k) BY <1>1, <2>3, LoopActions
  <2> QED
    BY <1>4, <2>0, <2>1, <2>2, <2>3
       DEF Edits, CreateFeature, UpdateFeature, DeleteFeature, Maybe, Named
<1>5. CASE Requests
  <2>1. CASE RetryHistory BY <1>1, <2>1, LoopActions
  <2>2. CASE \E to \in {"active", "paused", "completed", "archived"} : PatchSession(to)
    BY <1>1, <2>2, LoopActions DEF SessionStatus
  <2>3. CASE \E t \in Maybe, k \in Key : CheckManual(t, k) BY <1>1, <2>3, ManualActions
  <2>4. CASE \E op \in {"undo", "redo"} : StartHistory(op) BY <1>1, <2>4, HistoryActions
  <2>5. ASSUME NEW t \in Task,
               \/ \E kind \in {"claim", "dismissed", "reopen"} : Call(kind, t, 0)
               \/ \E kind \in {"manual_added", "corrected"}, f \in Active : Call(kind, t, f)
        PROVE  AllInv'
    BY <1>1, <2>5, CallActions
  <2> QED
    BY <1>5, <2>1, <2>2, <2>3, <2>4, <2>5
       DEF Requests, PatchTask, ResolveTask, ReopenTask, Maybe
<1>6. CASE DropProposal
  <2>1. UNCHANGED <<pc, req, lock, session>> BY <1>6 DEF DropProposal, registry
  <2>2. bound'["writes"] = bound["writes"] /\ bound'["features"] = bound["features"]
    BY <1>2, <1>6, SpendLemma DEF DropProposal
  <2>3. LoopFrame /\ CallFrame /\ ManualFrame BY <2>1, <2>2
     DEF LoopFrame, CallFrame, ManualFrame
  <2>4. HistoryFrame BY <1>2, <2>1, <2>2 DEF HistoryFrame, AllInv, HistoryInv
  <2> QED BY <1>1, <2>3, <2>4, LoopFrameLemma, CallFrameLemma, ManualFrameLemma,
             HistoryFrameLemma
          DEF AllInv
<1>7. CASE Restart
  <2>1. /\ pc' = [p \in Process |-> IF p = "loop" THEN "replay" ELSE "idle"]
        /\ req' = [p \in Process |-> IF p = "loop" THEN [kind |-> "start"] ELSE NoRequest]
        /\ lock' = "none"
    BY <1>7 DEF Restart
  <2> QED BY <2>1 DEF AllInv, LoopInv, CallInv, ManualInv, HistoryInv
<1>8. CASE UNCHANGED vars
  <2>1. LoopFrame /\ CallFrame /\ ManualFrame BY <1>8 DEF LoopFrame, CallFrame, ManualFrame, vars
  <2>2. HistoryFrame BY <1>2, <1>8 DEF HistoryFrame, AllInv, HistoryInv, vars
  <2> QED BY <1>1, <2>1, <2>2, LoopFrameLemma, CallFrameLemma, ManualFrameLemma,
             HistoryFrameLemma
          DEF AllInv
<1> QED BY <1>3, <1>4, <1>5, <1>6, <1>7, <1>8 DEF Next

------------------------------------------------------------------------------
(* The initial states *)

LEMMA InitLemma == Init => IndInv
<1> SUFFICES ASSUME Init PROVE IndInv OBVIOUS
<1> USE DEF Init, LayerInit, Imported
<1>1. LayerTypes
  <2>1. features \in Seq(Nat) /\ Len(features) = Sources BY LayerAssumption
  <2>2. bound \in [{"writes", "features", "requests", "faults"} -> Nat] BY ReviewAssumption
  <2> QED BY <2>1, <2>2 DEF LayerTypes
<1>2. LayerLinks
  <2>1. bound["writes"] \in Nat /\ bound["writes"] < MaxRevision /\ MaxRevision \in Nat
    BY <1>1, ReviewAssumption, LayerAssumption DEF LayerTypes
  <2>2. Len(features) = Sources BY LayerAssumption
  <2>3. Len(features) <= Sources + revision BY <2>2, LayerAssumption
  <2>4. \A f \in DOMAIN features : features[f] <= revision OBVIOUS
  <2>5. revision > 0 /\ revision + bound["writes"] <= MaxRevision BY <2>1
  <2>6. DOMAIN audit = {} /\ DOMAIN requests = {} /\ DOMAIN outbox = {} OBVIOUS
  <2> QED BY <2>3, <2>4, <2>5, <2>6 DEF LayerLinks
<1>3. Registry BY DEF Registry, SessionStatus, Task0, Status, Open, Terminal
<1>4. ProcessInv
  BY DEF ProcessInv, LoopInv, CallInv, ManualInv, HistoryInv, Process
<1>5. ReplayInv
  <2>1. \A p \in Replayer : DOMAIN queue[p] = {} BY Queues
  <2>2. NoPlan \in [do : Doing, intent : Nat] /\ NoPlan.do = "none" BY DEF NoPlan, Doing
  <2> QED BY <2>1, <2>2 DEF ReplayInv
<1>6. HonestInv BY DEF HonestInv, NoPlan
<1> QED BY <1>1, <1>2, <1>3, <1>4, <1>5, <1>6 DEF IndInv

------------------------------------------------------------------------------
(* Which edits commit *)

LEMMA EditsLemma == IndInv /\ [Next]_vars => EditsFenced
<1> SUFFICES ASSUME IndInv, [Next]_vars PROVE EditsFenced OBVIOUS
<1>1. AllInv /\ LayerTypes BY Invs
<1>2. Len(audit) \in Nat /\ Len(requests) \in Nat BY <1>1, Lengths
<1>3. ASSUME UNCHANGED <<audit, requests>> PROVE EditsFenced
  BY <1>2, <1>3 DEF EditsFenced
<1>4. CASE CommitEdit
  <2> DEFINE r == req["loop"]
  <2>1. requests' = requests /\ \E e : audit' = Append(audit, e) /\ e.task = r.task
    BY <1>4 DEF CommitEdit, Edit
  <2>2. audit'[Len(audit')].task = r.task BY <1>1, <2>1 DEF LayerTypes
  <2>3. r.task # NoTask => session = "active" BY <1>1, <1>4 DEF CommitEdit, AllInv, LoopInv
  <2> QED BY <1>2, <2>1, <2>2, <2>3 DEF EditsFenced
<1>5. CASE CommitManual
  <2>1. requests' = requests
        /\ \E e : audit' = Append(audit, e) /\ e.action = "manual_create"
    BY <1>5 DEF CommitManual, Edit
  <2>2. audit'[Len(audit')].action = "manual_create" BY <1>1, <2>1 DEF LayerTypes
  <2> QED BY <1>2, <2>1, <2>2 DEF EditsFenced
<1>6. CASE CommitHistory
  <2> DEFINE r == req["history"]
  <2>1. r.edit \in DOMAIN audit /\ r.task = audit[r.edit].task
        /\ (r.task # NoTask => session = "active")
    BY <1>1, <1>6 DEF CommitHistory, AllInv, HistoryInv
  <2>2. /\ \E e : requests' = Append(requests, e) /\ e.edit = r.edit
        /\ audit' = [audit EXCEPT ![r.edit].undone = (r.kind = "undo"),
                                  ![r.edit].lastOp = revision + 1]
    BY <1>6 DEF CommitHistory, Apply
  <2>3. Len(audit') = Len(audit)
    <3>1. DOMAIN audit' = DOMAIN audit BY <2>2
    <3> QED BY <3>1, <1>1, <2>2 DEF LayerTypes
  <2>4. requests'[Len(requests')].edit = r.edit BY <1>1, <2>2 DEF LayerTypes
  <2>5. audit[r.edit].task = NoTask \/ session = "active" BY <2>1
  <2>6. audit'[r.edit].task = audit[r.edit].task
    <3>1. LayerGrows BY LayerLemma
    <3> QED BY <2>1, <3>1 DEF LayerGrows
  <2> QED BY <1>2, <2>3, <2>4, <2>5, <2>6 DEF EditsFenced
<1>7. CASE \E p \in Replayer : Attempt(p) \/ Carry(p) \/ Recorded(p) \/ Replayed(p)
  BY <1>3, <1>7 DEF Attempt, Carry, Recorded, Settle, Replayed, layer
<1>8. CASE \/ LockManual \/ RefuseManual \/ FenceHistory \/ CheckHistory \/ CheckCall
           \/ WriteCall \/ CountBlockers \/ WriteSession
           \/ \E p \in {"manual", "history"} : Release(p)
  BY <1>3, <1>8 DEF LockManual, RefuseManual, FenceHistory, CheckHistory, CheckCall,
     WriteCall, CountBlockers, WriteSession, Release, layer
<1>9. CASE Edits
  BY <1>3, <1>9 DEF Edits, CreateFeature, UpdateFeature, DeleteFeature, CheckEdit,
                    RetryEdit, layer
<1>10. CASE Requests
  <2>1. ASSUME NEW to, PatchSession(to) PROVE EditsFenced
    BY <1>3, <2>1 DEF PatchSession, layer
  <2>2. ASSUME NEW kind, NEW t, NEW f, Call(kind, t, f) PROVE EditsFenced
    BY <1>3, <2>2 DEF Call, layer
  <2>3. CASE \/ RetryHistory \/ \E op \in {"undo", "redo"} : StartHistory(op)
             \/ \E t \in Task \cup {NoTask}, k \in Key : CheckManual(t, k)
    BY <1>3, <2>3 DEF RetryHistory, StartHistory, CheckManual, layer
  <2> QED BY <1>10, <2>1, <2>2, <2>3 DEF Requests, PatchTask, ResolveTask, ReopenTask
<1>11. CASE DropProposal \/ Restart \/ UNCHANGED vars
  BY <1>3, <1>11 DEF DropProposal, Restart, vars, layer
<1> QED BY <1>4, <1>5, <1>6, <1>7, <1>8, <1>9, <1>10, <1>11 DEF Next, Progress

------------------------------------------------------------------------------
(* The theorems *)

LEMMA TypeLemma == IndInv => TypeOK
<1> SUFFICES ASSUME IndInv PROVE TypeOK OBVIOUS
<1>1. AllInv /\ LayerTypes /\ Shape /\ LayerLinks BY Invs DEF IndInv
<1>2. /\ revision \in Nat \ {0} /\ revision <= MaxRevision /\ MaxRevision \in Nat
      /\ Sources \in Nat /\ Len(features) <= Sources + MaxRevision
  <2>1. revision \in Nat /\ revision > 0 /\ bound["writes"] \in Nat
        /\ revision + bound["writes"] <= MaxRevision /\ Len(features) <= Sources + revision
    BY <1>1 DEF LayerTypes, LayerLinks
  <2> QED BY <1>1, <2>1, Lengths, LayerAssumption
<1>3. DOMAIN features \subseteq Feature
  <2>1. \A f \in 1 .. Len(features) : f \in 1 .. Sources + MaxRevision BY <1>1, <1>2, Lengths
  <2> QED BY <1>1, <2>1, Lengths DEF Feature
<1>4. \A f \in DOMAIN features : features[f] \in 0 .. revision
  BY <1>1, <1>2, Lengths DEF LayerLinks
<1>5. ASSUME NEW e \in DOMAIN audit PROVE EditOK(audit[e])
  <2> DEFINE r == audit[e]
  <2>1. r \in Row BY <1>1, Lengths
  <2>2. /\ r.rev \in 2 .. revision /\ r.feature \in DOMAIN features
        /\ r.before <= revision /\ r.after <= revision /\ r.lastOp <= revision
        /\ r.intent <= Len(outbox)
    BY <1>1 DEF LayerLinks
  <2>3. /\ r.action \in Action /\ r.before \in Nat /\ r.after \in Nat /\ r.task \in Maybe
        /\ r.key \in Named /\ r.intent \in Nat /\ r.undone \in BOOLEAN /\ r.lastOp \in Nat
    BY <2>1, RowFields
  <2>4. /\ r.before \in 0 .. revision /\ r.after \in 0 .. revision /\ r.lastOp \in 0 .. revision
        /\ r.intent \in 0 .. Len(outbox)
    BY <1>1, <1>2, <2>2, <2>3, Lengths
  <2> HIDE DEF r
  <2>5. EditOK(r) BY <2>2, <2>3, <2>4, Zenon DEF EditOK, Action, Maybe, Named
  <2> QED BY <2>5 DEF r
<1>6. ASSUME NEW i \in DOMAIN outbox PROVE IntentOK(outbox[i])
  <2>1. outbox[i] \in Intent /\ outbox[i].feature \in Feature
    BY <1>1, <1>3, Lengths DEF LayerLinks
  <2> QED BY <2>1, IntentFields DEF IntentOK
<1>7. tasks \in [Task -> [status : Status, feature : Feature \cup {0}]]
  <2>1. /\ tasks \in [Task -> [status : Status, feature : Nat]]
        /\ \A t \in Task : tasks[t].feature \in {0} \cup DOMAIN features
    BY DEF IndInv, Registry
  <2>2. \A t \in Task : tasks[t] \in [status : Status, feature : Feature \cup {0}]
    BY <1>3, <2>1
  <2> QED BY <2>1, <2>2
<1>8. \A p \in Process : pc[p] \in Places[p]
  BY <1>1 DEF AllInv, LoopInv, CallInv, ManualInv, HistoryInv, Places, Process
<1>9. lock # "none" => pc[lock] \notin {"idle", "wait"}
  BY <1>1 DEF AllInv, ManualInv, HistoryInv, Shape
<1>10. /\ \A n \in DOMAIN requests : requests[n].edit \in DOMAIN audit
       /\ session \in {"active", "paused", "completed", "archived"}
       /\ \A p \in Replayer : DOMAIN queue[p] \subseteq DOMAIN outbox
       /\ lock \in {"none", "manual", "history"} /\ proposal \in BOOLEAN
       /\ reached \subseteq DOMAIN outbox
  BY <1>1 DEF LayerLinks, IndInv, Registry, SessionStatus, ReplayInv, HonestInv, Shape
<1>11. revision \in Imported .. MaxRevision BY <1>2 DEF Imported
<1> QED BY <1>2, <1>4, <1>5, <1>6, <1>7, <1>8, <1>9, <1>10, <1>11 DEF TypeOK

------------------------------------------------------------------------------
(* The history as a line *)

\* The edits in effect, and those undone that no edit has forgotten.
Line == InEffect \cup Redoables

\* What feature f is without any edit in effect, by the rows of an audit trail.
Base(rows, f) ==
    IF \E e \in DOMAIN rows : rows[e].feature = f /\ rows[e].action \in New
    THEN Gone ELSE Imported

\* The edits S give feature f the content c.
Shows(rows, S, f, c) ==
    \/ \E e \in S : /\ rows[e].feature = f /\ rows[e].after = c
                    /\ \A d \in S : rows[d].feature = f => d <= e
    \/ (\A d \in S : rows[d].feature # f) /\ c = Base(rows, f)

\* The edits that can be redone follow those in effect, and the last to be undone
\* is the first of them.
OrderInv ==
    /\ \A d \in InEffect, e \in Redoables : d < e
    /\ \A d, e \in Redoables : d < e => audit[e].lastOp < audit[d].lastOp

\* The edits in effect give the features their content; each edit of the line
\* remembers what those before it give its feature.
ChainInv ==
    /\ \A f \in DOMAIN features : Shows(audit, InEffect, f, features[f])
    /\ \A e \in Line : Shows(audit, {d \in Line : d < e}, audit[e].feature, audit[e].before)

\* Some edit of task t did so on feature f.
Own(t, f, resolution) ==
    \E e \in DOMAIN audit : /\ audit[e].task = t /\ audit[e].feature = f
                            /\ Resolution(audit[e].action) = resolution

\* What a resolution of a task, or the wish for one, goes back to.
OwnInv ==
    /\ \A t \in Task : tasks[t].status \in {"manual_added", "corrected"} =>
          Own(t, tasks[t].feature, tasks[t].status)
    /\ \A i \in DOMAIN outbox :
          Own(outbox[i].task, outbox[i].feature, outbox[i].resolution)
    /\ LET r == req["call"]
       IN  pc["call"] = "write" /\ r.kind \in {"manual_added", "corrected"} =>
              Own(r.task, r.feature, r.kind)

\* The edit of an undo or redo that is under way is still the one to take.
TargetInv ==
    LET r == req["history"]
    IN  /\ pc["history"] \in {"fence", "check", "commit"} =>
              r.edit \in IF r.kind = "undo" THEN UndoTargets ELSE RedoTargets
        /\ pc["history"] = "commit" /\ r.kind = "redo" => Redoable(r.edit)

LineInv == OrderInv /\ ChainInv /\ OwnInv /\ TargetInv

\* Two sets of edits that agree on feature f give it the same content.
LEMMA ShowsSame ==
    ASSUME NEW rows, NEW rows2, NEW S, NEW S2, NEW f, NEW c,
           \A d \in S : rows[d].feature = f =>
              d \in S2 /\ rows2[d].feature = f /\ rows2[d].after = rows[d].after,
           \A d \in S2 : rows2[d].feature = f => d \in S /\ rows[d].feature = f,
           Base(rows2, f) = Base(rows, f), Shows(rows, S, f, c)
    PROVE  Shows(rows2, S2, f, c)
<1>1. CASE \E e \in S : /\ rows[e].feature = f /\ rows[e].after = c
                        /\ \A d \in S : rows[d].feature = f => d <= e
  BY <1>1 DEF Shows
<1>2. CASE (\A d \in S : rows[d].feature # f) /\ c = Base(rows, f)
  BY <1>2 DEF Shows
<1> QED BY <1>1, <1>2 DEF Shows

\* The row of the next edit.
NewEdit == Len(audit) + 1

\* What an edit adds to the audit trail.
LEMMA EditRow ==
    ASSUME LayerTypes, NEW action \in Action, NEW f \in Nat, NEW t \in Maybe, NEW k \in Named,
           EditStep(action, f, t, k)
    PROVE  /\ DOMAIN audit = 1 .. Len(audit) /\ DOMAIN audit' = DOMAIN audit \cup {NewEdit}
           /\ NewEdit \in Nat /\ \A e \in DOMAIN audit : e \in Nat /\ e < NewEdit
           /\ \A e \in DOMAIN audit : audit'[e] = audit[e]
           /\ audit'[NewEdit].rev = revision + 1 /\ audit'[NewEdit].action = action
           /\ audit'[NewEdit].feature = f /\ audit'[NewEdit].task = t
           /\ audit'[NewEdit].undone = FALSE /\ audit'[NewEdit].key = k
           /\ audit'[NewEdit].before = IF action \in New THEN Gone ELSE features[f]
           /\ audit'[NewEdit].after = IF action = "delete" THEN Gone ELSE revision + 1
<1> DEFINE after  == IF action = "delete" THEN Gone ELSE revision + 1
           before == IF action \in New THEN Gone ELSE features[f]
           row == [rev |-> revision + 1, action |-> action, feature |-> f, before |-> before,
                   after |-> after, task |-> t, key |-> k, intent |-> Len(outbox'),
                   undone |-> FALSE, lastOp |-> 0]
<1>1. audit' = Append(audit, row) BY DEF EditStep, Edit, New
<1>2. /\ row.rev = revision + 1 /\ row.action = action /\ row.feature = f /\ row.task = t
      /\ row.undone = FALSE /\ row.key = k /\ row.before = before /\ row.after = after
  OBVIOUS
<1> HIDE DEF row
<1>3. audit \in Seq(Row) BY DEF LayerTypes
<1>4. /\ Len(audit') = NewEdit /\ audit'[NewEdit] = row /\ Len(audit) \in Nat
      /\ \A e \in 1 .. Len(audit) : audit'[e] = audit[e]
      /\ DOMAIN audit = 1 .. Len(audit) /\ DOMAIN audit' = 1 .. NewEdit
  BY <1>1, <1>3 DEF NewEdit
<1>5. 1 .. NewEdit = (1 .. Len(audit)) \cup {NewEdit} /\ NewEdit \in Nat
      /\ \A e \in 1 .. Len(audit) : e \in Nat /\ e < NewEdit
  BY <1>4 DEF NewEdit
<1> QED BY <1>2, <1>4, <1>5

\* What an undo or redo changes in the audit trail.
LEMMA ApplyRows ==
    ASSUME LayerTypes, NEW op \in {"undo", "redo"}, NEW e \in DOMAIN audit, ApplyStep(op, e)
    PROVE  /\ DOMAIN audit' = DOMAIN audit
           /\ \A d \in DOMAIN audit :
                 /\ audit'[d].rev = audit[d].rev /\ audit'[d].action = audit[d].action
                 /\ audit'[d].feature = audit[d].feature /\ audit'[d].task = audit[d].task
                 /\ audit'[d].before = audit[d].before /\ audit'[d].after = audit[d].after
                 /\ audit'[d].key = audit[d].key
                 /\ d # e => audit'[d] = audit[d]
           /\ audit'[e].undone = (op = "undo") /\ audit'[e].lastOp = revision + 1
<1> DEFINE row == [audit[e] EXCEPT !.undone = (op = "undo"), !.lastOp = revision + 1]
<1>1. audit' = [audit EXCEPT ![e] = row] BY DEF ApplyStep, Apply
<1>2. e \in 1 .. Len(audit) /\ audit[e] \in Row /\ audit \in Seq(Row)
  BY Lengths DEF LayerTypes
<1>3. /\ row.rev = audit[e].rev /\ row.action = audit[e].action /\ row.task = audit[e].task
      /\ row.feature = audit[e].feature /\ row.before = audit[e].before
      /\ row.after = audit[e].after /\ row.key = audit[e].key /\ row.undone = (op = "undo") /\ row.lastOp = revision + 1
      /\ row \in [rev : Nat, action : Action, feature : Nat, before : Nat, after : Nat,
                  task : Maybe, key : Named, intent : Nat, undone : BOOLEAN,
                  lastOp : {revision + 1}]
  BY <1>2 DEF Row
<1> HIDE DEF row
<1>4. DOMAIN audit' = DOMAIN audit
      /\ \A d \in DOMAIN audit : audit'[d] = IF d = e THEN row ELSE audit[d]
  BY <1>1
<1> QED BY <1>3, <1>4

\* Each edit with its feature, action and task outlives every step.
LEMMA RowsKept ==
    ASSUME IndInv, [Next]_vars
    PROVE  \A e \in DOMAIN audit : /\ e \in DOMAIN audit'
                                   /\ audit'[e].feature = audit[e].feature
                                   /\ audit'[e].action = audit[e].action
                                   /\ audit'[e].task = audit[e].task
<1>1. LayerStep /\ LayerTypes BY LayerStepLemma DEF IndInv
<1>2. CASE audit' = audit BY <1>2
<1>3. ASSUME NEW a \in Action, NEW f \in Nat, NEW t \in Maybe, NEW k \in Named,
             EditStep(a, f, t, k)
      PROVE  \A e \in DOMAIN audit : e \in DOMAIN audit' /\ audit'[e] = audit[e]
  BY <1>1, <1>3, EditRow
<1>4. ASSUME NEW op \in {"undo", "redo"}, NEW d \in DOMAIN audit, ApplyStep(op, d)
      PROVE  \A e \in DOMAIN audit : /\ e \in DOMAIN audit'
                                     /\ audit'[e].feature = audit[e].feature
                                     /\ audit'[e].action = audit[e].action
                                     /\ audit'[e].task = audit[e].task
  BY <1>1, <1>4, ApplyRows
<1>5. QuietStep \/ (\E i \in DOMAIN outbox, s \in {"reconciled", "pending", "error"} :
                      SettleStep(i, s)) => audit' = audit
  BY DEF QuietStep, SettleStep, Settle, layer
<1> QED BY <1>1, <1>2, <1>3, <1>4, <1>5 DEF LayerStep

\* A new edit follows all others, and forgets what was undone.
LEMMA EditLine ==
    ASSUME LayerTypes, LayerLinks, NEW action \in Action, NEW f \in Nat, NEW t \in Maybe,
           NEW k \in Named, EditStep(action, f, t, k)
    PROVE  InEffect' = InEffect \cup {NewEdit} /\ Redoables' = {}
<1>1. /\ DOMAIN audit' = DOMAIN audit \cup {NewEdit} /\ NewEdit \notin DOMAIN audit
      /\ \A e \in DOMAIN audit : audit'[e] = audit[e]
      /\ audit'[NewEdit].rev = revision + 1 /\ audit'[NewEdit].undone = FALSE
  <2>1. \A e \in DOMAIN audit : e \in Nat /\ e < NewEdit BY EditRow
  <2>2. NewEdit \notin DOMAIN audit BY <2>1
  <2> QED BY <2>2, EditRow
<1>2. \A e \in DOMAIN audit : audit[e].lastOp \in Nat /\ audit[e].lastOp <= revision
  BY Lengths, RowFields DEF LayerLinks
<1>3. revision \in Nat BY DEF LayerTypes
<1>4. InEffect' = InEffect \cup {NewEdit} BY <1>1 DEF InEffect
<1>5. \A e \in DOMAIN audit : ~Redoable(e)'
  <2> TAKE e \in DOMAIN audit
  <2>1. audit'[e].lastOp = audit[e].lastOp BY <1>1
  <2>2. ~(audit'[NewEdit].rev <= audit'[e].lastOp) BY <1>1, <1>2, <1>3, <2>1
  <2> QED BY <1>1, <2>2 DEF Redoable
<1>6. \A e \in Undone' : e \in DOMAIN audit BY <1>1 DEF Undone, InEffect
<1> QED BY <1>4, <1>5, <1>6 DEF Redoables

\* Whether an edit that is not at work can be redone does not change.
LEMMA RedoableStays ==
    ASSUME LayerTypes, NEW op \in {"undo", "redo"}, NEW e \in DOMAIN audit, ApplyStep(op, e)
    PROVE  \A d \in DOMAIN audit \ {e} : Redoable(d)' <=> Redoable(d)
<1>1. /\ DOMAIN audit' = DOMAIN audit
      /\ \A d \in DOMAIN audit : audit'[d].rev = audit[d].rev
      /\ \A d \in DOMAIN audit \ {e} : audit'[d] = audit[d]
  BY ApplyRows
<1> QED BY <1>1 DEF Redoable

\* An undo moves the last edit in effect to those that can be redone.
LEMMA UndoLine ==
    ASSUME LayerTypes, LayerLinks, NEW e \in UndoTargets, ApplyStep("undo", e)
    PROVE  InEffect' = InEffect \ {e} /\ Redoables' = Redoables \cup {e}
           /\ e \in InEffect /\ e \notin Redoables
<1>1. e \in DOMAIN audit /\ e \in InEffect BY DEF UndoTargets, InEffect
<1>2. /\ DOMAIN audit' = DOMAIN audit
      /\ \A d \in DOMAIN audit : audit'[d].rev = audit[d].rev
      /\ \A d \in DOMAIN audit \ {e} : audit'[d] = audit[d]
      /\ audit'[e].undone = TRUE /\ audit'[e].lastOp = revision + 1
  BY <1>1, ApplyRows
<1>3. InEffect' = InEffect \ {e} /\ Undone' = Undone \cup {e}
  BY <1>1, <1>2 DEF InEffect, Undone
<1>4. Redoable(e)'
  <2>1. \A d \in DOMAIN audit : audit[d].rev \in Nat /\ audit[d].rev <= revision
    BY Lengths, RowFields DEF LayerLinks, LayerTypes
  <2>2. revision \in Nat BY DEF LayerTypes
  <2>3. \A d \in DOMAIN audit : audit'[d].rev <= audit'[e].lastOp BY <1>2, <2>1, <2>2
  <2> QED BY <1>2, <2>3 DEF Redoable
<1>5. \A d \in DOMAIN audit \ {e} : Redoable(d)' <=> Redoable(d)
  BY <1>1, RedoableStays
<1>6. e \notin Undone BY <1>1 DEF Undone
<1>7. Undone \subseteq DOMAIN audit BY DEF Undone
<1> QED BY <1>1, <1>3, <1>4, <1>5, <1>6, <1>7 DEF Redoables

\* A redo moves the edit back.
LEMMA RedoLine ==
    ASSUME LayerTypes, LayerLinks, NEW e \in RedoTargets, ApplyStep("redo", e), Redoable(e)
    PROVE  InEffect' = InEffect \cup {e} /\ Redoables' = Redoables \ {e}
           /\ e \in Redoables
<1>1. e \in DOMAIN audit /\ e \in Undone BY DEF RedoTargets, Undone
<1>2. /\ DOMAIN audit' = DOMAIN audit
      /\ \A d \in DOMAIN audit \ {e} : audit'[d] = audit[d]
      /\ audit'[e].undone = FALSE
  BY <1>1, ApplyRows
<1>3. InEffect' = InEffect \cup {e} /\ Undone' = Undone \ {e}
  BY <1>1, <1>2 DEF InEffect, Undone
<1>4. \A d \in DOMAIN audit \ {e} : Redoable(d)' <=> Redoable(d)
  BY <1>1, RedoableStays
<1>5. Undone \subseteq DOMAIN audit BY DEF Undone
<1> QED BY <1>1, <1>3, <1>4, <1>5 DEF Redoables

\* Every edit is a number, with a numbered last operation.
LEMMA Numbers ==
    ASSUME LayerTypes, LayerLinks
    PROVE  /\ InEffect \subseteq Nat /\ Redoables \subseteq Nat /\ Line \subseteq DOMAIN audit
           /\ InEffect \subseteq DOMAIN audit /\ Redoables \subseteq Undone
           /\ Undone \subseteq DOMAIN audit
           /\ \A e \in DOMAIN audit : e \in Nat /\ audit[e].lastOp \in Nat
                                      /\ audit[e].lastOp <= revision
                                      /\ audit[e].feature \in DOMAIN features
           /\ revision \in Nat
<1>1. \A e \in DOMAIN audit : e \in Nat /\ audit[e].lastOp \in Nat
                              /\ audit[e].lastOp <= revision
                              /\ audit[e].feature \in DOMAIN features
  BY Lengths, RowFields DEF LayerLinks
<1>2. revision \in Nat BY DEF LayerTypes
<1> QED BY <1>1, <1>2 DEF InEffect, Redoables, Undone, Line

\* Undo and redo keep the order of the line.
LEMMA UndoOrder ==
    ASSUME LayerTypes, LayerLinks, OrderInv, NEW e \in UndoTargets, ApplyStep("undo", e)
    PROVE  OrderInv'
<1>1. InEffect' = InEffect \ {e} /\ Redoables' = Redoables \cup {e} /\ e \in InEffect
      /\ e \notin Redoables
  BY UndoLine
<1>2. /\ e \in DOMAIN audit /\ InEffect \subseteq Nat /\ Redoables \subseteq DOMAIN audit
      /\ \A d \in DOMAIN audit : d \in Nat /\ audit[d].lastOp \in Nat
                                 /\ audit[d].lastOp <= revision
      /\ revision \in Nat
  BY <1>1, Numbers DEF Undone
<1>3. /\ \A d \in DOMAIN audit \ {e} : audit'[d] = audit[d]
      /\ audit'[e].lastOp = revision + 1
  BY <1>2, ApplyRows
<1>4. \A d \in InEffect : d <= e BY DEF UndoTargets
<1>5. \A d \in InEffect', g \in Redoables' : d < g
  <2>1. \A d \in InEffect \ {e} : d < e BY <1>2, <1>4
  <2> QED BY <1>1, <2>1 DEF OrderInv
<1>6. ASSUME NEW d \in Redoables', NEW g \in Redoables', d < g
      PROVE  audit'[g].lastOp < audit'[d].lastOp
  <2>1. \A h \in Redoables : e < h BY <1>1 DEF OrderInv
  <2>2. g # e
    <3> SUFFICES ASSUME g = e PROVE FALSE OBVIOUS
    <3>1. d \in Redoables BY <1>1, <1>2, <1>6
    <3> QED BY <1>2, <1>6, <2>1, <3>1
  <2>3. g \in Redoables /\ audit'[g] = audit[g] /\ audit[g].lastOp <= revision
        /\ audit[g].lastOp \in Nat
    BY <1>1, <1>2, <1>3, <2>2
  <2>4. CASE d = e BY <1>2, <1>3, <2>3, <2>4
  <2>5. CASE d # e
    <3>1. d \in Redoables /\ audit'[d] = audit[d] BY <1>1, <1>2, <1>3, <2>5
    <3> QED BY <1>6, <2>3, <3>1 DEF OrderInv
  <2> QED BY <2>4, <2>5
<1> QED BY <1>5, <1>6 DEF OrderInv

\* The edit to redo is the first that can be.
LEMMA RedoFirst ==
    ASSUME LayerTypes, LayerLinks, OrderInv, NEW e \in RedoTargets, Redoable(e)
    PROVE  \A d \in Redoables \ {e} : e < d
<1>1. /\ e \in Redoables /\ \A d \in Undone : audit[d].lastOp <= audit[e].lastOp
      /\ e \in DOMAIN audit
  BY DEF RedoTargets, Redoables, Undone
<1>2. /\ Redoables \subseteq Undone /\ Redoables \subseteq DOMAIN audit
      /\ \A d \in DOMAIN audit : d \in Nat /\ audit[d].lastOp \in Nat
  BY Numbers
<1> TAKE d \in Redoables \ {e}
<1>3. ~(d < e)
  <2> SUFFICES ASSUME d < e PROVE FALSE OBVIOUS
  <2>1. audit[e].lastOp < audit[d].lastOp BY <1>1 DEF OrderInv
  <2>2. audit[d].lastOp <= audit[e].lastOp BY <1>1, <1>2
  <2>3. audit[d].lastOp \in Nat /\ audit[e].lastOp \in Nat BY <1>1, <1>2
  <2> QED BY <2>1, <2>2, <2>3
<1>4. d \in Nat /\ e \in Nat /\ d # e BY <1>1, <1>2
<1> QED BY <1>3, <1>4

LEMMA RedoOrder ==
    ASSUME LayerTypes, LayerLinks, OrderInv, NEW e \in RedoTargets, Redoable(e),
           ApplyStep("redo", e)
    PROVE  OrderInv'
<1>1. InEffect' = InEffect \cup {e} /\ Redoables' = Redoables \ {e} /\ e \in Redoables
  BY RedoLine
<1>2. e \in DOMAIN audit /\ Redoables \subseteq DOMAIN audit BY <1>1, Numbers
<1>3. \A d \in DOMAIN audit \ {e} : audit'[d] = audit[d] BY <1>2, ApplyRows
<1>4. \A d \in InEffect', g \in Redoables' : d < g BY <1>1, RedoFirst DEF OrderInv
<1>5. \A d, g \in Redoables' : d < g => audit'[g].lastOp < audit'[d].lastOp
  BY <1>1, <1>2, <1>3 DEF OrderInv
<1> QED BY <1>4, <1>5 DEF OrderInv

------------------------------------------------------------------------------
(* Features follow the line *)

\* A feature that an edit does not create had its base before.
LEMMA EditBase ==
    ASSUME LayerTypes, LayerLinks, NEW action \in Action, NEW f \in Nat, NEW t \in Maybe,
           NEW k \in Named, EditStep(action, f, t, k), NEW g, g # f \/ action \notin New
    PROVE  Base(audit', g) = Base(audit, g)
<1>1. /\ DOMAIN audit' = DOMAIN audit \cup {NewEdit}
      /\ \A e \in DOMAIN audit : audit'[e] = audit[e]
      /\ audit'[NewEdit].action = action /\ audit'[NewEdit].feature = f
  BY EditRow
<1>2. (\E e \in DOMAIN audit' : audit'[e].feature = g /\ audit'[e].action \in New)
      <=> (\E e \in DOMAIN audit : audit[e].feature = g /\ audit[e].action \in New)
  BY <1>1
<1> QED BY <1>2 DEF Base

LEMMA EditChain ==
    ASSUME LayerTypes, LayerLinks, OrderInv, ChainInv, NEW action \in Action, NEW f \in Nat,
           NEW t \in Maybe, NEW k \in Named, EditStep(action, f, t, k)
    PROVE  OrderInv' /\ ChainInv'
<1> DEFINE after == IF action = "delete" THEN Gone ELSE revision + 1
<1>1. /\ DOMAIN audit' = DOMAIN audit \cup {NewEdit} /\ NewEdit \in Nat
      /\ \A e \in DOMAIN audit : e \in Nat /\ e < NewEdit /\ audit'[e] = audit[e]
      /\ audit'[NewEdit].action = action /\ audit'[NewEdit].feature = f /\ audit'[NewEdit].after = after
      /\ audit'[NewEdit].before = IF action \in New THEN Gone ELSE features[f]
  BY EditRow
<1>2. InEffect' = InEffect \cup {NewEdit} /\ Redoables' = {} BY EditLine
<1>3. /\ features' = IF action \in New THEN Append(features, after)
                     ELSE [features EXCEPT ![f] = after]
      /\ IF action \in New THEN f = Len(features) + 1 ELSE f \in DOMAIN features
  BY DEF EditStep, Edit, New
<1>4. features \in Seq(Nat) /\ Len(features) \in Nat /\ DOMAIN features = 1 .. Len(features)
  BY Lengths DEF LayerTypes
<1> HIDE DEF after
<1>5. /\ DOMAIN features' = DOMAIN features \cup {f} /\ features'[f] = after
      /\ \A g \in DOMAIN features \ {f} : features'[g] = features[g]
      /\ action \in New => f \notin DOMAIN features
  <2>1. CASE action \in New
    <3>1. features' = Append(features, after) /\ f = Len(features) + 1 BY <1>3, <2>1
    <3>2. /\ DOMAIN features' = 1 .. f /\ features'[f] = after
          /\ \A g \in 1 .. Len(features) : features'[g] = features[g]
      BY <1>4, <3>1
    <3>3. 1 .. f = (1 .. Len(features)) \cup {f} /\ f \notin 1 .. Len(features) BY <1>4, <3>1
    <3> QED BY <1>4, <3>2, <3>3
  <2>2. CASE action \notin New
    <3>1. features' = [features EXCEPT ![f] = after] /\ f \in DOMAIN features BY <1>3, <2>2
    <3> QED BY <2>2, <3>1
  <2> QED BY <2>1, <2>2
<1>6. /\ InEffect \subseteq DOMAIN audit /\ Line \subseteq DOMAIN audit
      /\ \A e \in DOMAIN audit : audit[e].feature \in DOMAIN features
  BY Numbers
<1>7. ASSUME NEW g \in DOMAIN features, g # f \/ action \notin New
      PROVE  Base(audit', g) = Base(audit, g)
  BY <1>7, EditBase
<1>8. OrderInv' BY <1>2 DEF OrderInv
<1>9. ASSUME NEW g \in DOMAIN features' PROVE Shows(audit', InEffect', g, features'[g])
  <2>1. CASE g = f
    <3>1. \A d \in InEffect' : d <= NewEdit BY <1>1, <1>2, <1>6
    <3> QED BY <1>1, <1>2, <1>5, <2>1, <3>1 DEF Shows
  <2>2. CASE g # f
    <3>1. g \in DOMAIN features /\ features'[g] = features[g] BY <1>5, <2>2
    <3>2. Shows(audit, InEffect, g, features[g]) BY <3>1 DEF ChainInv
    <3>3. \A d \in InEffect : d \in InEffect' /\ audit'[d] = audit[d] BY <1>1, <1>2, <1>6
    <3>4. \A d \in InEffect' : audit'[d].feature = g => d \in InEffect BY <1>1, <1>2, <2>2
    <3>5. Base(audit', g) = Base(audit, g) BY <1>7, <2>2, <3>1
    <3> QED BY <3>1, <3>2, <3>3, <3>4, <3>5, ShowsSame
  <2> QED BY <2>1, <2>2
<1>10. Line' = InEffect \cup {NewEdit} BY <1>2 DEF Line
<1>11. ASSUME NEW e \in Line'
       PROVE  Shows(audit', {d \in Line' : d < e}, audit'[e].feature, audit'[e].before)
  <2>1. CASE e = NewEdit
    <3>1. {d \in Line' : d < e} = InEffect BY <1>1, <1>6, <1>10, <2>1
    <3>2. \A d \in InEffect : audit'[d] = audit[d] /\ audit[d].feature \in DOMAIN features
      BY <1>1, <1>6
    <3>3. CASE action \in New
      <4>1. \A d \in InEffect : audit'[d].feature # f BY <1>5, <3>2, <3>3
      <4>2. Base(audit', f) = Gone BY <1>1, <3>3 DEF Base
      <4> QED BY <1>1, <2>1, <3>1, <3>3, <4>1, <4>2 DEF Shows
    <3>4. CASE action \notin New
      <4>1. f \in DOMAIN features BY <1>3, <3>4
      <4>2. Shows(audit, InEffect, f, features[f]) BY <4>1 DEF ChainInv
      <4>3. Base(audit', f) = Base(audit, f) BY <1>7, <3>4, <4>1
      <4>4. Shows(audit', InEffect, f, features[f]) BY <3>2, <4>2, <4>3, ShowsSame
      <4> QED BY <1>1, <2>1, <3>1, <3>4, <4>4
    <3> QED BY <3>3, <3>4
  <2>2. CASE e # NewEdit
    <3>1. e \in InEffect /\ e \in DOMAIN audit /\ e \in Line BY <1>6, <1>10, <2>2 DEF Line
    <3> DEFINE S == {d \in Line : d < e}
               g == audit[e].feature
    <3>2. {d \in Line' : d < e} = S
      <4>1. ~(NewEdit < e) BY <1>1, <3>1
      <4>2. \A d \in Redoables : ~(d < e)
        <5>1. \A d \in Redoables : e < d /\ d \in Nat /\ e \in Nat
          BY <3>1, Numbers DEF OrderInv
        <5> QED BY <5>1
      <4> QED BY <1>10, <4>1, <4>2 DEF Line
    <3>3. Shows(audit, S, g, audit[e].before) BY <3>1 DEF ChainInv
    <3>4. \A d \in S : audit'[d] = audit[d] BY <1>1, <1>6
    <3>5. Base(audit', g) = Base(audit, g) BY <1>5, <1>6, <1>7, <3>1
    <3> HIDE DEF S, g
    <3>6. Shows(audit', S, g, audit[e].before) BY <3>3, <3>4, <3>5, ShowsSame
    <3>7. audit'[e] = audit[e] BY <1>1, <3>1
    <3> QED BY <3>2, <3>6, <3>7 DEF g
  <2> QED BY <2>1, <2>2
<1> QED BY <1>8, <1>9, <1>11 DEF ChainInv

\* Undo and redo leave the line as it is, and what its edits remember.
LEMMA ApplyChain ==
    ASSUME LayerTypes, LayerLinks, ChainInv, NEW op \in {"undo", "redo"},
           NEW e \in DOMAIN audit, ApplyStep(op, e), Line' = Line
    PROVE  /\ \A d \in Line' : Shows(audit', {c \in Line' : c < d}, audit'[d].feature,
                                     audit'[d].before)
           /\ \A g : Base(audit', g) = Base(audit, g)
<1>1. /\ DOMAIN audit' = DOMAIN audit
      /\ \A d \in DOMAIN audit :
            /\ audit'[d].feature = audit[d].feature /\ audit'[d].action = audit[d].action
            /\ audit'[d].before = audit[d].before /\ audit'[d].after = audit[d].after
  BY ApplyRows
<1>2. \A g : Base(audit', g) = Base(audit, g) BY <1>1 DEF Base
<1>3. Line \subseteq DOMAIN audit BY Numbers
<1>4. ASSUME NEW d \in Line
      PROVE  Shows(audit', {c \in Line : c < d}, audit'[d].feature, audit'[d].before)
  <2> DEFINE S == {c \in Line : c < d}
             g == audit[d].feature
  <2>1. Shows(audit, S, g, audit[d].before) BY DEF ChainInv
  <2>2. \A c \in S : audit'[c].feature = audit[c].feature /\ audit'[c].after = audit[c].after
    BY <1>1, <1>3
  <2>3. audit'[d].feature = g /\ audit'[d].before = audit[d].before BY <1>1, <1>3
  <2> HIDE DEF S, g
  <2>4. Shows(audit', S, g, audit[d].before) BY <1>2, <2>1, <2>2, ShowsSame
  <2> QED BY <2>3, <2>4 DEF S
<1> QED BY <1>2, <1>4

LEMMA UndoChain ==
    ASSUME LayerTypes, LayerLinks, OrderInv, ChainInv, NEW e \in UndoTargets,
           ApplyStep("undo", e)
    PROVE  ChainInv'
<1> DEFINE f == audit[e].feature
<1>1. InEffect' = InEffect \ {e} /\ Redoables' = Redoables \cup {e} /\ e \in InEffect
  BY UndoLine
<1>2. e \in DOMAIN audit /\ InEffect \subseteq DOMAIN audit /\ Line \subseteq DOMAIN audit
      /\ f \in DOMAIN features /\ Redoables \subseteq Nat /\ InEffect \subseteq Nat
  BY <1>1, Numbers
<1>3. Line' = Line BY <1>1 DEF Line
<1>4. /\ \A d \in Line' : Shows(audit', {c \in Line' : c < d}, audit'[d].feature,
                                audit'[d].before)
      /\ \A g : Base(audit', g) = Base(audit, g)
  BY <1>2, <1>3, ApplyChain
<1>5. \A d \in DOMAIN audit : /\ audit'[d].feature = audit[d].feature
                              /\ audit'[d].after = audit[d].after
  BY <1>2, ApplyRows
<1>6. features' = [features EXCEPT ![f] = audit[e].before] BY DEF ApplyStep, Apply
<1>7. {d \in Line : d < e} = InEffect'
  <2>1. \A d \in InEffect : d \in Nat /\ e \in Nat /\ d <= e BY <1>1, <1>2 DEF UndoTargets
  <2>2. \A d \in Redoables : d \in Nat /\ e < d BY <1>1, <1>2 DEF OrderInv
  <2>3. \A d \in InEffect : d < e <=> d # e BY <2>1
  <2>4. \A d \in Redoables : ~(d < e) BY <1>1, <2>1, <2>2
  <2> QED BY <1>1, <2>1, <2>3, <2>4 DEF Line
<1>8. ASSUME NEW g \in DOMAIN features' PROVE Shows(audit', InEffect', g, features'[g])
  <2>1. CASE g = f
    <3>1. features'[g] = audit[e].before BY <1>2, <1>6, <2>1
    <3>2. Shows(audit, InEffect', g, audit[e].before) BY <1>1, <1>7, <2>1 DEF ChainInv, Line
    <3>3. InEffect' \subseteq DOMAIN audit BY <1>1, <1>2
    <3> QED BY <1>4, <1>5, <3>1, <3>2, <3>3, ShowsSame
  <2>2. CASE g # f
    <3>1. g \in DOMAIN features /\ features'[g] = features[g] BY <1>6, <2>2
    <3>2. Shows(audit, InEffect, g, features[g]) BY <3>1 DEF ChainInv
    <3>3. \A d \in InEffect : audit[d].feature = g => d \in InEffect' BY <1>1, <2>2
    <3>4. InEffect' \subseteq InEffect BY <1>1
    <3> QED BY <1>2, <1>4, <1>5, <3>1, <3>2, <3>3, <3>4, ShowsSame
  <2> QED BY <2>1, <2>2
<1> QED BY <1>4, <1>8 DEF ChainInv

LEMMA RedoChain ==
    ASSUME LayerTypes, LayerLinks, OrderInv, ChainInv, NEW e \in RedoTargets, Redoable(e),
           ApplyStep("redo", e)
    PROVE  ChainInv'
<1> DEFINE f == audit[e].feature
<1>1. InEffect' = InEffect \cup {e} /\ Redoables' = Redoables \ {e} /\ e \in Redoables
  BY RedoLine
<1>2. e \in DOMAIN audit /\ InEffect \subseteq DOMAIN audit /\ f \in DOMAIN features
      /\ InEffect \subseteq Nat /\ e \in Nat
  BY <1>1, Numbers
<1>3. Line' = Line BY <1>1 DEF Line
<1>4. /\ \A d \in Line' : Shows(audit', {c \in Line' : c < d}, audit'[d].feature,
                                audit'[d].before)
      /\ \A g : Base(audit', g) = Base(audit, g)
  BY <1>2, <1>3, ApplyChain
<1>5. \A d \in DOMAIN audit : /\ audit'[d].feature = audit[d].feature
                              /\ audit'[d].after = audit[d].after
  BY <1>2, ApplyRows
<1>6. features' = [features EXCEPT ![f] = audit[e].after] BY DEF ApplyStep, Apply
<1>7. ASSUME NEW g \in DOMAIN features' PROVE Shows(audit', InEffect', g, features'[g])
  <2>1. CASE g = f
    <3>1. features'[g] = audit[e].after BY <1>2, <1>6, <2>1
    <3>2. \A d \in InEffect' : d <= e
      <4>1. \A d \in InEffect : d < e BY <1>1 DEF OrderInv
      <4> QED BY <1>1, <1>2, <4>1
    <3>3. e \in InEffect' /\ audit'[e].feature = g /\ audit'[e].after = audit[e].after
      BY <1>1, <1>2, <1>5, <2>1
    <3> QED BY <3>1, <3>2, <3>3 DEF Shows
  <2>2. CASE g # f
    <3>1. g \in DOMAIN features /\ features'[g] = features[g] BY <1>6, <2>2
    <3>2. Shows(audit, InEffect, g, features[g]) BY <3>1 DEF ChainInv
    <3>3. \A d \in InEffect' : audit'[d].feature = g => d \in InEffect
      BY <1>1, <1>2, <1>5, <2>2
    <3>4. InEffect \subseteq InEffect' BY <1>1
    <3> QED BY <1>2, <1>4, <1>5, <3>1, <3>2, <3>3, <3>4, ShowsSame
  <2> QED BY <2>1, <2>2
<1> QED BY <1>4, <1>7 DEF ChainInv

------------------------------------------------------------------------------
(* An undo or redo keeps its target *)

LEMMA TargetLemma == IndInv /\ TargetInv /\ [Next]_vars => TargetInv'
<1> SUFFICES ASSUME IndInv, TargetInv, [Next]_vars PROVE TargetInv' OBVIOUS
<1> USE DEF Process
<1>1. /\ DOMAIN pc = Process /\ DOMAIN req = Process
      /\ LoopInv /\ ManualInv /\ HistoryInv
  BY DEF IndInv, ProcessInv
\* The request and the audit trail stay.
<1>2. ASSUME audit' = audit, pc'["history"] = pc["history"], req'["history"] = req["history"]
      PROVE  TargetInv'
  BY <1>2 DEF TargetInv, UndoTargets, RedoTargets, InEffect, Undone, Redoable
\* There is no request that looks for its edit.
<1>3. ASSUME pc'["history"] \in {"idle", "done"} PROVE TargetInv'
  BY <1>3 DEF TargetInv
<1>4. CASE CommitEdit
  <2>1. pc["history"] = "idle" /\ pc' \in {[pc EXCEPT !["loop"] = "idle"],
                                          [pc EXCEPT !["loop"] = "replay"]}
    BY <1>1, <1>4 DEF CommitEdit, LoopInv, HistoryInv, ReplayOne, Goto
  <2> QED BY <1>1, <1>3, <2>1
<1>5. CASE CommitManual
  <2>1. pc["history"] = "idle" BY <1>1, <1>5 DEF CommitManual, ManualInv, HistoryInv
  <2>2. pc' = [pc EXCEPT !["manual"] = "done"] BY <1>5 DEF CommitManual, ManualDone, Goto
  <2> QED BY <1>1, <1>3, <2>1, <2>2
<1>6. CASE CommitHistory BY <1>1, <1>3, <1>6 DEF CommitHistory, Goto
<1>7. CASE FenceHistory
  <2>1. pc'["history"] \in {"check", "done"} /\ pc["history"] = "fence"
    BY <1>1, <1>7 DEF FenceHistory, Goto
  <2>2. audit' = audit /\ req' = req BY <1>7 DEF FenceHistory, layer
  <2> QED BY <2>1, <2>2 DEF TargetInv, UndoTargets, RedoTargets, InEffect, Undone
<1>8. CASE CheckHistory
  <2>1. /\ pc["history"] = "check" /\ pc'["history"] \in {"commit", "done"}
        /\ pc'["history"] = "commit" /\ req["history"].kind = "redo" =>
              Redoable(req["history"].edit)
    BY <1>1, <1>8 DEF CheckHistory, Goto
  <2>2. audit' = audit /\ req' = req BY <1>8 DEF CheckHistory, layer
  <2> QED BY <2>1, <2>2 DEF TargetInv, UndoTargets, RedoTargets, InEffect, Undone, Redoable
<1>9. ASSUME NEW op \in {"undo", "redo"}, StartHistory(op) PROVE TargetInv'
  <2>1. PICK e \in IF op = "undo" THEN UndoTargets ELSE RedoTargets :
           req' = [req EXCEPT !["history"] = [kind |-> op, edit |-> e, intent |-> 0,
                                              task |-> audit[e].task]]
    BY <1>9 DEF StartHistory
  <2>2. req'["history"].edit = e /\ req'["history"].kind = op BY <1>1, <2>1
  <2>3. pc'["history"] = "fence" /\ audit' = audit BY <1>1, <1>9 DEF StartHistory, Goto, layer
  <2>4. UndoTargets' = UndoTargets /\ RedoTargets' = RedoTargets
    BY <2>3 DEF UndoTargets, RedoTargets, InEffect, Undone
  <2> QED BY <2>1, <2>2, <2>3, <2>4 DEF TargetInv
<1>10. CASE Release("manual") \/ Release("history")
  <2>1. CASE Release("history")
    <3>1. pc'["history"] = "idle" BY <1>1, <2>1 DEF Release
    <3> QED BY <1>3, <3>1
  <2>2. CASE Release("manual")
    <3>1. audit' = audit /\ pc'["history"] = pc["history"] /\ req'["history"] = req["history"]
      BY <1>1, <2>2 DEF Release, layer
    <3> QED BY <1>2, <3>1
  <2> QED BY <1>10, <2>1, <2>2
<1>11. CASE Restart BY <1>3, <1>11 DEF Restart
<1>12. CASE \E p \in Replayer : Attempt(p) \/ Carry(p) \/ Recorded(p) \/ Replayed(p)
  <2>1. ASSUME NEW p \in Replayer, Attempt(p) PROVE TargetInv'
    BY <1>2, <2>1 DEF Attempt, layer
  <2>2. ASSUME NEW p \in Replayer, Carry(p) PROVE TargetInv'
    BY <1>2, <2>2 DEF Carry, layer
  <2>3. ASSUME NEW p \in Replayer, Recorded(p) PROVE TargetInv'
    BY <1>2, <2>3 DEF Recorded, Settle
  <2>4. ASSUME NEW p \in Replayer, Replayed(p) PROVE TargetInv'
    <3>1. p # "history" BY <2>4 DEF Replayer
    <3>2. audit' = audit /\ pc'["history"] = pc["history"] /\ req'["history"] = req["history"]
      BY <1>1, <2>4, <3>1 DEF Replayed, Goto, layer
    <3> QED BY <1>2, <3>2
  <2> QED BY <1>12, <2>1, <2>2, <2>3, <2>4
<1>13. CASE LockManual \/ RefuseManual \/ CountBlockers \/ WriteSession \/ CheckCall \/ WriteCall
  <2>1. CASE LockManual \/ RefuseManual
    BY <1>1, <1>2, <2>1 DEF LockManual, RefuseManual, ManualDone, Goto, layer
  <2>2. CASE CountBlockers \/ WriteSession
    BY <1>1, <1>2, <2>2 DEF CountBlockers, WriteSession, ReplayOne, Goto, layer
  <2>3. CASE CheckCall \/ WriteCall
    BY <1>1, <1>2, <2>3 DEF CheckCall, WriteCall, Goto, layer
  <2> QED BY <1>13, <2>1, <2>2, <2>3
<1>14. CASE Edits
  <2>1. ASSUME NEW a, NEW f, NEW t, NEW k, CheckEdit(a, f, t, k) PROVE TargetInv'
    BY <1>1, <1>2, <2>1 DEF CheckEdit, Goto, layer
  <2>2. ASSUME NEW k \in Key, RetryEdit(k) PROVE TargetInv'
    BY <1>1, <1>2, <2>2 DEF RetryEdit, ReplayOne, Goto, layer
  <2> QED BY <1>14, <2>1, <2>2 DEF Edits, CreateFeature, UpdateFeature, DeleteFeature
<1>15. CASE Requests
  <2>1. ASSUME NEW t, NEW k, CheckManual(t, k) PROVE TargetInv'
    BY <1>1, <1>2, <2>1 DEF CheckManual, Goto, layer
  <2>2. CASE RetryHistory BY <1>1, <1>2, <2>2 DEF RetryHistory, ReplayOne, Goto, layer
  <2>3. ASSUME NEW to, PatchSession(to) PROVE TargetInv'
    BY <1>1, <1>2, <2>3 DEF PatchSession, Goto, layer
  <2>4. ASSUME NEW kind, NEW t, NEW f, Call(kind, t, f) PROVE TargetInv'
    BY <1>1, <1>2, <2>4 DEF Call, Goto, layer
  <2> QED BY <1>9, <1>15, <2>1, <2>2, <2>3, <2>4
          DEF Requests, PatchTask, ResolveTask, ReopenTask
<1>16. CASE DropProposal \/ UNCHANGED vars BY <1>2, <1>16 DEF DropProposal, layer, vars
<1> QED BY <1>4, <1>5, <1>6, <1>7, <1>8, <1>9, <1>10, <1>11, <1>12, <1>13, <1>14, <1>15,
           <1>16 DEF Next, Progress

------------------------------------------------------------------------------
(* Tasks go back to edits *)

LEMMA OwnKept ==
    ASSUME IndInv, [Next]_vars, NEW t, NEW f, NEW s, Own(t, f, s)
    PROVE  Own(t, f, s)'
BY RowsKept DEF Own

\* A new intent goes back to an edit, if the edit that it is for is there.
LEMMA EnqueueOwn ==
    ASSUME LayerTypes, NEW kind \in {"resolve", "reopen"}, NEW t \in Maybe, NEW f \in Nat,
           NEW action \in Action, NEW claim \in BOOLEAN, Enqueue(kind, t, f, action, claim),
           Own(t, f, Resolution(action))'
    PROVE  /\ \A i \in DOMAIN outbox : outbox'[i] = outbox[i]
           /\ \A i \in DOMAIN outbox' \ DOMAIN outbox :
                 Own(outbox[i].task, outbox[i].feature, outbox[i].resolution)'
<1> DEFINE row == [kind |-> kind, task |-> t, feature |-> f, resolution |-> Resolution(action),
                   claim |-> claim, status |-> "new"]
<1>1. outbox \in Seq(Intent) BY DEF LayerTypes
<1>2. CASE t = NoTask BY <1>1, <1>2 DEF Enqueue
<1>3. CASE t # NoTask
  <2>1. outbox' = Append(outbox, row) BY <1>3 DEF Enqueue
  <2>2. row.task = t /\ row.feature = f /\ row.resolution = Resolution(action) OBVIOUS
  <2> HIDE DEF row
  <2>3. /\ \A i \in DOMAIN outbox : outbox'[i] = outbox[i]
        /\ \A i \in DOMAIN outbox' \ DOMAIN outbox : outbox'[i] = row
    BY <1>1, <2>1
  <2> QED BY <2>2, <2>3 DEF Own
<1> QED BY <1>2, <1>3

\* Intents.
LEMMA OutboxOwn ==
    ASSUME IndInv, OwnInv, [Next]_vars
    PROVE  \A i \in DOMAIN outbox' :
              Own(outbox[i].task, outbox[i].feature, outbox[i].resolution)'
<1>1. LayerTypes /\ LayerStep /\ LayerGrows BY LayerStepLemma, LayerLemma DEF IndInv
<1>2. ASSUME NEW i \in DOMAIN outbox
      PROVE  Own(outbox[i].task, outbox[i].feature, outbox[i].resolution)'
  <2> DEFINE t == outbox[i].task
             f == outbox[i].feature
             s == outbox[i].resolution
  <2>1. Own(t, f, s) BY DEF OwnInv
  <2>2. outbox'[i].task = t /\ outbox'[i].feature = f /\ outbox'[i].resolution = s
    BY <1>1 DEF LayerGrows
  <2> HIDE DEF t, f, s
  <2>3. \E e \in DOMAIN audit' : /\ audit'[e].task = t /\ audit'[e].feature = f
                                 /\ Resolution(audit'[e].action) = s
    BY <2>1, RowsKept DEF Own
  <2> QED BY <2>2, <2>3 DEF Own
<1>3. CASE QuietStep \/ \E i \in DOMAIN outbox, s \in {"reconciled", "pending", "error"} :
                           SettleStep(i, s)
  <2>1. DOMAIN outbox' = DOMAIN outbox BY <1>3 DEF QuietStep, SettleStep, Settle, layer
  <2> QED BY <1>2, <2>1
<1>4. ASSUME NEW a \in Action, NEW f \in Nat, NEW t \in Maybe, NEW k \in Named,
             EditStep(a, f, t, k)
      PROVE  \A i \in DOMAIN outbox' :
                Own(outbox[i].task, outbox[i].feature, outbox[i].resolution)'
  <2>1. \E e \in DOMAIN audit' : /\ audit'[e].task = t /\ audit'[e].feature = f
                                 /\ audit'[e].action = a
    BY <1>1, <1>4, EditRow
  <2>2. Own(t, f, Resolution(a))' BY <2>1 DEF Own
  <2>3. Enqueue("resolve", t, f, a, FALSE) BY <1>4 DEF EditStep, Edit
  <2>4. \A i \in DOMAIN outbox' \ DOMAIN outbox :
           Own(outbox[i].task, outbox[i].feature, outbox[i].resolution)'
    BY <1>1, <2>2, <2>3, EnqueueOwn
  <2> QED BY <1>2, <2>4
<1>5. ASSUME NEW op \in {"undo", "redo"}, NEW e \in DOMAIN audit, ApplyStep(op, e)
      PROVE  \A i \in DOMAIN outbox' :
                Own(outbox[i].task, outbox[i].feature, outbox[i].resolution)'
  <2> DEFINE kind == IF op = "undo" THEN "reopen" ELSE "resolve"
  <2>1. PICK t \in Maybe, f \in Nat, a \in Action :
           t = audit[e].task /\ f = audit[e].feature /\ a = audit[e].action
    BY <1>1, Lengths, RowFields
  <2>2. kind \in {"resolve", "reopen"} /\ (op = "redo") \in BOOLEAN OBVIOUS
  <2>3. Enqueue(kind, t, f, a, op = "redo") BY <1>5, <2>1 DEF ApplyStep, Apply
  <2>4. e \in DOMAIN audit' /\ audit'[e].task = t /\ audit'[e].feature = f
        /\ audit'[e].action = a
    BY <2>1, RowsKept
  <2> HIDE DEF kind
  <2>5. Own(t, f, Resolution(a))' BY <2>4 DEF Own
  <2>6. \A i \in DOMAIN outbox' \ DOMAIN outbox :
           Own(outbox[i].task, outbox[i].feature, outbox[i].resolution)'
    BY <1>1, <2>1, <2>2, <2>3, <2>5, EnqueueOwn
  <2> QED BY <1>2, <2>6
<1> QED BY <1>1, <1>3, <1>4, <1>5 DEF LayerStep

\* What tasks are resolved to, and resolutions that passed their check.
LEMMA OwnLemma == IndInv /\ OwnInv /\ [Next]_vars => OwnInv'
<1> SUFFICES ASSUME IndInv, OwnInv, [Next]_vars PROVE OwnInv' OBVIOUS
<1> USE DEF Process
<1> DEFINE Resolved == {"manual_added", "corrected"}
           CallOwn == LET r == req["call"]
                      IN  pc["call"] = "write" /\ r.kind \in Resolved =>
                             Own(r.task, r.feature, r.kind)
           TaskOwn == \A t \in Task : tasks[t].status \in Resolved =>
                         Own(t, tasks[t].feature, tasks[t].status)
<1>1. /\ DOMAIN pc = Process /\ DOMAIN req = Process /\ CallInv /\ Registry
      /\ CallOwn /\ TaskOwn
  BY DEF IndInv, ProcessInv, OwnInv
<1>2. \A i \in DOMAIN outbox' : Own(outbox[i].task, outbox[i].feature, outbox[i].resolution)'
  BY OutboxOwn
<1>3. ASSUME TaskOwn', CallOwn' PROVE OwnInv' BY <1>2, <1>3 DEF OwnInv
<1>4. ASSUME tasks' = tasks PROVE TaskOwn'
  BY <1>1, <1>4, RowsKept DEF Own
<1>5. ASSUME pc'["call"] = pc["call"], req'["call"] = req["call"] PROVE CallOwn'
  BY <1>1, <1>5, RowsKept DEF Own
<1>6. ASSUME pc'["call"] # "write" PROVE CallOwn' BY <1>6
\* A resolution of a task that goes back to an edit.
<1>7. ASSUME NEW t \in Task, NEW from, NEW to, NEW f, Update(t, from, to, f),
             to \in Resolved => Own(t, f, to)
      PROVE  TaskOwn'
  <2>1. CASE tasks' = tasks BY <1>4, <2>1
  <2>2. CASE tasks' = [tasks EXCEPT ![t] = [status |-> to, feature |-> f]]
    <3>1. /\ tasks'[t].status = to /\ tasks'[t].feature = f
          /\ \A u \in Task \ {t} : tasks'[u] = tasks[u]
      BY <1>1, <2>2 DEF Registry
    <3>2. ASSUME NEW u \in Task, tasks'[u].status \in Resolved
          PROVE  Own(u, tasks[u].feature, tasks[u].status)'
      <4>1. Own(u, tasks'[u].feature, tasks'[u].status)
        BY <1>1, <1>7, <3>1, <3>2 DEF Own
      <4> QED BY <4>1, RowsKept DEF Own
    <3> QED BY <3>2
  <2> QED BY <1>7, <2>1, <2>2 DEF Update
<1>8. ASSUME NEW p \in Replayer, Carry(p) PROVE OwnInv'
  <2> DEFINE n == plan[p].intent
             i == outbox[n]
  <2>1. n \in DOMAIN outbox BY <1>8 DEF IndInv, ReplayInv, Carry
  <2>2. i \in Intent BY <2>1, Lengths DEF IndInv
  <2>3. i.task \in Task /\ i.resolution \in Resolved BY <2>2, IntentFields
  <2>4. Own(i.task, i.feature, i.resolution) BY <2>1 DEF OwnInv
  <2>5. TaskOwn'
    <3>1. CASE plan[p].do = "reopen"
      <4>1. Update(i.task, i.resolution, "todo", 0) BY <1>8, <3>1 DEF Carry
      <4> QED BY <1>7, <2>3, <4>1
    <3>2. CASE plan[p].do = "claim"
      <4>1. Update(i.task, "todo", "in_progress", 0) BY <1>8, <3>2 DEF Carry
      <4> QED BY <1>7, <2>3, <4>1
    <3>3. CASE plan[p].do = "resolve"
      <4>1. Update(i.task, "in_progress", i.resolution, i.feature) BY <1>8, <3>3 DEF Carry
      <4> QED BY <1>7, <2>3, <2>4, <4>1
    <3> QED BY <1>8, <3>1, <3>2, <3>3 DEF Carry
  <2>6. pc' = pc /\ req' = req BY <1>8 DEF Carry
  <2> QED BY <1>3, <1>5, <2>5, <2>6
<1>9. CASE WriteCall
  <2> DEFINE r == req["call"]
             to == CASE r.kind = "claim" -> "in_progress" [] r.kind = "reopen" -> "todo"
                     [] OTHER -> r.kind
  <2>1. pc["call"] = "write" /\ Update(r.task, r.seen, to, r.feature)
    BY <1>9 DEF WriteCall
  <2>2. r.task \in Task
        /\ r.kind \in {"claim", "dismissed", "reopen", "manual_added", "corrected"}
    BY <1>1, <2>1 DEF CallInv
  <2>3. to \in Resolved => Own(r.task, r.feature, to) BY <1>1, <2>1, <2>2
  <2>4. TaskOwn'
    <3> HIDE DEF to, TaskOwn
    <3> QED BY <1>7, <2>1, <2>2, <2>3
  <2>5. pc'["call"] = "idle" BY <1>1, <1>9 DEF WriteCall, Goto
  <2> QED BY <1>3, <1>6, <2>4, <2>5
<1>10. CASE CheckCall
  <2> DEFINE r == req["call"]
  <2>1. /\ pc["call"] = "act" /\ tasks' = tasks /\ UNCHANGED layer
        /\ \/ pc' = [pc EXCEPT !["call"] = "idle"]
           \/ /\ pc' = [pc EXCEPT !["call"] = "write"] /\ req' = req
              /\ r.kind \in Resolved => Linked(r.task, r.feature, r.kind)
    BY <1>10 DEF CheckCall, Goto, registry
  <2>2. r.kind \in Resolved /\ Linked(r.task, r.feature, r.kind) =>
           Own(r.task, r.feature, r.kind)
    BY DEF Linked, Own
  <2>3. CASE pc' = [pc EXCEPT !["call"] = "idle"] BY <1>1, <1>3, <1>4, <1>6, <2>1, <2>3
  <2>4. CASE /\ pc' = [pc EXCEPT !["call"] = "write"] /\ req' = req
             /\ r.kind \in Resolved => Linked(r.task, r.feature, r.kind)
    <3>1. CallOwn' BY <2>1, <2>2, <2>4 DEF Own, layer
    <3> QED BY <1>3, <1>4, <2>1, <3>1
  <2> QED BY <2>1, <2>3, <2>4
<1>11. ASSUME tasks' = tasks, \/ pc'["call"] # "write"
                              \/ pc'["call"] = pc["call"] /\ req'["call"] = req["call"]
       PROVE  OwnInv'
  BY <1>3, <1>4, <1>5, <1>6, <1>11
<1> HIDE DEF Resolved, CallOwn, TaskOwn
<1>12. CASE CommitEdit \/ CountBlockers \/ WriteSession
  BY <1>1, <1>11, <1>12 DEF CommitEdit, CountBlockers, WriteSession, ReplayOne, Goto, registry
<1>13. CASE LockManual \/ CommitManual \/ RefuseManual
  BY <1>1, <1>11, <1>13 DEF LockManual, CommitManual, RefuseManual, ManualDone, Goto, registry
<1>14. CASE FenceHistory \/ CheckHistory \/ CommitHistory
  BY <1>1, <1>11, <1>14 DEF FenceHistory, CheckHistory, CommitHistory, Goto, registry
<1>15. ASSUME NEW p \in {"manual", "history"}, Release(p) PROVE OwnInv'
  BY <1>1, <1>11, <1>15 DEF Release, registry
<1>16. ASSUME NEW p \in Replayer, Attempt(p) \/ Recorded(p) PROVE OwnInv'
  BY <1>1, <1>11, <1>16 DEF Attempt, Recorded, registry
<1>17. ASSUME NEW p \in Replayer, Replayed(p) PROVE OwnInv'
  <2>1. /\ tasks' = tasks
        /\ pc' = [pc EXCEPT ![p] = IF req[p].kind \in {"none", "start"} THEN "idle" ELSE "act"]
        /\ req' = IF req[p].kind = "start" THEN [req EXCEPT ![p] = NoRequest] ELSE req
    BY <1>17 DEF Replayed, Goto, registry
  <2>2. p = "loop" \/ p = "call" BY DEF Replayer
  <2> QED BY <1>1, <1>11, <2>1, <2>2
<1>18. CASE Edits
  <2>1. ASSUME NEW a, NEW f, NEW t, NEW k, CheckEdit(a, f, t, k) PROVE OwnInv'
    BY <1>1, <1>11, <2>1 DEF CheckEdit, Goto, registry
  <2>2. ASSUME NEW k \in Key, RetryEdit(k) PROVE OwnInv'
    BY <1>1, <1>11, <2>2 DEF RetryEdit, ReplayOne, Goto, registry
  <2> QED BY <1>18, <2>1, <2>2 DEF Edits, CreateFeature, UpdateFeature, DeleteFeature
<1>19. CASE Requests
  <2>1. ASSUME NEW t, NEW k, CheckManual(t, k) PROVE OwnInv'
    BY <1>1, <1>11, <2>1 DEF CheckManual, Goto, registry
  <2>2. CASE RetryHistory
    BY <1>1, <1>11, <2>2 DEF RetryHistory, ReplayOne, Goto, registry
  <2>3. ASSUME NEW to, PatchSession(to) PROVE OwnInv'
    BY <1>1, <1>11, <2>3 DEF PatchSession, Goto, registry
  <2>4. ASSUME NEW kind, NEW t, NEW f, Call(kind, t, f) PROVE OwnInv'
    BY <1>1, <1>11, <2>4 DEF Call, Goto, registry
  <2>5. ASSUME NEW op, StartHistory(op) PROVE OwnInv'
    <3>1. /\ tasks' = tasks /\ pc' = [pc EXCEPT !["history"] = "fence"]
          /\ \E r : req' = [req EXCEPT !["history"] = r]
      BY <2>5 DEF StartHistory, Goto, registry
    <3> QED BY <1>1, <1>11, <3>1
  <2> QED BY <1>19, <2>1, <2>2, <2>3, <2>4, <2>5
          DEF Requests, PatchTask, ResolveTask, ReopenTask
<1>20. CASE DropProposal \/ UNCHANGED vars BY <1>11, <1>20 DEF DropProposal, registry, vars
<1>21. CASE Restart BY <1>11, <1>21 DEF Restart, registry
<1> QED BY <1>8, <1>9, <1>10, <1>12, <1>13, <1>14, <1>15, <1>16, <1>17, <1>18, <1>19, <1>20,
           <1>21 DEF Next, Progress

------------------------------------------------------------------------------
(* The second invariant *)

\* Only the commit of an undo or redo records a request.
LEMMA OnlyHistory == [Next]_vars /\ requests' # requests => CommitHistory
<1> SUFFICES ASSUME [Next]_vars, ~CommitHistory PROVE requests' = requests OBVIOUS
<1>1. CASE Progress
  BY <1>1 DEF Progress, CommitEdit, LockManual, CommitManual, RefuseManual, FenceHistory,
     CheckHistory, CountBlockers, WriteSession, CheckCall, WriteCall, Release, Attempt, Carry,
     Recorded, Replayed, Edit, Settle, layer
<1>2. CASE Edits
  BY <1>2 DEF Edits, CreateFeature, UpdateFeature, DeleteFeature, CheckEdit, RetryEdit, layer
<1>3. CASE Requests
  <2>1. ASSUME NEW to, PatchSession(to) PROVE requests' = requests
    BY <2>1 DEF PatchSession, layer
  <2>2. ASSUME NEW kind, NEW t, NEW f, Call(kind, t, f) PROVE requests' = requests
    BY <2>2 DEF Call, layer
  <2>3. CASE \/ RetryHistory \/ \E op \in {"undo", "redo"} : StartHistory(op)
             \/ \E t \in Task \cup {NoTask}, k \in Key : CheckManual(t, k)
    BY <2>3 DEF RetryHistory, StartHistory, CheckManual, layer
  <2> QED BY <1>3, <2>1, <2>2, <2>3 DEF Requests, PatchTask, ResolveTask, ReopenTask
<1>4. CASE DropProposal \/ Restart \/ UNCHANGED vars
  BY <1>4 DEF DropProposal, Restart, layer, vars
<1> QED BY <1>1, <1>2, <1>3, <1>4 DEF Next

LEMMA LineLemma == IndInv /\ LineInv /\ [Next]_vars => LineInv'
<1> SUFFICES ASSUME IndInv, LineInv, [Next]_vars PROVE OrderInv' /\ ChainInv'
  BY OwnLemma, TargetLemma DEF LineInv
<1>1. /\ LayerTypes /\ LayerLinks /\ LayerStep /\ OrderInv /\ ChainInv /\ TargetInv
      /\ HistoryInv
  BY LayerStepLemma DEF IndInv, LineInv, ProcessInv
<1>2. CASE audit' = audit /\ features' = features
  BY <1>1, <1>2 DEF OrderInv, ChainInv, Line, InEffect, Undone, Redoables, Redoable
<1>3. ASSUME NEW a \in Action, NEW f \in Nat, NEW t \in Maybe, NEW k \in Named,
             EditStep(a, f, t, k)
      PROVE  OrderInv' /\ ChainInv'
  BY <1>1, <1>3, EditChain
<1>4. CASE CommitHistory
  <2> DEFINE op == req["history"].kind
             e == req["history"].edit
  <2>1. pc["history"] = "commit" /\ op \in {"undo", "redo"} /\ ApplyStep(op, e)
    BY <1>1, <1>4 DEF CommitHistory, HistoryInv, ApplyStep
  <2>2. CASE op = "undo"
    <3>1. e \in UndoTargets BY <1>1, <2>1, <2>2 DEF TargetInv
    <3>2. ApplyStep("undo", e) BY <2>1, <2>2
    <3> HIDE DEF e
    <3> QED BY <1>1, <3>1, <3>2, UndoOrder, UndoChain
  <2>3. CASE op = "redo"
    <3>1. e \in RedoTargets /\ Redoable(e) BY <1>1, <2>1, <2>3 DEF TargetInv
    <3>2. ApplyStep("redo", e) BY <2>1, <2>3
    <3> HIDE DEF e
    <3> QED BY <1>1, <3>1, <3>2, RedoOrder, RedoChain
  <2> QED BY <2>1, <2>2, <2>3
<1>5. CASE ~CommitHistory /\ \E op \in {"undo", "redo"}, e \in DOMAIN audit : ApplyStep(op, e)
  <2>1. requests' # requests
    <3>1. PICK r : requests' = Append(requests, r) BY <1>5 DEF ApplyStep, Apply
    <3>2. Len(requests') = Len(requests) + 1 /\ Len(requests) \in Nat
      BY <1>1, <3>1, Lengths DEF LayerTypes
    <3> QED BY <3>2
  <2> QED BY <1>5, <2>1, OnlyHistory
<1>6. CASE QuietStep \/ \E i \in DOMAIN outbox, s \in {"reconciled", "pending", "error"} :
                           SettleStep(i, s)
  BY <1>2, <1>6 DEF QuietStep, SettleStep, Settle, layer
<1> QED BY <1>1, <1>3, <1>4, <1>5, <1>6 DEF LayerStep

LEMMA LineInit == Init => LineInv
<1> SUFFICES ASSUME Init PROVE LineInv OBVIOUS
<1>1. /\ audit = <<>> /\ outbox = <<>> /\ features = [f \in 1 .. Sources |-> Imported]
      /\ tasks = [t \in Task |-> Task0] /\ pc = [p \in Process |-> "idle"]
  BY DEF Init, LayerInit
<1>2. DOMAIN audit = {} /\ DOMAIN outbox = {} BY <1>1
<1>3. InEffect = {} /\ Undone = {} /\ Redoables = {} /\ Line = {}
  BY <1>2 DEF InEffect, Undone, Redoables, Line
<1>4. OrderInv BY <1>3 DEF OrderInv
<1>5. ChainInv
  <2>1. \A f \in DOMAIN features : features[f] = Imported /\ Base(audit, f) = Imported
    BY <1>1, <1>2 DEF Base
  <2> QED BY <1>3, <2>1 DEF ChainInv, Shows
<1>6. OwnInv BY <1>1, <1>2 DEF OwnInv, Task0, Process
<1>7. TargetInv BY <1>1 DEF TargetInv, Process
<1> QED BY <1>4, <1>5, <1>6, <1>7 DEF LineInv

\* What the edits in effect show is what the property says.
LEMMA FollowLemma == IndInv /\ LineInv => FeaturesFollowHistory
<1> SUFFICES ASSUME IndInv, LineInv, NEW f \in DOMAIN features
             PROVE  LET edits == {e \in DOMAIN audit : audit[e].feature = f}
                        live  == edits \cap InEffect
                        created == \E e \in edits :
                                      audit[e].action \in {"create", "manual_create"}
                    IN  features[f] = IF live # {}
                                      THEN audit[CHOOSE e \in live : \A d \in live : d <= e].after
                                      ELSE IF created THEN Gone ELSE Imported
  BY DEF FeaturesFollowHistory
<1> DEFINE edits == {e \in DOMAIN audit : audit[e].feature = f}
           live  == edits \cap InEffect
           last(e) == e \in live /\ \A d \in live : d <= e
<1>1. Shows(audit, InEffect, f, features[f]) BY DEF LineInv, ChainInv
<1>2. InEffect \subseteq DOMAIN audit /\ InEffect \subseteq Nat BY Numbers DEF IndInv
<1>3. CASE \E e \in InEffect : /\ audit[e].feature = f /\ audit[e].after = features[f]
                               /\ \A d \in InEffect : audit[d].feature = f => d <= e
  <2> PICK e \in InEffect : /\ audit[e].feature = f /\ audit[e].after = features[f]
                            /\ \A d \in InEffect : audit[d].feature = f => d <= e
    BY <1>3
  <2>1. e \in live /\ \A d \in live : d <= e BY <1>2
  <2>2. live \subseteq Nat BY <1>2
  <2> HIDE DEF live
  <2>3. \A g \in live : (\A d \in live : d <= g) => g = e
    <3> TAKE g \in live
    <3> HAVE \A d \in live : d <= g
    <3>1. e <= g /\ g <= e BY <2>1
    <3> QED BY <2>1, <2>2, <3>1
  <2>4. (CHOOSE g \in live : \A d \in live : d <= g) = e BY <2>1, <2>3
  <2> QED BY <2>1, <2>4 DEF live
<1>4. CASE (\A d \in InEffect : audit[d].feature # f) /\ features[f] = Base(audit, f)
  <2>1. live = {} BY <1>4
  <2> QED BY <1>4, <2>1 DEF Base, New
<1> QED BY <1>1, <1>3, <1>4 DEF Shows

------------------------------------------------------------------------------
(* The numbers of a set in their order *)

\* The position of a number in a set.
Rank(S, x) == Cardinality({y \in S : y <= x})

LEMMA RankType ==
    ASSUME NEW S, IsFiniteSet(S), S \subseteq Nat, NEW x \in S
    PROVE  Rank(S, x) \in 1 .. Cardinality(S)
<1> DEFINE below == {y \in S : y <= x}
<1>1. below \in SUBSET S /\ x \in below OBVIOUS
<1> HIDE DEF below
<1>2. IsFiniteSet(below) /\ Cardinality(below) <= Cardinality(S) BY <1>1, FS_Subset
<1>3. Cardinality(below) \in Nat /\ Cardinality(S) \in Nat BY <1>2, FS_CardinalityType
<1>4. Cardinality(below) # 0 BY <1>1, <1>2, FS_EmptySet
<1>5. Rank(S, x) = Cardinality(below) BY DEF Rank, below
<1> QED BY <1>2, <1>3, <1>4, <1>5

LEMMA RankGrows ==
    ASSUME NEW S, IsFiniteSet(S), S \subseteq Nat, NEW x \in S, NEW y \in S, x < y
    PROVE  Rank(S, x) < Rank(S, y)
<1> DEFINE low  == {z \in S : z <= x}
           high == {z \in S : z <= y}
<1>1. low \in SUBSET high /\ y \in high /\ y \notin low /\ high \in SUBSET S
  <2>1. x \in Nat /\ y \in Nat /\ y \in high /\ high \in SUBSET S OBVIOUS
  <2>2. y \notin low BY <2>1
  <2>3. \A z \in S : z <= x => z <= y BY <2>1
  <2> QED BY <2>1, <2>2, <2>3
<1>2. Rank(S, x) = Cardinality(low) /\ Rank(S, y) = Cardinality(high) BY DEF Rank
<1> HIDE DEF low, high
<1>3. IsFiniteSet(high) BY <1>1, FS_Subset
<1>4. Cardinality(low) <= Cardinality(high) /\ Cardinality(high) # Cardinality(low)
      /\ IsFiniteSet(low)
  BY <1>1, <1>3, FS_Subset
<1>5. Cardinality(low) \in Nat /\ Cardinality(high) \in Nat BY <1>3, <1>4, FS_CardinalityType
<1> QED BY <1>2, <1>4, <1>5

\* Each position is that of exactly one number.
LEMMA NthLemma ==
    ASSUME NEW S, IsFiniteSet(S), S \subseteq Nat
    PROVE  /\ \A x \in S : Nth(S, Rank(S, x)) = x
           /\ \A n \in 1 .. Cardinality(S) : Nth(S, n) \in S /\ Rank(S, Nth(S, n)) = n
<1> DEFINE f == [x \in S |-> Rank(S, x)]
           T == 1 .. Cardinality(S)
<1>1. \A x, y \in S : Rank(S, x) = Rank(S, y) => x = y
  <2> SUFFICES ASSUME NEW x \in S, NEW y \in S, Rank(S, x) = Rank(S, y) PROVE x = y OBVIOUS
  <2>1. x \in Nat /\ y \in Nat OBVIOUS
  <2>2. Rank(S, x) \in Nat
    <3>1. Rank(S, x) \in 1 .. Cardinality(S) BY RankType
    <3> QED BY <3>1
  <2>3. x < y => Rank(S, x) < Rank(S, y) BY RankGrows
  <2>4. y < x => Rank(S, y) < Rank(S, x) BY RankGrows
  <2> HIDE DEF f
  <2> QED BY <2>1, <2>2, <2>3, <2>4
<1>2. Cardinality(S) \in Nat BY FS_CardinalityType
<1>3. IsFiniteSet(T) /\ Cardinality(T) = Cardinality(S) BY <1>2, FS_Interval
<1>4. f \in Injection(S, T) BY <1>1, RankType DEF Injection, IsInjective
<1> HIDE DEF T
<1>5. f \in Surjection(S, T)
  <2> HIDE DEF f
  <2> QED BY <1>3, <1>4, FS_Injection
<1>6. \A n \in T : \E x \in S : Rank(S, x) = n BY <1>5 DEF Surjection
<1>7. \A x \in S : Nth(S, Rank(S, x)) = x BY <1>1 DEF Nth, Rank
<1>8. ASSUME NEW n \in T PROVE Nth(S, n) \in S /\ Rank(S, Nth(S, n)) = n
  <2> PICK x \in S : Rank(S, x) = n BY <1>6
  <2> QED BY <1>7
<1> QED BY <1>7, <1>8 DEF T

\* A number above all others comes last, and moves none of them.
LEMMA NthAdd ==
    ASSUME NEW S, IsFiniteSet(S), S \subseteq Nat, NEW m \in Nat, \A x \in S : x < m
    PROVE  /\ IsFiniteSet(S \cup {m}) /\ Cardinality(S) \in Nat
           /\ Cardinality(S \cup {m}) = Cardinality(S) + 1
           /\ \A n \in 1 .. Cardinality(S) : Nth(S \cup {m}, n) = Nth(S, n) /\ Nth(S, n) \in S
           /\ Nth(S \cup {m}, Cardinality(S) + 1) = m
<1> DEFINE T == S \cup {m}
<1>1. m \notin S /\ T \subseteq Nat OBVIOUS
<1>2. /\ IsFiniteSet(T) /\ Cardinality(T) = Cardinality(S) + 1 /\ Cardinality(S) \in Nat
  BY <1>1, FS_AddElement, FS_CardinalityType
<1>3. \A x \in S : Rank(T, x) = Rank(S, x)
  <2> TAKE x \in S
  <2>1. {y \in T : y <= x} = {y \in S : y <= x} OBVIOUS
  <2> QED BY <2>1 DEF Rank
<1>4. Rank(T, m) = Cardinality(S) + 1
  <2>1. \A y \in T : y <= m OBVIOUS
  <2>2. {y \in T : y <= m} = T BY <2>1
  <2> QED BY <1>2, <2>2 DEF Rank
<1> HIDE DEF T
<1>5. \A x \in T : Nth(T, Rank(T, x)) = x BY <1>1, <1>2, NthLemma
<1>6. ASSUME NEW n \in 1 .. Cardinality(S) PROVE Nth(T, n) = Nth(S, n) /\ Nth(S, n) \in S
  <2>1. Nth(S, n) \in S /\ Rank(S, Nth(S, n)) = n BY NthLemma
  <2>2. Nth(S, n) \in T BY <2>1 DEF T
  <2> QED BY <1>3, <1>5, <2>1, <2>2
<1>7. m \in T BY DEF T
<1>8. Nth(T, Cardinality(S) + 1) = m BY <1>4, <1>5, <1>7
<1> QED BY <1>2, <1>6, <1>8 DEF T

\* Number m is above S, on which the functions c and d agree.
Longer(S, m, c, d) ==
    /\ IsFiniteSet(S) /\ S \subseteq Nat /\ m \in Nat /\ \A x \in S : x < m
    /\ \A x \in S : d[x] = c[x] /\ c[x] \in Nat
    /\ d[m] \in Nat

\* The order then grows by what d gives for m.
Appends(S, m, c, d) ==
    /\ InOrder(S \cup {m}, d) = Append(InOrder(S, c), d[m])
    /\ InOrder(S \cup {m}, d) # <<>>
    /\ Len(InOrder(S \cup {m}, d)) = Cardinality(S) + 1
    /\ SubSeq(InOrder(S \cup {m}, d), 1, Cardinality(S)) = InOrder(S, c)
    /\ InOrder(S \cup {m}, d)[Cardinality(S) + 1] = d[m]
    /\ Cardinality(S) \in Nat

LEMMA OrderAdd ==
    ASSUME NEW S, NEW m, NEW c, NEW d, Longer(S, m, c, d)
    PROVE  Appends(S, m, c, d)
<1> DEFINE s == InOrder(S, c)
           t == InOrder(S \cup {m}, d)
           k == Cardinality(S)
<1> USE DEF Longer
<1>1. /\ k \in Nat /\ Cardinality(S \cup {m}) = k + 1
      /\ \A n \in 1 .. k : Nth(S \cup {m}, n) = Nth(S, n) /\ Nth(S, n) \in S
      /\ Nth(S \cup {m}, k + 1) = m
  BY NthAdd
<1>2. /\ DOMAIN s = 1 .. k /\ DOMAIN t = 1 .. k + 1
      /\ \A n \in 1 .. k : s[n] \in Nat /\ t[n] = s[n]
      /\ t[k + 1] = d[m]
  <2>1. k + 1 \in 1 .. k + 1 /\ \A n \in 1 .. k : n \in 1 .. k + 1 BY <1>1
  <2> QED BY <1>1, <2>1, Zenon DEF InOrder
<1>3. s = [n \in 1 .. k |-> s[n]] /\ t = [n \in 1 .. k + 1 |-> t[n]]
  BY <1>1 DEF InOrder
<1> HIDE DEF s, t, k
<1>4. s \in Seq(Nat) /\ Len(s) = k
  <2>1. s \in [1 .. k -> Nat] BY <1>2, <1>3
  <2> QED BY <1>1, <2>1
<1>5. t \in Seq(Nat) /\ Len(t) = k + 1
  <2>1. \A n \in 1 .. k + 1 : n \in 1 .. k \/ n = k + 1 BY <1>1
  <2>2. t \in [1 .. k + 1 -> Nat] BY <1>2, <1>3, <2>1
  <2> QED BY <1>1, <2>2
<1>6. t = Append(s, d[m])
  <2>1. \A n \in 1 .. k + 1 : n \in 1 .. k \/ n = k + 1 BY <1>1
  <2> QED BY <1>1, <1>2, <1>4, <1>5, <2>1
<1>7. SubSeq(t, 1, k) = s
  <2>1. SubSeq(t, 1, k) \in Seq(Nat) /\ Len(SubSeq(t, 1, k)) = k
        /\ \A n \in 1 .. k : SubSeq(t, 1, k)[n] = t[n]
    BY <1>1, <1>5
  <2> QED BY <1>1, <1>2, <1>4, <1>5, <2>1
<1>8. t # <<>> BY <1>1, <1>5
<1> QED BY <1>1, <1>2, <1>5, <1>6, <1>7, <1>8 DEF s, t, k, Appends

------------------------------------------------------------------------------
(* The history that the audit trail stands for *)

\* Nobody has used the key of an edit that is about to be committed.
KeyInv == pc["loop"] = "edit" => WithKey(req["loop"].key) = {}

LEMMA KeyLemma == IndInv /\ KeyInv /\ [Next]_vars => KeyInv'
<1> SUFFICES ASSUME IndInv, KeyInv, [Next]_vars, pc'["loop"] = "edit"
             PROVE  WithKey(req["loop"].key)' = {}
  BY DEF KeyInv
<1> USE DEF Process
<1>1. /\ DOMAIN pc = Process /\ DOMAIN req = Process
      /\ LoopInv /\ ManualInv /\ HistoryInv
  BY DEF IndInv, ProcessInv
\* The loop stays where it is, and so does the audit trail.
<1>2. ASSUME audit' = audit, pc["loop"] = "edit", req'["loop"] = req["loop"]
      PROVE  WithKey(req["loop"].key)' = {}
  BY <1>2 DEF KeyInv, WithKey
<1>3. ASSUME NEW a, NEW f, NEW t, NEW k, CheckEdit(a, f, t, k)
      PROVE  WithKey(req["loop"].key)' = {}
  <2>1. WithKey(k) = {} /\ audit' = audit /\ req'["loop"].key = k
    BY <1>1, <1>3 DEF CheckEdit, layer
  <2> QED BY <2>1 DEF WithKey
<1>4. CASE CommitEdit
  <2>1. pc'["loop"] \in {"idle", "replay"} BY <1>1, <1>4 DEF CommitEdit, ReplayOne, Goto
  <2> QED BY <2>1
<1>5. CASE CommitManual
  <2>1. pc["loop"] # "edit" /\ pc' = [pc EXCEPT !["manual"] = "done"]
    BY <1>1, <1>5 DEF CommitManual, ManualDone, Goto, LoopInv, ManualInv
  <2> QED BY <1>1, <2>1
<1>6. CASE CommitHistory
  <2>1. pc["loop"] # "edit" /\ pc' = [pc EXCEPT !["history"] = "done"]
    BY <1>1, <1>6 DEF CommitHistory, Goto, LoopInv, HistoryInv
  <2> QED BY <1>1, <2>1
<1>7. CASE LockManual \/ RefuseManual \/ FenceHistory \/ CheckHistory
  BY <1>1, <1>2, <1>7 DEF LockManual, RefuseManual, ManualDone, FenceHistory, CheckHistory,
                          Goto, layer
<1>8. CASE CountBlockers \/ WriteSession \/ RetryHistory
  BY <1>1, <1>8 DEF CountBlockers, WriteSession, RetryHistory, ReplayOne, Goto
<1>9. CASE CheckCall \/ WriteCall
  BY <1>1, <1>2, <1>9 DEF CheckCall, WriteCall, Goto, layer
<1>10. CASE \E p \in {"manual", "history"} : Release(p)
  BY <1>1, <1>10 DEF Release
<1>11. CASE \E p \in Replayer : Attempt(p) \/ Carry(p) \/ Recorded(p) \/ Replayed(p)
  <2>1. ASSUME NEW p \in Replayer, Attempt(p) \/ Carry(p) PROVE WithKey(req["loop"].key)' = {}
    BY <1>2, <2>1 DEF Attempt, Carry, layer
  <2>2. ASSUME NEW p \in Replayer, Recorded(p) PROVE WithKey(req["loop"].key)' = {}
    BY <1>2, <2>2 DEF Recorded, Settle
  <2>3. ASSUME NEW p \in Replayer, Replayed(p) PROVE WithKey(req["loop"].key)' = {}
    <3>1. pc' = [pc EXCEPT ![p] = IF req[p].kind \in {"none", "start"} THEN "idle" ELSE "act"]
          /\ audit' = audit
      BY <2>3 DEF Replayed, Goto, layer
    <3>2. p # "loop" /\ pc["loop"] = "edit"
      <4>1. CASE p = "loop" BY <1>1, <3>1, <4>1
      <4>2. CASE p # "loop" BY <1>1, <3>1, <4>2
      <4> QED BY <4>1, <4>2
    <3>3. req'["loop"] = req["loop"] BY <1>1, <2>3, <3>2 DEF Replayed
    <3> QED BY <1>2, <3>1, <3>2, <3>3
  <2> QED BY <1>11, <2>1, <2>2, <2>3
<1>12. CASE Edits
  <2>1. ASSUME NEW k \in Key, RetryEdit(k) PROVE WithKey(req["loop"].key)' = {}
    BY <1>1, <2>1 DEF RetryEdit, ReplayOne, Goto
  <2> QED BY <1>3, <1>12, <2>1 DEF Edits, CreateFeature, UpdateFeature, DeleteFeature
<1>13. CASE Requests
  <2>1. ASSUME NEW t, NEW k, CheckManual(t, k) PROVE WithKey(req["loop"].key)' = {}
    BY <1>1, <2>1 DEF CheckManual, Goto, Idle
  <2>2. ASSUME NEW op, StartHistory(op) PROVE WithKey(req["loop"].key)' = {}
    BY <1>1, <2>2 DEF StartHistory, Goto, Idle
  <2>3. ASSUME NEW to, PatchSession(to) PROVE WithKey(req["loop"].key)' = {}
    BY <1>1, <2>3 DEF PatchSession, Goto
  <2>4. ASSUME NEW kind, NEW t, NEW f, Call(kind, t, f) PROVE WithKey(req["loop"].key)' = {}
    BY <1>1, <1>2, <2>4 DEF Call, Goto, layer
  <2> QED BY <1>8, <1>13, <2>1, <2>2, <2>3, <2>4
          DEF Requests, PatchTask, ResolveTask, ReopenTask
<1>14. CASE DropProposal \/ UNCHANGED vars BY <1>2, <1>14 DEF DropProposal, layer, vars
<1>15. CASE Restart BY <1>15 DEF Restart
<1> QED BY <1>4, <1>5, <1>6, <1>7, <1>8, <1>9, <1>10, <1>11, <1>12, <1>13, <1>14, <1>15
        DEF Next, Progress

\* The key of each edit, in the order they were made.
Keys == [e \in DOMAIN audit |-> audit[e].key]

\* The sets that the history is read from.
LEMMA HistorySets ==
    ASSUME LayerTypes, LayerLinks
    PROVE  /\ IsFiniteSet(InEffect) /\ InEffect \subseteq Nat
           /\ IsFiniteSet(UndoTimes) /\ UndoTimes \subseteq Nat
           /\ \A op \in UndoTimes : op <= revision
           /\ \A e \in DOMAIN audit : audit[e].rev \in Nat
<1>1. /\ InEffect \subseteq DOMAIN audit /\ InEffect \subseteq Nat /\ revision \in Nat
      /\ Redoables \subseteq DOMAIN audit
      /\ \A e \in DOMAIN audit : audit[e].lastOp \in Nat /\ audit[e].lastOp <= revision
  BY Numbers
<1>2. DOMAIN audit = 1 .. Len(audit) /\ Len(audit) \in Nat BY Lengths
<1>3. IsFiniteSet(InEffect)
  <2>1. IsFiniteSet(1 .. Len(audit)) BY <1>2, FS_Interval
  <2> QED BY <1>1, <1>2, <2>1, FS_Subset
<1>4. \A op \in UndoTimes : op \in Nat /\ op <= revision BY <1>1 DEF UndoTimes
<1>5. IsFiniteSet(UndoTimes)
  <2>1. UndoTimes \subseteq 0 .. revision BY <1>1, <1>4
  <2>2. IsFiniteSet(0 .. revision) BY <1>1, FS_Interval
  <2> QED BY <2>1, <2>2, FS_Subset
<1>6. \A e \in DOMAIN audit : audit[e].rev \in Nat BY <1>2, Lengths, RowFields
<1> QED BY <1>1, <1>3, <1>4, <1>5, <1>6

\* One edit was undone at a time.
LEMMA UndoneOnce ==
    ASSUME NEW R, R \subseteq Nat, NEW rows, \A e \in R : rows[e].lastOp \in Nat,
           \A d, e \in R : d < e => rows[e].lastOp < rows[d].lastOp
    PROVE  /\ \A e \in R : \A op : rows[e].lastOp = op =>
                 (CHOOSE d \in R : rows[d].lastOp = op) = e
           /\ \A d, e \in R : rows[d].lastOp = rows[e].lastOp => d = e
<1>1. ASSUME NEW d \in R, NEW e \in R, rows[d].lastOp = rows[e].lastOp PROVE d = e
  <2>1. d \in Nat /\ e \in Nat /\ rows[d].lastOp \in Nat OBVIOUS
  <2>2. ~(d < e) BY <1>1, <2>1
  <2>3. ~(e < d) BY <1>1, <2>1
  <2> QED BY <2>1, <2>2, <2>3
<1> QED BY <1>1

\* An undo or redo takes effect once.
LEMMA OneRequest ==
    ASSUME LayerTypes, NEW op, NEW e, ApplyStep(op, e)
    PROVE  Len(requests') = Len(requests) + 1
<1>1. PICK r : requests' = Append(requests, r) BY DEF ApplyStep, Apply
<1> QED BY <1>1 DEF LayerTypes

\* A new edit is done in the history, which forgets what was undone.
LEMMA HistoryDo ==
    ASSUME LayerTypes, LayerLinks, NEW a \in Action, NEW f \in Nat, NEW t \in Maybe,
           NEW k \in Named, EditStep(a, f, t, k), WithKey(k) = {}
    PROVE  History!Next
<1>1. /\ DOMAIN audit' = DOMAIN audit \cup {NewEdit} /\ NewEdit \in Nat
      /\ \A e \in DOMAIN audit : e \in Nat /\ e < NewEdit /\ audit'[e] = audit[e]
      /\ audit'[NewEdit].rev = revision + 1 /\ audit'[NewEdit].key = k
  BY EditRow
<1>2. InEffect' = InEffect \cup {NewEdit} /\ Redoables' = {} BY EditLine
<1>3. /\ IsFiniteSet(InEffect) /\ InEffect \subseteq Nat /\ InEffect \subseteq DOMAIN audit
      /\ \A e \in DOMAIN audit : audit[e].rev \in Nat
  BY HistorySets, Numbers
<1>4. /\ revision + 1 \in 2 .. MaxRevision /\ revision \in Nat
  BY LayerAssumption DEF EditStep, LayerLinks, LayerTypes
<1>5. InOrder(InEffect, EditRevs)' = Append(InOrder(InEffect, EditRevs), revision + 1)
  <2> DEFINE old == EditRevs
             new == EditRevs'
  <2>1. \A e \in InEffect : e < NewEdit /\ new[e] = old[e] /\ old[e] \in Nat
    BY <1>1, <1>3 DEF EditRevs
  <2>2. new[NewEdit] = revision + 1 /\ new[NewEdit] \in Nat BY <1>1, <1>4 DEF EditRevs
  <2>3. InOrder(InEffect, EditRevs)' = InOrder(InEffect \cup {NewEdit}, new)
    BY <1>2 DEF InOrder
  <2> HIDE DEF old, new
  <2>4. InOrder(InEffect \cup {NewEdit}, new) = Append(InOrder(InEffect, old), new[NewEdit])
    <3>1. IsFiniteSet(InEffect) /\ InEffect \subseteq Nat /\ NewEdit \in Nat BY <1>1, <1>3
    <3>2. \A x \in InEffect : x < NewEdit BY <2>1
    <3>3. \A x \in InEffect : new[x] = old[x] /\ old[x] \in Nat BY <2>1
    <3>4. Longer(InEffect, NewEdit, old, new) BY <2>2, <3>1, <3>2, <3>3 DEF Longer
    <3>5. Appends(InEffect, NewEdit, old, new) BY <3>4, OrderAdd
    <3> QED BY <3>5 DEF Appends
  <2> QED BY <2>2, <2>3, <2>4 DEF old
<1>6. InOrder(UndoTimes, UndoRevs)' = <<>>
  <2>1. UndoTimes' = {} BY <1>2 DEF UndoTimes
  <2> QED BY <2>1, FS_EmptySet DEF InOrder
<1>7. Keys' = Append(Keys, k) /\ (k # NoKey => \A n \in DOMAIN Keys : Keys[n] # k)
  <2>1. /\ DOMAIN Keys = 1 .. Len(audit) /\ Len(audit) \in Nat
        /\ DOMAIN Keys' = 1 .. Len(audit) + 1
        /\ \A e \in 1 .. Len(audit) : Keys'[e] = Keys[e] /\ Keys[e] \in Named
        /\ Keys'[Len(audit) + 1] = k
    <3>1. /\ DOMAIN audit = 1 .. Len(audit) /\ Len(audit) \in Nat
          /\ \A e \in 1 .. Len(audit) : audit[e].key \in Named
      BY Lengths, RowFields
    <3>2. DOMAIN audit' = 1 .. Len(audit) + 1 BY <1>1, <3>1 DEF NewEdit
    <3> QED BY <1>1, <3>1, <3>2 DEF Keys, NewEdit
  <2>2. Keys' \in Seq(Named) /\ Keys \in Seq(Named) /\ Len(Keys) = Len(audit)
        /\ Len(Keys') = Len(audit) + 1
    <3>1. Keys = [e \in 1 .. Len(audit) |-> Keys[e]]
          /\ Keys' = [e \in 1 .. Len(audit) + 1 |-> Keys'[e]]
      BY <2>1 DEF Keys
    <3>2. \A e \in 1 .. Len(audit) + 1 : Keys'[e] \in Named BY <2>1
    <3> HIDE DEF Keys
    <3>3. Keys \in [1 .. Len(audit) -> Named] BY <2>1, <3>1, Zenon
    <3>4. Keys' \in [1 .. Len(audit) + 1 -> Named] BY <3>1, <3>2, Zenon
    <3> QED BY <2>1, <3>3, <3>4
  <2>3. Keys' = Append(Keys, k)
    <3>1. \A e \in 1 .. Len(audit) + 1 : e \in 1 .. Len(audit) \/ e = Len(audit) + 1 BY <2>1
    <3> QED BY <2>1, <2>2, <3>1
  <2>4. k # NoKey => \A n \in DOMAIN Keys : Keys[n] # k BY DEF Keys, WithKey
  <2> QED BY <2>3, <2>4
<1>8. requests' = requests BY DEF EditStep, Edit
<1>9. History!Do(revision + 1, k) BY <1>5, <1>6, <1>7, <1>8 DEF History!Do, Keys
<1> QED BY <1>4, <1>9 DEF History!Next, Named

LEMMA HistoryUndo ==
    ASSUME LayerTypes, LayerLinks, OrderInv, NEW e \in UndoTargets, ApplyStep("undo", e)
    PROVE  History!Next
<1>1. /\ InEffect' = InEffect \ {e} /\ Redoables' = Redoables \cup {e} /\ e \in InEffect
      /\ e \notin Redoables
  BY UndoLine
<1>2. /\ IsFiniteSet(InEffect) /\ InEffect \subseteq Nat /\ InEffect \subseteq DOMAIN audit
      /\ IsFiniteSet(UndoTimes) /\ UndoTimes \subseteq Nat /\ revision \in Nat
      /\ \A op \in UndoTimes : op <= revision
      /\ Redoables \subseteq DOMAIN audit /\ Redoables \subseteq Nat /\ e \in DOMAIN audit
      /\ \A d \in DOMAIN audit : audit[d].rev \in Nat /\ audit[d].lastOp \in Nat
  BY <1>1, HistorySets, Numbers
<1>3. /\ DOMAIN audit' = DOMAIN audit /\ audit'[e].lastOp = revision + 1
      /\ \A d \in DOMAIN audit : audit'[d].rev = audit[d].rev
      /\ \A d \in DOMAIN audit \ {e} : audit'[d] = audit[d]
  BY <1>2, ApplyRows
<1>4. EditRevs' = EditRevs BY <1>3 DEF EditRevs
<1>5. LET s == InOrder(InEffect, EditRevs)
      IN  /\ s # <<>> /\ InOrder(InEffect, EditRevs)' = SubSeq(s, 1, Len(s) - 1)
          /\ s[Len(s)] = audit[e].rev
  <2> DEFINE S == InEffect'
             old == EditRevs
  <2>1. S \cup {e} = InEffect /\ IsFiniteSet(S) /\ S \subseteq Nat /\ e \in Nat
        /\ \A d \in S : d < e
    <3>1. \A d \in InEffect \ {e} : d < e BY <1>1, <1>2 DEF UndoTargets
    <3>2. IsFiniteSet(InEffect \ {e}) BY <1>2, FS_RemoveElement
    <3> QED BY <1>1, <1>2, <3>1, <3>2
  <2>2. \A x \in S : old[x] = old[x] /\ old[x] \in Nat BY <1>1, <1>2 DEF EditRevs
  <2>3. old[e] = audit[e].rev /\ old[e] \in Nat BY <1>2 DEF EditRevs
  <2>4. InOrder(InEffect, EditRevs)' = InOrder(S, old) BY <1>4 DEF InOrder
  <2> HIDE DEF S, old
  <2> DEFINE s == InOrder(S \cup {e}, old)
             n == Cardinality(S)
  <2>5. /\ s # <<>> /\ Len(s) = n + 1 /\ SubSeq(s, 1, n) = InOrder(S, old) /\ s[n + 1] = old[e]
        /\ n \in Nat
    <3>1. IsFiniteSet(S) /\ S \subseteq Nat /\ e \in Nat /\ old[e] \in Nat BY <2>1, <2>3
    <3>2. \A x \in S : x < e BY <2>1
    <3>3. Longer(S, e, old, old) BY <2>2, <3>1, <3>2 DEF Longer
    <3>4. Appends(S, e, old, old) BY <3>3, OrderAdd
    <3> QED BY <3>4 DEF Appends
  <2>6. s = InOrder(InEffect, EditRevs) BY <2>1 DEF old
  <2> HIDE DEF s, n
  <2>7. Len(s) - 1 = n BY <2>5
  <2> QED BY <2>3, <2>4, <2>5, <2>6, <2>7
<1>6. InOrder(UndoTimes, UndoRevs)' = Append(InOrder(UndoTimes, UndoRevs), audit[e].rev)
  <2> DEFINE old == UndoRevs
             new == UndoRevs'
             m == revision + 1
  <2>1. UndoTimes' = UndoTimes \cup {m}
    <3>1. \A x \in Redoables : x \in DOMAIN audit \ {e} BY <1>1, <1>2
    <3>2. \A x \in Redoables : audit'[x].lastOp = audit[x].lastOp BY <1>3, <3>1
    <3> QED BY <1>1, <1>3, <3>2 DEF UndoTimes
  <2>2. \A x \in Redoables' : \A op : audit'[x].lastOp = op => UndoneAt(op)' = x
    <3> DEFINE R == Redoables'
    <3>1. \A x, y \in R : x < y => audit'[y].lastOp < audit'[x].lastOp
      BY UndoOrder DEF OrderInv
    <3>2. R \subseteq Nat /\ \A x \in R : audit'[x].lastOp \in Nat
      BY <1>1, <1>2, <1>3
    <3> HIDE DEF R
    <3>3. \A x \in R : \A op : audit'[x].lastOp = op =>
             (CHOOSE y \in R : audit'[y].lastOp = op) = x
      BY <3>1, <3>2, UndoneOnce
    <3> QED BY <3>3 DEF R, UndoneAt
  <2>3. \A x \in Redoables : \A op : audit[x].lastOp = op => UndoneAt(op) = x
    BY <1>2, UndoneOnce DEF OrderInv, UndoneAt
  <2>4. \A op \in UndoTimes : op < m /\ new[op] = old[op] /\ old[op] \in Nat
    <3> TAKE op \in UndoTimes
    <3>1. PICK x \in Redoables : audit[x].lastOp = op BY DEF UndoTimes
    <3>2. x \in DOMAIN audit /\ x \in Redoables' /\ audit'[x] = audit[x] BY <1>1, <1>2, <1>3
    <3>3. UndoneAt(op) = x /\ UndoneAt(op)' = x BY <2>2, <2>3, <3>1, <3>2
    <3>4. new[op] = audit'[x].rev /\ old[op] = audit[x].rev BY <2>1, <3>3 DEF UndoRevs
    <3> QED BY <1>2, <3>2, <3>4
  <2>5. new[m] = audit[e].rev /\ new[m] \in Nat
    <3>1. ASSUME NEW op, op = m PROVE new[op] = audit'[e].rev
      <4>1. UndoneAt(op)' = e BY <1>1, <1>3, <2>2, <3>1
      <4> QED BY <2>1, <3>1, <4>1 DEF UndoRevs
    <3>2. new[m] = audit'[e].rev BY <3>1
    <3> QED BY <1>2, <1>3, <3>2
  <2>6. InOrder(UndoTimes, UndoRevs)' = InOrder(UndoTimes \cup {m}, new) BY <2>1 DEF InOrder
  <2>7. m \in Nat BY <1>2
  <2> HIDE DEF old, new, m
  <2>8. InOrder(UndoTimes \cup {m}, new) = Append(InOrder(UndoTimes, old), new[m])
    <3>1. IsFiniteSet(UndoTimes) /\ UndoTimes \subseteq Nat /\ m \in Nat /\ new[m] \in Nat
      BY <1>2, <2>5, <2>7
    <3>2. \A x \in UndoTimes : x < m BY <2>4
    <3>3. \A x \in UndoTimes : new[x] = old[x] /\ old[x] \in Nat BY <2>4
    <3>4. Longer(UndoTimes, m, old, new) BY <3>1, <3>2, <3>3 DEF Longer
    <3>5. Appends(UndoTimes, m, old, new) BY <3>4, OrderAdd
    <3> QED BY <3>5 DEF Appends
  <2> QED BY <2>5, <2>6, <2>8 DEF old
<1>7. Keys' = Keys
  <2>1. \A d \in DOMAIN audit : audit'[d].key = audit[d].key BY ApplyRows, <1>2
  <2> QED BY <1>3, <2>1 DEF Keys
<1>8. Len(requests') = Len(requests) + 1 BY OneRequest
<1>9. History!Undo
  BY <1>5, <1>6, <1>7, <1>8 DEF History!Undo, History!Front, History!Last, Keys
<1> QED BY <1>9 DEF History!Next

LEMMA HistoryRedo ==
    ASSUME LayerTypes, LayerLinks, OrderInv, NEW e \in RedoTargets, Redoable(e),
           ApplyStep("redo", e)
    PROVE  History!Next
<1>1. InEffect' = InEffect \cup {e} /\ Redoables' = Redoables \ {e} /\ e \in Redoables
  BY RedoLine
<1>2. /\ IsFiniteSet(InEffect) /\ InEffect \subseteq Nat /\ InEffect \subseteq DOMAIN audit
      /\ IsFiniteSet(UndoTimes) /\ UndoTimes \subseteq Nat
      /\ Redoables \subseteq DOMAIN audit /\ Redoables \subseteq Nat /\ e \in DOMAIN audit
      /\ Redoables \subseteq Undone /\ e \in Nat
      /\ \A d \in DOMAIN audit : audit[d].rev \in Nat /\ audit[d].lastOp \in Nat
  BY <1>1, HistorySets, Numbers
<1>3. /\ DOMAIN audit' = DOMAIN audit
      /\ \A d \in DOMAIN audit : audit'[d].rev = audit[d].rev
      /\ \A d \in DOMAIN audit \ {e} : audit'[d] = audit[d]
  BY <1>2, ApplyRows
<1>4. EditRevs' = EditRevs BY <1>3 DEF EditRevs
<1>5. InOrder(InEffect, EditRevs)' = Append(InOrder(InEffect, EditRevs), audit[e].rev)
  <2> DEFINE old == EditRevs
  <2>1. \A x \in InEffect : x < e /\ old[x] \in Nat BY <1>1, <1>2 DEF OrderInv, EditRevs
  <2>2. old[e] = audit[e].rev /\ old[e] \in Nat BY <1>2 DEF EditRevs
  <2>3. InOrder(InEffect, EditRevs)' = InOrder(InEffect \cup {e}, old)
    BY <1>1, <1>4 DEF InOrder
  <2> HIDE DEF old
  <2>4. Longer(InEffect, e, old, old) BY <1>2, <2>1, <2>2 DEF Longer
  <2>5. Appends(InEffect, e, old, old) BY <2>4, OrderAdd
  <2>6. InOrder(InEffect \cup {e}, old) = Append(InOrder(InEffect, old), old[e])
    BY <2>5 DEF Appends
  <2> QED BY <2>2, <2>3, <2>6 DEF old
<1>6. LET s == InOrder(UndoTimes, UndoRevs)
      IN  /\ s # <<>> /\ InOrder(UndoTimes, UndoRevs)' = SubSeq(s, 1, Len(s) - 1)
          /\ s[Len(s)] = audit[e].rev
  <2> DEFINE S == UndoTimes'
             last == audit[e].lastOp
             old == UndoRevs
             new == UndoRevs'
  <2>1. /\ \A x \in Redoables : \A op : audit[x].lastOp = op => UndoneAt(op) = x
        /\ \A x \in Redoables : audit[x].lastOp = last => x = e
    BY <1>1, <1>2, UndoneOnce DEF OrderInv, UndoneAt
  <2>2. \A x \in Redoables' : x \in Redoables /\ x # e /\ audit'[x] = audit[x]
    BY <1>1, <1>2, <1>3
  <2>3. S \cup {last} = UndoTimes /\ last \in UndoTimes /\ last \notin S
    <3>1. \A x \in Redoables : x = e \/ x \in Redoables' BY <1>1
    <3>2. UndoTimes = {audit[x].lastOp : x \in Redoables}
          /\ S = {audit'[x].lastOp : x \in Redoables'}
      BY DEF UndoTimes
    <3>3. S = {audit[x].lastOp : x \in Redoables'} BY <2>2, <3>2
    <3>4. last \notin S BY <2>1, <2>2, <3>3
    <3> HIDE DEF S
    <3> QED BY <1>1, <2>2, <3>1, <3>2, <3>3, <3>4
  <2>4. \A op \in S : op < last
    <3> TAKE op \in S
    <3>1. PICK x \in Redoables : audit[x].lastOp = op BY <2>3 DEF UndoTimes
    <3>2. op <= last BY <1>2, <3>1 DEF RedoTargets
    <3>3. op \in Nat /\ last \in Nat /\ op # last BY <1>2, <2>3
    <3> QED BY <3>2, <3>3
  <2>5. \A op \in S : old[op] = new[op] /\ new[op] \in Nat
    <3> TAKE op \in S
    <3>1. PICK x \in Redoables' : audit'[x].lastOp = op BY DEF UndoTimes
    <3>2. x \in Redoables /\ audit'[x] = audit[x] /\ x \in DOMAIN audit BY <1>2, <2>2, <3>1
    <3>3. UndoneAt(op) = x BY <2>1, <3>1, <3>2
    <3>4. UndoneAt(op)' = x
      <4> DEFINE R == Redoables'
      <4>1. \A z, y \in R : z < y => audit'[y].lastOp < audit'[z].lastOp
        BY RedoOrder DEF OrderInv
      <4>2. R \subseteq Nat /\ \A z \in R : audit'[z].lastOp \in Nat BY <1>2, <2>2
      <4> HIDE DEF R
      <4>3. \A z \in R : \A o : audit'[z].lastOp = o =>
               (CHOOSE y \in R : audit'[y].lastOp = o) = z
        BY <4>1, <4>2, UndoneOnce
      <4> QED BY <3>1, <4>3 DEF R, UndoneAt
    <3>5. new[op] = audit'[x].rev BY <3>4 DEF UndoRevs
    <3>6. old[op] = audit[x].rev BY <2>3, <3>3 DEF UndoRevs
    <3> QED BY <1>2, <3>2, <3>5, <3>6
  <2>6. old[last] = audit[e].rev /\ old[last] \in Nat
    BY <1>1, <1>2, <2>1, <2>3 DEF UndoRevs
  <2>7. InOrder(UndoTimes, UndoRevs)' = InOrder(S, new) BY DEF InOrder
  <2>8. IsFiniteSet(S) /\ S \subseteq Nat /\ last \in Nat
    <3>1. S \subseteq UndoTimes /\ last \in UndoTimes BY <2>3
    <3> HIDE DEF S, last
    <3> QED BY <1>2, <3>1, FS_Subset
  <2> HIDE DEF S, last, old, new
  <2> DEFINE s == InOrder(S \cup {last}, old)
             n == Cardinality(S)
  <2>9. Longer(S, last, new, old) BY <2>4, <2>5, <2>6, <2>8 DEF Longer
  <2>10. Appends(S, last, new, old) BY <2>9, OrderAdd
  <2>11. /\ s # <<>> /\ Len(s) = n + 1 /\ SubSeq(s, 1, n) = InOrder(S, new)
         /\ s[n + 1] = old[last] /\ n \in Nat
    BY <2>10 DEF Appends
  <2>12. s = InOrder(UndoTimes, UndoRevs) BY <2>3 DEF old
  <2> HIDE DEF s, n
  <2>13. Len(s) - 1 = n BY <2>11
  <2> QED BY <2>6, <2>7, <2>11, <2>12, <2>13
<1>7. Keys' = Keys
  <2>1. \A d \in DOMAIN audit : audit'[d].key = audit[d].key BY ApplyRows, <1>2
  <2> QED BY <1>3, <2>1 DEF Keys
<1>8. Len(requests') = Len(requests) + 1 BY OneRequest
<1>9. History!Redo
  BY <1>5, <1>6, <1>7, <1>8 DEF History!Redo, History!Front, History!Last, Keys
<1> QED BY <1>9 DEF History!Next

\* What an edit of a step is: a commit whose key was looked up.
LEMMA FreshKey ==
    ASSUME IndInv, KeyInv, [Next]_vars, audit' # audit, ~CommitHistory
    PROVE  \E a \in Action, f \in Nat, t \in Maybe, k \in Named :
              EditStep(a, f, t, k) /\ WithKey(k) = {}
<1> USE DEF IndInv, LayerTypes, ProcessInv
<1>1. CASE CommitEdit
  <2> DEFINE r == req["loop"]
             f == IF r.kind = "create" THEN Len(features) + 1 ELSE r.feature
  <2>1. /\ r.kind \in {"create", "update", "delete"} /\ r.feature \in Nat
        /\ r.task \in Maybe /\ r.key \in Named /\ Len(features) \in Nat
        /\ WithKey(r.key) = {}
    BY <1>1 DEF CommitEdit, LoopInv, KeyInv
  <2>2. EditStep(r.kind, f, r.task, r.key)
    BY <1>1, <2>1 DEF CommitEdit, LoopInv, EditStep, New
  <2>3. r.kind \in Action /\ f \in Nat BY <2>1 DEF Action
  <2> HIDE DEF r, f
  <2> QED BY <2>1, <2>2, <2>3
<1>2. CASE CommitManual
  <2> DEFINE r == req["manual"]
             f == Len(features) + 1
  <2>1. r.task \in Maybe /\ r.key \in Named /\ f \in Nat /\ WithKey(r.key) = {}
    BY <1>2 DEF CommitManual, ManualInv
  <2>2. EditStep("manual_create", f, r.task, r.key)
    BY <1>2, <2>1 DEF CommitManual, EditStep, New
  <2> HIDE DEF r, f
  <2> QED BY <2>1, <2>2 DEF Action
<1>3. ~CommitEdit /\ ~CommitManual => audit' = audit
  <2> SUFFICES ASSUME ~CommitEdit, ~CommitManual PROVE audit' = audit OBVIOUS
  <2>1. CASE Progress
    BY <2>1 DEF Progress, LockManual, RefuseManual, FenceHistory, CheckHistory, CountBlockers,
       WriteSession, CheckCall, WriteCall, Release, Attempt, Carry, Recorded, Replayed, Settle,
       layer
  <2>2. CASE Edits
    BY <2>2 DEF Edits, CreateFeature, UpdateFeature, DeleteFeature, CheckEdit, RetryEdit, layer
  <2>3. CASE Requests
    <3>1. ASSUME NEW to, PatchSession(to) PROVE audit' = audit
      BY <3>1 DEF PatchSession, layer
    <3>2. ASSUME NEW kind, NEW t, NEW f, Call(kind, t, f) PROVE audit' = audit
      BY <3>2 DEF Call, layer
    <3>3. CASE \/ RetryHistory \/ \E op \in {"undo", "redo"} : StartHistory(op)
               \/ \E t \in Task \cup {NoTask}, k \in Key : CheckManual(t, k)
      BY <3>3 DEF RetryHistory, StartHistory, CheckManual, layer
    <3> QED BY <2>3, <3>1, <3>2, <3>3 DEF Requests, PatchTask, ResolveTask, ReopenTask
  <2>4. CASE DropProposal \/ Restart \/ UNCHANGED vars
    BY <2>4 DEF DropProposal, Restart, layer, vars
  <2> QED BY <2>1, <2>2, <2>3, <2>4 DEF Next
<1> QED BY <1>1, <1>2, <1>3

LEMMA HistoryStep == IndInv /\ LineInv /\ KeyInv /\ [Next]_vars => [History!Next]_(History!vars)
<1> SUFFICES ASSUME IndInv, LineInv, KeyInv, [Next]_vars, ~UNCHANGED (History!vars)
             PROVE  History!Next
  OBVIOUS
<1>1. LayerTypes /\ LayerLinks /\ OrderInv /\ TargetInv /\ HistoryInv
  BY DEF IndInv, LineInv, ProcessInv
<1>2. CASE CommitHistory
  <2> DEFINE op == req["history"].kind
             e == req["history"].edit
  <2>1. pc["history"] = "commit" /\ op \in {"undo", "redo"} /\ ApplyStep(op, e)
    BY <1>1, <1>2 DEF CommitHistory, HistoryInv, ApplyStep
  <2>2. CASE op = "undo"
    <3>1. e \in UndoTargets BY <1>1, <2>1, <2>2 DEF TargetInv
    <3>2. ApplyStep("undo", e) BY <2>1, <2>2
    <3> HIDE DEF e
    <3> QED BY <1>1, <3>1, <3>2, HistoryUndo
  <2>3. CASE op = "redo"
    <3>1. e \in RedoTargets /\ Redoable(e) BY <1>1, <2>1, <2>3 DEF TargetInv
    <3>2. ApplyStep("redo", e) BY <2>1, <2>3
    <3> HIDE DEF e
    <3> QED BY <1>1, <3>1, <3>2, HistoryRedo
  <2> QED BY <2>1, <2>2, <2>3
<1>3. CASE audit' # audit /\ ~CommitHistory BY <1>1, <1>3, FreshKey, HistoryDo
<1>4. CASE audit' = audit /\ ~CommitHistory
  <2>1. requests' = requests BY <1>4, OnlyHistory
  <2>2. InEffect' = InEffect /\ Redoables' = Redoables /\ EditRevs' = EditRevs
    BY <1>4 DEF InEffect, Redoables, Undone, Redoable, EditRevs
  <2>3. UndoTimes' = UndoTimes /\ UndoRevs' = UndoRevs
    BY <1>4, <2>2 DEF UndoTimes, UndoRevs, UndoneAt
  <2> QED BY <1>4, <2>1, <2>2, <2>3 DEF History!vars, InOrder
<1> QED BY <1>2, <1>3, <1>4

LEMMA HistoryStart == Init => History!Init /\ KeyInv
<1> SUFFICES ASSUME Init PROVE History!Init /\ KeyInv OBVIOUS
<1>1. audit = <<>> /\ requests = <<>> /\ pc = [p \in Process |-> "idle"]
  BY DEF Init, LayerInit
<1>2. InEffect = {} /\ Redoables = {} /\ UndoTimes = {}
  BY <1>1 DEF InEffect, Undone, Redoables, UndoTimes
<1>3. InOrder(InEffect, EditRevs) = <<>> /\ InOrder(UndoTimes, UndoRevs) = <<>>
  BY <1>2, FS_EmptySet DEF InOrder
<1>4. [e \in DOMAIN audit |-> audit[e].key] = <<>> /\ Len(requests) = 0 BY <1>1
<1>5. KeyInv BY <1>1 DEF KeyInv, Process
<1> QED BY <1>3, <1>4, <1>5 DEF History!Init

------------------------------------------------------------------------------
(* The theorems *)

\* The rows of layer, outbox and registry stay linked, every process is where its
\* request and the lock say, and every closed intent was reached.
THEOREM Invariance == Spec => []IndInv
<1>1. IndInv /\ [Next]_vars => IndInv'
  BY LayerLemma, RegistryLemma, ProcessLemma, ReplayLemma, HonestLemma DEF IndInv
<1> QED BY InitLemma, <1>1, PTL DEF Spec

\* For every set of tasks and keys, size of the source bundle and budget: the
\* variables keep their types, references between rows lead somewhere, and the
\* layer's lock is never held by a request that has ended.
THEOREM TypeCorrectness == Spec => []TypeOK
BY Invariance, TypeLemma, PTL

\* An intent is closed only after its task was in the state it asks for: no replay,
\* stale status update, registry error or restart lets one pass unseen.
THEOREM ClosedIntentsReached == Spec => []IntentsHonest
<1>1. IndInv => IntentsHonest BY DEF IndInv, HonestInv, IntentsHonest
<1> QED BY Invariance, <1>1, PTL

\* Whatever process acts, and in any interleaving with the session's own requests:
\* a task moves along the edges of the queue and in an active session only, a
\* session is completed without open tasks, and linked edits, undos and redos
\* commit in an active session.
THEOREM ReviewFenced == Spec => ReviewSteps
<1>1. IndInv /\ [Next]_vars => [TasksFenced /\ CompletedWhenDone /\ EditsFenced]_vars
  BY RegistryLemma, EditsLemma
<1> QED BY Invariance, <1>1, PTL DEF Spec, ReviewSteps

\* The layer, its tasks and its outbox agree, for every set of tasks and keys and
\* every budget: features have the content that the edits in effect give them,
\* whatever was undone, redone, retried or lost in between; closed intents were
\* carried over; and a task that counts as added or corrected has an edit that did so.
THEOREM ReviewSafety == Spec => []ReviewSound
<1>1. IndInv /\ LineInv /\ [Next]_vars => LineInv' BY LineLemma
<1>2. IndInv /\ LineInv => ReviewSound
  BY FollowLemma DEF IndInv, HonestInv, IntentsHonest, LineInv, OwnInv, Own, TasksOwnEdits,
                     ReviewSound
<1> QED BY Invariance, LineInit, <1>1, <1>2, PTL DEF Spec

\* The audit trail, with its undo flags and last operations, implements a linear
\* history with one stack of undone edits: whatever requests, retries, replays and
\* restarts are interleaved, an undo takes back the newest edit in effect, a redo the
\* last one taken back, a new edit forgets what was undone, and no idempotency key is
\* committed twice.
THEOREM HistoryRefinement == Spec => HistoryRefines
<1>1. Spec => [](LineInv /\ KeyInv)
  <2>1. IndInv /\ (LineInv /\ KeyInv) /\ [Next]_vars => (LineInv /\ KeyInv)'
    BY LineLemma, KeyLemma
  <2> QED BY Invariance, LineInit, HistoryStart, <2>1, PTL DEF Spec
<1>2. IndInv /\ (LineInv /\ KeyInv) /\ [Next]_vars => [History!Next]_(History!vars)
  BY HistoryStep
<1>3. Init => History!Init BY HistoryStart
<1> QED BY Invariance, <1>1, <1>2, <1>3, PTL DEF Spec, HistoryRefines, History!Spec
==============================================================================
