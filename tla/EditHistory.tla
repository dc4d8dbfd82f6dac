------------------------------ MODULE EditHistory ------------------------------
(* What the edit history of a layer promises: linear undo and redo.  A new     *)
(* edit forgets what was undone; each request takes effect once.               *)
EXTENDS Naturals, Sequences

CONSTANTS EditId, Key, NoKey

VARIABLES
    done, undone,  \* edits in effect, and a stack of those that can be redone
    keys,          \* of each edit ever made, its idempotency key or NoKey
    applied        \* number of undo and redo requests that took effect

vars == <<done, undone, keys, applied>>

Init == done = <<>> /\ undone = <<>> /\ keys = <<>> /\ applied = 0

Front(s) == SubSeq(s, 1, Len(s) - 1)
Last(s)  == s[Len(s)]

Do(e, k) ==
    /\ k # NoKey => \A n \in DOMAIN keys : keys[n] # k
    /\ done' = Append(done, e) /\ undone' = <<>>
    /\ keys' = Append(keys, k)
    /\ UNCHANGED applied

Undo ==
    /\ done # <<>>
    /\ done' = Front(done) /\ undone' = Append(undone, Last(done))
    /\ applied' = applied + 1 /\ UNCHANGED keys

Redo ==
    /\ undone # <<>>
    /\ done' = Append(done, Last(undone)) /\ undone' = Front(undone)
    /\ applied' = applied + 1 /\ UNCHANGED keys

Next == Undo \/ Redo \/ \E e \in EditId, k \in Key \cup {NoKey} : Do(e, k)

Spec == Init /\ [][Next]_vars
==============================================================================
