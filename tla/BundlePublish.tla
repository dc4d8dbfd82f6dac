----------------------------- MODULE BundlePublish -----------------------------
(* publish_shapefile_bundles (shp_writer.py): several publishers, each a process
   with its own staged files, replace the component files of one or two shapefiles
   in a shared directory.  A file is represented by the publication that wrote it. *)
EXTENDS Naturals, Sequences, FiniteSets

CONSTANTS
    Publisher,    \* publications that are attempted
    Suffixes,     \* the component suffixes, in the order of their replacement
    Pairs,        \* Pairs[p]: the bundles that p publishes, signs before poles
    Old,          \* the publication found in the directory at the start
    NoFile,         \* no file; no publisher
    MaxIoErrors,    \* file operations that fail
    MaxCuts      \* publishers that are killed

ASSUME PublishersAreNew == Old \notin Publisher /\ NoFile \notin Publisher /\ Old # NoFile
ASSUME SuffixesDiffer ==
    /\ Len(Suffixes) \in Nat \ {0} /\ DOMAIN Suffixes = 1..Len(Suffixes)
    /\ \A j, k \in DOMAIN Suffixes : Suffixes[j] = Suffixes[k] => j = k
\* A publication of no bundle, or of one bundle twice, is refused.
ASSUME TargetsDiffer == \A p \in Publisher :
    /\ Len(Pairs[p]) \in Nat \ {0} /\ DOMAIN Pairs[p] = 1..Len(Pairs[p])
    /\ \A j, k \in DOMAIN Pairs[p] : Pairs[p][j] = Pairs[p][k] => j = k
ASSUME BoundsAreNatural == MaxIoErrors \in Nat /\ MaxCuts \in Nat

BundlesOf(p) == {Pairs[p][k] : k \in DOMAIN Pairs[p]}
Bundles == UNION {BundlesOf(p) : p \in Publisher}
Component == {<<b, Suffixes[k]>> : b \in Bundles, k \in DOMAIN Suffixes}

\* The poles of a result are published with its signs; intermediate tables, which are
\* published one by one, have names that no result uses.
ASSUME SignsComeAlong == \A p, q \in Publisher :
    BundlesOf(p) \cap BundlesOf(q) # {} => Pairs[q][1] \in BundlesOf(p)

Version == Publisher \cup {Old, NoFile}

VARIABLES
    target,       \* the component files under the final names
    index,        \* the spatial index a GIS keeps beside a bundle, by the version it describes
    staged,       \* the staged files of each publisher
    backup,       \* the backup copies of each publisher
    indexBackup,  \* its copies of the spatial indexes it removed
    lock,         \* holder of .mms_shp_publish.lock
    at, pos,      \* where a publisher is, and at which bundle or component
    errs,         \* rollback_errors is not empty
    before,       \* history: what a publisher found when it had taken the lock
    last,         \* history: the last publisher that took the lock
    ioErrors, cuts

bundleVars == <<target, index, staged, backup, indexBackup, lock, at, pos, errs,
          before, last, ioErrors, cuts>>

Holding == {"backup", "replace", "cleanup", "rollback"}

\* The order of the replacements: suffix by suffix, across the bundles of p.
Order(p) ==
    [k \in 1..(Len(Suffixes) * Len(Pairs[p])) |->
        <<Pairs[p][((k - 1) % Len(Pairs[p])) + 1],
          Suffixes[((k - 1) \div Len(Pairs[p])) + 1]>>]

Files(p) == {Order(p)[k] : k \in DOMAIN Order(p)}

Shp(b) == <<b, Suffixes[Len(Suffixes)]>>

NoFiles == [c \in Component |-> NoFile]
NoIndexes == [b \in Bundles |-> NoFile]

-------------------------------------------------------------------------------
\* The directory holds an earlier publication of every bundle, or nothing.
BundleInit ==
    /\ target \in {[c \in Component |-> v] : v \in {Old, NoFile}}
    /\ index \in [Bundles -> {NoFile}]
    /\ staged = [p \in Publisher |-> {}]
    /\ backup = [p \in Publisher |-> NoFiles]
    /\ indexBackup = [p \in Publisher |-> NoIndexes]
    /\ lock = NoFile
    /\ at = [p \in Publisher |-> "idle"]
    /\ pos = [p \in Publisher |-> 0]
    /\ errs = [p \in Publisher |-> FALSE]
    /\ before = [p \in Publisher |-> NoFiles]
    /\ last = NoFile
    /\ ioErrors = MaxIoErrors
    /\ cuts = MaxCuts

IoError == ioErrors > 0 /\ ioErrors' = ioErrors - 1
NoIoError == UNCHANGED ioErrors

\* The publisher has given up; its staged files are removed.
Abandon(p) ==
    /\ staged' = [staged EXCEPT ![p] = {}]
    /\ at' = [at EXCEPT ![p] = "failed"]

\* Both tables are written under hidden names and take a staging name each; that
\* nested publication needs the lock of the directory too, for a moment.
Stage(p) ==
    /\ at[p] = "idle"
    /\ \/ /\ lock = NoFile
          /\ staged' = [staged EXCEPT ![p] = Files(p)]
          /\ at' = [at EXCEPT ![p] = "ready"]
          /\ NoIoError
       \/ Abandon(p) /\ lock # NoFile /\ NoIoError
       \/ Abandon(p) /\ IoError
    /\ UNCHANGED <<target, index, backup, indexBackup, lock, pos, errs, before, last, cuts>>

\* The staged bundles are validated and the lock is taken; a held lock is refused.
EnterLocked(p) ==
    /\ at[p] = "ready"
    /\ \/ /\ lock = NoFile
          /\ lock' = p
          /\ before' = [before EXCEPT ![p] = target]
          /\ last' = p
          /\ at' = [at EXCEPT ![p] = "backup"]
          /\ pos' = [pos EXCEPT ![p] = 1]
          /\ UNCHANGED staged
       \/ lock # NoFile /\ Abandon(p) /\ UNCHANGED <<lock, before, last, pos>>
    /\ UNCHANGED <<target, index, backup, indexBackup, errs, ioErrors, cuts>>

\* The files of one bundle are copied and its spatial index is moved away.
BackUp(p) ==
    /\ at[p] = "backup" /\ pos[p] <= Len(Pairs[p])
    /\ LET b == Pairs[p][pos[p]] IN
       /\ backup' = [backup EXCEPT ![p] =
              [c \in Component |-> IF c[1] = b THEN target[c] ELSE @[c]]]
       /\ indexBackup' = [indexBackup EXCEPT ![p][b] = index[b]]
       /\ index' = [index EXCEPT ![b] = NoFile]
    /\ IF pos[p] = Len(Pairs[p])
       THEN at' = [at EXCEPT ![p] = "replace"] /\ pos' = [pos EXCEPT ![p] = 1]
       ELSE pos' = [pos EXCEPT ![p] = @ + 1] /\ UNCHANGED at
    /\ UNCHANGED <<target, staged, lock, errs, before, last, ioErrors, cuts>>

\* A copy fails: nothing has been registered as published yet.
BackUpFails(p) ==
    /\ at[p] = "backup" /\ IoError
    /\ at' = [at EXCEPT ![p] = "rollback"]
    /\ pos' = [pos EXCEPT ![p] = 0]
    /\ UNCHANGED <<target, index, staged, backup, indexBackup, lock, errs, before, last, cuts>>

Move(p, c) ==
    /\ target' = [target EXCEPT ![c] = p]
    /\ staged' = [staged EXCEPT ![p] = @ \ {c}]

\* Staged files and backups are removed and the lock is released.
CleanUp(p, result) ==
    /\ staged' = [staged EXCEPT ![p] = {}]
    /\ backup' = [backup EXCEPT ![p] = NoFiles]
    /\ indexBackup' = [indexBackup EXCEPT ![p] = NoIndexes]
    /\ lock' = NoFile
    /\ at' = [at EXCEPT ![p] = result]

Replace(p) ==
    /\ at[p] = "replace"
    /\ Move(p, Order(p)[pos[p]])
    /\ IF pos[p] = Len(Order(p))
       THEN at' = [at EXCEPT ![p] = "cleanup"] /\ UNCHANGED pos
       ELSE pos' = [pos EXCEPT ![p] = @ + 1] /\ UNCHANGED at
    /\ UNCHANGED <<index, backup, indexBackup, lock, errs, before, last, ioErrors, cuts>>

Finish(p) ==
    /\ at[p] = "cleanup"
    /\ CleanUp(p, "done")
    /\ UNCHANGED <<target, index, pos, errs, before, last, ioErrors, cuts>>

\* The replacement of a registered component raises, before or after the rename.
ReplaceFails(p) ==
    /\ at[p] = "replace" /\ IoError
    /\ Move(p, Order(p)[pos[p]]) \/ UNCHANGED <<target, staged>>
    /\ at' = [at EXCEPT ![p] = "rollback"]
    /\ UNCHANGED <<index, backup, indexBackup, lock, pos, errs, before, last, cuts>>

\* Mutant of Rollback: what was replaced is removed.
RollbackRemoves(p) ==
    /\ at[p] = "rollback" /\ pos[p] > 0
    /\ target' = [target EXCEPT ![Order(p)[pos[p]]] = NoFile]
    /\ pos' = [pos EXCEPT ![p] = @ - 1]
    /\ UNCHANGED <<index, staged, backup, indexBackup, lock, at, errs, before, last, ioErrors, cuts>>

\* One registered component, in reverse order, gets its backup or disappears;
\* an error is noted and the rollback goes on.
Rollback(p) ==
    /\ at[p] = "rollback" /\ pos[p] > 0
    /\ LET c == Order(p)[pos[p]] IN
       \/ /\ target' = [target EXCEPT ![c] = backup[p][c]]
          /\ backup' = [backup EXCEPT ![p][c] = NoFile]
          /\ NoIoError /\ UNCHANGED errs
       \/ /\ IoError
          /\ errs' = [errs EXCEPT ![p] = TRUE]
          /\ UNCHANGED <<target, backup>>
    /\ pos' = [pos EXCEPT ![p] = @ - 1]
    /\ UNCHANGED <<index, staged, indexBackup, lock, at, before, last, cuts>>

\* The spatial indexes return.  Unless everything was undone the staged files and
\* the backups stay for an operator.
Restore(p) ==
    /\ at[p] = "rollback" /\ pos[p] = 0
    /\ LET back == [b \in Bundles |-> IF indexBackup[p][b] # NoFile
                                      THEN indexBackup[p][b] ELSE index[b]] IN
       \/ /\ index' = back /\ NoIoError
          /\ IF errs[p]
             THEN /\ indexBackup' = [indexBackup EXCEPT ![p] = NoIndexes]
                  /\ lock' = NoFile
                  /\ at' = [at EXCEPT ![p] = "failed"]
                  /\ UNCHANGED <<staged, backup>>
             ELSE CleanUp(p, "failed")
          /\ UNCHANGED errs
       \/ /\ IoError
          /\ indexBackup[p] # NoIndexes
          /\ errs' = [errs EXCEPT ![p] = TRUE]
          /\ lock' = NoFile
          /\ at' = [at EXCEPT ![p] = "failed"]
          /\ UNCHANGED <<index, staged, backup, indexBackup>>
    /\ UNCHANGED <<target, pos, before, last, cuts>>

\* The process dies; the operating system releases its lock.
KillPublisher(p) ==
    /\ cuts > 0 /\ cuts' = cuts - 1
    /\ at[p] \in Holding \cup {"ready"}
    /\ at' = [at EXCEPT ![p] = "dead"]
    /\ lock' = IF lock = p THEN NoFile ELSE lock
    /\ UNCHANGED <<target, index, staged, backup, indexBackup, pos, errs, before, last, ioErrors>>

\* Between publications a GIS builds an index of the geometry it has opened.
GisIndexes(b) ==
    /\ lock = NoFile
    /\ LET shp == target[Shp(b)] IN
       /\ shp # NoFile
       /\ index' = [index EXCEPT ![b] = shp]
    /\ UNCHANGED <<target, staged, backup, indexBackup, lock, at, pos, errs,
                   before, last, ioErrors, cuts>>

PublishStep(p) ==
    \/ Stage(p) \/ EnterLocked(p) \/ BackUp(p) \/ Replace(p) \/ Finish(p)
    \/ Rollback(p) \/ Restore(p)

BundleNext ==
    \/ \E p \in Publisher : PublishStep(p) \/ BackUpFails(p) \/ ReplaceFails(p) \/ KillPublisher(p)
    \/ \E b \in Bundles : GisIndexes(b)

BundleSpec == BundleInit /\ [][BundleNext]_bundleVars

-------------------------------------------------------------------------------
BundleTypeOK ==
    /\ target \in [Component -> Version]
    /\ index \in [Bundles -> Version]
    /\ staged \in [Publisher -> SUBSET Component]
    /\ backup \in [Publisher -> [Component -> Version]]
    /\ indexBackup \in [Publisher -> [Bundles -> Version]]
    /\ lock \in Publisher \cup {NoFile}
    /\ at \in [Publisher -> {"idle", "ready", "done", "failed", "dead"} \cup Holding]
    /\ pos \in [Publisher -> Nat]
    /\ errs \in [Publisher -> BOOLEAN]
    /\ before \in [Publisher -> [Component -> Version]]
    /\ last \in Publisher \cup {NoFile}
    /\ ioErrors \in 0..MaxIoErrors /\ cuts \in 0..MaxCuts

\* A publication was killed at work, or could not undo what it had done.
Cut(p) == errs[p] \/ (at[p] = "dead" /\ pos[p] > 0)

\* The last publication that began has replaced every file, or, when it failed and
\* its rollback had no error, no file: whatever other publishers try meanwhile.
AllOrNothing ==
    \A p \in Publisher : last = p =>
        /\ at[p] = "done" => \A c \in Files(p) : target[c] = p
        /\ at[p] = "failed" /\ ~errs[p] => target = before[p]

\* Until a publication has succeeded, each file it found is still under its final
\* name or in the backup: also when it is killed, or its rollback fails.
NothingLost ==
    \A p \in Publisher : last = p /\ at[p] # "done" =>
        \A c \in Component : before[p][c] \in {NoFile, target[c], backup[p][c]}

\* When nobody publishes and no publication was cut short, each bundle comes from
\* one publication, and signs never stand beside poles that are older than theirs.
PublishedWhole ==
    lock = NoFile /\ (\A p \in Publisher : ~Cut(p)) =>
        \A b \in Bundles : LET v == target[Shp(b)] IN
            /\ \A k \in DOMAIN Suffixes : target[<<b, Suffixes[k]>>] = v
            /\ v \in Publisher /\ b = Pairs[v][1] => \A c \in Files(v) : target[c] = v

\* A spatial index never describes other geometry than the file beside it.
IndexFresh ==
    lock = NoFile /\ (\A p \in Publisher : ~errs[p]) =>
        \A b \in Bundles : index[b] \in {NoFile, target[Shp(b)]}

\* A shared directory is never left with a mixture of two publications, and a
\* failed one loses nothing (publish_shapefile_bundles, shp_writer.py).
PublicationSound == AllOrNothing /\ NothingLost /\ PublishedWhole /\ IndexFresh
===============================================================================
