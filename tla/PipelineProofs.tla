----------------------------- MODULE PipelineProofs ----------------------------
(* The publication of shapefile bundles is sound, for any publishers, bundles, suffixes,
   I/O errors and kills; so is the search for the pole of a sign, for any axes, looks
   and settings; and so is the collapse of sightings, for any detections. *)
EXTENDS BundlePublish, PoleSearch, SupportMerge, FiniteSetTheorems, TLAPS

-------------------------------------------------------------------------------
(* The publication. *)

Registered(p, n) == {Order(p)[k] : k \in 1..n}
BundlesBefore(p, n) == {Pairs[p][k] : k \in 1..(n - 1)}

\* Who holds the lock took it last; who has not taken it has touched nothing.
LockInv ==
    /\ \A p \in Publisher : at[p] \in Holding <=> lock = p
    /\ lock # NoFile => last = lock
    /\ \A p \in Publisher : at[p] \in {"idle", "ready"} =>
        /\ last # p /\ pos[p] = 0 /\ ~errs[p]
        /\ indexBackup[p] = NoIndexes

BackedUp(p) == \A c \in Files(p) : backup[p][c] = before[p][c]

InBackup(p) ==
    /\ pos[p] \in 1..Len(Pairs[p]) /\ ~errs[p]
    /\ target = before[p]
    /\ \A c \in Component : c[1] \in BundlesBefore(p, pos[p]) => backup[p][c] = before[p][c]

InReplace(p) ==
    /\ pos[p] \in 1..Len(Order(p)) /\ ~errs[p]
    /\ BackedUp(p)
    /\ \A c \in Component :
        target[c] = IF c \in Registered(p, pos[p] - 1) THEN p ELSE before[p][c]

InRollback(p) ==
    /\ pos[p] \in 0..Len(Order(p))
    /\ \A c \in Registered(p, pos[p]) :
        backup[p][c] = before[p][c] /\ target[c] \in {p, before[p][c]}
    /\ ~errs[p] => \A c \in Component \ Registered(p, pos[p]) : target[c] = before[p][c]

\* All files of p are in place.
Replaced(p) == \A c \in Component :
    target[c] = IF c \in Files(p) THEN p ELSE before[p][c]

\* What p has done, at each of its stages.
Work(p) ==
    /\ at[p] = "backup" => InBackup(p)
    /\ at[p] = "replace" => InReplace(p)
    /\ at[p] = "rollback" => InRollback(p)
    /\ at[p] = "cleanup" => pos[p] > 0 /\ BackedUp(p) /\ Replaced(p) /\ ~errs[p]
    /\ at[p] = "done" => Replaced(p)
    /\ (at[p] = "failed" \/ (at[p] = "dead" /\ pos[p] = 0)) /\ ~errs[p] => target = before[p]
    /\ at[p] # "done" => \A c \in Component : before[p][c] \in {NoFile, target[c], backup[p][c]}

WorkInv == \A p \in Publisher : last = p => Work(p)

\* Each bundle comes from one publication, and the signs of one with its poles.
Whole(files) == \A b \in Bundles : LET v == files[Shp(b)] IN
    /\ \A k \in DOMAIN Suffixes : files[<<b, Suffixes[k]>>] = v
    /\ v \in Publisher /\ b = Pairs[v][1] => \A c \in Files(v) : files[c] = v

WholeInv == (\A p \in Publisher : ~Cut(p)) =>
    Whole(IF lock = NoFile THEN target ELSE before[lock])

\* A spatial index describes the file that stands beside it, or the one that stood
\* there when the lock was taken; it is away when a file of its bundle is replaced.
IndexOfHolder(p) ==
    /\ \A b \in Bundles :
        /\ index[b] \in {NoFile, before[p][Shp(b)]}
        /\ indexBackup[p][b] \in {NoFile, before[p][Shp(b)]}
    /\ (at[p] = "replace" \/ at[p] = "cleanup" \/ (at[p] = "rollback" /\ pos[p] > 0)) =>
        \A b \in BundlesOf(p) : index[b] = NoFile
    /\ at[p] = "backup" => \A b \in BundlesBefore(p, pos[p]) : index[b] = NoFile

IndexInv == (\A p \in Publisher : ~errs[p]) =>
    /\ lock = NoFile => \A b \in Bundles : index[b] \in {NoFile, target[Shp(b)]}
    /\ \A p \in Publisher : lock = p => IndexOfHolder(p)

IndInv == BundleTypeOK /\ LockInv /\ WorkInv /\ WholeInv /\ IndexInv

-------------------------------------------------------------------------------
(* The order of the replacements. *)

\* Each position of the order is a bundle and a suffix, in the row of the suffix.
LEMMA OrderAt ==
    ASSUME NEW p \in Publisher, NEW k \in 1..(Len(Suffixes) * Len(Pairs[p]))
    PROVE  \E i \in 1..Len(Pairs[p]), j \in 1..Len(Suffixes) :
              /\ k = Len(Pairs[p]) * (j - 1) + i
              /\ Order(p)[k] = <<Pairs[p][i], Suffixes[j]>>
<1> DEFINE L == Len(Pairs[p])
           S == Len(Suffixes)
           q == (k - 1) \div L
           r == (k - 1) % L
<1>1. L \in Nat \ {0} /\ S \in Nat \ {0}
  BY TargetsDiffer, SuffixesDiffer
<1>2. k \in 1..(S * L) /\ S * L \in Nat
  BY <1>1
<1>3. Order(p)[k] = <<Pairs[p][r + 1], Suffixes[q + 1]>>
  BY <1>2 DEF Order
<1> HIDE DEF L, S
<1>4. q \in Nat /\ r \in 0..(L - 1) /\ k - 1 = L * q + r
  BY <1>1, <1>2
<1> HIDE DEF q, r
<1>5. q < S
  <2> SUFFICES ASSUME q >= S PROVE FALSE
    BY <1>1, <1>4
  <2>1. L * q >= L * S
    BY <1>1, <1>4
  <2>2. L * S = S * L
    BY <1>1
  <2> QED BY <2>1, <2>2, <1>1, <1>2, <1>4
<1>6. r + 1 \in 1..L /\ q + 1 \in 1..S
  BY <1>1, <1>4, <1>5
<1>7. k = L * ((q + 1) - 1) + (r + 1)
  BY <1>1, <1>2, <1>4
<1> QED BY <1>3, <1>6, <1>7 DEF L, S

\* Every component of every bundle of p has its position.
LEMMA OrderOf ==
    ASSUME NEW p \in Publisher, NEW i \in 1..Len(Pairs[p]), NEW j \in 1..Len(Suffixes)
    PROVE  /\ Len(Pairs[p]) * (j - 1) + i \in 1..(Len(Suffixes) * Len(Pairs[p]))
           /\ Order(p)[Len(Pairs[p]) * (j - 1) + i] = <<Pairs[p][i], Suffixes[j]>>
<1> DEFINE L == Len(Pairs[p])
           S == Len(Suffixes)
           k == L * (j - 1) + i
           q == (k - 1) \div L
           r == (k - 1) % L
<1>1. L \in Nat \ {0} /\ S \in Nat \ {0}
  BY TargetsDiffer, SuffixesDiffer
<1>a. i \in 1..L /\ j \in 1..S
  OBVIOUS
<1>2. Order(p) = [m \in 1..(S * L) |-> <<Pairs[p][((m - 1) % L) + 1], Suffixes[((m - 1) \div L) + 1]>>]
  BY DEF Order
<1> HIDE DEF L, S
<1>3. k \in Nat /\ k >= 1 /\ L * (j - 1) \in Nat
  BY <1>1, <1>a
<1>4. k <= S * L
  <2>1. L * (j - 1) <= L * (S - 1)
    BY <1>1, <1>a
  <2>2. L * (S - 1) + L = S * L
    BY <1>1
  <2> QED BY <2>1, <2>2, <1>1, <1>a, <1>3
<1>5. k - 1 = L * (j - 1) + (i - 1)
  BY <1>1, <1>a, <1>3
<1>6. q \in Nat /\ r \in 0..(L - 1) /\ k - 1 = L * q + r
  BY <1>1, <1>3
<1> HIDE DEF q, r, k
<1>7. q = j - 1
  <2>1. CASE q > j - 1
    <3>1. L * q >= L * ((j - 1) + 1)
      BY <2>1, <1>1, <1>a, <1>6
    <3>2. L * ((j - 1) + 1) = L * (j - 1) + L
      BY <1>1, <1>a
    <3> QED BY <3>1, <3>2, <1>1, <1>a, <1>3, <1>5, <1>6
  <2>2. CASE q < j - 1
    <3>1. L * (j - 1) >= L * (q + 1)
      BY <2>2, <1>1, <1>a, <1>6
    <3>2. L * (q + 1) = L * q + L
      BY <1>1, <1>6
    <3> QED BY <3>1, <3>2, <1>1, <1>a, <1>3, <1>5, <1>6
  <2> QED BY <2>1, <2>2, <1>6, <1>a
<1>8. r = i - 1
  BY <1>5, <1>6, <1>7, <1>1, <1>a, <1>3
<1>9. Order(p)[k] = <<Pairs[p][r + 1], Suffixes[q + 1]>>
  BY <1>2, <1>3, <1>4 DEF q, r
<1>10. r + 1 = i /\ q + 1 = j
  BY <1>7, <1>8, <1>a
<1>11. k \in 1..(S * L) /\ Order(p)[k] = <<Pairs[p][i], Suffixes[j]>>
  BY <1>3, <1>4, <1>9, <1>10, <1>1
<1> QED BY <1>11 DEF k, L, S

\* No component comes twice.
LEMMA OrderDiffers ==
    ASSUME NEW p \in Publisher,
           NEW k \in 1..(Len(Suffixes) * Len(Pairs[p])), NEW m \in 1..(Len(Suffixes) * Len(Pairs[p])),
           Order(p)[k] = Order(p)[m]
    PROVE  k = m
<1>1. PICK i \in 1..Len(Pairs[p]), j \in 1..Len(Suffixes) :
        k = Len(Pairs[p]) * (j - 1) + i /\ Order(p)[k] = <<Pairs[p][i], Suffixes[j]>>
  BY OrderAt
<1>2. PICK i2 \in 1..Len(Pairs[p]), j2 \in 1..Len(Suffixes) :
        m = Len(Pairs[p]) * (j2 - 1) + i2 /\ Order(p)[m] = <<Pairs[p][i2], Suffixes[j2]>>
  BY OrderAt
<1>3. <<Pairs[p][i], Suffixes[j]>> = <<Pairs[p][i2], Suffixes[j2]>>
  BY <1>1, <1>2
<1>5. Pairs[p][i] = Pairs[p][i2] /\ Suffixes[j] = Suffixes[j2]
  BY <1>3
<1>4. i = i2 /\ j = j2
  BY <1>5, TargetsDiffer, SuffixesDiffer
<1> QED BY <1>1, <1>2, <1>4

LEMMA OrderLength ==
    ASSUME NEW p \in Publisher
    PROVE  /\ Len(Order(p)) = Len(Suffixes) * Len(Pairs[p])
           /\ Len(Order(p)) \in Nat \ {0}
           /\ DOMAIN Order(p) = 1..Len(Order(p))
           /\ Len(Pairs[p]) \in Nat \ {0} /\ DOMAIN Pairs[p] = 1..Len(Pairs[p])
<1>1. Len(Pairs[p]) \in Nat \ {0} /\ Len(Suffixes) \in Nat \ {0} /\ DOMAIN Pairs[p] = 1..Len(Pairs[p])
  BY TargetsDiffer, SuffixesDiffer
<1>2. Len(Suffixes) * Len(Pairs[p]) \in Nat \ {0}
  BY <1>1
<1>3. DOMAIN Order(p) = 1..(Len(Suffixes) * Len(Pairs[p]))
  BY DEF Order
<1>4. Len(Order(p)) = Len(Suffixes) * Len(Pairs[p])
  BY <1>2 DEF Order
<1> QED BY <1>1, <1>2, <1>3, <1>4

\* The files of p are the components of its bundles.
LEMMA FilesOf ==
    ASSUME NEW p \in Publisher
    PROVE  Files(p) = {c \in Component : c[1] \in BundlesOf(p)}
<1>1. ASSUME NEW c \in Files(p) PROVE c \in Component /\ c[1] \in BundlesOf(p)
  <2>1. PICK k \in 1..(Len(Suffixes) * Len(Pairs[p])) : c = Order(p)[k]
    BY OrderLength DEF Files
  <2>2. PICK i \in 1..Len(Pairs[p]), j \in 1..Len(Suffixes) :
          Order(p)[k] = <<Pairs[p][i], Suffixes[j]>>
    BY OrderAt
  <2>3. Pairs[p][i] \in BundlesOf(p) /\ j \in DOMAIN Suffixes
    BY OrderLength, SuffixesDiffer DEF BundlesOf
  <2>4. Pairs[p][i] \in Bundles
    BY <2>3 DEF Bundles
  <2> QED BY <2>1, <2>2, <2>3, <2>4 DEF Component
<1>2. ASSUME NEW c \in Component, c[1] \in BundlesOf(p) PROVE c \in Files(p)
  <2>1. PICK b \in Bundles, j \in DOMAIN Suffixes : c = <<b, Suffixes[j]>>
    BY DEF Component
  <2>2. PICK i \in 1..Len(Pairs[p]) : b = Pairs[p][i]
    BY <1>2, <2>1, OrderLength DEF BundlesOf
  <2>3. j \in 1..Len(Suffixes)
    BY SuffixesDiffer
  <2>4. /\ Len(Pairs[p]) * (j - 1) + i \in 1..(Len(Suffixes) * Len(Pairs[p]))
        /\ Order(p)[Len(Pairs[p]) * (j - 1) + i] = c
    BY <2>1, <2>2, <2>3, OrderOf
  <2> QED BY <2>4, OrderLength DEF Files
<1> QED BY <1>1, <1>2

\* The registered components grow, and shrink, by the one at the position.
LEMMA RegisteredSteps ==
    ASSUME NEW p \in Publisher, NEW n \in 1..Len(Order(p))
    PROVE  /\ Registered(p, n) = Registered(p, n - 1) \cup {Order(p)[n]}
           /\ Order(p)[n] \notin Registered(p, n - 1)
           /\ Order(p)[n] \in Files(p)
           /\ Registered(p, n) \subseteq Files(p)
<1>1. Len(Order(p)) \in Nat \ {0} /\ DOMAIN Order(p) = 1..Len(Order(p))
  BY OrderLength
<1>2. 1..n = 1..(n - 1) \cup {n}
  BY <1>1
<1>3. Registered(p, n) = Registered(p, n - 1) \cup {Order(p)[n]}
  BY <1>2 DEF Registered
<1>4. Order(p)[n] \notin Registered(p, n - 1)
  <2> SUFFICES ASSUME NEW k \in 1..(n - 1), Order(p)[k] = Order(p)[n] PROVE FALSE
    BY DEF Registered
  <2>1. k \in 1..Len(Order(p)) /\ k # n
    BY <1>1
  <2> QED BY <2>1, OrderLength, OrderDiffers
<1>5. Registered(p, n) \subseteq Files(p)
  BY <1>1 DEF Registered, Files
<1> QED BY <1>3, <1>4, <1>5

LEMMA RegisteredEnds ==
    ASSUME NEW p \in Publisher
    PROVE  /\ Registered(p, 0) = {}
           /\ Registered(p, Len(Order(p))) = Files(p)
BY OrderLength DEF Registered, Files

\* The bundles backed up grow by the one at the position.
LEMMA BackupSteps ==
    ASSUME NEW p \in Publisher, NEW n \in 1..Len(Pairs[p])
    PROVE  /\ BundlesBefore(p, n + 1) = BundlesBefore(p, n) \cup {Pairs[p][n]}
           /\ BundlesBefore(p, 1) = {}
           /\ BundlesBefore(p, Len(Pairs[p]) + 1) = BundlesOf(p)
           /\ Pairs[p][n] \in BundlesOf(p)
           /\ BundlesOf(p) \subseteq Bundles
<1>1. Len(Pairs[p]) \in Nat \ {0} /\ DOMAIN Pairs[p] = 1..Len(Pairs[p])
  BY OrderLength
<1>2. 1..((n + 1) - 1) = 1..(n - 1) \cup {n} /\ 1..(1 - 1) = {}
  BY <1>1
<1>3. 1..((Len(Pairs[p]) + 1) - 1) = DOMAIN Pairs[p]
  BY <1>1
<1> QED BY <1>1, <1>2, <1>3 DEF BundlesBefore, BundlesOf, Bundles

\* Each bundle has a geometry, which p publishes when it publishes the bundle.
LEMMA Geometry ==
    ASSUME NEW b \in Bundles
    PROVE  /\ Shp(b) \in Component /\ Shp(b)[1] = b
           /\ Len(Suffixes) \in DOMAIN Suffixes
           /\ \A k \in DOMAIN Suffixes : <<b, Suffixes[k]>> \in Component
BY SuffixesDiffer DEF Shp, Component

-------------------------------------------------------------------------------
(* Types and the lock. *)

LEMMA Empty ==
    /\ NoFiles \in [Component -> Version] /\ NoIndexes \in [Bundles -> Version]
    /\ \A c \in Component : NoFiles[c] = NoFile
    /\ \A b \in Bundles : NoIndexes[b] = NoFile
BY DEF NoFiles, NoIndexes, Version

\* A counter that stands still, is set to one or goes one further stays natural.
LEMMA Counted ==
    ASSUME NEW f \in [Publisher -> Nat], NEW g, NEW p \in Publisher,
           g = f \/ g = [f EXCEPT ![p] = 1] \/ g = [f EXCEPT ![p] = @ + 1]
    PROVE  g \in [Publisher -> Nat]
<1>1. f[p] + 1 \in Nat
  OBVIOUS
<1>2. CASE g = [f EXCEPT ![p] = @ + 1]
  BY <1>1, <1>2
<1> QED BY <1>2

LEMMA Types == ASSUME BundleTypeOK, BundleNext PROVE BundleTypeOK'
<1> USE DEF BundleTypeOK, Holding
<1>1. ASSUME NEW p \in Publisher, Stage(p) PROVE BundleTypeOK'
  <2>1. Files(p) \subseteq Component
    BY FilesOf
  <2>2. staged' \in [Publisher -> SUBSET Component]
    BY <1>1, <2>1 DEF Stage, Abandon
  <2>3. ioErrors' \in 0..MaxIoErrors
    BY <1>1, BoundsAreNatural DEF Stage, IoError, NoIoError
  <2>4. at' \in [Publisher -> {"idle", "ready", "done", "failed", "dead"} \cup Holding]
    BY <1>1 DEF Stage, Abandon
  <2> QED BY <1>1, <2>2, <2>3, <2>4 DEF Stage
<1>2. ASSUME NEW p \in Publisher, EnterLocked(p) PROVE BundleTypeOK'
  <2>1. /\ staged' \in [Publisher -> SUBSET Component]
        /\ lock' \in Publisher \cup {NoFile} /\ last' \in Publisher \cup {NoFile}
        /\ pos' = pos \/ pos' = [pos EXCEPT ![p] = 1]
    BY <1>2 DEF EnterLocked, Abandon
  <2>5. pos' \in [Publisher -> Nat]
    BY <2>1, Counted
  <2>2. before' \in [Publisher -> [Component -> Version]]
    BY <1>2 DEF EnterLocked
  <2>3. at' = [at EXCEPT ![p] = "backup"] \/ at' = [at EXCEPT ![p] = "failed"]
    BY <1>2 DEF EnterLocked, Abandon
  <2>4. at' \in [Publisher -> {"idle", "ready", "done", "failed", "dead"} \cup Holding]
    BY <2>3
  <2> QED BY <1>2, <2>1, <2>2, <2>4, <2>5 DEF EnterLocked
<1>3. ASSUME NEW p \in Publisher, BackUp(p) PROVE BundleTypeOK'
  <2> DEFINE b == Pairs[p][pos[p]]
  <2>1. backup' \in [Publisher -> [Component -> Version]]
    BY <1>3 DEF BackUp
  <2>2. indexBackup' \in [Publisher -> [Bundles -> Version]] /\ index' \in [Bundles -> Version]
    <3>1. /\ indexBackup' = [indexBackup EXCEPT ![p][b] = index[b]]
          /\ index' = [index EXCEPT ![b] = NoFile]
      BY <1>3 DEF BackUp
    <3> HIDE DEF b
    <3>2. NoFile \in Version
      BY DEF Version
    <3> QED BY <3>1, <3>2
  <2>3. /\ at' = at \/ at' = [at EXCEPT ![p] = "replace"]
        /\ pos' = [pos EXCEPT ![p] = 1] \/ pos' = [pos EXCEPT ![p] = @ + 1]
    BY <1>3 DEF BackUp
  <2>4. at' \in [Publisher -> {"idle", "ready", "done", "failed", "dead"} \cup Holding]
    BY <2>3
  <2>5. pos' \in [Publisher -> Nat]
    BY <2>3, Counted
  <2> QED BY <1>3, <2>1, <2>2, <2>4, <2>5 DEF BackUp
<1>4. ASSUME NEW p \in Publisher, BackUpFails(p) PROVE BundleTypeOK'
  BY <1>4, BoundsAreNatural DEF BackUpFails, IoError
<1>5. ASSUME NEW p \in Publisher, Move(p, Order(p)[pos[p]])
      PROVE  target' \in [Component -> Version] /\ staged' \in [Publisher -> SUBSET Component]
  <2>1. p \in Version
    BY DEF Version
  <2> QED BY <1>5, <2>1 DEF Move
<1>6. ASSUME NEW p \in Publisher, Replace(p) PROVE BundleTypeOK'
  <2>1. /\ at' = at \/ at' = [at EXCEPT ![p] = "cleanup"]
        /\ pos' = pos \/ pos' = [pos EXCEPT ![p] = @ + 1]
    BY <1>6 DEF Replace
  <2>2. at' \in [Publisher -> {"idle", "ready", "done", "failed", "dead"} \cup Holding]
    BY <2>1
  <2>3. pos' \in [Publisher -> Nat]
    BY <2>1, Counted
  <2> QED BY <1>5, <1>6, <2>2, <2>3 DEF Replace
<1>7. ASSUME NEW p \in Publisher, ReplaceFails(p) PROVE BundleTypeOK'
  <2>1. target' \in [Component -> Version] /\ staged' \in [Publisher -> SUBSET Component]
    BY <1>5, <1>7 DEF ReplaceFails
  <2>2. at' = [at EXCEPT ![p] = "rollback"] /\ ioErrors' \in 0..MaxIoErrors
    BY <1>7, BoundsAreNatural DEF ReplaceFails, IoError
  <2>3. at' \in [Publisher -> {"idle", "ready", "done", "failed", "dead"} \cup Holding]
    BY <2>2
  <2> QED BY <1>7, <2>1, <2>2, <2>3 DEF ReplaceFails
<1>8. ASSUME NEW p \in Publisher, NEW result \in {"done", "failed"}, CleanUp(p, result)
      PROVE  /\ staged' \in [Publisher -> SUBSET Component]
             /\ backup' \in [Publisher -> [Component -> Version]]
             /\ indexBackup' \in [Publisher -> [Bundles -> Version]]
             /\ lock' \in Publisher \cup {NoFile}
             /\ at' \in [Publisher -> {"idle", "ready", "done", "failed", "dead"} \cup Holding]
  BY <1>8, Empty DEF CleanUp
<1>9. ASSUME NEW p \in Publisher, Finish(p) PROVE BundleTypeOK'
  BY <1>8, <1>9 DEF Finish
<1>10. ASSUME NEW p \in Publisher, Rollback(p) PROVE BundleTypeOK'
  <2> DEFINE c == Order(p)[pos[p]]
  <2>1. /\ \/ target' = [target EXCEPT ![c] = backup[p][c]] /\ backup' = [backup EXCEPT ![p][c] = NoFile]
           \/ UNCHANGED <<target, backup>>
        /\ errs' = errs \/ errs' = [errs EXCEPT ![p] = TRUE]
        /\ pos' = [pos EXCEPT ![p] = @ - 1]
        /\ pos[p] > 0
    BY <1>10 DEF Rollback
  <2> HIDE DEF c
  <2>4. ioErrors' \in 0..MaxIoErrors
    BY <1>10, BoundsAreNatural DEF Rollback, IoError, NoIoError
  <2>5. pos' \in [Publisher -> Nat]
    BY <2>1
  <2>6. errs' \in [Publisher -> BOOLEAN]
    BY <2>1
  <2>2. NoFile \in Version
    BY DEF Version
  <2>3. target' \in [Component -> Version] /\ backup' \in [Publisher -> [Component -> Version]]
    <3>1. CASE target' = [target EXCEPT ![c] = backup[p][c]] /\ backup' = [backup EXCEPT ![p][c] = NoFile]
      <4>1. target' \in [Component -> Version]
        BY <3>1
      <4>2. backup' \in [Publisher -> [Component -> Version]]
        BY <3>1, <2>2
      <4> QED BY <4>1, <4>2
    <3>2. CASE UNCHANGED <<target, backup>>
      BY <3>2
    <3> QED BY <2>1, <3>1, <3>2
  <2> QED BY <1>10, <2>3, <2>4, <2>5, <2>6 DEF Rollback
<1>11. ASSUME NEW p \in Publisher, Restore(p) PROVE BundleTypeOK'
  <2>7. \/ index' = index
        \/ index' = [b \in Bundles |-> IF indexBackup[p][b] # NoFile
                                       THEN indexBackup[p][b] ELSE index[b]]
    <3> HIDE DEF BundleTypeOK
    <3> QED BY <1>11 DEF Restore
  <2>8. indexBackup[p] \in [Bundles -> Version] /\ index \in [Bundles -> Version]
    OBVIOUS
  <2>1. index' \in [Bundles -> Version]
    BY <2>7, <2>8
  <2>2. /\ staged' \in [Publisher -> SUBSET Component]
        /\ backup' \in [Publisher -> [Component -> Version]]
        /\ indexBackup' \in [Publisher -> [Bundles -> Version]]
        /\ lock' \in Publisher \cup {NoFile}
        /\ at' \in [Publisher -> {"idle", "ready", "done", "failed", "dead"} \cup Holding]
    <3>1. CASE CleanUp(p, "failed")
      BY <3>1, <1>8
    <3>2. CASE ~CleanUp(p, "failed")
      BY <3>2, <1>11, Empty DEF Restore
    <3> QED BY <3>1, <3>2
  <2>3. ioErrors' = ioErrors \/ (ioErrors > 0 /\ ioErrors' = ioErrors - 1)
    BY <1>11 DEF Restore, IoError, NoIoError
  <2>4. ioErrors' \in 0..MaxIoErrors
    BY <2>3, BoundsAreNatural
  <2>5. errs' = errs \/ errs' = [errs EXCEPT ![p] = TRUE]
    BY <1>11 DEF Restore
  <2>6. errs' \in [Publisher -> BOOLEAN]
    BY <2>5
  <2> QED BY <1>11, <2>1, <2>2, <2>4, <2>6 DEF Restore
<1>12. ASSUME NEW p \in Publisher, KillPublisher(p) PROVE BundleTypeOK'
  BY <1>12, BoundsAreNatural DEF KillPublisher
<1>13. ASSUME NEW b \in Bundles, GisIndexes(b) PROVE BundleTypeOK'
  BY <1>13, Geometry DEF GisIndexes
<1> QED
  BY <1>1, <1>2, <1>3, <1>4, <1>6, <1>7, <1>9, <1>10, <1>11, <1>12, <1>13
  DEF BundleNext, PublishStep

\* Only one publisher is between the entry and the exit of the lock.
LEMMA LockStep == ASSUME BundleTypeOK, LockInv, BundleNext PROVE LockInv'
<1> USE PublishersAreNew DEF BundleTypeOK, Holding, LockInv
<1>1. ASSUME NEW p \in Publisher, Stage(p) PROVE LockInv'
  BY <1>1 DEF Stage, Abandon
<1>2. ASSUME NEW p \in Publisher, EnterLocked(p) PROVE LockInv'
  BY <1>2 DEF EnterLocked, Abandon
<1>3. ASSUME NEW p \in Publisher, BackUp(p) PROVE LockInv'
  <2>1. \A q \in Publisher : q # p => indexBackup'[q] = indexBackup[q] /\ pos'[q] = pos[q]
    BY <1>3 DEF BackUp
  <2>2. at[p] = "backup" /\ at' \in {at, [at EXCEPT ![p] = "replace"]}
    BY <1>3 DEF BackUp
  <2> QED BY <1>3, <2>1, <2>2 DEF BackUp
<1>4. ASSUME NEW p \in Publisher, BackUpFails(p) PROVE LockInv'
  BY <1>4 DEF BackUpFails
<1>5. ASSUME NEW p \in Publisher, Replace(p) \/ ReplaceFails(p) PROVE LockInv'
  BY <1>5 DEF Replace, ReplaceFails
<1>6. ASSUME NEW p \in Publisher, Finish(p) PROVE LockInv'
  BY <1>6 DEF Finish, CleanUp
<1>7. ASSUME NEW p \in Publisher, Rollback(p) PROVE LockInv'
  <2>1. \A q \in Publisher : q # p => errs'[q] = errs[q] /\ pos'[q] = pos[q]
    BY <1>7 DEF Rollback
  <2> QED BY <1>7, <2>1 DEF Rollback
<1>8. ASSUME NEW p \in Publisher, Restore(p) PROVE LockInv'
  <2>1. \A q \in Publisher : q # p => errs'[q] = errs[q] /\ indexBackup'[q] = indexBackup[q]
    BY <1>8 DEF Restore, CleanUp
  <2>2. at[p] = "rollback" /\ lock' = NoFile /\ at' = [at EXCEPT ![p] = "failed"]
    BY <1>8 DEF Restore, CleanUp
  <2>3. UNCHANGED <<pos, last>>
    BY <1>8 DEF Restore
  <2> QED BY <2>1, <2>2, <2>3
<1>9. ASSUME NEW p \in Publisher, KillPublisher(p) PROVE LockInv'
  BY <1>9 DEF KillPublisher
<1>10. ASSUME NEW b \in Bundles, GisIndexes(b) PROVE LockInv'
  BY <1>10 DEF GisIndexes
<1> QED
  BY <1>1, <1>2, <1>3, <1>4, <1>5, <1>6, <1>7, <1>8, <1>9, <1>10
  DEF BundleNext, PublishStep

-------------------------------------------------------------------------------
(* What the last publication has done. *)

\* A publisher at work is the last one: its step has to keep what is said of it.
LEMMA HolderWorks ==
    ASSUME LockInv, WorkInv, NEW p \in Publisher, at[p] \in Holding
    PROVE  last = p /\ lock = p /\ p # NoFile /\ Work(p)
BY PublishersAreNew DEF LockInv, WorkInv, Work

LEMMA HolderKeeps ==
    ASSUME NEW p \in Publisher, last' = p, Work(p)'
    PROVE  WorkInv'
BY DEF WorkInv, Work

LEMMA StageWork ==
    ASSUME BundleTypeOK, LockInv, WorkInv, NEW p \in Publisher, Stage(p) PROVE WorkInv'
<1> SUFFICES ASSUME NEW q \in Publisher, last' = q PROVE Work(q)'
  BY DEF WorkInv
<1>1. last = q /\ UNCHANGED <<target, backup, pos, errs, before>>
  BY DEF Stage
<1>2. q # p /\ at'[q] = at[q]
  BY <1>1 DEF Stage, Abandon, LockInv, BundleTypeOK
<1>3. Work(q)
  BY <1>1 DEF WorkInv, Work
<1> QED BY <1>1, <1>2, <1>3
  DEF Work, InBackup, InReplace, InRollback, BackedUp, Replaced

LEMMA EnterWork ==
    ASSUME BundleTypeOK, LockInv, WorkInv, NEW p \in Publisher, EnterLocked(p) PROVE WorkInv'
<1>1. CASE lock = NoFile
  <2>1. /\ before' = [before EXCEPT ![p] = target] /\ last' = p
        /\ at' = [at EXCEPT ![p] = "backup"] /\ pos' = [pos EXCEPT ![p] = 1]
        /\ UNCHANGED <<target, backup, errs>>
    BY <1>1 DEF EnterLocked
  <2>2. /\ before'[p] = target /\ at'[p] = "backup" /\ pos'[p] = 1 /\ ~errs'[p]
    BY <2>1 DEF BundleTypeOK, LockInv, EnterLocked
  <2>3. 1 \in 1..Len(Pairs[p]) /\ BundlesBefore(p, 1) = {}
    BY OrderLength, BackupSteps
  <2>4. InBackup(p)'
    BY <2>1, <2>2, <2>3 DEF InBackup
  <2>5. Work(p)'
    BY <2>1, <2>2, <2>4 DEF Work
  <2> QED BY <2>1, <2>5, HolderKeeps
<1>2. CASE lock # NoFile
  <2> SUFFICES ASSUME NEW q \in Publisher, last' = q PROVE Work(q)'
    BY DEF WorkInv, Work
  <2>1. last = q /\ UNCHANGED <<target, backup, pos, errs, before>>
    BY <1>2 DEF EnterLocked
  <2>2. q # p /\ at'[q] = at[q]
    BY <1>2, <2>1 DEF EnterLocked, Abandon, LockInv, BundleTypeOK
  <2>3. Work(q)
    BY <2>1 DEF WorkInv, Work
  <2> QED BY <2>1, <2>2, <2>3
    DEF Work, InBackup, InReplace, InRollback, BackedUp, Replaced
<1> QED BY <1>1, <1>2

LEMMA BackUpWork ==
    ASSUME BundleTypeOK, LockInv, WorkInv, NEW p \in Publisher, BackUp(p) PROVE WorkInv'
<1> DEFINE n == pos[p]
           b == Pairs[p][n]
<1>1. at[p] = "backup" /\ last = p /\ InBackup(p)
  BY HolderWorks DEF BackUp, Holding, Work
<1>2. n \in 1..Len(Pairs[p]) /\ ~errs[p] /\ target = before[p]
  BY <1>1 DEF InBackup
<1>3. /\ BundlesBefore(p, n + 1) = BundlesBefore(p, n) \cup {b}
      /\ BundlesBefore(p, Len(Pairs[p]) + 1) = BundlesOf(p)
  BY <1>2, BackupSteps
<1>4. /\ UNCHANGED <<target, errs, before, last>>
      /\ \A c \in Component :
           backup'[p][c] = IF c[1] = b THEN target[c] ELSE backup[p][c]
  BY DEF BackUp, BundleTypeOK
<1>5. \A c \in Component : c[1] \in BundlesBefore(p, n + 1) => backup'[p][c] = before[p][c]
  <2> HIDE DEF b, n
  <2> QED BY <1>1, <1>2, <1>3, <1>4 DEF InBackup, n
<1>6. CASE n = Len(Pairs[p])
  <2>1. at'[p] = "replace" /\ pos'[p] = 1
    BY <1>6 DEF BackUp, BundleTypeOK
  <2>2. BackedUp(p)'
    BY <1>3, <1>4, <1>5, <1>6, FilesOf DEF BackedUp
  <2>3. 1 \in 1..Len(Order(p)) /\ Registered(p, 1 - 1) = {}
    BY OrderLength, RegisteredEnds
  <2>4. InReplace(p)'
    BY <1>2, <1>4, <2>1, <2>2, <2>3 DEF InReplace
  <2>5. Work(p)'
    BY <1>2, <1>4, <2>1, <2>4 DEF Work
  <2> QED BY <1>1, <1>4, <2>5, HolderKeeps
<1>7. CASE n # Len(Pairs[p])
  <2>1. at'[p] = "backup" /\ pos'[p] = n + 1
    BY <1>7 DEF BackUp, BundleTypeOK
  <2>2. n + 1 \in 1..Len(Pairs[p])
    BY <1>2, <1>7, OrderLength
  <2>3. InBackup(p)'
    BY <1>2, <1>4, <1>5, <2>1, <2>2 DEF InBackup
  <2>4. Work(p)'
    BY <1>2, <1>4, <2>1, <2>3 DEF Work
  <2> QED BY <1>1, <1>4, <2>4, HolderKeeps
<1> QED BY <1>6, <1>7

LEMMA BackUpFailsWork ==
    ASSUME BundleTypeOK, LockInv, WorkInv, NEW p \in Publisher, BackUpFails(p) PROVE WorkInv'
<1>1. at[p] = "backup" /\ last = p /\ InBackup(p)
  BY HolderWorks DEF BackUpFails, Holding, Work
<1>2. /\ at'[p] = "rollback" /\ pos'[p] = 0
      /\ UNCHANGED <<target, backup, errs, before, last>>
  BY DEF BackUpFails, BundleTypeOK
<1>3. 0 \in 0..Len(Order(p)) /\ Registered(p, 0) = {}
  BY OrderLength, RegisteredEnds
<1>4. InRollback(p)'
  BY <1>1, <1>2, <1>3 DEF InRollback, InBackup
<1>5. Work(p)'
  BY <1>1, <1>2, <1>4 DEF Work, InBackup
<1> QED BY <1>1, <1>2, <1>5, HolderKeeps

\* What a replacement needs to know of the component at the position.
LEMMA AtReplace ==
    ASSUME BundleTypeOK, NEW p \in Publisher, InReplace(p)
    PROVE  LET c == Order(p)[pos[p]] IN
           /\ Registered(p, pos[p]) = Registered(p, pos[p] - 1) \cup {c}
           /\ c \notin Registered(p, pos[p] - 1)
           /\ c \in Component /\ backup[p][c] = before[p][c] /\ target[c] = before[p][c]
           /\ Registered(p, pos[p]) \subseteq Files(p) /\ Files(p) \subseteq Component
           /\ \A x \in Registered(p, pos[p] - 1) : target[x] = p
BY RegisteredSteps, FilesOf DEF InReplace, BackedUp

LEMMA ReplaceWork ==
    ASSUME BundleTypeOK, LockInv, WorkInv, NEW p \in Publisher, Replace(p) PROVE WorkInv'
<1> DEFINE n == pos[p]
           c == Order(p)[n]
<1>1. at[p] = "replace" /\ last = p /\ InReplace(p)
  BY HolderWorks DEF Replace, Holding, Work
<1>2. n \in 1..Len(Order(p)) /\ ~errs[p] /\ BackedUp(p) /\ n \in Nat
  BY <1>1, OrderLength DEF InReplace
<1>3. UNCHANGED <<backup, errs, before, last>> /\ target' = [target EXCEPT ![c] = p]
  BY DEF Replace, Move
<1>4. /\ Registered(p, n) = Registered(p, n - 1) \cup {c}
      /\ c \in Component /\ Files(p) \subseteq Component /\ Registered(p, n) \subseteq Files(p)
  BY <1>1, AtReplace
<1>5. BackedUp(p)'
  BY <1>2, <1>3 DEF BackedUp
<1>6. \A x \in Component : target[x] = IF x \in Registered(p, n - 1) THEN p ELSE before[p][x]
  BY <1>1 DEF InReplace
<1>7. \A x \in Component : target'[x] = IF x \in Registered(p, n) THEN p ELSE before'[p][x]
  <2> HIDE DEF c, n
  <2> QED BY <1>3, <1>4, <1>6 DEF BundleTypeOK
<1>8. \A x \in Component : before'[p][x] \in {NoFile, target'[x], backup'[p][x]}
  BY <1>3, <1>4, <1>5, <1>7 DEF BackedUp
<1>9. CASE n = Len(Order(p))
  <2>1. at'[p] = "cleanup" /\ pos'[p] = n
    BY <1>9 DEF Replace, BundleTypeOK
  <2>2. Replaced(p)'
    BY <1>7, <1>9, RegisteredEnds DEF Replaced
  <2> QED BY <1>1, <1>2, <1>3, <1>5, <1>8, <2>1, <2>2, HolderKeeps DEF Work
<1>10. CASE n # Len(Order(p))
  <2>1. at'[p] = "replace" /\ pos'[p] = n + 1
    BY <1>10 DEF Replace, BundleTypeOK
  <2>2. n + 1 \in 1..Len(Order(p)) /\ (n + 1) - 1 = n
    BY <1>2, <1>10, OrderLength
  <2>3. pos'[p] \in 1..Len(Order(p)) /\ pos'[p] - 1 = n
    BY <2>1, <2>2
  <2>4. InReplace(p)'
    BY <1>2, <1>3, <1>5, <1>7, <2>3 DEF InReplace
  <2>5. Work(p)'
    BY <1>8, <2>1, <2>4 DEF Work
  <2> QED BY <1>1, <1>3, <2>5, HolderKeeps
<1> QED BY <1>9, <1>10

LEMMA ReplaceFailsWork ==
    ASSUME BundleTypeOK, LockInv, WorkInv, NEW p \in Publisher, ReplaceFails(p) PROVE WorkInv'
<1> DEFINE n == pos[p]
           c == Order(p)[n]
<1>1. at[p] = "replace" /\ last = p /\ InReplace(p)
  BY HolderWorks DEF ReplaceFails, Holding, Work
<1>2. n \in 1..Len(Order(p)) /\ n \in 0..Len(Order(p)) /\ ~errs[p] /\ BackedUp(p)
  BY <1>1, OrderLength DEF InReplace
<1>3. /\ UNCHANGED <<backup, errs, before, last, pos>>
      /\ target' = [target EXCEPT ![c] = p] \/ target' = target
      /\ at'[p] = "rollback"
  BY DEF ReplaceFails, Move, BundleTypeOK
<1>4. /\ Registered(p, n) = Registered(p, n - 1) \cup {c}
      /\ c \in Component /\ Files(p) \subseteq Component /\ Registered(p, n) \subseteq Files(p)
  BY <1>1, AtReplace
<1>5. \A x \in Component : target[x] = IF x \in Registered(p, n - 1) THEN p ELSE before[p][x]
  BY <1>1 DEF InReplace
<1>6. \A x \in Registered(p, n) : backup[p][x] = before[p][x]
  BY <1>2, <1>4 DEF BackedUp
<1>7. /\ \A x \in Registered(p, n) : target'[x] \in {p, before[p][x]}
      /\ \A x \in Component \ Registered(p, n) : target'[x] = before[p][x]
  <2> HIDE DEF c, n
  <2>1. CASE target' = target
    BY <2>1, <1>4, <1>5
  <2>2. CASE target' = [target EXCEPT ![c] = p]
    BY <2>2, <1>4, <1>5 DEF BundleTypeOK
  <2> QED BY <1>3, <2>1, <2>2
<1>8. InRollback(p)'
  BY <1>2, <1>3, <1>6, <1>7 DEF InRollback
<1>9. \A x \in Component : before'[p][x] \in {NoFile, target'[x], backup'[p][x]}
  BY <1>3, <1>6, <1>7
<1>10. Work(p)'
  BY <1>3, <1>8, <1>9 DEF Work
<1> QED BY <1>1, <1>3, <1>10, HolderKeeps

LEMMA FinishWork ==
    ASSUME BundleTypeOK, LockInv, WorkInv, NEW p \in Publisher, Finish(p) PROVE WorkInv'
<1>1. at[p] = "cleanup" /\ last = p /\ Replaced(p)
  BY HolderWorks DEF Finish, Holding, Work
<1>2. at'[p] = "done" /\ UNCHANGED <<target, before, last>>
  BY DEF Finish, CleanUp, BundleTypeOK
<1>3. Work(p)'
  BY <1>1, <1>2 DEF Work, Replaced
<1> QED BY <1>1, <1>2, <1>3, HolderKeeps

LEMMA RollbackWork ==
    ASSUME BundleTypeOK, LockInv, WorkInv, NEW p \in Publisher, Rollback(p) PROVE WorkInv'
<1> DEFINE n == pos[p]
           c == Order(p)[n]
<1>1. /\ at[p] = "rollback" /\ last = p /\ InRollback(p)
      /\ \A x \in Component : before[p][x] \in {NoFile, target[x], backup[p][x]}
  BY HolderWorks DEF Rollback, Holding, Work
<1>2. n \in 1..Len(Order(p)) /\ n - 1 \in 0..Len(Order(p))
  BY <1>1, OrderLength DEF InRollback, Rollback
<1>3. /\ Registered(p, n) = Registered(p, n - 1) \cup {c}
      /\ c \notin Registered(p, n - 1) /\ c \in Component
      /\ Registered(p, n) \subseteq Component
  BY <1>2, RegisteredSteps, FilesOf
<1>4. /\ UNCHANGED <<before, last, at>> /\ pos'[p] = n - 1
      /\ \/ /\ target' = [target EXCEPT ![c] = backup[p][c]]
            /\ backup' = [backup EXCEPT ![p][c] = NoFile] /\ errs' = errs
         \/ UNCHANGED <<target, backup>> /\ errs'[p]
  BY DEF Rollback, BundleTypeOK
<1>5. /\ \A x \in Registered(p, n) : backup[p][x] = before[p][x] /\ target[x] \in {p, before[p][x]}
      /\ ~errs[p] => \A x \in Component \ Registered(p, n) : target[x] = before[p][x]
  BY <1>1 DEF InRollback
<1>6. CASE UNCHANGED <<target, backup>> /\ errs'[p]
  <2>1. InRollback(p)'
    BY <1>2, <1>3, <1>4, <1>5, <1>6 DEF InRollback
  <2>2. Work(p)'
    BY <1>1, <1>4, <1>6, <2>1 DEF Work
  <2> QED BY <1>1, <1>4, <2>2, HolderKeeps
<1>7. CASE /\ target' = [target EXCEPT ![c] = backup[p][c]]
           /\ backup' = [backup EXCEPT ![p][c] = NoFile] /\ errs' = errs
  <2>1. \A x \in Component : target'[x] = IF x = c THEN before[p][x] ELSE target[x]
    <3> HIDE DEF c, n
    <3> QED BY <1>3, <1>5, <1>7 DEF BundleTypeOK
  <2>2. \A x \in Component : x # c => backup'[p][x] = backup[p][x]
    <3> HIDE DEF c
    <3> QED BY <1>3, <1>7 DEF BundleTypeOK
  <2>3. /\ \A x \in Registered(p, n - 1) :
              backup'[p][x] = before[p][x] /\ target'[x] \in {p, before[p][x]}
        /\ ~errs[p] => \A x \in Component \ Registered(p, n - 1) : target'[x] = before[p][x]
    <3> HIDE DEF c, n
    <3> QED BY <1>3, <1>5, <2>1, <2>2
  <2>4. InRollback(p)'
    BY <1>2, <1>4, <1>7, <2>3 DEF InRollback
  <2>5. \A x \in Component : before[p][x] \in {NoFile, target'[x], backup'[p][x]}
    <3> HIDE DEF c
    <3> QED BY <1>1, <2>1, <2>2
  <2>6. Work(p)'
    BY <1>1, <1>4, <2>4, <2>5 DEF Work
  <2> QED BY <1>1, <1>4, <2>6, HolderKeeps
<1> QED BY <1>4, <1>6, <1>7

\* A rollback without an error that has come to its end has undone everything.
LEMMA Undone ==
    ASSUME BundleTypeOK, NEW p \in Publisher, InRollback(p), pos[p] = 0, ~errs[p]
    PROVE  target = before[p]
<1>1. \A c \in Component : target[c] = before[p][c]
  BY RegisteredEnds DEF InRollback
<1> QED BY <1>1 DEF BundleTypeOK

LEMMA RestoreWork ==
    ASSUME BundleTypeOK, LockInv, WorkInv, NEW p \in Publisher, Restore(p) PROVE WorkInv'
<1>1. /\ at[p] = "rollback" /\ last = p /\ InRollback(p)
      /\ \A x \in Component : before[p][x] \in {NoFile, target[x], backup[p][x]}
  BY HolderWorks DEF Restore, Holding, Work
<1>2. at'[p] = "failed" /\ UNCHANGED <<target, before, last>>
  BY DEF Restore, CleanUp, BundleTypeOK
<1>3. \/ errs'[p] /\ backup' = backup
      \/ ~errs'[p] /\ ~errs[p]
  BY DEF Restore, BundleTypeOK
<1>4. ~errs[p] => target = before[p]
  BY <1>1, Undone DEF Restore
<1>5. Work(p)'
  BY <1>1, <1>2, <1>3, <1>4 DEF Work
<1> QED BY <1>1, <1>2, <1>5, HolderKeeps

LEMMA KillWork ==
    ASSUME BundleTypeOK, LockInv, WorkInv, NEW p \in Publisher, KillPublisher(p) PROVE WorkInv'
<1> SUFFICES ASSUME NEW q \in Publisher, last' = q PROVE Work(q)'
  BY DEF WorkInv
<1>1. last = q /\ UNCHANGED <<target, backup, pos, errs, before>> /\ Work(q)
  BY DEF KillPublisher, WorkInv, Work
<1>2. CASE q # p
  <2>1. at'[q] = at[q]
    BY <1>2 DEF KillPublisher, BundleTypeOK
  <2> QED BY <1>1, <2>1
    DEF Work, InBackup, InReplace, InRollback, BackedUp, Replaced
<1>3. CASE q = p
  <2>1. at'[p] = "dead" /\ at[p] \in Holding
    BY <1>1, <1>3 DEF KillPublisher, BundleTypeOK, LockInv
  <2>2. pos[p] = 0 => at[p] = "rollback"
    BY <1>1, <1>3, <2>1 DEF Holding, Work, InBackup, InReplace
  <2>3. pos[p] = 0 /\ ~errs[p] => target = before[p]
    BY <1>1, <1>3, <2>2, Undone DEF Work
  <2> QED BY <1>1, <1>3, <2>1, <2>3 DEF Work, Holding
<1> QED BY <1>2, <1>3

LEMMA WorkStep == ASSUME BundleTypeOK, LockInv, WorkInv, BundleNext PROVE WorkInv'
<1>1. ASSUME NEW b \in Bundles, GisIndexes(b) PROVE WorkInv'
  <2>1. UNCHANGED <<target, backup, at, pos, errs, before, last>>
    BY <1>1 DEF GisIndexes
  <2> QED BY <2>1 DEF WorkInv, Work, InBackup, InReplace, InRollback, BackedUp, Replaced
<1> QED
  BY <1>1, StageWork, EnterWork, BackUpWork, BackUpFailsWork, ReplaceWork, ReplaceFailsWork,
     FinishWork, RollbackWork, RestoreWork, KillWork
  DEF BundleNext, PublishStep

-------------------------------------------------------------------------------
(* What a reader of the directory finds. *)

\* A publication that was cut short stays so.
LEMMA CutStays ==
    ASSUME BundleTypeOK, BundleNext, NEW p \in Publisher, Cut(p)
    PROVE  Cut(p)'
<1>1. errs[p] => errs'[p]
  BY DEF BundleTypeOK, BundleNext, PublishStep, Stage, EnterLocked, BackUp, BackUpFails, Replace,
         ReplaceFails, Finish, Rollback, Restore, KillPublisher, GisIndexes
<1>2. at[p] = "dead" => at'[p] = "dead" /\ pos'[p] = pos[p]
  <2> SUFFICES ASSUME at[p] = "dead" PROVE at'[p] = "dead" /\ pos'[p] = pos[p]
    OBVIOUS
  <2>1. ASSUME NEW q \in Publisher, Stage(q) \/ EnterLocked(q)
        PROVE  at'[p] = "dead" /\ pos'[p] = pos[p]
    BY <2>1 DEF BundleTypeOK, Stage, EnterLocked, Abandon
  <2>2. ASSUME NEW q \in Publisher, BackUp(q) \/ BackUpFails(q)
        PROVE  at'[p] = "dead" /\ pos'[p] = pos[p]
    BY <2>2 DEF BundleTypeOK, BackUp, BackUpFails
  <2>3. ASSUME NEW q \in Publisher, Replace(q) \/ ReplaceFails(q)
        PROVE  at'[p] = "dead" /\ pos'[p] = pos[p]
    BY <2>3 DEF BundleTypeOK, Replace, ReplaceFails
  <2>4. ASSUME NEW q \in Publisher, Finish(q) \/ Rollback(q) \/ Restore(q) \/ KillPublisher(q)
        PROVE  at'[p] = "dead" /\ pos'[p] = pos[p]
    BY <2>4 DEF BundleTypeOK, Finish, Rollback, Restore, KillPublisher, CleanUp, Holding
  <2>5. ASSUME NEW b \in Bundles, GisIndexes(b)
        PROVE  at'[p] = "dead" /\ pos'[p] = pos[p]
    BY <2>5 DEF GisIndexes
  <2> QED BY <2>1, <2>2, <2>3, <2>4, <2>5 DEF BundleNext, PublishStep
<1> QED BY <1>1, <1>2 DEF Cut

\* When all files of p have taken the place of what it found, signs and poles are
\* whole: whoever shares a bundle with p has lost its signs to p.
LEMMA WholeReplaced ==
    ASSUME NEW p \in Publisher, Whole(before[p]), Replaced(p), BundleTypeOK
    PROVE  Whole(target)
<1> SUFFICES ASSUME NEW b \in Bundles
             PROVE  LET v == target[Shp(b)] IN
                    /\ \A k \in DOMAIN Suffixes : target[<<b, Suffixes[k]>>] = v
                    /\ v \in Publisher /\ b = Pairs[v][1] => \A c \in Files(v) : target[c] = v
  BY DEF Whole
<1>1. /\ Shp(b) \in Component /\ Shp(b)[1] = b
      /\ \A k \in DOMAIN Suffixes : <<b, Suffixes[k]>> \in Component
  BY Geometry
<1>2. \A c \in Component : target[c] = IF c[1] \in BundlesOf(p) THEN p ELSE before[p][c]
  BY FilesOf DEF Replaced
<1>3. CASE b \in BundlesOf(p)
  BY <1>1, <1>2, <1>3, FilesOf
<1>4. CASE b \notin BundlesOf(p)
  <2> DEFINE v == before[p][Shp(b)]
  <2>1. target[Shp(b)] = v
    BY <1>1, <1>2, <1>4
  <2>2. \A k \in DOMAIN Suffixes : before[p][<<b, Suffixes[k]>>] = v
    BY DEF Whole
  <2>3. \A k \in DOMAIN Suffixes : target[<<b, Suffixes[k]>>] = v
    BY <1>1, <1>2, <1>4, <2>2
  <2>4. ASSUME v \in Publisher, b = Pairs[v][1], NEW c \in Files(v) PROVE target[c] = v
    <3>1. before[p][c] = v
      BY <2>4 DEF Whole
    <3>2. BundlesOf(p) \cap BundlesOf(v) = {}
      BY <1>4, <2>4, SignsComeAlong
    <3>3. c \in Component /\ c[1] \notin BundlesOf(p)
      BY <2>4, <3>2, FilesOf
    <3> QED BY <1>2, <3>1, <3>3
  <2> HIDE DEF v
  <2> QED BY <2>1, <2>3, <2>4
<1> QED BY <1>3, <1>4

\* While p works the directory counts as it was found.
LEMMA WholeHeld ==
    ASSUME NEW p \in Publisher, LockInv, WholeInv, at[p] \in Holding, \A q \in Publisher : ~Cut(q)
    PROVE  Whole(before[p])
BY PublishersAreNew DEF LockInv, WholeInv

LEMMA WholeStep ==
    ASSUME BundleTypeOK, LockInv, WorkInv, WholeInv, BundleNext PROVE WholeInv'
<1> SUFFICES ASSUME \A q \in Publisher : ~Cut(q)'
             PROVE  Whole(IF lock = NoFile THEN target ELSE before[lock])'
  BY DEF WholeInv
<1>1. \A q \in Publisher : ~Cut(q)
  BY CutStays
<1>2. Whole(IF lock = NoFile THEN target ELSE before[lock])
  BY <1>1 DEF WholeInv
<1> DEFINE Goal == Whole(IF lock = NoFile THEN target ELSE before[lock])'
<1>3. ASSUME UNCHANGED <<target, lock, before>> PROVE Goal
  BY <1>2, <1>3 DEF Whole
<1>4. ASSUME NEW p \in Publisher, EnterLocked(p) PROVE Goal
  <2>1. CASE lock = NoFile
    <3>1. lock' = p /\ before'[p] = target /\ p # NoFile
      BY <1>4, <2>1, PublishersAreNew DEF EnterLocked, BundleTypeOK
    <3>2. Whole(target)
      BY <1>2, <2>1
    <3> QED BY <3>1, <3>2 DEF Whole
  <2>2. CASE lock # NoFile
    BY <1>3, <1>4, <2>2 DEF EnterLocked
  <2> QED BY <2>1, <2>2
<1>5. ASSUME NEW p \in Publisher, at[p] \in Holding,
             UNCHANGED <<lock, before>>
      PROVE  Goal
  <2>1. lock' = p /\ p # NoFile /\ before'[p] = before[p]
    BY <1>5, PublishersAreNew DEF LockInv
  <2>2. Whole(before[p])
    BY <1>1, <1>5, WholeHeld
  <2> QED BY <2>1, <2>2 DEF Whole
<1>6. ASSUME NEW p \in Publisher, Finish(p) PROVE Goal
  <2>1. at[p] \in Holding /\ lock' = NoFile /\ target' = target
    BY <1>6 DEF Finish, CleanUp, Holding
  <2>2. Replaced(p)
    BY <1>6, <2>1, HolderWorks DEF Finish, Work
  <2>3. Whole(target)
    BY <1>1, <2>1, <2>2, WholeHeld, WholeReplaced
  <2> QED BY <2>1, <2>3 DEF Whole
<1>7. ASSUME NEW p \in Publisher, at[p] = "rollback", pos[p] = 0, lock' = NoFile, target' = target
      PROVE  Goal
  <2>1. at[p] \in Holding /\ ~errs[p]
    BY <1>1, <1>7 DEF Holding, Cut
  <2>2. target = before[p]
    BY <1>7, <2>1, HolderWorks, Undone DEF Work
  <2>3. Whole(target)
    BY <1>1, <2>1, <2>2, WholeHeld
  <2> QED BY <1>7, <2>3 DEF Whole
<1>8. ASSUME NEW p \in Publisher, KillPublisher(p) PROVE Goal
  <2>1. CASE at[p] = "ready"
    <3>1. UNCHANGED <<target, lock, before>>
      BY <1>8, <2>1 DEF KillPublisher, LockInv, Holding
    <3> QED BY <1>3, <3>1
  <2>2. CASE at[p] # "ready"
    <3>1. /\ at[p] \in Holding /\ at'[p] = "dead" /\ pos' = pos
          /\ lock' = NoFile /\ target' = target
      BY <1>8, <2>2 DEF KillPublisher, LockInv, BundleTypeOK
    <3>2. pos[p] = 0
      BY <3>1 DEF Cut, BundleTypeOK
    <3>3. at[p] = "rollback"
      BY <3>1, <3>2, HolderWorks DEF Holding, Work, InBackup, InReplace
    <3> QED BY <1>7, <3>1, <3>2, <3>3
  <2> QED BY <2>1, <2>2
<1>9. ASSUME NEW p \in Publisher, Stage(p) PROVE Goal
  BY <1>3, <1>9 DEF Stage
<1>10. ASSUME NEW p \in Publisher,
              BackUp(p) \/ BackUpFails(p) \/ Replace(p) \/ ReplaceFails(p) \/ Rollback(p)
       PROVE  Goal
  <2>1. at[p] \in Holding /\ UNCHANGED <<lock, before>>
    BY <1>10 DEF BackUp, BackUpFails, Replace, ReplaceFails, Rollback, Holding
  <2> QED BY <1>5, <2>1
<1>11. ASSUME NEW p \in Publisher, Restore(p) PROVE Goal
  <2>1. at[p] = "rollback" /\ pos[p] = 0 /\ lock' = NoFile /\ target' = target
    BY <1>11 DEF Restore, CleanUp
  <2> QED BY <1>7, <2>1
<1>12. ASSUME NEW b \in Bundles, GisIndexes(b) PROVE Goal
  BY <1>3, <1>12 DEF GisIndexes
<1> QED
  BY <1>4, <1>6, <1>8, <1>9, <1>10, <1>11, <1>12 DEF BundleNext, PublishStep

-------------------------------------------------------------------------------
(* Spatial indexes. *)

\* The geometry of a bundle that p does not publish is no file of p.
LEMMA OtherGeometry ==
    ASSUME NEW p \in Publisher, NEW b \in Bundles
    PROVE  Shp(b) \in Files(p) <=> b \in BundlesOf(p)
BY Geometry, FilesOf

\* What is said of the indexes while p holds the lock, and when nobody does.
LEMMA IndexHeld ==
    ASSUME NEW p \in Publisher, LockInv, IndexInv, at[p] \in Holding, \A q \in Publisher : ~errs[q]
    PROVE  IndexOfHolder(p)
BY DEF LockInv, IndexInv

LEMMA IndexKept ==
    ASSUME NEW p \in Publisher, lock' = p, IndexOfHolder(p)'
    PROVE  IndexInv'
BY PublishersAreNew DEF IndexInv

LEMMA IndexFree ==
    ASSUME lock' = NoFile, \A b \in Bundles : index'[b] \in {NoFile, target'[Shp(b)]}
    PROVE  IndexInv'
BY PublishersAreNew DEF IndexInv

\* The errors of a publication are not forgotten.
LEMMA ErrorsStay ==
    ASSUME BundleTypeOK, BundleNext, NEW p \in Publisher, errs[p]
    PROVE  errs'[p]
BY DEF BundleTypeOK, BundleNext, PublishStep, Stage, EnterLocked, BackUp, BackUpFails, Replace,
       ReplaceFails, Finish, Rollback, Restore, KillPublisher, GisIndexes

LEMMA EnterIndex ==
    ASSUME BundleTypeOK, LockInv, IndexInv, \A q \in Publisher : ~errs[q],
           NEW p \in Publisher, EnterLocked(p)
    PROVE  IndexInv'
<1>1. CASE lock = NoFile
  <2>1. /\ lock' = p /\ before'[p] = target /\ at'[p] = "backup" /\ pos'[p] = 1
        /\ UNCHANGED <<index, indexBackup>>
    BY <1>1 DEF EnterLocked, BundleTypeOK
  <2>2. \A b \in Bundles : index[b] \in {NoFile, target[Shp(b)]}
    BY <1>1 DEF IndexInv
  <2>3. \A b \in Bundles : indexBackup[p][b] = NoFile
    BY Empty DEF EnterLocked, LockInv
  <2>4. 1 \in 1..Len(Pairs[p]) /\ BundlesBefore(p, 1) = {}
    BY OrderLength, BackupSteps
  <2>5. IndexOfHolder(p)'
    BY <2>1, <2>2, <2>3, <2>4 DEF IndexOfHolder
  <2> QED BY <2>1, <2>5, IndexKept
<1>2. CASE lock # NoFile
  <2>1. /\ UNCHANGED <<index, indexBackup, lock, before, errs, target, pos>>
        /\ \A q \in Publisher : lock = q => at'[q] = at[q]
    BY <1>2 DEF EnterLocked, Abandon, LockInv, Holding, BundleTypeOK
  <2> QED BY <2>1 DEF IndexInv, IndexOfHolder
<1> QED BY <1>1, <1>2

LEMMA BackUpIndex ==
    ASSUME BundleTypeOK, LockInv, WorkInv, IndexInv, \A q \in Publisher : ~errs[q],
           NEW p \in Publisher, BackUp(p)
    PROVE  IndexInv'
<1> DEFINE n == pos[p]
           b == Pairs[p][n]
<1>1. at[p] = "backup" /\ lock = p /\ InBackup(p) /\ IndexOfHolder(p)
  BY HolderWorks, IndexHeld DEF BackUp, Holding, Work
<1>2. n \in 1..Len(Pairs[p])
  BY <1>1 DEF InBackup
<1>3. /\ BundlesBefore(p, n + 1) = BundlesBefore(p, n) \cup {b}
      /\ BundlesBefore(p, Len(Pairs[p]) + 1) = BundlesOf(p)
      /\ BundlesOf(p) \subseteq Bundles /\ b \in BundlesOf(p)
  BY <1>2, BackupSteps
<1>4. /\ UNCHANGED <<before, lock>>
      /\ index' = [index EXCEPT ![b] = NoFile]
      /\ indexBackup' = [indexBackup EXCEPT ![p][b] = index[b]]
  BY DEF BackUp
<1>5. \A x \in Bundles :
        /\ index'[x] = IF x = b THEN NoFile ELSE index[x]
        /\ indexBackup'[p][x] = IF x = b THEN index[b] ELSE indexBackup[p][x]
  <2> HIDE DEF b
  <2> QED BY <1>3, <1>4 DEF BundleTypeOK
<1>6. \A x \in BundlesBefore(p, n + 1) : index'[x] = NoFile
  <2>1. BundlesBefore(p, n) \subseteq Bundles
    <3>1. \A k \in 1..(n - 1) : k \in DOMAIN Pairs[p]
      BY <1>2, OrderLength
    <3> QED BY <1>3, <3>1 DEF BundlesBefore, BundlesOf
  <2>2. \A x \in BundlesBefore(p, n) : index[x] = NoFile
    BY <1>1 DEF IndexOfHolder
  <2> HIDE DEF b, n
  <2> QED BY <1>3, <1>5, <2>1, <2>2
<1>7. \A x \in Bundles : /\ index'[x] \in {NoFile, before[p][Shp(x)]}
                         /\ indexBackup'[p][x] \in {NoFile, before[p][Shp(x)]}
  <2> HIDE DEF b
  <2> QED BY <1>1, <1>3, <1>5 DEF IndexOfHolder
<1>8. CASE n = Len(Pairs[p])
  <2>1. at'[p] = "replace"
    BY <1>8 DEF BackUp, BundleTypeOK
  <2>2. \A x \in BundlesOf(p) : index'[x] = NoFile
    BY <1>3, <1>6, <1>8
  <2>3. IndexOfHolder(p)'
    BY <1>4, <1>7, <2>1, <2>2 DEF IndexOfHolder
  <2> QED BY <1>1, <1>4, <2>3, IndexKept
<1>9. CASE n # Len(Pairs[p])
  <2>1. at'[p] = "backup" /\ pos'[p] = n + 1
    BY <1>1, <1>9 DEF BackUp, BundleTypeOK
  <2>2. IndexOfHolder(p)'
    BY <1>4, <1>6, <1>7, <2>1 DEF IndexOfHolder
  <2> QED BY <1>1, <1>4, <2>2, IndexKept
<1> QED BY <1>8, <1>9

\* A step of the holder that moves files only, and leaves the backup behind it.
LEMMA MoveIndex ==
    ASSUME BundleTypeOK, LockInv, WorkInv, IndexInv, \A q \in Publisher : ~errs[q],
           NEW p \in Publisher,
           BackUpFails(p) \/ Replace(p) \/ ReplaceFails(p) \/ Rollback(p)
    PROVE  IndexInv'
<1>1. /\ at[p] \in Holding /\ UNCHANGED <<index, indexBackup, before, lock>>
  BY DEF BackUpFails, Replace, ReplaceFails, Rollback, Holding
<1>2. lock = p /\ IndexOfHolder(p)
  BY <1>1, HolderWorks, IndexHeld
<1>3. \/ at'[p] = "rollback" /\ pos'[p] = 0
      \/ /\ at'[p] \in {"replace", "cleanup", "rollback"}
         /\ at[p] = "replace" \/ (at[p] = "rollback" /\ pos[p] > 0)
  BY DEF BackUpFails, Replace, ReplaceFails, Rollback, BundleTypeOK
<1>4. IndexOfHolder(p)'
  BY <1>1, <1>2, <1>3 DEF IndexOfHolder
<1> QED BY <1>1, <1>2, <1>4, IndexKept

LEMMA FinishIndex ==
    ASSUME BundleTypeOK, LockInv, WorkInv, IndexInv, \A q \in Publisher : ~errs[q],
           NEW p \in Publisher, Finish(p)
    PROVE  IndexInv'
<1>1. at[p] = "cleanup" /\ lock' = NoFile /\ UNCHANGED <<index, target>>
  BY DEF Finish, CleanUp
<1>2. Replaced(p) /\ IndexOfHolder(p)
  BY <1>1, HolderWorks, IndexHeld DEF Holding, Work
<1>3. ASSUME NEW b \in Bundles PROVE index[b] \in {NoFile, target[Shp(b)]}
  <2>1. CASE b \in BundlesOf(p)
    BY <1>1, <1>2, <2>1 DEF IndexOfHolder
  <2>2. CASE b \notin BundlesOf(p)
    BY <1>2, <2>2, Geometry, OtherGeometry DEF IndexOfHolder, Replaced
  <2> QED BY <2>1, <2>2
<1> QED BY <1>1, <1>3, IndexFree

\* Indexes that return find the files they describe.
LEMMA RestoreIndex ==
    ASSUME BundleTypeOK, LockInv, WorkInv, IndexInv, \A q \in Publisher : ~errs[q],
           NEW p \in Publisher, Restore(p)
    PROVE  IndexInv'
<1>1. at[p] = "rollback" /\ pos[p] = 0 /\ lock' = NoFile /\ target' = target
  BY DEF Restore, CleanUp
<1>2. IndexOfHolder(p) /\ target = before[p]
  BY <1>1, HolderWorks, IndexHeld, Undone DEF Holding, Work
<1>3. \A b \in Bundles : index'[b] \in {index[b], indexBackup[p][b]}
  BY DEF Restore, BundleTypeOK
<1>4. \A b \in Bundles : index'[b] \in {NoFile, target'[Shp(b)]}
  BY <1>1, <1>2, <1>3 DEF IndexOfHolder
<1> QED BY <1>1, <1>4, IndexFree

LEMMA KillIndex ==
    ASSUME BundleTypeOK, LockInv, WorkInv, IndexInv, \A q \in Publisher : ~errs[q],
           NEW p \in Publisher, KillPublisher(p)
    PROVE  IndexInv'
<1>1. UNCHANGED <<index, indexBackup, before, target, errs, pos>>
  BY DEF KillPublisher
<1>2. CASE at[p] = "ready"
  <2>1. lock' = lock /\ \A q \in Publisher : lock = q => at'[q] = at[q]
    BY <1>2 DEF KillPublisher, LockInv, Holding, BundleTypeOK
  <2> QED BY <1>1, <2>1 DEF IndexInv, IndexOfHolder
<1>3. CASE at[p] # "ready"
  <2>1. at[p] \in Holding /\ lock' = NoFile
    BY <1>3 DEF KillPublisher, LockInv
  <2>2. IndexOfHolder(p) /\ Work(p)
    BY <2>1, HolderWorks, IndexHeld
  <2>3. ASSUME NEW b \in Bundles PROVE index[b] \in {NoFile, target[Shp(b)]}
    <3>1. Shp(b) \in Component /\ (Shp(b) \in Files(p) <=> b \in BundlesOf(p))
      BY Geometry, OtherGeometry
    <3>2. CASE target = before[p]
      BY <2>2, <3>2 DEF IndexOfHolder
    <3>3. CASE b \in BundlesOf(p) /\ target # before[p]
      <4>1. at[p] = "replace" \/ at[p] = "cleanup" \/ (at[p] = "rollback" /\ pos[p] > 0)
        BY <2>1, <2>2, <3>3, Undone DEF Holding, Work, InBackup, BundleTypeOK
      <4> QED BY <2>2, <3>3, <4>1 DEF IndexOfHolder
    <3>4. CASE b \notin BundlesOf(p)
      <4>1. target[Shp(b)] = before[p][Shp(b)]
        <5>1. CASE at[p] = "backup"
          BY <2>2, <5>1 DEF Work, InBackup
        <5>2. CASE at[p] = "replace"
          <6>1. InReplace(p)
            BY <2>2, <5>2 DEF Work
          <6> QED BY <6>1, <3>1, <3>4, AtReplace DEF InReplace
        <5>3. CASE at[p] = "cleanup"
          BY <2>2, <3>1, <3>4, <5>3 DEF Work, Replaced
        <5>4. CASE at[p] = "rollback"
          <6>1. InRollback(p) /\ ~errs[p]
            BY <2>2, <5>4 DEF Work
          <6>2. Shp(b) \notin Registered(p, pos[p])
            <7>1. CASE pos[p] = 0
              BY <7>1, RegisteredEnds
            <7>2. CASE pos[p] # 0
              <8>1. pos[p] \in 1..Len(Order(p))
                BY <6>1, <7>2, OrderLength DEF InRollback
              <8> QED BY <8>1, <3>1, <3>4, RegisteredSteps
            <7> QED BY <7>1, <7>2
          <6> QED BY <6>1, <6>2, <3>1 DEF InRollback
        <5> QED BY <2>1, <5>1, <5>2, <5>3, <5>4 DEF Holding
      <4> QED BY <2>2, <4>1 DEF IndexOfHolder
    <3> QED BY <3>2, <3>3, <3>4
  <2> QED BY <1>1, <2>1, <2>3, IndexFree
<1> QED BY <1>2, <1>3

LEMMA IndexStep ==
    ASSUME BundleTypeOK, LockInv, WorkInv, IndexInv, BundleNext
    PROVE  IndexInv'
<1> SUFFICES ASSUME \A q \in Publisher : ~errs'[q] PROVE IndexInv'
  BY DEF IndexInv
<1>1. \A q \in Publisher : ~errs[q]
  BY ErrorsStay
<1>2. ASSUME NEW p \in Publisher, Stage(p) PROVE IndexInv'
  <2>1. UNCHANGED <<index, indexBackup, before, target, errs, pos, lock>>
    BY <1>2 DEF Stage
  <2>2. \A q \in Publisher : lock = q => at'[q] = at[q]
    BY <1>2 DEF Stage, Abandon, LockInv, Holding, BundleTypeOK
  <2> QED BY <2>1, <2>2 DEF IndexInv, IndexOfHolder
<1>3. ASSUME NEW b \in Bundles, GisIndexes(b) PROVE IndexInv'
  <2>1. lock = NoFile /\ UNCHANGED <<target, lock>> /\ index' = [index EXCEPT ![b] = target[Shp(b)]]
    BY <1>3 DEF GisIndexes
  <2>2. \A x \in Bundles : index[x] \in {NoFile, target[Shp(x)]}
    BY <1>1, <2>1 DEF IndexInv
  <2> QED BY <2>1, <2>2, IndexFree DEF BundleTypeOK
<1> QED
  BY <1>1, <1>2, <1>3, EnterIndex, BackUpIndex, MoveIndex, FinishIndex, RestoreIndex, KillIndex
  DEF BundleNext, PublishStep

-------------------------------------------------------------------------------
(* The theorems. *)

LEMMA BundleStart == ASSUME BundleInit PROVE IndInv
<1> USE PublishersAreNew DEF BundleInit
<1>1. BundleTypeOK
  BY Empty, BoundsAreNatural DEF BundleTypeOK, Version
<1>2. LockInv
  BY DEF LockInv, Holding
<1>3. WorkInv
  BY DEF WorkInv
<1>4. WholeInv
  <2>1. PICK v \in {Old, NoFile} : target = [c \in Component |-> v]
    OBVIOUS
  <2>2. \A b \in Bundles : target[Shp(b)] = v /\ \A k \in DOMAIN Suffixes : target[<<b, Suffixes[k]>>] = v
    BY <2>1, Geometry
  <2>3. Whole(target)
    BY <2>1, <2>2 DEF Whole
  <2> QED BY <2>3 DEF WholeInv
<1>5. IndexInv
  BY DEF IndexInv
<1> QED BY <1>1, <1>2, <1>3, <1>4, <1>5 DEF IndInv

\* Every reachable state satisfies the inductive invariant, for any publishers,
\* suffixes and bundles, any number of failing operations and of kills.
THEOREM Invariance == BundleSpec => []IndInv
<1>1. BundleInit => IndInv
  BY BundleStart
<1>2. IndInv /\ [BundleNext]_bundleVars => IndInv'
  <2> SUFFICES ASSUME IndInv, [BundleNext]_bundleVars PROVE IndInv'
    OBVIOUS
  <2>1. CASE BundleNext
    BY <2>1, Types, LockStep, WorkStep, WholeStep, IndexStep DEF IndInv
  <2>2. CASE UNCHANGED bundleVars
    <3>1. BundleTypeOK' /\ LockInv'
      BY <2>2 DEF IndInv, bundleVars, BundleTypeOK, LockInv
    <3>2. WorkInv'
      BY <2>2 DEF IndInv, bundleVars, WorkInv, Work, InBackup, InReplace, InRollback, BackedUp, Replaced
    <3>3. WholeInv'
      BY <2>2 DEF IndInv, bundleVars, WholeInv, Whole, Cut
    <3>4. IndexInv'
      BY <2>2 DEF IndInv, bundleVars, IndexInv, IndexOfHolder
    <3> QED BY <3>1, <3>2, <3>3, <3>4 DEF IndInv
  <2> QED BY <2>1, <2>2
<1> QED BY <1>1, <1>2, PTL DEF BundleSpec

\* Files, indexes, backups and the publishers' control keep their types.
THEOREM TypeCorrectness == BundleSpec => []BundleTypeOK
<1>1. IndInv => BundleTypeOK
  BY DEF IndInv
<1> QED BY <1>1, Invariance, PTL

\* A shared directory is never left with a mixture of two publications, a failed
\* one loses nothing, and no spatial index describes other geometry than its own.
THEOREM PublicationSafety == BundleSpec => []PublicationSound
<1>1. IndInv => PublicationSound
  <2> SUFFICES ASSUME IndInv PROVE PublicationSound
    OBVIOUS
  <2>1. AllOrNothing
    <3> SUFFICES ASSUME NEW p \in Publisher, last = p
                 PROVE  /\ at[p] = "done" => \A c \in Files(p) : target[c] = p
                        /\ at[p] = "failed" /\ ~errs[p] => target = before[p]
      BY DEF AllOrNothing
    <3>1. Work(p)
      BY DEF IndInv, WorkInv
    <3> QED BY <3>1, FilesOf DEF Work, Replaced
  <2>2. NothingLost
    BY DEF IndInv, WorkInv, Work, NothingLost
  <2>3. PublishedWhole
    BY DEF IndInv, WholeInv, Whole, PublishedWhole
  <2>4. IndexFresh
    BY DEF IndInv, IndexInv, IndexFresh
  <2> QED BY <2>1, <2>2, <2>3, <2>4 DEF PublicationSound
<1> QED BY <1>1, Invariance, PTL

------------------------------------------------------------------------------
(* The pole search. *)

\* What the code's two rankings compare.
LEMMA Ranks ==
    ASSUME NEW a, NEW b
    PROVE  /\ Rank(a) \in 0..3 /\ CrossRank(a) \in 0..15
           /\ Rank(a) = 0 => Direct(a) /\ Complete(a)
           /\ Direct(a) /\ Complete(a) => Rank(a) = 0
           /\ Rank(a) = Rank(b) => (Direct(a) <=> Direct(b))
           /\ CrossRank(a) <= CrossRank(b) /\ Complete(b) => Complete(a)
<1> DEFINE c1 == Worse(~Complete(a))
           c2 == Worse(~Complete(b))
           d1 == Worse(~Direct(a))
           d2 == Worse(~Direct(b))
           g1 == Worse(shape[a].ground = "none")
           g2 == Worse(shape[b].ground = "none")
           s1 == Worse(StatusOf(a) = "REVIEW")
           s2 == Worse(StatusOf(b) = "REVIEW")
<1>1. /\ c1 \in {0, 1} /\ c2 \in {0, 1} /\ d1 \in {0, 1} /\ d2 \in {0, 1}
      /\ g1 \in {0, 1} /\ g2 \in {0, 1} /\ s1 \in {0, 1} /\ s2 \in {0, 1}
  BY DEF Worse
<1>2. (c1 = 0 <=> Complete(a)) /\ (c2 = 0 <=> Complete(b))
  BY DEF Worse
<1>3. (d1 = 0 <=> Direct(a)) /\ (d2 = 0 <=> Direct(b))
  BY DEF Worse
<1>4. Rank(a) = 2 * c1 + d1 /\ Rank(b) = 2 * c2 + d2
  BY DEF Rank
<1>5. CrossRank(a) = 8 * c1 + 4 * g1 + 2 * s1 + d1 /\ CrossRank(b) = 8 * c2 + 4 * g2 + 2 * s2 + d2
  BY DEF CrossRank
<1> HIDE DEF c1, c2, d1, d2, g1, g2, s1, s2
<1>6. Rank(a) \in 0..3 /\ CrossRank(a) \in 0..15
  BY <1>1, <1>4, <1>5
<1>7. (Rank(a) = 0 <=> c1 = 0 /\ d1 = 0) /\ (Rank(a) = Rank(b) => d1 = d2)
  BY <1>1, <1>4
<1>8. CrossRank(a) <= CrossRank(b) /\ c2 = 0 => c1 = 0
  BY <1>1, <1>5
<1> QED BY <1>2, <1>3, <1>6, <1>7, <1>8, Zenon

\* The selection takes an axis of the best kind; of remote ones it may pass over one
\* that is nearer by at most a metre.
LEMMA SelectBest ==
    ASSUME PoleType, NEW S \in SUBSET Axis, NEW a \in Select(S)
    PROVE  BestOf(a, S, 1)
<1> DEFINE tier == {x \in S : \A y \in S : Rank(x) <= Rank(y)}
<1>1. PICK x \in Best(tier) : a = x \/ a \in Flip(tier, x)
  BY DEF Select, Chosen
<1>2. a \in S /\ \A y \in S : Rank(a) <= Rank(y)
  BY <1>1 DEF Best, Flip
<1>3. \A y \in S : shape[y].far \in Nat
  BY ShapesAreShapes DEF PoleType
<1>4. ASSUME NEW y \in S, ~Direct(a), Rank(a) = Rank(y)
      PROVE  shape[a].far <= shape[y].far + 1
  <2>1. y \in tier
    BY <1>2, <1>4
  <2>2. CASE a = x
    BY <1>1, <1>4, <2>1, <2>2 DEF Best
  <2>3. CASE a \in Flip(tier, x)
    <3>1. shape[a].far <= shape[y].far
      BY <2>1, <2>3 DEF Flip
    <3> QED BY <1>2, <1>3, <3>1
  <2> QED BY <1>1, <2>2, <2>3
<1>5. a # Nothing
  BY <1>2, NothingIsNoAxis
<1> QED BY <1>2, <1>4, <1>5 DEF BestOf

LEMMA CandidatesAreAxes == \A p, c : Candidates(p, c) \subseteq Axis
BY DEF Candidates, Examined

LEMMA FindsBest ==
    ASSUME PoleType, NEW p, NEW c, NEW a \in Finds(p, c)
    PROVE  BestOf(a, Candidates(p, c), 1) /\ a \in Axis \cup {Nothing}
<1>1. CASE Candidates(p, c) = {}
  BY <1>1 DEF Finds, BestOf
<1>2. CASE Candidates(p, c) # {}
  <2>1. a \in Select(Candidates(p, c)) BY <1>2 DEF Finds
  <2>2. BestOf(a, Candidates(p, c), 1) BY <2>1, CandidatesAreAxes, SelectBest
  <2>3. a # Nothing => a \in Candidates(p, c) BY <2>2 DEF BestOf
  <2> QED BY <2>2, <2>3, CandidatesAreAxes
<1> QED BY <1>1, <1>2

\* A greater slack is easier to keep.
LEMMA MoreSlack ==
    ASSUME PoleType, NEW S \in SUBSET Axis, NEW a, BestOf(a, S, 1)
    PROVE  BestOf(a, S, 2)
<1>1. \A y \in S : shape[y].far \in Nat
  BY ShapesAreShapes DEF PoleType
<1>2. CASE a = Nothing BY <1>2 DEF BestOf
<1>3. CASE a # Nothing
  <2>1. a \in S /\ shape[a].far \in Nat BY <1>1, <1>3 DEF BestOf
  <2>2. ASSUME NEW y \in S, shape[a].far <= shape[y].far + 1
        PROVE  shape[a].far <= shape[y].far + 2
    BY <1>1, <2>1, <2>2
  <2> QED BY <1>3, <2>2 DEF BestOf
<1> QED BY <1>2, <1>3

\* The better of the best of two corridors, each within a metre, is within two metres
\* of the best of both.
LEMMA BetterOfTwo ==
    ASSUME PoleType, NEW S \in SUBSET Axis, NEW T \in SUBSET Axis, NEW a, NEW b, NEW c,
           BestOf(a, S, 1), BestOf(b, T, 1),
           c \in IF {b, a} \subseteq Axis THEN Select({b, a})
                 ELSE IF b = Nothing THEN {a} ELSE {b}
    PROVE  BestOf(c, S \cup T, 2)
<1>1. (a = Nothing => S = {}) /\ (b = Nothing => T = {})
      /\ (a # Nothing => a \in S) /\ (b # Nothing => b \in T)
  BY DEF BestOf
<1>2. CASE a = Nothing \/ b = Nothing
  <2>1. \/ c = a /\ S \cup T = S
        \/ c = b /\ S \cup T = T
    BY <1>1, <1>2, NothingIsNoAxis
  <2> QED BY <2>1, MoreSlack
<1>3. CASE a # Nothing /\ b # Nothing
  <2>1. a \in S /\ b \in T /\ c \in Select({b, a})
    BY <1>1, <1>3
  <2>2. BestOf(c, {b, a}, 1) /\ c # Nothing
    <3>1. BestOf(c, {b, a}, 1) BY <2>1, SelectBest
    <3> QED BY <3>1, <1>3 DEF BestOf
  <2>3. c \in {a, b}
    BY <2>2 DEF BestOf
  <2>4. \A x \in S \cup T : shape[x].far \in Nat /\ Rank(x) \in 0..3
    BY ShapesAreShapes, Ranks DEF PoleType
  <2>5. ASSUME NEW x \in S \cup T
        PROVE  /\ Rank(c) <= Rank(x)
               /\ ~Direct(c) /\ Rank(c) = Rank(x) => shape[c].far <= shape[x].far + 2
    <3>1. PICK y \in {a, b} :
            /\ Rank(y) <= Rank(x)
            /\ ~Direct(y) /\ Rank(y) = Rank(x) => shape[y].far <= shape[x].far + 1
      BY <1>3 DEF BestOf
    <3>2. /\ Rank(c) <= Rank(y)
          /\ ~Direct(c) /\ Rank(c) = Rank(y) => shape[c].far <= shape[y].far + 1
      BY <2>2 DEF BestOf
    <3>3. /\ Rank(c) \in 0..3 /\ Rank(y) \in 0..3 /\ Rank(x) \in 0..3
          /\ shape[c].far \in Nat /\ shape[y].far \in Nat /\ shape[x].far \in Nat
      BY <2>1, <2>3, <2>4
    <3>4. Rank(c) <= Rank(x)
      BY <3>1, <3>2, <3>3
    <3>5. ASSUME ~Direct(c), Rank(c) = Rank(x)
          PROVE  shape[c].far <= shape[x].far + 2
      <4>1. Rank(c) = Rank(y) /\ Rank(y) = Rank(x)
        BY <3>1, <3>2, <3>3, <3>5
      <4>2. ~Direct(y)
        BY <4>1, <3>5, Ranks
      <4>3. shape[c].far <= shape[y].far + 1 /\ shape[y].far <= shape[x].far + 1
        BY <3>1, <3>2, <3>5, <4>1, <4>2
      <4> QED BY <3>3, <4>3
    <3> QED BY <3>4, <3>5
  <2> QED BY <2>1, <2>2, <2>3, <2>5 DEF BestOf
<1> QED BY <1>2, <1>3

\* What is kept for other frames has no arm of its own.
LEMMA Rejected ==
    ASSUME PoleType, NEW p \in {"strict", "wide"}, NEW c, NEW h \in RejectedHere(p, c)
    PROVE  h \in Axis /\ ~Direct(h) /\ shape[h].arm \in {"weak", "gap"}
<1>1. h \in Axis /\ ~Direct(h) /\ shape[h].arm \notin {"arm", "tilted"}
  BY DEF RejectedHere, Examined, Armed
<1>2. shape[h].arm \in {"arm", "weak", "gap", "tilted"}
  BY <1>1, ShapesAreShapes DEF PoleType
<1> QED BY <1>1, <1>2

LEMMA HypothesesKept ==
    ASSUME PoleType, HypsInv, NEW c, hyps' = hyps \cup RejectedHere(profile, c),
           UNCHANGED shape
    PROVE  HypsInv'
<1>1. ASSUME NEW h \in hyps'
      PROVE  h \in Axis /\ ~Direct(h) /\ shape[h].arm \in {"weak", "gap"}
  <2>1. CASE h \in hyps
    BY <2>1 DEF HypsInv
  <2>2. CASE h \in RejectedHere(profile, c)
    <3>1. profile \in {"strict", "wide"} BY DEF PoleType
    <3> QED BY <2>2, <3>1, Rejected
  <2> QED BY <1>1, <2>1, <2>2
<1> QED BY <1>1 DEF HypsInv, Direct

\* A good direct pole is the best of both corridors already.
LEMMA GoodIsBest ==
    ASSUME PoleType, NEW S \in SUBSET Axis, NEW T \in SUBSET Axis, NEW a,
           BestOf(a, S, 1), GoodEnough(a)
    PROVE  BestOf(a, S \cup T, 2)
<1>1. Rank(a) = 0 /\ \A x \in Axis : Rank(x) \in 0..3
  BY Ranks DEF GoodEnough
<1> QED BY <1>1 DEF BestOf, GoodEnough

\* Every step of the search keeps the invariant.
LEMMA SearchStep == ASSUME SearchInv, [PoleNext]_poleVars PROVE SearchInv'
<1> USE DEF SearchInv
<1>0. PoleType /\ ProgressInv /\ ProfileInv /\ OutcomeInv /\ HypsInv
  OBVIOUS
<1>r. ASSUME UNCHANGED <<policy, shape>>
      PROVE  /\ \A a : Direct(a)' <=> Direct(a)
             /\ \A a, S, n : BestOf(a, S, n)' <=> BestOf(a, S, n)
             /\ \A a, b : (CrossRank(a) <= CrossRank(b))' <=> CrossRank(a) <= CrossRank(b)
             /\ \A a, w : Report(a, w)' = Report(a, w)
             /\ \A a : Automatic(a)' <=> Automatic(a)
             /\ \A p, c : Candidates(p, c)' = Candidates(p, c)
  BY <1>r DEF Direct, BestOf, Rank, CrossRank, Report, Automatic, StatusOf, Complete,
     Candidates, Examined, Grounded, Armed
<1>a. ASSUME UNCHANGED <<policy, shape, empty, more>>
      PROVE  \A p : Acceptable(p)' = Acceptable(p)
  BY <1>a, <1>r DEF Acceptable
<1>1. CASE SearchNothing
  <2>1. BestOf(found, Acceptable(profile), 2)
    BY <1>0, <1>1 DEF SearchNothing, ProgressInv, BestOf, Acceptable
  <2> QED
    BY <1>0, <1>1, <1>r, <1>a, <2>1 DEF SearchNothing, PoleType, ProgressInv, ProfileInv,
       OutcomeInv, HypsInv
<1>2. CASE SearchNarrow
  <2>1. BestOf(found', Candidates(profile, "narrow"), 1) /\ found' \in Axis \cup {Nothing}
    BY <1>2, FindsBest DEF SearchNarrow
  <2>2. step' = "decide" => BestOf(found', Acceptable(profile), 2)
    <3>1. CASE GoodEnough(found')
      BY <1>2, <2>1, <3>1, GoodIsBest, CandidatesAreAxes DEF SearchNarrow, Acceptable
    <3>2. CASE ~more
      BY <1>2, <2>1, <3>2, MoreSlack, CandidatesAreAxes DEF SearchNarrow, Acceptable
    <3> QED BY <1>2, <3>1, <3>2 DEF SearchNarrow
  <2>3. HypsInv'
    BY <1>0, <1>2, HypothesesKept DEF SearchNarrow
  <2> QED
    BY <1>0, <1>2, <1>r, <1>a, <2>1, <2>2, <2>3 DEF SearchNarrow, PoleType, ProgressInv,
       ProfileInv, OutcomeInv
<1>3. CASE SearchExpanded
  <2>1. PICK a \in Finds(profile, "expanded") :
          found' \in IF {a, found} \subseteq Axis THEN Select({a, found})
                     ELSE IF a = Nothing THEN {found} ELSE {a}
    BY <1>3 DEF SearchExpanded
  <2>2. BestOf(a, Candidates(profile, "expanded"), 1)
        /\ BestOf(found, Candidates(profile, "narrow"), 1)
    BY <1>0, <1>3, FindsBest DEF SearchExpanded, ProgressInv
  <2>3. BestOf(found', Acceptable(profile), 2)
    BY <1>0, <1>3, <2>1, <2>2, BetterOfTwo, CandidatesAreAxes DEF SearchExpanded,
       Acceptable, ProgressInv
  <2>4. found' \in Axis \cup {Nothing}
    <3>1. Acceptable(profile) \subseteq Axis BY CandidatesAreAxes DEF Acceptable
    <3> QED BY <2>3, <3>1 DEF BestOf
  <2>5. HypsInv'
    BY <1>0, <1>3, HypothesesKept DEF SearchExpanded
  <2> QED
    BY <1>0, <1>3, <1>r, <1>a, <2>3, <2>4, <2>5 DEF SearchExpanded, PoleType, ProgressInv,
       ProfileInv, OutcomeInv
<1>4. CASE Widen
  BY <1>0, <1>4, <1>r, <1>a DEF Widen, PoleType, ProgressInv, ProfileInv, OutcomeInv, HypsInv
<1>5. CASE Conclude
  <2>1. /\ UNCHANGED <<policy, shape, empty, more, profile, found, kept, hyps>>
        /\ step = "decide" /\ step' = "done" /\ outcome = NotYet
    BY <1>0, <1>5 DEF Conclude, OutcomeInv
  <2>2. \/ /\ outcome' = NotYet /\ found = Nothing /\ kept = Nothing
           /\ profile = "wide" \/ ~policy.wider
        \/ /\ outcome' = Report(found, TRUE) /\ found # Nothing /\ profile = "wide"
           /\ kept # Nothing => CrossRank(found) <= CrossRank(kept)
        \/ /\ outcome' = Report(found, FALSE) /\ found # Nothing /\ profile = "strict"
        \/ /\ outcome' = Report(kept, FALSE) /\ kept # Nothing /\ profile = "wide"
    <3>1. CASE profile = "strict"
      BY <1>0, <1>5, <2>1, <3>1 DEF Conclude, ProfileInv, Automatic
    <3>2. CASE profile = "wide" /\ kept = Nothing
      BY <1>5, <2>1, <3>2 DEF Conclude
    <3>3. CASE profile = "wide" /\ kept # Nothing
      <4>1. PICK a \in IF found = Nothing THEN {kept} ELSE SelectAcross({kept, found}),
                 wide \in BOOLEAN :
              a = (IF wide THEN found ELSE kept) /\ outcome' = Report(a, wide)
        BY <1>5, <3>3 DEF Conclude
      <4>2. CASE ~wide BY <3>3, <4>1, <4>2
      <4>3. CASE wide
        <5>1. found # Nothing
          BY <3>3, <4>1, <4>3
        <5>2. found \in SelectAcross({kept, found})
          BY <4>1, <4>3, <5>1
        <5>3. CrossRank(found) <= CrossRank(kept)
          BY <5>2 DEF SelectAcross, Chosen, Best, Flip
        <5> QED BY <3>3, <4>1, <4>3, <5>1, <5>3
      <4> QED BY <4>2, <4>3
    <3> QED BY <1>0, <3>1, <3>2, <3>3 DEF PoleType
  <2>3. OutcomeInv'
    BY <2>1, <2>2, <1>r DEF OutcomeInv
  <2> QED
    BY <1>0, <1>r, <1>a, <2>1, <2>3 DEF PoleType, ProgressInv, ProfileInv, HypsInv
<1>6. CASE UNCHANGED poleVars
  BY <1>0, <1>r, <1>a, <1>6 DEF poleVars, PoleType, ProgressInv, ProfileInv, OutcomeInv, HypsInv
<1> QED BY <1>1, <1>2, <1>3, <1>4, <1>5, <1>6 DEF PoleNext

\* Every state of the search for the pole of a sign, under any settings and with
\* whatever the points tell of the axes, satisfies the invariant
\* (extract_pole_for_detection).
THEOREM SearchInvariance == PoleSpec => []SearchInv
<1>1. PoleInit => SearchInv
  BY DEF PoleInit, SearchInv, PoleType, ProgressInv, ProfileInv, OutcomeInv, HypsInv
<1> QED BY <1>1, SearchStep, PTL DEF PoleSpec

\* Every candidate is within the bounds and tied to the sign, and stands up to the ground.
LEMMA CandidateFacts ==
    ASSUME PoleType, NEW a \in Acceptable("strict")
    PROVE  /\ a \in Axis /\ shape[a].far <= StrictReach
           /\ Direct(a) \/ shape[a].arm = "arm"
           /\ ~Direct(a) /\ ~policy.classified => ~shape[a].noisy
BY DEF Acceptable, Candidates, Examined, Armed, Reach

\* extract_pole_for_detection reports a pole when there is one, of the best kind and, if
\* remote, within two metres of the nearest of that kind, and as no better than it is.
THEOREM SearchSafety == PoleSpec => []SearchSound
<1>1. SearchInv => SearchSound
  <2> SUFFICES ASSUME SearchInv PROVE SearchSound
    OBVIOUS
  <2>0. PoleType /\ ProgressInv /\ ProfileInv /\ OutcomeInv /\ HypsInv
    BY DEF SearchInv
  <2>1. CASE outcome = NotYet
    <3>1. step = "done" => found = Nothing /\ kept = Nothing /\ (profile = "wide" \/ ~policy.wider)
      BY <2>0, <2>1, NothingIsNoAxis DEF OutcomeInv, NotYet, Report
    <3>2. step = "done" => StrictCandidates = {} /\ (policy.wider => Acceptable("wide") = {})
      BY <2>0, <3>1 DEF ProgressInv, ProfileInv, BestOf, PoleType, StrictCandidates
    <3>3. NothingMissed
      BY <3>2 DEF NothingMissed, SearchEnded, Acceptable
    <3>4. outcome.axis \notin hyps
      BY <2>0, <2>1, NothingIsNoAxis DEF HypsInv, NotYet
    <3> QED
      BY <2>0, <2>1, <3>3, <3>4 DEF SearchSound, AutoIsProven, WidenedWithCare, NoBetterStrict,
         HypothesesRejected, HypsInv, NotYet
  <2>2. CASE step = "done" /\ outcome = Report(found, TRUE) /\ found # Nothing
             /\ profile = "wide" /\ (kept # Nothing => CrossRank(found) <= CrossRank(kept))
    <3>1. outcome.found /\ outcome.wide /\ outcome.status = "REVIEW" /\ outcome.axis = found
      BY <2>2 DEF Report
    <3>2. WidenedWithCare
      BY <2>0, <2>2, <3>1, Ranks DEF WidenedWithCare, ProfileInv
    <3> QED
      BY <2>0, <3>1, <3>2 DEF SearchSound, AutoIsProven, NoBetterStrict, NothingMissed,
         HypothesesRejected, HypsInv
  <2>3. ASSUME NEW a \in Axis, outcome = Report(a, FALSE), BestOf(a, Acceptable("strict"), 2)
        PROVE  SearchSound
    <3>1. outcome.found /\ ~outcome.wide /\ outcome.status = StatusOf(a) /\ outcome.axis = a
      BY <2>3 DEF Report
    <3>2. a \in Acceptable("strict")
      BY <2>3, NothingIsNoAxis DEF BestOf
    <3>3. AutoIsProven
      BY <2>0, <3>1, <3>2, CandidateFacts DEF AutoIsProven, StatusOf, Complete, Direct
    <3>4. NoBetterStrict
      BY <2>3, <3>1, NothingIsNoAxis DEF NoBetterStrict, BestOf, StrictCandidates
    <3>5. HypothesesRejected
      BY <2>0, <3>1, <3>2, CandidateFacts DEF HypothesesRejected, HypsInv
    <3> QED
      BY <3>1, <3>3, <3>4, <3>5 DEF SearchSound, WidenedWithCare, NothingMissed
  <2>4. CASE step = "done" /\ outcome = Report(found, FALSE) /\ found # Nothing /\ profile = "strict"
    BY <2>0, <2>3, <2>4 DEF ProgressInv, PoleType
  <2>5. CASE step = "done" /\ outcome = Report(kept, FALSE) /\ kept # Nothing /\ profile = "wide"
    BY <2>0, <2>3, <2>5 DEF ProfileInv, PoleType
  <2> QED BY <2>0, <2>1, <2>2, <2>4, <2>5 DEF OutcomeInv
<1> QED BY <1>1, SearchInvariance, PTL

-------------------------------------------------------------------------------
(* The collapse of sightings. *)

LEMMA GapFacts ==
    ASSUME NEW x \in Nat, NEW y \in Nat
    PROVE  Gap(x, y) \in Nat /\ Gap(x, y) = Gap(y, x) /\ Gap(x, x) = 0
BY DEF Gap

\* Two components that share an element are one.
LEMMA ComponentsApart ==
    ASSUME NEW S, NEW near, NEW c \in Components(S, near), NEW k \in Components(S, near),
           NEW d, d \in c, d \in k
    PROVE  c = k
<1> DEFINE Linked(w) == \A t \in (SUBSET w) \ {{}, w} : \E a \in t : near[a] \cap (w \ t) # {}
<1>1. /\ Linked(c) /\ Linked(k)
      /\ \A a \in c : near[a] \subseteq c
      /\ \A a \in k : near[a] \subseteq k
  BY DEF Components
<1>2. ASSUME NEW u, NEW w, Linked(u), d \in u, d \in w, \A a \in w : near[a] \subseteq w
      PROVE  u \subseteq w
  <2>1. SUFFICES ASSUME u \cap w # u PROVE FALSE
    OBVIOUS
  <2>2. u \cap w \in (SUBSET u) \ {{}, u}
    BY <1>2, <2>1
  <2>3. PICK a \in u \cap w : near[a] \cap (u \ (u \cap w)) # {}
    BY <1>2, <2>2
  <2> QED BY <1>2, <2>3
<1> HIDE DEF Linked
<1>3. c \subseteq k /\ k \subseteq c
  BY <1>1, <1>2
<1> QED BY <1>3

\* A cluster holds what was found, and what lies near a member.
LEMMA ClusterFacts ==
    ASSUME NEW o, NEW radius, NEW c \in Clusters(o, radius)
    PROVE  /\ c # {} /\ c \subseteq Sighting /\ \A d \in c : o[d] # NoPole
           /\ \A d \in c : \A e \in Sighting :
                o[e] # NoPole /\ Gap(o[d].pole, o[e].pole) <= radius => e \in c
           /\ \A k \in Clusters(o, radius) : \A d \in c : d \in k => c = k
<1> DEFINE there == {d \in Sighting : o[d] # NoPole}
           near == [a \in there |-> {b \in there : Gap(o[a].pole, o[b].pole) <= radius}]
<1>1. Clusters(o, radius) = Components(there, near)
  BY DEF Clusters
<1>2. c \in (SUBSET there) \ {{}} /\ \A a \in c : near[a] \subseteq c
  BY <1>1 DEF Components
<1>3. \A k \in Clusters(o, radius) : \A d \in c : d \in k => c = k
  BY <1>1, ComponentsApart
<1>4. ASSUME NEW d \in c, NEW e \in Sighting,
             o[e] # NoPole, Gap(o[d].pole, o[e].pole) <= radius
      PROVE  e \in c
  <2>1. d \in there /\ e \in there
    BY <1>2, <1>4
  <2>2. e \in near[d]
    BY <1>4, <2>1
  <2> QED BY <1>2, <2>2
<1>5. c # {} /\ c \subseteq Sighting /\ \A d \in c : o[d] # NoPole
  <2>1. c \in (SUBSET there) \ {{}} BY <1>1 DEF Components
  <2>2. there \subseteq Sighting /\ \A d \in there : o[d] # NoPole OBVIOUS
  <2> HIDE DEF there, near
  <2>3. c \subseteq there /\ c # {} BY <2>1
  <2> QED BY <2>2, <2>3
<1> QED BY <1>3, <1>4, <1>5

\* The members u count for the summary, those in keep agree, and x stands for them.
Summarised(o, c, agg, u, keep, x) ==
    /\ agg.pole = o[x].pole /\ agg.obs = Cardinality(u) /\ agg.clean = (keep = u)
    /\ agg.status \in {"AUTO", "REVIEW"}
    /\ \A f \in {FrameOf[y] : y \in c} : Cardinality({y \in u : FrameOf[y] = f}) = 1
    /\ agg.status = "AUTO" => keep = u /\ \A e \in u : o[e].status = "AUTO"

\* What a cluster is summarised to comes from its members, one of each image.
LEMMA AggregateFacts ==
    ASSUME NEW o, NEW c, NEW agg \in Aggregates(o, c)
    PROVE  \E u \in SUBSET c : \E keep \in SUBSET u : \E x \in keep :
             Summarised(o, c, agg, u, keep, x)
<1>1. PICK u \in OnePerFrame(c) : \E keep \in Consensus(o, u) :
        \E d \in keep :
           agg = [pole |-> o[d].pole, obs |-> Cardinality(u), clean |-> keep = u,
                  status |-> IF /\ \A e \in keep : o[e].status = "AUTO"
                                /\ \A e, g \in c : o[e].type = o[g].type
                                /\ keep = u
                             THEN "AUTO" ELSE "REVIEW"]
  BY DEF Aggregates
<1>2. PICK keep \in Consensus(o, u) : \E d \in keep :
           agg = [pole |-> o[d].pole, obs |-> Cardinality(u), clean |-> keep = u,
                  status |-> IF /\ \A e \in keep : o[e].status = "AUTO"
                                /\ \A e, g \in c : o[e].type = o[g].type
                                /\ keep = u
                             THEN "AUTO" ELSE "REVIEW"]
  BY <1>1
<1>3. PICK d \in keep :
           agg = [pole |-> o[d].pole, obs |-> Cardinality(u), clean |-> keep = u,
                  status |-> IF /\ \A e \in keep : o[e].status = "AUTO"
                                /\ \A e, g \in c : o[e].type = o[g].type
                                /\ keep = u
                             THEN "AUTO" ELSE "REVIEW"]
  BY <1>2
<1>4. u \in SUBSET c
      /\ \A f \in {FrameOf[x] : x \in c} : Cardinality({x \in u : FrameOf[x] = f}) = 1
  BY DEF OnePerFrame
<1>5. keep \in SUBSET u
  <2> DEFINE valid == {x \in u : o[x].valid}
             seed == IF Cardinality(valid) >= 2 THEN valid ELSE u
             near(s, reach) == {x \in valid : Gap(o[x].pole, o[s].pole) <= reach}
  <2>1. PICK s \in seed, reach \in Reaches :
          keep = IF near(s, reach) = {} THEN seed ELSE near(s, reach)
    BY <1>2 DEF Consensus
  <2> QED BY <2>1
<1>6. /\ agg.pole = o[d].pole /\ agg.obs = Cardinality(u) /\ agg.clean = (keep = u)
      /\ agg.status \in {"AUTO", "REVIEW"}
      /\ agg.status = "AUTO" => keep = u /\ \A e \in keep : o[e].status = "AUTO"
  BY <1>3
<1>7. Summarised(o, c, agg, u, keep, d)
  BY <1>4, <1>6 DEF Summarised
<1> QED BY <1>3, <1>4, <1>5, <1>7

LEMMA AggregateOfMember ==
    ASSUME NEW o, NEW c, NEW agg \in Aggregates(o, c)
    PROVE  \E d \in c : agg.pole = o[d].pole
<1>1. PICK u \in SUBSET c, keep \in SUBSET c, x \in c : Summarised(o, c, agg, u, keep, x)
  BY AggregateFacts
<1> QED BY <1>1 DEF Summarised

\* One image of a cluster has one observation in it.
LEMMA OneOfFrame ==
    ASSUME NEW u, NEW f, Cardinality({x \in u : FrameOf[x] = f}) = 1
    PROVE  \E e \in u : FrameOf[e] = f
<1>1. {x \in u : FrameOf[x] = f} # {}
  BY FS_EmptySet
<1> QED BY <1>1

LEMMA Numbers ==
    ASSUME MergeType
    PROVE  /\ \A d \in Sighting : look[d].x \in Nat /\ look[d].status \in {"AUTO", "REVIEW"}
           /\ \A d \in Sighting : look[d].pole # NoPole => look[d].pole \in Nat
           /\ \A d \in Sighting : obs[d] # NoPole => obs[d] \in Observations
           /\ \A d \in Sighting : rows[d] # NoPole => rows[d] \in PoleRows
<1>1. \A d \in Sighting :
        look[d] \in [x : Nat, pole : Nat \cup {NoPole}, status : {"AUTO", "REVIEW"},
                     type : {"SINGLE", "ARM"}, valid : BOOLEAN, hyps : SUBSET Nat]
  BY LooksAreLooks DEF MergeType
<1> QED BY <1>1 DEF MergeType

LEMMA MergeStart == ASSUME MergeInit PROVE MergeInv
<1>1. look \in [Sighting -> Looks] /\ obs \in [Sighting -> Observations \cup {NoPole}]
  <2>1. look \in [Sighting -> Looks] BY DEF MergeInit
  <2>2. ASSUME NEW d \in Sighting
        PROVE  obs[d] \in Observations \cup {NoPole}
    <3>1. look[d] \in [x : Nat, pole : Nat \cup {NoPole}, status : {"AUTO", "REVIEW"},
                     type : {"SINGLE", "ARM"}, valid : BOOLEAN, hyps : SUBSET Nat]
      BY <2>1, LooksAreLooks
    <3>2. obs[d] = IF look[d].pole = NoPole THEN NoPole
                   ELSE [pole |-> look[d].pole, status |-> look[d].status,
                      type |-> look[d].type, valid |-> look[d].valid, inferred |-> FALSE]
      BY DEF MergeInit
    <3> QED BY <3>1, <3>2 DEF Observations
  <2>3. obs = [d \in Sighting |-> obs[d]] BY DEF MergeInit
  <2> QED BY <2>1, <2>2, <2>3
<1>2. MergeType
  BY <1>1 DEF MergeInit, MergeType
<1>3. ObservedInv
  <2>1. ASSUME NEW d \in Sighting
        PROVE  /\ look[d].pole = NoPole => obs[d] = NoPole
               /\ look[d].pole # NoPole =>
                    /\ obs[d] # NoPole /\ ~obs[d].inferred
                    /\ obs[d].pole = look[d].pole /\ obs[d].status = look[d].status
    <3>1. look[d] \in [x : Nat, pole : Nat \cup {NoPole}, status : {"AUTO", "REVIEW"},
                     type : {"SINGLE", "ARM"}, valid : BOOLEAN, hyps : SUBSET Nat]
      BY <1>1, LooksAreLooks
    <3>2. obs[d] = IF look[d].pole = NoPole THEN NoPole
                   ELSE [pole |-> look[d].pole, status |-> look[d].status,
                      type |-> look[d].type, valid |-> look[d].valid, inferred |-> FALSE]
      BY DEF MergeInit
    <3>3. look[d].pole # NoPole => obs[d] \in Observations
      BY <3>1, <3>2 DEF Observations
    <3>4. CASE look[d].pole # NoPole
      <4>1. obs[d] = [pole |-> look[d].pole, status |-> look[d].status,
                      type |-> look[d].type, valid |-> look[d].valid, inferred |-> FALSE]
        BY <3>2, <3>4
      <4>2. /\ ~obs[d].inferred
            /\ obs[d].pole = look[d].pole /\ obs[d].status = look[d].status
        BY <4>1
      <4> QED BY <3>3, <3>4, <4>2, NoPoleIsNone
    <3> QED BY <3>2, <3>4
  <2> QED BY <2>1 DEF ObservedInv, MergeInit
<1> QED BY <1>2, <1>3 DEF MergeInv, MergeInit, SupportInv, GroupInv, ExportInv, Done

\* Nothing changes for the invariants on what has not moved.
LEMMA SeenStays ==
    ASSUME NEW e, NEW p, SeenThere(e, p), look' = look, obs'[e] = obs[e]
    PROVE  SeenThere(e, p)'
BY DEF SeenThere, IsDirect

LEMMA FindAnchorsKeeps == ASSUME MergeInv, FindAnchors PROVE MergeInv'
<1>0. MergeType /\ ObservedInv /\ UNCHANGED <<look, obs, rows, remote, groups, signs, poles>>
      /\ phase = "anchors" /\ phase' = "remote"
  BY DEF MergeInv, FindAnchors
<1>1. ASSUME NEW a \in anchors'
      PROVE  \E e \in Sighting : SeenThere(e, a.pole)
  <2> DEFINE direct == [d \in Sighting |->
                         IF IsDirect(d) /\ obs[d].status = "AUTO" THEN obs[d] ELSE NoPole]
             comps == Clusters(direct, AnchorRadius)
  <2>1. PICK agg \in [comps -> UNION {Aggregates(direct, c) : c \in comps}] :
             /\ \A c \in comps : agg[c] \in Aggregates(direct, c)
             /\ anchors' = {[pole |-> agg[c].pole, rows |-> {Row[d] : d \in c}] :
                   c \in {k \in comps :
                            /\ agg[k].status = "AUTO"
                            /\ agg[k].obs >= 2
                            /\ Cardinality({Row[d] : d \in k}) >= 2
                            /\ \A d, e \in k :
                                   Gap(direct[d].pole, direct[e].pole) <= AnchorRadius}}
    BY DEF FindAnchors
  <2>2. PICK c \in comps : a = [pole |-> agg[c].pole, rows |-> {Row[d] : d \in c}]
    BY <2>1
  <2>3. PICK d \in c : agg[c].pole = direct[d].pole
    <3>1. agg[c] \in Aggregates(direct, c) BY <2>1
    <3> HIDE DEF direct
    <3> QED BY <3>1, AggregateOfMember
  <2>4. d \in Sighting /\ direct[d] # NoPole
    BY ClusterFacts
  <2>5. IsDirect(d) /\ obs[d].status = "AUTO" /\ direct[d] = obs[d] /\ obs[d] # NoPole
    BY <2>4
  <2>6. ~obs[d].inferred
    BY <1>0, <2>4, <2>5 DEF ObservedInv
  <2> QED BY <2>2, <2>3, <2>4, <2>5, <2>6 DEF SeenThere
<1>2. MergeType'
  BY <1>0 DEF MergeType
<1>3. ObservedInv'
  BY <1>0, <1>1 DEF ObservedInv, SeenThere, IsDirect
<1>4. SupportInv'
  BY <1>0, <1>2 DEF SupportInv, MergeType
<1> QED BY <1>0, <1>2, <1>3, <1>4 DEF MergeInv, GroupInv, ExportInv, Done

\* An automatic summary has an automatic member in each image of the cluster.
LEMMA AutoInFrame ==
    ASSUME NEW o, NEW c, NEW agg \in Aggregates(o, c), agg.status = "AUTO", NEW d \in c
    PROVE  \E e \in c : FrameOf[e] = FrameOf[d] /\ o[e].status = "AUTO"
<1>1. PICK u \in SUBSET c, keep \in SUBSET c, x \in c : Summarised(o, c, agg, u, keep, x)
  BY AggregateFacts
<1>2. Cardinality({y \in u : FrameOf[y] = FrameOf[d]}) = 1 /\ \A e \in u : o[e].status = "AUTO"
  BY <1>1 DEF Summarised
<1>3. PICK e \in u : FrameOf[e] = FrameOf[d]
  BY <1>2, OneOfFrame
<1> QED BY <1>2, <1>3

LEMMA ReconcileRemoteKeeps ==
    ASSUME MergeInv, NEW d \in Sighting, ReconcileRemote(d) PROVE MergeInv'
<1>0. MergeType /\ ObservedInv /\ phase = "remote" /\ phase' = "remote"
      /\ UNCHANGED <<look, rows, anchors>>
  BY DEF MergeInv, ReconcileRemote
<1>1. MergeType' /\ ObservedInv'
  <2>1. CASE UNCHANGED obs
    BY <1>0, <2>1 DEF MergeType, ObservedInv, SeenThere, IsDirect
  <2>2. CASE \E a \in Matches(d) :
            /\ MayInfer(d)
            /\ obs' = [obs EXCEPT ![d] =
                   [pole |-> a.pole, status |-> "REVIEW", type |-> "SINGLE",
                    valid |-> TRUE, inferred |-> TRUE]]
    <3>1. PICK a \in anchors :
            /\ MayInfer(d)
            /\ obs' = [obs EXCEPT ![d] =
                   [pole |-> a.pole, status |-> "REVIEW", type |-> "SINGLE",
                    valid |-> TRUE, inferred |-> TRUE]]
      BY <2>2 DEF Matches
    <3>2. /\ obs'[d] = [pole |-> a.pole, status |-> "REVIEW", type |-> "SINGLE",
                        valid |-> TRUE, inferred |-> TRUE]
          /\ \A e \in Sighting \ {d} : obs'[e] = obs[e]
      BY <1>0, <3>1 DEF MergeType
    <3>3. ASSUME NEW e \in Sighting, NEW p, SeenThere(e, p)
          PROVE  SeenThere(e, p)'
      <4>1. e # d BY <3>1, <3>3 DEF SeenThere, MayInfer
      <4> QED BY <1>0, <3>2, <3>3, <4>1, SeenStays
    <3>4. PICK e \in Sighting : SeenThere(e, a.pole)
      BY <1>0 DEF ObservedInv
    <3>5. a.pole \in Nat /\ obs'[d] \in Observations
      BY <1>0, <3>2, <3>4, Numbers DEF SeenThere, Observations
    <3>6. MergeType'
      <4>1. obs' \in [Sighting -> Observations \cup {NoPole}]
        <5>1. \A x \in Sighting : obs'[x] \in Observations \cup {NoPole}
          BY <1>0, <3>2, <3>5 DEF MergeType
        <5>2. obs' = [x \in Sighting |-> obs'[x]]
          BY <1>0, <3>1 DEF MergeType
        <5> QED BY <5>1, <5>2
      <4> QED BY <1>0, <4>1 DEF MergeType
    <3>7. look[d].pole # NoPole =>
            look[d].status = "REVIEW" /\ Gap(look[d].x, look[d].pole) > DirectDistance
      <4>1. HAVE look[d].pole # NoPole
      <4>2. obs[d] # NoPole /\ ~IsDirect(d) /\ obs[d].status = "REVIEW"
        BY <1>0, <3>1, <4>1 DEF ObservedInv, MayInfer
      <4>3. CASE obs[d].inferred
        BY <1>0, <4>1, <4>2, <4>3 DEF ObservedInv
      <4>4. CASE ~obs[d].inferred
        <5>1. obs[d].pole = look[d].pole /\ look[d].status = "REVIEW"
          BY <1>0, <4>2, <4>4 DEF ObservedInv
        <5>2. ~(Gap(look[d].x, look[d].pole) <= DirectDistance)
          BY <4>2, <5>1 DEF IsDirect
        <5>3. Gap(look[d].x, look[d].pole) \in Nat /\ DirectDistance \in Nat
          BY <1>0, <4>1, Numbers, GapFacts, RadiiAreOrdered
        <5> QED BY <5>1, <5>2, <5>3
      <4> QED BY <4>3, <4>4
    <3>8. ASSUME NEW x \in Sighting, obs'[x] # NoPole, obs'[x].inferred
          PROVE  /\ obs'[x].status = "REVIEW"
                 /\ \E p : p = obs'[x].pole /\ \E y \in Sighting : SeenThere(y, p)'
                 /\ look[x].pole # NoPole =>
                       look[x].status = "REVIEW" /\ Gap(look[x].x, look[x].pole) > DirectDistance
      <4>1. CASE x = d
        <5>1. obs'[x].status = "REVIEW" /\ obs'[x].pole = a.pole BY <3>2, <4>1
        <5> QED BY <3>3, <3>4, <3>7, <4>1, <5>1
      <4>2. CASE x # d
        <5>1. obs'[x] = obs[x] BY <3>2, <4>2
        <5>2. /\ obs[x].status = "REVIEW"
              /\ look[x].pole # NoPole =>
                    look[x].status = "REVIEW" /\ Gap(look[x].x, look[x].pole) > DirectDistance
          BY <1>0, <3>8, <5>1 DEF ObservedInv
        <5>3. PICK p : p = obs[x].pole /\ \E y \in Sighting : SeenThere(y, p)
          BY <1>0, <3>8, <5>1 DEF ObservedInv
        <5> QED BY <3>3, <5>1, <5>2, <5>3
      <4> QED BY <4>1, <4>2
    <3>9. \A x \in Sighting :
            /\ look[x].pole # NoPole => obs'[x] # NoPole
            /\ obs'[x] # NoPole /\ ~obs'[x].inferred =>
                  obs'[x].pole = look[x].pole /\ obs'[x].status = look[x].status
      <4>1. obs'[d] # NoPole /\ obs'[d].inferred
        <5>1. obs'[d].inferred = TRUE BY <3>2
        <5> QED BY <5>1, <3>5, NoPoleIsNone
      <4> QED BY <1>0, <3>2, <4>1 DEF ObservedInv
    <3>10. \A b \in anchors : \E y \in Sighting : SeenThere(y, b.pole)'
      BY <1>0, <3>3 DEF ObservedInv
    <3> QED BY <1>0, <3>6, <3>8, <3>9, <3>10 DEF ObservedInv
  <2> QED BY <2>1, <2>2 DEF ReconcileRemote
<1>2. SupportInv' /\ GroupInv' /\ ExportInv'
  BY <1>0 DEF SupportInv, GroupInv, ExportInv, Done, MergeType
<1> QED BY <1>1, <1>2 DEF MergeInv

\* A clustered observation: what the members of one cluster get.
LEMMA ClusterPolesKeeps == ASSUME MergeInv, ClusterPoles PROVE MergeInv'
<1>0. MergeType /\ ObservedInv /\ phase = "remote" /\ phase' = "arms"
      /\ UNCHANGED <<look, obs, anchors>>
  BY DEF MergeInv, ClusterPoles
<1> DEFINE comps == Clusters(obs, MergeRadius)
<1>1. PICK agg \in [comps -> UNION {Aggregates(obs, c) : c \in comps}] :
          /\ \A c \in comps : agg[c] \in Aggregates(obs, c)
          /\ rows' = [d \in Sighting |->
                IF \E c \in comps : d \in c /\ agg[c].obs >= PoleMinObservations
                THEN LET c == CHOOSE k \in comps : d \in k IN
                     [pole |-> agg[c].pole, support |-> c, obs |-> agg[c].obs,
                      clean |-> agg[c].clean, inferred |-> obs[d].inferred,
                      status |-> RowStatus(obs, c, agg[c], d)]
                ELSE NoPole]
  BY DEF ClusterPoles
<1> DEFINE big(c) == agg[c].obs >= PoleMinObservations
           row(d, c) == [pole |-> agg[c].pole, support |-> c, obs |-> agg[c].obs,
                      clean |-> agg[c].clean, inferred |-> obs[d].inferred,
                      status |-> RowStatus(obs, c, agg[c], d)]
<1>2. ASSUME NEW c \in comps
      PROVE  /\ c # {} /\ c \subseteq Sighting /\ \A d \in c : obs[d] # NoPole
             /\ \A k \in comps : \A d \in c : d \in k => c = k
             /\ \A d \in c : \A e \in Sighting :
                  obs[e] # NoPole /\ Gap(obs[d].pole, obs[e].pole) <= MergeRadius => e \in c
  BY ClusterFacts
<1> HIDE DEF comps
<1>3. ASSUME NEW c \in comps, NEW d \in c
      PROVE  rows'[d] = IF big(c) THEN row(d, c) ELSE NoPole
  <2>1. (CHOOSE k \in comps : d \in k) = c
    BY <1>2, <1>3
  <2>2. (\E k \in comps : d \in k /\ agg[k].obs >= PoleMinObservations) <=> big(c)
    BY <1>2, <1>3
  <2>3. d \in Sighting BY <1>2
  <2> QED BY <1>1, <2>1, <2>2, <2>3
<1>4. ASSUME NEW d \in Sighting, \A c \in comps : d \notin c
      PROVE  rows'[d] = NoPole
  BY <1>1, <1>4
<1>5. ASSUME NEW c \in comps, NEW d \in c
      PROVE  row(d, c) \in PoleRows
  <2>1. agg[c] \in Aggregates(obs, c) BY <1>1
  <2>2. PICK u \in SUBSET c, keep \in SUBSET c, x \in c : Summarised(obs, c, agg[c], u, keep, x)
    BY <2>1, AggregateFacts
  <2>3. Cardinality(u) \in Nat
    <3>1. u \subseteq Sighting BY <1>2
    <3> QED BY <3>1, SightingsAreFinite, FS_Subset, FS_CardinalityType
  <2>4. agg[c].pole \in Nat
    BY <1>0, <1>2, <2>2, Numbers DEF Observations, Summarised
  <2>5. agg[c].clean \in BOOLEAN /\ agg[c].status \in {"AUTO", "REVIEW"}
    BY <2>2 DEF Summarised
  <2>6. obs[d] \in Observations /\ obs[d].inferred \in BOOLEAN /\ obs[d].status \in {"AUTO", "REVIEW"}
    BY <1>0, <1>2, Numbers DEF Observations
  <2>7. RowStatus(obs, c, agg[c], d) \in {"AUTO", "REVIEW"}
    BY <2>5, <2>6 DEF RowStatus
  <2>8. agg[c].obs \in Nat /\ c \in SUBSET Sighting
    BY <1>2, <2>2, <2>3 DEF Summarised
  <2> QED BY <2>4, <2>5, <2>6, <2>7, <2>8 DEF PoleRows
<1>r. ASSUME NEW c, NEW d
      PROVE  /\ row(d, c).support = c
             /\ row(d, c).inferred = obs[d].inferred
             /\ row(d, c).status = RowStatus(obs, c, agg[c], d)
  OBVIOUS
<1> HIDE DEF big, row
<1>6. MergeType'
  <2>1. \A d \in Sighting : rows'[d] \in PoleRows \cup {NoPole}
    BY <1>3, <1>4, <1>5
  <2>2. rows' = [d \in Sighting |-> rows'[d]]
    BY <1>1
  <2> QED BY <1>0, <2>1, <2>2 DEF MergeType
<1>7. ObservedInv'
  BY <1>0 DEF ObservedInv, SeenThere, IsDirect
<1>8. SupportInv'
  <2> SUFFICES ASSUME NEW d \in Sighting, rows'[d] # NoPole
      PROVE
        /\ rows'[d].support # {}
        /\ \A e \in rows'[d].support :
              rows'[e] # NoPole /\ rows'[e].support = rows'[d].support
        /\ \E e \in rows'[d].support : ~obs[e].inferred
        /\ d \notin rows'[d].support => rows'[d].status = "REVIEW" /\ rows'[d].inferred
        /\ d \in rows'[d].support =>
              /\ rows'[d].status = "AUTO" =>
                    /\ ~rows'[d].inferred
                    /\ \E e \in rows'[d].support :
                          FrameOf[e] = FrameOf[d] /\ ~obs[e].inferred /\ obs[e].status = "AUTO"
              /\ (\E e \in rows'[d].support : obs[e].inferred) /\ ~obs[d].inferred =>
                    rows'[d].status = obs[d].status
    BY <1>0 DEF SupportInv
  <2>1. PICK c \in comps : d \in c
    BY <1>4
  <2>2. big(c) /\ \A e \in c : rows'[e] = row(e, c) /\ rows'[e] # NoPole
    BY <1>3, <1>5, <2>1, NoPoleIsNone
  <2>3. \A e \in c : rows'[e].support = c
    BY <2>2, <1>r
  <2>4. rows'[d].support = c /\ (rows'[d].inferred <=> obs[d].inferred)
        /\ rows'[d].status = RowStatus(obs, c, agg[c], d)
    BY <2>1, <2>2, <1>r
  <2>5. \E e \in c : ~obs[e].inferred
    <3>1. CASE ~obs[d].inferred
      BY <2>1, <3>1
    <3>2. CASE obs[d].inferred
      <4>1. obs[d] # NoPole BY <1>2, <2>1
      <4>2. PICK e \in Sighting : SeenThere(e, obs[d].pole)
        BY <1>0, <3>2, <4>1 DEF ObservedInv
      <4>3. Gap(obs[d].pole, obs[e].pole) <= MergeRadius
        <5>1. obs[d].pole \in Nat /\ obs[e].pole = obs[d].pole
          BY <1>0, <4>1, <4>2, Numbers DEF SeenThere, Observations
        <5>2. Gap(obs[d].pole, obs[e].pole) = 0
          BY <5>1, GapFacts
        <5> QED BY <5>2, RadiiAreOrdered
      <4>4. e \in c
        BY <1>2, <2>1, <4>2, <4>3 DEF SeenThere
      <4> QED BY <4>2, <4>4 DEF SeenThere
    <3> QED BY <3>1, <3>2
  <2>6. ASSUME rows'[d].status = "AUTO"
        PROVE  /\ ~obs[d].inferred
               /\ \E e \in c :
                    FrameOf[e] = FrameOf[d] /\ ~obs[e].inferred /\ obs[e].status = "AUTO"
    <3>1. ~obs[d].inferred
      BY <2>4, <2>6 DEF RowStatus
    <3>2. CASE \E e \in c : obs[e].inferred
      BY <2>1, <2>4, <2>6, <3>1, <3>2 DEF RowStatus
    <3>3. CASE ~\E e \in c : obs[e].inferred
      <4>1. agg[c].status = "AUTO" /\ agg[c] \in Aggregates(obs, c)
        BY <1>1, <2>1, <2>4, <2>6, <3>1, <3>3 DEF RowStatus
      <4>2. PICK e \in c : FrameOf[e] = FrameOf[d] /\ obs[e].status = "AUTO"
        BY <2>1, <4>1, AutoInFrame
      <4> QED BY <3>1, <3>3, <4>2
    <3> QED BY <3>2, <3>3
  <2>7. (\E e \in c : obs[e].inferred) /\ ~obs[d].inferred => rows'[d].status = obs[d].status
    BY <2>4 DEF RowStatus
  <2> QED BY <1>2, <2>1, <2>2, <2>3, <2>4, <2>5, <2>6, <2>7
<1> QED BY <1>0, <1>6, <1>7, <1>8 DEF MergeInv, GroupInv, ExportInv, Done

LEMMA AttachArmsKeeps == ASSUME MergeInv, AttachArms PROVE MergeInv'
<1>0. MergeType /\ ObservedInv /\ SupportInv /\ phase = "arms" /\ phase' = "merge"
      /\ UNCHANGED <<look, obs, anchors>> /\ groups' = {{d} : d \in Sighting}
  BY DEF MergeInv, AttachArms
<1> DEFINE lucky == {c \in StableTargets : Cardinality(ArmMatches(c)) = 1}
           Joins(d) == \E c \in lucky : d \in c
           Arm(d) == CHOOSE s \in ArmMatches(CHOOSE k \in lucky : d \in k) : TRUE
           next(d) == IF Joins(d) THEN [Arm(d).row EXCEPT !.status = "REVIEW", !.inferred = TRUE]
                      ELSE rows[d]
<1>1. rows' = [d \in Sighting |-> next(d)]
  BY DEF AttachArms
<1>2. \A d \in Sighting :
        rows'[d] = IF Joins(d) THEN [Arm(d).row EXCEPT !.status = "REVIEW", !.inferred = TRUE]
                   ELSE rows[d]
  BY <1>1
<1> HIDE DEF next
<1>3. ASSUME NEW d \in Sighting, Joins(d)
      PROVE  /\ rows[d] = NoPole
             /\ \E e \in Sighting : rows[e] # NoPole /\ e \in rows[e].support /\ Arm(d).row = rows[e]
  <2>1. PICK c \in lucky : d \in c /\ c = CHOOSE k \in lucky : d \in k
    <3> DEFINE P(k) == k \in lucky /\ d \in k
    <3>1. \E k : P(k) BY <1>3
    <3> HIDE DEF lucky
    <3>2. (CHOOSE k \in lucky : d \in k) \in lucky /\ d \in (CHOOSE k \in lucky : d \in k)
      BY <3>1
    <3> QED BY <3>2
  <2>2. rows[d] = NoPole
    <3> DEFINE free == {x \in Signals : rows[x] = NoPole}
               near == [a \in free |-> {b \in free : Gap(look[a].x, look[b].x) <= TargetRadius}]
    <3>1. c \in Components(free, near)
      BY <2>1 DEF StableTargets
    <3>2. c \subseteq free
      <4> HIDE DEF near, free
      <4> QED BY <3>1 DEF Components
    <3> QED BY <2>1, <3>2
  <2>3. Arm(d) \in ArmMatches(c)
    <3>1. Cardinality(ArmMatches(c)) = 1
      BY <2>1
    <3>2. ArmMatches(c) # {}
      BY <3>1, FS_EmptySet
    <3>3. (CHOOSE s \in ArmMatches(c) : TRUE) \in ArmMatches(c)
      BY <3>2
    <3> QED BY <2>1, <3>3
  <2>4. PICK s \in ArmSupports : s = Arm(d)
    BY <2>3 DEF ArmMatches
  <2>5. PICK k \in {rows[x].support : x \in {e \in Sighting : rows[e] # NoPole}} :
          s.row = rows[CHOOSE x \in k : TRUE]
    <3>1. PICK k \in {rows[x].support : x \in {e \in Sighting : rows[e] # NoPole}} :
            \E z : s = [support |-> k, ends |-> z, row |-> rows[CHOOSE x \in k : TRUE]]
      BY <2>4 DEF ArmSupports
    <3>2. PICK z : s = [support |-> k, ends |-> z, row |-> rows[CHOOSE x \in k : TRUE]]
      BY <3>1
    <3> DEFINE w == rows[CHOOSE x \in k : TRUE]
    <3>3. s = [support |-> k, ends |-> z, row |-> w] BY <3>2
    <3> HIDE DEF w
    <3>4. s.row = w BY <3>3
    <3> QED BY <3>4 DEF w
  <2>6. PICK x \in Sighting : rows[x] # NoPole /\ k = rows[x].support
    BY <2>5
  <2>7. k # {} /\ \A e \in k : rows[e] # NoPole /\ rows[e].support = k
    BY <1>0, <2>6 DEF SupportInv
  <2>8. (CHOOSE e \in k : TRUE) \in k
    BY <2>7
  <2>9. k \subseteq Sighting
    BY <1>0, <2>6, Numbers DEF PoleRows
  <2> QED BY <2>2, <2>4, <2>5, <2>7, <2>8, <2>9
<1> HIDE DEF lucky, Joins, Arm
<1>4. ASSUME NEW d \in Sighting
      PROVE  \/ rows'[d] = rows[d]
             \/ /\ rows[d] = NoPole /\ rows'[d] \in PoleRows
                /\ rows'[d].status = "REVIEW" /\ rows'[d].inferred
                /\ \E e \in Sighting : /\ rows[e] # NoPole /\ e \in rows[e].support
                                       /\ rows'[d].support = rows[e].support
  <2>1. CASE ~Joins(d) BY <1>2, <2>1
  <2>2. CASE Joins(d)
    <3>1. rows[d] = NoPole BY <1>3, <2>2
    <3>2. PICK e \in Sighting : rows[e] # NoPole /\ e \in rows[e].support /\ Arm(d).row = rows[e]
      BY <1>3, <2>2
    <3>3. rows[e] \in PoleRows BY <1>0, <3>2, Numbers
    <3>4. rows'[d] = [rows[e] EXCEPT !.status = "REVIEW", !.inferred = TRUE]
      BY <1>2, <2>2, <3>2
    <3>5. rows'[d] \in PoleRows /\ rows'[d].status = "REVIEW" /\ rows'[d].inferred = TRUE
          /\ rows'[d].support = rows[e].support
      BY <3>3, <3>4 DEF PoleRows
    <3> QED BY <3>1, <3>2, <3>5
  <2> QED BY <2>1, <2>2
<1>5. MergeType'
  <2>1. \A d \in Sighting : rows'[d] \in PoleRows \cup {NoPole}
    BY <1>0, <1>4 DEF MergeType
  <2>2. rows' = [d \in Sighting |-> rows'[d]]
    BY <1>1
  <2> QED BY <1>0, <2>1, <2>2 DEF MergeType
<1>6. ObservedInv'
  BY <1>0 DEF ObservedInv, SeenThere, IsDirect
<1>7. ASSUME NEW e \in Sighting, rows[e] # NoPole
      PROVE  rows'[e] = rows[e]
  BY <1>4, <1>7
<1>8. SupportInv'
  <2> SUFFICES ASSUME NEW d \in Sighting, rows'[d] # NoPole
      PROVE
        /\ rows'[d].support # {}
        /\ \A e \in rows'[d].support :
              rows'[e] # NoPole /\ rows'[e].support = rows'[d].support
        /\ \E e \in rows'[d].support : ~obs[e].inferred
        /\ d \notin rows'[d].support => rows'[d].status = "REVIEW" /\ rows'[d].inferred
        /\ d \in rows'[d].support =>
              /\ rows'[d].status = "AUTO" =>
                    /\ ~rows'[d].inferred
                    /\ \E e \in rows'[d].support :
                          FrameOf[e] = FrameOf[d] /\ ~obs[e].inferred /\ obs[e].status = "AUTO"
              /\ (\E e \in rows'[d].support : obs[e].inferred) /\ ~obs[d].inferred =>
                    rows'[d].status = obs[d].status
    BY <1>0 DEF SupportInv
  <2>1. ASSUME NEW x \in Sighting, rows[x] # NoPole
        PROVE  /\ rows[x].support # {}
               /\ \A e \in rows[x].support :
                     /\ rows[e] # NoPole /\ rows'[e] # NoPole
                     /\ rows[e].support = rows[x].support /\ rows'[e].support = rows[x].support
               /\ \E e \in rows[x].support : ~obs[e].inferred
    <3>1. rows[x].support \subseteq Sighting
      BY <1>0, <2>1, Numbers DEF PoleRows
    <3> QED BY <1>0, <1>7, <2>1, <3>1 DEF SupportInv
  <2>2. CASE rows'[d] = rows[d]
    BY <1>0, <2>1, <2>2 DEF SupportInv
  <2>3. ASSUME rows[d] = NoPole, rows'[d].status = "REVIEW", rows'[d].inferred,
               NEW e \in Sighting, rows[e] # NoPole, rows'[d].support = rows[e].support
        PROVE  d \notin rows'[d].support
    BY <2>1, <2>3
  <2> QED BY <1>4, <2>1, <2>2, <2>3
<1>9. GroupInv'
  BY <1>0 DEF GroupInv
<1> QED BY <1>0, <1>5, <1>6, <1>8, <1>9 DEF MergeInv, ExportInv, Done

LEMMA CloseIsMutual ==
    ASSUME MergeType, NEW a \in Sighting, NEW b \in Sighting, Close(a, b)
    PROVE  Close(b, a)
<1>1. Gap(look[a].x, look[b].x) = Gap(look[b].x, look[a].x)
  BY Numbers, GapFacts
<1> QED BY <1>1 DEF Close

LEMMA MergeKeeps == ASSUME MergeInv, Merge PROVE MergeInv'
<1>0. MergeType /\ ObservedInv /\ SupportInv /\ GroupInv /\ phase = "merge" /\ phase' = "merge"
      /\ UNCHANGED <<look, obs, rows, anchors>>
  BY DEF MergeInv, Merge
<1>1. MergeType' /\ ObservedInv' /\ SupportInv'
  BY <1>0 DEF MergeType, ObservedInv, SeenThere, IsDirect, SupportInv
<1>2. PICK g \in groups, h \in groups :
         /\ Joinable(g, h)
         /\ groups' = (groups \ {g, h}) \cup {g \cup h}
  BY DEF Merge
<1>3. /\ groups \subseteq SUBSET Sighting /\ {} \notin groups /\ UNION groups = Sighting
      /\ \A x, y \in groups : x # y => x \cap y = {}
      /\ \A x \in groups : \A a, b \in x : a # b => Close(a, b)
  BY <1>0 DEF GroupInv
<1>4. /\ groups' \subseteq SUBSET Sighting /\ {} \notin groups' /\ UNION groups' = Sighting
  <2>1. \A x \in groups' : x \subseteq Sighting /\ x # {}
    <3>1. ASSUME NEW x \in groups PROVE x \subseteq Sighting /\ x # {}
      BY <1>3, <3>1
    <3>2. g \cup h \subseteq Sighting /\ g \cup h # {}
      BY <3>1
    <3> QED BY <1>2, <3>1, <3>2
  <2>2. ASSUME NEW a \in Sighting PROVE \E x \in groups' : a \in x
    <3>1. PICK y \in groups : a \in y BY <1>3
    <3>2. CASE y \in {g, h} BY <1>2, <3>1, <3>2
    <3>3. CASE y \notin {g, h} BY <1>2, <3>1, <3>3
    <3> QED BY <3>2, <3>3
  <2> QED BY <2>1, <2>2
<1>5. \A x, y \in groups' : x # y => x \cap y = {}
  <2>1. ASSUME NEW x \in groups \ {g, h} PROVE x \cap (g \cup h) = {}
    <3>1. x \cap g = {} /\ x \cap h = {} BY <1>3, <2>1
    <3> QED BY <3>1
  <2>2. ASSUME NEW x \in groups', NEW y \in groups', x # y PROVE x \cap y = {}
    <3>1. CASE x = g \cup h BY <1>2, <2>1, <2>2, <3>1
    <3>2. CASE y = g \cup h BY <1>2, <2>1, <2>2, <3>2
    <3>3. CASE x # g \cup h /\ y # g \cup h BY <1>2, <1>3, <2>2, <3>3
    <3> QED BY <3>1, <3>2, <3>3
  <2> QED BY <2>2
<1>6. ASSUME NEW x \in groups', NEW a \in x, NEW b \in x, a # b
      PROVE  Close(a, b)
  <2>1. CASE x \in groups BY <1>3, <1>6, <2>1
  <2>2. CASE x = g \cup h
    <3>1. \A y \in g : \A z \in h : Close(y, z) /\ Close(z, y)
      <4>1. \A y \in g : \A z \in h : Close(y, z) BY <1>2 DEF Joinable
      <4> QED BY <1>0, <1>3, <4>1, CloseIsMutual
    <3> QED BY <1>3, <1>6, <2>2, <3>1
  <2> QED BY <1>2, <2>1, <2>2
<1>7. \A a, b : Close(a, b)' <=> Close(a, b)
  BY <1>0 DEF Close, SupportOf
<1>8. GroupInv'
  BY <1>0, <1>4, <1>5, <1>6, <1>7 DEF GroupInv
<1> QED BY <1>0, <1>1, <1>8 DEF MergeInv, ExportInv, Done

LEMMA ExportKeeps == ASSUME MergeInv, Export PROVE MergeInv'
<1>0. MergeType /\ ObservedInv /\ SupportInv /\ GroupInv /\ phase = "merge" /\ phase' = "done"
      /\ UNCHANGED <<look, obs, rows, anchors, groups>>
  BY DEF MergeInv, Export
<1>1. MergeType' /\ ObservedInv' /\ SupportInv' /\ GroupInv'
  BY <1>0 DEF MergeType, ObservedInv, SeenThere, IsDirect, SupportInv, GroupInv, Close, SupportOf
<1>2. ExportInv'
  BY <1>0 DEF Export, ExportInv, ExportedBy, Done, Representatives, Relations, SupportOf
<1> QED BY <1>1, <1>2 DEF MergeInv

LEMMA MergeStep == ASSUME MergeInv, [MergeNext]_mergeVars PROVE MergeInv'
<1>1. CASE UNCHANGED mergeVars
  <2>0. UNCHANGED <<look, obs, rows, anchors, groups, signs, poles, phase>>
        /\ MergeType /\ ObservedInv /\ SupportInv /\ GroupInv /\ ExportInv
    BY <1>1 DEF mergeVars, MergeInv
  <2>1. MergeType' /\ ObservedInv' /\ SupportInv'
    BY <2>0 DEF MergeType, ObservedInv, SeenThere, IsDirect, SupportInv
  <2>2. GroupInv'
    BY <2>0 DEF GroupInv, Close, SupportOf
  <2>3. ExportInv'
    <3>1. \A rep, src : ExportedBy(rep, src)' <=> ExportedBy(rep, src)
      BY <2>0 DEF ExportedBy, Representatives, Relations, SupportOf
    <3> QED BY <2>0, <3>1 DEF ExportInv, Done
  <2> QED BY <2>1, <2>2, <2>3 DEF MergeInv
<1> QED
  BY <1>1, FindAnchorsKeeps, ReconcileRemoteKeeps, ClusterPolesKeeps, AttachArmsKeeps,
     MergeKeeps, ExportKeeps DEF MergeNext

\* Every state of the collapse of sightings, whatever was detected and wherever poles were
\* there, satisfies the invariant (refresh_shapefile_from_txt).
THEOREM MergeInvariance == MergeSpec => []MergeInv
BY MergeStart, MergeStep, PTL DEF MergeSpec

LEMMA ExportedRows == ASSUME MergeInv, Done PROVE Collapsed /\ SheetsJoin /\ Witnessed
<1>0. MergeType /\ SupportInv /\ GroupInv /\ phase = "done"
  BY DEF MergeInv, Done
<1>1. PICK rep \in [groups -> Sighting], src \in [groups -> Sighting] :
        /\ \A g \in groups :
              /\ rep[g] \in Representatives(g)
              /\ src[g] \in (IF Relations(g, rep[g]) = {} THEN {rep[g]}
                             ELSE Relations(g, rep[g]))
        /\ signs = {[id |-> rep[g], support |-> SupportOf(rep[g]), sources |-> g] :
                        g \in groups}
        /\ poles = {[id |-> rep[g], row |-> rows[src[g]], sources |-> g] :
                        g \in {k \in groups : rows[src[k]] # NoPole}}
  BY DEF MergeInv, ExportInv, ExportedBy
<1>2. /\ groups \subseteq SUBSET Sighting /\ {} \notin groups /\ UNION groups = Sighting
      /\ \A x, y \in groups : x # y => x \cap y = {}
      /\ \A x \in groups : \A a, b \in x : a # b => Close(a, b)
  BY <1>0 DEF GroupInv
<1>3. ASSUME NEW g \in groups
      PROVE  /\ rep[g] \in g /\ rep[g] \in Sighting
             /\ rows[rep[g]] # NoPole => src[g] = rep[g]
             /\ rows[rep[g]] = NoPole => rows[src[g]] = NoPole
  <2>1. rep[g] \in Representatives(g)
        /\ src[g] \in (IF Relations(g, rep[g]) = {} THEN {rep[g]} ELSE Relations(g, rep[g]))
    BY <1>1
  <2>2. CASE rows[rep[g]] # NoPole
    BY <2>1, <2>2 DEF Representatives, Relations
  <2>3. CASE rows[rep[g]] = NoPole
    <3>1. {d \in g : rows[d] # NoPole} = {}
      BY <2>1, <2>3 DEF Representatives
    <3> QED BY <2>1, <2>3, <3>1 DEF Representatives, Relations
  <2>4. rep[g] \in Sighting
    BY <1>1
  <2>5. rep[g] \in g
    BY <2>1 DEF Representatives
  <2> QED BY <2>2, <2>3, <2>4, <2>5
<1>4. Collapsed
  <2>1. UNION {s.sources : s \in signs} = Sighting
    <3>1. \A s \in signs : s.sources \in groups
      BY <1>1
    <3>2. ASSUME NEW a \in Sighting PROVE \E s \in signs : a \in s.sources
      <4>1. PICK g \in groups : a \in g BY <1>2
      <4> DEFINE s == [id |-> rep[g], support |-> SupportOf(rep[g]), sources |-> g]
      <4>2. s \in signs BY <1>1
      <4>3. s.sources = g OBVIOUS
      <4> QED BY <4>1, <4>2, <4>3
    <3> QED BY <1>2, <3>1, <3>2
  <2>2. ASSUME NEW s \in signs, NEW t \in signs, s # t PROVE s.sources \cap t.sources = {}
    <3>1. PICK g \in groups : s = [id |-> rep[g], support |-> SupportOf(rep[g]), sources |-> g]
      BY <1>1
    <3>2. PICK h \in groups : t = [id |-> rep[h], support |-> SupportOf(rep[h]), sources |-> h]
      BY <1>1
    <3>3. g # h BY <2>2, <3>1, <3>2
    <3>4. s.sources = g /\ t.sources = h BY <3>1, <3>2
    <3> QED BY <1>2, <3>3, <3>4
  <2>3. ASSUME NEW s \in signs, NEW a \in s.sources, NEW b \in s.sources
        PROVE  /\ a # b => FrameOf[a] # FrameOf[b]
               /\ Gap(look[a].x, look[b].x) <= SupportedRadius
               /\ {} \in {SupportOf(a), SupportOf(b)} \/ SupportOf(a) = SupportOf(b)
    <3>1. s.sources \in groups /\ a \in Sighting /\ b \in Sighting
      BY <1>1, <1>2, <2>3
    <3>2. look[a].x \in Nat /\ look[b].x \in Nat
      BY <1>0, <3>1, Numbers
    <3>3. CASE a = b
      <4>1. Gap(look[a].x, look[b].x) = 0 BY <3>2, <3>3, GapFacts
      <4>2. SupportedRadius \in Nat BY RadiiAreOrdered
      <4> QED BY <3>3, <4>1, <4>2
    <3>4. CASE a # b
      <4>1. Close(a, b) BY <1>2, <3>1, <3>4
      <4>2. Gap(look[a].x, look[b].x) \in Nat BY <3>2, GapFacts
      <4> QED BY <4>1, <4>2, RadiiAreOrdered DEF Close
    <3> QED BY <3>3, <3>4
  <2> QED BY <2>1, <2>2, <2>3 DEF Collapsed
<1>5. ASSUME NEW p \in poles
      PROVE  \E g \in groups : /\ p = [id |-> rep[g], row |-> rows[rep[g]], sources |-> g]
                               /\ rows[rep[g]] # NoPole
  BY <1>1, <1>3
<1>6. SheetsJoin
  <2>1. ASSUME NEW p \in poles
        PROVE  \E s \in signs : s.id = p.id /\ s.support = p.row.support
    <3>1. PICK g \in groups : /\ p = [id |-> rep[g], row |-> rows[rep[g]], sources |-> g]
                              /\ rows[rep[g]] # NoPole
      BY <1>5
    <3>2. SupportOf(rep[g]) = rows[rep[g]].support
      BY <3>1 DEF SupportOf
    <3>3. [id |-> rep[g], support |-> SupportOf(rep[g]), sources |-> g] \in signs
      BY <1>1
    <3> QED BY <3>1, <3>2, <3>3
  <2>2. ASSUME NEW p \in poles, NEW q \in poles, p.id = q.id
        PROVE  p = q
    <3>1. PICK g \in groups : p = [id |-> rep[g], row |-> rows[rep[g]], sources |-> g]
      BY <1>5
    <3>2. PICK h \in groups : q = [id |-> rep[h], row |-> rows[rep[h]], sources |-> h]
      BY <1>5
    <3>3. rep[g] = rep[h] BY <2>2, <3>1, <3>2
    <3>4. g = h BY <1>2, <1>3, <3>3
    <3> QED BY <3>1, <3>2, <3>4
  <2>3. ASSUME NEW s \in signs, s.support # {}
        PROVE  \E p \in poles : p.id = s.id
    <3>1. PICK g \in groups :
            s = [id |-> rep[g], support |-> SupportOf(rep[g]), sources |-> g]
      BY <1>1
    <3>2. rows[rep[g]] # NoPole BY <2>3, <3>1 DEF SupportOf
    <3>3. src[g] = rep[g] BY <1>3, <3>2
    <3>4. [id |-> rep[g], row |-> rows[src[g]], sources |-> g] \in poles
      BY <1>1, <3>2, <3>3
    <3> QED BY <3>1, <3>4
  <2> QED BY <2>1, <2>2, <2>3 DEF SheetsJoin
<1>7. ASSUME NEW p \in poles
      PROVE  /\ p.row.status = "AUTO" =>
                  /\ ~p.row.inferred
                  /\ \E d \in p.row.support : /\ FrameOf[d] = FrameOf[p.id] /\ ~obs[d].inferred
                                              /\ obs[d].status = "AUTO"
             /\ \E d \in p.row.support : ~obs[d].inferred
  <2>1. PICK g \in groups : /\ p = [id |-> rep[g], row |-> rows[rep[g]], sources |-> g]
                            /\ rows[rep[g]] # NoPole
    BY <1>5
  <2>2. p.id = rep[g] /\ p.row = rows[rep[g]] /\ rep[g] \in Sighting
    BY <1>3, <2>1
  <2> QED BY <1>0, <2>1, <2>2 DEF SupportInv
<1>8. Witnessed
  BY <1>7 DEF Witnessed
<1> QED BY <1>4, <1>6, <1>8

\* What refresh_shapefile_from_txt exports is what was seen: each sign once, joined to one
\* pole at most, and no pole called automatic or observed that was only inferred.
THEOREM ExportSafety == MergeSpec => []ExportSound
<1>1. MergeInv => ExportSound
  <2> SUFFICES ASSUME MergeInv PROVE ExportSound
    OBVIOUS
  <2>1. Done => Collapsed /\ SheetsJoin /\ Witnessed
    BY ExportedRows
  <2>2. ~Done => Collapsed /\ SheetsJoin /\ Witnessed
    BY DEF Collapsed, SheetsJoin, Witnessed
  <2>3. ObservedKept
    BY DEF MergeInv, ObservedInv, ObservedKept
  <2>4. NotDowngraded
    <3>1. ASSUME NEW x \in Sighting, rows[x] # NoPole,
                 \E d \in rows[x].support : obs[d].inferred,
                 NEW d \in rows[x].support, ~obs[d].inferred, obs[d].status = "AUTO"
          PROVE  rows[d].status = "AUTO"
      <4>1. SupportInv /\ MergeType BY DEF MergeInv
      <4>2. d \in Sighting BY <3>1, <4>1, Numbers DEF PoleRows
      <4>3. rows[d] # NoPole /\ rows[d].support = rows[x].support
        BY <3>1, <4>1 DEF SupportInv
      <4> QED BY <3>1, <4>1, <4>2, <4>3 DEF SupportInv
    <3> QED BY <3>1 DEF NotDowngraded
  <2> QED BY <2>1, <2>2, <2>3, <2>4 DEF ExportSound
<1> QED BY <1>1, MergeInvariance, PTL
===============================================================================
