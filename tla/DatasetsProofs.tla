----------------------------- MODULE DatasetsProofs ----------------------------
(* The shared point reader under the registry of a dataset, for every set of   *)
(* threads, blocks and files, every size of the cache and number of restarts.  *)
EXTENDS Datasets, FiniteSetTheorems, SequenceTheorems, TLAPS

USE ReaderAssumption, BoundAssumption DEF Version, None, Error

-------------------------------------------------------------------------------
(* The inductive invariant.  LocksHeld, SingleFlight, NeverOlder and the parts *)
(* of RegistrySound need each other, what a handle is open for, and what the   *)
(* builds under way have seen.  AccountInv holds because a key is decoded only *)
(* while it is not in the LRU.                                                 *)

\* Where a thread is, its key and its result; what the cache, the handles and the locks hold.
ThreadTypes ==
    /\ pc \in [Thread -> {"idle", "lookup", "lock", "open", "decode", "wait", "woken", "done"}]
    /\ key \in [Thread -> Key] /\ got \in [Thread -> Version \cup {None, Error}]
    /\ \A t \in Thread : pc[t] \in {"woken", "done"} <=> got[t] # None

StoreTypes ==
    /\ disk \in Version
    /\ blocks \in [Key -> Version \cup {None}] /\ inflight \in SUBSET Key
    /\ handle \in [Source -> [version : Version \cup {None}, data : Version \cup {None}]]
    /\ lock \in [Source -> Thread \cup {None}]
    /\ closer \in {"open", "locking", "closed"} /\ held \in SUBSET Source

\* A block that is decoded is read through a handle of its version, and no thread is at a
\* handle once close() is over.
HandleInv ==
    /\ \A t \in Thread : pc[t] = "decode" => handle[SourceOfKey(key[t])].version = key[t].version
    /\ closer = "closed" => \A t \in Thread : pc[t] \notin {"open", "decode"}

\* What a thread reads, the catalogs in memory or being built and the last request are no
\* newer than the files.
AskedFor == \A t \in Thread : pc[t] # "idle" => key[t].version <= disk
RegistryVersions == catalog <= disk /\ requested <= disk /\ index.seen <= disk

\* The row, the tasks and the counters.
RegistryTypes ==
    /\ registered \in BOOLEAN
    /\ status \in {"none", "scanning", "ready", "error", "removed"}
    /\ catalogStatus \in {"missing", "building", "ready", "error"}
    /\ frames \in BOOLEAN /\ catalog \in Version \cup {None}
    /\ requested \in Version \cup {None}
    /\ scan \in Task /\ index \in Task
    /\ remove \in {"idle", "draining", "reconciling"}
    /\ worker \in BOOLEAN /\ orphan \in BOOLEAN
    /\ restarts \in 0 .. MaxRestarts /\ rescans \in 0 .. MaxRescans
    /\ reads \in 0 .. MaxReads

\* A build that may still store its catalog has looked at the folder since the last request.
BuildInv == index.state = "thread" /\ index.cancel = "no" =>
                index.seen >= requested /\ index.seen # None

\* The reader.
ReaderInv ==
    /\ ThreadTypes /\ StoreTypes
    /\ LocksHeld /\ SingleFlight /\ ClosedIsEmpty /\ NeverOlder
    /\ HandleInv /\ AskedFor

\* The order of the LRU and its counter agree with what it holds.
AccountInv == order \in Seq(Key) /\ Accounting

\* The registry and its tasks.
RegistryInv == RegistryTypes /\ RegistryVersions /\ BuildInv /\ RegistrySound

IndInv == ReaderInv /\ AccountInv /\ RegistryInv

-------------------------------------------------------------------------------
(* The order of the LRU and its bytes.  Induction is by the least number at    *)
(* which a fact fails.                                                         *)

\* A set of numbers that is not empty has a least one.
LEMMA LeastNumber ==
    ASSUME NEW N \in SUBSET Nat, N # {}
    PROVE  \E n \in N : \A m \in N : n <= m
  <1>1. PICK n \in N : \A m \in N : <<m, n>> \notin OpToRel(<, Nat)
    BY WFMin, NatLessThanWellFounded, Zenon
  <1>2. \A m \in N : ~(m < n)
    BY <1>1, Zenon DEF OpToRel
  <1> QED BY <1>2

\* A set of numbers with 0, and with n + 1 if with n, holds all numbers up to a bound.
LEMMA UpTo ==
    ASSUME NEW b \in Nat, NEW N \in SUBSET Nat, 0 \in N,
           \A n \in 0 .. b - 1 : n \in N => n + 1 \in N
    PROVE  \A n \in 0 .. b : n \in N
  <1> SUFFICES ASSUME {n \in 0 .. b : n \notin N} # {} PROVE FALSE
    OBVIOUS
  <1> DEFINE Bad == {n \in 0 .. b : n \notin N}
  <1>1. Bad \in SUBSET Nat /\ Bad # {}
    OBVIOUS
  <1> HIDE DEF Bad
  <1>2. PICK n \in Bad : \A m \in Bad : n <= m
    BY <1>1, LeastNumber
  <1>3. n \in 0 .. b /\ n \notin N /\ n # 0
    BY <1>2 DEF Bad
  <1>4. n - 1 \notin Bad /\ n - 1 \in 0 .. b - 1
    BY <1>1, <1>2, <1>3
  <1> QED BY <1>3, <1>4 DEF Bad

\* The elements of an order without repetition are as many as the order is long.
LEMMA OrderSize ==
    ASSUME NEW S, NEW s \in Seq(S), IsInjective(s)
    PROVE  IsFiniteSet(ToSet(s)) /\ Cardinality(ToSet(s)) = Len(s) /\ Len(s) \in Nat
  <1>1. Len(s) \in Nat /\ DOMAIN s = 1 .. Len(s)
    OBVIOUS
  <1>2. s \in Bijection(1 .. Len(s), ToSet(s))
    BY <1>1 DEF Bijection, Injection, Surjection, IsInjective, ToSet
  <1>3. ExistsBijection(1 .. Len(s), ToSet(s))
    BY <1>2, Zenon DEF ExistsBijection
  <1> QED BY <1>1, <1>3, FS_NatBijection, FS_CountingElements, Zenon

\* A new key at the end of the order.
LEMMA AppendedOnce ==
    ASSUME NEW S, NEW s \in Seq(S), NEW k \in S, IsInjective(s), k \notin ToSet(s)
    PROVE  /\ Append(s, k) \in Seq(S) /\ IsInjective(Append(s, k))
           /\ ToSet(Append(s, k)) = ToSet(s) \cup {k}
           /\ Len(Append(s, k)) = Len(s) + 1
  <1> DEFINE a == Append(s, k)
             n == Len(s)
  <1>1. /\ a \in Seq(S) /\ Len(a) = n + 1 /\ n \in Nat /\ a[n + 1] = k
        /\ DOMAIN s = 1 .. n /\ DOMAIN a = 1 .. n + 1
        /\ \A i \in 1 .. n : a[i] = s[i]
    BY AppendProperties
  <1> HIDE DEF a, n
  <1>2. \A i \in 1 .. n + 1 : i \in 1 .. n \/ i = n + 1
    BY <1>1
  <1>3. \A i \in 1 .. n : s[i] # k
    BY <1>1 DEF ToSet
  <1>4. IsInjective(a)
    BY <1>1, <1>2, <1>3 DEF IsInjective
  <1>5. ToSet(a) = ToSet(s) \cup {k}
    BY <1>1, <1>2 DEF ToSet
  <1> QED BY <1>1, <1>4, <1>5 DEF a, n

\* What Without computes, prefix by prefix.
Kept(keys, gone, n, kept) ==
    kept = [i \in 0 .. n |-> IF i = 0 THEN <<>>
                             ELSE IF keys[i] \in gone THEN kept[i - 1]
                             ELSE Append(kept[i - 1], keys[i])]

\* ... is defined for every order.
LEMMA KeptExists ==
    ASSUME NEW S, NEW keys \in Seq(S), NEW gone
    PROVE  \E kept : Kept(keys, gone, Len(keys), kept)
  <1> DEFINE N == {n \in Nat : \E kept : Kept(keys, gone, n, kept)}
  <1>1. Len(keys) \in Nat /\ N \in SUBSET Nat
    OBVIOUS
  <1>2. 0 \in N
    <2>1. Kept(keys, gone, 0, [i \in 0 .. 0 |-> <<>>])
      BY DEF Kept
    <2> QED BY <2>1
  <1>3. ASSUME NEW n \in 0 .. Len(keys) - 1, n \in N
        PROVE  n + 1 \in N
    <2>1. PICK f : Kept(keys, gone, n, f)
      BY <1>3
    <2> DEFINE g == [i \in 0 .. n + 1 |-> IF i <= n THEN f[i]
                                          ELSE IF keys[n + 1] \in gone THEN f[n]
                                          ELSE Append(f[n], keys[n + 1])]
    <2>2. \A i \in 0 .. n + 1 : g[i] = IF i = 0 THEN <<>>
                                       ELSE IF keys[i] \in gone THEN g[i - 1]
                                       ELSE Append(g[i - 1], keys[i])
      <3>1. \A i \in 0 .. n : f[i] = IF i = 0 THEN <<>>
                                     ELSE IF keys[i] \in gone THEN f[i - 1]
                                     ELSE Append(f[i - 1], keys[i])
        BY <2>1 DEF Kept
      <3>2. ASSUME NEW i \in 0 .. n + 1
            PROVE  g[i] = IF i = 0 THEN <<>>
                          ELSE IF keys[i] \in gone THEN g[i - 1]
                          ELSE Append(g[i - 1], keys[i])
        <4>1. CASE i = n + 1 BY <4>1
        <4>2. CASE i # n + 1
          <5>1. i \in 0 .. n /\ g[i] = f[i] /\ (i # 0 => g[i - 1] = f[i - 1])
            BY <4>2
          <5> QED BY <5>1, <3>1
        <4> QED BY <4>1, <4>2
      <3> QED BY <3>2
    <2>3. Kept(keys, gone, n + 1, g)
      BY <2>2 DEF Kept
    <2> QED BY <2>3
  <1> HIDE DEF N
  <1>4. \A n \in 0 .. Len(keys) - 1 : n \in N => n + 1 \in N
    BY <1>3
  <1>5. \A n \in 0 .. Len(keys) : n \in N
    BY <1>1, <1>2, <1>4, UpTo, Zenon
  <1>6. Len(keys) \in N
    BY <1>1, <1>5
  <1> QED BY <1>6 DEF N

\* Without keeps the other keys, in their order.
LEMMA WithoutProperties ==
    ASSUME NEW S, NEW keys \in Seq(S), IsInjective(keys), NEW gone
    PROVE  /\ Without(keys, gone) \in Seq(S)
           /\ IsInjective(Without(keys, gone))
           /\ ToSet(Without(keys, gone)) = ToSet(keys) \ gone
  <1> DEFINE f       == CHOOSE kept : Kept(keys, gone, Len(keys), kept)
             Good(i) == /\ f[i] \in Seq(S) /\ IsInjective(f[i])
                        /\ ToSet(f[i]) = {keys[j] : j \in 1 .. i} \ gone
             N       == {i \in 0 .. Len(keys) : Good(i)}
  <1>1. Kept(keys, gone, Len(keys), f)
    BY KeptExists, Zenon
  <1>2. Without(keys, gone) = f[Len(keys)]
    BY Zenon DEF Without, Kept
  <1> HIDE DEF f
  <1>3. Len(keys) \in Nat /\ DOMAIN keys = 1 .. Len(keys) /\ \A i \in 1 .. Len(keys) : keys[i] \in S
    OBVIOUS
  <1>4. \A i \in 0 .. Len(keys) : f[i] = IF i = 0 THEN <<>>
                                         ELSE IF keys[i] \in gone THEN f[i - 1]
                                         ELSE Append(f[i - 1], keys[i])
    BY <1>1 DEF Kept
  <1>5. Good(0)
    <2>1. f[0] = <<>>
      BY <1>3, <1>4
    <2>2. <<>> \in Seq(S) /\ DOMAIN <<>> = {}
      BY EmptySeq
    <2> QED BY <2>1, <2>2 DEF IsInjective, ToSet
  <1>6. ASSUME NEW n \in 0 .. Len(keys) - 1, Good(n)
        PROVE  Good(n + 1)
    <2> DEFINE k == keys[n + 1]
    <2>1. f[n + 1] = IF k \in gone THEN f[n] ELSE Append(f[n], k)
      <3>1. n + 1 \in 0 .. Len(keys) /\ n + 1 # 0 /\ (n + 1) - 1 = n
        BY <1>3
      <3> QED BY <1>4, <3>1
    <2>2. {keys[j] : j \in 1 .. n + 1} = {keys[j] : j \in 1 .. n} \cup {k}
      <3>1. \A j \in 1 .. n + 1 : j \in 1 .. n \/ j = n + 1
        OBVIOUS
      <3> QED BY <3>1
    <2>3. CASE k \in gone
      BY <1>6, <2>1, <2>2, <2>3
    <2>4. CASE k \notin gone
      <3>1. k \in S /\ k \notin {keys[j] : j \in 1 .. n}
        BY <1>3 DEF IsInjective
      <3>2. f[n + 1] = Append(f[n], k) /\ k \notin ToSet(f[n])
        BY <1>6, <2>1, <2>4, <3>1
      <3>3. /\ Append(f[n], k) \in Seq(S) /\ IsInjective(Append(f[n], k))
            /\ ToSet(Append(f[n], k)) = ToSet(f[n]) \cup {k}
        BY <1>6, <3>1, <3>2, AppendedOnce
      <3> QED BY <1>6, <2>2, <2>4, <3>2, <3>3
    <2> QED BY <2>3, <2>4
  <1> HIDE DEF Good
  <1>7. \A n \in 0 .. Len(keys) : n \in N
    <2>1. N \in SUBSET Nat /\ 0 \in N /\ \A n \in 0 .. Len(keys) - 1 : n \in N => n + 1 \in N
      BY <1>3, <1>5, <1>6
    <2> HIDE DEF N
    <2> QED BY <1>3, <2>1, UpTo, Zenon
  <1>8. Good(Len(keys))
    BY <1>3, <1>7
  <1> QED BY <1>2, <1>3, <1>8 DEF ToSet, Good

\* As many numbers as their bound.
LEMMA NumbersUpTo ==
    ASSUME NEW n \in Nat
    PROVE  IsFiniteSet(1 .. n) /\ Cardinality(1 .. n) = n
  <1>1. 1 \in Int /\ n \in Int
    OBVIOUS
  <1>2. IsFiniteSet(1 .. n) /\ Cardinality(1 .. n) = IF 1 > n THEN 0 ELSE n - 1 + 1
    BY <1>1, FS_Interval, Zenon
  <1> QED BY <1>2

\* The bytes of a set of keys.
BytePairs(keys) == UNION {{k} \X (1 .. Weight[k.kind]) : k \in keys}

\* A finite set of keys has finitely many bytes.
LEMMA BytePairsFinite ==
    ASSUME NEW K \in SUBSET Key, IsFiniteSet(K)
    PROVE  IsFiniteSet(BytePairs(K)) /\ Cardinality(BytePairs(K)) \in Nat
  <1> DEFINE w == Weight["records"] + Weight["preview"]
  <1>1. w \in Nat /\ \A k \in Key : Weight[k.kind] \in Nat /\ Weight[k.kind] <= w
    BY DEF Key, Kind
  <1> HIDE DEF w
  <1>2. IsFiniteSet(1 .. w) /\ IsFiniteSet(K \X (1 .. w))
    BY <1>1, NumbersUpTo, FS_Product, Zenon
  <1>3. BytePairs(K) \subseteq K \X (1 .. w)
    <2>1. \A k \in K : 1 .. Weight[k.kind] \subseteq 1 .. w
      BY <1>1
    <2>2. \A k \in K : {k} \X (1 .. Weight[k.kind]) \subseteq K \X (1 .. w)
      BY <2>1
    <2> QED BY <2>2, Zenon DEF BytePairs
  <1> QED BY <1>2, <1>3, FS_Subset, FS_CardinalityType

\* Bytes adds up.
LEMMA BytesOfNone == Bytes({}) = 0
  <1>1. UNION {{k} \X (1 .. Weight[k.kind]) : k \in {}} = {}
    OBVIOUS
  <1> QED BY <1>1, FS_EmptySet DEF Bytes

\* ... for one key
LEMMA BytesOfOne ==
    ASSUME NEW k \in Key
    PROVE  Bytes({k}) = Weight[k.kind]
  <1>1. UNION {{j} \X (1 .. Weight[j.kind]) : j \in {k}} = {k} \X (1 .. Weight[k.kind])
    BY Zenon
  <1>2. Weight[k.kind] \in Nat
    BY DEF Key
  <1>3. IsFiniteSet(1 .. Weight[k.kind]) /\ Cardinality(1 .. Weight[k.kind]) = Weight[k.kind]
    BY <1>2, NumbersUpTo, Zenon
  <1>4. IsFiniteSet({k}) /\ Cardinality({k}) = 1
    BY FS_Singleton
  <1>5. Cardinality({k} \X (1 .. Weight[k.kind])) = 1 * Weight[k.kind]
    <2>1. Cardinality({k} \X (1 .. Weight[k.kind])) =
            Cardinality({k}) * Cardinality(1 .. Weight[k.kind])
      BY <1>3, <1>4, FS_Product, Zenon
    <2> QED BY <1>3, <1>4, <2>1, Zenon
  <1>6. Bytes({k}) = Cardinality({k} \X (1 .. Weight[k.kind]))
    BY <1>1, Zenon DEF Bytes
  <1> QED BY <1>2, <1>5, <1>6

\* ... and for two sets of keys that share none.
LEMMA BytesOfBoth ==
    ASSUME NEW K \in SUBSET Key, NEW L \in SUBSET Key, IsFiniteSet(K), IsFiniteSet(L),
           K \cap L = {}
    PROVE  /\ Bytes(K \cup L) = Bytes(K) + Bytes(L)
           /\ Bytes(K) \in Nat /\ Bytes(L) \in Nat
  <1>1. /\ IsFiniteSet(BytePairs(K)) /\ Cardinality(BytePairs(K)) \in Nat
        /\ IsFiniteSet(BytePairs(L)) /\ Cardinality(BytePairs(L)) \in Nat
    BY BytePairsFinite
  <1>2. BytePairs(K \cup L) = BytePairs(K) \cup BytePairs(L)
    BY Zenon DEF BytePairs
  <1>3. BytePairs(K) \cap BytePairs(L) = {}
    <2>1. \A p \in BytePairs(K) : p[1] \in K
      BY DEF BytePairs
    <2>2. \A p \in BytePairs(L) : p[1] \in L
      BY DEF BytePairs
    <2> QED BY <2>1, <2>2
  <1>4. Cardinality(BytePairs(K) \cup BytePairs(L)) =
          Cardinality(BytePairs(K)) + Cardinality(BytePairs(L)) - 0
    BY <1>1, <1>3, FS_Union, FS_EmptySet
  <1>5. \A M : Bytes(M) = Cardinality(BytePairs(M))
    BY Zenon DEF Bytes, BytePairs
  <1>6. Bytes(K) = Cardinality(BytePairs(K)) /\ Bytes(L) = Cardinality(BytePairs(L))
    BY <1>5, Zenon
  <1>7. Bytes(K \cup L) = Cardinality(BytePairs(K) \cup BytePairs(L))
    BY <1>2, <1>5, Zenon
  <1> QED BY <1>1, <1>4, <1>6, <1>7

\* The part of the bytes that a part of the keys has.
LEMMA BytesOfPart ==
    ASSUME NEW K \in SUBSET Key, IsFiniteSet(K), NEW gone \in SUBSET K
    PROVE  /\ Bytes(K \ gone) = Bytes(K) - Bytes(gone)
           /\ Bytes(K \ gone) \in Nat /\ Bytes(K) \in Nat /\ Bytes(gone) \in Nat
  <1>1. IsFiniteSet(gone) /\ IsFiniteSet(K \ gone)
    BY FS_Subset
  <1>2. Bytes((K \ gone) \cup gone) = Bytes(K \ gone) + Bytes(gone)
    BY <1>1, BytesOfBoth
  <1>3. (K \ gone) \cup gone = K
    OBVIOUS
  <1>4. Bytes(K \ gone) \in Nat /\ Bytes(gone) \in Nat
    BY <1>1, BytesOfBoth
  <1>5. Bytes(K) = Bytes(K \ gone) + Bytes(gone)
    BY <1>2, <1>3, Zenon
  <1> QED BY <1>4, <1>5

\* An order cut in two.
LEMMA CutInTwo ==
    ASSUME NEW S, NEW s \in Seq(S), IsInjective(s), NEW n \in 0 .. Len(s)
    PROVE  LET p == SubSeq(s, 1, n)
               r == SubSeq(s, n + 1, Len(s))
           IN  /\ r \in Seq(S) /\ IsInjective(r) /\ Len(r) = Len(s) - n
               /\ ToSet(p) \subseteq ToSet(s) /\ ToSet(r) = ToSet(s) \ ToSet(p)
  <1> DEFINE p == SubSeq(s, 1, n)
             r == SubSeq(s, n + 1, Len(s))
             l == Len(s)
  <1>1. l \in Nat /\ n \in Nat /\ n <= l /\ DOMAIN s = 1 .. l /\ \A i \in 1 .. l : s[i] \in S
    OBVIOUS
  <1>2. /\ p \in Seq(S) /\ Len(p) = n /\ DOMAIN p = 1 .. n
        /\ \A i \in 1 .. n : p[i] = s[i]
    <2>1. p \in Seq(S) /\ Len(p) = n
      BY <1>1, SubSeqProperties
    <2>2. \A i \in 1 .. n : p[i] = s[1 + i - 1]
      BY <1>1, SubSeqProperties
    <2> HIDE DEF p
    <2> QED BY <1>1, <2>1, <2>2
  <1>3. /\ r \in Seq(S) /\ Len(r) = l - n /\ DOMAIN r = 1 .. l - n
        /\ \A i \in 1 .. l - n : r[i] = s[n + i]
    <2>1. r \in Seq(S) /\ Len(r) = l - n
      OBVIOUS
    <2>2. \A i \in 1 .. l - (n + 1) + 1 : r[i] = s[(n + 1) + i - 1]
      BY <1>1, SubSeqProperties
    <2> HIDE DEF r
    <2> QED BY <1>1, <2>1, <2>2
  <1> HIDE DEF p, r, l
  <1>4. IsInjective(r)
    <2>1. \A i, j \in 1 .. l - n : n + i \in DOMAIN s /\ n + j \in DOMAIN s
      BY <1>1
    <2>2. \A i, j \in 1 .. l - n : s[n + i] = s[n + j] => n + i = n + j
      BY <2>1 DEF IsInjective
    <2>3. \A i, j \in 1 .. l - n : n + i = n + j => i = j
      BY <1>1
    <2>4. SUFFICES ASSUME NEW i \in DOMAIN r, NEW j \in DOMAIN r, r[i] = r[j] PROVE i = j
      BY DEF IsInjective
    <2>5. i \in 1 .. l - n /\ j \in 1 .. l - n
      BY <1>3
    <2>6. s[n + i] = s[n + j]
      BY <1>3, <2>4, <2>5
    <2> QED BY <2>2, <2>3, <2>5, <2>6
  <1>5. ToSet(p) = {s[i] : i \in 1 .. n}
    BY <1>2 DEF ToSet
  <1>6. ToSet(r) = {s[i] : i \in n + 1 .. l}
    <2>1. \A i \in n + 1 .. l : i - n \in 1 .. l - n /\ s[i] = r[i - n]
      BY <1>1, <1>3
    <2>2. \A i \in 1 .. l - n : n + i \in n + 1 .. l
      BY <1>1
    <2> QED BY <1>3, <2>1, <2>2 DEF ToSet
  <1>7. ToSet(s) = {s[i] : i \in 1 .. l}
    BY <1>1 DEF ToSet
  <1>8. \A i \in 1 .. l : i \in 1 .. n \/ i \in n + 1 .. l
    BY <1>1
  <1>9. \A i \in 1 .. n, j \in n + 1 .. l : i \in 1 .. l /\ j \in 1 .. l /\ s[i] # s[j]
    BY <1>1 DEF IsInjective
  <1>10. ToSet(p) \subseteq ToSet(s) /\ ToSet(r) = ToSet(s) \ ToSet(p)
    BY <1>1, <1>5, <1>6, <1>7, <1>8, <1>9
  <1> QED BY <1>3, <1>4, <1>10 DEF p, r, l

-------------------------------------------------------------------------------
(* The registry *)

\* What a step does to the registry: nothing, or it is one of its operations.
LEMMA RegistrySteps ==
    ASSUME Next
    PROVE  \/ UNCHANGED registryVars
           \/ Rescan \/ ScheduleIndex \/ Shutdown \/ Restart \/ RecoverLive
           \/ UNCHANGED <<row, catalog, tasks, remove, requested, server, restarts, rescans>>
              /\ \E t \in Thread, b \in Block : Points(t, b) \/ PoleBase(t, b)
           \/ ScanStep \/ IndexStep \/ RemoveStep
  BY Zenon DEF Next, LoopStep, Reading, Closing, ReplaceFiles, Respond, registryVars, row,
     tasks, server, bounds, Points, PoleBase, ReadBlock

\* A task is never given a value it cannot have.
LEMMA TaskValues ==
    /\ NoTask \in Task /\ Queued \in Task
    /\ \A task \in Task : Schedule(task) \in Task
    /\ \A task \in Task : /\ Cancel(task, "rescan") \in Task
                          /\ Cancel(task, "remove") \in Task
  BY DEF NoTask, Queued, Task, Schedule, Cancel

\* The registry keeps to its values.
LEMMA RegistryTypesKept ==
    ASSUME RegistryTypes, StoreTypes, Next
    PROVE  RegistryTypes'
  <1>1. CASE UNCHANGED registryVars
    BY <1>1, Zenon DEF RegistryTypes, registryVars
  <1>2. CASE Rescan
    <2>1. /\ worker' \in BOOLEAN /\ orphan' \in BOOLEAN /\ frames' \in BOOLEAN
          /\ scan' \in Task /\ index' \in Task
          /\ remove' \in {"idle", "draining", "reconciling"}
      BY <1>2, TaskValues, Zenon DEF Rescan, RegistryTypes
    <2> QED BY <1>2, <2>1 DEF RegistryTypes, StoreTypes, Rescan, UpsertScanningDataset
  <1>3. CASE ScheduleIndex
    BY <1>3, TaskValues DEF RegistryTypes, ScheduleIndex, row, server, bounds
  <1>4. CASE Shutdown
    BY <1>4, TaskValues DEF RegistryTypes, Shutdown, FailDatasetScan, server, bounds
  <1>5. CASE Restart
    <2>1. worker' \in BOOLEAN /\ orphan' \in BOOLEAN /\ UNCHANGED <<registered, frames>>
      BY <1>5, Zenon DEF Restart
    <2> QED BY <1>5, <2>1, TaskValues DEF RegistryTypes, Restart, RecoverRegistry
  <1>6. CASE \E t \in Thread, b \in Block : Points(t, b) \/ PoleBase(t, b)
    BY <1>6 DEF RegistryTypes, Points, PoleBase, ReadBlock, row, tasks, server
  <1>7. CASE ScanStep
    <2> USE TaskValues DEF RegistryTypes, row, server, bounds
    <2>1. CASE ScanStart  BY <2>1 DEF ScanStart, Task
    <2>2. CASE FinishScan BY <2>2 DEF FinishScan, FinishDatasetScan
    <2>3. CASE ScanFails  BY <2>3 DEF ScanFails, FailDatasetScan
    <2>4. CASE ScanUnstarted BY <2>4 DEF ScanUnstarted, NoTask, Task
    <2> QED BY <1>7, <2>1, <2>2, <2>3, <2>4 DEF ScanStep
  <1>8. CASE IndexStep
    <2> USE TaskValues DEF RegistryTypes, row, server, bounds
    <2>1. CASE IndexStart
      <3>1. index' \in Task BY <2>1 DEF IndexStart, Task, StoreTypes
      <3> QED BY <2>1, <3>1 DEF IndexStart, SetCatalogStatus
    <2>2. CASE IndexDone  BY <2>2 DEF IndexDone, SetCatalogStatus, Task
    <2>3. CASE IndexFails BY <2>3 DEF IndexFails, SetCatalogStatus
    <2>4. CASE IndexCancelled BY <2>4 DEF IndexCancelled
    <2> QED BY <1>8, <2>1, <2>2, <2>3, <2>4 DEF IndexStep
  <1>9. CASE RemoveStep
    BY <1>9, TaskValues DEF RegistryTypes, RemoveStep, RemoveStart, RemoveDrained,
       RemoveRefused, Unregister, UnregisterDataset, row, tasks, server,
       bounds
  <1>10. CASE RecoverLive
    BY <1>10 DEF RegistryTypes, RecoverLive, RecoverRegistry, tasks, bounds
  <1> QED
    BY <1>1, <1>2, <1>3, <1>4, <1>5, <1>6, <1>7, <1>8, <1>9, <1>10, RegistrySteps

\* A removed dataset stays empty: whatever task of it is still under way leaves the row alone.
LEMMA RemovedIsEmptyKept ==
    ASSUME RegistryTypes, RemovedIsEmpty, Next
    PROVE  RemovedIsEmpty'
  <1> USE DEF RemovedIsEmpty, RegistryTypes
  <1>1. CASE UNCHANGED registryVars
    BY <1>1, Zenon DEF registryVars
  <1>2. CASE Rescan BY <1>2 DEF Rescan, UpsertScanningDataset
  <1>3. CASE ScheduleIndex BY <1>3 DEF ScheduleIndex, row
  <1>4. CASE Shutdown BY <1>4 DEF Shutdown, FailDatasetScan
  <1>5. CASE Restart BY <1>5 DEF Restart, RecoverRegistry
  <1>6. CASE \E t \in Thread, b \in Block : Points(t, b) \/ PoleBase(t, b)
    BY <1>6 DEF Points, PoleBase, ReadBlock, row
  <1>7. CASE ScanStep
    BY <1>7 DEF ScanStep, ScanStart, FinishScan, FinishDatasetScan, ScanFails,
       FailDatasetScan, ScanUnstarted, row
  <1>8. CASE IndexStep
    BY <1>8 DEF IndexStep, IndexStart, IndexDone, IndexFails, IndexCancelled, row
  <1>9. CASE RemoveStep
    BY <1>9 DEF RemoveStep, RemoveStart, RemoveDrained, RemoveRefused, Unregister,
       UnregisterDataset, row
  <1>10. CASE RecoverLive BY <1>10 DEF RecoverLive, RecoverRegistry
  <1> QED
    BY <1>1, <1>2, <1>3, <1>4, <1>5, <1>6, <1>7, <1>8, <1>9, <1>10, RegistrySteps

\* The files are only ever replaced by newer ones.
LEMMA DiskGrows ==
    ASSUME Next, disk \in Version
    PROVE  disk' \in Version /\ disk' >= disk
  <1>1. disk' = disk \/ ReplaceFiles
    BY Zenon DEF Next, LoopStep, Rescan, ScheduleIndex, Shutdown, CloseBegin, Points, PoleBase,
       ReadBlock, Request, Respond, ScanStep, ScanStart, FinishScan, ScanFails, ScanUnstarted,
       IndexStep, IndexStart, IndexDone, IndexFails, IndexCancelled, RemoveStep, RemoveStart,
       RemoveDrained, RemoveRefused, Unregister, Restart, RecoverLive, Closing, CloseStep,
       CloseLock, CloseEnd, Reading, ReadStep, LookupHit, LookupMiss, LookupClosed, LockClosed,
       TakeLock, OpenHandle, Decode, DecodeFails, WakeUp
  <1> QED BY <1>1 DEF ReplaceFiles

\* A reader that is closed stays so until the server restarts.
LEMMA StaysClosed ==
    ASSUME Next
    PROVE  Restart \/ (Closed => Closed')
  <1>1. \/ closer' = closer
        \/ Shutdown \/ Restart \/ CloseEnd
    BY Zenon DEF Next, LoopStep, ReplaceFiles, readerVars, closeVars, Rescan, ScheduleIndex,
       Points, PoleBase,
       ReadBlock, Request, Respond, ScanStep, ScanStart, FinishScan, ScanFails, ScanUnstarted,
       IndexStep, IndexStart, IndexDone, IndexFails, IndexCancelled, RemoveStep, RemoveStart,
       RemoveDrained, RemoveRefused, Unregister, RecoverLive, Closing, CloseStep, CloseLock,
       Reading, ReadStep, LookupHit, LookupMiss, LookupClosed, LockClosed, TakeLock,
       OpenHandle, Decode, DecodeFails, WakeUp
  <1> QED BY <1>1, Zenon DEF Closed, Shutdown, CloseBegin, CloseEnd

\* A build looks at the folder when its thread starts.
LEMMA SeenAtStart ==
    ASSUME IndexStart, index \in Task
    PROVE  index'.seen = disk \/ index' = NoTask
  BY DEF IndexStart, Task

\* ... so that what the registry knows stays no newer than they are.
LEMMA RegistryVersionsKept ==
    ASSUME RegistryTypes, StoreTypes, RegistryVersions, Next
    PROVE  RegistryVersions'
  <1> USE DiskGrows DEF RegistryTypes, RegistryVersions, StoreTypes
  <1>1. CASE UNCHANGED registryVars
    BY <1>1 DEF registryVars, Task
  <1>2. CASE Rescan
    <2>1. index'.seen = index.seen BY <1>2 DEF Rescan, Cancel, Task
    <2> QED BY <1>2, <2>1 DEF Rescan, Task
  <1>3. CASE ScheduleIndex
    <2>1. index'.seen = None BY <1>3 DEF ScheduleIndex, Schedule, Queued, NoTask
    <2> QED BY <1>3, <2>1 DEF ScheduleIndex
  <1>4. CASE Shutdown BY <1>4 DEF Shutdown, NoTask
  <1>5. CASE Restart BY <1>5 DEF Restart, NoTask
  <1>6. CASE UNCHANGED <<row, catalog, tasks, remove, requested, server, restarts, rescans>>
    BY <1>6 DEF tasks, Task
  <1>7. CASE ScanStep
    BY <1>7 DEF ScanStep, ScanStart, FinishScan, ScanFails, ScanUnstarted, Task
  <1>8. CASE IndexStep
    <2>1. index'.seen <= disk'
      <3>1. CASE IndexStart
        BY <3>1, SeenAtStart DEF NoTask, IndexStart
      <3>2. CASE ~IndexStart
        BY <1>8, <3>2 DEF IndexStep, IndexDone, IndexFails, IndexCancelled, NoTask
      <3> QED BY <3>1, <3>2
    <2> QED BY <1>8, <2>1 DEF IndexStep, IndexStart, IndexDone, IndexFails, IndexCancelled, Task
  <1>9. CASE RemoveStep
    <2>1. index'.seen = index.seen
      BY <1>9 DEF RemoveStep, RemoveStart, RemoveDrained, RemoveRefused, Unregister, tasks,
         Cancel, Task
    <2> QED BY <1>9, <2>1 DEF RemoveStep, RemoveStart, RemoveDrained, RemoveRefused, Unregister,
               Task
  <1>10. CASE RecoverLive BY <1>10 DEF RecoverLive, tasks, Task
  <1> QED
    BY <1>1, <1>2, <1>3, <1>4, <1>5, <1>6, <1>7, <1>8, <1>9, <1>10, RegistrySteps

\* A build under way that is not cancelled has seen the folder since the last request: a
\* request cancels the builds that are older.
LEMMA BuildInvKept ==
    ASSUME RegistryTypes, StoreTypes, RegistryVersions, BuildInv, Next
    PROVE  BuildInv'
  <1> USE DEF RegistryTypes, BuildInv
  <1>1. CASE UNCHANGED registryVars
    BY <1>1 DEF registryVars
  <1>2. CASE Rescan
    BY <1>2 DEF Rescan, Cancel, Live, Task
  <1>3. CASE ScheduleIndex
    BY <1>3 DEF ScheduleIndex, Schedule, Queued, NoTask
  <1>4. CASE Shutdown BY <1>4 DEF Shutdown, NoTask
  <1>5. CASE Restart BY <1>5 DEF Restart, NoTask
  <1>6. CASE UNCHANGED <<row, catalog, tasks, remove, requested, server, restarts, rescans>>
    BY <1>6 DEF tasks
  <1>7. CASE ScanStep
    BY <1>7 DEF ScanStep, ScanStart, FinishScan, ScanFails, ScanUnstarted
  <1>8. CASE IndexStep
    <2>1. CASE IndexStart
      BY <2>1, SeenAtStart DEF NoTask, IndexStart, RegistryVersions, StoreTypes
    <2>2. CASE ~IndexStart
      BY <1>8, <2>2 DEF IndexStep, IndexDone, IndexFails, IndexCancelled, NoTask
    <2> QED BY <2>1, <2>2
  <1>9. CASE RemoveStep
    BY <1>9 DEF RemoveStep, RemoveStart, RemoveDrained, RemoveRefused, Unregister, tasks,
       Cancel, Live, Task
  <1>10. CASE RecoverLive BY <1>10 DEF RecoverLive, tasks
  <1> QED
    BY <1>1, <1>2, <1>3, <1>4, <1>5, <1>6, <1>7, <1>8, <1>9, <1>10, RegistrySteps

\* The catalog in memory is from the last request or later.
LEMMA CatalogIsFreshKept ==
    ASSUME RegistryTypes, BuildInv, CatalogIsFresh, Next
    PROVE  CatalogIsFresh'
  <1> USE DEF RegistryTypes, CatalogIsFresh
  <1>1. CASE UNCHANGED registryVars
    BY <1>1, Zenon DEF registryVars
  <1>2. CASE Rescan BY <1>2 DEF Rescan
  <1>3. CASE ScheduleIndex BY <1>3 DEF ScheduleIndex, row
  <1>4. CASE Shutdown BY <1>4 DEF Shutdown
  <1>5. CASE Restart BY <1>5 DEF Restart
  <1>6. CASE UNCHANGED <<row, catalog, tasks, remove, requested, server, restarts, rescans>>
    BY <1>6 DEF row
  <1>7. CASE ScanStep
    BY <1>7 DEF ScanStep, ScanStart, FinishScan, ScanFails, ScanUnstarted, row
  <1>8. CASE IndexStep
    BY <1>8 DEF IndexStep, IndexStart, IndexDone, IndexFails, IndexCancelled, BuildInv,
       Cancelled, Task, row
  <1>9. CASE RemoveStep
    BY <1>9 DEF RemoveStep, RemoveStart, RemoveDrained, RemoveRefused, Unregister,
       UnregisterDataset, row
  <1>10. CASE RecoverLive BY <1>10 DEF RecoverLive
  <1> QED
    BY <1>1, <1>2, <1>3, <1>4, <1>5, <1>6, <1>7, <1>8, <1>9, <1>10, RegistrySteps

\* A row that is shown as scanning has a task until the task has said how it ended, or it was
\* left behind by a server whose successor does not recover the registry.
LEMMA ScanningHasTaskKept ==
    ASSUME RegistryTypes, RemovedIsEmpty, ScanningHasTask, Next
    PROVE  ScanningHasTask'
  <1> USE DEF RegistryTypes, RemovedIsEmpty
  <1> DEFINE Follows == status' = "scanning" =>
                 status = "scanning" /\ (scan.state # "none" => scan'.state # "none")
  \* A row that was scanning already, and whose task goes on, is left to the same server.
  <1>1. ASSUME Follows, UNCHANGED server, ~Restart
        PROVE  ScanningHasTask'
    BY <1>1, StaysClosed, Zenon DEF ScanningHasTask, server
  <1>2. CASE Restart
    <2>1. CASE worker'
      <3>1. status' # "scanning" BY <1>2, <2>1 DEF Restart, RecoverRegistry
      <3> QED BY <3>1, Zenon DEF ScanningHasTask
    <2>2. CASE ~worker'
      <3>1. orphan' <=> status' = "scanning" BY <1>2, Zenon DEF Restart
      <3> QED BY <2>2, <3>1, Zenon DEF ScanningHasTask
    <2> QED BY <2>1, <2>2
  <1>3. CASE Rescan
    <2>1. scan'.state # "none" BY <1>3 DEF Rescan, Schedule, Live, Queued, NoTask
    <2> QED BY <2>1, Zenon DEF ScanningHasTask
  <1>4. CASE Shutdown
    <2>1. Closed' BY <1>4 DEF Shutdown, CloseBegin, Closed
    <2> QED BY <2>1, Zenon DEF ScanningHasTask
  <1>5. CASE RecoverLive \/ Unregister
    <2>1. status' # "scanning"
      BY <1>5 DEF RecoverLive, RecoverRegistry, Unregister, UnregisterDataset
    <2> QED BY <2>1, Zenon DEF ScanningHasTask
  <1>6. CASE UNCHANGED registryVars
    BY <1>1, <1>2, <1>6, Zenon DEF registryVars, server
  <1>7. CASE \/ ScheduleIndex
             \/ UNCHANGED <<row, catalog, tasks, remove, requested, server, restarts, rescans>>
    <2>1. UNCHANGED <<row, scan, server>>
      BY <1>7, Zenon DEF ScheduleIndex, tasks
    <2> QED BY <1>1, <1>2, <2>1, Zenon DEF row
  <1>8. CASE ScanStep
    <2>1. Follows
      BY <1>8 DEF ScanStep, ScanStart, FinishScan, FinishDatasetScan, ScanFails,
         FailDatasetScan, ScanUnstarted, NoTask, Task, row
    <2>2. UNCHANGED server
      BY <1>8, Zenon DEF ScanStep, ScanStart, FinishScan, ScanFails, ScanUnstarted
    <2> QED BY <1>1, <1>2, <2>1, <2>2
  <1>9. CASE IndexStep
    <2>1. UNCHANGED <<status, scan, server>>
      BY <1>9, Zenon DEF IndexStep, IndexStart, IndexDone, IndexFails, IndexCancelled, row
    <2> QED BY <1>1, <1>2, <2>1, Zenon
  <1>10. CASE RemoveStart \/ RemoveDrained \/ RemoveRefused
    <2>1. Follows
      BY <1>10 DEF RemoveStart, RemoveDrained, RemoveRefused, Cancel, Task, Live, row, tasks
    <2>2. UNCHANGED server
      BY <1>10, Zenon DEF RemoveStart, RemoveDrained, RemoveRefused
    <2> QED BY <1>1, <1>2, <2>1, <2>2
  <1> QED
    BY <1>2, <1>3, <1>4, <1>5, <1>6, <1>7, <1>8, <1>9, <1>10, RegistrySteps, Zenon DEF RemoveStep

-------------------------------------------------------------------------------
(* The reader *)

\* What the keys and the files are.
LEMMA KeyFacts ==
    /\ AnyKey \in Key
    /\ \A k \in Key : SourceOfKey(k) \in Source /\ k.version \in Version /\ Cached(k) \in Key
    /\ \A b \in Block, v \in Version, kind \in Kind :
          [block |-> b, version |-> v, kind |-> kind] \in Key
    /\ \A k \in Key : Cached(k).version = k.version
  <1>1. \A b \in Block, v \in Version, kind \in Kind :
          [block |-> b, version |-> v, kind |-> kind] \in Key
    BY DEF Key
  <1>2. AnyKey \in Key
    <2>1. PICK b \in Block : TRUE  OBVIOUS
    <2>2. 0 \in Version /\ "records" \in Kind
      BY DEF Kind
    <2>3. [block |-> b, version |-> 0, kind |-> "records"] \in Key
      BY <1>1, <2>1, <2>2, Zenon
    <2> QED BY <2>3, Zenon DEF AnyKey
  <1>3. \A k \in Key : SourceOfKey(k) \in Source /\ k.version \in Version
    BY DEF Key, Source, SourceOfKey
  <1>4. \A k \in Key : Cached(k) \in Key /\ Cached(k).version = k.version
    BY DEF Cached, Key, Kind
  <1> QED BY <1>1, <1>2, <1>3, <1>4

\* What a step does to the reader: nothing, or it is one of its operations.
LEMMA ReaderSteps ==
    ASSUME Next
    PROVE  \/ UNCHANGED readerVars
           \/ \E t \in Thread, b \in Block, kind \in Kind : ReadBlock(t, b, kind)
           \/ (\E t \in Thread : Respond(t)) \/ CloseBegin \/ Restart
           \/ (\E s \in Source : CloseLock(s)) \/ CloseEnd
           \/ \E t \in Thread : ReadStep(t)
  <1>1. "preview" \in Kind /\ "records" \in Kind
    BY DEF Kind
  <1> QED
    BY <1>1, Zenon DEF Next, LoopStep, ReplaceFiles, Rescan, ScheduleIndex, Shutdown, Points,
       PoleBase, ScanStep, ScanStart, FinishScan, ScanFails, ScanUnstarted,
       IndexStep, IndexStart, IndexDone, IndexFails, IndexCancelled, RemoveStep, RemoveStart,
       RemoveDrained, RemoveRefused, Unregister, RecoverLive, Closing, CloseStep, Reading

\* A step of a thread that neither decodes nor waits, before and after it, and of the files'
\* locks and handles, leaves the flights as they are.
LEMMA OutOfFlight ==
    ASSUME SingleFlight, NEW t \in Thread,
           ~Owner(t), pc[t] # "wait", ~Owner(t)', pc'[t] # "wait",
           \A u \in Thread \ {t} : pc'[u] = pc[u] /\ key'[u] = key[u],
           inflight' = inflight, blocks' = blocks, closer' = closer
    PROVE  SingleFlight'
  <1>1. \A u \in Thread : Owner(u)' <=> Owner(u)
    BY DEF Owner
  <1>2. \A u \in Thread : pc'[u] = "wait" <=> pc[u] = "wait"
    OBVIOUS
  <1>3. \A u \in Thread : Owner(u) \/ pc[u] = "wait" => key'[u] = key[u]
    OBVIOUS
  <1>4. \A k \in inflight : \E u \in Thread : Owner(u)' /\ key'[u] = k
    BY <1>1, <1>3 DEF SingleFlight
  <1>5. \A u \in Thread : Owner(u)' => key'[u] \in inflight \/ closer = "closed"
    BY <1>1, <1>3 DEF SingleFlight
  <1>6. \A u, v \in Thread : Owner(u)' /\ Owner(v)' /\ key'[u] = key'[v] => u = v
    BY <1>1, <1>3 DEF SingleFlight
  <1>7. \A u \in Thread : Owner(u)' => blocks[key'[u]] = None
    BY <1>1, <1>3 DEF SingleFlight
  <1>8. \A u \in Thread : pc'[u] = "wait" => key'[u] \in inflight
    BY <1>2, <1>3, Zenon DEF SingleFlight
  <1> QED BY <1>4, <1>5, <1>6, <1>7, <1>8, Zenon DEF SingleFlight

\* A future that gets its result ends its flight: its owner is done, and who waits for it is
\* woken up with the same result.
LEMMA FlightEnds ==
    ASSUME ThreadTypes, SingleFlight, NEW t \in Thread, Owner(t),
           NEW result \in Version \cup {Error}, Resolve(t, key[t], result, "done"),
           inflight \in SUBSET Key, closer' = closer,
           \A k \in Key \ {key[t]} : blocks'[k] \in {None, blocks[k]}
    PROVE  /\ ThreadTypes' /\ SingleFlight'
           /\ key' = key /\ inflight' \in SUBSET Key
           /\ pc'[t] = "done"
           /\ \A u \in Thread \ {t} : pc'[u] = pc[u] \/ (pc[u] = "wait" /\ pc'[u] = "woken")
           /\ \A u \in Thread : \/ got'[u] = got[u]
                                \/ key[u] = key[t] /\ got'[u] = result
  <1> USE DEF ThreadTypes, Resolve
  <1>1. key' = key /\ pc'[t] = "done" /\ got'[t] = result /\ inflight' = inflight \ {key[t]}
    OBVIOUS
  <1>2. \A u \in Thread \ {t} :
           \/ pc'[u] = pc[u] /\ got'[u] = got[u] /\ (pc[u] = "wait" => key[u] # key[t])
           \/ pc[u] = "wait" /\ pc'[u] = "woken" /\ got'[u] = result /\ key[u] = key[t]
    BY DEF SingleFlight
  <1>3. ThreadTypes'
    BY <1>1, <1>2
  <1> HIDE DEF Resolve
  <1>4. \A u \in Thread : Owner(u)' => u # t /\ Owner(u)
    BY <1>1, <1>2 DEF Owner
  <1>5. \A u \in Thread : Owner(u) => u = t \/ Owner(u)'
    BY <1>2 DEF Owner
  <1>6. SingleFlight'
    <2>1. \A u, v \in Thread : Owner(u)' /\ Owner(v)' /\ key'[u] = key'[v] => u = v
      BY <1>1, <1>4 DEF SingleFlight
    <2>2. \A u \in Thread : Owner(u)' => blocks'[key'[u]] = None
      BY <1>1, <1>4 DEF SingleFlight
    <2>3. \A u \in Thread : pc'[u] = "wait" => key'[u] \in inflight'
      BY <1>1, <1>2 DEF SingleFlight
    <2>4. \A k \in inflight' : \E u \in Thread : Owner(u)' /\ key'[u] = k
      BY <1>1, <1>5 DEF SingleFlight
    <2>5. \A u \in Thread : Owner(u)' => key'[u] \in inflight' \/ closer' = "closed"
      BY <1>1, <1>4 DEF SingleFlight
    <2> QED BY <2>1, <2>2, <2>3, <2>4, <2>5, Zenon DEF SingleFlight
  <1> QED BY <1>1, <1>2, <1>3, <1>6

-------------------------------------------------------------------------------
(* Reads *)

\* A hit takes what the cache holds.
LEMMA LookupHitKeeps ==
    ASSUME ReaderInv, NEW t \in Thread, LookupHit(t)
    PROVE  ReaderInv'
  <1> USE KeyFacts DEF ReaderInv, ThreadTypes, StoreTypes, LookupHit, cacheVars, closeVars
  <1>1. ThreadTypes' /\ StoreTypes'
    OBVIOUS
  <1>2. LocksHeld' /\ ClosedIsEmpty' /\ HandleInv' /\ AskedFor'
    BY DEF LocksHeld, ClosedIsEmpty, HandleInv, AskedFor
  <1>3. SingleFlight'
    <2>1. /\ ~Owner(t) /\ pc[t] # "wait" /\ ~Owner(t)' /\ pc'[t] # "wait"
          /\ \A u \in Thread \ {t} : pc'[u] = pc[u] /\ key'[u] = key[u]
          /\ inflight' = inflight /\ blocks' = blocks /\ closer' = closer
      BY DEF Owner
    <2> QED BY <2>1, OutOfFlight, Zenon
  <1>4. NeverOlder'
    BY DEF NeverOlder
  <1> QED BY <1>1, <1>2, <1>3, <1>4

\* A miss makes the thread the owner of the key's flight, or one that waits for its owner.
LEMMA LookupMissKeeps ==
    ASSUME ReaderInv, NEW t \in Thread, LookupMiss(t)
    PROVE  ReaderInv'
  <1> USE KeyFacts DEF ReaderInv, ThreadTypes, StoreTypes, LookupMiss, cacheVars, closeVars
  <1>1. ThreadTypes' /\ StoreTypes'
    OBVIOUS
  <1>2. LocksHeld' /\ ClosedIsEmpty' /\ HandleInv' /\ NeverOlder' /\ AskedFor'
    BY DEF LocksHeld, ClosedIsEmpty, HandleInv, NeverOlder, AskedFor
  <1>3. SingleFlight'
    <2>1. blocks[key[t]] = None
      BY DEF Cached
    <2>2. closer # "closed"
      BY DEF Closed
    <2>3. \A u \in Thread \ {t} : pc'[u] = pc[u]
      OBVIOUS
    <2>4. CASE key[t] \in inflight
      <3>1. pc'[t] = "wait" /\ inflight' = inflight
        BY <2>4
      <3>2. \A u \in Thread : Owner(u)' <=> Owner(u)
        BY <2>3, <3>1 DEF Owner
      <3> QED BY <2>1, <2>3, <2>4, <3>1, <3>2 DEF SingleFlight
    <2>5. CASE key[t] \notin inflight
      <3>1. pc'[t] = "lock" /\ inflight' = inflight \cup {key[t]}
        BY <2>5
      <3>2. \A u \in Thread : Owner(u)' <=> Owner(u) \/ u = t
        BY <2>3, <3>1 DEF Owner
      <3>3. \A u \in Thread : Owner(u) => key[u] # key[t]
        BY <2>2, <2>5 DEF SingleFlight
      <3> QED BY <2>1, <2>3, <3>1, <3>2, <3>3 DEF SingleFlight
    <2> QED BY <2>4, <2>5
  <1> QED BY <1>1, <1>2, <1>3

\* The thread finds the cache closed.
LEMMA LookupClosedKeeps ==
    ASSUME ReaderInv, NEW t \in Thread, LookupClosed(t)
    PROVE  ReaderInv'
  <1> USE KeyFacts DEF ReaderInv, ThreadTypes, StoreTypes, LookupClosed, cacheVars, closeVars
  <1>1. ThreadTypes' /\ StoreTypes'
    OBVIOUS
  <1>2. LocksHeld' /\ ClosedIsEmpty' /\ HandleInv' /\ NeverOlder' /\ AskedFor'
    BY DEF LocksHeld, ClosedIsEmpty, HandleInv, NeverOlder, AskedFor
  <1>3. SingleFlight'
    <2>1. /\ ~Owner(t) /\ pc[t] # "wait" /\ ~Owner(t)' /\ pc'[t] # "wait"
          /\ \A u \in Thread \ {t} : pc'[u] = pc[u] /\ key'[u] = key[u]
          /\ inflight' = inflight /\ blocks' = blocks /\ closer' = closer
      BY DEF Owner
    <2> QED BY <2>1, OutOfFlight, Zenon
  <1> QED BY <1>1, <1>2, <1>3

\* The owner of a flight takes the lock of its file.
LEMMA TakeLockKeeps ==
    ASSUME ReaderInv, NEW t \in Thread, TakeLock(t)
    PROVE  ReaderInv'
  <1> USE KeyFacts DEF ReaderInv, ThreadTypes, StoreTypes, TakeLock, cacheVars, closeVars, Free,
                       Closed
  <1>1. ThreadTypes' /\ StoreTypes'
    OBVIOUS
  <1>2. LocksHeld'
    BY DEF LocksHeld
  <1>3. ClosedIsEmpty' /\ HandleInv' /\ NeverOlder' /\ AskedFor'
    BY DEF ClosedIsEmpty, HandleInv, NeverOlder, AskedFor
  <1>4. SingleFlight'
    BY DEF SingleFlight, Owner
  <1> QED BY <1>1, <1>2, <1>3, <1>4

\* What the cache holds once stale versions are discarded.
LEMMA Discarded ==
    ASSUME blocks \in [Key -> Version \cup {None}], NEW s, NEW v, DiscardStale(s, v)
    PROVE  /\ blocks' \in [Key -> Version \cup {None}]
           /\ \A k \in Key : blocks'[k] \in {None, blocks[k]}
  BY DEF DiscardStale

\* ... and once a block is retained.
LEMMA Retained ==
    ASSUME blocks \in [Key -> Version \cup {None}], NEW k \in Key, NEW data \in Version,
           Retain(k, data)
    PROVE  /\ blocks' \in [Key -> Version \cup {None}]
           /\ \A j \in Key \ {k} : blocks'[j] \in {None, blocks[j]}
           /\ blocks'[k] \in {None, blocks[k], data}
  BY DEF Retain, cacheVars

\* The thread that has the lock of a file is the only one at its handle.
LEMMA AloneAtHandle ==
    ASSUME LocksHeld, NEW t \in Thread, pc[t] \in {"open", "decode"},
           NEW u \in Thread, u # t, pc[u] \in {"open", "decode"}
    PROVE  SourceOfKey(key[u]) # SourceOfKey(key[t])
  BY DEF LocksHeld

\* The handle is opened for the version of the key, and what it reads is at least as new.
LEMMA OpenHandleKeeps ==
    ASSUME ReaderInv, NEW t \in Thread, OpenHandle(t)
    PROVE  ReaderInv'
  <1> DEFINE s == SourceOfKey(key[t])
             v == key[t].version
  <1> USE KeyFacts DEF ReaderInv, ThreadTypes, StoreTypes
  <1>1. /\ pc[t] = "open" /\ pc' = [pc EXCEPT ![t] = "decode"]
        /\ UNCHANGED <<disk, inflight, lock, key, got, closer, held>>
    BY DEF OpenHandle, closeVars
  <1>2. /\ s \in Source /\ v \in Version
        /\ handle' \in [Source -> [version : Version \cup {None}, data : Version \cup {None}]]
        /\ \A r \in Source \ {s} : handle'[r] = handle[r]
        /\ handle'[s].version = v
        /\ handle'[s] = handle[s] \/ handle'[s].data = disk
    <2>1. s \in Source /\ v \in Version
      BY DEF OpenHandle
    <2>2. CASE Current(s, v)
      BY <2>1, <2>2 DEF OpenHandle, Current
    <2>3. CASE ~Current(s, v)
      <3>1. handle' = [handle EXCEPT ![s] = [version |-> v, data |-> disk]]
        BY <2>3 DEF OpenHandle
      <3> QED BY <2>1, <3>1
    <2> QED BY <2>2, <2>3
  <1>3. /\ blocks' \in [Key -> Version \cup {None}]
        /\ \A k \in Key : blocks'[k] \in {None, blocks[k]}
    BY Discarded DEF OpenHandle, cacheVars
  <1>4. ThreadTypes' /\ StoreTypes'
    BY <1>1, <1>2, <1>3
  <1>5. LocksHeld'
    BY <1>1 DEF LocksHeld
  <1>6. SingleFlight'
    BY <1>1, <1>3 DEF SingleFlight, Owner
  <1>7. ClosedIsEmpty' /\ AskedFor'
    BY <1>1 DEF ClosedIsEmpty, HandleInv, AskedFor
  <1>8. NeverOlder'
    <2>1. \A k \in Key : blocks'[k] # None => blocks'[k] >= k.version
      BY <1>3 DEF NeverOlder
    <2>2. v <= disk
      BY <1>1 DEF AskedFor
    <2>3. handle'[s].data >= v
      BY <1>2, <2>2 DEF NeverOlder
    <2>4. \A r \in Source : handle'[r].version # None => handle'[r].data >= handle'[r].version
      BY <1>2, <2>3 DEF NeverOlder
    <2> QED BY <1>1, <2>1, <2>4 DEF NeverOlder
  <1>9. HandleInv'
    <2>1. ASSUME NEW u \in Thread, pc'[u] = "decode"
          PROVE  handle'[SourceOfKey(key'[u])].version = key'[u].version
      BY <1>1, <1>2, <2>1, AloneAtHandle DEF HandleInv
    <2> QED BY <1>1, <2>1 DEF HandleInv
  <1> QED BY <1>4, <1>5, <1>6, <1>7, <1>8, <1>9

\* The block is kept and published: it is as new as the handle it was read through.
LEMMA DecodeKeeps ==
    ASSUME ReaderInv, NEW t \in Thread, Decode(t)
    PROVE  ReaderInv'
  <1> DEFINE s    == SourceOfKey(key[t])
             data == Content(s)
  <1> USE KeyFacts DEF ReaderInv
  <1>1. /\ pc[t] = "decode" /\ lock' = [lock EXCEPT ![s] = None]
        /\ UNCHANGED <<disk, handle, closer, held>>
        /\ Retain(key[t], data) /\ Resolve(t, key[t], data, "done")
    BY DEF Decode, closeVars
  <1>2. key[t] \in Key /\ s \in Source
    BY DEF ThreadTypes
  <1>3. data \in Version /\ data >= key[t].version
    BY <1>1, <1>2 DEF Content, HandleInv, NeverOlder, StoreTypes
  <1>4. /\ blocks' \in [Key -> Version \cup {None}]
        /\ \A j \in Key \ {key[t]} : blocks'[j] \in {None, blocks[j]}
        /\ blocks'[key[t]] \in {None, blocks[key[t]], data}
    BY <1>1, <1>2, <1>3, Retained DEF StoreTypes
  <1> HIDE DEF data
  <1>5. Owner(t) /\ inflight \in SUBSET Key /\ data \in Version \cup {Error}
    BY <1>1, <1>3 DEF Owner, StoreTypes
  <1>6. /\ ThreadTypes' /\ SingleFlight' /\ key' = key /\ inflight' \in SUBSET Key
        /\ pc'[t] = "done"
        /\ \A u \in Thread \ {t} : pc'[u] = pc[u] \/ (pc[u] = "wait" /\ pc'[u] = "woken")
        /\ \A u \in Thread : got'[u] = got[u] \/ (key[u] = key[t] /\ got'[u] = data)
    BY <1>1, <1>4, <1>5, FlightEnds
  <1>7. StoreTypes'
    BY <1>1, <1>4, <1>6 DEF StoreTypes
  <1>8. LocksHeld'
    BY <1>1, <1>2, <1>6, AloneAtHandle DEF LocksHeld, StoreTypes, ThreadTypes
  <1>9. ClosedIsEmpty' /\ HandleInv' /\ AskedFor'
    BY <1>1, <1>6 DEF ClosedIsEmpty, HandleInv, AskedFor
  <1>10. NeverOlder'
    <2>1. \A k \in Key : blocks'[k] # None => blocks'[k] >= k.version
      BY <1>3, <1>4 DEF NeverOlder
    <2>2. \A u \in Thread : got'[u] \in Version => got'[u] >= key'[u].version
      BY <1>3, <1>6 DEF NeverOlder
    <2> QED BY <1>1, <2>1, <2>2 DEF NeverOlder
  <1> QED BY <1>6, <1>7, <1>8, <1>9, <1>10

\* The decode raises, for the thread and for those that wait for it.
LEMMA DecodeFailsKeeps ==
    ASSUME ReaderInv, NEW t \in Thread, DecodeFails(t)
    PROVE  ReaderInv'
  <1> DEFINE s == SourceOfKey(key[t])
  <1> USE KeyFacts DEF ReaderInv
  <1>1. /\ pc[t] = "decode" /\ lock' = [lock EXCEPT ![s] = None]
        /\ UNCHANGED <<disk, blocks, handle, closer, held>>
        /\ Resolve(t, key[t], Error, "done")
    BY DEF DecodeFails, closeVars, cacheVars
  <1>2. key[t] \in Key /\ s \in Source
    BY DEF ThreadTypes
  <1>3. Owner(t) /\ inflight \in SUBSET Key
    BY <1>1 DEF Owner, StoreTypes
  <1>4. /\ ThreadTypes' /\ SingleFlight' /\ key' = key /\ inflight' \in SUBSET Key
        /\ pc'[t] = "done"
        /\ \A u \in Thread \ {t} : pc'[u] = pc[u] \/ (pc[u] = "wait" /\ pc'[u] = "woken")
        /\ \A u \in Thread : got'[u] = got[u] \/ got'[u] = Error
    BY <1>1, <1>3, FlightEnds
  <1>5. StoreTypes'
    BY <1>1, <1>4 DEF StoreTypes
  <1>6. LocksHeld'
    BY <1>1, <1>2, <1>4, AloneAtHandle DEF LocksHeld, StoreTypes, ThreadTypes
  <1>7. ClosedIsEmpty' /\ HandleInv' /\ AskedFor' /\ NeverOlder'
    BY <1>1, <1>4 DEF ClosedIsEmpty, HandleInv, AskedFor, NeverOlder
  <1> QED BY <1>4, <1>5, <1>6, <1>7

\* The owner of a flight finds the cache closed and gives it up.
LEMMA LockClosedKeeps ==
    ASSUME ReaderInv, NEW t \in Thread, LockClosed(t)
    PROVE  ReaderInv'
  <1> USE KeyFacts DEF ReaderInv
  <1>1. /\ pc[t] = "lock" /\ UNCHANGED <<disk, blocks, handle, lock, closer, held>>
        /\ Resolve(t, key[t], Error, "done")
    BY DEF LockClosed, closeVars, cacheVars
  <1>2. Owner(t) /\ inflight \in SUBSET Key
    BY <1>1 DEF Owner, StoreTypes
  <1>3. /\ ThreadTypes' /\ SingleFlight' /\ key' = key /\ inflight' \in SUBSET Key
        /\ pc'[t] = "done"
        /\ \A u \in Thread \ {t} : pc'[u] = pc[u] \/ (pc[u] = "wait" /\ pc'[u] = "woken")
        /\ \A u \in Thread : got'[u] = got[u] \/ got'[u] = Error
    BY <1>1, <1>2, FlightEnds
  <1>4. StoreTypes'
    BY <1>1, <1>3 DEF StoreTypes
  <1>5. LocksHeld'
    BY <1>1, <1>3 DEF LocksHeld
  <1>6. ClosedIsEmpty' /\ HandleInv' /\ AskedFor' /\ NeverOlder'
    BY <1>1, <1>3 DEF ClosedIsEmpty, HandleInv, AskedFor, NeverOlder
  <1> QED BY <1>3, <1>4, <1>5, <1>6

\* The wait of a thread is over.
LEMMA WakeUpKeeps ==
    ASSUME ReaderInv, NEW t \in Thread, WakeUp(t)
    PROVE  ReaderInv'
  <1> USE KeyFacts DEF ReaderInv, ThreadTypes, StoreTypes, WakeUp, closeVars
  <1>1. ThreadTypes' /\ StoreTypes'
    OBVIOUS
  <1>2. LocksHeld' /\ ClosedIsEmpty' /\ HandleInv' /\ NeverOlder' /\ AskedFor'
    BY DEF LocksHeld, ClosedIsEmpty, HandleInv, NeverOlder, AskedFor
  <1>3. SingleFlight'
    <2>1. /\ ~Owner(t) /\ pc[t] # "wait" /\ ~Owner(t)' /\ pc'[t] # "wait"
          /\ \A u \in Thread \ {t} : pc'[u] = pc[u] /\ key'[u] = key[u]
          /\ inflight' = inflight /\ blocks' = blocks /\ closer' = closer
      BY DEF Owner
    <2> QED BY <2>1, OutOfFlight, Zenon
  <1> QED BY <1>1, <1>2, <1>3

-------------------------------------------------------------------------------
(* Requests, close() and the restart *)

\* A thread sets out to read the version of the catalog in memory.
LEMMA ReadBlockKeeps ==
    ASSUME ReaderInv, RegistryTypes, RegistryVersions,
           NEW t \in Thread, NEW b \in Block, NEW kind \in Kind, ReadBlock(t, b, kind)
    PROVE  ReaderInv'
  <1> DEFINE k == [block |-> b, version |-> catalog, kind |-> kind]
  <1> USE KeyFacts DEF ReaderInv
  <1>1. k \in Key /\ k.version <= disk
    BY DEF ReadBlock, RegistryTypes, RegistryVersions
  <1>2. /\ pc[t] = "idle" /\ key' = [key EXCEPT ![t] = k] /\ pc' = [pc EXCEPT ![t] = "lookup"]
        /\ UNCHANGED <<disk, blocks, inflight, handle, lock, got, closer, held>>
    BY DEF ReadBlock, Request, cacheVars, closeVars
  <1> HIDE DEF k
  <1>3. got[t] = None
    BY <1>2 DEF ThreadTypes
  <1>4. ThreadTypes' /\ StoreTypes'
    BY <1>1, <1>2 DEF ThreadTypes, StoreTypes
  <1>5. SingleFlight'
    <2>1. /\ ~Owner(t) /\ pc[t] # "wait" /\ ~Owner(t)' /\ pc'[t] # "wait"
          /\ \A u \in Thread \ {t} : pc'[u] = pc[u] /\ key'[u] = key[u]
      BY <1>2 DEF Owner, ThreadTypes
    <2> QED BY <1>2, <2>1, OutOfFlight, Zenon
  <1>6. LocksHeld' /\ ClosedIsEmpty' /\ HandleInv' /\ NeverOlder' /\ AskedFor'
    BY <1>1, <1>2, <1>3
       DEF ThreadTypes, LocksHeld, ClosedIsEmpty, HandleInv, NeverOlder, AskedFor
  <1> QED BY <1>4, <1>5, <1>6

\* The thread is free again.
LEMMA RespondKeeps ==
    ASSUME ReaderInv, NEW t \in Thread, Respond(t)
    PROVE  ReaderInv'
  <1> USE KeyFacts DEF ReaderInv
  <1>1. /\ pc[t] = "done" /\ key' = [key EXCEPT ![t] = AnyKey]
        /\ pc' = [pc EXCEPT ![t] = "idle"] /\ got' = [got EXCEPT ![t] = None]
        /\ UNCHANGED <<disk, blocks, inflight, handle, lock, closer, held>>
    BY DEF Respond, cacheVars, closeVars
  <1>2. ThreadTypes' /\ StoreTypes'
    BY <1>1 DEF ThreadTypes, StoreTypes
  <1>3. SingleFlight'
    <2>1. /\ ~Owner(t) /\ pc[t] # "wait" /\ ~Owner(t)' /\ pc'[t] # "wait"
          /\ \A u \in Thread \ {t} : pc'[u] = pc[u] /\ key'[u] = key[u]
      BY <1>1 DEF Owner, ThreadTypes
    <2> QED BY <1>1, <2>1, OutOfFlight, Zenon
  <1>4. LocksHeld' /\ ClosedIsEmpty' /\ HandleInv' /\ NeverOlder' /\ AskedFor'
    BY <1>1 DEF ThreadTypes, LocksHeld, ClosedIsEmpty, HandleInv, NeverOlder, AskedFor
  <1> QED BY <1>2, <1>3, <1>4

\* close() takes the locks of the files one by one.
LEMMA ClosingKeeps ==
    ASSUME ReaderInv, CloseBegin \/ \E s \in Source : CloseLock(s)
    PROVE  ReaderInv'
  <1> USE DEF ReaderInv, CloseBegin, CloseLock, Free, cacheVars, threadVars
  <1>1. ThreadTypes' /\ StoreTypes'
    BY DEF ThreadTypes, StoreTypes
  <1>2. LocksHeld'
    BY DEF LocksHeld
  <1>3. SingleFlight'
    BY DEF SingleFlight, Owner
  <1>4. ClosedIsEmpty' /\ HandleInv' /\ NeverOlder' /\ AskedFor'
    BY DEF ClosedIsEmpty, HandleInv, NeverOlder, AskedFor
  <1> QED BY <1>1, <1>2, <1>3, <1>4

\* With all locks, close() knows that no thread is at a handle.  It empties the cache and
\* ends every flight.
LEMMA CloseEndKeeps ==
    ASSUME ReaderInv, CloseEnd
    PROVE  ReaderInv'
  <1> USE KeyFacts DEF ReaderInv
  <1>1. /\ held = Source /\ closer = "locking" /\ closer' = "closed" /\ held' = {}
        /\ handle' = NoHandle /\ blocks' = [k \in Key |-> None] /\ inflight' = {}
        /\ UNCHANGED <<disk, lock, key>>
    BY DEF CloseEnd, FailAll
  <1>2. \A t \in Thread : pc[t] \notin {"open", "decode"}
    BY <1>1 DEF LocksHeld, ThreadTypes
  <1>3. \A t \in Thread : \/ pc'[t] = pc[t] /\ got'[t] = got[t] /\ pc[t] # "wait"
                          \/ pc[t] = "wait" /\ pc'[t] = "woken" /\ got'[t] = Error
    BY DEF CloseEnd, FailAll, SingleFlight
  <1>4. ThreadTypes'
    BY <1>1, <1>3 DEF ThreadTypes, CloseEnd, FailAll
  <1>5. StoreTypes' /\ ClosedIsEmpty'
    BY <1>1 DEF StoreTypes, ClosedIsEmpty, NoHandle
  <1>6. LocksHeld' /\ HandleInv' /\ AskedFor'
    BY <1>1, <1>2, <1>3 DEF LocksHeld, HandleInv, AskedFor
  <1>7. NeverOlder'
    BY <1>1, <1>3 DEF NeverOlder, NoHandle
  <1>8. SingleFlight'
    <2>1. \A t \in Thread : Owner(t)' <=> Owner(t)
      BY <1>3 DEF Owner
    <2> QED BY <1>1, <1>3, <2>1 DEF SingleFlight, ThreadTypes
  <1> QED BY <1>4, <1>5, <1>6, <1>7, <1>8

\* A reader as it is at the start of a server.
LEMMA FreshReader ==
    ASSUME ReaderInit, disk \in Version
    PROVE  ReaderInv
  <1> USE KeyFacts DEF ReaderInit, NoHandle, ReaderInv
  <1>1. ThreadTypes /\ StoreTypes
    BY DEF ThreadTypes, StoreTypes
  <1>2. LocksHeld /\ SingleFlight
    BY DEF LocksHeld, SingleFlight, Owner
  <1>3. ClosedIsEmpty /\ NeverOlder /\ HandleInv /\ AskedFor
    BY DEF ClosedIsEmpty, NeverOlder, HandleInv, AskedFor
  <1> QED BY <1>1, <1>2, <1>3

\* A restart gives a reader like that.
LEMMA RestartKeeps ==
    ASSUME disk \in Version, Restart
    PROVE  ReaderInv'
  <1> USE KeyFacts DEF Restart, NoHandle, ReaderInv
  <1>1. ThreadTypes' /\ StoreTypes'
    BY DEF ThreadTypes, StoreTypes
  <1>2. LocksHeld' /\ SingleFlight'
    BY DEF LocksHeld, SingleFlight, Owner
  <1>3. ClosedIsEmpty' /\ NeverOlder' /\ HandleInv' /\ AskedFor'
    BY DEF ClosedIsEmpty, NeverOlder, HandleInv, AskedFor
  <1> QED BY <1>1, <1>2, <1>3

\* A step that is not one of the reader's leaves it as it is, if newer files are there.
LEMMA UntouchedKeeps ==
    ASSUME ReaderInv, UNCHANGED readerVars, disk' \in Version, disk' >= disk
    PROVE  ReaderInv'
  <1> USE DEF ReaderInv, readerVars
  <1>1. ThreadTypes' /\ StoreTypes'
    BY DEF ThreadTypes, StoreTypes
  <1>2. LocksHeld' /\ ClosedIsEmpty' /\ HandleInv' /\ NeverOlder'
    BY DEF LocksHeld, ClosedIsEmpty, HandleInv, NeverOlder
  <1>3. SingleFlight'
    BY DEF SingleFlight, Owner
  <1>4. AskedFor'
    BY KeyFacts DEF AskedFor, ThreadTypes, StoreTypes
  <1> QED BY <1>1, <1>2, <1>3, <1>4

\* Every step keeps the invariant of the reader.
LEMMA ReaderInvKept ==
    ASSUME ReaderInv, RegistryTypes, RegistryVersions, Next
    PROVE  ReaderInv'
  <1>1. disk \in Version /\ disk' \in Version /\ disk' >= disk
    BY DiskGrows DEF ReaderInv, StoreTypes
  <1>2. CASE UNCHANGED readerVars
    BY <1>1, <1>2, UntouchedKeeps
  <1>3. CASE \E t \in Thread, b \in Block, kind \in Kind : ReadBlock(t, b, kind)
    BY <1>3, ReadBlockKeeps, Zenon
  <1>4. CASE \E t \in Thread : Respond(t)
    BY <1>4, RespondKeeps, Zenon
  <1>5. CASE CloseBegin \/ \E s \in Source : CloseLock(s)
    BY <1>5, ClosingKeeps, Zenon
  <1>6. CASE CloseEnd
    BY <1>6, CloseEndKeeps, Zenon
  <1>7. CASE Restart
    BY <1>1, <1>7, RestartKeeps, Zenon
  <1>8. CASE \E t \in Thread : ReadStep(t)
    BY <1>8, LookupHitKeeps, LookupMissKeeps, LookupClosedKeeps, LockClosedKeeps, TakeLockKeeps,
       OpenHandleKeeps, DecodeKeeps, DecodeFailsKeeps, WakeUpKeeps, Zenon DEF ReadStep
  <1> QED
    BY <1>2, <1>3, <1>4, <1>5, <1>6, <1>7, <1>8, ReaderSteps, Zenon

-------------------------------------------------------------------------------
(* The LRU *)

\* A key that is used moves to the end.
LEMMA TouchKeeps ==
    ASSUME AccountInv, NEW k \in Key, Touch(k), blocks' = blocks, cacheBytes' = cacheBytes
    PROVE  AccountInv'
  <1> USE DEF AccountInv, Accounting
  <1>1. CASE k \notin ToSet(order)
    BY <1>1 DEF Touch
  <1>2. CASE k \in ToSet(order)
    <2> DEFINE w == Without(order, {k})
    <2>1. w \in Seq(Key) /\ IsInjective(w) /\ ToSet(w) = ToSet(order) \ {k}
      BY WithoutProperties
    <2>2. order' = Append(w, k)
      BY <1>2 DEF Touch
    <2> HIDE DEF w
    <2>3. order' \in Seq(Key) /\ IsInjective(order') /\ ToSet(order') = ToSet(w) \cup {k}
      <3>1. k \notin ToSet(w)
        BY <2>1
      <3> QED BY <2>1, <2>2, <3>1, AppendedOnce
    <2>4. ToSet(order') = ToSet(order)
      BY <1>2, <2>1, <2>3
    <2>5. Len(order') = Len(order)
      BY <2>3, <2>4, OrderSize
    <2> QED BY <2>3, <2>4, <2>5
  <1> QED BY <1>1, <1>2

\* Stale versions leave the order and the counter together.
LEMMA DiscardKeeps ==
    ASSUME AccountInv, blocks \in [Key -> Version \cup {None}], NEW s, NEW v, DiscardStale(s, v)
    PROVE  AccountInv'
  <1> DEFINE gone == {j \in ToSet(order) : Stale(j, s, v)}
  <1> USE DEF AccountInv, Accounting
  <1>1. /\ order' = Without(order, gone) /\ cacheBytes' = cacheBytes - Bytes(gone)
        /\ blocks' = [j \in Key |-> IF j \in gone THEN None ELSE blocks[j]]
    BY DEF DiscardStale
  <1>2. gone \in SUBSET ToSet(order)
    OBVIOUS
  <1> HIDE DEF gone
  <1>3. order' \in Seq(Key) /\ IsInjective(order') /\ ToSet(order') = ToSet(order) \ gone
    BY <1>1, WithoutProperties
  <1>4. ToSet(order') = {k \in Key : blocks'[k] # None}
    BY <1>1, <1>3
  <1>5. IsFiniteSet(ToSet(order)) /\ ToSet(order) \in SUBSET Key
    BY OrderSize
  <1>6. cacheBytes' = Bytes(ToSet(order')) /\ cacheBytes' <= MaxBytes
    <2> DEFINE kept == ToSet(order)
    <2>1. cacheBytes = Bytes(kept) /\ cacheBytes <= MaxBytes /\ MaxBytes \in Nat
      BY ReaderAssumption
    <2>2. kept \in SUBSET Key /\ IsFiniteSet(kept) /\ gone \in SUBSET kept
      BY <1>2, <1>5
    <2>3. ToSet(order') = kept \ gone
      BY <1>3
    <2> HIDE DEF kept
    <2>4. /\ Bytes(kept \ gone) = Bytes(kept) - Bytes(gone)
          /\ Bytes(kept \ gone) \in Nat /\ Bytes(kept) \in Nat /\ Bytes(gone) \in Nat
      BY <2>2, BytesOfPart
    <2> QED BY <1>1, <2>1, <2>3, <2>4
  <1>7. Len(order') <= MaxEntries
    <2>1. Cardinality(ToSet(order')) <= Cardinality(ToSet(order))
      BY <1>3, <1>5, FS_Subset
    <2>2. /\ Cardinality(ToSet(order')) = Len(order') /\ Cardinality(ToSet(order)) = Len(order)
          /\ Len(order) \in Nat /\ Len(order') \in Nat
      BY <1>3, OrderSize
    <2> QED BY <2>1, <2>2
  <1> QED BY <1>3, <1>4, <1>6, <1>7

\* The limits hold once enough of the oldest entries are gone.
LEMMA ExcessFits ==
    ASSUME NEW keys \in Seq(Key), IsInjective(keys), NEW bytes, bytes = Bytes(ToSet(keys))
    PROVE  LET n == Excess(keys, bytes)
           IN  /\ n \in 0 .. Len(keys) /\ Len(keys) - n <= MaxEntries
               /\ bytes - Bytes(ToSet(SubSeq(keys, 1, n))) <= MaxBytes
  <1> DEFINE fits(m) == /\ Len(keys) - m <= MaxEntries
                        /\ bytes - Bytes(ToSet(SubSeq(keys, 1, m))) <= MaxBytes
             N       == {m \in 0 .. Len(keys) : fits(m)}
  <1>1. Len(keys) \in Nat /\ Len(keys) \in 0 .. Len(keys)
    OBVIOUS
  <1>2. Bytes(ToSet(keys)) \in Nat
    <2>1. IsFiniteSet(ToSet(keys)) /\ ToSet(keys) \in SUBSET Key
      BY OrderSize DEF ToSet
    <2> QED BY <2>1, BytesOfPart
  <1>3. fits(Len(keys))
    <2>1. SubSeq(keys, 1, Len(keys)) = keys
      BY SubSeqFull, Zenon
    <2>2. Bytes(ToSet(SubSeq(keys, 1, Len(keys)))) = bytes
      BY <2>1, Zenon
    <2>3. bytes \in Nat
      BY <1>2, Zenon
    <2> QED BY <1>1, <2>2, <2>3
  <1>4. N # {} /\ N \in SUBSET Nat
    BY <1>1, <1>3
  <1> HIDE DEF fits
  <1>5. PICK n \in N : \A m \in N : n <= m
    BY <1>4, LeastNumber
  <1>6. n \in 0 .. Len(keys) /\ fits(n) /\ \A m \in 0 .. n - 1 : ~fits(m)
    BY <1>1, <1>5
  <1>7. Excess(keys, bytes) = CHOOSE m \in 0 .. Len(keys) :
                                  fits(m) /\ \A j \in 0 .. m - 1 : ~fits(j)
    BY Zenon DEF Excess, fits
  <1>8. Excess(keys, bytes) \in 0 .. Len(keys) /\ fits(Excess(keys, bytes))
    BY <1>6, <1>7, Zenon
  <1> QED BY <1>8 DEF fits

\* A block that was not held comes in, and the oldest go.
LEMMA RetainKeeps ==
    ASSUME AccountInv, blocks \in [Key -> Version \cup {None}],
           NEW k \in Key, NEW data \in Version, blocks[k] = None, Retain(k, data)
    PROVE  AccountInv'
  <1> USE DEF AccountInv, Accounting
  <1>1. CASE UNCHANGED cacheVars
    BY <1>1 DEF cacheVars
  <1>2. CASE ~UNCHANGED cacheVars
    <2> DEFINE keys  == Append(order, k)
               bytes == cacheBytes + Weight[k.kind]
               n     == Excess(keys, bytes)
               gone  == ToSet(SubSeq(keys, 1, n))
    <2>1. /\ order' = SubSeq(keys, n + 1, Len(keys)) /\ cacheBytes' = bytes - Bytes(gone)
          /\ blocks' = [j \in Key |-> IF j \in gone THEN None
                                      ELSE IF j = k THEN data ELSE blocks[j]]
      BY <1>2, Zenon DEF Retain
    <2>2. /\ keys \in Seq(Key) /\ IsInjective(keys) /\ ToSet(keys) = ToSet(order) \cup {k}
          /\ k \notin ToSet(order)
      <3>1. k \notin ToSet(order)
        OBVIOUS
      <3> QED BY <3>1, AppendedOnce
    <2>3. IsFiniteSet(ToSet(order)) /\ ToSet(order) \in SUBSET Key /\ IsFiniteSet(ToSet(keys))
      BY <2>2, OrderSize
    <2>4. bytes = Bytes(ToSet(keys))
      <3>1. IsFiniteSet({k}) /\ Bytes({k}) = Weight[k.kind]
        BY BytesOfOne, FS_Singleton
      <3>2. Bytes(ToSet(order) \cup {k}) = Bytes(ToSet(order)) + Bytes({k})
        <4>1. ToSet(order) \cap {k} = {} /\ {k} \in SUBSET Key
          BY <2>2
        <4> QED BY <2>3, <3>1, <4>1, BytesOfBoth
      <3> QED BY <2>2, <3>1, <3>2
    <2> HIDE DEF keys, bytes
    <2>5. n \in 0 .. Len(keys) /\ Len(keys) - n <= MaxEntries /\ bytes - Bytes(gone) <= MaxBytes
      BY <2>2, <2>4, ExcessFits
    <2> HIDE DEF n
    <2>6. /\ order' \in Seq(Key) /\ IsInjective(order') /\ Len(order') = Len(keys) - n
          /\ gone \subseteq ToSet(keys) /\ ToSet(order') = ToSet(keys) \ gone
      BY <2>1, <2>2, <2>5, CutInTwo
    <2> HIDE DEF gone
    <2>7. cacheBytes' = Bytes(ToSet(order'))
      <3>1. ToSet(keys) \in SUBSET Key /\ gone \in SUBSET ToSet(keys)
        BY <2>2, <2>3, <2>6
      <3> QED BY <2>1, <2>3, <2>4, <2>6, <3>1, BytesOfPart
    <2>8. ToSet(order') = {j \in Key : blocks'[j] # None}
      BY <2>1, <2>2, <2>6
    <2> QED BY <2>1, <2>5, <2>6, <2>7, <2>8
  <1> QED BY <1>1, <1>2

\* An empty cache.
LEMMA EmptyKeeps ==
    /\ blocks = [k \in Key |-> None] /\ order = <<>> /\ cacheBytes = 0 => AccountInv
    /\ blocks' = [k \in Key |-> None] /\ order' = <<>> /\ cacheBytes' = 0 => AccountInv'
  <1>1. ToSet(<<>>) = {} /\ <<>> \in Seq(Key) /\ Len(<<>>) = 0 /\ IsInjective(<<>>)
    BY EmptySeq DEF ToSet, IsInjective
  <1>2. {k \in Key : [j \in Key |-> None][k] # None} = {}
    OBVIOUS
  <1>3. MaxEntries >= 0 /\ MaxBytes >= 0
    OBVIOUS
  <1> QED BY <1>1, <1>2, <1>3, BytesOfNone DEF AccountInv, Accounting

\* What a step does to the LRU.
LEMMA CacheSteps ==
    ASSUME Next
    PROVE  \/ UNCHANGED cacheVars
           \/ \E t \in Thread : LookupHit(t) \/ WakeUp(t) \/ OpenHandle(t) \/ Decode(t)
           \/ CloseEnd \/ Restart
  <1>1. CASE UNCHANGED readerVars
    BY <1>1, Zenon DEF readerVars, cacheVars
  <1> QED
    BY <1>1, ReaderSteps, Zenon DEF ReadBlock, Request, Respond, CloseBegin, CloseLock, ReadStep,
       LookupMiss, LookupClosed, LockClosed, TakeLock, DecodeFails

\* The LRU and its counter agree after every step.
LEMMA AccountInvKept ==
    ASSUME AccountInv, ReaderInv, Next
    PROVE  AccountInv'
  <1> USE KeyFacts DEF ReaderInv
  <1>1. CASE UNCHANGED cacheVars
    BY <1>1 DEF cacheVars, AccountInv, Accounting
  <1>2. ASSUME NEW t \in Thread, LookupHit(t) PROVE AccountInv'
    <2>1. key[t] \in Key /\ Cached(key[t]) \in Key
      BY DEF ThreadTypes
    <2> QED BY <1>2, <2>1, TouchKeeps DEF LookupHit
  <1>3. ASSUME NEW t \in Thread, WakeUp(t) PROVE AccountInv'
    <2>1. key[t] \in Key
      BY DEF ThreadTypes
    <2>2. CASE UNCHANGED order
      BY <1>3, <2>2 DEF WakeUp, AccountInv, Accounting
    <2>3. CASE Touch(key[t])
      BY <1>3, <2>1, <2>3, TouchKeeps DEF WakeUp
    <2> QED BY <1>3, <2>2, <2>3 DEF WakeUp
  <1>4. ASSUME NEW t \in Thread, OpenHandle(t) PROVE AccountInv'
    <2>1. blocks \in [Key -> Version \cup {None}]
      BY DEF StoreTypes
    <2>2. UNCHANGED cacheVars \/ DiscardStale(SourceOfKey(key[t]), key[t].version)
      BY <1>4, Zenon DEF OpenHandle
    <2> QED BY <1>1, <2>1, <2>2, DiscardKeeps
  <1>5. ASSUME NEW t \in Thread, Decode(t) PROVE AccountInv'
    <2>1. /\ key[t] \in Key /\ pc[t] = "decode" /\ blocks[key[t]] = None
          /\ blocks \in [Key -> Version \cup {None}]
      BY <1>5 DEF Decode, ThreadTypes, StoreTypes, SingleFlight, Owner
    <2>2. Content(SourceOfKey(key[t])) \in Version
      BY <2>1 DEF Content, HandleInv, NeverOlder, StoreTypes
    <2>3. Retain(key[t], Content(SourceOfKey(key[t])))
      BY <1>5, Zenon DEF Decode
    <2> QED BY <2>1, <2>2, <2>3, RetainKeeps
  <1>6. CASE CloseEnd
    BY <1>6, EmptyKeeps DEF CloseEnd
  <1>7. CASE Restart
    BY <1>7, EmptyKeeps DEF Restart
  <1> QED BY <1>1, <1>2, <1>3, <1>4, <1>5, <1>6, <1>7, CacheSteps

-------------------------------------------------------------------------------
(* The theorems *)

\* The invariant holds at first.
LEMMA InitialInvariant ==
    ASSUME Init
    PROVE  IndInv
  <1>1. ReaderInv
    BY FreshReader DEF Init
  <1>2. RegistryTypes
    <2>1. registered \in BOOLEAN /\ frames \in BOOLEAN
      BY Zenon DEF Init
    <2>2. scan \in Task /\ index \in Task
      BY TaskValues, Zenon DEF Init
    <2>3. worker \in BOOLEAN /\ orphan \in BOOLEAN
      BY Zenon DEF Init
    <2> QED BY <2>1, <2>2, <2>3 DEF Init, RegistryTypes
  <1>3. RegistryVersions /\ BuildInv
    BY DEF Init, RegistryVersions, BuildInv, NoTask
  <1>4. RegistrySound
    BY DEF Init, RegistrySound, RemovedIsEmpty, ScanningHasTask, CatalogIsFresh
  <1>5. AccountInv
    BY EmptyKeeps DEF Init, ReaderInit
  <1> QED BY <1>1, <1>2, <1>3, <1>4, <1>5 DEF IndInv, RegistryInv

\* ... and is kept by every step.
LEMMA InvariantKept ==
    ASSUME IndInv, [Next]_vars
    PROVE  IndInv'
  <1>1. CASE Next
    <2> USE DEF IndInv, RegistryInv
    <2>1. StoreTypes
      BY DEF ReaderInv
    <2>2. ReaderInv'
      BY <1>1, ReaderInvKept
    <2>3. RegistryTypes' /\ RegistryVersions' /\ BuildInv'
      BY <1>1, <2>1, RegistryTypesKept, RegistryVersionsKept, BuildInvKept
    <2>4. RegistrySound'
      BY <1>1, RemovedIsEmptyKept, CatalogIsFreshKept, ScanningHasTaskKept DEF RegistrySound
    <2>5. AccountInv'
      BY <1>1, AccountInvKept
    <2> QED BY <2>2, <2>3, <2>4, <2>5
  <1>2. CASE UNCHANGED vars
    <2>1. UNCHANGED readerVars /\ UNCHANGED registryVars /\ disk' = disk
      BY <1>2, Zenon DEF vars, readerVars, registryVars
    <2>2. ReaderInv'
      BY <2>1, UntouchedKeeps DEF IndInv, ReaderInv, StoreTypes
    <2>3. RegistryTypes' /\ RegistryVersions' /\ BuildInv'
      BY <2>1 DEF IndInv, RegistryInv, registryVars, RegistryTypes, RegistryVersions, BuildInv
    <2>4. RegistrySound'
      BY <1>2 DEF IndInv, RegistryInv, vars, RegistrySound, RemovedIsEmpty, ScanningHasTask,
         CatalogIsFresh, Closed
    <2>5. AccountInv'
      BY <1>2 DEF IndInv, AccountInv, Accounting, vars
    <2> QED BY <2>2, <2>3, <2>4, <2>5 DEF IndInv, RegistryInv
  <1> QED BY <1>1, <1>2

\* The invariant of the reader, of its LRU and of the registry holds in every state.
THEOREM Invariance == Spec => []IndInv
  BY InitialInvariant, InvariantKept, PTL DEF Spec

\* The registry, its tasks and the reader keep to their values.
THEOREM TypeCorrectness == Spec => []TypeOK
  <1>1. IndInv => TypeOK
    BY DEF IndInv, ReaderInv, RegistryInv, TypeOK, ReaderTypeOK, ThreadTypes, StoreTypes,
       RegistryTypes
  <1> QED BY <1>1, Invariance, PTL

\* Points are never older than the version of the file that they are asked for, although
\* files are replaced, handles reopened, blocks evicted and the reader closed meanwhile.
THEOREM Freshness == Spec => []NeverOlder
  <1>1. IndInv => NeverOlder
    BY DEF IndInv, ReaderInv
  <1> QED BY <1>1, Invariance, PTL

\* A file's lock has one holder, a key is decoded by one thread whose answer all others get,
\* the LRU, its order and its byte counter agree within the limits, and a closed reader holds
\* nothing.
THEOREM CacheSafety == Spec => []CacheSound
  <1>1. IndInv => CacheSound
    BY DEF IndInv, ReaderInv, AccountInv, CacheSound
  <1> QED BY <1>1, Invariance, PTL

\* A removed dataset stays empty; one that is shown as being indexed is, unless its server
\* died and the one that is up has no run worker; and the catalog that previews use is not
\* from before the last request to scan.
THEOREM RegistrySafety == Spec => []RegistrySound
  <1>1. IndInv => RegistrySound
    BY DEF IndInv, RegistryInv
  <1> QED BY <1>1, Invariance, PTL
================================================================================
