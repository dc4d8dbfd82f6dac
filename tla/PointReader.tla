------------------------------ MODULE PointReader ------------------------------
(* PointCloudReaderCache (pointcloud.py): the cache that preview, pole and     *)
(* pipeline threads share.  Decoded blocks live in an LRU bounded by entries   *)
(* and bytes, one thread decodes a key while the others wait for its future,   *)
(* a source file has one open handle and one lock, and close() may come while  *)
(* threads read.                                                               *)
(*                                                                             *)
(* A block is identified by its key: the block, the version of its file that   *)
(* the catalog recorded, and whether all records or the display fields are     *)
(* wanted.  What is decoded is abstracted to the version of the file it was    *)
(* read from, and its size to a weight.                                        *)
EXTENDS Integers, SequencesExt

CONSTANTS
    Thread,      \* reading threads
    Block,       \* blocks of the point cloud
    SourceOf,    \* the file of a block
    Weight,      \* bytes of the records and of the display fields of a block
    MaxEntries, MaxBytes,  \* limits of the LRU
    MaxVersion   \* bound on replacements of the files

Kind    == {"records", "preview"}
Version == 0 .. MaxVersion
Source  == {SourceOf[b] : b \in Block}
Key     == [block : Block, version : Version, kind : Kind]
None    == -1
Error   == -2

ASSUME ReaderAssumption ==
    /\ MaxVersion \in Nat /\ MaxEntries \in Nat /\ MaxBytes \in Nat
    /\ Weight \in [Kind -> Nat]
    /\ Block # {} /\ None \notin Thread

VARIABLES
    disk,        \* version of the files on disk
    blocks,      \* _decoded_blocks: what each key holds, or None
    order,       \* ... and its order, least recently used first
    cacheBytes,  \* _decoded_cache_bytes
    inflight,    \* keys of _inflight_decodes
    handle,      \* of each source: its version key and what the file held then
    lock,        \* of each source: the thread that holds it
    pc, key, got,  \* of each thread: where it is, what it reads, its result
    closer, held   \* close(): how far it is, and the source locks it has

cacheVars  == <<blocks, order, cacheBytes>>
threadVars == <<pc, key, got>>
closeVars  == <<closer, held>>
readerVars == <<blocks, order, cacheBytes, inflight, handle, lock,
                pc, key, got, closer, held>>

------------------------------------------------------------------------------

\* _closed is set by the first step of close().
Closed == closer # "open"

SourceOfKey(k) == SourceOf[k.block]

\* The key of a thread that reads nothing.
AnyKey == CHOOSE k \in Key : TRUE

\* The lock of a source is a re-entrant lock of one thread or of close().
Free(s) == lock[s] = None /\ s \notin held

\* The order without some keys.
Without(keys, gone) ==
    LET kept[n \in 0 .. Len(keys)] ==
            IF n = 0 THEN <<>>
            ELSE IF keys[n] \in gone THEN kept[n - 1] ELSE Append(kept[n - 1], keys[n])
    IN  kept[Len(keys)]

\* move_to_end, of a key that is in the LRU
Touch(k) == order' = IF k \in ToSet(order) THEN Append(Without(order, {k}), k)
                                           ELSE order

\* The bytes of a set of keys, each byte a pair of its key and a number.
Bytes(keys) == Cardinality(UNION {{k} \X (1 .. Weight[k.kind]) : k \in keys})

\* The oldest entries that must go, for the limits to hold again.
Excess(keys, bytes) ==
    CHOOSE n \in 0 .. Len(keys) :
        LET fits(m) == /\ Len(keys) - m <= MaxEntries
                       /\ bytes - Bytes(ToSet(SubSeq(keys, 1, m))) <= MaxBytes
        IN  fits(n) /\ \A m \in 0 .. n - 1 : ~fits(m)

\* Mutant of Retain: what is evicted stays counted.
RetainUncounted(k, data) ==
    IF Closed \/ MaxEntries = 0 \/ MaxBytes = 0 \/ Weight[k.kind] > MaxBytes
    THEN UNCHANGED cacheVars
    ELSE LET keys == Append(order, k)
             n    == Excess(keys, Bytes(ToSet(keys)))
             gone == ToSet(SubSeq(keys, 1, n))
         IN  /\ order' = SubSeq(keys, n + 1, Len(keys))
             /\ blocks' = [j \in Key |-> IF j \in gone THEN None
                                         ELSE IF j = k THEN data ELSE blocks[j]]
             /\ cacheBytes' = cacheBytes + Weight[k.kind]

\* A decoded block is kept, unless the cache is closed or it is too large, and
\* the oldest ones are evicted.
Retain(k, data) ==
    IF Closed \/ MaxEntries = 0 \/ MaxBytes = 0 \/ Weight[k.kind] > MaxBytes
    THEN UNCHANGED cacheVars
    ELSE LET keys  == Append(order, k)
             bytes == cacheBytes + Weight[k.kind]
             n     == Excess(keys, bytes)
             gone  == ToSet(SubSeq(keys, 1, n))
         IN  /\ order' = SubSeq(keys, n + 1, Len(keys))
             /\ blocks' = [j \in Key |-> IF j \in gone THEN None
                                         ELSE IF j = k THEN data ELSE blocks[j]]
             /\ cacheBytes' = bytes - Bytes(gone)

\* Keys of source s decoded under another version than v.
Stale(j, s, v) == SourceOfKey(j) = s /\ j.version # v

\* _discard_stale_decoded_blocks
DiscardStale(s, v) ==
    LET gone == {j \in ToSet(order) : Stale(j, s, v)}
    IN  /\ order' = Without(order, gone)
        /\ blocks' = [j \in Key |-> IF j \in gone THEN None ELSE blocks[j]]
        /\ cacheBytes' = cacheBytes - Bytes(gone)

\* The future of k gets a result: the threads that wait for it wake up, and
\* thread t, its owner, goes to pc `next`.
Resolve(t, k, result, next) ==
    /\ inflight' = inflight \ {k}
    /\ LET waiters == IF k \in inflight
                      THEN {u \in Thread : pc[u] = "wait" /\ key[u] = k} ELSE {}
       IN  /\ pc' = [u \in Thread |-> IF u = t THEN next
                                      ELSE IF u \in waiters THEN "woken" ELSE pc[u]]
           /\ got' = [u \in Thread |-> IF u \in waiters \cup {t} THEN result
                                       ELSE got[u]]
    /\ UNCHANGED key

------------------------------------------------------------------------------
(* A read: read_preview_block, read_block_points, read_block_records *)

\* A thread sets out to read the block of a key.
Request(t, k) ==
    /\ pc[t] = "idle"
    /\ key' = [key EXCEPT ![t] = k] /\ pc' = [pc EXCEPT ![t] = "lookup"]
    /\ UNCHANGED <<disk, cacheVars, inflight, handle, lock, got, closeVars>>

\* A preview is served from the full records of the block when they are cached.
Cached(k) ==
    LET full == [k EXCEPT !.kind = "records"]
    IN  IF blocks[full] # None THEN full ELSE k

LookupHit(t) ==
    /\ pc[t] = "lookup" /\ ~Closed /\ blocks[Cached(key[t])] # None
    /\ Touch(Cached(key[t]))
    /\ got' = [got EXCEPT ![t] = blocks[Cached(key[t])]]
    /\ pc' = [pc EXCEPT ![t] = "done"]
    /\ UNCHANGED <<disk, blocks, cacheBytes, inflight, handle, lock, key, closeVars>>

\* The first thread that misses a key decodes it, the others wait for it.
LookupMiss(t) ==
    /\ pc[t] = "lookup" /\ ~Closed /\ blocks[Cached(key[t])] = None
    /\ inflight' = inflight \cup {key[t]}
    /\ pc' = [pc EXCEPT ![t] = IF key[t] \in inflight THEN "wait" ELSE "lock"]
    /\ UNCHANGED <<disk, cacheVars, handle, lock, key, got, closeVars>>

\* _source_lock and _cached_records raise when the cache is closed.
LookupClosed(t) ==
    /\ pc[t] = "lookup" /\ Closed
    /\ pc' = [pc EXCEPT ![t] = "done"] /\ got' = [got EXCEPT ![t] = Error]
    /\ UNCHANGED <<disk, cacheVars, inflight, handle, lock, key, closeVars>>

\* The owner enters the source lock and finds the cache closed: it gives up the
\* future, and the lock again.
LockClosed(t) ==
    /\ pc[t] = "lock" /\ Free(SourceOfKey(key[t])) /\ Closed
    /\ Resolve(t, key[t], Error, "done")
    /\ UNCHANGED <<disk, cacheVars, handle, lock, closeVars>>

TakeLock(t) ==
    /\ pc[t] = "lock" /\ Free(SourceOfKey(key[t])) /\ ~Closed
    /\ lock' = [lock EXCEPT ![SourceOfKey(key[t])] = t]
    /\ pc' = [pc EXCEPT ![t] = "open"]
    /\ UNCHANGED <<disk, cacheVars, inflight, handle, key, got, closeVars>>

\* Mutant of Current: any open handle is good.
Opened(s, v) == handle[s].version # None

\* The open handle of source s is one of version v.
Current(s, v) == handle[s].version = v

\* _las_reader, _pcdb_connection: the handle is reopened when the catalog has
\* another version than the one it was opened for.
OpenHandle(t) ==
    LET s == SourceOfKey(key[t])
        v == key[t].version
    IN  /\ pc[t] = "open"
        /\ pc' = [pc EXCEPT ![t] = "decode"]
        /\ IF Current(s, v) THEN UNCHANGED handle
           ELSE handle' = [handle EXCEPT ![s] = [version |-> v, data |-> disk]]
        /\ IF Current(s, v) \/ handle[s].version = None THEN UNCHANGED cacheVars
           ELSE DiscardStale(s, v)
        /\ UNCHANGED <<disk, inflight, lock, key, got, closeVars>>

\* What _read_las_records and its like return for a block of source s.
Content(s) == handle[s].data

\* The block is decoded; the result is kept and published.
Decode(t) ==
    LET s == SourceOfKey(key[t])
    IN  /\ pc[t] = "decode"
        /\ Retain(key[t], Content(s))
        /\ Resolve(t, key[t], Content(s), "done")
        /\ lock' = [lock EXCEPT ![s] = None]
        /\ UNCHANGED <<disk, handle, closeVars>>

\* Mutant of DecodeFails: the exception passes by the future.
DecodeFailsSilently(t) ==
    /\ pc[t] = "decode"
    /\ pc' = [pc EXCEPT ![t] = "done"] /\ got' = [got EXCEPT ![t] = Error]
    /\ lock' = [lock EXCEPT ![SourceOfKey(key[t])] = None]
    /\ UNCHANGED <<disk, cacheVars, inflight, key, handle, closeVars>>

\* The decode raises: so does every thread that waits for it.
DecodeFails(t) ==
    /\ pc[t] = "decode"
    /\ Resolve(t, key[t], Error, "done")
    /\ lock' = [lock EXCEPT ![SourceOfKey(key[t])] = None]
    /\ UNCHANGED <<disk, cacheVars, handle, closeVars>>

\* A thread whose wait is over moves the block to the end of the LRU; when the
\* future raised, so does it.
WakeUp(t) ==
    /\ pc[t] = "woken"
    /\ pc' = [pc EXCEPT ![t] = "done"]
    /\ IF got[t] = Error THEN UNCHANGED order ELSE Touch(key[t])
    /\ UNCHANGED <<disk, blocks, cacheBytes, inflight, handle, lock, key, got, closeVars>>

------------------------------------------------------------------------------
(* close *)

CloseBegin ==
    /\ closer = "open" /\ closer' = "locking"
    /\ UNCHANGED <<disk, cacheVars, inflight, handle, lock, threadVars, held>>

CloseLock(s) ==
    /\ closer = "locking" /\ Free(s)
    /\ held' = held \cup {s}
    /\ UNCHANGED <<disk, cacheVars, inflight, handle, lock, threadVars, closer>>

NoHandle == [s \in Source |-> [version |-> None, data |-> None]]

\* Mutant of FailAll: the futures end without an exception or a result.
EndAll ==
    /\ inflight' = {}
    /\ pc' = [u \in Thread |-> IF pc[u] = "wait" THEN "woken" ELSE pc[u]]
    /\ UNCHANGED <<key, got>>

\* The futures that are left raise.
FailAll ==
    /\ inflight' = {}
    /\ LET waiters == {u \in Thread : pc[u] = "wait" /\ key[u] \in inflight}
       IN  /\ pc' = [u \in Thread |-> IF u \in waiters THEN "woken" ELSE pc[u]]
           /\ got' = [u \in Thread |-> IF u \in waiters THEN Error ELSE got[u]]
    /\ UNCHANGED key

\* With every source lock, handles are closed and the cache is emptied.
CloseEnd ==
    /\ closer = "locking" /\ held = Source
    /\ closer' = "closed" /\ held' = {}
    /\ handle' = NoHandle
    /\ blocks' = [k \in Key |-> None] /\ order' = <<>> /\ cacheBytes' = 0
    /\ FailAll
    /\ UNCHANGED <<disk, lock>>

------------------------------------------------------------------------------

ReaderInit ==
    /\ blocks = [k \in Key |-> None] /\ order = <<>> /\ cacheBytes = 0
    /\ inflight = {} /\ handle = NoHandle /\ lock = [s \in Source |-> None]
    /\ pc = [t \in Thread |-> "idle"] /\ key = [t \in Thread |-> AnyKey]
    /\ got = [t \in Thread |-> None]
    /\ closer = "open" /\ held = {}

ReadStep(t) ==
    \/ LookupHit(t) \/ LookupMiss(t) \/ LookupClosed(t)
    \/ LockClosed(t) \/ TakeLock(t) \/ OpenHandle(t)
    \/ Decode(t) \/ DecodeFails(t) \/ WakeUp(t)

CloseStep == (\E s \in Source : CloseLock(s)) \/ CloseEnd

------------------------------------------------------------------------------
(* Properties *)

ReaderTypeOK ==
    /\ disk \in Version
    /\ blocks \in [Key -> Version \cup {None}] /\ inflight \in SUBSET Key
    /\ handle \in [Source -> [version : Version \cup {None}, data : Version \cup {None}]]
    /\ lock \in [Source -> Thread \cup {None}]
    /\ pc \in [Thread -> {"idle", "lookup", "lock", "open", "decode",
                          "wait", "woken", "done"}]
    /\ key \in [Thread -> Key] /\ got \in [Thread -> Version \cup {None, Error}]
    /\ \A t \in Thread : pc[t] \in {"woken", "done"} => got[t] # None
    /\ closer \in {"open", "locking", "closed"} /\ held \in SUBSET Source

\* The thread decodes its key, or is about to.
Owner(t) == pc[t] \in {"lock", "open", "decode"}

\* A source lock has one holder: the thread that uses the handle, or close().
LocksHeld ==
    /\ \A t \in Thread : pc[t] \in {"open", "decode"} => lock[SourceOfKey(key[t])] = t
    /\ \A s \in held : lock[s] = None
    /\ held # {} => closer = "locking"

\* A key is decoded by one thread at a time, is not in the LRU meanwhile, and
\* every thread that waits for it waits for a thread that will answer: the
\* coalescing of _cached_records, on its success, failure and closed paths.
SingleFlight ==
    /\ \A t, u \in Thread : Owner(t) /\ Owner(u) /\ key[t] = key[u] => t = u
    /\ \A t \in Thread : Owner(t) => blocks[key[t]] = None
    /\ \A t \in Thread : pc[t] = "wait" => key[t] \in inflight
    /\ \A k \in inflight : \E t \in Thread : Owner(t) /\ key[t] = k
    /\ \A t \in Thread : Owner(t) => key[t] \in inflight \/ closer = "closed"

\* The LRU and its byte counter agree, within the limits, through insertions,
\* evictions, discarded versions and close().
Accounting ==
    /\ ToSet(order) = {k \in Key : blocks[k] # None} /\ IsInjective(order)
    /\ cacheBytes = Bytes(ToSet(order))
    /\ Len(order) <= MaxEntries /\ cacheBytes <= MaxBytes

\* After close() nothing is open and nothing is kept.
ClosedIsEmpty == closer = "closed" => handle = NoHandle /\ blocks = [k \in Key |-> None]

CacheSound == LocksHeld /\ SingleFlight /\ Accounting /\ ClosedIsEmpty

\* Points are never older than the version of the file that they are asked for,
\* in the LRU, in an open handle or in an answer.
NeverOlder ==
    /\ \A k \in Key : blocks[k] # None => blocks[k] >= k.version
    /\ \A s \in Source : handle[s].version # None => handle[s].data >= handle[s].version
    /\ \A t \in Thread : got[t] \in Version => got[t] >= key[t].version

\* Every read comes back, with the block or with an exception, also when the
\* thread it waits for fails or the cache is closed meanwhile.
ReadsReturn == []<>(\A t \in Thread : pc[t] \in {"idle", "done"})
==============================================================================
