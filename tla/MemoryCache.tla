----------------------------- MODULE MemoryCache -----------------------------
(***************************************************************************)
(* MemoryCache<LocalFileSystemBlobStore> (src/store_impl/cache.rs), the    *)
(* store behind the cached_local_fs FFI (src/ffi/memory_cache.rs), called  *)
(* by several threads.                                                     *)
(*                                                                         *)
(*   lru, size   SizedCache: (key, size) entries, least recent first, and  *)
(*               the byte counter; behind the mutex `lru` (holder).        *)
(*   map         the DashMap of resident copies.  Its keys hash to shards  *)
(*               (shardOf, chosen by the map's RandomState); a Ref or      *)
(*               RefMut held by a thread is guard[t], a read or write      *)
(*               lock of that key's shard.                                 *)
(*   disk        the wrapped LocalFileSystemBlobStore.                     *)
(*                                                                         *)
(* Every call first takes the mutex (Acquire), then runs its locked part   *)
(* (one step: the mutex serialises it; it waits while a shard it must      *)
(* write is guarded by another thread).  put(Replace) and get keep a shard *)
(* guard after dropping the mutex and finish in a second step.  contains  *)
(* asks the store after dropping the mutex.                                *)
(*                                                                         *)
(* A panic (an unwrap or expect) inside an FFI method aborts the process   *)
(* (cxx does not unwind into C++); the application then reconnects, so a   *)
(* panic is modelled as Abort: every in-memory structure is lost, the disk *)
(* keeps what was written to it.                                           *)
(***************************************************************************)
EXTENDS BlobTypes, SequencesExt, FiniteSetsExt

CONSTANTS
  Threads,   \* FFI caller threads
  Cap,       \* the cache capacity in bytes (NonZeroUsize)
  Shards,    \* the DashMap shards the keys may hash to
  NoThread,  \* the mutex is free
  Bypass,    \* whether callers use the bypass_* methods
  IoFail     \* whether the store's system calls may fail (Error::Io)

ASSUME Cap \in Nat \ {0} /\ Bypass \in BOOLEAN

VARIABLES
  disk,      \* the files of the wrapped store
  lru,       \* SizedCache.cache: sequence of [key, size], least recent first
  size,      \* SizedCache.size
  map,       \* MemoryCache.map: key -> resident copy
  holder,    \* the thread holding the mutex lru, or NoThread
  guard,     \* guard[t]: the DashMap Ref / RefMut thread t holds
  shardOf,   \* the shard each key hashes to in the current map
  pc,        \* pc[t]: where thread t is in its call
  req,       \* req[t]: the FFI request thread t is serving
  resp,      \* resp[t]: the response of thread t's last completed call
  panicked   \* history: some call has panicked (and aborted the process)

vars == <<disk, lru, size, map, holder, guard, shardOf, pc, req, resp, panicked>>

\* The store's operators; its own request history is not used here.
LOCAL Fs == INSTANCE LocalFileSystem WITH parity <- [t \in Threads |-> FALSE]

NoGuard == [mode |-> "none", key |-> CHOOSE k \in Keys : TRUE]
EmptyMap == [k \in {} |-> <<>>]

(***************************************************************************)
(* SizedCache over lru::LruCache                                            *)
(***************************************************************************)
LruKeys(l) == {l[i].key : i \in DOMAIN l}
EntryOf(l, k) == l[CHOOSE i \in DOMAIN l : l[i].key = k]
Without(l, k) == SelectSeq(l, LAMBDA e : e.key /= k)

\* LruCache::get / SizedCache::contains: a hit becomes most recent.
Touch(l, k) == IF k \in LruKeys(l) THEN Append(Without(l, k), EntryOf(l, k)) ELSE l

\* SizedCache::push: pop least recent entries while size + s > cap (expect
\* fails on an empty cache), then LruCache::push, which replaces an entry
\* already there and makes it most recent, and size += s.
\* Mutant: the loop condition forgets the incoming size (size > cap).
RECURSIVE EvictLoopIgnoringIncoming(_, _, _, _)
EvictLoopIgnoringIncoming(l, sz, s, ev) ==
  IF sz <= Cap THEN [ok |-> TRUE, lru |-> l, size |-> sz, evict |-> ev]
  ELSE IF l = <<>> THEN [ok |-> FALSE, lru |-> l, size |-> sz, evict |-> ev]
  ELSE EvictLoopIgnoringIncoming(Tail(l), sz - Head(l).size, s, Append(ev, Head(l).key))

RECURSIVE EvictLoop(_, _, _, _)
EvictLoop(l, sz, s, ev) ==
  IF sz + s <= Cap THEN [ok |-> TRUE, lru |-> l, size |-> sz, evict |-> ev]
  ELSE IF l = <<>> THEN [ok |-> FALSE, lru |-> l, size |-> sz, evict |-> ev]
  ELSE EvictLoop(Tail(l), sz - Head(l).size, s, Append(ev, Head(l).key))

Push(l, sz, k, s) ==
  LET e == EvictLoop(l, sz, s, <<>>)
  IN [e EXCEPT !.lru = Append(Without(e.lru, k), [key |-> k, size |-> s]),
               !.size = e.size + s]

\* Mutant: remove peeks at the entry instead of popping it.
RemoveEntryPeeking(l, sz, k) ==
  IF k \in LruKeys(l) THEN [lru |-> l, size |-> sz - EntryOf(l, k).size]
  ELSE [lru |-> l, size |-> sz]

\* SizedCache::remove
RemoveEntry(l, sz, k) ==
  IF k \in LruKeys(l) THEN [lru |-> Without(l, k), size |-> sz - EntryOf(l, k).size]
  ELSE [lru |-> l, size |-> sz]

(***************************************************************************)
(* MemoryCache helpers                                                     *)
(***************************************************************************)
MapRemove(m, k) == [x \in DOMAIN m \ {k} |-> m[x]]
MapInsert(m, k, v) == [x \in DOMAIN m \cup {k} |-> IF x = k THEN v ELSE m[x]]

\* Mutant: victims are dropped from the map without being written back.
RECURSIVE FlushEvictDropping(_, _, _)
FlushEvictDropping(m, d, ev) ==
  IF ev = <<>> THEN {[ok |-> TRUE, err |-> FALSE, map |-> m, disk |-> d]}
  ELSE IF Head(ev) \notin DOMAIN m THEN {[ok |-> FALSE, err |-> FALSE, map |-> m, disk |-> d]}
  ELSE FlushEvictDropping(MapRemove(m, Head(ev)), d, Tail(ev))

\* flush_evict: for each victim in order, map.remove(key).unwrap() (ok is
\* FALSE when it panics) and store.put(key, data, ReplaceOrCreate)?, which
\* stops the loop at the first error (err), the victims after it left in
\* the map.  The set of every outcome.
RECURSIVE FlushEvict(_, _, _)
FlushEvict(m, d, ev) ==
  IF ev = <<>> THEN {[ok |-> TRUE, err |-> FALSE, map |-> m, disk |-> d]}
  ELSE IF Head(ev) \notin DOMAIN m THEN {[ok |-> FALSE, err |-> FALSE, map |-> m, disk |-> d]}
  ELSE LET rest == MapRemove(m, Head(ev)) IN
       UNION {IF w.r.st = "Ok" THEN FlushEvict(rest, w.disk, Tail(ev))
              ELSE {[ok |-> TRUE, err |-> TRUE, map |-> rest, disk |-> w.disk]} :
                w \in Fs!FsPutResults(d, Head(ev), m[Head(ev)], Fs!ReplaceOrCreate)}

\* The admission sequence of every miss and every create:
\* lru.push(key, len); self.flush_evict(evict)?; self.map.insert(key, data).
\* The set of its outcomes; shards are those whose write lock it takes.
Admits(k, data) ==
  LET p == Push(lru, size, k, Len(data)) IN
  {[ok     |-> p.ok /\ f.ok,
    err    |-> f.err,
    lru    |-> p.lru,
    size   |-> p.size,
    map    |-> IF f.err THEN f.map ELSE MapInsert(f.map, k, data),
    disk   |-> IF p.ok THEN f.disk ELSE disk,
    shards |-> {shardOf[v] : v \in Range(p.evict) \ DOMAIN f.map}
                 \cup IF f.err THEN {} ELSE {shardOf[k]}] :
     f \in FlushEvict(map, disk, p.evict)}

\* Thread t may write-lock (insert, remove, get_mut) / read-lock (get)
\* shard sh: no other thread holds a guard on it / a RefMut on it.
WriteFree(t, sh) == \A u \in Threads \ {t} :
                      guard[u].mode = "none" \/ shardOf[guard[u].key] /= sh
ReadFree(t, sh)  == \A u \in Threads \ {t} :
                      guard[u].mode /= "write" \/ shardOf[guard[u].key] /= sh

\* The process aborts on a panic and the application reconnects; the calls
\* in flight never return (their outcome is recorded as "Abort").
Abort(d) ==
  /\ disk' = d
  /\ lru' = <<>>
  /\ size' = 0
  /\ map' = EmptyMap
  /\ holder' = NoThread
  /\ guard' = [u \in Threads |-> NoGuard]
  /\ shardOf' \in [Keys -> Shards]
  /\ pc' = [u \in Threads |-> "idle"]
  /\ panicked' = TRUE
  /\ resp' = [u \in Threads |-> IF pc[u] = "idle" THEN resp[u] ELSE Err("Abort")]
  /\ UNCHANGED req

Return(t, r) ==
  /\ pc' = [pc EXCEPT ![t] = "idle"]
  /\ resp' = [resp EXCEPT ![t] = r]

\* The locked part ends: drop(lru).
Unlock == holder' = NoThread

InBody(t, names) == pc[t] = "body" /\ holder = t /\ req[t].name \in names

(***************************************************************************)
(* Actions                                                                 *)
(***************************************************************************)

\* Every cached call starts with self.lru.lock().
Acquire(t) ==
  /\ pc[t] = "idle"
  /\ holder = NoThread
  /\ \E o \in Requests : req' = [req EXCEPT ![t] = o]
  /\ holder' = t
  /\ pc' = [pc EXCEPT ![t] = "body"]
  /\ UNCHANGED <<disk, lru, size, map, guard, shardOf, resp, panicked>>

\* contains: a resident key answers true; otherwise drop the lock and ask
\* the store (StoreContains).
ContainsLocked(t) ==
  LET k == req[t].key IN
  /\ InBody(t, {"contains"})
  /\ Unlock
  /\ lru' = Touch(lru, k)
  /\ IF k \in LruKeys(lru)
     THEN Return(t, Ok(<<1>>))
     ELSE /\ pc' = [pc EXCEPT ![t] = "contains_store"]
          /\ UNCHANGED resp
  /\ UNCHANGED <<disk, size, map, guard, shardOf, req, panicked>>

StoreContains(t) ==
  /\ pc[t] = "contains_store"
  /\ Return(t, Fs!FsContains(disk, req[t].key))
  /\ UNCHANGED <<disk, lru, size, map, holder, guard, shardOf, req, panicked>>

\* meta: the size recorded in the lru, else store.meta (the if-let keeps
\* the lock over both branches).
Meta(t) ==
  LET k == req[t].key IN
  /\ InBody(t, {"blob_size"})
  /\ Unlock
  /\ lru' = Touch(lru, k)
  /\ Return(t, IF k \in LruKeys(lru) THEN Ok(<<EntryOf(lru, k).size>>)
               ELSE Fs!FsMeta(disk, k))
  /\ UNCHANGED <<disk, size, map, guard, shardOf, req, panicked>>

\* The cache structures an admission leaves.
Install(a) == lru' = a.lru /\ size' = a.size /\ map' = a.map

\* An admission whose flush_evict failed: the error is returned at once.
FailAdmit(t, a) ==
  /\ Install(a)
  /\ disk' = a.disk
  /\ Return(t, Err("Io"))
  /\ UNCHANGED <<guard, shardOf, panicked>>

\* put(Create): AlreadyExists if resident or in the store; else admit the
\* value, then return store.put(Create).
PutCreate(t) ==
  LET o == req[t]
      k == o.key
  IN
  /\ InBody(t, {"create"})
  /\ Unlock
  /\ IF k \in LruKeys(lru) \/ disk[k] /= NoBlob
     THEN /\ lru' = Touch(lru, k)
          /\ Return(t, Err("AlreadyExists"))
          /\ UNCHANGED <<disk, size, map, guard, shardOf, panicked>>
     ELSE \E a \in Admits(k, o.val) :
          /\ \A sh \in a.shards : WriteFree(t, sh)
          /\ CASE ~a.ok -> Abort(a.disk)
               [] a.err -> FailAdmit(t, a)
               [] OTHER -> \E w \in Fs!FsPutResults(a.disk, k, o.val, Fs!Create) :
                             /\ Install(a)
                             /\ disk' = w.disk
                             /\ Return(t, w.r)
                             /\ UNCHANGED <<guard, shardOf, panicked>>
  /\ UNCHANGED req

\* put(ReplaceOrCreate): admit the value unconditionally, then return
\* store.put.
PutReplaceOrCreate(t) ==
  LET o == req[t] IN
  /\ InBody(t, {"put_or_create"})
  /\ Unlock
  /\ \E a \in Admits(o.key, o.val) :
       /\ \A sh \in a.shards : WriteFree(t, sh)
       /\ CASE ~a.ok -> Abort(a.disk)
            [] a.err -> FailAdmit(t, a)
            [] OTHER -> \E w \in Fs!FsPutResults(a.disk, o.key, o.val, Fs!ReplaceOrCreate) :
                          /\ Install(a)
                          /\ disk' = w.disk
                          /\ Return(t, w.r)
                          /\ UNCHANGED <<guard, shardOf, panicked>>
  /\ UNCHANGED req

\* The locked part of put(Replace) and get: on a miss fetch from the store
\* (get_owned(All) for put, get_owned(opt) for get) and admit it; then take
\* map.get_mut / map.get of the key and drop the lock.
MissOpt(o) == IF o.name = "get_offset" THEN Fs!InRange(RangeOf(o)) ELSE Fs!All

LoadLocked(t) ==
  LET o    == req[t]
      k    == o.key
      mode == IF o.name = "put" THEN "write" ELSE "read"
      free == IF mode = "write" THEN WriteFree(t, shardOf[k]) ELSE ReadFree(t, shardOf[k])
      hold == /\ guard' = [guard EXCEPT ![t] = [mode |-> mode, key |-> k]]
              /\ pc' = [pc EXCEPT ![t] = IF mode = "write" THEN "replace_write" ELSE "get_read"]
              /\ UNCHANGED resp
  IN
  /\ InBody(t, {"put", "get_all", "get_offset"})
  /\ Unlock
  /\ IF k \in LruKeys(lru)
     THEN /\ free
          /\ lru' = Touch(lru, k)
          /\ IF k \notin DOMAIN map THEN Abort(disk)
             ELSE hold /\ UNCHANGED <<disk, size, map, shardOf, panicked>>
     ELSE LET g == Fs!GetOwned(disk, k, MissOpt(o)) IN
          IF g.st /= "Ok"
          THEN Return(t, g) /\ UNCHANGED <<disk, lru, size, map, guard, shardOf, panicked>>
          ELSE \E a \in Admits(k, g.out) :
               /\ \A sh \in a.shards : WriteFree(t, sh)
               /\ CASE ~a.ok -> Abort(a.disk)
                    [] a.err -> FailAdmit(t, a)
                    [] OTHER -> /\ free
                                /\ Install(a)
                                /\ disk' = a.disk
                                /\ hold
                                /\ UNCHANGED <<shardOf, panicked>>
  /\ UNCHANGED req

\* Mutant: the write after the unlock takes the lru mutex again (to touch
\* the entry) while it still holds the RefMut.
ReplaceWriteRelocking(t) ==
  LET o    == req[t]
      data == map[o.key]
      r    == RangeOf(o)
  IN
  /\ pc[t] = "replace_write"
  /\ holder = NoThread
  /\ IF Len(data) /= RangeLen(r) \/ ~InBounds(Len(data), r) \/ RangeLen(r) /= Len(o.val)
     THEN Return(t, Err("RangeError")) /\ UNCHANGED map
     ELSE Return(t, Ok(<<>>)) /\ map' = [map EXCEPT ![o.key] = Splice(data, r, o.val)]
  /\ guard' = [guard EXCEPT ![t] = NoGuard]
  /\ UNCHANGED <<disk, lru, size, holder, shardOf, req, panicked>>

\* put(Replace), after the lock is dropped: the resident copy must be
\* exactly the range; copy the value in.  Nothing reaches the store.
ReplaceWrite(t) ==
  LET o    == req[t]
      data == map[o.key]
      r    == RangeOf(o)
  IN
  /\ pc[t] = "replace_write"
  /\ IF Len(data) /= RangeLen(r) \/ ~InBounds(Len(data), r) \/ RangeLen(r) /= Len(o.val)
     THEN Return(t, Err("RangeError")) /\ UNCHANGED map
     ELSE Return(t, Ok(<<>>)) /\ map' = [map EXCEPT ![o.key] = Splice(data, r, o.val)]
  /\ guard' = [guard EXCEPT ![t] = NoGuard]
  /\ UNCHANGED <<disk, lru, size, holder, shardOf, req, panicked>>

\* get, after the lock is dropped: serve the resident copy.
GetRead(t) ==
  LET o    == req[t]
      data == map[o.key]
      r    == RangeOf(o)
      out  == IF o.name = "get_all" THEN data ELSE Slice(data, r)
  IN
  /\ pc[t] = "get_read"
  /\ Return(t, IF o.name = "get_offset" /\ ~InBounds(Len(data), r) THEN Err("RangeError")
               ELSE IF Len(out) /= o.len THEN Err("RangeError")
               ELSE Ok(out))
  /\ guard' = [guard EXCEPT ![t] = NoGuard]
  /\ UNCHANGED <<disk, lru, size, map, holder, shardOf, req, panicked>>

\* Mutant: delete forgets map.remove.
DeleteKeepingCopy(t) ==
  LET k == req[t].key
      e == RemoveEntry(lru, size, k)
  IN
  /\ InBody(t, {"remove"})
  /\ WriteFree(t, shardOf[k])
  /\ Unlock
  /\ lru' = e.lru
  /\ size' = e.size
  /\ \E d \in Fs!FsDeleteResults(disk, k) : disk' = d.disk /\ Return(t, d.r)
  /\ UNCHANGED <<map, guard, shardOf, req, panicked>>

\* delete(Discard): lru.remove, map.remove, store.delete, under the lock.
Delete(t) ==
  LET k == req[t].key
      e == RemoveEntry(lru, size, k)
  IN
  /\ InBody(t, {"remove"})
  /\ WriteFree(t, shardOf[k])
  /\ Unlock
  /\ lru' = e.lru
  /\ size' = e.size
  /\ map' = MapRemove(map, k)
  /\ \E d \in Fs!FsDeleteResults(disk, k) : disk' = d.disk /\ Return(t, d.r)
  /\ UNCHANGED <<guard, shardOf, req, panicked>>

\* bypass_put / bypass_get: straight to the store, without the lock.
BypassCall(t) ==
  /\ Bypass
  /\ pc[t] = "idle"
  /\ \E o \in Requests :
       /\ o.name \in {"create", "put", "put_or_create", "get_all", "get_offset"}
       /\ LET c == Fs!FsRequest(disk, o) IN
          /\ disk' = c.disk
          /\ resp' = [resp EXCEPT ![t] = c.r]
  /\ UNCHANGED <<lru, size, map, holder, guard, shardOf, pc, req, panicked>>

\* Drop: with no call in flight, write every resident copy back, least
\* recent first (a failed put is unwrapped: it panics); the application
\* then reconnects with an empty cache.
Reconnect ==
  /\ \A t \in Threads : pc[t] = "idle"
  /\ \E f \in FlushEvict(map, disk, [i \in DOMAIN lru |-> lru[i].key]) :
     IF ~f.ok \/ f.err THEN Abort(f.disk)
     ELSE /\ disk' = f.disk
          /\ lru' = <<>>
          /\ size' = 0
          /\ map' = EmptyMap
          /\ shardOf' \in [Keys -> Shards]
          /\ UNCHANGED <<holder, guard, pc, req, resp, panicked>>

(***************************************************************************)
(* Specification                                                           *)
(***************************************************************************)
Init ==
  /\ disk \in [Keys -> Values \cup {NoBlob}]
  /\ lru = <<>>
  /\ size = 0
  /\ map = EmptyMap
  /\ holder = NoThread
  /\ guard = [t \in Threads |-> NoGuard]
  /\ shardOf \in [Keys -> Shards]
  /\ pc = [t \in Threads |-> "idle"]
  /\ req = [t \in Threads |-> CHOOSE o \in Requests : TRUE]
  /\ resp = [t \in Threads |-> NoResp]
  /\ panicked = FALSE

Next ==
  \/ \E t \in Threads :
       \/ Acquire(t)
       \/ ContainsLocked(t)
       \/ StoreContains(t)
       \/ Meta(t)
       \/ PutCreate(t)
       \/ PutReplaceOrCreate(t)
       \/ LoadLocked(t)
       \/ ReplaceWrite(t)
       \/ GetRead(t)
       \/ Delete(t)
       \/ BypassCall(t)
  \/ Reconnect

Spec == Init /\ [][Next]_vars

\* The steps of a call after it holds the mutex.  Every thread is an OS
\* thread: one whose next step stays enabled is eventually scheduled.  A
\* call's steps are enabled except while it waits for a shard another
\* thread guards, and that thread's next step releases the guard without
\* waiting for anything.  Acquire, Reconnect and bypass calls are what a
\* caller may or may not do, and get no fairness.
CallStep(t) ==
  \/ ContainsLocked(t) \/ StoreContains(t) \/ Meta(t)
  \/ PutCreate(t) \/ PutReplaceOrCreate(t) \/ LoadLocked(t)
  \/ ReplaceWrite(t) \/ GetRead(t) \/ Delete(t)

FairSpec == Spec /\ \A t \in Threads : WF_vars(CallStep(t))

(***************************************************************************)
(* The logical content of the cached store: the resident copy of a key if  *)
(* it has one, else its file.                                              *)
(***************************************************************************)
Logical == [k \in Keys |-> IF k \in DOMAIN map THEN map[k] ELSE disk[k]]

ResidentBytes == MapThenSumSet(LAMBDA k : Len(map[k]), DOMAIN map)


TypeOK ==
  /\ disk \in [Keys -> Seq(Int) \cup {NoBlob}]
  /\ lru \in Seq([key : Keys, size : Nat])
  /\ size \in Nat
  /\ DOMAIN map \subseteq Keys /\ \A k \in DOMAIN map : map[k] \in Seq(Int)
  /\ holder \in Threads \cup {NoThread}
  /\ guard \in [Threads -> {NoGuard} \cup [mode : {"read", "write"}, key : Keys]]
  /\ shardOf \in [Keys -> Shards]
  /\ pc \in [Threads -> {"idle", "body", "contains_store", "replace_write", "get_read"}]
  /\ req \in [Threads -> Requests]
  /\ panicked \in BOOLEAN

(***************************************************************************)
(* Properties                                                              *)
(***************************************************************************)

\* As long as no store call fails, the lru and the map hold the same keys,
\* under every interleaving of the split calls, evictions, deletes and
\* aborts.  Every map.get(&key).unwrap(), map.get_mut(&key).unwrap() and
\* map.remove(&key).unwrap() in cache.rs (get, put(Replace), flush_evict,
\* drop) relies on it for a key the lru has.  A failed write-back in
\* flush_evict breaks it (the victims after it stay in the map, the new
\* key is in the lru only); runs that check it have IoFail = FALSE.
LruMapAgree == LruKeys(lru) = DOMAIN map

\* The resident copies never hold more bytes than the capacity: the
\* eviction loop of SizedCache::push keeps the byte budget.
ResidentWithinBudget == ResidentBytes <= Cap

\* No call panics: the expect("cache is too small") in SizedCache::push and
\* the unwraps of cache.rs are unreachable for every sequence of calls
\* whose blobs fit the capacity.
NoPanic == ~panicked

\* A get never changes a blob: when the locked part of get_all or
\* get_offset admits what it fetched from the store, the resident copy is
\* the blob it stands for.  get fetches with the caller's GetOpt, so a
\* get_offset miss installs only the range as the resident copy.
GetKeepsContent ==
  [][\A t \in Threads :
       InBody(t, {"get_all", "get_offset"}) /\ pc'[t] /= "body" => Logical' = Logical]_vars

\* put(Replace) fails with RangeError only when the range is out of the
\* blob's bounds (the length of range and value always agree at the FFI),
\* as the BlobStore::put documentation of lib.rs states.
ReplaceRangeErrorOnlyOutOfBounds ==
  [][\A t \in Threads :
       pc[t] = "replace_write" /\ resp'[t].st = "RangeError"
         => ~InBounds(Len(Logical[req[t].key]), RangeOf(req[t]))]_vars

\* A call that fails with an I/O error leaves the blobs of all other keys
\* as they were: the error of one key's store.put or remove_file does not
\* lose or change another key's data, in particular not that of a victim
\* flush_evict was writing back when it failed.
IoErrorKeepsOtherBlobs ==
  [][\A t \in Threads :
       pc[t] /= "idle" /\ pc'[t] = "idle" /\ resp'[t] = Err("Io")
         => \A k \in Keys \ {req[t].key} : Logical'[k] = Logical[k]]_vars

\* Every call that has taken the mutex returns (or the process aborts):
\* no thread waits forever, since a thread holding a shard guard never
\* waits for the lru mutex that a thread waiting for that shard holds.
CallsReturn == \A t \in Threads : pc[t] /= "idle" ~> pc[t] = "idle"

\* The cached store keeps the BlobStore contract: with the resident copy of
\* a key standing for its blob, every call is issued when it takes the
\* mutex, takes effect at the step that returns it, and answers the request
\* the thread made (req) as the contract says, whatever the interleaving
\* of the locked parts, the shard guards, the evictions and the
\* write-backs.  Bypass calls go around the cache and are not calls of
\* the cached store (parity stays put): the refinement runs leave them off.
Contract == INSTANCE BlobStore WITH blobs <- Logical,
                                    pending <- [t \in Threads |-> pc[t] /= "idle"],
                                    parity <- [t \in Threads |-> FALSE]

CacheRefinesStore == Contract!Spec

=============================================================================
