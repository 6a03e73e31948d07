---------------------------- MODULE MemMapStore ----------------------------
(***************************************************************************)
(* MemMapStore (src/store_impl/mapped_file.rs): one file per key, as in    *)
(* the local file store, and a RefCell<LruCache<Key, MmapMut>> of at most  *)
(* CacheSize shared read-write mappings.  A MAP_SHARED mapping is a view   *)
(* of the file's inode, not of its name: a write through it is a write to  *)
(* the file, and it keeps showing the inode after the name is unlinked.    *)
(* So files name inodes, inodes hold the bytes, and a cached mapping       *)
(* records the inode it maps.                                              *)
(*                                                                         *)
(* The store is not Sync and the FFI facade (ffi/memmap.rs) offers no      *)
(* put_or_create: one caller, one step per call.  With IoFail, each open, *)
(* set_len, mmap and remove_file may fail, and the call returns the error  *)
(* with what the calls before it did left in place.                        *)
(***************************************************************************)
EXTENDS BlobTypes, FiniteSets

CONSTANTS
  Threads,    \* the one caller thread
  CacheSize,  \* the LruCache capacity (DEFAULT_CACHE_SIZE is 64)
  Inos,       \* inode numbers the file system may hand out
  IoFail      \* whether system calls may fail

ASSUME CacheSize \in Nat \ {0} /\ IoFail \in BOOLEAN
ASSUME Cardinality(Inos) >= Cardinality(Keys) + CacheSize

VARIABLES
  files,   \* files[k]: the inode root/<hex>/<hex> names, or NoBlob
  data,    \* data[i]: the bytes of inode i
  cache,   \* the mapping LRU, least recent first: <<[key, ino], ...>>
  resp,    \* resp[t]: the response of the last call
  req,     \* history: req[t], the request of the last call
  parity,  \* history: parity[t] flips with every call
  lastSeen \* history: the contract's view before the first I/O error

vars == <<files, data, cache, resp, req, parity, lastSeen>>

None == [blobs |-> NoBlob]

CachedKeys == {cache[i].key : i \in DOMAIN cache}
CachedIno(k) == cache[CHOOSE i \in DOMAIN cache : cache[i].key = k].ino
Unmapped(k) == SelectSeq(cache, LAMBDA e : e.key /= k)

\* An inode no name and no mapping holds: the kernel may reuse it.  Which
\* one a create gets is invisible to the store, so the model takes the one
\* CHOOSE names.
FreeInos == Inos \ ({files[k] : k \in Keys} \cup {cache[i].ino : i \in DOMAIN cache})

\* LruCache::get_mut: a hit becomes most recent.
Promote(k) == Append(Unmapped(k), [key |-> k, ino |-> CachedIno(k)])

\* Mutant: the LRU drops its least recent mapping only once over capacity.
LruPutOverfilling(k, i) ==
  IF k \in CachedKeys THEN Append(Unmapped(k), [key |-> k, ino |-> i])
  ELSE IF Len(cache) > CacheSize THEN Append(Tail(cache), [key |-> k, ino |-> i])
  ELSE Append(cache, [key |-> k, ino |-> i])

\* LruCache::put: replaces the mapping of a cached key and makes it most
\* recent; otherwise drops (unmaps) the least recent one when full.
LruPut(k, i) ==
  IF k \in CachedKeys THEN Append(Unmapped(k), [key |-> k, ino |-> i])
  ELSE IF Len(cache) = CacheSize THEN Append(Tail(cache), [key |-> k, ino |-> i])
  ELSE Append(cache, [key |-> k, ino |-> i])

Respond(t, r) == resp' = [resp EXCEPT ![t] = r] /\ UNCHANGED lastSeen

\* The blob of each key: the bytes of the inode its file names.
Stored == [k \in Keys |-> IF files[k] = NoBlob THEN NoBlob ELSE data[files[k]]]

\* What callers see: the blobs, their last requests and responses.
Seen == [blobs |-> Stored, req |-> req, parity |-> parity, resp |-> resp]

\* A system call fails and the ? returns the I/O error; the first one
\* records what callers had seen until then.
FailIo(t) ==
  /\ resp' = [resp EXCEPT ![t] = Err("Io")]
  /\ lastSeen' = IF lastSeen = None THEN Seen ELSE lastSeen

\* contains: try_exists on the path.
Contains(t, k) ==
  /\ Respond(t, Ok(<<IF files[k] /= NoBlob THEN 1 ELSE 0>>))
  /\ UNCHANGED <<files, data, cache>>

\* meta: the length metadata() reports, NotFound without a file.
Meta(t, k) ==
  /\ Respond(t, IF files[k] = NoBlob THEN Err("NotFound") ELSE Ok(<<Len(data[files[k]])>>))
  /\ UNCHANGED <<files, data, cache>>

\* put(Create): create_new fails with AlreadyExists; else a new inode,
\* set_len(|v|), map it, copy v in, and cache the mapping.  A failure of
\* create_dir_all or open leaves no file, of set_len an empty one, of
\* map_mut one of |v| zero bytes.
PutCreate(t, k, v) ==
  IF files[k] /= NoBlob
  THEN Respond(t, Err("AlreadyExists")) /\ UNCHANGED <<files, data, cache>>
  ELSE LET i == CHOOSE j \in FreeInos : TRUE IN
         \/ /\ files' = [files EXCEPT ![k] = i]
            /\ data' = [data EXCEPT ![i] = v]
            /\ cache' = LruPut(k, i)
            /\ Respond(t, Ok(<<>>))
         \/ /\ IoFail
            /\ \E left \in {NoBlob, <<>>, Zeros(Len(v))} :
                 /\ files' = IF left = NoBlob THEN files ELSE [files EXCEPT ![k] = i]
                 /\ data' = IF left = NoBlob THEN data ELSE [data EXCEPT ![i] = left]
            /\ FailIo(t)
            /\ UNCHANGED cache

\* Mutant: the cached branch checks only the value length.
PutReplaceHitUnchecked(t, k, v, r) ==
  LET page == data[CachedIno(k)] IN
  /\ cache' = Promote(k)
  /\ IF Len(v) /= RangeLen(r)
     THEN Respond(t, Err("RangeError")) /\ UNCHANGED data
     ELSE data' = [data EXCEPT ![CachedIno(k)] = Splice(page, r, v)] /\ Respond(t, Ok(<<>>))

\* put(Replace(range)), cached branch: get_mut promotes the mapping, then
\* range.end > page.len() and the value length are checked, and the
\* range of the page is overwritten.
PutReplaceHit(t, k, v, r) ==
  LET page == data[CachedIno(k)] IN
  /\ cache' = Promote(k)
  /\ IF r.end > Len(page) \/ Len(v) /= RangeLen(r)
     THEN Respond(t, Err("RangeError")) /\ UNCHANGED data
     ELSE data' = [data EXCEPT ![CachedIno(k)] = Splice(page, r, v)] /\ Respond(t, Ok(<<>>))

\* put(Replace(range)), miss: open (NotFound), map the file (either may
\* fail), check the range and length (the mapping is dropped on an error),
\* write, and cache the mapping.
PutReplaceMiss(t, k, v, r) ==
  LET page == data[files[k]] IN
  IF files[k] = NoBlob
  THEN Respond(t, Err("NotFound")) /\ UNCHANGED <<data, cache>>
  ELSE \/ IoFail /\ FailIo(t) /\ UNCHANGED <<data, cache>>
       \/ IF ~InBounds(Len(page), r) \/ Len(v) /= RangeLen(r)
          THEN Respond(t, Err("RangeError")) /\ UNCHANGED <<data, cache>>
          ELSE /\ data' = [data EXCEPT ![files[k]] = Splice(page, r, v)]
               /\ cache' = LruPut(k, files[k])
               /\ Respond(t, Ok(<<>>))

PutReplace(t, k, v, r) ==
  /\ IF k \in CachedKeys THEN PutReplaceHit(t, k, v, r) ELSE PutReplaceMiss(t, k, v, r)
  /\ UNCHANGED files

\* get: the cached mapping (promoted), or open and map the file (NotFound,
\* or an I/O error) and cache it before any check; then All needs
\* buf.len() = page.len(), Range the range in bounds and of the buffer's
\* length.
Get(t, k, n, opt) ==
  LET hit  == k \in CachedKeys
      page == IF hit THEN data[CachedIno(k)] ELSE data[files[k]]
  IN /\ ~hit /\ files[k] = NoBlob =>
          Respond(t, Err("NotFound")) /\ UNCHANGED cache
     /\ hit \/ files[k] /= NoBlob =>
          \/ /\ cache' = IF hit THEN Promote(k) ELSE LruPut(k, files[k])
             /\ Respond(t, IF opt.kind = "All"
                           THEN IF n /= Len(page) THEN Err("RangeError") ELSE Ok(page)
                           ELSE IF ~InBounds(Len(page), opt.range) \/ RangeLen(opt.range) /= n
                                THEN Err("RangeError") ELSE Ok(Slice(page, opt.range)))
          \/ ~hit /\ IoFail /\ FailIo(t) /\ UNCHANGED cache
     /\ UNCHANGED <<files, data>>

\* Mutant: delete unlinks the file but leaves its mapping cached.
DeleteKeepingMapping(t, k) ==
  /\ IF files[k] = NoBlob
     THEN Respond(t, Err("NotFound")) /\ UNCHANGED files
     ELSE files' = [files EXCEPT ![k] = NoBlob] /\ Respond(t, Ok(<<>>))
  /\ UNCHANGED <<data, cache>>

\* delete(Discard): pop the mapping, then remove_file (NotFound, or an
\* I/O error that leaves the file).
Delete(t, k) ==
  /\ cache' = Unmapped(k)
  /\ IF files[k] = NoBlob
     THEN Respond(t, Err("NotFound")) /\ UNCHANGED files
     ELSE \/ files' = [files EXCEPT ![k] = NoBlob] /\ Respond(t, Ok(<<>>))
          \/ IoFail /\ FailIo(t) /\ UNCHANGED files
  /\ UNCHANGED data

\* The caller makes request o through the FFI facade.
Call(t, o) ==
  /\ o.name /= "put_or_create"
  /\ req' = [req EXCEPT ![t] = o]
  /\ parity' = [parity EXCEPT ![t] = ~@]
  /\ CASE o.name = "contains"   -> Contains(t, o.key)
       [] o.name = "blob_size"  -> Meta(t, o.key)
       [] o.name = "create"     -> PutCreate(t, o.key, o.val)
       [] o.name = "put"        -> PutReplace(t, o.key, o.val, RangeOf(o))
       [] o.name = "get_all"    -> Get(t, o.key, o.len, [kind |-> "All"])
       [] o.name = "get_offset" -> Get(t, o.key, o.len, [kind |-> "Range", range |-> RangeOf(o)])
       [] o.name = "remove"     -> Delete(t, o.key)

\* connect on an existing root: no file yet, an empty LRU.
Init ==
  /\ files = [k \in Keys |-> NoBlob]
  /\ data = [i \in Inos |-> <<>>]
  /\ cache = <<>>
  /\ resp = [t \in Threads |-> NoResp]
  /\ req = [t \in Threads |-> CHOOSE o \in Requests : TRUE]
  /\ parity = [t \in Threads |-> FALSE]
  /\ lastSeen = None

Next == \E t \in Threads, o \in Requests : Call(t, o)

Spec == Init /\ [][Next]_vars

(***************************************************************************)
(* Properties                                                              *)
(***************************************************************************)
TypeOK ==
  /\ files \in [Keys -> Inos \cup {NoBlob}]
  /\ data \in [Inos -> Seq(Int)]
  /\ cache \in Seq([key : Keys, ino : Inos]) /\ Len(cache) <= CacheSize

\* Every cached mapping maps the file its key names now.  delete pops
\* the mapping before it unlinks the file, and create and a miss replace
\* the mapping of their key, so no call reads or writes through a mapping
\* of an unlinked inode or of another key's file.
MappingsCurrent ==
  \A i \in DOMAIN cache : files[cache[i].key] = cache[i].ino

\* Until the first I/O error, the memory-mapped store implements the
\* BlobStore contract: whether a call is served through a cached mapping
\* or by mapping the file, the blobs change and the call answers the
\* request it was made with (req) as the trait says.  The trait does not say what a failed call leaves, so from
\* the first I/O error on the mapping holds what callers had seen.
Contract == INSTANCE BlobStore WITH
              blobs   <- IF lastSeen = None THEN Stored ELSE lastSeen.blobs,
              req     <- IF lastSeen = None THEN req ELSE lastSeen.req,
              parity  <- IF lastSeen = None THEN parity ELSE lastSeen.parity,
              resp    <- IF lastSeen = None THEN resp ELSE lastSeen.resp,
              pending <- [t \in Threads |-> FALSE]

MemMapRefinesStore == Contract!Spec

\* Spec section 3: after a delete, contains(k) stays false until a create
\* of k succeeds.  A key without a file gains one only in a call that
\* returns Ok, so a failed put(Create) leaves no file behind.
ContainsOnlyAfterCreate ==
  [][\A k \in Keys : files[k] = NoBlob /\ files'[k] /= NoBlob =>
                       \A t \in Threads : resp'[t] = Ok(<<>>)]_vars

=============================================================================
