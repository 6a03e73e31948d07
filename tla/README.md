# TLA+ models of the NCBlob blob stores

These modules model the Rust crate `tbr_rs` (`src/lib/rust_part/src/`). It is
the blob store layer that the C++ erasure-coding code reaches through cxx FFI
bridges. All paths below are relative to that directory.

## 1. The system (inventory)

| Part | Source | State | Operations |
|---|---|---|---|
| BlobStore trait, options, errors | `lib.rs`, `error.rs`, `store_impl/mod.rs` | none; it is a contract | `contains`, `meta`, `put(Create / Replace(range) / ReplaceOrCreate)`, `get(All / Range)`, `get_owned`, `delete(Discard / Interest)` |
| LocalFileSystemBlobStore | `store_impl/local_filesystem.rs` | one file per key under `root/<hex8>/<hex8>` | the trait, by `open`, `set_len`, `seek`, `write_all` and `read_exact` |
| MemoryCache<S> | `store_impl/cache.rs` | `lru: Mutex<SizedCache>` (an LRU of key → byte size, plus a byte counter), `map: DashMap<Key, Vec<u8>>` (the resident copies), the wrapped store | the trait, `bypass_put`, `bypass_get`, `Drop` (write back everything) |
| MemMapStore | `store_impl/mapped_file.rs` | files, plus a `RefCell` LRU of up to 64 mmaps | the trait (no ReplaceOrCreate) |
| SqliteBlobStore | `store_impl/sqlite.rs` | SQLite rows, plus an in-memory key → rowid map that is dumped to `blobs.map.dump` on Drop | the trait (no ReplaceOrCreate) |
| FFI facades | `ffi/*.rs` | none | `contains`, `blob_size`, `create`, `put(offset)`, `put_or_create`, `get_all`, `get_offset`, `remove`, and `bypass_*` (cached store only) |
| Azure trace parser | `ffi/azure_trace.rs` | none | CSV parsing for the benchmark |

**How the parts interact.** C++ threads share one cached store,
`MemoryCache<LocalFileSystemBlobStore>`, through `ffi/memory_cache.rs`.

Every cached call works like this:

1. It takes the `lru` mutex.
2. On a miss it loads from the file store and pushes the key into the
   SizedCache.
3. It writes back the evicted keys (`flush_evict`: `map.remove`, then
   `store.put(ReplaceOrCreate)`).
4. It inserts the resident copy.

A few calls behave differently:

- `put(Replace)` and `get` drop the mutex while they still hold a DashMap
  `RefMut` or `Ref`. A shard lock of the DashMap therefore stays held across
  their second step.
- `contains` asks the store after it drops the mutex.
- `put(Replace)` changes only the resident copy. The file catches up at
  eviction or at Drop.

**Hard behaviours:**

- Interleavings of threads around the mutex and the shard locks.
- Eviction cascades.
- Write-back ordering.
- Ranges that are partial, out of bounds, or of the wrong length.
- Panics: cxx does not unwind, so a panic aborts the process and the
  resident copies are lost.
- I/O failures in the middle of a sequence of steps.
- The SQLite map that is persisted only at Drop.

**Properties that make the cache correct:**

- The LRU and the map hold the same keys. Every `unwrap` relies on this.
  A failed write-back breaks it, so it is a property of runs without I/O
  failures.
- The resident bytes stay within the capacity.
- No call panics.
- Seen from outside, the cached store is a BlobStore: its logical content
  is the resident copy if there is one, otherwise the file.

## 2. Modules

| Module | Models | State ↔ code |
|---|---|---|
| `BlobTypes` | `lib.rs` options, `range_contains`, error kinds, the FFI requests | `Requests` holds the FFI calls as records. `RangeOf` is `offset..offset+len`. |
| `BlobStore` | the trait's documented contract (the abstract spec) | `blobs`: key → blob or `NoBlob`. `Call(t, o)` is one atomic call. |
| `LocalFileSystem` | `LocalFileSystemBlobStore` and its FFI facade | `disk`: key → file contents. `key_to_path` is injective, so the directory tree is abstracted away. `FsPut`, `FsGet` and the other operators are pure, so the cache can call them inside its own steps. |
| `MemoryCache` | `MemoryCache<LocalFileSystemBlobStore>` and its FFI facade | `lru`: `LruCache` as a sequence, least recent first. `size` and `map` are the cache's fields. `holder` is the mutex owner. `guard[t]` is a Ref or RefMut. `shardOf` is the DashMap hash. `pc` and `req` are each thread's call. `panicked` records that the process aborted. |
| `SqliteBlobStore` | `SqliteBlobStore` (`sqlite.rs`) | `rows`: rowid → content column. `kmap`: `key_to_row_map`. `dump`: the file `blobs.map.dump` (absent, a map, or torn). `open`: a connection exists. `owner` is a history variable: the key whose create inserted each row. Each call is one step, because the store is a `RefCell` used by one thread. |
| `MemMapStore` | `MemMapStore` (`mapped_file.rs`) and its FFI facade (`ffi/memmap.rs`) | `files`: key → the inode its path names. `data`: inode → bytes. `cache`: the `LruCache` of mappings, least recent first, each recording the inode it maps, because a `MAP_SHARED` mapping shows the inode even after the name is unlinked. One caller; each call is one step. |
| `MC_MemoryCache`, `MC_LocalFileSystem`, `MC_SqliteBlobStore`, `MC_MemMapStore` | model values, symmetry, views | |

**MemoryCache actions:**

| Action | Code |
|---|---|
| `Acquire` | `self.lru.lock()` |
| `ContainsLocked`, `StoreContains` | `contains` |
| `Meta` | `meta`; the `if let` keeps the lock over both branches |
| `PutCreate`, `PutReplaceOrCreate` | `put`; the whole branch, including `store.put` |
| `LoadLocked` | the locked part of `put(Replace)` and `get`: on a miss, `get_owned`, `push`, `flush_evict` and `insert`; then `get_mut` or `get`, and `drop(lru)` |
| `ReplaceWrite`, `GetRead` | the part after the unlock |
| `Delete` | `delete` |
| `BypassCall` | `bypass_*` |
| `Reconnect` | `Drop` followed by a new connection |
| `Abort` | a panic in any of the actions above |

Details of the translation:

- `Admits` is the set of outcomes of the shared sequence push → flush_evict → insert.
- `EvictLoop` is the `while` loop of `SizedCache::push`, including its
  `expect` on an empty LRU.
- A step that would write-lock a shard waits while another thread guards that
  shard (`WriteFree`), as the DashMap `RwLock` makes it do.
- `PutCreate` and `PutReplaceOrCreate` are one step each. The mutex guard
  `lru` lives until `return self.store.put(...)` has run, so no cached call
  can see the moment between `map.insert` and `store.put`.

**I/O failures (constant `IoFail`).**

- `FsPutResults` is the successful put plus `FsPutFailures`. Each failure
  keeps what the system calls before it did: `open` with `create_new` leaves
  an empty file, `set_len` leaves a zero-filled file of the new length, and
  a failed `write_all` leaves that zero-filled or resized file (`Resized`).
  A partly written prefix is not told apart from these.
- `FsDeleteResults` adds a failed `remove_file` that changes nothing.
- In the cache, `FlushEvict` returns every outcome of the write-back loop.
  A failed write-back stops the loop at the `?` with the victim already gone
  from the map. `FailAdmit` installs that partial state and returns `Io`.

**SqliteBlobStore actions.** `Call` dispatches `Contains`, `Meta`,
`PutCreate`, `PutReplace`, `Get` and `Delete`. `Connect` reads the map file,
and cannot succeed on a torn one. `Drop` writes the map file. `Crash` is
the process dying, either between calls or during `Drop` after the truncate.
`NextRow` is SQLite's rowid choice: the largest live rowid plus one.
With `SqlFail`, the `INSERT`, the `DELETE` and the blob open or write may
fail (`FailSql`). A `put(Create)` whose blob write fails has already run
`Insert`: the key stays mapped to a row of zeros (`Zeros`). A `delete` whose
statement fails has already removed the key from the map, so its row stays
in the table with no key.

**MemMapStore actions.** `Call` dispatches `Contains`, `Meta`,
`PutCreate`, `PutReplace` (`PutReplaceHit` through a cached mapping, or
`PutReplaceMiss`, which maps the file and caches the mapping only on
success), `Get` (which caches the mapping before checking the buffer) and
`Delete` (pop the mapping, then unlink). `PutCreate` takes any free inode.
`LruPut` is `LruCache::put`, which unmaps the least recent mapping when the
cache is full. `PutCreate` takes a free inode by `CHOOSE`: which inode a
file gets is invisible to every property. With `IoFail`, `open`, `set_len`,
`map_mut` and `remove_file` may fail (`FailIo`). A failed create leaves the
file it already made: empty, or zero-filled to the new length.

**Refinement.**

- `BlobStore` keeps, besides the blobs and the responses, each thread's
  request `req`. A response is checked against the contract for that very
  request, not for any request some thread could have made. A store that
  serves a call in one step takes the abstract step `Call`, which also
  flips `parity[t]`, so that two equal calls in a row are two steps and
  the second is checked too. The memory-mapped, SQLite and file stores
  record `req` and `parity` as history variables. The cached store's calls
  take several steps: `Acquire` is the abstract `Invoke` (the request is
  issued and `pending`), and the step that returns is the abstract
  `Return`, where the call takes effect.
- `MemoryCache` maps to `BlobStore` by `Contract == INSTANCE BlobStore WITH
  blobs <- Logical, pending <- ...`. `Logical` is the resident copy, or
  else the file; a call is pending while its thread is not idle. Bypass
  calls are not calls of the cached store and are off in its refinement
  run.
- `LocalFileSystem` maps to `BlobStore` with `blobs <- disk`.
- `MemMapStore` maps to `BlobStore` with `blobs <- Stored`: the bytes of
  the inode each key's file names.
- `SqliteBlobStore` maps to `BlobStore` with `blobs <- Stored`. `Stored`
  reads each key's row through the open map, or through the saved map while
  the store is closed.
- The contract has no failures. Both stores therefore hold it only up to
  their first failure. The history variable `lastSeen` records the abstract
  state (blobs, requests and responses) at the first I/O error, failed statement or
  crash. From then on the mapping shows that frozen state, and the contract
  stutters. The run still explores everything after the failure, and
  checks every other property there.

## 3. Runs

| Run | Expect | Shows |
|---|---|---|
| `cache_safety` | pass | without I/O failures, `TypeOK`, `LruMapAgree` and `ResidentWithinBudget` hold under every interleaving of two threads, with bypass calls, drops and panics included (about 280k distinct states after view and symmetry) |
| `cache_refinement` | pass | the cache implements the BlobStore contract (`CacheRefinesStore`) when blobs are one byte, each call answering its own request |
| `localfs_refinement` | pass | the file store answers each request as the contract says for every range and buffer length (`FsRefinesStore`); the mutant that drops the seek of a range read is caught by its response alone |
| `cache_no_panic` | violation | `NoPanic`: `SizedCache::push` ignores the entry that `LruCache::push` replaces, so its byte count drifts, and then three calls by one thread hit `expect("cache is too small")` |
| `cache_get_keeps_content` | violation | `GetKeepsContent`: a `get_offset` miss caches only the range as the blob |
| `cache_replace_range_error` | violation | `ReplaceRangeErrorOnlyOutOfBounds`: a cached partial replace that is in bounds fails, contrary to `lib.rs` |
| `cache_io_failure` | violation | `IoErrorKeepsOtherBlobs`: a failed write-back in `flush_evict` loses the victim's latest contents, and the error goes to a call on another key |
| `cache_liveness` | pass | `CallsReturn`: every call of either thread returns, under weak fairness of each thread's steps |
| `sqlite_refinement` | pass | up to the first crash or failed statement, the SQLite store implements the contract across `Drop` and `connect` (`SqliteRefinesStore`); crashes and failed inserts, blob writes and deletes are explored after that |
| `sqlite_crash` | violation | `MapPointsToOwnRow`: after a crash, the stale map file plus rowid reuse map a deleted key to another key's row |
| `memmap_refinement` | pass | with I/O failures, `TypeOK` and `MappingsCurrent` (every cached mapping maps its key's current file) hold, and `MemMapRefinesStore` holds up to the first failure; three keys, a two-mapping LRU and five inode numbers |
| `memmap_io_create` | violation | `ContainsOnlyAfterCreate`: a `put(Create)` whose `set_len` or `map_mut` fails returns `Io` but leaves the file, so `contains(k)` turns true without a successful create, against spec §3 |

`PROJECT.json` records each violation as a finding.

**Bounds, and why they are enough:**

- Two keys and two threads give contention on the mutex and on a shard.
- Two shards: two keys on one shard, or on different shards.
- `cache_safety` uses blobs of 1 and 2 bytes in a 3-byte cache. Admitting
  one key can evict the other. A 2-byte admission can need more than one
  eviction. The size drift can reach the panic. Offsets {0,1} and buffer
  lengths {1,2} cover ranges that are inside, partial, and out of bounds.
- `cache_refinement` uses one-byte blobs with two contents in a one-byte
  cache. Every admission of the other key evicts and writes back. Contents
  differ, so lost or stale write-backs are visible. With one-byte blobs every
  in-bounds range is the whole blob. This keeps the two known divergences
  (the violation runs) out of the refinement, which then checks everything
  else.

- The SQLite runs use two keys, one thread and three rowids. Three rowids let
  a middle row be deleted while a later row stays live, which is the case a
  wrong rowid choice would get wrong. Values `<<0,1>>` and `<<1>>` have
  different lengths, so range and length checks are exercised.
- `cache_liveness` uses two keys, two threads, one shard and one-byte
  blobs in a one-byte cache. Every admission then evicts and writes back
  while the other thread may hold the shard guard.

- `memmap_refinement` uses three keys and an LRU of two mappings, so a
  miss on the third key unmaps the least recent mapping. Five inode numbers
  cover three files plus the mappings, so inodes are reused after deletes.

**Views and symmetry.**

- The views merge states that differ only in the leftover request of an idle
  thread, or in the request history (`req`, `parity`) of the one-step
  stores. Each call overwrites its thread's entry, so no step or check
  depends on the old value. The safety view also merges states that differ only in the
  responses, which no safety invariant reads.
- Keys, threads and shards are symmetric. Every property treats them alike.
  In the memory-mapped runs only keys are permuted; `MmView` instead
  blanks the bytes left on free inodes, which nothing reads again.
- `SqView` drops the responses once `lastSeen` is set, because the
  contract no longer reads them.

**Fairness.** `FairSpec` adds weak fairness on `CallStep(t)` for each
thread. `CallStep(t)` is any step that thread takes inside a call. Steps
are fair because a thread that can continue does continue: threads are OS
threads, and none of them sleeps inside a call. `Acquire` gets no fairness.
`CallsReturn` asks only that a call already past `Acquire` returns. The
property holds because a guard holder never waits for the mutex. The
mutant `ReplaceWriteRelocking` makes it wait, and then calls do not return.

Deadlock is checked in every passing run except `sqlite_refinement`. No
cache state is stuck. A torn SQLite map file, however, really does stop the
store.

## 4. Not modelled, and the plan

- **Failure of a call on its own key.** The I/O model lets a failed delete
  bring back the old file content for its own key (`cache.rs:194`). No
  property states what a failed call may do to its own key; the run limit
  went to the questions above.
- **SqliteBlobStore.** `put(ReplaceOrCreate)` is `unimplemented!()`, and no
  FFI facade issues it. No property states that a torn map file makes the
  store unusable, because that follows directly from the truncate-then-write
  order (`sqlite.rs:186`). A failed blob write after the insert leaves the
  key mapped to zeros (`sqlite.rs:110`), the same divergence that
  `memmap_io_create` shows; it has no run of its own.
- **MemMapStore.** `connect_with_cache_size` is the `CacheSize` constant.
  Concurrent use through the `RefCell` (`mapped_file.rs:94`) is outside the
  backend's contract, so the model has one caller.
- **Read errors.** `get` returns before changing anything, so a read error
  is no different from the error responses already modelled.
- **Out of scope:**
  - The trace parser, which is pure parsing.
  - `DeleteOpt::Interest`, which is `unimplemented!()` everywhere.
  - `key_to_path` hex formatting, which is abstracted as injective.
  - `build.rs`.
