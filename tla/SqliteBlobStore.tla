--------------------------- MODULE SqliteBlobStore ---------------------------
(***************************************************************************)
(* SqliteBlobStore (src/store_impl/sqlite.rs): blobs are rows of the table *)
(* blobs(content) in blobs.db; which row holds which key's blob is known   *)
(* only to the in-memory HashMap key_to_row_map, read from blobs.map.dump  *)
(* by connect and written back to it by Drop.  Every SQL statement and     *)
(* every incremental blob write autocommits, so the table survives a       *)
(* crash; the map survives only if Drop ran.                               *)
(*                                                                         *)
(* The store is a RefCell over a rusqlite Connection, so it is not Sync:   *)
(* one thread uses it, and each call is one step.  put(ReplaceOrCreate)    *)
(* is unimplemented!() and is not a request here.  With SqlFail, each      *)
(* statement and blob call that writes may fail, and the ? returns the     *)
(* error with what came before it left in place.                           *)
(***************************************************************************)
EXTENDS BlobTypes, FiniteSets

CONSTANTS
  Threads,   \* the one caller thread
  MaxRow,    \* rowids 1..MaxRow: creates beyond it are not explored
  Crashes,   \* whether the process may die without running Drop
  SqlFail,   \* whether INSERT, DELETE and blob writes may fail
  NoKey      \* a row no key created

ASSUME MaxRow \in Nat \ {0} /\ Crashes \in BOOLEAN /\ SqlFail \in BOOLEAN

Rows == 1 .. MaxRow

\* The empty key_to_row_map.
NoMap == [k \in {} |-> 1]

VARIABLES
  rows,      \* rows[r]: the content column of rowid r, or NoBlob
  kmap,      \* key_to_row_map while the store is open
  dump,      \* blobs.map.dump: [file: "none" | "map" | "torn", map]
  open,      \* a SqliteBlobStore is connected
  owner,     \* history: the key whose create inserted row r
  resp,      \* resp[t]: the response of the last call
  req,       \* history: req[t], the request of the last call
  parity,    \* history: parity[t] flips with every call
  lastSeen   \* history: the contract's view before the first crash or
             \* failed statement, or None

vars == <<rows, kmap, dump, open, owner, resp, req, parity, lastSeen>>

None == [blobs |-> NoBlob]

\* INSERT INTO blobs: SQLite gives the new row the largest rowid in the
\* table plus one (1 in an empty table), so a deleted last row is reused.
NextRow == IF \A r \in Rows : rows[r] = NoBlob THEN 1
           ELSE 1 + (CHOOSE r \in Rows : rows[r] /= NoBlob /\ \A q \in Rows : rows[q] /= NoBlob => q <= r)

\* open_blob: NotFound for an unmapped key; blob_open fails with a SQLite
\* error when the mapped row does not exist.
OpenBlob(k) == IF k \notin DOMAIN kmap THEN Err("NotFound")
               ELSE IF rows[kmap[k]] = NoBlob THEN Err("Sqlite")
               ELSE Ok(rows[kmap[k]])

\* The map a connect would read (none from a torn file), while the store
\* is closed.
SavedMap == dump.map

\* The blob of each key: the row its map entry names.
Stored == LET m == IF open THEN kmap ELSE SavedMap IN
          [k \in Keys |-> IF k \in DOMAIN m /\ rows[m[k]] /= NoBlob THEN rows[m[k]] ELSE NoBlob]

Respond(t, r) == resp' = [resp EXCEPT ![t] = r] /\ UNCHANGED lastSeen

\* What callers see: the blobs, their last requests and responses.
Seen == [blobs |-> Stored, req |-> req, parity |-> parity, resp |-> resp]

\* The first crash or failed statement records what callers had seen.
Freeze == lastSeen' = IF lastSeen = None THEN Seen ELSE lastSeen

\* A statement or blob call fails and the ? returns its error.
FailSql(t) == resp' = [resp EXCEPT ![t] = Err("Sqlite")] /\ Freeze

\* contains: key_to_row_map.contains_key
Contains(t, k) ==
  /\ Respond(t, Ok(<<IF k \in DOMAIN kmap THEN 1 ELSE 0>>))
  /\ UNCHANGED <<rows, kmap, dump, open, owner>>

\* meta: the length of the opened blob
Meta(t, k) ==
  /\ Respond(t, IF OpenBlob(k).st = "Ok" THEN Ok(<<Len(OpenBlob(k).out)>>) ELSE OpenBlob(k))
  /\ UNCHANGED <<rows, kmap, dump, open, owner>>

\* put(Create): AlreadyExists if mapped; else insert a zeroblob, map the
\* key to last_insert_rowid, open the blob and write_all the value.  A
\* failed INSERT leaves nothing; a failed open or write leaves the key
\* mapped to the row of zeros.
Insert(k, b) ==
  /\ NextRow \in Rows
  /\ rows' = [rows EXCEPT ![NextRow] = b]
  /\ kmap' = [x \in DOMAIN kmap \cup {k} |-> IF x = k THEN NextRow ELSE kmap[x]]
  /\ owner' = [owner EXCEPT ![NextRow] = k]

PutCreate(t, k, v) ==
  /\ IF k \in DOMAIN kmap
     THEN Respond(t, Err("AlreadyExists")) /\ UNCHANGED <<rows, kmap, owner>>
     ELSE \/ Insert(k, v) /\ Respond(t, Ok(<<>>))
          \/ /\ SqlFail
             /\ \/ UNCHANGED <<rows, kmap, owner>>
                \/ Insert(k, Zeros(Len(v)))
             /\ FailSql(t)
  /\ UNCHANGED <<dump, open>>

\* put(Replace(range)): open the blob, check the range and the value
\* length, seek and write.
PutReplace(t, k, v, r) ==
  LET b == OpenBlob(k) IN
  /\ IF b.st /= "Ok" THEN Respond(t, b) /\ UNCHANGED rows
     ELSE IF ~InBounds(Len(b.out), r) \/ Len(v) /= RangeLen(r)
     THEN Respond(t, Err("RangeError")) /\ UNCHANGED rows
     ELSE \/ rows' = [rows EXCEPT ![kmap[k]] = Splice(b.out, r, v)] /\ Respond(t, Ok(<<>>))
          \/ SqlFail /\ FailSql(t) /\ UNCHANGED rows
  /\ UNCHANGED <<kmap, dump, open, owner>>

\* get into a buffer of length n: open the blob; All: its length must be
\* n; Range: the range length must be n, then the range in bounds.
Get(t, k, n, opt) ==
  LET b == OpenBlob(k) IN
  /\ Respond(t, IF b.st /= "Ok" THEN b
                ELSE IF opt.kind = "All"
                     THEN IF Len(b.out) /= n THEN Err("RangeError") ELSE b
                     ELSE IF RangeLen(opt.range) /= n \/ ~InBounds(Len(b.out), opt.range)
                          THEN Err("RangeError") ELSE Ok(Slice(b.out, opt.range)))
  /\ UNCHANGED <<rows, kmap, dump, open, owner>>

\* delete(Discard): remove the key from the map (NotFound if absent), then
\* DELETE the row; if that fails, the row stays with no key mapped to it.
Delete(t, k) ==
  IF k \notin DOMAIN kmap
  THEN Respond(t, Err("NotFound")) /\ UNCHANGED <<rows, kmap, dump, open, owner>>
  ELSE /\ kmap' = [x \in DOMAIN kmap \ {k} |-> kmap[x]]
       /\ \/ rows' = [rows EXCEPT ![kmap[k]] = NoBlob] /\ Respond(t, Ok(<<>>))
          \/ SqlFail /\ FailSql(t) /\ UNCHANGED rows
       /\ UNCHANGED <<dump, open, owner>>

\* The caller makes request o on the open store.
Call(t, o) ==
  /\ open
  /\ o.name /= "put_or_create"
  /\ req' = [req EXCEPT ![t] = o]
  /\ parity' = [parity EXCEPT ![t] = ~@]
  /\ CASE o.name = "contains"   -> Contains(t, o.key)
       [] o.name = "blob_size"  -> Meta(t, o.key)
       [] o.name = "create"     -> PutCreate(t, o.key, o.val)
       [] o.name = "put"        -> PutReplace(t, o.key, o.val, RangeOf(o))
       [] o.name = "get_all"    -> Get(t, o.key, o.len, [kind |-> "All"])
       [] o.name = "get_offset" -> Get(t, o.key, o.len, [kind |-> "Range", range |-> RangeOf(o)])
       [] o.name = "remove"     -> Delete(t, o.key)

\* connect: create the table if needed and deserialize the map file, if
\* there is one; a torn file fails to deserialize and connect returns the
\* error, every time.
Connect ==
  /\ ~open
  /\ dump.file /= "torn"
  /\ kmap' = dump.map
  /\ open' = TRUE
  /\ UNCHANGED <<rows, dump, owner, resp, lastSeen, req, parity>>

\* Mutant: Drop closes the store without writing the map file.
DropSkippingDump ==
  /\ open
  /\ open' = FALSE
  /\ UNCHANGED <<rows, kmap, dump, owner, resp, lastSeen, req, parity>>

\* Drop: truncate blobs.map.dump and serialize the map into it.
Drop ==
  /\ open
  /\ dump' = [file |-> "map", map |-> kmap]
  /\ open' = FALSE
  /\ UNCHANGED <<rows, kmap, owner, resp, lastSeen, req, parity>>

\* The process dies (killed, power loss, an abort elsewhere): the map is
\* lost; if Drop was running, the file may be truncated and half written.
\* The first crash records what callers had seen until then.
Crash ==
  /\ Crashes
  /\ open
  /\ dump' \in {dump, [file |-> "torn", map |-> NoMap]}
  /\ open' = FALSE
  /\ Freeze
  /\ UNCHANGED <<rows, kmap, owner, resp, req, parity>>

Init ==
  /\ rows = [r \in Rows |-> NoBlob]
  /\ kmap = NoMap
  /\ dump = [file |-> "none", map |-> NoMap]
  /\ open = FALSE
  /\ owner = [r \in Rows |-> NoKey]
  /\ resp = [t \in Threads |-> NoResp]
  /\ req = [t \in Threads |-> CHOOSE o \in Requests : TRUE]
  /\ parity = [t \in Threads |-> FALSE]
  /\ lastSeen = None

Next ==
  \/ \E t \in Threads, o \in Requests : Call(t, o)
  \/ Connect
  \/ Drop
  \/ Crash

Spec == Init /\ [][Next]_vars

(***************************************************************************)
(* Properties                                                              *)
(***************************************************************************)
TypeOK ==
  /\ rows \in [Rows -> Seq(Int) \cup {NoBlob}]
  /\ DOMAIN kmap \subseteq Keys /\ \A k \in DOMAIN kmap : kmap[k] \in Rows
  /\ open \in BOOLEAN
  /\ owner \in [Rows -> Keys \cup {NoKey}]

\* Every row the map names for a key is a row that key's create inserted:
\* a key never reads or overwrites another key's blob.  It rests on the
\* map file naming the rows of the map the store last had open, and on
\* SQLite reusing the rowid of a deleted last row.
MapPointsToOwnRow ==
  \A k \in DOMAIN kmap : rows[kmap[k]] /= NoBlob => owner[kmap[k]] = k

\* The SQLite store keeps the BlobStore contract across Drop and connect,
\* up to the first crash or failed statement: every call changes the
\* blobs and answers the request it was made with (req) as the trait says, with the map file carrying which row is which key's
\* from one connection to the next.  From then on, the mapping
\* holds what callers had seen before it, so the contract stutters.
Contract == INSTANCE BlobStore WITH
              blobs   <- IF lastSeen = None THEN Stored ELSE lastSeen.blobs,
              req     <- IF lastSeen = None THEN req ELSE lastSeen.req,
              parity  <- IF lastSeen = None THEN parity ELSE lastSeen.parity,
              resp    <- IF lastSeen = None THEN resp ELSE lastSeen.resp,
              pending <- [t \in Threads |-> FALSE]

SqliteRefinesStore == Contract!Spec

=============================================================================
