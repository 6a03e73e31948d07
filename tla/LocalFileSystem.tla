--------------------------- MODULE LocalFileSystem ---------------------------
(***************************************************************************)
(* LocalFileSystemBlobStore (src/store_impl/local_filesystem.rs): one file *)
(* per blob under root/<hex[0..8]>/<hex[8..16]>.  key_to_path is injective *)
(* (a key is 16 hex digits), so the directory tree is abstracted to disk,  *)
(* a function from keys to file contents.                                  *)
(*                                                                         *)
(* The operations are pure operators over a disk value d, so that callers  *)
(* (the FFI facade below, MemoryCache) apply them inside their own steps.  *)
(* A put or get here is the whole open / set_len / seek / write sequence;  *)
(* with IoFail, a put may instead fail at one of its system calls, leaving *)
(* what that call's predecessors did (FsPutResults).                      *)
(***************************************************************************)
EXTENDS BlobTypes

CONSTANTS
  Threads,   \* threads calling the FFI local_fs store
  IoFail     \* whether the system calls of put may fail (Error::Io)

ASSUME IoFail \in BOOLEAN

VARIABLES
  disk,      \* disk[k]: the contents of k's file, or NoBlob if there is none
  resp,      \* resp[t]: the response of thread t's last call
  req,       \* history: req[t], the request of thread t's last call
  parity     \* history: parity[t] flips with every call of thread t

vars == <<disk, resp, req, parity>>

\* The options of lib.rs (PutOpt, GetOpt) as records.
Create          == [kind |-> "Create"]
ReplaceOrCreate == [kind |-> "ReplaceOrCreate"]
Replace(r)      == [kind |-> "Replace", range |-> r]
All             == [kind |-> "All"]
InRange(r)      == [kind |-> "Range", range |-> r]

\* contains: path.try_exists()
FsContains(d, k) == Ok(<<IF d[k] = NoBlob THEN 0 ELSE 1>>)

\* meta: metadata().len(), a missing file mapped to NotFound
FsMeta(d, k) == IF d[k] = NoBlob THEN Err("NotFound") ELSE Ok(<<Len(d[k])>>)

(***************************************************************************)
(* put: open with create_new / create(false) / create, then set_len and    *)
(* write from 0 (Create, ReplaceOrCreate) or check the range and write     *)
(* from range.start (Replace).  Result: the new disk and the response.     *)
(***************************************************************************)
FsPut(d, k, v, opt) ==
  LET fail(e) == [disk |-> d, r |-> Err(e)]
      put(b)  == [disk |-> [d EXCEPT ![k] = b], r |-> Ok(<<>>)]
  IN CASE opt.kind = "Create" ->
            IF d[k] /= NoBlob THEN fail("AlreadyExists") ELSE put(v)
       [] opt.kind = "Replace" ->
            IF d[k] = NoBlob THEN fail("NotFound")
            ELSE IF ~InBounds(Len(d[k]), opt.range) THEN fail("RangeError")
            ELSE IF RangeLen(opt.range) /= Len(v) THEN fail("RangeError")
            ELSE put(Splice(d[k], opt.range, v))
       [] opt.kind = "ReplaceOrCreate" -> put(v)

\* The file set_len(n) leaves: f (or the empty file open created) cut or
\* zero-extended to n bytes.
Resized(f, n) == [i \in 1 .. n |-> IF f /= NoBlob /\ i <= Len(f) THEN f[i] ELSE 0]

(***************************************************************************)
(* put failing with Error::Io at one of its system calls: create_dir_all  *)
(* or open (nothing changed), set_len (a file create_new / create made is *)
(* left empty, or the old file keeps its bytes), write_all (the file has  *)
(* the new length and the old or zero bytes; a partly written prefix of v *)
(* is not distinguished), or metadata / seek / write of Replace (the file *)
(* is left as it was, a partial write again not distinguished).          *)
(***************************************************************************)
FsPutFailures(d, k, v, opt) ==
  LET io(b) == [disk |-> [d EXCEPT ![k] = b], r |-> Err("Io")]
      opened == IF d[k] = NoBlob THEN <<>> ELSE d[k]
  IN CASE opt.kind = "Create" ->
            {io(d[k])} \cup IF d[k] /= NoBlob THEN {}
                            ELSE {io(<<>>), io(Resized(NoBlob, Len(v)))}
       [] opt.kind = "Replace" -> {io(d[k])}
       [] opt.kind = "ReplaceOrCreate" ->
            {io(d[k]), io(opened), io(Resized(d[k], Len(v)))}

\* Every outcome of a put.
FsPutResults(d, k, v, opt) ==
  {FsPut(d, k, v, opt)} \cup IF IoFail THEN FsPutFailures(d, k, v, opt) ELSE {}

\* Mutant: the Range branch forgets the seek and reads from the start.
FsGetWithoutSeek(d, k, n, opt) ==
  IF d[k] = NoBlob THEN Err("NotFound")
  ELSE IF opt.kind = "All"
       THEN IF Len(d[k]) /= n THEN Err("RangeError") ELSE Ok(d[k])
       ELSE IF ~InBounds(Len(d[k]), opt.range) \/ RangeLen(opt.range) /= n
            THEN Err("RangeError")
            ELSE Ok(SubSeq(d[k], 1, n))

(***************************************************************************)
(* get into a buffer of length n: open read-only (NotFound), check the     *)
(* file size (All) or the range and the buffer length (Range), read.       *)
(***************************************************************************)
FsGet(d, k, n, opt) ==
  IF d[k] = NoBlob THEN Err("NotFound")
  ELSE IF opt.kind = "All"
       THEN IF Len(d[k]) /= n THEN Err("RangeError") ELSE Ok(d[k])
       ELSE IF ~InBounds(Len(d[k]), opt.range) \/ RangeLen(opt.range) /= n
            THEN Err("RangeError")
            ELSE Ok(Slice(d[k], opt.range))

\* BlobStore::get_owned (lib.rs): size the buffer from meta (All) or from
\* the range, then get.
GetOwned(d, k, opt) ==
  IF opt.kind = "All"
  THEN IF FsMeta(d, k).st /= "Ok" THEN FsMeta(d, k) ELSE FsGet(d, k, Len(d[k]), opt)
  ELSE FsGet(d, k, RangeLen(opt.range), opt)

\* delete(Discard): remove_file, a missing file mapped to NotFound
FsDelete(d, k) ==
  IF d[k] = NoBlob THEN [disk |-> d, r |-> Err("NotFound")]
  ELSE [disk |-> [d EXCEPT ![k] = NoBlob], r |-> Ok(<<>>)]

\* Every outcome of a delete: remove_file may fail with Error::Io.
FsDeleteResults(d, k) ==
  {FsDelete(d, k)} \cup IF IoFail /\ d[k] /= NoBlob THEN {[disk |-> d, r |-> Err("Io")]} ELSE {}

(***************************************************************************)
(* The FFI methods (src/ffi/local_file_system.rs, and the bypass_* methods *)
(* of the cached store): a request o applied to disk d.                    *)
(***************************************************************************)
FsRequest(d, o) ==
  CASE o.name = "contains"      -> [disk |-> d, r |-> FsContains(d, o.key)]
    [] o.name = "blob_size"     -> [disk |-> d, r |-> FsMeta(d, o.key)]
    [] o.name = "create"        -> FsPut(d, o.key, o.val, Create)
    [] o.name = "put"           -> FsPut(d, o.key, o.val, Replace(RangeOf(o)))
    [] o.name = "put_or_create" -> FsPut(d, o.key, o.val, ReplaceOrCreate)
    [] o.name = "get_all"       -> [disk |-> d, r |-> FsGet(d, o.key, o.len, All)]
    [] o.name = "get_offset"    -> [disk |-> d, r |-> FsGet(d, o.key, o.len, InRange(RangeOf(o)))]
    [] o.name = "remove"        -> FsDelete(d, o.key)

TypeOK ==
  /\ disk \in [Keys -> Seq(Int) \cup {NoBlob}]
  /\ resp \in [Threads -> [st : {"None", "Ok", "NotFound", "AlreadyExists", "RangeError", "Io"},
                           out : Seq(Int)]]

\* connect(root): the root directory may already hold blob files.
Init ==
  /\ disk \in [Keys -> Values \cup {NoBlob}]
  /\ resp = [t \in Threads |-> NoResp]
  /\ req = [t \in Threads |-> CHOOSE o \in Requests : TRUE]
  /\ parity = [t \in Threads |-> FALSE]

\* Thread t calls an FFI method of the local_fs store.
Call(t, o) ==
  LET c == FsRequest(disk, o)
  IN /\ disk' = c.disk
     /\ resp' = [resp EXCEPT ![t] = c.r]
     /\ req' = [req EXCEPT ![t] = o]
     /\ parity' = [parity EXCEPT ![t] = ~@]

Next == \E t \in Threads, o \in Requests : Call(t, o)

Spec == Init /\ [][Next]_vars

\* The local file system store keeps the BlobStore contract of lib.rs: every
\* FFI call, with a file standing for a blob, changes the files and
\* answers the request it was made with (req) as the trait documentation
\* says, for ranges inside, across and beyond the end of a file and
\* buffers of every length.  Each call is one step (Call, no Invoke).
Contract == INSTANCE BlobStore WITH blobs <- disk,
                                    pending <- [t \in Threads |-> FALSE]

FsRefinesStore == Contract!Spec

=============================================================================
