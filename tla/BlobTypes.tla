------------------------------ MODULE BlobTypes ------------------------------
(***************************************************************************)
(* The data types every store shares (src/lib/rust_part/src/lib.rs and     *)
(* store_impl/mod.rs): keys, blobs, the Put / Get options a request        *)
(* carries, half-open blob ranges and the Ok / error responses.            *)
(* A blob is a non-empty sequence of small integers (its bytes); a key is  *)
(* a model value, since no module looks inside the 8 key bytes.            *)
(***************************************************************************)
EXTENDS Integers, Sequences

CONSTANTS
  Keys,      \* blob keys (model values)
  Values,    \* blob values callers write: non-empty sequences of bytes
  Offsets,   \* offsets callers pass to put / get_offset
  BufLens,   \* buffer lengths callers pass to get_all / get_offset
  NoBlob     \* the key has no blob

ASSUME Values \subseteq Seq(Int) /\ Offsets \subseteq Nat /\ BufLens \subseteq Nat

(***************************************************************************)
(* Requests, named after the FFI methods that issue them.                  *)
(***************************************************************************)
Requests ==
       [name : {"contains", "blob_size", "remove"}, key : Keys]
  \cup [name : {"create", "put_or_create"}, key : Keys, val : Values]
  \cup [name : {"put"}, key : Keys, val : Values, off : Offsets]
  \cup [name : {"get_all"}, key : Keys, len : BufLens]
  \cup [name : {"get_offset"}, key : Keys, off : Offsets, len : BufLens]

\* The Replace / Range half-open range [start, end) a request names.
RangeOf(o) == [start |-> o.off,
               end   |-> o.off + (IF o.name = "put" THEN Len(o.val) ELSE o.len)]

\* BlobRange::len
RangeLen(r) == r.end - r.start

\* helpers::range_contains(0..size, r)
InBounds(size, r) == 0 <= r.start /\ r.end <= size

\* The bytes of blob b in range r.
Slice(b, r) == SubSeq(b, r.start + 1, r.end)

\* Blob b with the bytes of range r overwritten by v.
Splice(b, r, v) == [i \in 1 .. Len(b) |->
                      IF r.start < i /\ i <= r.end THEN v[i - r.start] ELSE b[i]]

\* The bytes of a blob n zero bytes long: set_len on a new file, a
\* zeroblob(n) row.
Zeros(n) == [i \in 1 .. n |-> 0]

Resp(st, out) == [st |-> st, out |-> out]
Ok(out)       == Resp("Ok", out)
Err(e)        == Resp(e, <<>>)
NoResp        == Resp("None", <<>>)

=============================================================================
