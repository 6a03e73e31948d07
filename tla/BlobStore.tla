----------------------------- MODULE BlobStore -----------------------------
(***************************************************************************)
(* The BlobStore contract of src/lib/rust_part/src/lib.rs: what every      *)
(* backend, and the MemoryCache wrapping one, promises its callers.        *)
(*                                                                         *)
(* A store maps each key to at most one blob (a byte sequence).  A call   *)
(* takes effect in one atomic step of the calling thread, that updates    *)
(* the blobs and leaves the call's response in resp[t]; the response is   *)
(* the contract's for the request req[t] the thread made.  A store that   *)
(* serves a call in one step does so by Call, which also flips parity[t], *)
(* so two equal calls in a row are two steps; a store whose calls take    *)
(* several steps has the call issued by Invoke (pending) and taking       *)
(* effect by Return.  Requests are those of the FFI facade                 *)
(* (src/ffi/*.rs): a replace or a range read always names the range       *)
(* [offset, offset + |buffer|), so range and buffer lengths agree.        *)
(***************************************************************************)
EXTENDS BlobTypes

CONSTANT Threads   \* caller threads (model values)

VARIABLES
  blobs,     \* blobs[k]: the blob of key k, or NoBlob
  req,       \* req[t]: the request of thread t's current or last call
  pending,   \* pending[t]: thread t has issued req[t] and awaits its response
  parity,    \* parity[t]: flips with every one-step call of thread t
  resp       \* resp[t]: the response of thread t's last completed call

vars == <<blobs, req, pending, parity, resp>>

(***************************************************************************)
(* Contract(b, o): the blob of o.key after the call and its response, when *)
(* the key's blob is b before it (BlobStore trait, lib.rs).               *)
(***************************************************************************)
Contract(b, o) ==
  LET absent == b = NoBlob
      r      == RangeOf(o)
  IN CASE o.name = "contains"      -> [blob |-> b, r |-> Ok(<<IF absent THEN 0 ELSE 1>>)]
       [] o.name = "blob_size"     -> [blob |-> b, r |-> IF absent THEN Err("NotFound")
                                                         ELSE Ok(<<Len(b)>>)]
       [] o.name = "create"        -> IF absent THEN [blob |-> o.val, r |-> Ok(<<>>)]
                                      ELSE [blob |-> b, r |-> Err("AlreadyExists")]
       [] o.name = "put"           -> IF absent THEN [blob |-> b, r |-> Err("NotFound")]
                                      ELSE IF ~InBounds(Len(b), r)
                                           THEN [blob |-> b, r |-> Err("RangeError")]
                                           ELSE [blob |-> Splice(b, r, o.val), r |-> Ok(<<>>)]
       [] o.name = "put_or_create" -> [blob |-> o.val, r |-> Ok(<<>>)]
       [] o.name = "get_all"       -> [blob |-> b, r |-> IF absent THEN Err("NotFound")
                                                         ELSE IF o.len /= Len(b) THEN Err("RangeError")
                                                         ELSE Ok(b)]
       [] o.name = "get_offset"    -> [blob |-> b, r |-> IF absent THEN Err("NotFound")
                                                         ELSE IF ~InBounds(Len(b), r) THEN Err("RangeError")
                                                         ELSE Ok(Slice(b, r))]
       [] o.name = "remove"        -> IF absent THEN [blob |-> b, r |-> Err("NotFound")]
                                      ELSE [blob |-> NoBlob, r |-> Ok(<<>>)]

TypeOK ==
  /\ blobs \in [Keys -> Seq(Int) \cup {NoBlob}]
  /\ req \in [Threads -> Requests]
  /\ pending \in [Threads -> BOOLEAN]
  /\ parity \in [Threads -> BOOLEAN]
  /\ resp \in [Threads -> [st : {"None", "Ok", "NotFound", "AlreadyExists", "RangeError"},
                           out : Seq(Int)]]

\* A store is opened over a root that may already hold blobs.
Init ==
  /\ blobs \in [Keys -> Values \cup {NoBlob}]
  /\ req = [t \in Threads |-> CHOOSE o \in Requests : TRUE]
  /\ pending = [t \in Threads |-> FALSE]
  /\ parity = [t \in Threads |-> FALSE]
  /\ resp = [t \in Threads |-> NoResp]

\* Request o of thread t takes effect on the blobs and is answered.
Effect(t, o) ==
  LET c == Contract(blobs[o.key], o)
  IN /\ blobs' = [blobs EXCEPT ![o.key] = c.blob]
     /\ resp' = [resp EXCEPT ![t] = c.r]

\* Thread t makes call o, served in one step.
Call(t, o) ==
  /\ ~pending[t]
  /\ req' = [req EXCEPT ![t] = o]
  /\ parity' = [parity EXCEPT ![t] = ~@]
  /\ Effect(t, o)
  /\ UNCHANGED pending

\* Thread t issues call o, which takes effect at a later step.
Invoke(t, o) ==
  /\ ~pending[t]
  /\ req' = [req EXCEPT ![t] = o]
  /\ pending' = [pending EXCEPT ![t] = TRUE]
  /\ UNCHANGED <<blobs, parity, resp>>

\* The call thread t issued takes effect and returns.
Return(t) ==
  /\ pending[t]
  /\ Effect(t, req[t])
  /\ pending' = [pending EXCEPT ![t] = FALSE]
  /\ UNCHANGED <<req, parity>>

Next == \E t \in Threads :
          \/ \E o \in Requests : Call(t, o) \/ Invoke(t, o)
          \/ Return(t)

Spec == Init /\ [][Next]_vars

=============================================================================
