---------------------------- MODULE MC_MemoryCache ----------------------------
(***************************************************************************)
(* Model-checking instances of MemoryCache: the blob values, offsets and   *)
(* buffer lengths callers use, per run.                                    *)
(***************************************************************************)
EXTENDS MemoryCache, TLC

\* Blobs of one and two bytes.  Contents are all 0: the properties checked
\* with them are about sizes, and a two-byte admission can need more room
\* than a one-byte eviction frees.
MixedValues == {<<0>>, <<0, 0>>}
MixedOffsets == {0, 1}
MixedBufLens == {1, 2}

\* Blobs of one byte of two values: every in-bounds range is the whole blob.
ByteValues == {<<0>>, <<1>>}

\* Blobs of two bytes, read or replaced one byte at a time.
PairValues == {<<0, 1>>}
PairPutValues == {<<0, 1>>, <<1>>}
ByteLens == {1}

\* One blob value, read and replaced whole: the liveness run is about
\* waiting, not about contents.
LiveValues == {<<0>>}
LiveOffsets == {0}
LiveBufLens == {1}

\* Keys, threads and shards are interchangeable in every property checked.
Symmetry == Permutations(Keys) \cup Permutations(Threads) \cup Permutations(Shards)

\* The request of an idle thread is left over from its last call and
\* matters to no later step: states differing only there are merged.
ActiveReq == [t \in Threads |-> IF pc[t] = "idle" THEN "idle" ELSE req[t]]

\* Runs whose properties do not read the responses merge states that
\* differ only in them.
SafetyView == <<disk, lru, size, map, holder, guard, shardOf, pc, ActiveReq, panicked>>
ResponseView == <<disk, lru, size, map, holder, guard, shardOf, pc, ActiveReq, resp, panicked>>

=============================================================================
