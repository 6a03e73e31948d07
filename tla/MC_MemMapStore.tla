--------------------------- MODULE MC_MemMapStore ---------------------------
(***************************************************************************)
(* Model-checking instance of MemMapStore: one- and two-byte blobs, ranges *)
(* inside and across them, and a one-mapping LRU, so every miss of the     *)
(* other key unmaps the cached one.                                        *)
(***************************************************************************)
EXTENDS MemMapStore, TLC

MmValues == {<<0, 1>>, <<1>>}
MmOffsets == {0, 1}
MmBufLens == {1, 2}
MmCacheSize == 2

\* After the first I/O error the contract only stutters, whatever was
\* recorded then, and a create overwrites the bytes of the free inode it
\* takes: states that differ only in these have the same future.
MmView == <<files, [i \in Inos |-> IF i \in FreeInos THEN <<>> ELSE data[i]],
            cache, resp, lastSeen = None>>

\* Keys are interchangeable.
MmSymmetry == Permutations(Keys)

=============================================================================
