-------------------------- MODULE MC_SqliteBlobStore --------------------------
(***************************************************************************)
(* Model-checking instance of SqliteBlobStore: one- and two-byte blobs,   *)
(* ranges inside and across them, three rowids.                           *)
(***************************************************************************)
EXTENDS SqliteBlobStore, TLC

SqValues == {<<0, 1>>, <<1>>}
SqOffsets == {0, 1}
SqBufLens == {1, 2}
SqRows == 3

SqSymmetry == Permutations(Keys)

\* After the first crash or failed statement the contract only stutters,
\* whatever was recorded then, and no step or property reads the
\* responses: states that differ only in these have the same future.
SqView == IF lastSeen = None THEN <<rows, kmap, dump, open, owner, resp>>
          ELSE <<rows, kmap, dump, open, owner>>

=============================================================================
