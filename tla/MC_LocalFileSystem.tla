-------------------------- MODULE MC_LocalFileSystem --------------------------
(***************************************************************************)
(* Model-checking instance of LocalFileSystem: blobs of one and two bytes, *)
(* offsets and buffer lengths that reach inside, across and past them.     *)
(***************************************************************************)
EXTENDS LocalFileSystem, TLC

FsValues == {<<0, 1>>, <<1>>}
FsOffsets == {0, 1, 2}
FsBufLens == {0, 1, 2}

\* The request history only feeds the refinement mapping, and each call
\* overwrites its thread's entry: states that differ only there have the
\* same future and the same checks.
FsView == <<disk, resp>>

FsSymmetry == Permutations(Keys) \cup Permutations(Threads)

=============================================================================
