\* Two threads, two keys, one- and two-byte blobs, a three-byte cache, no
\* bypass calls: put_or_create of a resident key with another size.
CONSTANTS
  Keys = {k1, k2}
  Threads = {t1, t2}
  Shards = {s1, s2}
  NoBlob = NoBlob
  IoFail = FALSE
  NoThread = NoThread
  Cap = 3
  Bypass = FALSE
  Values <- MixedValues
  Offsets <- MixedOffsets
  BufLens <- MixedBufLens

SYMMETRY Symmetry
SPECIFICATION Spec
INVARIANT NoPanic
VIEW SafetyView
