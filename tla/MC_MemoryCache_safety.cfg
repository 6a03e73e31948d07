\* Two threads, two keys, one- and two-byte blobs, a three-byte cache:
\* evictions, write-back, shard contention, bypass calls and aborts happen.
CONSTANTS
  Keys = {k1, k2}
  Threads = {t1, t2}
  Shards = {s1, s2}
  NoBlob = NoBlob
  IoFail = FALSE
  NoThread = NoThread
  Cap = 3
  Bypass = TRUE
  Values <- MixedValues
  Offsets <- MixedOffsets
  BufLens <- MixedBufLens

SYMMETRY Symmetry
SPECIFICATION Spec
INVARIANT TypeOK
INVARIANT LruMapAgree
INVARIANT ResidentWithinBudget
VIEW SafetyView
