\* Two threads, two keys on one shard, a one-byte cache: every miss evicts
\* the other key, so lock and shard waits cross.  No symmetry or view, which
\* liveness checking does not admit.
CONSTANTS
  Keys = {k1, k2}
  Threads = {t1, t2}
  Shards = {s1}
  NoBlob = NoBlob
  IoFail = FALSE
  NoThread = NoThread
  Cap = 1
  Bypass = FALSE
  Values <- LiveValues
  Offsets <- LiveOffsets
  BufLens <- LiveBufLens

SPECIFICATION FairSpec
PROPERTY CallsReturn
