\* Two threads, two keys, one-byte blobs with two contents, a one-byte
\* cache: every admission of the other key evicts and writes back.
CONSTANTS
  Keys = {k1, k2}
  Threads = {t1, t2}
  Shards = {s1, s2}
  NoBlob = NoBlob
  IoFail = FALSE
  NoThread = NoThread
  Cap = 1
  Bypass = FALSE
  Values <- ByteValues
  Offsets <- MixedOffsets
  BufLens <- MixedBufLens

SYMMETRY Symmetry
SPECIFICATION Spec
PROPERTY CacheRefinesStore
VIEW ResponseView
