\* Two-byte blobs read one byte at a time through a two-byte cache.
CONSTANTS
  Keys = {k1, k2}
  Threads = {t1, t2}
  Shards = {s1, s2}
  NoBlob = NoBlob
  IoFail = FALSE
  NoThread = NoThread
  Cap = 2
  Bypass = FALSE
  Values <- PairPutValues
  Offsets <- MixedOffsets
  BufLens <- ByteLens

SYMMETRY Symmetry
SPECIFICATION Spec
PROPERTY ReplaceRangeErrorOnlyOutOfBounds
VIEW ResponseView
