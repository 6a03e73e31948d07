\* Two threads, two keys, one-byte blobs, a one-byte cache whose store may
\* fail any put or delete with an I/O error.
CONSTANTS
  Keys = {k1, k2}
  Threads = {t1, t2}
  Shards = {s1, s2}
  NoBlob = NoBlob
  IoFail = TRUE
  NoThread = NoThread
  Cap = 1
  Bypass = FALSE
  Values <- ByteValues
  Offsets <- MixedOffsets
  BufLens <- MixedBufLens

SYMMETRY Symmetry
SPECIFICATION Spec
PROPERTY IoErrorKeepsOtherBlobs
VIEW ResponseView
