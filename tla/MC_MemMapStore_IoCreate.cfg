\* As the memmap run, checking only that a key gains a file in a call that
\* returns Ok: with set_len or map_mut failing, put(Create) leaves one.
CONSTANTS
  Keys = {k1, k2, k3}
  Inos = {i1, i2, i3, i4, i5}
  Threads = {t1}
  NoBlob = NoBlob
  IoFail = TRUE
  CacheSize <- MmCacheSize
  Values <- MmValues
  Offsets <- MmOffsets
  BufLens <- MmBufLens

SYMMETRY MmSymmetry
VIEW MmView
SPECIFICATION Spec
PROPERTY ContainsOnlyAfterCreate
