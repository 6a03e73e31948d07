\* Two keys, one caller, a one-mapping LRU and three inode numbers (two
\* files plus one more mapping): creates, deletes and re-creates that reuse
\* inodes, hits and misses of every request, and a failure of each system
\* call.
CONSTANTS
  Keys = {k1, k2, k3}
  Inos = {i1, i2, i3, i4, i5}
  Threads = {t1}
  NoBlob = NoBlob
  IoFail = TRUE
  CacheSize <- MmCacheSize
  Values <- MmValues
  Offsets <- MmOffsets
  BufLens <- MmBufLens

SYMMETRY MmSymmetry
VIEW MmView
SPECIFICATION Spec
INVARIANT TypeOK
INVARIANT MappingsCurrent
PROPERTY MemMapRefinesStore
