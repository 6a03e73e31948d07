\* Two keys, two threads; every request over one- and two-byte files.
CONSTANTS
  Keys = {k1, k2}
  Threads = {t1, t2}
  NoBlob = NoBlob
  IoFail = FALSE
  Values <- FsValues
  Offsets <- FsOffsets
  BufLens <- FsBufLens

SYMMETRY FsSymmetry
VIEW FsView
SPECIFICATION Spec
PROPERTY FsRefinesStore
