\* As the refinement run, but the process may die between calls or while
\* Drop writes the map file.  A torn map file makes every later connect
\* fail, so the store really may stop: deadlock is not checked.
CONSTANTS
  Keys = {k1, k2}
  Threads = {t1}
  NoBlob = NoBlob
  NoKey = NoKey
  Crashes = TRUE
  SqlFail = FALSE
  MaxRow <- SqRows
  Values <- SqValues
  Offsets <- SqOffsets
  BufLens <- SqBufLens

SYMMETRY SqSymmetry
SPECIFICATION Spec
INVARIANT MapPointsToOwnRow
CHECK_DEADLOCK FALSE
