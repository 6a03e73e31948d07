\* Two keys, one caller, three rowids, crashes between calls and during
\* Drop, and failing INSERT, DELETE and blob writes: enough for creates,
\* deletes that free the last row, and Drop/connect cycles.  A torn map
\* file makes every later connect fail, so the store really may stop:
\* deadlock is not checked.
CONSTANTS
  Keys = {k1, k2}
  Threads = {t1}
  NoBlob = NoBlob
  NoKey = NoKey
  Crashes = TRUE
  SqlFail = TRUE
  MaxRow <- SqRows
  Values <- SqValues
  Offsets <- SqOffsets
  BufLens <- SqBufLens

SYMMETRY SqSymmetry
VIEW SqView
SPECIFICATION Spec
PROPERTY SqliteRefinesStore
CHECK_DEADLOCK FALSE
