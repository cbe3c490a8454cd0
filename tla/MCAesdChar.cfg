SPECIFICATION CallsSpec
CONSTANTS
  MaxOps = 2
  MaxLine = 2
  SizeMod = 32
  NULL = NULL
  NoTask = NoTask
  NL = NL
  a = a
  b = b
  Tasks = {t1, t2}
  Files = {f1}
  Addr = {m1, m2, m3, m4, m5}
  Chars = {a, b, NL}
  Writes <- MCWrites
  Counts = {2}
  LseekArgs <- None
  SeekTos <- None
SYMMETRY Callers
INVARIANTS
  TypeOK
  LockMatchesSections
  MemoryOwned
  LinesWellFormed
PROPERTIES
  ImplementsLog
  ImplementsWrites
  WriteStoresAll
  ReadsWhole
CHECK_DEADLOCK FALSE
