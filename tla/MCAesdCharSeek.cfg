SPECIFICATION CallsSpec
CONSTANTS
  MaxOps = 2
  MaxLine = 2
  SizeMod = 32
  NULL = NULL
  NoTask = NoTask
  NL = NL
  a = a
  b = b
  Tasks = {t1, t2}
  Files = {f1}
  Addr = {m1, m2, m3, m4}
  Chars = {a, b, NL}
  Writes <- MCReadWrites
  Counts <- None
  LseekArgs <- MCLseeks
  SeekTos <- MCSeekTos
SYMMETRY Callers
PROPERTIES
  
  SeeksWhole
  
CHECK_DEADLOCK FALSE
