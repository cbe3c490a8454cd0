SPECIFICATION FairSpec
CONSTANTS
  MaxOps = 2
  MaxLine = 1
  SizeMod = 32
  NULL = NULL
  NoTask = NoTask
  NL = NL
  a = a
  b = b
  Tasks = {t1, t2}
  Files = {f1}
  Addr = {m1, m2, m3, m4}
  Chars = {a, b, NL}
  Writes <- MCOneWrite
  Counts = {1}
  LseekArgs <- MCOneLseek
  SeekTos <- MCOneSeekTo
PROPERTIES
  MutexReleased
  WalksEnd
CHECK_DEADLOCK FALSE
