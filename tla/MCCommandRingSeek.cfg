SPECIFICATION Spec
CONSTANTS
  MaxOps = 3
  MaxSize = 3
  NULL = NULL
  Ptrs = {p1}
INVARIANT
  SeekOffsetIsCommandStart
