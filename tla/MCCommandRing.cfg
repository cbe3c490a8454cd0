SPECIFICATION Spec
CONSTANTS
  MaxOps = 3
  MaxSize = 3
  NULL = NULL
  Ptrs = {p1, p2, p3}
INVARIANTS
  RingConsistent
  FindMatchesConcatenation
  MeasuresMatchWindow
  SeekOffsetBeforeWrap
PROPERTY
  KeepsLastCommands
