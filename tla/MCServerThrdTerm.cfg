CONSTANTS
  MaxOps = 2
  NULL = NULL
  NoThread = NoThread
  NL = NL
  a = a
  Clients <- Two
  Threads <- Two
  Fds <- FourFds
  Std = {0}
  SeekTos <- MCSeekTos
  Messages <- OneLine
  MaxSends = 2
  BUFFSIZE = 2
SPECIFICATION FairSpec
CHECK_DEADLOCK FALSE
PROPERTIES TermStops
