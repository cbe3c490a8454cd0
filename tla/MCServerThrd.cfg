CONSTANTS
  MaxOps = 2
  NULL = NULL
  NoThread = NoThread
  NL = NL
  a = a
  Clients <- Three
  Threads <- Two
  Fds <- FourFds
  Std = {0}
  SeekTos <- MCSeekTos
  Messages <- OneLine
  MaxSends = 2
  BUFFSIZE = 2
SPECIFICATION Spec
CHECK_DEADLOCK FALSE
INVARIANTS TypeOK ThreadsListed NoThreadLeft LockExcludes DescriptorsOwned
