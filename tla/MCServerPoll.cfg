CONSTANTS
  NULL = NULL
  NL = NL
  NUL = NUL
  a = a
  OPEN_MAX = 3
  Clients <- Three
  Messages <- MCMessages
  MaxSends = 2
  BUFFSIZE = 3
SPECIFICATION FairSpec
CHECK_DEADLOCK FALSE
INVARIANTS TypeOK TableHoldsConnections ReadsOnlyReady EndsOnlyFull
           FileHoldsReceived
PROPERTIES LineAnswered EveryoneServed SignalStops
