SPECIFICATION FairSpec
CONSTANTS
  NULL = NULL
  Pids = {p1, p2}
  Outputs = {f1}
  Fds <- MCFds
INVARIANTS
  TypeOK
  
  
  CommandRedirected
  
PROPERTY CallsReturn
