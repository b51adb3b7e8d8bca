SPECIFICATION WatcherSpec
CONSTANTS
  None = None
  A = A
  J = J
  ka = ka
  kj = kj
  ks = ks
  Logs = {A, J}
  Keys = {ka, kj, ks}
  Expected = {A, J}
  Submissions <- Posted
  Registrable <- PostedDigests
  Configs <- Files
  MaxCalls = 2
  Window = 2
  MaxLag = 1
  MaxTime = 3
  MaxDeploys = 1
INVARIANTS
  TypeOK
  BudgetKept
PROPERTIES
  
  WatchedChain
CHECK_DEADLOCK FALSE
