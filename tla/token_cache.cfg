SPECIFICATION FairSpec
CONSTANTS
  p1 = p1
  p2 = p2
  dial = dial
  refresh = refresh
  other = other
  nobody = nobody
  Nobody <- nobody
  NoFile = NoFile
  Torn = Torn
  Threads <- MCThreads
  Procs <- MCProcs
  Owner <- MCOwner
  Main <- MCMain
  Crews <- MCCrews
  SlugLimit = 3
  Sum <- MCSum
  MaxTokens = 2
  MaxFaults = 1
INVARIANTS
  NeverTorn
  CacheCurrent
  OwnAccount
PROPERTIES
  CacheNeverRegresses
  TokenReturns
