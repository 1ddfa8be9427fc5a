SPECIFICATION EmbeddingSpec
CONSTANTS
  Origins = {o1}
  NoOrigin = NoOrigin
  Containers <- MCContainers
  OpenTypes = {1, 3}
  CacheSize = 1
  Linger = 0
  Crawler = FALSE
  MaxApps = 4
  PipeBound = 1
  UiBound = 1
INVARIANTS WindowsInv GoesOnInv NothingIsStuck
CHECK_DEADLOCK FALSE
