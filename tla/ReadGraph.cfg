SPECIFICATION FairSpec
CONSTANTS
  a = a
  b = b
  c = c
  Files <- MCFiles
  DepLists <- MCDepLists
  RootLists <- MCRootLists
  ConcurrentReaders = 2
INVARIANTS
  NoPanic
  PoolConserved
  ReadOnce
PROPERTIES
  AbstractSafe
  Returns
