SPECIFICATION FairSpec
CONSTANTS
  t1 = t1
  t2 = t2
  t3 = t3
  t4 = t4
  Transfers <- MCTransfers
  Blocks = {1, 2, 3, 4, 5}
  TgtChoices <- MCTgt
  SrcChoices <- MCSrc
  ZeroChoices <- MCZero
INVARIANTS
  BookkeepingExact
  HalfKept
PROPERTIES
  ImplementsTransferSequence
  Terminates
