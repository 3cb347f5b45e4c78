SPECIFICATION Spec
CONSTANTS
  t1 = t1
  t2 = t2
  t3 = t3
  z = z
  a = a
  b = b
  c = c
  Transfers <- MCTransfers
  Blocks = {1, 2, 3, 4, 5, 6, 7}
  TotalBlocks = {1, 2, 3, 4, 5, 6}
  Extended = {6}
  TgtChoices <- MCTgt
  SrcChoices <- MCSrc
  ZeroChoices <- MCZero
  SrcImages <- MCSrcImages
  TgtImages <- MCTgtImages
  Zero = z
  Limits = {1, 2, 3}
  Slack = 1
INVARIANTS
  RevisedCovers
  Updated
  AnnouncedSizeCovers
PROPERTIES
  Installed
