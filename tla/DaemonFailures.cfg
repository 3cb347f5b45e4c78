SPECIFICATION FairSpec
CONSTANTS
  p1 = p1
  p2 = p2
  p3 = p3
  NoPid = NoPid
  Starters = {p1, p2}
  Cleaners = {p2}
  CrashProne = {p1, p2}
  Interruptible = {p1, p2}
  Failures = {"kill", "write", "remove", "fork", "touch", "ps"}
INVARIANTS
  MonitorRecorded
  NoOrphan
PROPERTIES
  StartEnds
