SPECIFICATION Spec
CONSTANTS
  p1 = p1
  p2 = p2
  p3 = p3
  NoPid = NoPid
  Starters = {p1, p2}
  Cleaners = {}
  CrashProne = {p1}
  Interruptible = {}
  Failures = {}
INVARIANTS
  NoStartFails
