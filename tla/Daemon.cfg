SPECIFICATION Spec
CONSTANTS
  p1 = p1
  p2 = p2
  p3 = p3
  NoPid = NoPid
  Starters = {p1, p2, p3}
  Cleaners = {p3}
  CrashProne = {}
  Interruptible = {}
  Failures = {}
SYMMETRY MCSymmetry
INVARIANTS
  OneDaemon
  NoStartFails
  CleanupLasts
