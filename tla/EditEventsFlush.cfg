SPECIFICATION Spec
CONSTANTS
  MaxEvents = 2
  Threshold = 1
  MaxSignals = 1
INVARIANTS
  FlushesAll
