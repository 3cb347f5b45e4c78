SPECIFICATION FairSpec
CONSTANTS
  MaxEvents = 3
  Threshold = 2
  MaxSignals = 2
INVARIANTS
  InOnePlace
  LoggedAtExit
PROPERTIES
  EventuallyLogged
