SPECIFICATION FairSpec
CONSTANTS
  PartitionNames <- MCNames
  Packages <- MCPackages
  SuperSize = 3
  MaxLosses = 2
  Sizes = {0, 1, 2}
  Limits = {0, 2}
INVARIANTS
  PatchFits
  UnfitUntouched
  Resumable
  InstalledTarget
PROPERTIES
  EventuallyInstalled
