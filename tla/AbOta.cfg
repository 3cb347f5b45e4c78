SPECIFICATION Spec
CONSTANTS
  None = None
  Jobs <- MCJobs
  WithBuildProp = {"system", "vendor"}
  Skipped = {"vendor", "boot", "vendor_boot"}
  Occurs <- MCOccurs
  EndsWith <- MCEndsWith
  Sizes = {900, 9100, 99000, 999300, 99999000}
INVARIANTS
  DeviceAccepts
  InstallerUnderstands
  ListsAgree
  PackageDescribesItself
CHECK_DEADLOCK FALSE
