SPECIFICATION Spec
CONSTANTS
  None = None
  Jobs <- TheJobs
INVARIANTS
  VbmetaDescribesImages
  ImagesMatchTree
  MetaDescribesImages
  RecoveryPatchFits
  SizesFit
  OneBuild
  SignedWithMappedKeys
  BootOtasInstallImages
  OwnBlobs
