SPECIFICATION Spec
CONSTANTS
  None = None
  Jobs <- SignJobs
INVARIANT ContainerKeysMapped
