SPECIFICATION Spec
CONSTANTS
  IntMax = 64
  SafeMax = 512
  LongMax = 1024
  WordMax = 2048
  Ranks = {0, 1}
  Deployments <- MCDeployments
  BlobFiles <- MCBlobFiles
  Text <- MCText
  Blobs <- MCBlobs
INVARIANTS
  LoadingTypeOK
  PlanAsWritten
  SameArtifacts
  RightSlots
