CONSTANTS
  s1 = s1
  s2 = s2
  None = None
  Airgroups <- MCAirgroups
  AirgroupOf <- MCAirgroupOf
  Instances <- Instances2
  Compressed <- Compressed1
  Stored <- Nothing
  Resident <- Resident2
  Streams <- TwoStreams
  RecursiveStreams <- RecursiveS2
  Buffers <- AmpleBuffers
  Gpu = TRUE
  Modes <- BothModes
  Faults <- AllFaults
  MaxRuns = 1
SPECIFICATION FairSpec
INVARIANTS
  AnnouncedProofPresent
  NeverStuck
PROPERTIES
  Completes
  CancelReturns
