CONSTANTS
  s1 = s1
  s2 = s2
  None = None
  Airgroups <- MCAirgroups
  AirgroupOf <- MCAirgroupOf
  Instances <- Instances2
  Compressed <- Compressed1
  Stored <- Nothing
  Resident <- Nothing
  Streams <- TwoStreams
  RecursiveStreams <- RecursiveS2
  Buffers <- OneBuffer
  Gpu = TRUE
  Modes <- Aggregating
  Faults <- Precalculating
  MaxRuns = 1
SPECIFICATION FairSpec
PROPERTIES
  ErrorReturns
