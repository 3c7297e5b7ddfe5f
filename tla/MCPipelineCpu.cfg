CONSTANTS
  s1 = s1
  s2 = s2
  None = None
  Airgroups <- MCAirgroups
  AirgroupOf <- MCAirgroupOf
  Instances <- Instances4
  Compressed <- Compressed1
  Stored <- Stored2
  Resident <- Nothing
  Streams <- OneStream
  RecursiveStreams <- Nothing
  Buffers <- OneBuffer
  Gpu = FALSE
  Modes <- BothModes
  Faults <- NoFaults
  MaxRuns = 1
SPECIFICATION FairSpec
INVARIANTS
  TypeOK
  PendingAccounts
  ResultComplete
  BuffersConserved
PROPERTIES
  Completes
  ImplementsAggregation
