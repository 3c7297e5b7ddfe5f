CONSTANTS
  s1 = s1
  s2 = s2
  None = None
  Airgroups <- MCAirgroups
  AirgroupOf <- TwoAirgroups
  Instances <- Instances4
  Compressed <- Nothing
  Stored <- Stored4
  Resident <- Resident2
  Streams <- TwoStreams
  RecursiveStreams <- Nothing
  Buffers <- TwoBuffers
  Gpu = TRUE
  Modes <- Aggregating
  Faults <- NoFaults
  MaxRuns = 2
SPECIFICATION Spec
SYMMETRY StreamSymmetry
INVARIANTS
  PendingAccounts
  NothingAfterDismissal
  ProvedFromTrace
PROPERTIES
  OngoingSlotsNotShared
