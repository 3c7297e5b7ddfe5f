CONSTANTS
  Streams = {1, 2, 3}
  GpuOf <- MCGpuOf
  FirstGpu = 1
  RecursiveStreams = {3}
  Threads = {t1, t2}
  Instances = {1, 2, 3}
  AirOf <- MCAirOf
  Forced = {t2}
  Setups <- MCSetups
  MaxRuns = 2
  MaxBorrows = 1
  None = None
SPECIFICATION Spec
CHECK_DEADLOCK FALSE
INVARIANTS
  TypeOK
  StreamOwnedByOne
  DeliveredRight
  DeliveredOnce
  BorrowExclusive
  NeverStuck
PROPERTIES
  CallReturns
