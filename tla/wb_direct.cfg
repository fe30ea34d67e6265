SPECIFICATION LiveSpec
CONSTANTS
  MaxId = 3
  MaxCaptures = 2
  MaxDrift = 0
  Billable <- MCBillable
  DbFails = {TRUE, FALSE}
  FlushBatch = 2
  MaxDepth = 2
  MaxRetries = 2
  UseWorker = FALSE
  OnFlushThrows = {FALSE}
  OnDropThrows = {FALSE}
  ConnectFails = {}
  MaxBatches = 0
INVARIANTS Conserved NoStranded TableAgrees
PROPERTIES UpdateSettles ShutdownEnds
