SPECIFICATION Spec
CONSTANTS
  MaxId = 2
  MaxCaptures = 2
  MaxDrift = 0
  Billable <- MCBillable
  DbFails = {TRUE, FALSE}
  FlushBatch = 2
  MaxDepth = 2
  MaxRetries = 2
  UseWorker = TRUE
  OnFlushThrows = {TRUE, FALSE}
  OnDropThrows = {TRUE, FALSE}
  ConnectFails = {"none", "broken"}
  MaxBatches = 2
INVARIANTS AppliedOnce
