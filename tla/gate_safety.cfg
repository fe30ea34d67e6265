SPECIFICATION Spec
CONSTANTS
  Requests <- MCRequests
  Weight <- MCWeight
  Intention <- MCIntention
  Scale = 2
  HardCaps = {1, 2}
  SoftLimits = {2}
  Limits = {1, 2}
  GateConfigs <- MCSemaphoreConfigs
  MaxRecent = 0
  StoreFails = {FALSE}
INVARIANTS Accounting QueueInv
PROPERTIES GrantWithinLimit DrainExhaustive
