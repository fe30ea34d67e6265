SPECIFICATION PatientSpec
CONSTANTS
  Requests <- MCSix
  Weight <- MCSixWeight
  Intention <- MCSixIntention
  Scale = 2
  HardCaps = {2}
  SoftLimits = {2}
  Limits = {2}
  GateConfigs <- MCPatientConfigs
  MaxRecent = 0
  StoreFails = {FALSE}
PROPERTIES FIFO ReservedNotStarved
