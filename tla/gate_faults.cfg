SPECIFICATION Spec
CONSTANTS
  Requests <- MCThree
  Weight <- MCThreeWeight
  Intention <- MCThreeIntention
  Scale = 2
  HardCaps = {1}
  SoftLimits = {1}
  Limits = {1}
  GateConfigs <- MCBreakerConfigs
  MaxRecent = 2
  StoreFails = {TRUE, FALSE}
INVARIANTS BreakerInv
PROPERTIES SingleFlight ImplementsPool
