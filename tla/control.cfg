SPECIFICATION Spec
CONSTANTS
  Plan <- MCPlan
  RawConfigs <- MCRawConfigs
  DEFAULT_CONFIG <- MCDefault
  RateValues <- MCRates
  CapValues = {1}
  Call = {c1}
  MaxChanges = 1
  MaxEdits = 1
  MaxFaults = 1
  MaxRefreshes = 2
INVARIANTS LimitsAgree
PROPERTIES NoClobber CapsConverge
