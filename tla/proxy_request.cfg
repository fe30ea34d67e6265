SPECIFICATION LiveSpec
CONSTANTS
  Configs <- Config
INVARIANTS PermitDiscipline UpdatedOnce Attributed
PROPERTIES BreakerToldOnce PermitReturns CaptureSettles
CHECK_DEADLOCK FALSE
