INIT Init
NEXT Next
CONSTANTS
  MaxId = 4
  MaxCaptures = 2
  MaxDrift = 1
  Billable <- MCBillable
  DbFails = {TRUE, FALSE}
  Models <- MCModels
  Days = {1}
  Seed <- MCSeed
  ApiPrices = {1, 1400, 2000}
  Usages <- MCUsages
  MaxRequests = 2
  Modes <- Mode
  DayLen = 2
  MaxTicks = 5
  MaxSamples = 2
  Retentions = {1, 2}
  Ambient = {"a"}
  MaxLoad = 1
  Degraded <- MCDegraded
  MaxEventRows = 4
  Request = {r1, r2}
  ToolId = {t1}
  SessionId = s1
  Ttl = 2
  MaxNow = 4
  MaxSalt = 4
  MaxRetries = 4
  Limit = 3
  Window = 2
  Weight = {1, 2}
  MaxFailures = 2
  Margin = 1
  UpstreamCaps <- UpCaps
  Counts = {0, 1, 2}
  MaxEvents = 4
  MaxTime = 5
  MaxRows = 2
  Ring = 1
  MaxList = 1
  MaxMail = 2
  Fetch = {f1}
  MaxBreaks = 1
INVARIANTS
  FormEdits StampedBodies StreamCounts ImageRewrites DayMeasures
  KnownIsPriced EventsChain MappingsFresh WindowRespected FeedAgrees
PROPERTIES RingKeepsNewest JobHeals
CHECK_DEADLOCK FALSE
