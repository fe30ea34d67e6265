SPECIFICATION Spec
CONSTANTS
  Img = {a, b}
  Req = {r1, r2}
  NoReq = NoReq
  NoImg = NoImg
  NoCtx = NoCtx
  Ctx <- MCCtx
  FlushBatch = 3
  MaxFlushes = 2
  MaxRows = 1
  Faults = {"read", "evict", "flush", "update", "insert", "state"}
  Bodies <- MCAllBodies
  Configs <- MCConfigs
INVARIANTS DescribesItsImage InflightOwned NothingLeftOpen ReadsLatest
