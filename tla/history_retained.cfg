SPECIFICATION HistorySpec
CONSTANTS
  DayLen = 2
  MaxTicks = 5
  MaxSamples = 2
  Retentions = {2}
  Ambient = {"a"}
  MaxLoad = 1
PROPERTIES RowsRetained
