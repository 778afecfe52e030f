CONSTANTS
  Workers <- TwoWorkers
  MaxKept = 1
  MaxRecords = 2
  Formats <- JsonAndCsv
SPECIFICATION CommandsSpec
INVARIANT FaultIsFive
