CONSTANTS
  OraclePeriod = 1
  IntegrityPeriod = 2
  MaxSlice = 2
  MaxUnits = 3
  MaxFaults = 3
  MaxSilent = 1
SPECIFICATION SlicesSpec
INVARIANTS TypesOK VoteIsTrue ReportsAreTrue UnitsAreRight JudgedInTime
