CONSTANTS
  Sensors <- TwoSensors
  Capacity = 9
  Interval = 2
  BlindAfter = 2
  Duration = 7
  Steps <- TwoSteps
  MaxLag = 3
  MaxTime = 10
  MaxSignals = 2
SPECIFICATION TelemetrySpec
INVARIANTS TypesOK CeilingHolds CountIsTrue WindowsAreWhole BudgetBinds 
