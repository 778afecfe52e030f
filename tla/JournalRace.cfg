CONSTANTS
  a = a
  b = b
  c = c
  Runs <- ThreeRuns
  MaxEntries = 1
  MaxKept = 2
  MaxCrashes = 0
  MaxFaults = 0
  Overlap = TRUE
SPECIFICATION JournalSpec
PROPERTY LiveIsNotMoved
