SPECIFICATION WorkerSpec
CONSTANTS
  N = 3
  MaxCount = 3
  MaxRuns = 2
INVARIANTS TypesOK NoStraggler WorkerIsSound
PROPERTIES KeepsContract LeftForCause NobodyWaits
