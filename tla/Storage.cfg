CONSTANTS
  a = a
  b = b
  c = c
  Runs <- ThreeRuns
  MaxEntries = 2
  MaxKept = 2
  MaxCrashes = 1
  MaxFaults = 1
  Overlap = FALSE
SPECIFICATION StorageSpec
SYMMETRY Symmetric
INVARIANTS  EvidenceKept OwnFile   BytesAreExact
