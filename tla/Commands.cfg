CONSTANTS
  Workers <- TwoWorkers
  MaxKept = 1
  MaxRecords = 2
  Formats <- JsonAndCsv
SPECIFICATION CommandsSpec
INVARIANTS TypesOK OutcomeIsTrue FindingsAreTrue SearchIsTrue
PROPERTIES StepsAreAllowed CommandsEnd
