SPECIFICATION FairSpec
CONSTANTS
  Plans <- OneTroubledOrTwo
  StaleAfter = 0
  StopGrace = 1
  KillGrace = 1
  Ceiling = TRUE
INVARIANTS TypeOK FatesAreTrue SignalsOnlyChildren 
PROPERTIES LadderInOrder EveryRunEnds
