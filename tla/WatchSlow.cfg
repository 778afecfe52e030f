SPECIFICATION Spec
CONSTANTS
  Interval = 1
  Slice = 1
  Preempt = 1
  MaxHeld = 0
  Start = 1
  Replacement = 5
  StaleAfter = 3
  Allowance = 6
  Dwell = 7
  MaxUnanswered = 2
  Period = 2
  Half = 1
  MayHang = FALSE
  Steps <- Rotating
INVARIANT WellIsLeftAlone
