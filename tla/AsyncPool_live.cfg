\* Fair polling with a budget below the number of jobs; the clock wraps, and polls come in time.
SPECIFICATION FairSpec
CONSTANTS
  Capacity = 2
  MaxId = 2
  ClockMod = 6
  Timeouts = {0, 2, 3}
  Kinds <- Stepped
  Budgets = {1}
  MaxGap = 2
PROPERTIES VisitsAreExact EveryJobEnds
CHECK_DEADLOCK FALSE
