\* Three identifiers for two slots; deadlines, completions, cancellations and
\* callbacks race for them until the identifiers are used up.
SPECIFICATION Spec
CONSTANTS
  Capacity = 2
  MaxId = 3
  ClockMod = 3
  Timeouts = {0, 1, 2}
  Kinds <- TwoKinds
  Budgets = {2}
  MaxGap = 1
INVARIANTS UniqueIds FirstEventWins StopBeforeDone IInv
PROPERTIES NoReentry Lifecycle
CHECK_DEADLOCK FALSE
