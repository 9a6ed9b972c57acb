\* Two sizes, two timers that may expire anywhere. Ranks that skipped a
\* different number of calls wait for each other for ever.
SPECIFICATION FairSpec
CONSTANTS
  Scripts = {"twohop", "bilateral"}
  Blocks = 2
  MaxAlarms = 2
  BadSets <- OneBad
INVARIANTS
  CleanMeansMatched
  RowsComplete
PROPERTIES
  UntimedCompletes
CHECK_DEADLOCK FALSE
