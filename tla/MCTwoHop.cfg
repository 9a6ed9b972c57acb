\* Every rank calls the schedule twice; one mode per initial state.
SPECIFICATION FairSpec
CONSTANTS
  Modes <- BenchModes
  MaxOps = 2
  Input <- Digits
INVARIANTS
  SumWhenReturned
  NothingLeft
PROPERTIES
  AllComplete
  ImplementsAllReduce
