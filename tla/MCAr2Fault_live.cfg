SPECIFICATION FairSpec
CONSTANTS
  MaxOps = 1
  Faults = {"link"}
  Faulty = {0, 1, 2, 3}
  MaxFaults = 1
INVARIANT EarlyErrorKeepsInput
PROPERTIES
  KernelStops
  AbortReaches
