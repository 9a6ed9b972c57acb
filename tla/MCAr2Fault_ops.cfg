SPECIFICATION Spec
CONSTANTS
  MaxOps = 2
  Faults = {"crash", "abort", "post"}
  Faulty = {0, 1}
  MaxFaults = 1
INVARIANTS
  FaultInv
  ErrorContained
  OkMeansWritten
