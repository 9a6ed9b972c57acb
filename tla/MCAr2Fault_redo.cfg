SPECIFICATION Spec
CONSTANTS
  MaxOps = 1
  Faults = {"link"}
  Faulty = {}
  MaxFaults = 1
PROPERTY RedoReadsInput
