\* The multi-block kernel on one rank: what a failed op leaves in the buffer.
SPECIFICATION ToolsSpec
CONSTANTS
  Tools = {"kernel"}
  Runs = 1
  Wirings = {}
  Topologies = {}
  Plans = 1
  Blocks <- TwoThenThree
  Concs <- TwoThenOne
  Kinds <- OneKind
  Rounds = 1
  Refusals = {}
  Losses = {}
  Endings = {"ok"}
  MaxOrphans = 0
  MaxSignals = 0
INVARIANTS
  FailedKeepsInput
