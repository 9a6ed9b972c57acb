\* All of them; every script is started up to three times.
SPECIFICATION FairToolsSpec
CONSTANTS
  Tools = {"ring", "host", "map", "tree", "kernel", "batch"}
  Runs = 3
  Wirings <- Cablings
  Topologies <- Documents
  Plans = 2
  Blocks <- TwoThenThree
  Concs <- TwoThenOne
  Kinds <- OneKind
  Rounds = 2
  Refusals = {"timeout"}
  Losses = {"timeout"}
  Endings = {"ok"}
  MaxOrphans = 1
  MaxSignals = 2
INVARIANTS
  PlanMatchesCables
  EveryRingIsPlanned
  OkMeansUp
  DownLeavesNothing
  
  NothingTwice
  DoneMeansPatched
  SummaryMatchesRows
  SignalKeepsResults
  ManifestMeansAll
  PureMeansTogether
  PublishedWhole
PROPERTIES
  
  BatchEnds
