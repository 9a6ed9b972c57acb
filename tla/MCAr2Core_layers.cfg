\* Three ranks replay a layer of three ops, the fourth calls them one by one.
SPECIFICATION FairSpec
CONSTANTS
  MaxOps = 3
  NSlots = 2
  NQP = 1
  SeqMod = 3
  DecoupledOps = {}
  MultiOps = {}
  Layers <- LayerOfThree
  Captured = {0, 1, 2}
INVARIANTS
  TypeOK
PROPERTIES
  WriteBackLast
  OpsComplete
