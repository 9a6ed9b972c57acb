SPECIFICATION Spec
CONSTANTS
  MaxOps = 3
  NSlots = 2
  NQP = 1
  SeqMod = 3
  DecoupledOps = {1, 2}
  MultiOps = {3}
  Layers <- NoLayers
  Captured = {}
INVARIANTS
  NoProtocolError
  BufInputOrSum
  SlotsIntact
  IInv
PROPERTY ImplementsAllReduce
