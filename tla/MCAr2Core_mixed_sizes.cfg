\* An op of more than 16 KiB followed by a small one. The engine then waits
\* for a word that never comes (its timeout is not modelled): the run may stop.
SPECIFICATION Spec
CONSTANTS
  MaxOps = 2
  NSlots = 2
  NQP = 1
  SeqMod = 3
  DecoupledOps = {1, 2}
  MultiOps = {1}
  Layers <- NoLayers
  Captured = {}
INVARIANT BufInputOrSum
CHECK_DEADLOCK FALSE
