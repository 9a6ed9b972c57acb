SPECIFICATION FairSpec
CONSTANTS
  Programs <- BothPrograms
  Fragile = {2}
INVARIANTS
  DispatchAfterFence
  FramesAligned
  
  GroupOrderKept

  
