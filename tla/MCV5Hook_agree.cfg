\* Nothing fails: the clocks alone make the ranks disagree.
SPECIFICATION Spec
CONSTANTS
  Programs <- BothPrograms
  Fragile = {}
INVARIANTS
  DecisionsAgree
