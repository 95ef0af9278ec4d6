SPECIFICATION Spec
CONSTANTS
  Locals = {"x"}
  MaxBlocks = 7
  MaxDepth = 2
  MaxRoots = 2
INVARIANTS TypeOK BuilderInOpenBlock RootsStartClean PhisMatchPredecessors ValuesDominateUses
CHECK_DEADLOCK FALSE
