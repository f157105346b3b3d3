CONSTANT MaxDepth = 3
SPECIFICATION Spec
INVARIANTS
  BreakLeavesLoop
CHECK_DEADLOCK FALSE
