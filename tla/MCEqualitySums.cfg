CONSTANT MaxValues = 4
SPECIFICATION Spec
INVARIANT SumsEqualByComponents
CHECK_DEADLOCK FALSE
