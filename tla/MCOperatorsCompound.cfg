\* The order in which operators are applied, as written.
CONSTANT MaxTokens = 5
SPECIFICATION Spec
INVARIANT SameGrouping
