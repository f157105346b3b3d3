\* Every program the compiler accepts, early returns and late spawns included,
\* under the Go scheduler's fairness.
CONSTANTS
  s1 = s1  s2 = s2
  t1 = t1  t2 = t2
  Scope = {s1, s2}
  Task = {t1, t2}
  Main = Main
  NoScope = NoScope
  NoTask = NoTask
  WithParent = {s2}
  ReturnsInScope = TRUE
  LateSpawns = TRUE
SPECIFICATION FairSpec
INVARIANTS
  FailureCancels
  OnlyLateBlocksRemain
PROPERTIES
  FirstFailureWins
  ScopeReturns
