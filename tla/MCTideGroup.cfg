\* Two scopes, one of them under a parent context, three tasks; programs that
\* neither return from a scope body nor spawn in a trailing expression.
CONSTANTS
  s1 = s1  s2 = s2
  t1 = t1  t2 = t2  t3 = t3
  Scope = {s1, s2}
  Task = {t1, t2, t3}
  Main = Main
  NoScope = NoScope
  NoTask = NoTask
  WithParent = {s2}
  ReturnsInScope = FALSE
  LateSpawns = FALSE
SPECIFICATION Spec
SYMMETRY TaskSymmetry
INVARIANTS
  TypeOK
  JoinContract
  FailureContract
  NothingOutlives
PROPERTY ImplementsContract
