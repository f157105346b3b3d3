CONSTANTS
  s1 = s1
  t1 = t1  t2 = t2
  Scope = {s1}
  Task = {t1, t2}
  Main = Main
  NoScope = NoScope
  NoTask = NoTask
  WithParent = {}
  ReturnsInScope = TRUE
  LateSpawns = FALSE
SPECIFICATION Spec
INVARIANT JoinContract
