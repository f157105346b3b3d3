\* Three keys; arrays of up to three cells, so that the order outgrows one and
\* moves; one for the map, one for a loop that began before, one for keys().
\* Ints of three bits; the rest as the README says.  Programs end, and the bounds stop them.
CONSTANTS
  k1 = k1  k2 = k2  k3 = k3
  a1 = a1  a2 = a2  a3 = a3
  Key = {k1, k2, k3}
  v = v  w = w
  Value = {v, w}
  NoKey = NoKey
  Array = {a1, a2, a3}
  NoArray = NoArray
  MaxCap = 3
  MaxLoops = 1
  Width = 3
  MaxWrites = 2
  MaxValues = 4
  MaxLists = 2
SPECIFICATION ValuesSpec
SYMMETRY Symmetry
INVARIANTS
  TypesOK
  AliasingIsSafe
  VisitsRange
  EqualByComponents
  AdmittedBuilds
PROPERTY ImplementsDict
CHECK_DEADLOCK FALSE
