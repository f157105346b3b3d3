\* Matches of up to three arms; a tuple of eight cells is beyond the limit.
CONSTANTS
  Kind <- Kinds
  Ctors <- Constructors
  Carries = {"Line", "Some"}
  Lit = {"1", "2"}
  Subject <- Subjects
  Written <- AnyArms
  MaxArms = 3
  CellLimit = 4
SPECIFICATION Spec
INVARIANT RunsFirstMatch
