\* Three packages, one of them the target, and a directory that is missing.
CONSTANTS
  Dir <- Dirs
  Entry = "a"
  Segment = {"proj", "encoding", "nowhere"}
  Project = "proj"
  StdNames = {"encoding", "proj"}
  ExtraNames = {}
  Missing = {"gone"}
  Contents <- AnyPackage
  PathRank <- Ranks
SPECIFICATION FairSpec
INVARIANTS
  TypeOK
  VerdictIsExact
  BuildIsExact
PROPERTY BuildEnds
