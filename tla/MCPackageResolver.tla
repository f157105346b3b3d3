------------------------- MODULE MCPackageResolver -------------------------
(* Instances of PackageResolver for TLC: every import graph of a project of*)
(* three packages, with a path to a directory that does not exist.         *)
EXTENDS PackageResolver

User(d) == [head |-> "proj", dir |-> d]
Json    == [head |-> "encoding", dir |-> "gone"]
Nowhere == [head |-> "nowhere", dir |-> "a"]

Dirs  == {"a", "b", "c", "gone"}
Paths == {User(d) : d \in Dirs} \cup {Json, Nowhere}

\* What a package imports: nothing, anything once, two packages in any order,
\* or a package after or before something that is none.
Imported ==
  {<<>>} \cup {<<x>> : x \in Paths}
         \cup {<<User(d), User(e)>> : d, e \in {"a", "b", "c"}}
         \cup {<<Json, User("c")>>, <<User("b"), Nowhere>>, <<User("b"), User("gone")>>}

\* Deeper directories first, so that sorting undoes the order of the visit.
Ranks == [d \in Dirs |-> CASE d = "a" -> 2 [] d = "b" -> 0 [] d = "c" -> 1 [] d = "gone" -> 3]

\* Files that parse, some with func main, and files that do not.
AnyPackage ==
  {[imports |-> s, broken |-> FALSE, mains |-> 0] : s \in Imported}
    \cup {[imports |-> s, broken |-> b, mains |-> m] :
            s \in {<<>>, <<User("b"), User("c")>>}, b \in BOOLEAN, m \in 0..1}
=============================================================================
