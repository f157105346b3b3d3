-------------------------- MODULE PackageResolver --------------------------
(***************************************************************************)
(* From a build target to its set of source files: cmd/tide/resolve.go     *)
(* (resolvePackages, classifyImport) between buildUnit and compilePackage  *)
(* of cmd/tide/main.go.  The recursive visit is a stack of frames; one     *)
(* step looks at one import of the top frame or returns from it.           *)
(*                                                                         *)
(* A package is the directory it lives in.  What the resolver and the      *)
(* compiler see of it is a record:                                         *)
(*   imports  the imports of those of its files that parse, in file order  *)
(*   broken   some file of it does not lex or parse                        *)
(*   mains    how many times it declares func main                         *)
(* An import path is its first segment and the directory the rest names    *)
(* under the project root.  A build target that is a single file is a      *)
(* package of that file: its directory is never gathered a second time.    *)
(***************************************************************************)
EXTENDS Integers, SequencesExt

CONSTANTS
  Dir,          \* directories under the project root
  Entry,        \* the build target
  Segment,      \* first segments of import paths
  Project,      \* [project] name
  StdNames,     \* namespaces of the binding registry
  ExtraNames,   \* last segments of [bindings] extra
  Missing,      \* directories that do not exist or hold no .td file
  Contents,     \* what a package may hold
  PathRank      \* the directories' places in the order of their paths

Path == [head : Segment, dir : Dir]

ASSUME EntryAssumption == Entry \in Dir \ Missing
ASSUME ContentsAssumption ==
  \A c \in Contents : /\ c.imports \in Seq(Path)
                      /\ c.broken \in BOOLEAN
                      /\ c.mains \in Nat
ASSUME PathRankAssumption ==
  /\ PathRank \in [Dir -> Nat]
  /\ \A d, e \in Dir : PathRank[d] = PathRank[e] => d = e

VARIABLES
  content,      \* content[d]: what package d holds
  manifest,     \* a tide.toml was found above the build target
  stack,        \* visit's frames: a package, how many imports it has seen to
  seen,         \* seenDir
  done,         \* the packages whose files are in r.files, in that order
  userImports,  \* r.userImports
  outcome       \* how far the build is, or how it ended

vars == <<content, manifest, stack, seen, done, userImports, outcome>>

-----------------------------------------------------------------------------
(* Imports.                                                                *)

\* The project's own paths come first, even if the project is called like a
\* package of the registry.
Classify(p) ==
  CASE p.head = Project -> "user"
    [] p.head # Project /\ p.head \in StdNames \cup ExtraNames -> "stdlib"
    [] OTHER -> "unknown"

\* A missing directory holds nothing.
Imports(d) == IF d \in Missing THEN <<>> ELSE content[d].imports

\* The user packages d imports, itself left out.
Uses(d) == {Imports(d)[k].dir :
              k \in {j \in DOMAIN Imports(d) : Classify(Imports(d)[j]) = "user"}} \ {d}

Gathered == Range(done)
OnStack  == {stack[i].dir : i \in DOMAIN stack}

-----------------------------------------------------------------------------
(* The visit.                                                              *)

\* Without a manifest the target is a lone package and nothing is resolved.
Init ==
  /\ content \in [Dir \ Missing -> Contents]
  /\ manifest \in BOOLEAN
  /\ stack = IF manifest THEN <<[dir |-> Entry, at |-> 0]>> ELSE <<>>
  /\ seen  = IF manifest THEN {Entry} ELSE {}
  /\ done  = IF manifest THEN <<>> ELSE <<Entry>>
  /\ userImports = {}
  /\ outcome = IF manifest THEN "resolving" ELSE "gathered"

\* The import the top frame looks at.
Here == Last(stack).dir
AtImport ==
  /\ outcome = "resolving"
  /\ Last(stack).at < Len(Imports(Here))
Import == Imports(Here)[Last(stack).at + 1]

\* The top frame, one import further.
Advanced == ReplaceAt(stack, Len(stack), [dir |-> Here, at |-> Last(stack).at + 1])

\* Mutant: recorded after the check for an import of the package itself.
NoteAfterSelf ==
  userImports' = IF Classify(Import) = "user" /\ Import.dir # Here
                   THEN userImports \cup {Import} ELSE userImports

\* Only a user path is recorded, before anything else is known of it.
Note == userImports' = IF Classify(Import) = "user" THEN userImports \cup {Import}
                                                    ELSE userImports

Stop(why) == outcome' = why /\ UNCHANGED <<content, manifest, stack, seen, done>>

\* Mutant: a package seen before is passed over, be it on the stack.
PassOnStack ==
  /\ AtImport
  /\ \/ Classify(Import) = "stdlib"
     \/ Classify(Import) = "user" /\ Import.dir \in seen \ Missing
  /\ Note
  /\ stack' = Advanced
  /\ UNCHANGED <<content, manifest, seen, done, outcome>>

\* Mutant: the frame stays at the import it passed over.
PassStaying ==
  /\ AtImport
  /\ \/ Classify(Import) = "stdlib"
     \/ /\ Classify(Import) = "user"
        /\ \/ Import.dir = Here
           \/ Import.dir \in seen \ (OnStack \cup Missing)
  /\ Note
  /\ UNCHANGED <<content, manifest, stack, seen, done, outcome>>

\* A registry path, the package itself, or a package already gathered.
Pass ==
  /\ AtImport
  /\ \/ Classify(Import) = "stdlib"
     \/ /\ Classify(Import) = "user"
        /\ \/ Import.dir = Here
           \/ Import.dir \in seen \ (OnStack \cup Missing)
  /\ Note
  /\ stack' = Advanced
  /\ UNCHANGED <<content, manifest, seen, done, outcome>>

\* No such package: neither the project's nor the registry's.
Unknown ==
  /\ AtImport
  /\ \/ Classify(Import) = "unknown"
     \/ Classify(Import) = "user" /\ Import.dir # Here /\ Import.dir \in Missing
  /\ Note
  /\ Stop("E0117")

\* Mutant: whatever was seen before counts as a cycle.
CyclicSeen ==
  /\ AtImport
  /\ Classify(Import) = "user"
  /\ Import.dir \in seen \ ({Here} \cup Missing)
  /\ Note
  /\ Stop("E0116")

\* The target is being visited: its frame is on the stack.
Cyclic ==
  /\ AtImport
  /\ Classify(Import) = "user"
  /\ Import.dir \in OnStack \ ({Here} \cup Missing)
  /\ Note
  /\ Stop("E0116")

\* Mutant: the package is not marked as seen.
DescendUnmarked ==
  /\ AtImport
  /\ Classify(Import) = "user"
  /\ Import.dir \notin {Here} \cup Missing \cup seen
  /\ Note
  /\ stack' = Append(Advanced, [dir |-> Import.dir, at |-> 0])
  /\ UNCHANGED <<content, manifest, seen, done, outcome>>

\* Mutant: the directory is not looked for.
DescendBlindly ==
  /\ AtImport
  /\ Classify(Import) = "user"
  /\ Import.dir \notin {Here} \cup seen
  /\ Note
  /\ seen'  = seen \cup {Import.dir}
  /\ stack' = Append(Advanced, [dir |-> Import.dir, at |-> 0])
  /\ UNCHANGED <<content, manifest, done, outcome>>

\* The target's files are gathered and visited before the next import.
Descend ==
  /\ AtImport
  /\ Classify(Import) = "user"
  /\ Import.dir \notin {Here} \cup Missing \cup seen
  /\ Note
  /\ seen'  = seen \cup {Import.dir}
  /\ stack' = Append(Advanced, [dir |-> Import.dir, at |-> 0])
  /\ UNCHANGED <<content, manifest, done, outcome>>

\* The files of s, each once and in the order of their paths; a package has
\* the place of the first of its files.
DedupeSorted(s) ==
  {t \in UNION {[1..n -> Range(s)] : n \in 0..Len(s)} :
     /\ Range(t) = Range(s)
     /\ \A i, j \in DOMAIN t : i < j => PathRank[t[i]] < PathRank[t[j]]}

\* The top frame's files join the build: what the target's own frame leaves
\* behind is deduplicated and sorted.
Join ==
  /\ stack' = Front(stack)
  /\ \/ /\ Len(stack) > 1
        /\ done' = Append(done, Here)
        /\ UNCHANGED outcome
     \/ /\ Len(stack) = 1
        /\ done' \in DedupeSorted(Append(done, Here))
        /\ outcome' = "gathered"
  /\ UNCHANGED <<content, manifest, seen, userImports>>

\* Mutant: the last import is not looked at.
ReturnEarly ==
  /\ outcome = "resolving"
  /\ Last(stack).at >= Len(Imports(Here)) - 1
  /\ Join

\* Every import of the top package is seen to.
Return ==
  /\ outcome = "resolving"
  /\ Last(stack).at = Len(Imports(Here))
  /\ Join

-----------------------------------------------------------------------------
(* compilePackage, for build and run.                                      *)

Compiles ==
  /\ \A d \in Gathered : ~content[d].broken
  /\ \E d \in Gathered : content[d].mains = 1 /\ \A e \in Gathered \ {d} : content[e].mains = 0

\* The imports a built program keeps: user paths are stripped from the files.
Kept == (UNION {Range(Imports(d)) : d \in Gathered}) \ userImports

\* Files that parse may still not pass the checker.
Compile ==
  /\ outcome = "gathered"
  /\ outcome' \in IF Compiles THEN {"built", "failed"} ELSE {"failed"}
  /\ UNCHANGED <<content, manifest, stack, seen, done, userImports>>

Finished == outcome \in {"E0116", "E0117", "built", "failed"} /\ UNCHANGED vars

Next == Pass \/ Unknown \/ Cyclic \/ Descend \/ Return \/ Compile \/ Finished

Spec == Init /\ [][Next]_vars

\* The resolver runs by itself.
FairSpec == Spec /\ WF_vars(Next)

-----------------------------------------------------------------------------
(* Properties.                                                             *)

\* A set of packages each of which uses another one of the set: in a finite
\* project, a cycle.
IsCycle(C) == C # {} /\ \A d \in C : Uses(d) \cap C # {}

\* C holds the build target and everything its packages use.
Closed(C) == Entry \in C /\ \A d \in C : Uses(d) \subseteq C

\* What importing leads to from the build target.
Reachable(d) == \A C \in SUBSET Dir : Closed(C) => d \in C

\* Types; what is visited exists.
TypeOK ==
  /\ content \in [Dir \ Missing -> Contents]
  /\ manifest \in BOOLEAN
  /\ stack \in Seq([dir : Dir \ Missing, at : Nat])
  /\ seen \in SUBSET (Dir \ Missing)
  /\ done \in Seq(Dir \ Missing)
  /\ userImports \in SUBSET Path
  /\ outcome \in {"resolving", "gathered", "E0116", "E0117", "built", "failed"}

\* A package joins the build once, whichever of its importers come first.
GatheredOnce ==
  /\ \A i, j \in DOMAIN done : done[i] = done[j] => i = j
  /\ Gathered \cap OnStack = {}

\* E0116 is complete: no build with a cycle in it is accepted.
AcceptedIsAcyclic ==
  manifest /\ outcome \in {"gathered", "built"} =>
    \A C \in SUBSET Gathered : ~IsCycle(C)

\* E0116 is exact: it is never reported for a diamond, or for a cycle that the
\* build target does not lead to.
CycleIsReal ==
  outcome = "E0116" =>
    \E C \in SUBSET Dir : IsCycle(C) /\ \A d \in C : Reachable(d)

\* E0117 is exact.
UnknownIsReal ==
  outcome = "E0117" =>
    \E d \in Dir : /\ Reachable(d)
                   /\ \/ Uses(d) \cap Missing # {}
                      \/ \E p \in Range(Imports(d)) : Classify(p) = "unknown"

\* A build is refused for a reason that is really there.
RefusalIsReal == CycleIsReal /\ UnknownIsReal

\* A build is refused exactly if it is wrong.
VerdictIsExact == AcceptedIsAcyclic /\ RefusalIsReal

\* What is built is what the target leads to, nothing more and nothing less.
GathersReachable ==
  manifest /\ outcome \in {"gathered", "built"} =>
    Gathered = {d \in Dir : Reachable(d)}

\* Stripping leaves the generated file exactly its registry imports.
KeptAreStdlib ==
  manifest /\ outcome \in {"gathered", "built"} =>
    \A p \in UNION {Range(Imports(d)) : d \in Gathered} :
      p \in Kept <=> Classify(p) = "stdlib"

\* What is built is exact: the packages that are needed, each once, and of
\* their imports those that are Go's own.
BuildIsExact == GatheredOnce /\ GathersReachable /\ KeptAreStdlib

\* Every build ends, on any import graph.
BuildEnds == <>(outcome \in {"E0116", "E0117", "built", "failed"})
=============================================================================
