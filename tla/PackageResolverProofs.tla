----------------------- MODULE PackageResolverProofs -----------------------
(***************************************************************************)
(* Theorems about PackageResolver for every import graph, of any size: the *)
(* depth-first visit accepts exactly the acyclic projects and gathers      *)
(* exactly what the build target leads to.                                 *)
(***************************************************************************)
EXTENDS PackageResolver, IndexLemmas

-----------------------------------------------------------------------------
(* Types and the shape of a step.                                          *)

PackageFrame == [dir : Dir \ Missing, at : Nat]

LEMMA ImportsType ==
  ASSUME TypeOK, NEW d \in Dir
  PROVE  Imports(d) \in Seq(Path)
  BY ContentsAssumption DEF TypeOK, Imports

LEMMA FrameTypes ==
  ASSUME TypeOK
  PROVE  /\ Len(stack) \in Nat
         /\ DOMAIN stack = 1..Len(stack)
         /\ \A i \in DOMAIN stack : stack[i] \in PackageFrame
         /\ \A i \in DOMAIN stack : stack[i].dir \in Dir \ Missing /\ stack[i].at \in Nat
<1>1. stack \in Seq(PackageFrame)
  BY DEF TypeOK, PackageFrame
<1>2. \A i \in DOMAIN stack : stack[i] \in PackageFrame
  BY <1>1
<1> QED
  BY <1>1, <1>2 DEF PackageFrame

\* What the top frame is, while a visit is under way.
LEMMA TopFrame ==
  ASSUME TypeOK, stack # <<>>
  PROVE  /\ Len(stack) \in Nat \ {0}
         /\ Len(stack) \in DOMAIN stack
         /\ Last(stack) = stack[Len(stack)]
         /\ Last(stack) \in PackageFrame
         /\ Here \in Dir \ Missing
         /\ Last(stack).at \in Nat
         /\ Imports(Here) \in Seq(Path)
<1>1. stack \in Seq(PackageFrame)
  BY DEF TypeOK, PackageFrame
<1>2. Last(stack) \in PackageFrame
  BY <1>1 DEF Last
<1>3. Here \in Dir \ Missing /\ Last(stack).at \in Nat
  BY <1>2 DEF Here, PackageFrame
<1> QED
  BY <1>1, <1>2, <1>3, ImportsType DEF Last

LEMMA ImportType ==
  ASSUME TypeOK, stack # <<>>, AtImport
  PROVE  /\ Import \in Path
         /\ Last(stack).at + 1 \in DOMAIN Imports(Here)
  BY TopFrame DEF AtImport, Import

\* Advancing moves the top frame by one import and nothing else.
LEMMA AdvancedShape ==
  ASSUME TypeOK, stack # <<>>
  PROVE  /\ Advanced \in Seq(PackageFrame)
         /\ Len(Advanced) = Len(stack)
         /\ \A i \in DOMAIN stack : Advanced[i].dir = stack[i].dir
         /\ \A i \in DOMAIN stack : i # Len(stack) => Advanced[i] = stack[i]
         /\ Advanced[Len(stack)].at = stack[Len(stack)].at + 1
<1>1. stack \in Seq(PackageFrame)
  BY DEF TypeOK, PackageFrame
<1> DEFINE f == [dir |-> Here, at |-> Last(stack).at + 1]
<1>2. f \in PackageFrame /\ f.dir = stack[Len(stack)].dir /\ f.at = stack[Len(stack)].at + 1
  BY TopFrame DEF PackageFrame, Here
<1>3. Advanced = [stack EXCEPT ![Len(stack)] = f]
  BY DEF Advanced, ReplaceAt
<1> HIDE DEF f
<1>4. Len(stack) \in DOMAIN stack
  BY TopFrame
<1> QED
  BY <1>1, <1>2, <1>3, <1>4

\* While a visit is under way there is a manifest and a stack, whose bottom
\* is the build target.
UnderWay ==
  /\ outcome = "resolving" => manifest /\ stack # <<>>
  /\ stack # <<>> => stack[1].dir = Entry
  /\ outcome \in {"gathered", "built", "failed"} => stack = <<>>
  /\ manifest /\ stack = <<>> => Entry \in Gathered

\* Sorting and deduplicating keeps what is there, and nothing twice.
LEMMA SortedShape ==
  ASSUME NEW s \in Seq(Dir \ Missing), NEW t \in DedupeSorted(s)
  PROVE  /\ t \in Seq(Dir \ Missing)
         /\ Range(t) = Range(s)
         /\ \A i, j \in DOMAIN t : t[i] = t[j] => i = j
<1>1. PICK n \in 0..Len(s) : t \in [1..n -> Range(s)]
  BY DEF DedupeSorted
<1>2. /\ Range(t) = Range(s)
      /\ \A i, j \in DOMAIN t : i < j => PathRank[t[i]] < PathRank[t[j]]
  BY DEF DedupeSorted
<1>3. Range(s) \subseteq Dir \ Missing /\ n \in Nat
  BY DEF Range
<1>4. t \in Seq(Dir \ Missing)
  BY <1>1, <1>3
<1>5. ASSUME NEW i \in DOMAIN t, NEW j \in DOMAIN t, t[i] = t[j]
      PROVE  i = j
  <2>1. PathRank[t[i]] \in Nat /\ PathRank[t[i]] = PathRank[t[j]]
    BY <1>1, <1>3, <1>5, PathRankAssumption
  <2>2. ~(i < j) /\ ~(j < i)
    BY <1>2, <1>5, <2>1
  <2> QED
    BY <1>1, <1>3, <2>2
<1> QED
  BY <1>2, <1>4, <1>5

\* Types are kept.
LEMMA TypeStep == TypeOK /\ UnderWay /\ [Next]_vars => TypeOK'
<1> SUFFICES ASSUME TypeOK, UnderWay, [Next]_vars PROVE TypeOK'
  OBVIOUS
<1>0. stack \in Seq(PackageFrame) /\ done \in Seq(Dir \ Missing)
  BY DEF TypeOK, PackageFrame
<1>1. ASSUME Note, AtImport PROVE userImports' \in SUBSET Path
  BY <1>1, ImportType DEF Note, TypeOK, UnderWay, AtImport
<1>2. CASE Pass
  <2>1. stack' \in Seq(PackageFrame)
    BY <1>2, AdvancedShape DEF Pass, AtImport, UnderWay
  <2> QED
    BY <1>1, <1>2, <2>1 DEF Pass, TypeOK, PackageFrame
<1>3. CASE Unknown \/ Cyclic
  BY <1>1, <1>3 DEF Unknown, Cyclic, Stop, TypeOK
<1>4. CASE Descend
  <2>1. Import.dir \in Dir \ Missing
    BY <1>4, ImportType DEF Descend, UnderWay, AtImport, Path
  <2>2. [dir |-> Import.dir, at |-> 0] \in PackageFrame
    BY <2>1 DEF PackageFrame
  <2>3. stack' \in Seq(PackageFrame)
    BY <1>4, <2>2, AdvancedShape DEF Descend, AtImport, UnderWay
  <2> QED
    BY <1>1, <1>4, <2>1, <2>3 DEF Descend, TypeOK, PackageFrame
<1>5. CASE Return
  <2>1. stack # <<>> /\ Here \in Dir \ Missing
    BY <1>5, TopFrame DEF Return, UnderWay
  <2>2. stack' \in Seq(PackageFrame)
    BY <1>0, <1>5, <2>1 DEF Return, Join, Front
  <2>3. Append(done, Here) \in Seq(Dir \ Missing)
    BY <1>0, <2>1
  <2>4. done' \in Seq(Dir \ Missing)
    <3>1. CASE done' = Append(done, Here)
      BY <2>3, <3>1
    <3>2. CASE done' \in DedupeSorted(Append(done, Here))
      BY <2>3, <3>2, SortedShape
    <3> QED
      BY <1>5, <3>1, <3>2 DEF Return, Join
  <2> QED
    BY <1>5, <2>2, <2>4 DEF Return, Join, TypeOK, PackageFrame
<1>6. CASE Compile
  BY <1>6 DEF Compile, TypeOK
<1>7. CASE Finished \/ UNCHANGED vars
  BY <1>7 DEF Finished, vars, TypeOK
<1> QED
  BY <1>2, <1>3, <1>4, <1>5, <1>6, <1>7 DEF Next

\* What is gathered when the top frame returns, in the order of joining.
Joined == Append(done, Here)

\* Returning: the package of the top frame joins the build.
LEMMA ReturnShape ==
  ASSUME TypeOK, UnderWay, Return
  PROVE  /\ stack # <<>>
         /\ Len(stack) \in Nat \ {0}
         /\ DOMAIN stack = 1..Len(stack)
         /\ DOMAIN stack' = 1..(Len(stack) - 1)
         /\ \A i \in DOMAIN stack' : stack'[i] = stack[i]
         /\ Here = stack[Len(stack)].dir
         /\ Here \in Dir \ Missing
         /\ Gathered' = Gathered \cup {Here}
         /\ done' = Joined \/ outcome' = "gathered"
<1>1. stack \in Seq(PackageFrame) /\ done \in Seq(Dir \ Missing)
  BY DEF TypeOK, PackageFrame
<1>2. stack # <<>> /\ Here \in Dir \ Missing /\ Here = stack[Len(stack)].dir
  BY TopFrame DEF Return, UnderWay, Here
<1>3. stack' = Front(stack)
  BY DEF Return, Join
<1>4. /\ Joined \in Seq(Dir \ Missing)
      /\ DOMAIN Joined = DOMAIN done \cup {Len(done) + 1}
      /\ \A i \in DOMAIN done : Joined[i] = done[i]
      /\ Joined[Len(done) + 1] = Here
      /\ Range(Joined) = Gathered \cup {Here}
  <2>1. /\ Joined \in Seq(Dir \ Missing)
        /\ DOMAIN Joined = DOMAIN done \cup {Len(done) + 1}
        /\ \A i \in DOMAIN done : Joined[i] = done[i]
        /\ Joined[Len(done) + 1] = Here
    BY <1>1, <1>2 DEF Joined
  <2> QED
    BY <2>1 DEF Gathered, Range
<1>5. CASE done' = Joined
  BY <1>1, <1>2, <1>3, <1>4, <1>5 DEF Front, Gathered
<1>6. CASE done' \in DedupeSorted(Joined) /\ outcome' = "gathered"
  <2>1. Range(done') = Range(Joined)
    BY <1>4, <1>6, SortedShape
  <2> QED
    BY <1>1, <1>2, <1>3, <1>4, <1>6, <2>1 DEF Front, Gathered
<1> QED
  BY <1>5, <1>6 DEF Return, Join, Joined

\* The order of joining: what is gathered, and then the top frame's package.
LEMMA JoinedShape ==
  ASSUME TypeOK, UnderWay, Return
  PROVE  /\ Joined \in Seq(Dir \ Missing)
         /\ Range(Joined) = Gathered'
         /\ DOMAIN done = 1..Len(done) /\ Len(done) \in Nat
         /\ DOMAIN Joined = 1..(Len(done) + 1)
         /\ Joined[Len(done) + 1] = Here
         /\ \A i \in DOMAIN done : Joined[i] = done[i]
         /\ done' = Joined \/ done' \in DedupeSorted(Joined)
<1>1. done \in Seq(Dir \ Missing) /\ Here \in Dir \ Missing
  BY ReturnShape DEF TypeOK
<1>2. /\ Joined \in Seq(Dir \ Missing)
      /\ DOMAIN done = 1..Len(done) /\ Len(done) \in Nat
      /\ DOMAIN Joined = 1..(Len(done) + 1)
      /\ Joined[Len(done) + 1] = Here
      /\ \A i \in DOMAIN done : Joined[i] = done[i]
  BY <1>1 DEF Joined
<1>3. Range(Joined) = Gathered \cup {Here}
  <2>1. DOMAIN Joined = DOMAIN done \cup {Len(done) + 1}
    BY <1>2
  <2> QED
    BY <1>2, <2>1 DEF Gathered, Range
<1>4. done' = Joined \/ done' \in DedupeSorted(Joined)
  BY DEF Return, Join, Joined
<1> QED
  BY <1>2, <1>3, <1>4, ReturnShape

\* Descending: the target's frame goes on top of the advanced stack.
LEMMA DescendShape ==
  ASSUME TypeOK, UnderWay, Descend
  PROVE  /\ stack # <<>>
         /\ Len(stack) \in Nat \ {0}
         /\ DOMAIN stack = 1..Len(stack)
         /\ DOMAIN stack' = 1..(Len(stack) + 1)
         /\ \A i \in DOMAIN stack : stack'[i].dir = stack[i].dir
         /\ \A i \in DOMAIN stack : i # Len(stack) => stack'[i] = stack[i]
         /\ stack'[Len(stack)].at = stack[Len(stack)].at + 1
         /\ stack'[Len(stack) + 1] = [dir |-> Import.dir, at |-> 0]
         /\ Here = stack[Len(stack)].dir
         /\ Import.dir \in Uses(Here)
         /\ Import.dir \in Dir \ Missing
<1>1. stack \in Seq(PackageFrame)
  BY DEF TypeOK, PackageFrame
<1>2. stack # <<>> /\ Here = stack[Len(stack)].dir /\ AtImport
  BY TopFrame DEF Descend, AtImport, UnderWay, Here
<1>3. /\ Advanced \in Seq(PackageFrame)
      /\ Len(Advanced) = Len(stack)
      /\ \A i \in DOMAIN stack : Advanced[i].dir = stack[i].dir
      /\ \A i \in DOMAIN stack : i # Len(stack) => Advanced[i] = stack[i]
      /\ Advanced[Len(stack)].at = stack[Len(stack)].at + 1
  BY <1>2, AdvancedShape
<1>4. Import.dir \in Dir \ Missing
  BY <1>2, ImportType DEF Descend, Path
<1> DEFINE f == [dir |-> Import.dir, at |-> 0]
<1>5. stack' = Append(Advanced, f)
  BY DEF Descend
<1>6. Import.dir \in Uses(Here)
  BY <1>2, ImportType DEF Descend, Uses, Import
<1>7. /\ Len(stack) \in Nat \ {0}
      /\ DOMAIN stack = 1..Len(stack)
      /\ DOMAIN stack' = 1..(Len(stack) + 1)
  BY <1>1, <1>2, <1>3, <1>5
<1>8. /\ \A i \in DOMAIN stack : stack'[i] = Advanced[i]
      /\ stack'[Len(stack) + 1] = f
  <2> HIDE DEF f
  <2> QED
    BY <1>1, <1>3, <1>5
<1>9. Len(stack) \in DOMAIN stack
  BY <1>7
<1> QED
  BY <1>2, <1>3, <1>4, <1>6, <1>7, <1>8, <1>9

\* Passing: only the position in the top frame changes.
LEMMA PassShape ==
  ASSUME TypeOK, UnderWay, Pass
  PROVE  /\ stack # <<>>
         /\ Len(stack) \in Nat \ {0}
         /\ DOMAIN stack = 1..Len(stack)
         /\ DOMAIN stack' = DOMAIN stack
         /\ \A i \in DOMAIN stack : stack'[i].dir = stack[i].dir
         /\ \A i \in DOMAIN stack : i # Len(stack) => stack'[i] = stack[i]
         /\ stack'[Len(stack)].at = stack[Len(stack)].at + 1
         /\ Here = stack[Len(stack)].dir
<1>1. stack \in Seq(PackageFrame)
  BY DEF TypeOK, PackageFrame
<1>2. stack # <<>> /\ Here = stack[Len(stack)].dir
  BY TopFrame DEF Pass, AtImport, UnderWay, Here
<1> QED
  BY <1>1, <1>2, AdvancedShape DEF Pass

\* Every other step leaves the visit alone.
LEMMA OtherSteps ==
  ASSUME Unknown \/ Cyclic \/ Compile \/ Finished \/ UNCHANGED vars
  PROVE  /\ UNCHANGED <<content, manifest, stack, seen, done>>
         /\ outcome' = "resolving" => outcome = "resolving"
         /\ outcome' \in {"gathered", "built", "failed"} =>
              outcome \in {"gathered", "built", "failed"}
  BY DEF Unknown, Cyclic, Compile, Finished, vars, Stop

LEMMA UnderWayStep == TypeOK /\ UnderWay /\ [Next]_vars => UnderWay'
<1> SUFFICES ASSUME TypeOK, UnderWay, [Next]_vars PROVE UnderWay'
  OBVIOUS
<1>0. stack \in Seq(PackageFrame)
  BY DEF TypeOK, PackageFrame
<1>1. CASE Pass
  <2>1. stack' # <<>> /\ stack'[1].dir = stack[1].dir
    BY <1>0, <1>1, PassShape
  <2>2. outcome = "resolving" /\ UNCHANGED <<manifest, outcome>>
    BY <1>1 DEF Pass, AtImport
  <2> QED
    BY <1>1, <2>1, <2>2, PassShape DEF UnderWay
<1>2. CASE Descend
  <2>1. stack' # <<>> /\ stack'[1].dir = stack[1].dir
    BY <1>0, <1>2, DescendShape
  <2>2. outcome = "resolving" /\ UNCHANGED <<manifest, outcome>>
    BY <1>2 DEF Descend, AtImport
  <2> QED
    BY <1>2, <2>1, <2>2, DescendShape DEF UnderWay
<1>3. CASE Return
  <2>1. CASE Len(stack) = 1
    <3>1. Here = Entry
      BY <1>3, <2>1, ReturnShape DEF UnderWay
    <3>2. stack' = <<>> /\ outcome' = "gathered"
      BY <1>0, <1>3, <2>1 DEF Return, Join, Front
    <3>3. Entry \in Gathered'
      BY <1>3, <3>1, ReturnShape
    <3> QED
      BY <3>2, <3>3 DEF UnderWay
  <2>2. CASE Len(stack) # 1
    <3>1. outcome' = "resolving" /\ manifest'
      BY <1>3, <2>2 DEF Return, Join, UnderWay
    <3>2. 1 \in DOMAIN stack'
      BY <1>3, <2>2, ReturnShape
    <3>3. stack' # <<>> /\ stack'[1] = stack[1]
      BY <1>3, <3>2, ReturnShape
    <3> QED
      BY <1>3, <3>1, <3>3, ReturnShape DEF UnderWay
  <2> QED
    BY <2>1, <2>2
<1>4. CASE Unknown \/ Cyclic \/ Compile \/ Finished \/ UNCHANGED vars
  BY <1>4, OtherSteps DEF UnderWay, Gathered
<1> QED
  BY <1>1, <1>2, <1>3, <1>4 DEF Next

-----------------------------------------------------------------------------
(* The stack is a path without repetition, apart from what is gathered.    *)

Chain ==
  \A i \in DOMAIN stack :
    i + 1 \in DOMAIN stack => stack[i + 1].dir \in Uses(stack[i].dir)

Apart ==
  /\ \A i, j \in DOMAIN stack : stack[i].dir = stack[j].dir => i = j
  /\ GatheredOnce
  /\ stack # <<>> => seen = Gathered \cup OnStack

LEMMA ChainStep == TypeOK /\ UnderWay /\ Chain /\ [Next]_vars => Chain'
<1> SUFFICES ASSUME TypeOK, UnderWay, Chain, [Next]_vars PROVE Chain'
  OBVIOUS
<1>0. content' = content => \A d : Uses(d)' = Uses(d)
  BY DEF Uses, Imports
<1>1. CASE Pass
  BY <1>0, <1>1, PassShape DEF Chain, Pass
<1>2. CASE Descend
  <2>1. \A d : Uses(d)' = Uses(d)
    BY <1>0, <1>2 DEF Descend
  <2> SUFFICES ASSUME NEW i \in DOMAIN stack', i + 1 \in DOMAIN stack'
               PROVE  stack'[i + 1].dir \in Uses(stack'[i].dir)
    BY <2>1 DEF Chain
  <2>2. CASE i = Len(stack)
    <3>1. i \in DOMAIN stack
      BY <1>2, <2>2, DescendShape
    <3>2. stack'[i].dir = Here /\ stack'[i + 1].dir = Import.dir
      BY <1>2, <2>2, <3>1, DescendShape
    <3> QED
      BY <1>2, <3>2, DescendShape
  <2>3. CASE i # Len(stack)
    <3>1. i \in DOMAIN stack /\ i + 1 \in DOMAIN stack
      BY <1>2, <2>3, DescendShape
    <3>2. stack'[i].dir = stack[i].dir /\ stack'[i + 1].dir = stack[i + 1].dir
      BY <1>2, <3>1, DescendShape
    <3> QED
      BY <3>1, <3>2 DEF Chain
  <2> QED
    BY <2>2, <2>3
<1>3. CASE Return
  BY <1>0, <1>3, ReturnShape DEF Chain, Return, Join
<1>4. CASE Unknown \/ Cyclic \/ Compile \/ Finished \/ UNCHANGED vars
  BY <1>0, <1>4, OtherSteps DEF Chain
<1> QED
  BY <1>1, <1>2, <1>3, <1>4 DEF Next

LEMMA ApartStep == TypeOK /\ UnderWay /\ Apart /\ [Next]_vars => Apart'
<1> SUFFICES ASSUME TypeOK, UnderWay, Apart, [Next]_vars PROVE Apart'
  OBVIOUS
<1>1. CASE Pass
  <2>1. OnStack' = OnStack
    BY <1>1, PassShape DEF OnStack
  <2>2. UNCHANGED <<seen, done, Gathered>>
    BY <1>1 DEF Pass, Gathered
  <2> QED
    BY <1>1, <2>1, <2>2, PassShape DEF Apart, GatheredOnce
<1>2. CASE Descend
  <2>1. OnStack' = OnStack \cup {Import.dir}
    BY <1>2, DescendShape DEF OnStack
  <2>2. UNCHANGED <<done, Gathered>> /\ seen' = seen \cup {Import.dir}
    BY <1>2 DEF Descend, Gathered
  <2>3. Import.dir \notin Gathered \cup OnStack
    BY <1>2, DescendShape DEF Descend, Apart
  <2>4. ASSUME NEW i \in DOMAIN stack', NEW j \in DOMAIN stack',
               stack'[i].dir = stack'[j].dir
        PROVE  i = j
    <3>1. \A k \in DOMAIN stack' : k \in DOMAIN stack \/ k = Len(stack) + 1
      BY <1>2, DescendShape
    <3>2. \A k \in DOMAIN stack : stack'[k].dir \in OnStack
      BY <1>2, DescendShape DEF OnStack
    <3>3. stack'[Len(stack) + 1].dir = Import.dir
      BY <1>2, DescendShape
    <3> QED
      BY <1>2, <2>3, <2>4, <3>1, <3>2, <3>3, DescendShape DEF Apart
  <2>5. seen' = Gathered' \cup OnStack'
    BY <1>2, <2>1, <2>2, DescendShape DEF Apart
  <2> QED
    BY <2>1, <2>2, <2>3, <2>4, <2>5 DEF Apart, GatheredOnce
<1>3. CASE Return
  <2>1. Here \in OnStack /\ OnStack' = OnStack \ {Here}
    <3>1. Len(stack) \in DOMAIN stack
      BY <1>3, ReturnShape
    <3>2. Here \in OnStack
      BY <1>3, <3>1, ReturnShape DEF OnStack
    <3>3. ASSUME NEW i \in DOMAIN stack, i # Len(stack)
          PROVE  stack[i].dir # Here /\ i \in DOMAIN stack' /\ stack'[i].dir = stack[i].dir
      BY <1>3, <3>1, <3>3, ReturnShape DEF Apart
    <3>4. \A i \in DOMAIN stack' : i \in DOMAIN stack /\ i # Len(stack)
      BY <1>3, ReturnShape
    <3> QED
      BY <1>3, <3>2, <3>3, <3>4, ReturnShape DEF OnStack
  <2>2. Here \notin Gathered
    BY <2>1 DEF Apart, GatheredOnce
  <2>3. \A i, j \in DOMAIN stack' : stack'[i].dir = stack'[j].dir => i = j
    BY <1>3, ReturnShape DEF Apart
  <2>4. \A i, j \in DOMAIN done' : done'[i] = done'[j] => i = j
    <3>1. CASE done' = Joined
      <4>1. \A i \in DOMAIN done : Joined[i] \in Gathered
        BY <1>3, JoinedShape DEF Gathered, Range
      <4>2. \A i \in DOMAIN Joined : i \in DOMAIN done \/ i = Len(done) + 1
        BY <1>3, JoinedShape
      <4> QED
        BY <1>3, <2>2, <3>1, <4>1, <4>2, JoinedShape DEF Apart, GatheredOnce
    <3>2. CASE done' \in DedupeSorted(Joined)
      BY <1>3, <3>2, JoinedShape, SortedShape
    <3> QED
      BY <1>3, <3>1, <3>2, JoinedShape
  <2>5. seen' = Gathered' \cup OnStack'
    BY <1>3, <2>1, ReturnShape DEF Apart, Return, Join
  <2>6. Gathered' \cap OnStack' = {}
    BY <1>3, <2>1, ReturnShape DEF Apart, GatheredOnce
  <2> QED
    BY <2>3, <2>4, <2>5, <2>6 DEF Apart, GatheredOnce
<1>4. CASE Unknown \/ Cyclic \/ Compile \/ Finished \/ UNCHANGED vars
  BY <1>4, OtherSteps DEF Apart, GatheredOnce, Gathered, OnStack
<1> QED
  BY <1>1, <1>2, <1>3, <1>4 DEF Next

-----------------------------------------------------------------------------
(* What a frame has seen to.                                               *)

\* A path that was looked at: known, and recorded if it is the project's.
Known(p) ==
  /\ Classify(p) # "unknown"
  /\ Classify(p) = "user" => p \in userImports

\* The package it leads to is the frame's own, gathered, or the next frame's.
Led(i, p) ==
  Classify(p) = "user" =>
    \/ p.dir = stack[i].dir
    \/ p.dir \in Gathered
    \/ i + 1 \in DOMAIN stack /\ p.dir = stack[i + 1].dir

Settled ==
  /\ \A i \in DOMAIN stack : \A k \in 1..stack[i].at :
       /\ Known(Imports(stack[i].dir)[k])
       /\ Led(i, Imports(stack[i].dir)[k])
  /\ manifest =>
       \A d \in Gathered : \A k \in DOMAIN Imports(d) : Known(Imports(d)[k])
  /\ \A p \in userImports : Classify(p) = "user"

\* Recording a path forgets none.
LEMMA NoteKeeps ==
  ASSUME Note, NEW q, q = Import
  PROVE  /\ \A p : Known(p) => Known(p)'
         /\ Classify(q) # "unknown" => Known(q)'
         /\ (\A p \in userImports : Classify(p) = "user") =>
              (\A p \in userImports' : Classify(p) = "user")
<1>1. /\ userImports \subseteq userImports'
      /\ Classify(q) = "user" => q \in userImports'
  BY DEF Note
<1>2. (\A p \in userImports : Classify(p) = "user") =>
        (\A p \in userImports' : Classify(p) = "user")
  BY DEF Note
<1>3. \A p : Known(p) => Known(p)'
  BY <1>1 DEF Known
<1>4. Classify(q) # "unknown" => Known(q)'
  BY <1>1 DEF Known
<1> QED
  BY <1>2, <1>3, <1>4

LEMMA SettledStep ==
  TypeOK /\ UnderWay /\ Apart /\ Settled /\ [Next]_vars => Settled'
<1> SUFFICES ASSUME TypeOK, UnderWay, Apart, Settled, [Next]_vars PROVE Settled'
  OBVIOUS
<1>0. content' = content => \A d : Imports(d)' = Imports(d)
  BY DEF Imports
<1>1. CASE Pass
  <2> PICK q : q = Import
    OBVIOUS
  <2>1. /\ \A d : Imports(d)' = Imports(d)
        /\ Gathered' = Gathered
        /\ manifest' = manifest
    BY <1>0, <1>1 DEF Pass, Gathered
  <2>2. /\ \A p : Known(p) => Known(p)'
        /\ \A p \in userImports' : Classify(p) = "user"
        /\ Known(q)'
    <3>1. Note /\ Classify(q) # "unknown"
      BY <1>1 DEF Pass
    <3> QED
      BY <3>1, NoteKeeps DEF Settled
  <2>3. /\ q = Imports(stack[Len(stack)].dir)[stack[Len(stack)].at + 1]
        /\ Len(stack) \in DOMAIN stack
        /\ \A i \in DOMAIN stack : stack[i].at \in Nat
    BY <1>1, PassShape, FrameTypes DEF Import, Here, Last
  <2>4. Classify(q) = "user" =>
          q.dir = stack[Len(stack)].dir \/ q.dir \in Gathered
    BY <1>1, PassShape DEF Pass, Apart
  <2>5. ASSUME NEW i \in DOMAIN stack, NEW k \in 1..(stack'[i].at),
               NEW p, p = Imports(stack[i].dir)[k]
        PROVE  Known(p)' /\ Led(i, p)'
    <3>1. CASE k \in 1..stack[i].at
      <4>1. Known(p) /\ Led(i, p)
        BY <2>5, <3>1 DEF Settled
      <4>2. Led(i, p)'
        BY <1>1, <2>1, <4>1, PassShape DEF Led
      <4> QED
        BY <2>2, <4>1, <4>2
    <3>2. CASE k \notin 1..stack[i].at
      <4>1. i = Len(stack) /\ k = stack[Len(stack)].at + 1
        BY <1>1, <2>3, <3>2, PassShape
      <4>2. p = q
        BY <2>3, <2>5, <4>1
      <4>3. Led(i, p)'
        BY <1>1, <2>1, <2>3, <2>4, <4>1, <4>2, PassShape DEF Led
      <4> QED
        BY <2>2, <4>2, <4>3
    <3> QED
      BY <3>1, <3>2
  <2>6. \A i \in DOMAIN stack' : \A k \in 1..stack'[i].at :
          /\ Known(Imports(stack[i].dir)[k])'
          /\ Led(i, Imports(stack[i].dir)[k])'
    <3> SUFFICES ASSUME NEW i \in DOMAIN stack', NEW k \in 1..stack'[i].at
                 PROVE  /\ Known(Imports(stack[i].dir)[k])'
                        /\ Led(i, Imports(stack[i].dir)[k])'
      OBVIOUS
    <3> PICK p : p = Imports(stack[i].dir)[k]
      OBVIOUS
    <3>1. i \in DOMAIN stack /\ stack'[i].dir = stack[i].dir
      BY <1>1, PassShape
    <3>2. p = (Imports(stack[i].dir)[k])'
      BY <2>1, <3>1
    <3>3. Known(p)' /\ Led(i, p)'
      BY <2>5, <3>1
    <3> QED
      BY <3>2, <3>3 DEF Known, Led
  <2>7. manifest' =>
          \A d \in Gathered' : \A k \in DOMAIN Imports(d)' : Known(Imports(d)[k])'
    BY <2>1, <2>2 DEF Settled, Known
  <2> QED
    BY <2>2, <2>6, <2>7 DEF Settled
<1>2. CASE Descend
  <2> PICK q : q = Import
    OBVIOUS
  <2>1. /\ \A d : Imports(d)' = Imports(d)
        /\ Gathered' = Gathered
        /\ manifest' = manifest
    BY <1>0, <1>2 DEF Descend, Gathered
  <2>2. /\ \A p : Known(p) => Known(p)'
        /\ \A p \in userImports' : Classify(p) = "user"
        /\ Known(q)'
    <3>1. Note /\ Classify(q) # "unknown"
      BY <1>2 DEF Descend
    <3> QED
      BY <3>1, NoteKeeps DEF Settled
  <2>3. /\ q = Imports(stack[Len(stack)].dir)[stack[Len(stack)].at + 1]
        /\ Len(stack) \in DOMAIN stack
        /\ \A i \in DOMAIN stack : stack[i].at \in Nat
    BY <1>2, DescendShape, FrameTypes DEF Import, Here, Last
  <2>4. ASSUME NEW i \in DOMAIN stack, NEW k \in 1..(stack'[i].at),
               NEW p, p = Imports(stack[i].dir)[k]
        PROVE  Known(p)' /\ Led(i, p)'
    <3>1. CASE k \in 1..stack[i].at
      <4>1. Known(p) /\ Led(i, p)
        BY <2>4, <3>1 DEF Settled
      <4>2. i + 1 \in DOMAIN stack =>
              i + 1 \in DOMAIN stack' /\ stack'[i + 1].dir = stack[i + 1].dir
        BY <1>2, DescendShape
      <4>3. stack'[i].dir = stack[i].dir
        BY <1>2, DescendShape
      <4>4. Led(i, p)'
        BY <2>1, <4>1, <4>2, <4>3 DEF Led
      <4> QED
        BY <2>2, <4>1, <4>4
    <3>2. CASE k \notin 1..stack[i].at
      <4>1. i = Len(stack) /\ k = stack[Len(stack)].at + 1
        BY <1>2, <2>3, <3>2, DescendShape
      <4>2. p = q
        BY <2>3, <2>4, <4>1
      <4>3. i + 1 \in DOMAIN stack' /\ stack'[i + 1].dir = q.dir
        BY <1>2, <4>1, DescendShape
      <4>4. Led(i, p)'
        BY <4>2, <4>3 DEF Led
      <4> QED
        BY <2>2, <4>2, <4>4
    <3> QED
      BY <3>1, <3>2
  <2>5. \A i \in DOMAIN stack' : \A k \in 1..stack'[i].at :
          /\ Known(Imports(stack[i].dir)[k])'
          /\ Led(i, Imports(stack[i].dir)[k])'
    <3> SUFFICES ASSUME NEW i \in DOMAIN stack', NEW k \in 1..stack'[i].at
                 PROVE  /\ Known(Imports(stack[i].dir)[k])'
                        /\ Led(i, Imports(stack[i].dir)[k])'
      OBVIOUS
    <3> PICK p : p = Imports(stack[i].dir)[k]
      OBVIOUS
    <3>1. i # Len(stack) + 1
      <4>1. stack'[Len(stack) + 1].at = 0
        BY <1>2, DescendShape
      <4> QED
        BY <4>1
    <3>2. i \in DOMAIN stack /\ stack'[i].dir = stack[i].dir
      BY <1>2, <3>1, DescendShape
    <3>3. p = (Imports(stack[i].dir)[k])'
      BY <2>1, <3>2
    <3>4. Known(p)' /\ Led(i, p)'
      BY <2>4, <3>2
    <3> QED
      BY <3>3, <3>4 DEF Known, Led
  <2>6. manifest' =>
          \A d \in Gathered' : \A k \in DOMAIN Imports(d)' : Known(Imports(d)[k])'
    BY <2>1, <2>2 DEF Settled, Known
  <2> QED
    BY <2>2, <2>5, <2>6 DEF Settled
<1>3. CASE Return
  <2>1. /\ \A d : Imports(d)' = Imports(d)
        /\ Gathered' = Gathered \cup {Here}
        /\ UNCHANGED <<manifest, userImports>>
    BY <1>0, <1>3, ReturnShape DEF Return, Join
  <2>2. \A p : Known(p) => Known(p)'
    BY <2>1 DEF Known
  <2>3. \A i \in DOMAIN stack' : \A k \in 1..stack'[i].at :
          /\ Known(Imports(stack[i].dir)[k])'
          /\ Led(i, Imports(stack[i].dir)[k])'
    <3> SUFFICES ASSUME NEW i \in DOMAIN stack', NEW k \in 1..stack'[i].at
                 PROVE  /\ Known(Imports(stack[i].dir)[k])'
                        /\ Led(i, Imports(stack[i].dir)[k])'
      OBVIOUS
    <3> PICK p : p = Imports(stack[i].dir)[k]
      OBVIOUS
    <3>1. i \in DOMAIN stack /\ stack'[i] = stack[i] /\ i < Len(stack)
      BY <1>3, ReturnShape
    <3>2. p = (Imports(stack[i].dir)[k])'
      BY <2>1, <3>1
    <3>3. Known(p) /\ Led(i, p)
      BY <3>1 DEF Settled
    <3>4. i + 1 \in DOMAIN stack =>
            \/ stack[i + 1].dir = Here
            \/ i + 1 \in DOMAIN stack' /\ stack'[i + 1] = stack[i + 1]
      BY <1>3, <3>1, ReturnShape
    <3>5. Led(i, p)'
      BY <2>1, <3>1, <3>3, <3>4 DEF Led
    <3>6. Known(p)'
      BY <2>2, <3>3
    <3> QED
      BY <3>2, <3>5, <3>6 DEF Known, Led
  <2>4. manifest' =>
          \A d \in Gathered' : \A k \in DOMAIN Imports(d)' : Known(Imports(d)[k])'
    <3> SUFFICES ASSUME manifest, NEW d \in Gathered \cup {Here},
                        NEW k \in DOMAIN Imports(d), NEW p, p = Imports(d)[k]
                 PROVE  Known(p)
      BY <2>1, <2>2 DEF Known
    <3>1. CASE d \in Gathered
      BY <3>1 DEF Settled
    <3>2. CASE d = Here
      <4>1. /\ Len(stack) \in DOMAIN stack
            /\ d = stack[Len(stack)].dir
            /\ stack[Len(stack)].at = Len(Imports(d))
        BY <1>3, <3>2, ReturnShape DEF Return, Last
      <4>2. Imports(d) \in Seq(Path)
        BY <1>3, <3>2, ReturnShape, ImportsType
      <4>3. k \in 1..stack[Len(stack)].at
        BY <4>1, <4>2
      <4> QED
        BY <4>1, <4>3 DEF Settled
    <3> QED
      BY <3>1, <3>2
  <2> QED
    BY <2>1, <2>3, <2>4 DEF Settled
<1>4. ASSUME Unknown \/ Cyclic \/ Compile \/ Finished \/ UNCHANGED vars
      PROVE  Settled'
  <2>1. /\ UNCHANGED <<content, manifest, stack, done>>
        /\ \A d : Imports(d)' = Imports(d)
        /\ Gathered' = Gathered
    BY <1>0, <1>4, OtherSteps DEF Gathered
  <2>2. /\ \A p : Known(p) => Known(p)'
        /\ \A p \in userImports' : Classify(p) = "user"
    <3> PICK q : q = Import
      OBVIOUS
    <3>1. CASE Note
      BY <3>1, NoteKeeps DEF Settled
    <3>2. CASE userImports' = userImports
      BY <3>2 DEF Known, Settled
    <3> QED
      BY <1>4, <3>1, <3>2 DEF Unknown, Cyclic, Compile, Finished, vars
  <2>3. \A i, p : Led(i, p) => Led(i, p)'
    BY <2>1 DEF Led
  <2>4. /\ \A i \in DOMAIN stack' : \A k \in 1..stack'[i].at :
             /\ Known(Imports(stack[i].dir)[k])'
             /\ Led(i, Imports(stack[i].dir)[k])'
        /\ manifest' =>
             \A d \in Gathered' : \A k \in DOMAIN Imports(d)' : Known(Imports(d)[k])'
    BY <2>1, <2>2, <2>3 DEF Settled, Known, Led
  <2> QED
    BY <2>2, <2>4 DEF Settled
<1> QED
  BY <1>1, <1>2, <1>3, <1>4 DEF Next

-----------------------------------------------------------------------------
(* Order and reach of what is gathered.                                    *)

SeenReachable ==
  manifest => \A C \in SUBSET Dir : Closed(C) => seen \subseteq C /\ Gathered \subseteq C

\* Every package of s comes after all the packages it uses.
ImportsFirst(s) ==
  \A i \in DOMAIN s : \A d \in Uses(s[i]) : \E j \in 1..(i - 1) : s[j] = d

\* The order of joining is a postorder, until it is sorted away.
Postorder == outcome = "resolving" => ImportsFirst(done)

\* What the postorder leaves: no cycle, and nothing used that is not there.
Sound ==
  manifest => /\ \A C \in SUBSET Gathered : ~IsCycle(C)
              /\ \A d \in Gathered : Uses(d) \subseteq Gathered

\* Of the packages of a cycle, the first one would use one before it.
LEMMA OrderedIsSound ==
  ASSUME NEW s \in Seq(Dir \ Missing), ImportsFirst(s)
  PROVE  /\ \A C \in SUBSET Range(s) : ~IsCycle(C)
         /\ \A d \in Range(s) : Uses(d) \subseteq Range(s)
<1>1. ASSUME NEW C \in SUBSET Range(s), IsCycle(C)
      PROVE  FALSE
  <2> DEFINE S == {i \in DOMAIN s : s[i] \in C}
  <2>1. S # {}
    BY <1>1 DEF IsCycle, Range
  <2>2. S \in SUBSET Nat /\ IsFiniteSet(S)
    <3>1. S \subseteq 1..Len(s) /\ Len(s) \in Nat
      OBVIOUS
    <3> HIDE DEF S
    <3>2. IsFiniteSet(1..Len(s))
      BY <3>1, FS_Interval
    <3>3. IsFiniteSet(S)
      BY <3>1, <3>2, FS_Subset
    <3> QED
      BY <3>1, <3>3
  <2>3. PICK i \in S : \A j \in S : i =< j
    <3> HIDE DEF S
    <3> QED
      BY <2>1, <2>2, HasMinimum
  <2>4. PICK d \in C : d \in Uses(s[i])
    BY <1>1, <2>3 DEF IsCycle
  <2>5. PICK j \in 1..(i - 1) : s[j] = d
    BY <2>3, <2>4 DEF ImportsFirst
  <2>6. j \in S /\ j < i
    BY <2>3, <2>4, <2>5
  <2> QED
    BY <2>2, <2>3, <2>6
<1>2. ASSUME NEW i \in DOMAIN s, NEW d \in Uses(s[i])
      PROVE  d \in Range(s)
  <2>1. PICK j \in 1..(i - 1) : s[j] = d
    BY <1>2 DEF ImportsFirst
  <2>2. j \in DOMAIN s
    BY <1>2
  <2> QED
    BY <2>1, <2>2 DEF Range
<1> QED
  BY <1>1, <1>2 DEF Range

\* The package that returns comes after everything it uses.
LEMMA JoinedInOrder ==
  ASSUME TypeOK, UnderWay, Settled, Postorder, Return
  PROVE  ImportsFirst(Joined)
<1>1. manifest /\ outcome = "resolving"
  BY DEF Return, UnderWay
<1>2. ASSUME NEW d \in Uses(Here) PROVE d \in Gathered
  <2>1. PICK k \in DOMAIN Imports(Here) :
          /\ Classify(Imports(Here)[k]) = "user"
          /\ d = Imports(Here)[k].dir
          /\ d # Here
    BY <1>2 DEF Uses
  <2>2. /\ Len(stack) \in DOMAIN stack
        /\ Here = stack[Len(stack)].dir
        /\ stack[Len(stack)].at = Len(Imports(Here))
        /\ Len(stack) + 1 \notin DOMAIN stack
    BY ReturnShape DEF Return, Last
  <2>3. Imports(Here) \in Seq(Path)
    BY ReturnShape, ImportsType
  <2>4. k \in 1..stack[Len(stack)].at
    BY <2>2, <2>3
  <2>5. Led(Len(stack), Imports(Here)[k])
    BY <2>2, <2>4 DEF Settled
  <2> QED
    BY <2>1, <2>2, <2>5 DEF Led
<1>3. ASSUME NEW i \in DOMAIN Joined, NEW d \in Uses(Joined[i])
      PROVE  \E j \in 1..(i - 1) : Joined[j] = d
  <2>1. CASE i \in DOMAIN done
    <3>1. PICK j \in 1..(i - 1) : done[j] = d
      BY <1>1, <1>3, <2>1, JoinedShape DEF Postorder, ImportsFirst
    <3>2. j \in DOMAIN done
      BY <2>1, JoinedShape
    <3> QED
      BY <3>1, <3>2, JoinedShape
  <2>2. CASE i \notin DOMAIN done
    <3>1. i = Len(done) + 1 /\ Joined[i] = Here
      BY <2>2, JoinedShape
    <3>2. d \in Gathered
      BY <1>2, <1>3, <3>1
    <3>3. PICK j \in DOMAIN done : done[j] = d
      BY <3>2 DEF Gathered, Range
    <3>4. j \in 1..(i - 1)
      BY <3>1, JoinedShape
    <3> QED
      BY <3>3, <3>4, JoinedShape
  <2> QED
    BY <2>1, <2>2
<1> QED
  BY <1>3 DEF ImportsFirst

LEMMA SoundStep ==
  TypeOK /\ UnderWay /\ Settled /\ Postorder /\ Sound /\ [Next]_vars => Postorder' /\ Sound'
<1> SUFFICES ASSUME TypeOK, UnderWay, Settled, Postorder, Sound, [Next]_vars
             PROVE  Postorder' /\ Sound'
  OBVIOUS
<1>1. content' = content => /\ \A d : Uses(d)' = Uses(d)
                            /\ \A C : IsCycle(C)' = IsCycle(C)
                            /\ \A s : ImportsFirst(s) => ImportsFirst(s)'
  BY DEF Uses, Imports, IsCycle, ImportsFirst
<1>2. CASE Return
  <2>1. content' = content
    BY <1>2 DEF Return, Join
  <2>2. ImportsFirst(Joined) /\ Joined \in Seq(Dir \ Missing) /\ Range(Joined) = Gathered'
    BY <1>2, JoinedInOrder, JoinedShape
  <2>3. Sound'
    BY <1>1, <2>1, <2>2, OrderedIsSound DEF Sound
  <2>4. ASSUME outcome' = "resolving" PROVE ImportsFirst(done)'
    <3>1. done' = Joined
      BY <1>2, <2>4, ReturnShape
    <3>2. \A s : ImportsFirst(s) => ImportsFirst(s)'
      BY <1>1, <2>1
    <3> QED
      BY <2>1, <2>2, <3>1, <1>1 DEF ImportsFirst
  <2> QED
    BY <2>3, <2>4 DEF Postorder
<1>3. CASE ~Return
  <2>1. /\ UNCHANGED <<content, manifest, done>>
        /\ outcome' = "resolving" => outcome = "resolving"
    BY <1>3, OtherSteps DEF Next, Pass, Descend
  <2> QED
    BY <1>1, <2>1 DEF Postorder, Sound, Gathered, ImportsFirst
<1> QED
  BY <1>2, <1>3

LEMMA SeenReachableStep ==
  /\ TypeOK /\ UnderWay /\ Apart /\ SeenReachable
  /\ [Next]_vars
  => SeenReachable'
<1> SUFFICES ASSUME TypeOK, UnderWay, Apart, SeenReachable, [Next]_vars
             PROVE  SeenReachable'
  OBVIOUS
<1>1. content' = content => \A C : Closed(C)' = Closed(C)
  BY DEF Closed, Uses, Imports
<1>2. CASE Descend
  <2> SUFFICES ASSUME NEW C \in SUBSET Dir, Closed(C), manifest
               PROVE  seen' \subseteq C /\ Gathered' \subseteq C
    BY <1>1, <1>2 DEF SeenReachable, Descend
  <2>1. seen \subseteq C /\ Gathered \subseteq C
    BY DEF SeenReachable
  <2>2. Here \in seen
    <3>1. Len(stack) \in DOMAIN stack /\ Here = stack[Len(stack)].dir /\ stack # <<>>
      BY <1>2, DescendShape
    <3>2. Here \in OnStack
      BY <3>1 DEF OnStack
    <3> QED
      BY <3>1, <3>2 DEF Apart
  <2>3. Import.dir \in C
    BY <1>2, <2>1, <2>2, DescendShape DEF Closed
  <2> QED
    BY <1>2, <2>1, <2>3 DEF Descend, Gathered
<1>3. CASE Return
  <2> SUFFICES ASSUME NEW C \in SUBSET Dir, Closed(C), manifest
               PROVE  seen' \subseteq C /\ Gathered' \subseteq C
    BY <1>1, <1>3 DEF SeenReachable, Return, Join
  <2>1. Here \in seen
    <3>1. Len(stack) \in DOMAIN stack /\ Here = stack[Len(stack)].dir /\ stack # <<>>
      BY <1>3, ReturnShape
    <3>2. Here \in OnStack
      BY <3>1 DEF OnStack
    <3> QED
      BY <3>1, <3>2 DEF Apart
  <2> QED
    BY <1>3, <2>1, ReturnShape DEF Return, Join, SeenReachable
<1>4. CASE UNCHANGED <<content, manifest, seen, done>>
  BY <1>1, <1>4 DEF SeenReachable, Gathered
<1>5. ~Descend /\ ~Return => UNCHANGED <<content, manifest, seen, done>>
  BY OtherSteps DEF Next, Pass
<1> QED
  BY <1>2, <1>3, <1>4, <1>5

-----------------------------------------------------------------------------
(* The inductive invariant.                                                *)

Visit ==
  /\ UnderWay
  /\ Chain
  /\ Apart
  /\ Settled
  /\ Postorder
  /\ Sound
  /\ SeenReachable

\* What visit starts with.
LEMMA VisitStarts == Init => TypeOK /\ Visit
<1> SUFFICES ASSUME Init PROVE TypeOK /\ Visit
  OBVIOUS
<1> USE EntryAssumption
<1>1. CASE manifest
  <2>1. /\ stack = <<[dir |-> Entry, at |-> 0]>>
        /\ seen = {Entry} /\ done = <<>> /\ userImports = {}
        /\ outcome = "resolving"
    BY <1>1 DEF Init
  <2>2. /\ stack \in Seq(PackageFrame) /\ stack # <<>>
        /\ DOMAIN stack = {1}
        /\ stack[1] = [dir |-> Entry, at |-> 0]
    <3>1. [dir |-> Entry, at |-> 0] \in PackageFrame
      BY DEF PackageFrame
    <3> HIDE DEF PackageFrame
    <3> QED
      BY <2>1, <3>1
  <2>3. Gathered = {} /\ OnStack = {Entry}
    BY <2>1, <2>2 DEF Gathered, OnStack, Range
  <2>4. TypeOK
    BY <2>1, <2>2 DEF Init, TypeOK, PackageFrame
  <2>5. UnderWay /\ Chain /\ Apart
    BY <1>1, <2>1, <2>2, <2>3 DEF UnderWay, Chain, Apart, GatheredOnce
  <2>6. Settled
    BY <2>1, <2>2, <2>3 DEF Settled
  <2>7. Postorder /\ Sound /\ SeenReachable
    BY <2>1, <2>3 DEF Postorder, ImportsFirst, Sound, IsCycle, SeenReachable, Closed
  <2> QED
    BY <2>4, <2>5, <2>6, <2>7 DEF Visit
<1>2. CASE ~manifest
  <2>1. /\ stack = <<>> /\ seen = {} /\ done = <<Entry>> /\ userImports = {}
        /\ outcome = "gathered"
    BY <1>2 DEF Init
  <2>2. TypeOK
    BY <1>2, <2>1 DEF Init, TypeOK
  <2>3. DOMAIN stack = {} /\ DOMAIN done = {1}
    BY <2>1
  <2>4. UnderWay /\ Chain /\ Apart
    BY <1>2, <2>1, <2>3 DEF UnderWay, Chain, Apart, GatheredOnce, OnStack
  <2>5. Settled /\ Postorder /\ Sound /\ SeenReachable
    BY <1>2, <2>1, <2>3 DEF Settled, Postorder, Sound, SeenReachable
  <2> QED
    BY <2>2, <2>4, <2>5 DEF Visit
<1> QED
  BY <1>1, <1>2

LEMMA VisitStep == TypeOK /\ Visit /\ [Next]_vars => TypeOK' /\ Visit'
  BY TypeStep, UnderWayStep, ChainStep, ApartStep, SettledStep, SoundStep,
     SeenReachableStep DEF Visit

LEMMA VisitInvariant == Spec => [](TypeOK /\ Visit)
  BY VisitStarts, VisitStep, PTL DEF Spec

\* Every variable has its type, and only packages that exist are visited.
THEOREM TypeCorrect == Spec => []TypeOK
  BY VisitInvariant, PTL

\* A package joins the build once, whichever of its importers come first.
THEOREM EachGatheredOnce == Spec => []GatheredOnce
<1>1. TypeOK /\ Visit => GatheredOnce
  BY DEF Visit, Apart
<1> QED
  BY <1>1, VisitInvariant, PTL

\* No build with an import cycle in it is accepted: packages join in postorder,
\* so of those of a cycle the first to join would use one that joined before it.
THEOREM AcceptedIsAlwaysAcyclic == Spec => []AcceptedIsAcyclic
<1>1. TypeOK /\ Visit => AcceptedIsAcyclic
  BY DEF Visit, Sound, AcceptedIsAcyclic
<1> QED
  BY <1>1, VisitInvariant, PTL

\* What is built is exactly what the build target leads to.
THEOREM AlwaysGathersReachable == Spec => []GathersReachable
<1>1. TypeOK /\ Visit => GathersReachable
  <2> SUFFICES ASSUME TypeOK, Visit, manifest, outcome \in {"gathered", "built"}
               PROVE  Gathered = {d \in Dir : Reachable(d)}
    BY DEF GathersReachable
  <2>1. Gathered \in SUBSET Dir
    BY DEF TypeOK, Gathered, Range
  <2>2. Entry \in Gathered
    BY DEF Visit, UnderWay
  <2>3. \A d \in Gathered : Uses(d) \subseteq Gathered
    BY DEF Visit, Sound
  <2>4. Closed(Gathered)
    BY <2>2, <2>3 DEF Closed
  <2>5. \A d \in Dir : Reachable(d) => d \in Gathered
    BY <2>1, <2>4 DEF Reachable
  <2>6. \A d \in Gathered : Reachable(d)
    BY DEF Reachable, Visit, SeenReachable
  <2> QED
    BY <2>1, <2>5, <2>6
<1> QED
  BY <1>1, VisitInvariant, PTL

\* Stripping leaves exactly the registry imports: every project path of a
\* gathered package was recorded, and nothing else ever is.
THEOREM KeptAlwaysStdlib == Spec => []KeptAreStdlib
<1>1. TypeOK /\ Visit => KeptAreStdlib
  <2> SUFFICES ASSUME TypeOK, Visit, manifest,
                      NEW d \in Gathered, NEW p \in Range(Imports(d))
               PROVE  p \in Kept <=> Classify(p) = "stdlib"
    BY DEF KeptAreStdlib
  <2>1. PICK k \in DOMAIN Imports(d) : p = Imports(d)[k]
    BY DEF Range
  <2>2. Known(p)
    BY <2>1 DEF Visit, Settled
  <2>3. p \in userImports => Classify(p) = "user"
    BY DEF Visit, Settled
  <2>4. p \in Kept <=> p \notin userImports
    BY DEF Kept
  <2>5. Classify(p) \in {"user", "stdlib", "unknown"}
    BY DEF Classify
  <2> QED
    BY <2>2, <2>3, <2>4, <2>5 DEF Known
<1> QED
  BY <1>1, VisitInvariant, PTL

\* What is on the stack or gathered is reachable.
LEMMA VisitedReachable ==
  ASSUME TypeOK, Visit, stack # <<>>, manifest
  PROVE  \A i \in DOMAIN stack : Reachable(stack[i].dir)
<1>1. \A i \in DOMAIN stack : stack[i].dir \in seen
  BY DEF Visit, Apart, OnStack
<1> QED
  BY <1>1 DEF Visit, SeenReachable, Reachable

\* What is built is exact, for every project.
THEOREM BuildAlwaysExact == Spec => []BuildIsExact
<1>1. GatheredOnce /\ GathersReachable /\ KeptAreStdlib => BuildIsExact
  BY DEF BuildIsExact
<1> QED
  BY <1>1, EachGatheredOnce, AlwaysGathersReachable, KeptAlwaysStdlib, PTL

\* A cyclic import is only ever reported for a cycle the build target leads
\* to: the frames from the target's up to the top one are that cycle.
THEOREM CycleAlwaysReal == Spec => []CycleIsReal
<1>1. Init => CycleIsReal
  BY DEF Init, CycleIsReal
<1>2. TypeOK /\ Visit /\ CycleIsReal /\ [Next]_vars => CycleIsReal'
  <2> SUFFICES ASSUME TypeOK, Visit, CycleIsReal, [Next]_vars, outcome' = "E0116"
               PROVE  \E C \in SUBSET Dir : IsCycle(C)' /\ \A d \in C : Reachable(d)'
    BY DEF CycleIsReal
  <2>1. content' = content
    BY OtherSteps DEF Next, Pass, Descend, Return, Join
  <2>2. /\ \A C : IsCycle(C)' = IsCycle(C)
        /\ \A d : Reachable(d)' = Reachable(d)
    BY <2>1 DEF IsCycle, Reachable, Closed, Uses, Imports
  <2>3. CASE outcome = "E0116"
    BY <2>2, <2>3 DEF CycleIsReal
  <2>4. CASE Cyclic
    <3>1. /\ stack # <<>> /\ manifest /\ AtImport
          /\ Here = stack[Len(stack)].dir
          /\ Len(stack) \in Nat /\ DOMAIN stack = 1..Len(stack)
      BY <2>4, TopFrame, FrameTypes DEF Cyclic, AtImport, Visit, UnderWay, Here
    <3>2. Import.dir \in Uses(Here)
      BY <2>4, <3>1, ImportType DEF Cyclic, Uses, Import
    <3>3. PICK i \in DOMAIN stack : stack[i].dir = Import.dir
      BY <2>4 DEF Cyclic, OnStack
    <3> DEFINE C == {stack[j].dir : j \in {k \in DOMAIN stack : i =< k}}
    <3>4. C \in SUBSET Dir /\ C # {} /\ Import.dir \in C
      BY <3>1, <3>3, FrameTypes
    <3>5. ASSUME NEW j \in DOMAIN stack, i =< j
          PROVE  Uses(stack[j].dir) \cap C # {}
      <4>1. CASE j = Len(stack)
        BY <3>1, <3>2, <3>4, <4>1
      <4>2. CASE j # Len(stack)
        <5>1. j + 1 \in DOMAIN stack /\ i =< j + 1
          BY <3>1, <3>5, <4>2
        <5>2. stack[j + 1].dir \in Uses(stack[j].dir)
          BY <5>1 DEF Visit, Chain
        <5> QED
          BY <5>1, <5>2
      <4> QED
        BY <4>1, <4>2
    <3>6. IsCycle(C)
      BY <3>4, <3>5 DEF IsCycle
    <3>7. \A d \in C : Reachable(d)
      BY <3>1, VisitedReachable
    <3> HIDE DEF C
    <3> QED
      BY <2>2, <3>4, <3>6, <3>7
  <2>5. ~Cyclic => outcome = "E0116"
    BY DEF Next, Pass, Unknown, Descend, Return, Join, Compile, Finished, Stop, vars
  <2> QED
    BY <2>3, <2>4, <2>5
<1> QED
  BY <1>1, <1>2, VisitInvariant, PTL DEF Spec

\* An unknown import path is only ever reported for one that a package the
\* build target leads to really has.
THEOREM UnknownAlwaysReal == Spec => []UnknownIsReal
<1>1. Init => UnknownIsReal
  BY DEF Init, UnknownIsReal
<1>2. TypeOK /\ Visit /\ UnknownIsReal /\ [Next]_vars => UnknownIsReal'
  <2> DEFINE Bad(d) == \/ Uses(d) \cap Missing # {}
                       \/ \E p \in Range(Imports(d)) : Classify(p) = "unknown"
  <2> SUFFICES ASSUME TypeOK, Visit, UnknownIsReal, [Next]_vars, outcome' = "E0117"
               PROVE  \E d \in Dir : Reachable(d)' /\ Bad(d)'
    BY DEF UnknownIsReal
  <2>1. content' = content
    BY OtherSteps DEF Next, Pass, Descend, Return, Join
  <2>2. \A d : Reachable(d)' = Reachable(d) /\ Bad(d)' = Bad(d)
    BY <2>1 DEF Reachable, Closed, Uses, Imports
  <2>3. CASE outcome = "E0117"
    BY <2>2, <2>3 DEF UnknownIsReal
  <2>4. CASE Unknown
    <3>1. /\ stack # <<>> /\ manifest /\ AtImport
          /\ Here = stack[Len(stack)].dir
          /\ Len(stack) \in DOMAIN stack
          /\ Here \in Dir
      BY <2>4, TopFrame DEF Unknown, AtImport, Visit, UnderWay, Here
    <3>2. Reachable(Here)
      BY <3>1, VisitedReachable
    <3>3. Import \in Range(Imports(Here))
      BY <3>1, ImportType DEF Import, Range
    <3>4. CASE Classify(Import) = "unknown"
      BY <2>2, <3>1, <3>2, <3>3, <3>4
    <3>5. CASE Classify(Import) = "user" /\ Import.dir # Here /\ Import.dir \in Missing
      <4>1. Import.dir \in Uses(Here)
        BY <3>1, <3>5, ImportType DEF Uses, Import
      <4> QED
        BY <2>2, <3>1, <3>2, <3>5, <4>1
    <3> QED
      BY <2>4, <3>4, <3>5 DEF Unknown
  <2>5. ~Unknown => outcome = "E0117"
    BY DEF Next, Pass, Cyclic, Descend, Return, Join, Compile, Finished, Stop, vars
  <2> QED
    BY <2>3, <2>4, <2>5
<1> QED
  BY <1>1, <1>2, VisitInvariant, PTL DEF Spec

\* A build is only ever refused for a reason that is really there.
THEOREM RefusalAlwaysReal == Spec => []RefusalIsReal
<1>1. CycleIsReal /\ UnknownIsReal => RefusalIsReal
  BY DEF RefusalIsReal
<1> QED
  BY <1>1, CycleAlwaysReal, UnknownAlwaysReal, PTL

\* Cycle detection is complete and exact, and so is E0117, on any import graph.
THEOREM VerdictAlwaysExact == Spec => []VerdictIsExact
<1>1. AcceptedIsAcyclic /\ RefusalIsReal => VerdictIsExact
  BY DEF VerdictIsExact
<1> QED
  BY <1>1, AcceptedIsAlwaysAcyclic, RefusalAlwaysReal, PTL
=============================================================================
