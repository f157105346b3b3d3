------------------------ MODULE CompilerProofs ------------------------
(***************************************************************************)
(* Theorems about Phases and Values: four phases of the compiler, and      *)
(* loops and equality in the code it makes, for every value of their       *)
(* constants.  Each part has its invariant, about its own variables; the   *)
(* last section puts the parts together.                                   *)
(***************************************************************************)
EXTENDS Phases, Values, SequencesExt, FiniteSetsExt, IndexLemmas, FiniteSetTheorems, TLAPS

-----------------------------------------------------------------------------
(* Jumps: break, continue, return, ? and spawn, through the contexts of the  *)
(* checker and of codegen.  The invariant says of each context on the stack what *)
(* it knows of the constructs around it.                                     *)

\* What the walkers hold, by its types.
Returned == TheJumps!Types \cup {"unknown"}
Contexts == [loopDepth : Nat, scopeDepth : Nat, curReturn : Returned, tryForbidden : BOOLEAN]
Bodies   == [inSpawnBody : BOOLEAN, groupVars : Seq(Nat)]
Saved    == [sema : Contexts, gen : Bodies]
Kinds    == {"loop", "match", "select", "spawn", "value-block", "value-match", "scope",
             "closure"}
Made     == [kind : Kinds, type : TheJumps!Types, annotated : BOOLEAN]

\* The contexts after the first i constructs: saved ones, and the current one.
SemaAt(i) == IF i = Len(nest) THEN sema ELSE saved[i + 1].sema
GenAt(i)  == IF i = Len(nest) THEN gen ELSE saved[i + 1].gen

\* The nearest of these kinds among the first i constructs is the k-th, or,
\* for 0, there is none.
Nearest(cs, i, kinds, k) ==
  /\ k > 0 => cs[k].kind \in kinds
  /\ \A m \in (k + 1)..i : cs[m].kind \notin kinds

\* What the contexts after i constructs know of them.
SemaKnows(f, cs, i, s) ==
  /\ s.loopDepth = 0 <=> \A k \in 1..i : cs[k].kind # "loop"
  /\ s.scopeDepth > 0 =>
       \E k \in 1..i : Nearest(cs, i, {"scope"}, k) /\ \A m \in (k + 1)..i : cs[m].kind # "closure"
  /\ i > 0 /\ cs[i].kind = "spawn" => s.scopeDepth > 0
  /\ \A k \in 0..i : Nearest(cs, i, {"closure"}, k) =>
       IF k = 0
       THEN s.curReturn = f /\ (s.tryForbidden <=> f # "result")
       ELSE /\ s.curReturn = (IF cs[k].annotated THEN cs[k].type ELSE "unknown")
            /\ s.tryForbidden <=> (cs[k].annotated /\ cs[k].type # "result")
GenKnows(cs, i, g) ==
  /\ \A k \in 0..i : Nearest(cs, i, {"closure", "spawn", "scope"}, k) =>
       g.inSpawnBody <=> (k > 0 /\ cs[k].kind = "spawn")
  /\ \A k \in 1..i : Nearest(cs, i, {"scope"}, k) => g.groupVars # <<>> /\ TheJumps!Last(g.groupVars) = k

\* The types of the state.
JumpTypes ==
  /\ fn \in TheJumps!Types
  /\ nest \in Seq(Made)
  /\ sema \in Contexts /\ gen \in Bodies
  /\ saved \in Seq(Saved) /\ Len(saved) = Len(nest)

\* Each context follows from the one around.
JumpChain ==
  /\ \A i \in 1..Len(nest) : SemaAt(i) = TheJumps!SemaInside(SemaAt(i - 1), nest[i])
  /\ \A i \in 1..Len(nest) : GenAt(i) = TheJumps!GenInside(GenAt(i - 1), i, nest[i])

\* And what each knows is true of the constructs around it.
JumpKnown ==
  \A i \in 0..Len(nest) : SemaKnows(fn, nest, i, SemaAt(i)) /\ GenKnows(nest, i, GenAt(i))

\* What becomes of a jump.
Verdict(j) ==
  CASE TheJumps!SemaVerdict(j) # "accepted" -> TheJumps!SemaVerdict(j)
    [] TheJumps!GenRefuses(j) -> "not-generated"
    [] ~TheJumps!GoBuilds(j)  -> "not-built"
    [] OTHER                  -> "lands"

\* The jump that was made last was made here.
JumpJudged ==
  IF jump.kind = "none"
  THEN jump.verdict = "none"
  ELSE /\ jump.kind \in TheJumps!JumpKinds
       /\ jump.verdict = Verdict(jump.kind)
       /\ jump.verdict = "lands" => jump.lands = TheJumps!GoLands(jump.kind)

\* The inductive invariant.
JumpInv == JumpTypes /\ JumpChain /\ JumpKnown /\ JumpJudged

\* Nothing is around a jump that is made at once.
LEMMA JumpInvInit ==
  ASSUME TheJumps!Init
  PROVE  JumpInv
<1>1. /\ nest = <<>> /\ saved = <<>> /\ Len(nest) = 0 /\ Len(saved) = 0
      /\ fn \in TheJumps!Types
      /\ sema = [loopDepth |-> 0, scopeDepth |-> 0, curReturn |-> fn,
                 tryForbidden |-> fn # "result"]
      /\ gen = [inSpawnBody |-> FALSE, groupVars |-> <<>>]
      /\ jump.kind = "none" /\ jump.verdict = "none"
  BY DEF TheJumps!Init
<1>2. JumpTypes
  BY <1>1 DEF JumpTypes, Contexts, Bodies, Returned
<1>3. JumpChain
  BY <1>1 DEF JumpChain
<1>4. JumpKnown
  <2>1. SemaKnows(fn, nest, 0, sema)
    <3>1. sema.loopDepth = 0 /\ sema.scopeDepth = 0 /\ sema.curReturn = fn
          /\ (sema.tryForbidden <=> fn # "result")
      BY <1>1
    <3> QED
      BY <3>1 DEF SemaKnows
  <2>2. GenKnows(nest, 0, gen)
    <3>1. gen.inSpawnBody = FALSE
      BY <1>1
    <3> QED
      BY <3>1 DEF GenKnows
  <2> QED
    BY <1>1, <2>1, <2>2 DEF JumpKnown, SemaAt, GenAt
<1> QED
  BY <1>1, <1>2, <1>3, <1>4 DEF JumpInv, JumpJudged

\* What the walkers pass down into a construct is a context again.
LEMMA GoingIn ==
  ASSUME NEW s \in Contexts, NEW g \in Bodies, NEW c \in Made, NEW i \in Nat
  PROVE  TheJumps!SemaInside(s, c) \in Contexts /\ TheJumps!GenInside(g, i, c) \in Bodies
<1>1. CASE c.kind = "loop"
  <2>1. TheJumps!SemaInside(s, c) = [s EXCEPT !.loopDepth = @ + 1] /\ TheJumps!GenInside(g, i, c) = g
    BY <1>1 DEF TheJumps!SemaInside, TheJumps!GenInside
  <2> QED
    BY <2>1 DEF Contexts
<1>2. CASE c.kind = "scope"
  <2>1. /\ TheJumps!SemaInside(s, c) = [s EXCEPT !.scopeDepth = @ + 1]
        /\ TheJumps!GenInside(g, i, c) = [inSpawnBody |-> FALSE, groupVars |-> Append(g.groupVars, i)]
    BY <1>2 DEF TheJumps!SemaInside, TheJumps!GenInside
  <2>2. TheJumps!SemaInside(s, c) \in Contexts
    BY <2>1 DEF Contexts
  <2>3. TheJumps!GenInside(g, i, c) \in Bodies
    BY <2>1 DEF Bodies
  <2> QED
    BY <2>2, <2>3
<1>3. CASE c.kind = "closure"
  <2> DEFINE r == IF c.annotated THEN c.type ELSE "unknown"
             t == c.annotated /\ c.type # "result"
  <2>1. TheJumps!SemaInside(s, c) = [s EXCEPT !.scopeDepth = 0, !.curReturn = r, !.tryForbidden = t]
    BY <1>3 DEF TheJumps!SemaInside
  <2>2. r \in Returned /\ t \in BOOLEAN
    BY DEF Made, Returned
  <2> HIDE DEF r, t
  <2>3. \A x \in Returned, y \in BOOLEAN :
          [s EXCEPT !.scopeDepth = 0, !.curReturn = x, !.tryForbidden = y] \in Contexts
    BY DEF Contexts
  <2>4. TheJumps!SemaInside(s, c) \in Contexts
    BY <2>1, <2>2, <2>3
  <2>5. TheJumps!GenInside(g, i, c) = [g EXCEPT !.inSpawnBody = FALSE]
    BY <1>3 DEF TheJumps!GenInside
  <2> QED
    BY <2>4, <2>5 DEF Bodies
<1>4. CASE c.kind = "spawn"
  <2>1. TheJumps!SemaInside(s, c) = s /\ TheJumps!GenInside(g, i, c) = [g EXCEPT !.inSpawnBody = TRUE]
    BY <1>4 DEF TheJumps!SemaInside, TheJumps!GenInside
  <2> QED
    BY <2>1 DEF Bodies
<1>5. CASE c.kind \notin {"loop", "scope", "closure", "spawn"}
  <2>1. TheJumps!SemaInside(s, c) = s /\ TheJumps!GenInside(g, i, c) = g
    BY <1>5 DEF TheJumps!SemaInside, TheJumps!GenInside
  <2> QED
    BY <2>1
<1> QED
  BY <1>1, <1>2, <1>3, <1>4, <1>5

\* Leaving the construct that was entered last puts the contexts back.
LEMMA BackOut ==
  ASSUME JumpInv, TheJumps!Leave
  PROVE  /\ Len(nest) > 0 /\ Len(nest) \in Nat
         /\ sema' = saved[Len(nest)].sema
         /\ gen' = saved[Len(nest)].gen
<1> DEFINE n == Len(nest)
           s == saved[n].sema
           g == saved[n].gen
           c == nest[n]
<1>1. /\ n \in Nat /\ n > 0 /\ Len(saved) = n
      /\ s \in Contexts /\ g \in Bodies /\ c \in Made
      /\ TheJumps!Last(nest) = c /\ TheJumps!Last(saved) = saved[n]
  <2>1. nest \in Seq(Made) /\ nest # <<>> /\ Len(saved) = Len(nest)
    BY DEF JumpInv, JumpTypes, TheJumps!Leave
  <2>2. n \in Nat /\ n > 0 /\ Len(saved) = n
    BY <2>1
  <2>3. saved[n] \in Saved
    BY <2>2 DEF JumpInv, JumpTypes
  <2>4. s \in Contexts /\ g \in Bodies
    BY <2>3 DEF Saved
  <2>5. c \in Made
    BY <2>1, <2>2
  <2>6. TheJumps!Last(nest) = c /\ TheJumps!Last(saved) = saved[n]
    BY <2>2 DEF TheJumps!Last
  <2> QED
    BY <2>2, <2>4, <2>5, <2>6, Zenon
<1>2. sema = TheJumps!SemaInside(s, c) /\ gen = TheJumps!GenInside(g, n, c)
  <2>1. n \in 1..Len(nest) /\ n - 1 # Len(nest) /\ (n - 1) + 1 = n
    BY <1>1
  <2>2. SemaAt(n) = TheJumps!SemaInside(SemaAt(n - 1), c) /\ GenAt(n) = TheJumps!GenInside(GenAt(n - 1), n, c)
    BY <2>1, Zenon DEF JumpInv, JumpChain
  <2>3. SemaAt(n) = sema /\ SemaAt(n - 1) = s /\ GenAt(n) = gen /\ GenAt(n - 1) = g
    BY <2>1, Zenon DEF SemaAt, GenAt
  <2> QED
    BY <2>2, <2>3, Zenon
<1>3. /\ c.kind = "loop" => sema' = [sema EXCEPT !.loopDepth = @ - 1]
      /\ c.kind = "scope" => sema' = [sema EXCEPT !.scopeDepth = @ - 1]
      /\ c.kind = "closure" =>
           sema' = [sema EXCEPT !.scopeDepth = s.scopeDepth,
                                !.curReturn = s.curReturn,
                                !.tryForbidden = s.tryForbidden]
      /\ c.kind \notin {"loop", "scope", "closure"} => sema' = sema
  BY <1>1 DEF TheJumps!Leave
<1>4. /\ c.kind = "scope" =>
           gen' = [inSpawnBody |-> g.inSpawnBody,
                   groupVars |-> SubSeq(gen.groupVars, 1, Len(g.groupVars))]
      /\ c.kind \in {"spawn", "closure"} =>
           gen' = [gen EXCEPT !.inSpawnBody = g.inSpawnBody]
      /\ c.kind \notin {"scope", "spawn", "closure"} => gen' = gen
  BY <1>1 DEF TheJumps!Leave
<1> HIDE DEF n, s, g, c
<1>5. sema' = s
  <2>1. CASE c.kind = "loop"
    <3>1. sema = [s EXCEPT !.loopDepth = @ + 1] /\ sema' = [sema EXCEPT !.loopDepth = @ - 1]
      BY <1>2, <1>3, <2>1 DEF TheJumps!SemaInside
    <3>2. sema.loopDepth - 1 = s.loopDepth
      BY <1>1, <3>1 DEF Contexts
    <3> QED
      BY <1>1, <3>1, <3>2 DEF Contexts
  <2>2. CASE c.kind = "scope"
    <3>1. sema = [s EXCEPT !.scopeDepth = @ + 1] /\ sema' = [sema EXCEPT !.scopeDepth = @ - 1]
      BY <1>2, <1>3, <2>2 DEF TheJumps!SemaInside
    <3>2. sema.scopeDepth - 1 = s.scopeDepth
      BY <1>1, <3>1 DEF Contexts
    <3> QED
      BY <1>1, <3>1, <3>2 DEF Contexts
  <2>3. CASE c.kind = "closure"
    <3> DEFINE r == IF c.annotated THEN c.type ELSE "unknown"
               t == c.annotated /\ c.type # "result"
    <3>1. sema = [s EXCEPT !.scopeDepth = 0, !.curReturn = r, !.tryForbidden = t]
      BY <1>2, <2>3 DEF TheJumps!SemaInside
    <3>2. sema' = [sema EXCEPT !.scopeDepth = s.scopeDepth,
                               !.curReturn = s.curReturn,
                               !.tryForbidden = s.tryForbidden]
      BY <1>3, <2>3
    <3> HIDE DEF r, t
    <3> QED
      BY <1>1, <3>1, <3>2 DEF Contexts
  <2>4. CASE c.kind \notin {"loop", "scope", "closure"}
    BY <1>2, <1>3, <2>4 DEF TheJumps!SemaInside
  <2> QED
    BY <2>1, <2>2, <2>3, <2>4
<1>6. gen' = g
  <2>1. CASE c.kind = "scope"
    <3>1. gen.groupVars = Append(g.groupVars, n)
      BY <1>2, <2>1 DEF TheJumps!GenInside
    <3>2. g.groupVars \in Seq(Nat)
      BY <1>1 DEF Bodies
    <3>3. SubSeq(gen.groupVars, 1, Len(g.groupVars)) = g.groupVars
      BY <1>1, <3>1, <3>2
    <3>4. gen' = [inSpawnBody |-> g.inSpawnBody, groupVars |-> g.groupVars]
      BY <1>4, <2>1, <3>3
    <3> QED
      BY <1>1, <3>4 DEF Bodies
  <2>2. CASE c.kind = "spawn"
    <3>1. gen = [g EXCEPT !.inSpawnBody = TRUE] /\ gen' = [gen EXCEPT !.inSpawnBody = g.inSpawnBody]
      BY <1>2, <1>4, <2>2 DEF TheJumps!GenInside
    <3> QED
      BY <1>1, <3>1 DEF Bodies
  <2>3. CASE c.kind = "closure"
    <3>1. gen = [g EXCEPT !.inSpawnBody = FALSE] /\ gen' = [gen EXCEPT !.inSpawnBody = g.inSpawnBody]
      BY <1>2, <1>4, <2>3 DEF TheJumps!GenInside
    <3> QED
      BY <1>1, <3>1 DEF Bodies
  <2>4. CASE c.kind \notin {"scope", "spawn", "closure"}
    BY <1>2, <1>4, <2>4 DEF TheJumps!GenInside
  <2> QED
    BY <2>1, <2>2, <2>3, <2>4
<1> QED
  BY <1>1, <1>5, <1>6 DEF n, s, g

\* Entering a construct: what its contexts know follows from what those
\* around it knew.
LEMMA KnownFurtherIn ==
  ASSUME NEW f, NEW cs \in Seq(Made), NEW i \in Nat, i < Len(cs), NEW c \in Made, cs[i + 1] = c,
         NEW s \in Contexts, NEW g \in Bodies, SemaKnows(f, cs, i, s), GenKnows(cs, i, g),
         c.kind = "spawn" => s.scopeDepth > 0
  PROVE  SemaKnows(f, cs, i + 1, TheJumps!SemaInside(s, c)) /\ GenKnows(cs, i + 1, TheJumps!GenInside(g, i + 1, c))
<1> DEFINE u == TheJumps!SemaInside(s, c)
           h == TheJumps!GenInside(g, i + 1, c)
<1>1. \A kinds : \A k \in 0..i : Nearest(cs, i + 1, kinds, k) <=> Nearest(cs, i, kinds, k) /\ c.kind \notin kinds
  BY DEF Nearest
<1>2. \A kinds : Nearest(cs, i + 1, kinds, i + 1) <=> c.kind \in kinds
  BY DEF Nearest
<1>3. u.loopDepth = (IF c.kind = "loop" THEN s.loopDepth + 1 ELSE s.loopDepth)
  BY DEF TheJumps!SemaInside, Contexts
<1>4. u.scopeDepth = (IF c.kind = "scope" THEN s.scopeDepth + 1
                      ELSE IF c.kind = "closure" THEN 0 ELSE s.scopeDepth)
  BY DEF TheJumps!SemaInside, Contexts
<1>5. u.curReturn = (IF c.kind = "closure" THEN (IF c.annotated THEN c.type ELSE "unknown")
                     ELSE s.curReturn)
  BY DEF TheJumps!SemaInside, Contexts
<1>6. u.tryForbidden <=> (IF c.kind = "closure" THEN c.annotated /\ c.type # "result"
                          ELSE s.tryForbidden)
  BY DEF TheJumps!SemaInside, Contexts
<1>7. h.inSpawnBody <=> (IF c.kind = "spawn" THEN TRUE
                         ELSE IF c.kind \in {"scope", "closure"} THEN FALSE ELSE g.inSpawnBody)
  BY DEF TheJumps!GenInside, Bodies
<1>8. h.groupVars = (IF c.kind = "scope" THEN Append(g.groupVars, i + 1) ELSE g.groupVars)
  BY DEF TheJumps!GenInside, Bodies
<1>9. cs[i + 1] = c /\ \A k \in 1..(i + 1) : k \in 1..i \/ k = i + 1
  OBVIOUS
<1> HIDE DEF u, h
<1>10. SemaKnows(f, cs, i + 1, u)
  <2>1. u.loopDepth = 0 <=> \A k \in 1..(i + 1) : cs[k].kind # "loop"
    BY <1>3, <1>9 DEF SemaKnows, Contexts
  <2>2. ASSUME u.scopeDepth > 0
        PROVE  \E k \in 1..(i + 1) :
                 /\ Nearest(cs, i + 1, {"scope"}, k)
                 /\ \A m \in (k + 1)..(i + 1) : cs[m].kind # "closure"
    <3>1. CASE c.kind = "scope"
      BY <1>2, <3>1
    <3>2. CASE c.kind # "scope"
      <4>1. c.kind # "closure" /\ s.scopeDepth > 0
        BY <1>4, <2>2, <3>2
      <4>2. PICK k \in 1..i : /\ Nearest(cs, i, {"scope"}, k)
                              /\ \A m \in (k + 1)..i : cs[m].kind # "closure"
        BY <4>1 DEF SemaKnows
      <4>3. Nearest(cs, i + 1, {"scope"}, k)
        BY <1>1, <3>2, <4>2
      <4>4. \A m \in (k + 1)..(i + 1) : cs[m].kind # "closure"
        BY <1>9, <4>1, <4>2
      <4> QED
        BY <4>3, <4>4
    <3> QED
      BY <3>1, <3>2
  <2>3. cs[i + 1].kind = "spawn" => u.scopeDepth > 0
    BY <1>4, <1>9
  <2>4. ASSUME NEW k \in 0..(i + 1), Nearest(cs, i + 1, {"closure"}, k)
        PROVE  IF k = 0
               THEN u.curReturn = f /\ (u.tryForbidden <=> f # "result")
               ELSE /\ u.curReturn = (IF cs[k].annotated THEN cs[k].type ELSE "unknown")
                    /\ u.tryForbidden <=> (cs[k].annotated /\ cs[k].type # "result")
    <3>1. CASE k = i + 1
      BY <1>2, <1>5, <1>6, <1>9, <2>4, <3>1
    <3>2. CASE k # i + 1
      <4>1. k \in 0..i /\ Nearest(cs, i, {"closure"}, k) /\ c.kind # "closure"
        BY <1>1, <2>4, <3>2
      <4>2. u.curReturn = s.curReturn /\ (u.tryForbidden <=> s.tryForbidden)
        BY <1>5, <1>6, <4>1
      <4> QED
        BY <4>1, <4>2 DEF SemaKnows
    <3> QED
      BY <3>1, <3>2
  <2> QED
    BY <2>1, <2>2, <2>3, <2>4 DEF SemaKnows
<1>11. GenKnows(cs, i + 1, h)
  <2>1. ASSUME NEW k \in 0..(i + 1), Nearest(cs, i + 1, {"closure", "spawn", "scope"}, k)
        PROVE  h.inSpawnBody <=> (k > 0 /\ cs[k].kind = "spawn")
    <3>1. CASE k = i + 1
      BY <1>2, <1>7, <1>9, <2>1, <3>1
    <3>2. CASE k # i + 1
      <4>1. k \in 0..i /\ Nearest(cs, i, {"closure", "spawn", "scope"}, k)
            /\ c.kind \notin {"closure", "spawn", "scope"}
        BY <1>1, <2>1, <3>2
      <4> QED
        BY <1>7, <4>1 DEF GenKnows
    <3> QED
      BY <3>1, <3>2
  <2>2. ASSUME NEW k \in 1..(i + 1), Nearest(cs, i + 1, {"scope"}, k)
        PROVE  h.groupVars # <<>> /\ TheJumps!Last(h.groupVars) = k
    <3>1. CASE k = i + 1
      <4>1. h.groupVars = Append(g.groupVars, i + 1) /\ g.groupVars \in Seq(Nat)
        BY <1>2, <1>8, <2>2, <3>1 DEF Bodies
      <4>2. i + 1 \in Nat
        BY <1>1
      <4>3. PICK w \in Seq(Nat) : w = g.groupVars
        BY <4>1
      <4>4. PICK v : v = Append(w, i + 1)
        OBVIOUS
      <4>5. v # <<>> /\ v[Len(v)] = i + 1
        BY <4>2, <4>4
      <4> QED
        BY <3>1, <4>1, <4>3, <4>4, <4>5 DEF TheJumps!Last
    <3>2. CASE k # i + 1
      <4>1. k \in 1..i /\ Nearest(cs, i, {"scope"}, k) /\ h.groupVars = g.groupVars
        BY <1>1, <1>8, <2>2, <3>2
      <4> QED
        BY <4>1 DEF GenKnows
    <3> QED
      BY <3>1, <3>2
  <2> QED
    BY <2>1, <2>2 DEF GenKnows
<1> QED
  BY <1>10, <1>11 DEF u, h

\* And it depends on nothing further in.
LEMMA KnownOfPrefix ==
  ASSUME NEW f, NEW cs, NEW ds, NEW i \in Nat, \A k \in 1..i : ds[k] = cs[k],
         NEW s, NEW g, SemaKnows(f, cs, i, s), GenKnows(cs, i, g)
  PROVE  SemaKnows(f, ds, i, s) /\ GenKnows(ds, i, g)
<1>1. \A kinds : \A k \in 0..i : Nearest(ds, i, kinds, k) <=> Nearest(cs, i, kinds, k)
  BY DEF Nearest
<1>2. SemaKnows(f, ds, i, s)
  BY <1>1 DEF SemaKnows
<1>3. GenKnows(ds, i, g)
  BY <1>1 DEF GenKnows
<1> QED
  BY <1>2, <1>3

\* The judgement of a jump depends on the walk alone.
LEMMA SameWalkSameVerdict ==
  ASSUME UNCHANGED <<fn, nest, sema, gen, saved>>
  PROVE  /\ JumpTypes' = JumpTypes /\ JumpChain' = JumpChain /\ JumpKnown' = JumpKnown
         /\ \A j : Verdict(j)' = Verdict(j) /\ TheJumps!GoLands(j)' = TheJumps!GoLands(j)
<1>1. JumpTypes' = JumpTypes /\ JumpChain' = JumpChain /\ JumpKnown' = JumpKnown
  BY DEF JumpTypes, JumpChain, JumpKnown, SemaAt, GenAt
<1>2. \A kinds : TheJumps!Innermost(kinds)' = TheJumps!Innermost(kinds)
  BY DEF TheJumps!Innermost
<1>3. ASSUME NEW j
      PROVE  Verdict(j)' = Verdict(j) /\ TheJumps!GoLands(j)' = TheJumps!GoLands(j)
  <2>1. TheJumps!SemaVerdict(j)' = TheJumps!SemaVerdict(j)
    BY DEF TheJumps!SemaVerdict
  <2>2. TheJumps!GenRefuses(j)' <=> TheJumps!GenRefuses(j)
    BY DEF TheJumps!GenRefuses
  <2>3. TheJumps!GoBuilds(j)' <=> TheJumps!GoBuilds(j)
    <3>1. \A i : TheJumps!GoResult(i)' = TheJumps!GoResult(i)
      BY DEF TheJumps!GoResult
    <3>2. TheJumps!GoReturnedAt(j)' = TheJumps!GoReturnedAt(j)
      BY DEF TheJumps!GoReturnedAt, TheJumps!GoReturned
    <3> QED
      BY <1>2, <3>1, <3>2 DEF TheJumps!GoBuilds
  <2>4. TheJumps!GoLands(j)' = TheJumps!GoLands(j)
    BY <1>2 DEF TheJumps!GoLands
  <2> QED
    BY <2>1, <2>2, <2>3, <2>4 DEF Verdict
<1> QED
  BY <1>1, <1>3

\* Entering a construct, leaving one and making a jump keep what is known.
LEMMA JumpInvNext ==
  ASSUME JumpInv, [TheJumps!Next]_(TheJumps!vars)
  PROVE  JumpInv'
<1>0. PICK n \in Nat : n = Len(nest)
  BY DEF JumpInv, JumpTypes
<1>1. /\ fn \in TheJumps!Types /\ nest \in Seq(Made) /\ Len(nest) = n /\ n \in Nat
      /\ sema \in Contexts /\ gen \in Bodies
      /\ saved \in Seq(Saved) /\ Len(saved) = n
  BY <1>0 DEF JumpInv, JumpTypes
<1>2. /\ SemaKnows(fn, nest, n, sema) /\ GenKnows(nest, n, gen)
  BY <1>1 DEF JumpInv, JumpKnown, SemaAt, GenAt
<1>3. ASSUME NEW c \in TheJumps!Constructs, TheJumps!Enter(c)
      PROVE  JumpInv'
  <2>1. /\ c \in Made
        /\ nest' = Append(nest, c) /\ fn' = fn /\ jump'.kind = "none" /\ jump'.verdict = "none"
        /\ saved' = Append(saved, [sema |-> sema, gen |-> gen])
        /\ sema' = TheJumps!SemaInside(sema, c) /\ gen' = TheJumps!GenInside(gen, n + 1, c)
        /\ c.kind = "spawn" => sema.scopeDepth > 0
    <3>1. c \in Made
      <4>1. ASSUME NEW k \in Kinds, NEW t \in TheJumps!Types, NEW a \in BOOLEAN
            PROVE  [kind |-> k, type |-> t, annotated |-> a] \in Made
        BY DEF Made
      <4>2. {"unit", "int", "result"} = TheJumps!Types
        BY DEF TheJumps!Types
      <4> DEFINE ks == {"value-block", "value-match"}
                 ts == {"int", "result"}
                 statements == {TheJumps!Statement(k) : k \in {"loop", "match", "select", "spawn"}}
                 valued == {TheJumps!Value(k, t) : k \in ks, t \in ts}
                 closures == {TheJumps!Closure(t, a) : t \in TheJumps!Types, a \in BOOLEAN}
      <4>3. TheJumps!Constructs =
              statements \cup valued \cup {TheJumps!Value("scope", "result")} \cup closures
        BY DEF TheJumps!Constructs
      <4>4. CASE c \in statements
        BY <4>1, <4>2, <4>4 DEF TheJumps!Statement, Kinds
      <4>5. CASE c \in valued
        <5> HIDE DEF ks, ts
        <5>1. PICK k \in ks, t \in ts : c = TheJumps!Value(k, t)
          BY <4>5
        <5> USE DEF ks, ts
        <5> QED
          BY <4>1, <4>2, <5>1 DEF TheJumps!Value, Kinds
      <4>6. CASE c = TheJumps!Value("scope", "result")
        BY <4>1, <4>2, <4>6 DEF TheJumps!Value, Kinds
      <4>7. CASE c \in closures
        <5>1. PICK t \in TheJumps!Types, a \in BOOLEAN : c = TheJumps!Closure(t, a)
          BY <4>7
        <5> QED
          BY <4>1, <5>1 DEF TheJumps!Closure, Kinds
      <4> HIDE DEF statements, valued, closures
      <4> QED
        BY <1>3, <4>3, <4>4, <4>5, <4>6, <4>7
    <3>2. sema' = TheJumps!SemaInside(sema, c)
      BY <1>3 DEF TheJumps!Enter
    <3>3. gen' = TheJumps!GenInside(gen, n + 1, c)
      BY <1>0, <1>3 DEF TheJumps!Enter
    <3> QED
      BY <1>3, <3>1, <3>2, <3>3 DEF TheJumps!Enter, TheJumps!Accepts
  <2>2. /\ nest' \in Seq(Made) /\ Len(nest') = n + 1 /\ nest'[n + 1] = c
        /\ \A k \in 1..n : nest'[k] = nest[k]
    BY <1>1, <2>1
  <2>3. [sema |-> sema, gen |-> gen] \in Saved
    BY <1>1 DEF Saved
  <2>4. /\ saved' \in Seq(Saved) /\ Len(saved') = n + 1
        /\ saved'[n + 1].sema = sema /\ saved'[n + 1].gen = gen
        /\ \A k \in 1..n : saved'[k] = saved[k]
    BY <1>1, <2>1, <2>3
  <2>5. sema' \in Contexts /\ gen' \in Bodies
    BY <1>1, <2>1, GoingIn
  <2>6. JumpTypes'
    BY <1>1, <2>1, <2>2, <2>4, <2>5 DEF JumpTypes
  <2>7. \A i \in 0..n : SemaAt(i)' = SemaAt(i) /\ GenAt(i)' = GenAt(i)
    BY <1>1, <2>2, <2>4 DEF SemaAt, GenAt
  <2>8. SemaAt(n) = sema /\ GenAt(n) = gen
    BY <1>1 DEF SemaAt, GenAt
  <2>9. SemaAt(n + 1)' = sema' /\ GenAt(n + 1)' = gen'
    BY <1>1, <2>2 DEF SemaAt, GenAt
  <2>10. JumpChain'
    <3>1. ASSUME NEW i \in 1..Len(nest')
          PROVE  (SemaAt(i) = TheJumps!SemaInside(SemaAt(i - 1), nest[i]) /\ GenAt(i) = TheJumps!GenInside(GenAt(i - 1), i, nest[i]))'
      <4>1. CASE i \in 1..n
        <5>1. i \in 0..n /\ i - 1 \in 0..n /\ nest'[i] = nest[i]
          BY <1>1, <2>2, <4>1
        <5>2. /\ SemaAt(i)' = SemaAt(i) /\ SemaAt(i - 1)' = SemaAt(i - 1)
              /\ GenAt(i)' = GenAt(i) /\ GenAt(i - 1)' = GenAt(i - 1)
          BY <2>7, <5>1
        <5>3. SemaAt(i) = TheJumps!SemaInside(SemaAt(i - 1), nest[i]) /\ GenAt(i) = TheJumps!GenInside(GenAt(i - 1), i, nest[i])
          BY <1>0, <4>1 DEF JumpInv, JumpChain
        <5> QED
          BY <5>1, <5>2, <5>3
      <4>2. CASE i = n + 1
        <5>1. SemaAt(n)' = sema /\ GenAt(n)' = gen
          BY <1>1, <2>7, <2>8
        <5>2. i - 1 = n
          BY <1>1, <4>2
        <5> QED
          BY <2>1, <2>2, <2>9, <4>2, <5>1, <5>2
      <4> QED
        BY <1>1, <2>2, <4>1, <4>2
    <3> QED
      BY <3>1 DEF JumpChain
  <2>11. JumpKnown'
    <3>1. ASSUME NEW i \in 0..Len(nest')
          PROVE  (SemaKnows(fn, nest, i, SemaAt(i)) /\ GenKnows(nest, i, GenAt(i)))'
      <4>0. \A j \in 0..n : SemaKnows(fn, nest', j, SemaAt(j)) /\ GenKnows(nest', j, GenAt(j))
        <5> TAKE j \in 0..n
        <5>1. SemaKnows(fn, nest, j, SemaAt(j)) /\ GenKnows(nest, j, GenAt(j))
          BY <1>0 DEF JumpInv, JumpKnown
        <5>2. j \in Nat /\ \A k \in 1..j : nest'[k] = nest[k]
          BY <1>1, <2>2
        <5> QED
          BY <5>1, <5>2, KnownOfPrefix
      <4>1. CASE i \in 0..n
        BY <2>1, <2>7, <4>0, <4>1
      <4>2. CASE i = n + 1
        <5>1. SemaKnows(fn, nest', n, sema) /\ GenKnows(nest', n, gen)
          BY <1>1, <2>8, <4>0
        <5>2. /\ SemaKnows(fn, nest', n + 1, TheJumps!SemaInside(sema, c))
              /\ GenKnows(nest', n + 1, TheJumps!GenInside(gen, n + 1, c))
          <6>1. nest' \in Seq(Made) /\ n \in Nat /\ n < Len(nest') /\ c \in Made /\ nest'[n + 1] = c
            BY <1>1, <2>1, <2>2
          <6>2. sema \in Contexts /\ gen \in Bodies /\ (c.kind = "spawn" => sema.scopeDepth > 0)
            BY <1>1, <2>1
          <6> QED
            BY <5>1, <6>1, <6>2, KnownFurtherIn
        <5> QED
          BY <2>1, <2>9, <4>2, <5>2
      <4> QED
        BY <1>1, <2>2, <4>1, <4>2
    <3> QED
      BY <3>1 DEF JumpKnown
  <2> QED
    BY <2>1, <2>6, <2>10, <2>11 DEF JumpInv, JumpJudged
<1>4. CASE TheJumps!Leave
  <2> DEFINE m == n - 1
  <2>1. /\ n > 0 /\ sema' = saved[n].sema /\ gen' = saved[n].gen
    BY <1>0, <1>4, BackOut
  <2>2. /\ nest' = SubSeq(nest, 1, m) /\ saved' = SubSeq(saved, 1, m)
        /\ fn' = fn /\ jump'.kind = "none" /\ jump'.verdict = "none"
    BY <1>1, <1>4 DEF TheJumps!Leave, TheJumps!Front
  <2>3. /\ m \in Nat /\ nest' \in Seq(Made) /\ Len(nest') = m
        /\ \A k \in 1..m : nest'[k] = nest[k]
    BY <1>1, <2>1, <2>2
  <2>4. /\ saved' \in Seq(Saved) /\ Len(saved') = m
        /\ \A k \in 1..m : saved'[k] = saved[k]
    BY <1>1, <2>1, <2>2
  <2>5. JumpTypes'
    <3>1. saved[n] \in Saved
      BY <1>1, <2>1
    <3>2. sema' \in Contexts /\ gen' \in Bodies
      BY <2>1, <3>1 DEF Saved
    <3> QED
      BY <1>1, <2>2, <2>3, <2>4, <3>2 DEF JumpTypes
  <2>6. \A i \in 0..m : SemaAt(i)' = SemaAt(i) /\ GenAt(i)' = GenAt(i)
    <3> TAKE i \in 0..m
    <3>1. CASE i = m
      BY <1>1, <2>1, <2>3, <3>1 DEF SemaAt, GenAt
    <3>2. CASE i # m
      <4>1. i + 1 \in 1..m /\ i # n
        BY <1>1, <2>3, <3>2
      <4> QED
        BY <1>1, <2>3, <2>4, <3>2, <4>1 DEF SemaAt, GenAt
    <3> QED
      BY <3>1, <3>2
  <2>7. JumpChain'
    <3>1. ASSUME NEW i \in 1..Len(nest')
          PROVE  (SemaAt(i) = TheJumps!SemaInside(SemaAt(i - 1), nest[i]) /\ GenAt(i) = TheJumps!GenInside(GenAt(i - 1), i, nest[i]))'
      <4>1. i \in 1..n /\ i \in 0..m /\ i - 1 \in 0..m /\ nest'[i] = nest[i]
        BY <1>1, <2>3
      <4>2. /\ SemaAt(i)' = SemaAt(i) /\ SemaAt(i - 1)' = SemaAt(i - 1)
            /\ GenAt(i)' = GenAt(i) /\ GenAt(i - 1)' = GenAt(i - 1)
        BY <2>6, <4>1
      <4>3. SemaAt(i) = TheJumps!SemaInside(SemaAt(i - 1), nest[i]) /\ GenAt(i) = TheJumps!GenInside(GenAt(i - 1), i, nest[i])
        BY <1>0, <4>1 DEF JumpInv, JumpChain
      <4> QED
        BY <4>1, <4>2, <4>3
    <3> QED
      BY <3>1 DEF JumpChain
  <2>8. JumpKnown'
    <3>1. ASSUME NEW i \in 0..Len(nest')
          PROVE  (SemaKnows(fn, nest, i, SemaAt(i)) /\ GenKnows(nest, i, GenAt(i)))'
      <4>1. i \in 0..n /\ i \in 0..m /\ i \in Nat /\ \A k \in 1..i : nest'[k] = nest[k]
        BY <1>1, <2>3
      <4>2. SemaKnows(fn, nest, i, SemaAt(i)) /\ GenKnows(nest, i, GenAt(i))
        BY <1>0, <4>1 DEF JumpInv, JumpKnown
      <4>3. SemaKnows(fn, nest', i, SemaAt(i)) /\ GenKnows(nest', i, GenAt(i))
        BY <4>1, <4>2, KnownOfPrefix
      <4> QED
        BY <2>2, <2>6, <4>1, <4>3
    <3> QED
      BY <3>1 DEF JumpKnown
  <2> QED
    BY <2>2, <2>5, <2>7, <2>8 DEF JumpInv, JumpJudged
<1>5. ASSUME NEW j \in TheJumps!JumpKinds, TheJumps!Jump(j)
      PROVE  JumpInv'
  <2>1. UNCHANGED <<fn, nest, sema, gen, saved>>
    BY <1>5 DEF TheJumps!Jump
  <2>2. /\ jump' = [kind |-> j, verdict |-> Verdict(j),
                    lands |-> IF Verdict(j) = "lands" THEN TheJumps!GoLands(j) ELSE 0]
    BY <1>5 DEF TheJumps!Jump, Verdict
  <2>3. j # "none"
    BY DEF TheJumps!JumpKinds
  <2>4. JumpJudged'
    BY <2>1, <2>2, <2>3, SameWalkSameVerdict DEF JumpJudged
  <2> QED
    BY <2>1, <2>4, SameWalkSameVerdict DEF JumpInv
<1>6. CASE UNCHANGED TheJumps!vars
  <2>1. UNCHANGED <<fn, nest, sema, gen, saved, jump>>
    BY <1>6 DEF TheJumps!vars
  <2>2. JumpJudged'
    BY <2>1, SameWalkSameVerdict DEF JumpInv, JumpJudged
  <2> QED
    BY <2>1, <2>2, SameWalkSameVerdict DEF JumpInv
<1> QED
  BY <1>3, <1>4, <1>5, <1>6 DEF TheJumps!Next

\* What Innermost returns: the nearest of the kinds, or 0.
LEMMA InnermostIsNearest ==
  ASSUME nest \in Seq(Made), NEW kinds
  PROVE  /\ TheJumps!Innermost(kinds) \in 0..Len(nest)
         /\ Nearest(nest, Len(nest), kinds, TheJumps!Innermost(kinds))
<1> DEFINE n == Len(nest)
           those == {i \in DOMAIN nest : nest[i].kind \in kinds}
<1>1. n \in Nat /\ DOMAIN nest = 1..n
  OBVIOUS
<1>2. \E i \in {0} \cup those : \A j \in {0} \cup those : i >= j
  <2>1. CASE those = {}
    BY <2>1
  <2>2. CASE those # {}
    <3>1. those \in SUBSET (1..n)
      BY <1>1
    <3>2. PICK i \in those : \A j \in those : j =< i
      <4> HIDE DEF n, those
      <4> QED
        BY <1>1, <2>2, <3>1, HasMaximum
    <3>3. i \in Nat /\ i >= 0 /\ \A j \in those : j \in Nat /\ i >= j
      BY <1>1, <3>1, <3>2
    <3> QED
      BY <3>3
  <2> QED
    BY <2>1, <2>2
<1>3. /\ TheJumps!Innermost(kinds) \in {0} \cup those
      /\ \A j \in {0} \cup those : TheJumps!Innermost(kinds) >= j
  BY <1>2 DEF TheJumps!Innermost, TheJumps!Max
<1> QED
  BY <1>1, <1>3 DEF Nearest

\* Of more kinds there is one no further out, and it is the same if it is of
\* the fewer.
LEMMA NearestOfMore ==
  ASSUME NEW cs, NEW i \in Nat, NEW few, NEW more, few \subseteq more,
         NEW k \in 0..i, NEW m \in 0..i, Nearest(cs, i, few, k), Nearest(cs, i, more, m)
  PROVE  /\ k =< m
         /\ (m = 0 \/ cs[m].kind \in few) => m = k
  BY DEF Nearest

\* The larger of two numbers, by Max.
LEMMA LargerOfTwo ==
  ASSUME NEW k \in Nat, NEW m \in Nat
  PROVE  TheJumps!Max({k, m}) >= k /\ TheJumps!Max({k, m}) >= m /\ TheJumps!Max({k, m}) \in {k, m}
<1>1. \E i \in {k, m} : \A j \in {k, m} : i >= j
  <2>1. k >= m \/ m >= k
    OBVIOUS
  <2> QED
    BY <2>1
<1> QED
  BY <1>1 DEF TheJumps!Max

\* A jump that builds lands at the construct it is meant for, or at one of the
\* three kinds that Go's break and the emitted closures catch instead.
LEMMA JumpsLandWhereMeant ==
  ASSUME JumpInv
  PROVE  TheJumps!JumpsLand
<1> DEFINE In(kinds) == TheJumps!Innermost(kinds)
<1> SUFFICES ASSUME jump.verdict = "lands", jump.lands # TheJumps!Meant(jump.kind)
             PROVE  /\ jump.lands > TheJumps!Meant(jump.kind)
                    /\ nest[jump.lands].kind \in
                         CASE jump.kind = "break"    -> {"match", "select", "value-match"}
                           [] jump.kind = "continue" -> {}
                           [] OTHER                  -> {"scope", "value-block", "value-match"}
  BY DEF TheJumps!JumpsLand
<1>0. PICK n \in Nat : n = Len(nest)
  BY DEF JumpInv, JumpTypes
<1>1. nest \in Seq(Made)
  BY DEF JumpInv, JumpTypes
<1>2. /\ jump.kind \in TheJumps!JumpKinds
      /\ TheJumps!GoBuilds(jump.kind)
      /\ jump.lands = TheJumps!GoLands(jump.kind)
  BY DEF JumpInv, JumpJudged, Verdict, TheJumps!SemaVerdict
<1>3. \A kinds : In(kinds) \in 0..n /\ Nearest(nest, n, kinds, In(kinds))
  BY <1>0, <1>1, InnermostIsNearest
<1>4. ASSUME NEW few, NEW more, few \subseteq more
      PROVE  In(few) =< In(more) /\ (nest[In(more)].kind \in few => In(more) = In(few))
  BY <1>3, <1>4, NearestOfMore
<1>5. TheJumps!Body = In({"closure", "spawn"}) /\ TheJumps!Body =< In(TheJumps!GoFuncs)
  BY <1>4 DEF TheJumps!Body, TheJumps!GoFuncs
<1>6. CASE jump.kind = "break"
  <2>1. In(TheJumps!GoBreaks) >= 1 /\ In(TheJumps!GoBreaks) >= In(TheJumps!GoFuncs)
    <3>1. In(TheJumps!GoBreaks) >= TheJumps!Max({1, In(TheJumps!GoFuncs)})
      BY <1>2, <1>6 DEF TheJumps!GoBuilds
    <3>2. TheJumps!Max({1, In(TheJumps!GoFuncs)}) >= 1
          /\ TheJumps!Max({1, In(TheJumps!GoFuncs)}) >= In(TheJumps!GoFuncs)
          /\ TheJumps!Max({1, In(TheJumps!GoFuncs)}) \in {1, In(TheJumps!GoFuncs)}
      BY <1>3, LargerOfTwo
    <3> QED
      BY <1>3, <3>1, <3>2
  <2>2. jump.lands = In(TheJumps!GoBreaks)
    BY <1>2, <1>6 DEF TheJumps!GoLands
  <2>3. TheJumps!Meant("break") = IF In({"loop"}) > TheJumps!Body THEN In({"loop"}) ELSE 0
    BY DEF TheJumps!Meant
  <2>4. /\ In({"loop"}) =< In(TheJumps!GoBreaks)
        /\ nest[In(TheJumps!GoBreaks)].kind = "loop" => In(TheJumps!GoBreaks) = In({"loop"})
    BY <1>4 DEF TheJumps!GoBreaks
  <2>5. nest[In(TheJumps!GoBreaks)].kind \in {"loop", "match", "select", "value-match"}
    BY <1>3, <2>1 DEF Nearest, TheJumps!GoBreaks
  <2>6. nest[In(TheJumps!GoBreaks)].kind # "loop"
    <3>1. SUFFICES ASSUME nest[In(TheJumps!GoBreaks)].kind = "loop"
                   PROVE  FALSE
      OBVIOUS
    <3>2. In({"loop"}) >= TheJumps!Body /\ In({"loop"}) > 0 /\ nest[In({"loop"})].kind = "loop"
      BY <1>3, <1>5, <2>1, <2>4, <3>1
    <3>3. In({"loop"}) # TheJumps!Body
      BY <1>3, <1>5, <3>2 DEF Nearest
    <3> QED
      BY <1>3, <1>5, <1>6, <2>2, <2>3, <2>4, <3>1, <3>2, <3>3
  <2> QED
    BY <1>3, <1>6, <2>1, <2>2, <2>3, <2>4, <2>5, <2>6
<1>7. CASE jump.kind = "continue"
  <2>1. In({"loop"}) > In(TheJumps!GoFuncs) /\ jump.lands = In({"loop"})
    BY <1>2, <1>7 DEF TheJumps!GoBuilds, TheJumps!GoLands
  <2>2. In({"loop"}) > TheJumps!Body
    BY <1>3, <1>5, <2>1
  <2> QED
    BY <1>7, <2>1, <2>2 DEF TheJumps!Meant
<1>8. CASE jump.kind \notin {"break", "continue"}
  <2>1. jump.lands = In(TheJumps!GoFuncs) /\ TheJumps!Meant(jump.kind) = TheJumps!Body
    BY <1>2, <1>8 DEF TheJumps!GoLands, TheJumps!Meant
  <2>2. jump.lands > TheJumps!Body
    BY <1>3, <1>5, <2>1
  <2>3. nest[jump.lands].kind \in TheJumps!GoFuncs
    BY <1>3, <1>5, <2>1, <2>2 DEF Nearest
  <2>4. nest[jump.lands].kind \notin {"closure", "spawn"}
    <3>1. {"closure", "spawn"} \subseteq TheJumps!GoFuncs
      BY DEF TheJumps!GoFuncs
    <3> QED
      BY <1>3, <1>4, <1>5, <2>1, <2>2, <3>1
  <2> QED
    BY <1>8, <2>1, <2>2, <2>3, <2>4 DEF TheJumps!GoFuncs
<1> QED
  BY <1>6, <1>7, <1>8

\* A spawn that is accepted joins the group of the scope around it.
LEMMA SpawnsJoinNearest ==
  ASSUME JumpInv
  PROVE  TheJumps!SpawnsJoin
<1> SUFFICES ASSUME nest # <<>>, TheJumps!Last(nest).kind = "spawn"
             PROVE  LET scope == TheJumps!Innermost({"scope"}) IN
                    /\ scope > 0 /\ gen.groupVars # <<>> /\ TheJumps!Last(gen.groupVars) = scope
                    /\ "closure" \notin TheJumps!Around(scope)
  BY DEF TheJumps!SpawnsJoin
<1>0. PICK n \in Nat : n = Len(nest)
  BY DEF JumpInv, JumpTypes
<1>1. nest \in Seq(Made) /\ n > 0 /\ nest[n].kind = "spawn"
  BY <1>0 DEF JumpInv, JumpTypes, TheJumps!Last
<1>2. SemaKnows(fn, nest, n, sema) /\ GenKnows(nest, n, gen)
  BY <1>0 DEF JumpInv, JumpKnown, SemaAt, GenAt
<1>3. PICK k \in 1..n : /\ Nearest(nest, n, {"scope"}, k)
                        /\ \A m \in (k + 1)..n : nest[m].kind # "closure"
  BY <1>1, <1>2 DEF SemaKnows
<1>4. /\ TheJumps!Innermost({"scope"}) \in 0..n
      /\ Nearest(nest, n, {"scope"}, TheJumps!Innermost({"scope"}))
  BY <1>0, <1>1, InnermostIsNearest
<1>5. TheJumps!Innermost({"scope"}) = k
  BY <1>3, <1>4 DEF Nearest
<1>6. gen.groupVars # <<>> /\ TheJumps!Last(gen.groupVars) = k
  BY <1>2, <1>3 DEF GenKnows
<1>7. "closure" \notin TheJumps!Around(k)
  BY <1>0, <1>3 DEF TheJumps!Around
<1> QED
  BY <1>3, <1>5, <1>6, <1>7

\* A jump with nothing in its way: what the walkers know lets it through, and
\* Go takes it to its target.
LEMMA CleanJumpsGetThrough ==
  ASSUME JumpInv
  PROVE  TheJumps!CleanJumpsWork
<1> DEFINE In(kinds) == TheJumps!Innermost(kinds)
           j == jump.kind
           target == TheJumps!Meant(j)
           type == IF target = 0 THEN fn ELSE nest[target].type
           works ==
             CASE j = "break"    -> target > 0 /\ TheJumps!Around(target) = {}
               [] j = "continue" ->
                    target > 0 /\ TheJumps!Around(target) \subseteq {"match", "select"}
               [] OTHER ->
                    /\ TheJumps!Around(target) \subseteq {"loop", "match", "select"}
                    /\ IF target > 0 /\ nest[target].kind = "spawn" THEN j = "return-Ok"
                       ELSE IF j \in {"return-Ok", "try"} THEN type = "result" /\ fn = "result"
                       ELSE TheJumps!TypeOfReturned(j) = type
<1>0. PICK n \in Nat : n = Len(nest)
  BY DEF JumpInv, JumpTypes
<1>1. /\ nest \in Seq(Made) /\ fn \in TheJumps!Types
      /\ SemaKnows(fn, nest, n, sema) /\ GenKnows(nest, n, gen)
      /\ sema \in Contexts /\ gen \in Bodies
  BY <1>0 DEF JumpInv, JumpTypes, JumpKnown, SemaAt, GenAt
<1>2. \A kinds : In(kinds) \in 0..n /\ Nearest(nest, n, kinds, In(kinds))
  BY <1>0, <1>1, InnermostIsNearest
<1>3. TheJumps!Body = In({"closure", "spawn"})
  BY DEF TheJumps!Body
<1>4. ASSUME j # "none", TheJumps!SemaVerdict(j) = "accepted", ~TheJumps!GenRefuses(j),
             TheJumps!GoBuilds(j), TheJumps!GoLands(j) = target
      PROVE  jump.verdict = "lands" /\ jump.lands = target
  BY <1>4 DEF JumpInv, JumpJudged, Verdict
<1>5. ASSUME NEW k \in 0..n, NEW i \in (k + 1)..n
      PROVE  nest[i].kind \in TheJumps!Around(k)
  BY <1>0, <1>5 DEF TheJumps!Around
<1>6. ASSUME j = "break", works
      PROVE  jump.verdict = "lands" /\ jump.lands = target
  <2>1. target > 0 /\ target = In({"loop"}) /\ TheJumps!Around(target) = {}
    BY <1>6 DEF TheJumps!Meant
  <2>2. target = n /\ nest[n].kind = "loop"
    BY <1>2, <1>5, <2>1 DEF Nearest
  <2>3. In(TheJumps!GoBreaks) = n
    <3>1. "loop" \in TheJumps!GoBreaks
      BY DEF TheJumps!GoBreaks
    <3>2. In(TheJumps!GoBreaks) \in 0..n /\ Nearest(nest, n, TheJumps!GoBreaks, In(TheJumps!GoBreaks))
      BY <1>2
    <3> QED
      BY <2>1, <2>2, <3>1, <3>2 DEF Nearest
  <2>4. TheJumps!GoBuilds(j)
    <3>1. In(TheJumps!GoFuncs) \in 0..n
      BY <1>2
    <3>2. TheJumps!Max({1, In(TheJumps!GoFuncs)}) \in {1, In(TheJumps!GoFuncs)}
      BY <3>1, LargerOfTwo
    <3> QED
      BY <1>6, <2>1, <2>2, <2>3, <3>1, <3>2 DEF TheJumps!GoBuilds
  <2>5. TheJumps!SemaVerdict(j) = "accepted"
    <3>1. sema.loopDepth # 0
      BY <1>1, <2>1, <2>2 DEF SemaKnows
    <3> QED
      BY <1>6, <3>1 DEF TheJumps!SemaVerdict, TheJumps!IsReturn
  <2>6. ~TheJumps!GenRefuses(j) /\ TheJumps!GoLands(j) = target
    BY <1>6, <2>2, <2>3 DEF TheJumps!GenRefuses, TheJumps!GoLands
  <2> QED
    BY <1>4, <1>6, <2>4, <2>5, <2>6
<1>7. ASSUME j = "continue", works
      PROVE  jump.verdict = "lands" /\ jump.lands = target
  <2>1. /\ target > 0 /\ target = In({"loop"})
        /\ TheJumps!Around(target) \subseteq {"match", "select"}
    BY <1>7 DEF TheJumps!Meant
  <2>2. target \in 1..n /\ nest[target].kind = "loop"
    BY <1>2, <2>1 DEF Nearest
  <2>3. In(TheJumps!GoFuncs) < target
    <3>1. In(TheJumps!GoFuncs) \in 0..n
          /\ (In(TheJumps!GoFuncs) > 0 => nest[In(TheJumps!GoFuncs)].kind \in TheJumps!GoFuncs)
      BY <1>2 DEF Nearest
    <3>2. CASE In(TheJumps!GoFuncs) > target
      <4>1. nest[In(TheJumps!GoFuncs)].kind \in {"match", "select"}
        BY <1>5, <2>1, <2>2, <3>1, <3>2
      <4> QED
        BY <2>2, <3>1, <3>2, <4>1 DEF TheJumps!GoFuncs
    <3>3. CASE In(TheJumps!GoFuncs) = target
      BY <2>2, <3>1, <3>3 DEF TheJumps!GoFuncs
    <3> QED
      BY <2>2, <3>1, <3>2, <3>3
  <2>4. TheJumps!GoBuilds(j)
    BY <1>7, <2>1, <2>3 DEF TheJumps!GoBuilds
  <2>5. TheJumps!SemaVerdict(j) = "accepted"
    <3>1. sema.loopDepth # 0
      BY <1>1, <2>2 DEF SemaKnows
    <3> QED
      BY <1>7, <3>1 DEF TheJumps!SemaVerdict, TheJumps!IsReturn
  <2>6. ~TheJumps!GenRefuses(j) /\ TheJumps!GoLands(j) = target
    BY <1>7, <2>1 DEF TheJumps!GenRefuses, TheJumps!GoLands
  <2> QED
    BY <1>4, <1>7, <2>4, <2>5, <2>6
<1>8. ASSUME j \in {"return", "return-int", "return-result", "return-Ok", "try"}, works
      PROVE  jump.verdict = "lands" /\ jump.lands = target
  <2>1. /\ target = In({"closure", "spawn"}) /\ target \in 0..n
        /\ TheJumps!Around(target) \subseteq {"loop", "match", "select"}
        /\ target > 0 => nest[target].kind \in {"closure", "spawn"}
    BY <1>2, <1>3, <1>8 DEF TheJumps!Meant, Nearest
  <2>2. \A i \in (target + 1)..n : nest[i].kind \in {"loop", "match", "select"}
    BY <1>5, <2>1
  <2>3. In(TheJumps!GoFuncs) = target
    <3>1. In(TheJumps!GoFuncs) \in 0..n
          /\ Nearest(nest, n, TheJumps!GoFuncs, In(TheJumps!GoFuncs))
      BY <1>2
    <3>2. target > 0 => nest[target].kind \in TheJumps!GoFuncs
      BY <2>1 DEF TheJumps!GoFuncs
    <3>3. \A i \in (target + 1)..n : nest[i].kind \notin TheJumps!GoFuncs
      BY <2>2 DEF TheJumps!GoFuncs
    <3> QED
      BY <2>1, <3>1, <3>2, <3>3 DEF Nearest
  <2>4. TheJumps!GoLands(j) = target
    BY <1>8, <2>3 DEF TheJumps!GoLands
  <2>5. gen.inSpawnBody <=> (target > 0 /\ nest[target].kind = "spawn")
    <3>1. Nearest(nest, n, {"closure", "spawn", "scope"}, target)
      BY <2>1, <2>2 DEF Nearest
    <3> QED
      BY <1>1, <2>1, <3>1 DEF GenKnows
  <2>6. CASE target > 0 /\ nest[target].kind = "spawn"
    <3>1. j = "return-Ok"
      BY <1>8, <2>6
    <3>2. TheJumps!SemaVerdict(j) = "accepted" /\ ~TheJumps!GenRefuses(j)
      BY <3>1 DEF TheJumps!SemaVerdict, TheJumps!GenRefuses, TheJumps!TypeOfReturned, TheJumps!IsReturn
    <3>3. TheJumps!GoReturnedAt(j) = "error" /\ TheJumps!GoResult(target) = "error"
      BY <2>5, <2>6, <3>1 DEF TheJumps!GoReturnedAt, TheJumps!GoResult, TheJumps!IsReturn
    <3>4. TheJumps!GoBuilds(j)
      BY <2>3, <3>1, <3>3 DEF TheJumps!GoBuilds
    <3> QED
      BY <1>4, <2>4, <3>1, <3>2, <3>4
  <2>7. CASE ~(target > 0 /\ nest[target].kind = "spawn")
    <3>1. Nearest(nest, n, {"closure"}, target)
      BY <2>1, <2>2, <2>7 DEF Nearest
    <3>2. IF target = 0
          THEN sema.curReturn = fn /\ (sema.tryForbidden <=> fn # "result")
          ELSE /\ sema.curReturn = (IF nest[target].annotated THEN nest[target].type ELSE "unknown")
               /\ sema.tryForbidden <=> (nest[target].annotated /\ nest[target].type # "result")
      BY <1>1, <2>1, <3>1 DEF SemaKnows
    <3>3. /\ sema.curReturn \in {type, "unknown"}
          /\ type = "result" => ~sema.tryForbidden
      BY <2>1, <3>2
    <3>4. TheJumps!GoResult(target) = type /\ TheJumps!GoReturnedAt(j) = TheJumps!GoReturned(j)
      <4>1. TheJumps!GoReturnedAt(j) = TheJumps!GoReturned(j)
        BY <2>5, <2>7 DEF TheJumps!GoReturnedAt
      <4>2. TheJumps!GoResult(target) = type
        <5> HIDE DEF target
        <5>1. target = 0 \/ target > 0
          BY <2>1
        <5> QED
          BY <2>7, <5>1 DEF TheJumps!GoResult
      <4> QED
        BY <4>1, <4>2
    <3>5. CASE j \in {"return-Ok", "try"}
      <4>1. type = "result" /\ fn = "result"
        BY <1>8, <2>7, <3>5
      <4>2. TheJumps!SemaVerdict(j) = "accepted" /\ ~TheJumps!GenRefuses(j)
        BY <3>3, <3>5, <4>1
           DEF TheJumps!SemaVerdict, TheJumps!GenRefuses, TheJumps!TypeOfReturned, TheJumps!IsReturn
      <4>3. TheJumps!GoReturned(j) = "result"
        BY <3>5, <4>1 DEF TheJumps!GoReturned
      <4>4. TheJumps!GoBuilds(j)
        BY <2>3, <3>4, <3>5, <4>1, <4>3 DEF TheJumps!GoBuilds
      <4> QED
        BY <1>4, <2>4, <3>5, <4>2, <4>4
    <3>6. CASE j \in {"return", "return-int", "return-result"}
      <4>1. TheJumps!TypeOfReturned(j) = type
        BY <1>8, <2>7, <3>6
      <4>2. TheJumps!SemaVerdict(j) = "accepted" /\ ~TheJumps!GenRefuses(j)
        BY <3>3, <3>6, <4>1 DEF TheJumps!SemaVerdict, TheJumps!GenRefuses, TheJumps!IsReturn
      <4>3. TheJumps!GoReturned(j) = TheJumps!TypeOfReturned(j)
        <5>1. CASE j = "return"
          <6>1. TheJumps!GoReturned(j) = "unit"
            BY <5>1 DEF TheJumps!GoReturned
          <6>2. TheJumps!TypeOfReturned(j) = "unit"
            BY <5>1 DEF TheJumps!TypeOfReturned
          <6> QED
            BY <6>1, <6>2
        <5>2. CASE j = "return-int"
          <6>1. TheJumps!GoReturned(j) = "int"
            BY <5>2 DEF TheJumps!GoReturned
          <6>2. TheJumps!TypeOfReturned(j) = "int"
            BY <5>2 DEF TheJumps!TypeOfReturned
          <6> QED
            BY <6>1, <6>2
        <5>3. CASE j = "return-result"
          <6>1. TheJumps!GoReturned(j) = "result"
            BY <5>3 DEF TheJumps!GoReturned
          <6>2. TheJumps!TypeOfReturned(j) = "result"
            BY <5>3 DEF TheJumps!TypeOfReturned
          <6> QED
            BY <6>1, <6>2
        <5> QED
          BY <3>6, <5>1, <5>2, <5>3
      <4>4. TheJumps!GoBuilds(j)
        BY <2>3, <3>4, <3>6, <4>1, <4>3 DEF TheJumps!GoBuilds
      <4> QED
        BY <1>4, <2>4, <3>6, <4>2, <4>4
    <3> QED
      BY <1>8, <3>5, <3>6
  <2> QED
    BY <2>6, <2>7
<1>9. j # "none" /\ works => jump.verdict = "lands" /\ jump.lands = target
  <2>1. j # "none" => j \in TheJumps!JumpKinds
    BY DEF JumpInv, JumpJudged
  <2> QED
    BY <1>6, <1>7, <1>8, <2>1 DEF TheJumps!JumpKinds
<1>10. jump.verdict = "E0404" => In({"loop"}) = 0
  <2> SUFFICES ASSUME jump.verdict = "E0404" PROVE In({"loop"}) = 0
    OBVIOUS
  <2>1. sema.loopDepth = 0
    BY DEF JumpInv, JumpJudged, Verdict, TheJumps!SemaVerdict
  <2> QED
    BY <1>1, <1>2, <2>1 DEF SemaKnows, Nearest
<1> QED
  BY <1>9, <1>10 DEF TheJumps!CleanJumpsWork

\* However deep constructs are nested: a jump that the checker and codegen let
\* through and that Go builds lands where it is meant to, but for the three kinds
\* that catch it; a spawn joins its own scope; and a jump with nothing in its way
\* is let through, builds and lands.
THEOREM JumpsAlwaysWork ==
  TheJumps!Spec => []TheJumps!JumpsWork
<1>1. JumpInv => TheJumps!JumpsWork
  BY JumpsLandWhereMeant, SpawnsJoinNearest, CleanJumpsGetThrough DEF TheJumps!JumpsWork
<1> QED
  BY <1>1, JumpInvInit, JumpInvNext, PTL DEF TheJumps!Spec

-----------------------------------------------------------------------------
(* Names: the checker's scopes and Go's blocks, which are not of one length.  The *)
(* invariant says where on the other chain each declaration of a chain is.   *)

\* Chains of frames, by what they hold: frame i of s has d under n.
IsChain(s) == \E F : s \in Seq(F)
Has(s, i, n, d) == i \in DOMAIN s /\ n \in DOMAIN s[i] /\ s[i][n] = d

\* A chain is indexed from 1 to its length.
LEMMA ChainBounds ==
  ASSUME NEW s, IsChain(s)
  PROVE  Len(s) \in Nat /\ DOMAIN s = 1..Len(s)
  BY DEF IsChain

\* Binding a name in the last frame.
LEMMA HasBindLast ==
  ASSUME NEW s, IsChain(s), Len(s) >= 1, NEW n, NEW d
  PROVE  LET t == TheNames!BindLast(s, n, d) IN
         /\ IsChain(t) /\ Len(t) = Len(s)
         /\ \A i, m, e : Has(t, i, m, e) <=>
              \/ i = Len(s) /\ m = n /\ e = d
              \/ ~(i = Len(s) /\ m = n) /\ Has(s, i, m, e)
<1> PICK t : t = TheNames!BindLast(s, n, d)
  OBVIOUS
<1> PICK F : s \in Seq(F)
  BY DEF IsChain
<1> PICK k \in Nat : k = Len(s) /\ DOMAIN s = 1..k /\ k \in 1..k
  BY ChainBounds
<1> PICK f : f = TheNames!Bind(s[k], n, d)
  OBVIOUS
<1>1. t = [s EXCEPT ![k] = f]
  BY DEF TheNames!BindLast
<1>2. t \in Seq(F \cup {f})
  BY <1>1
<1>3. Len(t) = k /\ DOMAIN t = 1..k /\ t[k] = f /\ \A i \in 1..k : i # k => t[i] = s[i]
  BY <1>1
<1>4. DOMAIN f = DOMAIN s[k] \cup {n} /\ f[n] = d /\ \A m \in DOMAIN s[k] : m # n => f[m] = s[k][m]
  BY DEF TheNames!Bind
<1>5. ASSUME NEW i, NEW m, NEW e
      PROVE  Has(t, i, m, e) <=>
              \/ i = k /\ m = n /\ e = d
              \/ ~(i = k /\ m = n) /\ Has(s, i, m, e)
  BY <1>3, <1>4 DEF Has
<1> QED
  BY <1>2, <1>3, <1>5 DEF IsChain

\* One more frame.
LEMMA HasAppend ==
  ASSUME NEW s, IsChain(s), NEW f
  PROVE  LET t == Append(s, f) IN
         /\ IsChain(t) /\ Len(t) = Len(s) + 1
         /\ \A i, m, e : Has(t, i, m, e) <=>
              Has(s, i, m, e) \/ (i = Len(s) + 1 /\ m \in DOMAIN f /\ e = f[m])
<1> PICK t : t = Append(s, f)
  OBVIOUS
<1> PICK F : s \in Seq(F)
  BY DEF IsChain
<1> PICK k \in Nat : k = Len(s) /\ DOMAIN s = 1..k
  BY ChainBounds
<1>1. s \in Seq(F \cup {f}) /\ f \in F \cup {f}
  OBVIOUS
<1>2. t \in Seq(F \cup {f}) /\ Len(t) = k + 1
  BY <1>1
<1>3. DOMAIN t = 1..(k + 1) /\ t[k + 1] = f /\ \A i \in 1..k : t[i] = s[i]
  BY <1>1
<1>4. \A i : i \in 1..(k + 1) <=> i \in 1..k \/ i = k + 1
  OBVIOUS
<1>5. k + 1 \notin 1..k
  OBVIOUS
<1>6. ASSUME NEW i, NEW m, NEW e
      PROVE  Has(t, i, m, e) <=> Has(s, i, m, e) \/ (i = k + 1 /\ m \in DOMAIN f /\ e = f[m])
  <2>1. CASE i \in 1..k
    <3>1. t[i] = s[i] /\ i \in DOMAIN t /\ i \in DOMAIN s
      BY <2>1, <1>3, <1>4
    <3>2. i # k + 1
      BY <2>1, <1>5
    <3>3. Has(t, i, m, e) <=> Has(s, i, m, e)
      BY <3>1 DEF Has
    <3> QED
      BY <3>2, <3>3
  <2>2. CASE i = k + 1
    <3>1. t[i] = f /\ i \in DOMAIN t /\ i \notin DOMAIN s
      BY <2>2, <1>3, <1>4, <1>5
    <3> QED
      BY <2>2, <3>1 DEF Has
  <2>3. CASE i \notin 1..k /\ i # k + 1
    <3>1. i \notin DOMAIN t /\ i \notin DOMAIN s
      BY <2>3, <1>3, <1>4
    <3> QED
      BY <2>3, <3>1 DEF Has
  <2> QED
    BY <2>1, <2>2, <2>3
<1> QED
  BY <1>2, <1>6 DEF IsChain

\* What the empty frame holds, and a frame with one name.
LEMMA FramesOfOne ==
  ASSUME NEW n, NEW d
  PROVE  /\ DOMAIN TheNames!Empty = {}
         /\ DOMAIN TheNames!Bind(TheNames!Empty, n, d) = {n}
         /\ TheNames!Bind(TheNames!Empty, n, d)[n] = d
  BY DEF TheNames!Empty, TheNames!Bind

\* One more frame, with one declaration or none.
LEMMA HasOne ==
  ASSUME NEW s, IsChain(s), NEW n, NEW d
  PROVE  LET t == Append(s, TheNames!Bind(TheNames!Empty, n, d)) IN
         /\ IsChain(t) /\ Len(t) = Len(s) + 1
         /\ \A i, m, e : Has(t, i, m, e) <=>
              Has(s, i, m, e) \/ (i = Len(s) + 1 /\ m = n /\ e = d)
<1> PICK f : f = TheNames!Bind(TheNames!Empty, n, d)
  OBVIOUS
<1>1. DOMAIN f = {n} /\ f[n] = d
  BY FramesOfOne
<1>2. LET t == Append(s, f) IN
         /\ IsChain(t) /\ Len(t) = Len(s) + 1
         /\ \A i, m, e : Has(t, i, m, e) <=>
              Has(s, i, m, e) \/ (i = Len(s) + 1 /\ m \in DOMAIN f /\ e = f[m])
  BY HasAppend
<1> QED
  BY <1>1, <1>2

\* One more frame, with nothing in it.
LEMMA HasNone ==
  ASSUME NEW s, IsChain(s)
  PROVE  LET t == Append(s, TheNames!Empty) IN
         /\ IsChain(t) /\ Len(t) = Len(s) + 1
         /\ \A i, m, e : Has(t, i, m, e) <=> Has(s, i, m, e)
<1> PICK f : f = TheNames!Empty
  OBVIOUS
<1> PICK t : t = Append(s, f)
  OBVIOUS
<1>1. \A m : m \notin DOMAIN f
  BY FramesOfOne
<1>2. /\ IsChain(t) /\ Len(t) = Len(s) + 1
      /\ \A i, m, e : Has(t, i, m, e) <=>
           Has(s, i, m, e) \/ (i = Len(s) + 1 /\ m \in DOMAIN f /\ e = f[m])
  BY HasAppend
<1>3. ASSUME NEW i, NEW m, NEW e PROVE Has(t, i, m, e) <=> Has(s, i, m, e)
  BY <1>1, <1>2, Zenon
<1>4. t = Append(s, TheNames!Empty)
  OBVIOUS
<1> QED
  BY <1>2, <1>3, <1>4

\* A few more frames, all empty.
LEMMA HasEmptyFrames ==
  ASSUME NEW s, IsChain(s), NEW k \in {0, 1, 2}
  PROVE  LET t == s \o TheNames!EmptyFrames(k) IN
         /\ IsChain(t) /\ Len(t) = Len(s) + k
         /\ \A i, m, e : Has(t, i, m, e) <=> Has(s, i, m, e)
<1> PICK t : t = s \o TheNames!EmptyFrames(k)
  OBVIOUS
<1> PICK F : s \in Seq(F)
  BY DEF IsChain
<1> PICK l \in Nat : l = Len(s) /\ DOMAIN s = 1..l
  BY ChainBounds
<1> PICK f : f = TheNames!Empty
  OBVIOUS
<1>1. TheNames!EmptyFrames(k) \in Seq({f}) /\ Len(TheNames!EmptyFrames(k)) = k
  BY DEF TheNames!EmptyFrames
<1>2. \A i \in 1..k : TheNames!EmptyFrames(k)[i] = f
  BY DEF TheNames!EmptyFrames
<1>3. s \in Seq(F \cup {f}) /\ TheNames!EmptyFrames(k) \in Seq(F \cup {f})
  BY <1>1
<1>4. t \in Seq(F \cup {f}) /\ Len(t) = l + k /\ DOMAIN t = 1..(l + k)
  BY <1>1, <1>3
<1>5. \A i \in 1..l : t[i] = s[i]
  BY <1>1, <1>3
<1>6. \A i \in 1..(l + k) : i \notin 1..l => t[i] = f
  BY <1>1, <1>2, <1>3
<1>7. DOMAIN f = {}
  BY FramesOfOne
<1>8. \A i : i \in 1..l => i \in 1..(l + k)
  OBVIOUS
<1>9. ASSUME NEW i, NEW m, NEW e PROVE Has(t, i, m, e) <=> Has(s, i, m, e)
  BY <1>4, <1>5, <1>6, <1>7, <1>8 DEF Has
<1> QED
  BY <1>4, <1>9 DEF IsChain

\* The first frames.
LEMMA HasFirst ==
  ASSUME NEW s, IsChain(s), NEW k \in Nat, k =< Len(s)
  PROVE  LET t == SubSeq(s, 1, k) IN
         /\ IsChain(t) /\ Len(t) = k
         /\ \A i, m, e : Has(t, i, m, e) <=> Has(s, i, m, e) /\ i =< k
<1> PICK t : t = SubSeq(s, 1, k)
  OBVIOUS
<1> PICK F : s \in Seq(F)
  BY DEF IsChain
<1> PICK l \in Nat : l = Len(s) /\ DOMAIN s = 1..l
  BY ChainBounds
<1>1. t \in Seq(F) /\ Len(t) = k /\ DOMAIN t = 1..k /\ \A i \in 1..k : t[i] = s[i]
  OBVIOUS
<1>2. \A i : i \in 1..k <=> i \in 1..l /\ i =< k
  OBVIOUS
<1>3. ASSUME NEW i, NEW m, NEW e
      PROVE  Has(t, i, m, e) <=> Has(s, i, m, e) /\ i =< k
  BY <1>1, <1>2 DEF Has
<1> QED
  BY <1>1, <1>3 DEF IsChain

\* Where a name is found: in the last frame that has it.
LEMMA LookupFinds ==
  ASSUME NEW s, IsChain(s), NEW n
  PROVE  \/ /\ TheNames!Lookup(s, n) = TheNames!Nothing
            /\ \A i, d : ~Has(s, i, n, d)
         \/ \E i \in DOMAIN s : /\ Has(s, i, n, TheNames!Lookup(s, n))
                                /\ \A j, d : Has(s, j, n, d) => j =< i
<1> PICK l \in Nat : l = Len(s) /\ DOMAIN s = 1..l
  BY ChainBounds
<1> DEFINE having == {i \in DOMAIN s : n \in DOMAIN s[i]}
<1>1. CASE having = {}
  <2>1. TheNames!Lookup(s, n) = TheNames!Nothing
    BY <1>1 DEF TheNames!Lookup
  <2>2. \A i, d : ~Has(s, i, n, d)
    BY <1>1 DEF Has
  <2> QED
    BY <2>1, <2>2
<1>2. CASE having # {}
  <2>1. having \in SUBSET (1..l)
    OBVIOUS
  <2>2. PICK i \in having : \A j \in having : j =< i
    <3> HIDE DEF having
    <3> QED
      BY <1>2, <2>1, HasMaximum
  <2>3. TheNames!Max(having) = i
    <3>1. i \in having /\ \A y \in having : i >= y
      BY <2>1, <2>2
    <3>2. ASSUME NEW k \in having, \A y \in having : k >= y PROVE k = i
      BY <2>1, <2>2, <3>2
    <3> HIDE DEF having
    <3> QED
      BY <3>1, <3>2 DEF TheNames!Max
  <2>4. TheNames!Lookup(s, n) = s[i][n]
    BY <1>2, <2>3 DEF TheNames!Lookup
  <2>5. Has(s, i, n, TheNames!Lookup(s, n))
    BY <2>2, <2>4 DEF Has
  <2>6. \A j, d : Has(s, j, n, d) => j =< i
    BY <2>2 DEF Has
  <2> QED
    BY <2>2, <2>5, <2>6
<1> QED
  BY <1>1, <1>2

\* The phases of a program that is not refused, and the kinds of declarations.
Going   == {"package", "class", "signature", "body"}
Members == {"field", "method", "static"}
Plain   == {"func", "local"}  \* those Go knows by GoIdent

\* What a chain of scopes holds are declarations of these names that are not
\* over; what members it holds are seen from the class and its methods.
Live(s, nm, c, o) ==
  \A i, n, d : Has(s, i, n, d) =>
    /\ n \in nm /\ d.name = n /\ d.id \in 1..c /\ d.id \notin o
    /\ d.kind \in {"variant"} \cup Plain \cup Members
Inside(s, ph, ctx) ==
  \A i, n, d : Has(s, i, n, d) =>
    /\ d.kind \in Members => i # 1 /\ (ph = "class" \/ ctx = "method")
    /\ d.kind \in Plain => i = 1 \/ ph # "class"

\* Further in is later.
Rising(s) ==
  \A i, j, m, n, d, e : /\ Has(s, i, m, d) /\ Has(s, j, n, e)
                        /\ i < j /\ e # TheNames!Receiver
                        => d.id < e.id

\* The variants, by the blocks b.
VariantsOf(b, nm) == {n \in nm : \E d : Has(b, 1, TheNames!VariantIdent(n), d)}

\* What a chain of blocks b holds next to the scopes s.
Spelled(b, s, nm, c, o, ctx) ==
  \A k, a, e : Has(b, k, a, e) =>
    \/ e = TheNames!Receiver /\ a = "t" /\ ctx = "method"
    \/ /\ e.id \in 1..c /\ e.name \in nm
       /\ \/ e.kind = "variant" /\ a = TheNames!VariantIdent(e.name)
          \/ /\ e.kind \in Plain /\ a = TheNames!GoIdent(e.name)
             /\ \/ e.id \in o
                \/ e.name \in VariantsOf(b, nm)
                \/ \E i : Has(s, i, e.name, e)

\* The lengths of the chains S and B, by the number of constructs around.
Levels(nst, ls, lb, floor, S, B) ==
  /\ S \in [0..Len(nst) -> Nat] /\ B \in [0..Len(nst) -> Nat]
  /\ S[Len(nst)] = ls /\ B[Len(nst)] = lb
  /\ \A j \in 1..Len(nst) : /\ S[j] = S[j - 1] + nst[j].scopes
                            /\ B[j] = B[j - 1] + nst[j].blocks
  /\ \A i, j \in 0..Len(nst) : i < j => S[i] < S[j] /\ B[i] =< B[j]
  /\ \A j \in 0..Len(nst) : S[j] >= floor /\ B[j] >= floor

\* Everything in the scopes is in a block that is there as long as its scope is,
\* in the last one if its scope is the last.
Placed(s, b, nm, N, S, B) ==
  \A i, n, d : Has(s, i, n, d) =>
    /\ d.kind = "variant" => n \in VariantsOf(b, nm)
    /\ d.kind \in Plain =>
         \E k : /\ Has(b, k, TheNames!GoIdent(n), d)
                /\ \A j \in 0..N : (i =< S[j] => k =< B[j]) /\ (i = S[j] => k = B[j])

\* The lengths of the chains, by the phases.
Shape ==
  /\ IsChain(scopes) /\ IsChain(blocks) /\ nest \in Seq(TheNames!Constructs)
  /\ count \in Nat /\ over \subseteq 1..count
  /\ phase # "body" => nest = <<>>
  /\ phase \in {"package", "class"} => Len(blocks) = 1 /\ context = "func"
  /\ phase = "package" => Len(scopes) = 1
  /\ phase = "class" => Len(scopes) = 2
\* The frames a chain has at least.
Least == IF phase \in {"package", "class"} THEN 1 ELSE 2
Sited(nst, s, b, nm, floor) ==
  \E S, B : Levels(nst, Len(s), Len(b), floor, S, B) /\ Placed(s, b, nm, Len(nst), S, B)

\* The scopes and the blocks, as long as the program goes on.
ChainsMatch ==
  /\ Shape
  /\ Live(scopes, names, count, over) /\ Inside(scopes, phase, context)
  /\ Rising(scopes) /\ Rising(blocks)
  /\ Spelled(blocks, scopes, names, count, over, context)
  /\ Sited(nest, scopes, blocks, names, Least)

\* The inductive invariant.
NamesInv ==
  /\ names \in NameSets /\ phase \in Going \cup {"refused", "not-built"}
  /\ phase # "body" => use = TheNames!NoUse
  /\ phase \in Going => ChainsMatch
  /\ TheNames!BindsAsResolved

\* A chain that keeps what it has, but for the newest declaration further in than
\* all of it and a receiver, still rises.
LEMMA StillRising ==
  ASSUME NEW s, NEW t, NEW c \in Nat, NEW top, Rising(s),
         \A i, n, d : Has(s, i, n, d) => d = TheNames!Receiver \/ d.id \in 1..c,
         \A i, n, d : Has(t, i, n, d) =>
           Has(s, i, n, d) \/ (i = top /\ d.id = c + 1) \/ d = TheNames!Receiver,
         \A i, n, d : Has(s, i, n, d) => i \in Nat /\ i =< top,
         top \in Nat
  PROVE  Rising(t)
<1> SUFFICES ASSUME NEW i, NEW j, NEW m, NEW n, NEW d, NEW e,
                    Has(t, i, m, d), Has(t, j, n, e), i < j, e # TheNames!Receiver
             PROVE  d.id < e.id
  BY DEF Rising
<1>1. TheNames!Receiver.id = 0
  BY DEF TheNames!Receiver
<1>2. e.id \in 1..c \/ e.id = c + 1
  OBVIOUS
<1>3. CASE d = TheNames!Receiver
  BY <1>1, <1>2, <1>3
<1>4. CASE d # TheNames!Receiver /\ Has(s, i, m, d) /\ Has(s, j, n, e)
  BY <1>4 DEF Rising
<1>5. CASE d # TheNames!Receiver /\ Has(s, i, m, d) /\ j = top /\ e.id = c + 1
  <2>1. d.id \in 1..c
    BY <1>5
  <2> QED
    BY <1>5, <2>1
<1>6. CASE i = top /\ d.id = c + 1
  <2>1. j = top \/ (j \in Nat /\ j =< top)
    OBVIOUS
  <2> QED
    BY <1>6, <2>1
<1> QED
  BY <1>3, <1>4, <1>5, <1>6

\* The scopes s and the blocks b become t and g by one more declaration d, in scope
\* ts and block tb, which are the last, and in place of no other unless it is a
\* variant.
OneMore(s, t, b, g, nm, c, o, ctx, ts, tb, n, a, kd, d) ==
  /\ c \in Nat /\ o \in SUBSET (1..c) /\ ts \in Nat /\ tb \in Nat /\ n \in nm
  /\ d = [id |-> c + 1, kind |-> kd, name |-> n]
  /\ \/ kd = "variant" /\ a = TheNames!VariantIdent(n) /\ tb = 1
     \/ kd \in Plain /\ a = TheNames!GoIdent(n)
  /\ Live(s, nm, c, o) /\ Rising(s) /\ Rising(b) /\ Spelled(b, s, nm, c, o, ctx)
  /\ \A i, m, e : Has(s, i, m, e) => i \in Nat /\ i =< ts
  /\ \A i, m, e : Has(b, i, m, e) => i \in Nat /\ i =< tb
  /\ \A i, m, e : Has(t, i, m, e) <=>
        \/ i = ts /\ m = n /\ e = d
        \/ ~(i = ts /\ m = n) /\ Has(s, i, m, e)
  /\ \A i, m, e : Has(g, i, m, e) <=> (i = tb /\ m = a /\ e = d) \/ Has(b, i, m, e)
  /\ \A e : Has(s, ts, n, e) /\ e.kind \in Plain => kd = "variant"

\* The declarations of both chains stay live, rising and spelled as they are.
LEMMA OneMoreDeclared ==
  ASSUME NEW s, NEW t, NEW b, NEW g, NEW nm, NEW c, NEW o, NEW ctx, NEW ts, NEW tb,
         NEW n, NEW a, NEW kd, NEW d, OneMore(s, t, b, g, nm, c, o, ctx, ts, tb, n, a, kd, d)
  PROVE  Live(t, nm, c + 1, o) /\ Rising(t) /\ Rising(g) /\ Spelled(g, t, nm, c + 1, o, ctx)
<1> USE DEF OneMore
<1>1. d.id = c + 1 /\ d.kind = kd /\ d.name = n
  OBVIOUS
<1>2. Live(t, nm, c + 1, o)
  <2> SUFFICES ASSUME NEW i, NEW m, NEW e, Has(t, i, m, e)
               PROVE  /\ m \in nm /\ e.name = m /\ e.id \in 1..(c + 1) /\ e.id \notin o
                      /\ e.kind \in {"variant"} \cup Plain \cup Members
    BY DEF Live
  <2>1. CASE m = n /\ e = d
    BY <1>1, <2>1
  <2>2. CASE Has(s, i, m, e)
    BY <2>2 DEF Live
  <2> QED
    BY <2>1, <2>2
<1>3. Rising(t)
  <2>1. \A i, m, e : Has(s, i, m, e) => e = TheNames!Receiver \/ e.id \in 1..c
    BY DEF Live
  <2>2. \A i, m, e : Has(t, i, m, e) =>
          Has(s, i, m, e) \/ (i = ts /\ e.id = c + 1) \/ e = TheNames!Receiver
    BY <1>1
  <2> QED
    BY <2>1, <2>2, StillRising
<1>4. Rising(g)
  <2>1. \A i, m, e : Has(b, i, m, e) => e = TheNames!Receiver \/ e.id \in 1..c
    BY DEF Spelled
  <2>2. \A i, m, e : Has(g, i, m, e) =>
          Has(b, i, m, e) \/ (i = tb /\ e.id = c + 1) \/ e = TheNames!Receiver
    BY <1>1
  <2> QED
    BY <2>1, <2>2, StillRising
<1>5. VariantsOf(b, nm) \subseteq VariantsOf(g, nm)
  BY DEF VariantsOf
<1>6. Spelled(g, t, nm, c + 1, o, ctx)
  <2> SUFFICES ASSUME NEW k, NEW x, NEW e, Has(g, k, x, e)
               PROVE  \/ e = TheNames!Receiver /\ x = "t" /\ ctx = "method"
                      \/ /\ e.id \in 1..(c + 1) /\ e.name \in nm
                         /\ \/ e.kind = "variant" /\ x = TheNames!VariantIdent(e.name)
                            \/ /\ e.kind \in Plain /\ x = TheNames!GoIdent(e.name)
                               /\ \/ e.id \in o
                                  \/ e.name \in VariantsOf(g, nm)
                                  \/ \E i : Has(t, i, e.name, e)
    BY DEF Spelled
  <2>1. CASE x = a /\ e = d
    <3>1. Has(t, ts, e.name, e)
      BY <1>1, <2>1
    <3>2. e.id \in 1..(c + 1) /\ e.name \in nm /\ e.kind = kd /\ e.name = n
      BY <1>1, <2>1
    <3> QED
      BY <2>1, <3>1, <3>2
  <2>2. CASE Has(b, k, x, e)
    <3>1. ASSUME NEW i, Has(s, i, e.name, e), e.kind \in Plain
          PROVE  e.name \in VariantsOf(g, nm) \/ Has(t, i, e.name, e)
      <4>1. CASE i = ts /\ e.name = n
        <5>1. kd = "variant" /\ a = TheNames!VariantIdent(n) /\ tb = 1
          BY <3>1, <4>1 DEF Plain
        <5>2. Has(g, 1, TheNames!VariantIdent(n), d)
          BY <5>1
        <5> QED
          BY <4>1, <5>2 DEF VariantsOf
      <4>2. CASE ~(i = ts /\ e.name = n)
        BY <3>1, <4>2
      <4> QED
        BY <4>1, <4>2
    <3>2. \/ e = TheNames!Receiver /\ x = "t" /\ ctx = "method"
          \/ /\ e.id \in 1..c /\ e.name \in nm
             /\ \/ e.kind = "variant" /\ x = TheNames!VariantIdent(e.name)
                \/ /\ e.kind \in Plain /\ x = TheNames!GoIdent(e.name)
                   /\ \/ e.id \in o
                      \/ e.name \in VariantsOf(b, nm)
                      \/ \E i : Has(s, i, e.name, e)
      BY <2>2 DEF Spelled
    <3>3. e.id \in 1..c => e.id \in 1..(c + 1)
      OBVIOUS
    <3> QED
      BY <1>5, <3>1, <3>2, <3>3
  <2> QED
    BY <2>1, <2>2
<1> QED
  BY <1>2, <1>3, <1>4, <1>6

\* They become t and g by more frames, with nothing in them or a receiver, or
\* without the members.
NoMore(s, t, b, g, nm, c, o, ctx, x) ==
  /\ c \in Nat /\ o \in SUBSET (1..c)
  /\ Live(s, nm, c, o) /\ Rising(s) /\ Rising(b) /\ Spelled(b, s, nm, c, o, ctx)
  /\ ctx = "method" => x = "method"
  /\ \A i, m, e : Has(t, i, m, e) => Has(s, i, m, e)
  /\ \A i, m, e : Has(s, i, m, e) /\ e.kind \in Plain => Has(t, i, m, e)
  /\ \A i, m, e : Has(b, i, m, e) => Has(g, i, m, e) /\ i \in Nat
  /\ \A i, m, e : Has(g, i, m, e) =>
       Has(b, i, m, e) \/ (e = TheNames!Receiver /\ m = "t" /\ x = "method")

\* And so they do if none is declared.
LEMMA NoneDeclared ==
  ASSUME NEW s, NEW t, NEW b, NEW g, NEW nm, NEW c, NEW o, NEW ctx, NEW x,
         NoMore(s, t, b, g, nm, c, o, ctx, x)
  PROVE  Live(t, nm, c, o) /\ Rising(t) /\ Rising(g) /\ Spelled(g, t, nm, c, o, x)
<1> USE DEF NoMore
<1>1. Live(t, nm, c, o)
  BY DEF Live
<1>2. Rising(t)
  BY DEF Rising
<1>3. Rising(g)
  <2> SUFFICES ASSUME NEW i, NEW j, NEW m, NEW n, NEW d, NEW e,
                      Has(g, i, m, d), Has(g, j, n, e), i < j, e # TheNames!Receiver
               PROVE  d.id < e.id
    BY DEF Rising
  <2>1. Has(b, j, n, e) /\ e.id \in 1..c
    BY DEF Spelled
  <2>2. CASE d = TheNames!Receiver
    BY <2>1, <2>2 DEF TheNames!Receiver
  <2>3. CASE Has(b, i, m, d)
    BY <2>1, <2>3 DEF Rising
  <2> QED
    BY <2>2, <2>3
<1>4. VariantsOf(b, nm) \subseteq VariantsOf(g, nm)
  BY DEF VariantsOf
<1>5. Spelled(g, t, nm, c, o, x)
  BY <1>4 DEF Spelled
<1> QED
  BY <1>1, <1>2, <1>3, <1>5

\* A chain has names at its indices only.
LEMMA HasBounds ==
  ASSUME NEW s, IsChain(s)
  PROVE  \A i, m, e : Has(s, i, m, e) => i \in Nat /\ 1 =< i /\ i =< Len(s)
  BY ChainBounds DEF Has

\* A name is in the last frame if the chain has it there.
LEMMA HasInLast ==
  ASSUME NEW s, IsChain(s), Len(s) >= 1, NEW n
  PROVE  n \in DOMAIN TheNames!Last(s) <=> \E d : Has(s, Len(s), n, d)
<1>1. Len(s) \in DOMAIN s
  BY ChainBounds
<1> QED
  BY <1>1 DEF TheNames!Last, Has

\* A declaration in the last scope and, under its identifier, in the last block
\* keeps the chains matching: GoDeclares has made sure that the block is free.
LEMMA DeclaredInLast ==
  ASSUME ChainsMatch, phase # "class", NEW n \in names, NEW a, NEW kd, NEW d,
         d = [id |-> count + 1, kind |-> kd, name |-> n],
         \/ kd = "variant" /\ a = TheNames!VariantIdent(n) /\ Len(blocks) = 1
         \/ kd \in Plain /\ a = TheNames!GoIdent(n),
         a \notin DOMAIN TheNames!Last(blocks)
  PROVE  LET t == TheNames!BindLast(scopes, n, d)
             g == TheNames!BindLast(blocks, a, d) IN
         /\ IsChain(t) /\ IsChain(g) /\ Len(t) = Len(scopes) /\ Len(g) = Len(blocks)
         /\ Live(t, names, count + 1, over) /\ Inside(t, phase, context)
         /\ Rising(t) /\ Rising(g)
         /\ Spelled(g, t, names, count + 1, over, context)
         /\ Sited(nest, t, g, names, Least)
<1> PICK t : t = TheNames!BindLast(scopes, n, d)
  OBVIOUS
<1> PICK g : g = TheNames!BindLast(blocks, a, d)
  OBVIOUS
<1>1. /\ IsChain(scopes) /\ IsChain(blocks) /\ count \in Nat /\ over \in SUBSET (1..count)
      /\ Len(scopes) \in Nat /\ Len(blocks) \in Nat
      /\ nest \in Seq(TheNames!Constructs) /\ Len(nest) \in Nat
  BY ChainBounds DEF ChainsMatch, Shape
<1>2. PICK S, B : /\ Levels(nest, Len(scopes), Len(blocks), Least, S, B)
                  /\ Placed(scopes, blocks, names, Len(nest), S, B)
  BY DEF ChainsMatch, Sited
<1>3. PICK N \in Nat : N = Len(nest)
  BY <1>1
<1>4. /\ S \in [0..N -> Nat] /\ B \in [0..N -> Nat]
      /\ S[N] = Len(scopes) /\ B[N] = Len(blocks)
      /\ \A i, j \in 0..N : i < j => S[i] < S[j] /\ B[i] =< B[j]
      /\ \A j \in 0..N : S[j] >= Least /\ B[j] >= Least
  BY <1>2, <1>3 DEF Levels
<1>5. Len(scopes) >= 1 /\ Len(blocks) >= 1
  BY <1>1, <1>4 DEF Least
<1>6. /\ IsChain(t) /\ Len(t) = Len(scopes)
      /\ \A i, m, e : Has(t, i, m, e) <=>
           \/ i = Len(scopes) /\ m = n /\ e = d
           \/ ~(i = Len(scopes) /\ m = n) /\ Has(scopes, i, m, e)
  BY <1>1, <1>5, HasBindLast
<1>7. /\ IsChain(g) /\ Len(g) = Len(blocks)
      /\ \A i, m, e : Has(g, i, m, e) <=>
           \/ i = Len(blocks) /\ m = a /\ e = d
           \/ ~(i = Len(blocks) /\ m = a) /\ Has(blocks, i, m, e)
  BY <1>1, <1>5, HasBindLast
<1>8. \A e : ~Has(blocks, Len(blocks), a, e)
  BY <1>1, <1>5, HasInLast
<1>9. \A i, m, e : Has(g, i, m, e) <=>
        (i = Len(blocks) /\ m = a /\ e = d) \/ Has(blocks, i, m, e)
  BY <1>7, <1>8
<1>10. \A e : Has(scopes, Len(scopes), n, e) /\ e.kind \in Plain => kd = "variant"
  <2> SUFFICES ASSUME NEW e, Has(scopes, Len(scopes), n, e), e.kind \in Plain,
                      kd \in Plain, a = TheNames!GoIdent(n)
               PROVE  FALSE
    OBVIOUS
  <2>1. PICK k : /\ Has(blocks, k, TheNames!GoIdent(n), e)
                 /\ \A j \in 0..N : Len(scopes) = S[j] => k = B[j]
    BY <1>2, <1>3 DEF Placed
  <2>2. k = Len(blocks)
    BY <1>4, <2>1
  <2> QED
    BY <1>8, <2>1, <2>2
<1>11. /\ \A i, m, e : Has(scopes, i, m, e) => i \in Nat /\ i =< Len(scopes)
       /\ \A i, m, e : Has(blocks, i, m, e) => i \in Nat /\ i =< Len(blocks)
  BY <1>1, HasBounds
<1>12. /\ Live(scopes, names, count, over) /\ Rising(scopes) /\ Rising(blocks)
       /\ Spelled(blocks, scopes, names, count, over, context)
  BY DEF ChainsMatch
<1>13. /\ Live(t, names, count + 1, over) /\ Rising(t) /\ Rising(g)
       /\ Spelled(g, t, names, count + 1, over, context)
  <2>1. OneMore(scopes, t, blocks, g, names, count, over, context, Len(scopes), Len(blocks),
                n, a, kd, d)
    BY <1>1, <1>6, <1>9, <1>10, <1>11, <1>12 DEF OneMore
  <2> QED
    BY <2>1, OneMoreDeclared
<1>14. d.kind = kd /\ kd \notin Members
  BY DEF Plain, Members
<1>15. Inside(t, phase, context)
  BY <1>6, <1>14 DEF ChainsMatch, Inside
<1>16. Placed(t, g, names, N, S, B)
  <2> SUFFICES ASSUME NEW i, NEW m, NEW e, Has(t, i, m, e)
               PROVE  /\ e.kind = "variant" => m \in VariantsOf(g, names)
                      /\ e.kind \in Plain =>
                           \E k : /\ Has(g, k, TheNames!GoIdent(m), e)
                                  /\ \A j \in 0..N : (i =< S[j] => k =< B[j]) /\ (i = S[j] => k = B[j])
    BY DEF Placed
  <2>1. CASE Has(scopes, i, m, e)
    <3>1. VariantsOf(blocks, names) \subseteq VariantsOf(g, names)
      BY <1>9 DEF VariantsOf
    <3> QED
      BY <1>2, <1>3, <1>9, <2>1, <3>1 DEF Placed
  <2>2. CASE i = Len(scopes) /\ m = n /\ e = d
    <3>1. CASE kd = "variant"
      <4>1. a = TheNames!VariantIdent(n) /\ Len(blocks) = 1
        BY <3>1 DEF Plain
      <4>2. Has(g, 1, TheNames!VariantIdent(n), d)
        BY <1>9, <4>1
      <4>3. m \in VariantsOf(g, names)
        BY <2>2, <4>2 DEF VariantsOf
      <4> QED
        BY <1>14, <2>2, <3>1, <4>3 DEF Plain
    <3>2. CASE kd \in Plain
      <4>1. a = TheNames!GoIdent(n) /\ kd # "variant"
        BY <3>2 DEF Plain
      <4>2. Has(g, Len(blocks), TheNames!GoIdent(m), e)
        BY <1>9, <2>2, <4>1
      <4>3. ASSUME NEW j \in 0..N
            PROVE  (i =< S[j] => Len(blocks) =< B[j]) /\ (i = S[j] => Len(blocks) = B[j])
        <5>1. CASE j = N
          BY <1>1, <1>4, <5>1
        <5>2. CASE j < N
          <6>1. S[j] < S[N] /\ S[j] \in Nat
            BY <1>4, <5>2
          <6> QED
            BY <1>1, <1>4, <2>2, <6>1
        <5> QED
          BY <5>1, <5>2
      <4> QED
        BY <1>14, <2>2, <4>1, <4>2, <4>3
    <3> QED
      BY <3>1, <3>2
  <2> QED
    BY <1>6, <2>1, <2>2
<1>17. Sited(nest, t, g, names, Least)
  BY <1>2, <1>3, <1>6, <1>7, <1>16 DEF Sited
<1> QED
  BY <1>6, <1>7, <1>13, <1>15, <1>17

LEMMA OneLevel ==
  ASSUME NEW n \in Nat
  PROVE  \E T : T \in [0..0 -> Nat] /\ T[0] = n
<1>1. [j \in 0..0 |-> n] \in [0..0 -> Nat] /\ [j \in 0..0 |-> n][0] = n
  OBVIOUS
<1> QED
  BY <1>1

\* Outside of all constructs one level is left: what was in the last frame is not in
\* the last one any more.
LEMMA SitedOutside ==
  ASSUME NEW s, NEW t, NEW b, NEW g, NEW nm, NEW floor, NEW least \in Nat,
         IsChain(s), IsChain(t), IsChain(b), IsChain(g),
         Sited(<<>>, s, b, nm, floor), Len(t) >= least, Len(g) >= least,
         \A i, m, e : Has(t, i, m, e) => Has(s, i, m, e) /\ i < Len(t),
         \A i, m, e : Has(b, i, m, e) => Has(g, i, m, e)
  PROVE  Sited(<<>>, t, g, nm, least)
<1>1. PICK S, B : Placed(s, b, nm, Len(<<>>), S, B)
  BY DEF Sited
<1>2. Len(t) \in Nat /\ Len(g) \in Nat
  BY ChainBounds
<1>3. Len(<<>>) = 0 /\ 0..0 = {0} /\ 1..0 = {}
  OBVIOUS
<1>4. PICK T, G : T \in [0..0 -> Nat] /\ G \in [0..0 -> Nat] /\ T[0] = Len(t) /\ G[0] = Len(g)
  BY <1>2, OneLevel
<1>5. Levels(<<>>, Len(t), Len(g), least, T, G)
  BY <1>2, <1>3, <1>4 DEF Levels
<1>6. Placed(t, g, nm, 0, T, G)
  <2> SUFFICES ASSUME NEW i, NEW m, NEW e, Has(t, i, m, e)
               PROVE  /\ e.kind = "variant" => m \in VariantsOf(g, nm)
                      /\ e.kind \in Plain =>
                           \E k : /\ Has(g, k, TheNames!GoIdent(m), e)
                                  /\ \A j \in 0..0 : (i =< T[j] => k =< G[j]) /\ (i = T[j] => k = G[j])
    BY DEF Placed
  <2>1. Has(s, i, m, e) /\ i < Len(t) /\ i \in Nat
    BY HasBounds
  <2>2. VariantsOf(b, nm) \subseteq VariantsOf(g, nm)
    BY DEF VariantsOf
  <2>3. e.kind = "variant" => m \in VariantsOf(g, nm)
    BY <1>1, <2>1, <2>2 DEF Placed
  <2>4. ASSUME e.kind \in Plain
        PROVE  \E k : /\ Has(g, k, TheNames!GoIdent(m), e)
                      /\ \A j \in 0..0 : (i =< T[j] => k =< G[j]) /\ (i = T[j] => k = G[j])
    <3>1. PICK k : Has(b, k, TheNames!GoIdent(m), e)
      BY <1>1, <2>1, <2>4 DEF Placed
    <3>2. Has(g, k, TheNames!GoIdent(m), e) /\ k =< Len(g)
      BY <3>1, HasBounds
    <3>3. \A j \in 0..0 : (i =< T[j] => k =< G[j]) /\ (i = T[j] => k = G[j])
      BY <1>2, <1>3, <1>4, <2>1, <3>2
    <3> QED
      BY <3>2, <3>3
  <2> QED
    BY <2>3, <2>4
<1> QED
  BY <1>3, <1>5, <1>6 DEF Sited

\* One construct more.
LEMMA SizesOfConstructs ==
  ASSUME NEW c \in TheNames!Constructs
  PROVE  /\ c.scopes \in {1, 2} /\ c.blocks \in {0, 1, 2}
         /\ TheNames!Binds(c) => c.scopes = 2 /\ c.blocks \in {1, 2}
  BY DEF TheNames!Constructs, TheNames!Binds

\* A construct adds as many scopes and blocks as it has; what it binds is in the
\* first of either.
LEMMA SitedInside ==
  ASSUME NEW s, NEW t, NEW b, NEW g, NEW nm, NEW floor \in Nat,
         NEW nst \in Seq(TheNames!Constructs), NEW c \in TheNames!Constructs,
         IsChain(s), IsChain(t), IsChain(b), IsChain(g),
         Sited(nst, s, b, nm, floor), Len(t) = Len(s) + c.scopes, Len(g) = Len(b) + c.blocks,
         \A i, m, e : Has(t, i, m, e) =>
           \/ Has(s, i, m, e)
           \/ /\ i = Len(s) + 1 /\ i < Len(t) /\ e.kind = "local" /\ c.blocks >= 1
              /\ Has(g, Len(b) + 1, TheNames!GoIdent(m), e),
         \A i, m, e : Has(b, i, m, e) => Has(g, i, m, e)
  PROVE  Sited(Append(nst, c), t, g, nm, floor)
<1>1. PICK S, B : Levels(nst, Len(s), Len(b), floor, S, B) /\ Placed(s, b, nm, Len(nst), S, B)
  BY DEF Sited
<1>2. PICK N \in Nat : N = Len(nst)
  OBVIOUS
<1>3. PICK ls \in Nat, lb \in Nat : ls = Len(s) /\ lb = Len(b)
  BY ChainBounds
<1>4. /\ S \in [0..N -> Nat] /\ B \in [0..N -> Nat] /\ S[N] = ls /\ B[N] = lb
      /\ \A j \in 1..N : S[j] = S[j - 1] + nst[j].scopes /\ B[j] = B[j - 1] + nst[j].blocks
      /\ \A i, j \in 0..N : i < j => S[i] < S[j] /\ B[i] =< B[j]
      /\ \A j \in 0..N : S[j] >= floor /\ B[j] >= floor
  BY <1>1, <1>2, <1>3 DEF Levels
<1>5. ASSUME NEW j \in 0..N
      PROVE  S[j] \in Nat /\ B[j] \in Nat /\ S[j] =< ls /\ B[j] =< lb
  <2>1. S[j] \in Nat /\ B[j] \in Nat
    BY <1>4
  <2>2. N \in 0..N /\ (j = N \/ j < N)
    OBVIOUS
  <2>3. CASE j = N
    BY <1>4, <2>1, <2>3
  <2>4. CASE j < N
    <3>1. S[j] < S[N] /\ B[j] =< B[N]
      BY <1>4, <2>2, <2>4
    <3> QED
      BY <1>4, <2>1, <3>1
  <2> QED
    BY <2>2, <2>3, <2>4
<1>6. PICK ds \in {1, 2}, db \in {0, 1, 2} : ds = c.scopes /\ db = c.blocks
  BY SizesOfConstructs
<1> DEFINE T == [j \in 0..(N + 1) |-> IF j = N + 1 THEN ls + ds ELSE S[j]]
           G == [j \in 0..(N + 1) |-> IF j = N + 1 THEN lb + db ELSE B[j]]
<1>7. \A j \in 0..(N + 1) : j \in 0..N \/ j = N + 1
  OBVIOUS
<1>8. /\ T \in [0..(N + 1) -> Nat] /\ G \in [0..(N + 1) -> Nat]
      /\ T[N + 1] = ls + ds /\ G[N + 1] = lb + db
      /\ \A j \in 0..N : T[j] = S[j] /\ G[j] = B[j]
  <2>1. N + 1 \in 0..(N + 1) /\ \A j \in 0..N : j \in 0..(N + 1) /\ j # N + 1
    OBVIOUS
  <2>2. ls + ds \in Nat /\ lb + db \in Nat
    OBVIOUS
  <2>3. \A j \in 0..(N + 1) : T[j] \in Nat /\ G[j] \in Nat
    BY <1>5, <1>7, <2>2
  <2>4. T \in [0..(N + 1) -> Nat] /\ G \in [0..(N + 1) -> Nat]
    BY <2>3
  <2>5. T[N + 1] = ls + ds /\ G[N + 1] = lb + db
    BY <2>1
  <2>6. \A j \in 0..N : T[j] = S[j] /\ G[j] = B[j]
    BY <2>1
  <2> QED
    BY <2>4, <2>5, <2>6
<1> HIDE DEF T, G
<1>9. PICK q : q = Append(nst, c)
  OBVIOUS
<1>10. /\ q \in Seq(TheNames!Constructs) /\ Len(q) = N + 1 /\ q[N + 1] = c
      /\ \A j \in 1..N : q[j] = nst[j]
  BY <1>2, <1>9
<1>11. Levels(q, ls + ds, lb + db, floor, T, G)
  <2>1. ASSUME NEW j \in 1..(N + 1)
        PROVE  T[j] = T[j - 1] + q[j].scopes /\ G[j] = G[j - 1] + q[j].blocks
    <3>1. CASE j = N + 1
      <4>1. T[N] = ls /\ G[N] = lb
        BY <1>4, <1>8
      <4>2. j - 1 = N
        BY <3>1
      <4> QED
        BY <1>6, <1>8, <1>10, <3>1, <4>1, <4>2
    <3>2. CASE j \in 1..N
      <4>1. j \in 0..N /\ j - 1 \in 0..N
        BY <3>2
      <4> QED
        BY <1>4, <1>8, <1>10, <3>2, <4>1
    <3> QED
      BY <3>1, <3>2
  <2>2. ASSUME NEW i \in 0..(N + 1), NEW j \in 0..(N + 1), i < j
        PROVE  T[i] < T[j] /\ G[i] =< G[j]
    <3>1. CASE j = N + 1
      <4>1. i \in 0..N
        BY <2>2, <3>1
      <4>2. S[i] \in Nat /\ B[i] \in Nat /\ S[i] =< ls /\ B[i] =< lb
        BY <1>5, <4>1
      <4>3. T[i] = S[i] /\ G[i] = B[i]
        BY <1>8, <4>1
      <4> QED
        <5>1. T[j] = ls + ds /\ G[j] = lb + db
          BY <1>8, <3>1
        <5>2. S[i] < ls + ds /\ B[i] =< lb + db
          BY <4>2
        <5> QED
          BY <4>3, <5>1, <5>2
    <3>2. CASE j \in 0..N
      <4>1. i \in 0..N
        BY <2>2, <3>2
      <4> QED
        BY <1>4, <1>8, <2>2, <3>2, <4>1
    <3> QED
      BY <1>7, <3>1, <3>2
  <2>3. ASSUME NEW j \in 0..(N + 1) PROVE T[j] >= floor /\ G[j] >= floor
    <3>1. ls >= floor /\ lb >= floor
      BY <1>4
    <3>2. CASE j = N + 1
      BY <1>8, <3>1, <3>2
    <3>3. CASE j \in 0..N
      BY <1>4, <1>8, <3>3
    <3> QED
      BY <1>7, <3>2, <3>3
  <2> QED
    BY <1>8, <1>10, <2>1, <2>2, <2>3 DEF Levels
<1>12. Placed(t, g, nm, N + 1, T, G)
  <2> SUFFICES ASSUME NEW i, NEW m, NEW e, Has(t, i, m, e)
               PROVE  /\ e.kind = "variant" => m \in VariantsOf(g, nm)
                      /\ e.kind \in Plain =>
                           \E k : /\ Has(g, k, TheNames!GoIdent(m), e)
                                  /\ \A j \in 0..(N + 1) : (i =< T[j] => k =< G[j]) /\ (i = T[j] => k = G[j])
    BY DEF Placed
  <2>1. CASE Has(s, i, m, e)
    <3>1. i \in Nat /\ i =< ls
      BY <1>3, <2>1, HasBounds
    <3>2. VariantsOf(b, nm) \subseteq VariantsOf(g, nm)
      BY DEF VariantsOf
    <3>3. e.kind = "variant" => m \in VariantsOf(g, nm)
      BY <1>1, <2>1, <3>2 DEF Placed
    <3>4. ASSUME e.kind \in Plain
          PROVE  \E k : /\ Has(g, k, TheNames!GoIdent(m), e)
                        /\ \A j \in 0..(N + 1) : (i =< T[j] => k =< G[j]) /\ (i = T[j] => k = G[j])
      <4>1. PICK k : /\ Has(b, k, TheNames!GoIdent(m), e)
                     /\ \A j \in 0..N : (i =< S[j] => k =< B[j]) /\ (i = S[j] => k = B[j])
        BY <1>1, <1>2, <2>1, <3>4 DEF Placed
      <4>2. k \in Nat /\ k =< lb
        BY <1>3, <4>1, HasBounds
      <4>3. ASSUME NEW j \in 0..(N + 1)
            PROVE  (i =< T[j] => k =< G[j]) /\ (i = T[j] => k = G[j])
        <5>1. CASE j = N + 1
          BY <1>8, <3>1, <4>2, <5>1, SMTT(20)
        <5>2. CASE j \in 0..N
          BY <1>8, <4>1, <5>2
        <5> QED
          BY <1>7, <5>1, <5>2
      <4> QED
        BY <4>1, <4>3
    <3> QED
      BY <3>3, <3>4
  <2>2. CASE /\ i = Len(s) + 1 /\ i < Len(t) /\ e.kind = "local" /\ c.blocks >= 1
             /\ Has(g, Len(b) + 1, TheNames!GoIdent(m), e)
    <3>1. ASSUME NEW j \in 0..(N + 1)
          PROVE  (i =< T[j] => lb + 1 =< G[j]) /\ (i = T[j] => lb + 1 = G[j])
      <4>1. CASE j = N + 1
        <5>1. T[j] = ls + ds /\ G[j] = lb + db
          BY <1>8, <4>1
        <5>2. i = ls + 1 /\ i < ls + ds /\ db >= 1
          BY <1>3, <1>6, <2>2
        <5> QED
          BY <5>1, <5>2
      <4>2. CASE j \in 0..N
        <5>1. S[j] \in Nat /\ S[j] =< ls /\ T[j] = S[j]
          BY <1>8, <1>5, <4>2
        <5> QED
          BY <1>3, <2>2, <5>1
      <4> QED
        BY <1>7, <4>1, <4>2
    <3> QED
      BY <1>3, <2>2, <3>1
  <2> QED
    BY <2>1, <2>2
<1> QED
  BY <1>3, <1>6, <1>9, <1>10, <1>11, <1>12 DEF Sited

\* One construct less.
OneLess(nst, c, s, t, b, g, nm, floor) ==
  /\ floor \in Nat /\ floor >= 1
  /\ nst \in Seq(TheNames!Constructs) /\ nst # <<>> /\ c = TheNames!Last(nst)
  /\ IsChain(s) /\ IsChain(b) /\ Sited(nst, s, b, nm, floor)

\* Leaving it, both chains are as long as they were, and what is left has its place.
LEMMA SitedOutward ==
  ASSUME NEW s, NEW t, NEW b, NEW g, NEW nm, NEW floor, NEW nst, NEW c,
         OneLess(nst, c, s, t, b, g, nm, floor)
  PROVE  /\ Len(s) - c.scopes \in Nat /\ Len(s) - c.scopes >= floor
         /\ Len(b) - c.blocks \in Nat /\ Len(b) - c.blocks >= floor
         /\ /\ Len(t) = Len(s) - c.scopes /\ Len(g) = Len(b) - c.blocks
            /\ \A i, m, e : Has(t, i, m, e) <=> Has(s, i, m, e) /\ i =< Len(t)
            /\ \A i, m, e : Has(g, i, m, e) <=> Has(b, i, m, e) /\ i =< Len(g)
            => Sited(TheNames!Front(nst), t, g, nm, floor)
<1> /\ floor \in Nat /\ floor >= 1
    /\ nst \in Seq(TheNames!Constructs) /\ nst # <<>> /\ c = TheNames!Last(nst)
    /\ IsChain(s) /\ IsChain(b) /\ Sited(nst, s, b, nm, floor)
  BY DEF OneLess
<1>1. PICK S, B : Levels(nst, Len(s), Len(b), floor, S, B) /\ Placed(s, b, nm, Len(nst), S, B)
  BY DEF Sited
<1>2. PICK N \in Nat : N + 1 = Len(nst)
  <2>1. Len(nst) \in Nat /\ Len(nst) # 0
    OBVIOUS
  <2>2. Len(nst) - 1 \in Nat /\ (Len(nst) - 1) + 1 = Len(nst)
    BY <2>1
  <2> QED
    BY <2>2
<1>3. PICK q : q = TheNames!Front(nst)
  OBVIOUS
<1>4. /\ q \in Seq(TheNames!Constructs) /\ Len(q) = N /\ \A j \in 1..N : q[j] = nst[j]
      /\ c = nst[N + 1] /\ c \in TheNames!Constructs
  BY <1>2, <1>3 DEF TheNames!Front, TheNames!Last
<1>5. PICK ls \in Nat, lb \in Nat : ls = Len(s) /\ lb = Len(b)
  BY ChainBounds
<1>6. /\ S \in [0..(N + 1) -> Nat] /\ B \in [0..(N + 1) -> Nat] /\ S[N + 1] = ls /\ B[N + 1] = lb
      /\ \A j \in 1..(N + 1) : S[j] = S[j - 1] + nst[j].scopes /\ B[j] = B[j - 1] + nst[j].blocks
      /\ \A i, j \in 0..(N + 1) : i < j => S[i] < S[j] /\ B[i] =< B[j]
      /\ \A j \in 0..(N + 1) : S[j] >= floor /\ B[j] >= floor
  BY <1>1, <1>2, <1>5 DEF Levels
<1>7. PICK ds \in {1, 2}, db \in {0, 1, 2} : ds = c.scopes /\ db = c.blocks
  BY <1>4, SizesOfConstructs
<1>8. S[N] \in Nat /\ B[N] \in Nat /\ S[N] >= floor /\ B[N] >= floor
  <2>1. N \in 0..(N + 1)
    OBVIOUS
  <2> QED
    BY <1>6, <2>1
<1>9. ls = S[N] + ds /\ lb = B[N] + db
  <2>1. N + 1 \in 1..(N + 1) /\ (N + 1) - 1 = N
    OBVIOUS
  <2>2. S[N + 1] = S[N] + nst[N + 1].scopes /\ B[N + 1] = B[N] + nst[N + 1].blocks
    BY <1>6, <2>1
  <2> QED
    BY <1>4, <1>6, <1>7, <2>2
<1>10. ls - ds = S[N] /\ lb - db = B[N]
  BY <1>8, <1>9, SMTT(20)
<1>11. ASSUME Len(t) = Len(s) - c.scopes, Len(g) = Len(b) - c.blocks,
              \A i, m, e : Has(t, i, m, e) <=> Has(s, i, m, e) /\ i =< Len(t),
              \A i, m, e : Has(g, i, m, e) <=> Has(b, i, m, e) /\ i =< Len(g)
       PROVE  Sited(q, t, g, nm, floor)
  <2> DEFINE T == [j \in 0..N |-> S[j]]
             G == [j \in 0..N |-> B[j]]
  <2>1. \A j \in 0..N : j \in 0..(N + 1)
    OBVIOUS
  <2>2. /\ T \in [0..N -> Nat] /\ G \in [0..N -> Nat]
        /\ \A j \in 0..N : T[j] = S[j] /\ G[j] = B[j]
    BY <1>6, <2>1
  <2> HIDE DEF T, G
  <2>3. T[N] = Len(t) /\ G[N] = Len(g)
    BY <1>5, <1>7, <1>10, <1>11, <2>2, SMTT(20)
  <2>4. ASSUME NEW j \in 1..N
        PROVE  T[j] = T[j - 1] + q[j].scopes /\ G[j] = G[j - 1] + q[j].blocks
    <3>1. j \in 0..N /\ j - 1 \in 0..N /\ j \in 1..(N + 1)
      OBVIOUS
    <3>2. S[j] = S[j - 1] + nst[j].scopes /\ B[j] = B[j - 1] + nst[j].blocks
      BY <1>6, <3>1
    <3> QED
      BY <1>4, <2>2, <3>1, <3>2
  <2>5. Levels(q, Len(t), Len(g), floor, T, G)
    BY <1>4, <1>6, <2>1, <2>2, <2>3, <2>4 DEF Levels
  <2>6. Placed(t, g, nm, N, T, G)
    <3> SUFFICES ASSUME NEW i, NEW m, NEW e, Has(t, i, m, e)
                 PROVE  /\ e.kind = "variant" => m \in VariantsOf(g, nm)
                        /\ e.kind \in Plain =>
                             \E k : /\ Has(g, k, TheNames!GoIdent(m), e)
                                    /\ \A j \in 0..N : (i =< T[j] => k =< G[j]) /\ (i = T[j] => k = G[j])
      BY DEF Placed
    <3>1. Has(s, i, m, e) /\ i =< T[N]
      BY <1>11, <2>3
    <3>2. ASSUME e.kind = "variant" PROVE m \in VariantsOf(g, nm)
      <4>1. m \in VariantsOf(b, nm)
        BY <1>1, <3>1, <3>2 DEF Placed
      <4>2. PICK d : Has(b, 1, TheNames!VariantIdent(m), d)
        BY <4>1 DEF VariantsOf
      <4>3. 1 =< Len(g)
        BY <1>8, <2>2, <2>3
      <4>4. Has(g, 1, TheNames!VariantIdent(m), d)
        BY <1>11, <4>2, <4>3
      <4> QED
        BY <4>1, <4>4 DEF VariantsOf
    <3>3. ASSUME e.kind \in Plain
          PROVE  \E k : /\ Has(g, k, TheNames!GoIdent(m), e)
                        /\ \A j \in 0..N : (i =< T[j] => k =< G[j]) /\ (i = T[j] => k = G[j])
      <4>1. PICK k : /\ Has(b, k, TheNames!GoIdent(m), e)
                     /\ \A j \in 0..(N + 1) : (i =< S[j] => k =< B[j]) /\ (i = S[j] => k = B[j])
        BY <1>1, <1>2, <3>1, <3>3 DEF Placed
      <4>2. \A j \in 0..N : (i =< T[j] => k =< G[j]) /\ (i = T[j] => k = G[j])
        BY <2>1, <2>2, <4>1
      <4>3. k =< Len(g)
        <5>1. N \in 0..N
          OBVIOUS
        <5> QED
          BY <2>3, <3>1, <4>2, <5>1
      <4>4. Has(g, k, TheNames!GoIdent(m), e)
        BY <1>11, <4>1, <4>3
      <4> QED
        BY <4>2, <4>4
    <3> QED
      BY <3>2, <3>3
  <2> QED
    BY <1>4, <2>5, <2>6 DEF Sited
<1> QED
  BY <1>3, <1>5, <1>7, <1>8, <1>10, <1>11

\* What is left, when what the dropped scopes held is over.
Fewer(s, t, b, g, nm, c, o, x, ctx, ls, lb) ==
  /\ c \in Nat /\ o \in SUBSET (1..c) /\ ls \in Nat /\ lb \in Nat /\ lb >= 1
  /\ Live(s, nm, c, o) /\ Rising(s) /\ Rising(b) /\ Spelled(b, s, nm, c, o, ctx)
  /\ \A i, m, e : Has(s, i, m, e) => i \in Nat
  /\ \A i, m, e : Has(t, i, m, e) <=> Has(s, i, m, e) /\ i =< ls
  /\ \A i, m, e : Has(g, i, m, e) <=> Has(b, i, m, e) /\ i =< lb
  /\ \A y : y \in x <=> (y \in o \/ \E i, m, e : Has(s, i, m, e) /\ ls < i /\ y = e.id)

\* What is left of the chains is live, rising and spelled as it was.
LEMMA FewerLeft ==
  ASSUME NEW s, NEW t, NEW b, NEW g, NEW nm, NEW c, NEW o, NEW x, NEW ctx, NEW ls, NEW lb,
         Fewer(s, t, b, g, nm, c, o, x, ctx, ls, lb)
  PROVE  /\ x \in SUBSET (1..c) /\ Live(t, nm, c, x) /\ Rising(t) /\ Rising(g)
         /\ Spelled(g, t, nm, c, x, ctx)
<1>1. \A y : y \in x <=> (y \in o \/ \E i, m, e : Has(s, i, m, e) /\ ls < i /\ y = e.id)
  BY DEF Fewer
<1>2. o \in SUBSET (1..c) /\ Live(s, nm, c, o)
  BY DEF Fewer
<1>3. x \in SUBSET (1..c)
  <2>1. \A i, m, e : Has(s, i, m, e) => e.id \in 1..c
    BY <1>2 DEF Live
  <2>2. ASSUME NEW y, y \in x PROVE y \in 1..c
    <3>1. y \in o \/ \E i, m, e : Has(s, i, m, e) /\ ls < i /\ y = e.id
      BY <1>1, <2>2, Zenon
    <3> QED
      BY <1>2, <2>1, <3>1
  <2> QED
    BY <2>2
<1> USE DEF Fewer
<1>4. ASSUME NEW i, NEW m, NEW e, Has(t, i, m, e) PROVE e.id \notin x
  <2> SUFFICES ASSUME e.id \in x PROVE FALSE
    OBVIOUS
  <2>1. Has(s, i, m, e) /\ i =< ls /\ i \in Nat /\ e.id \notin o /\ e.id \in 1..c
    BY <1>4 DEF Live
  <2>2. PICK j, n, d : Has(s, j, n, d) /\ ls < j /\ e.id = d.id
    BY <2>1
  <2>3. j \in Nat /\ i < j
    BY <2>1, <2>2
  <2>4. d # TheNames!Receiver
    BY <2>1, <2>2 DEF TheNames!Receiver
  <2>5. e.id < d.id
    BY <2>1, <2>2, <2>3, <2>4 DEF Rising
  <2> QED
    BY <2>1, <2>2, <2>5
<1>5. Live(t, nm, c, x)
  BY <1>4 DEF Live
<1>6. Rising(t) /\ Rising(g)
  BY DEF Rising
<1>7. VariantsOf(b, nm) \subseteq VariantsOf(g, nm)
  BY DEF VariantsOf
<1>8. ASSUME NEW i, NEW m, NEW e, Has(s, i, m, e) PROVE e.id \in x \/ Has(t, i, m, e)
  <2>1. i \in Nat /\ ls \in Nat
    BY <1>8
  <2>2. i =< ls \/ ls < i
    BY <2>1
  <2>3. CASE i =< ls
    BY <1>8, <2>3
  <2>4. CASE ls < i
    BY <1>8, <2>4
  <2> QED
    BY <2>2, <2>3, <2>4
<1>9. Spelled(g, t, nm, c, x, ctx)
  <2> SUFFICES ASSUME NEW k, NEW a, NEW e, Has(g, k, a, e)
               PROVE  \/ e = TheNames!Receiver /\ a = "t" /\ ctx = "method"
                      \/ /\ e.id \in 1..c /\ e.name \in nm
                         /\ \/ e.kind = "variant" /\ a = TheNames!VariantIdent(e.name)
                            \/ /\ e.kind \in Plain /\ a = TheNames!GoIdent(e.name)
                               /\ \/ e.id \in x
                                  \/ e.name \in VariantsOf(g, nm)
                                  \/ \E i : Has(t, i, e.name, e)
    BY DEF Spelled
  <2>1. Has(b, k, a, e) /\ o \subseteq x
    OBVIOUS
  <2>2. \/ e = TheNames!Receiver /\ a = "t" /\ ctx = "method"
        \/ /\ e.id \in 1..c /\ e.name \in nm
           /\ \/ e.kind = "variant" /\ a = TheNames!VariantIdent(e.name)
              \/ /\ e.kind \in Plain /\ a = TheNames!GoIdent(e.name)
                 /\ \/ e.id \in o
                    \/ e.name \in VariantsOf(b, nm)
                    \/ \E i : Has(s, i, e.name, e)
    BY <2>1 DEF Spelled
  <2>3. ASSUME NEW i, Has(s, i, e.name, e) PROVE e.id \in x \/ Has(t, i, e.name, e)
    BY <1>8, <2>3
  <2> QED
    BY <1>7, <2>1, <2>2, <2>3
<1> QED
  BY <1>3, <1>5, <1>6, <1>9

\* What a use must find, by what it means.
RightUse(n, called, d, g) ==
  /\ d.id \notin over
  /\ \A i \in DOMAIN scopes : n \in DOMAIN scopes[i] => scopes[i][n].id <= d.id
  /\ g # d =>
       \/ g.id \in over
       \/ /\ n \in TheNames!Variants /\ g.kind = "variant"
          /\ ~(called /\ d.kind = "method")
       \/ context = "method" /\ n = "t" /\ g = TheNames!Receiver
       \/ context = "method" /\ d.kind \in {"field", "method"} /\ g.name = "t"
       \/ g.name # n /\ TheNames!Ident(g.kind, g.name) = TheNames!Spelling(n)
       \/ d.kind = "static"
       \/ d.kind = "method" /\ ~called /\ g.id < d.id
       \/ g.kind = "binder"

\* Variants, by what the first block has.
LEMMA VariantsByBlocks ==
  ASSUME ChainsMatch
  PROVE  TheNames!Variants = VariantsOf(blocks, names)
<1>1. 1 \in DOMAIN blocks
  <2>1. PICK S, B : Levels(nest, Len(scopes), Len(blocks), Least, S, B)
    BY DEF ChainsMatch, Sited
  <2>2. Len(nest) \in Nat /\ Len(blocks) \in Nat /\ DOMAIN blocks = 1..Len(blocks)
    BY ChainBounds DEF ChainsMatch, Shape
  <2>3. Len(nest) \in 0..Len(nest)
    BY <2>2
  <2>4. Len(blocks) >= Least /\ Least >= 1
    BY <2>1, <2>3 DEF Levels, Least
  <2>5. Len(blocks) >= 1
    BY <2>2, <2>4 DEF Least
  <2> QED
    BY <2>2, <2>5
<1> QED
  BY <1>1 DEF TheNames!Variants, VariantsOf, Has

\* What Go takes on its chain is the binder of a loop's head, or what the last
\* block with that identifier has.
LEMMA FoundOnChain ==
  ASSUME IsChain(blocks), NEW chain, NEW b,
         \/ chain = blocks
         \/ chain = Append(blocks, TheNames!Bind(TheNames!Empty, TheNames!GoIdent(b),
                                [id |-> count + 1, kind |-> "binder", name |-> b])),
         NEW a, TheNames!Lookup(chain, a) # TheNames!Nothing
  PROVE  LET g == TheNames!Lookup(chain, a) IN
         \/ g.kind = "binder"
         \/ \E k : Has(blocks, k, a, g) /\ \A j, e : Has(blocks, j, a, e) => j =< k
<1> PICK g : g = TheNames!Lookup(chain, a)
  OBVIOUS
<1>1. CASE chain = blocks
  <2>1. \E i \in DOMAIN blocks : Has(blocks, i, a, g) /\ \A j, d : Has(blocks, j, a, d) => j =< i
    BY <1>1, LookupFinds
  <2> QED
    BY <2>1
<1>2. CASE chain = Append(blocks, TheNames!Bind(TheNames!Empty, TheNames!GoIdent(b),
                                [id |-> count + 1, kind |-> "binder", name |-> b]))
  <2>1. PICK x, d : /\ x = TheNames!GoIdent(b)
                    /\ d = [id |-> count + 1, kind |-> "binder", name |-> b]
    OBVIOUS
  <2>2. chain = Append(blocks, TheNames!Bind(TheNames!Empty, x, d))
    BY <1>2, <2>1
  <2>3. /\ IsChain(chain)
        /\ \A i, m, e : Has(chain, i, m, e) <=>
              Has(blocks, i, m, e) \/ (i = Len(blocks) + 1 /\ m = x /\ e = d)
    BY <2>2, HasOne
  <2>4. PICK i : Has(chain, i, a, g) /\ \A j, e : Has(chain, j, a, e) => j =< i
    BY <2>3, LookupFinds
  <2>5. d.kind = "binder"
    BY <2>1
  <2> QED
    BY <2>3, <2>4, <2>5
<1> QED
  BY <1>1, <1>2

\* On chains that match, emitExpr writes what the checker means, but for the
\* exceptions that BindsAsResolved lists.
LEMMA UsesRight ==
  ASSUME TheNames!SpellingsDiffer, names \in NameSets, ChainsMatch, phase = "body",
         NEW n \in names, NEW chain, NEW b \in names,
         \/ chain = blocks
         \/ chain = Append(blocks, TheNames!Bind(TheNames!Empty, TheNames!GoIdent(b),
                                [id |-> count + 1, kind |-> "binder", name |-> b])),
         NEW d, d = TheNames!Lookup(scopes, n), d # TheNames!Nothing, NEW called,
         NEW g, g = TheNames!Taken(n, d, called, chain), g # TheNames!Nothing
  PROVE  RightUse(n, called, d, g)
<1>1. /\ IsChain(scopes) /\ IsChain(blocks) /\ count \in Nat
      /\ Live(scopes, names, count, over) /\ Inside(scopes, phase, context)
      /\ Rising(scopes) /\ Rising(blocks)
      /\ Spelled(blocks, scopes, names, count, over, context)
  BY DEF ChainsMatch, Shape
<1>2. PICK S, B : Placed(scopes, blocks, names, Len(nest), S, B)
  BY DEF ChainsMatch, Sited
<1>3. PICK i : Has(scopes, i, n, d) /\ \A j, e : Has(scopes, j, n, e) => j =< i
  BY <1>1, LookupFinds
<1>4. d.name = n /\ d.id \in 1..count /\ d.id \notin over /\ d.kind \in {"variant"} \cup Plain \cup Members
  BY <1>1, <1>3 DEF Live
<1>5. ASSUME NEW j, NEW e, Has(scopes, j, n, e)
      PROVE  e.id =< d.id /\ e.id \in 1..count /\ (e # d => e.id < d.id)
  <2>1. j \in Nat /\ i \in Nat /\ j =< i
    BY <1>1, <1>3, <1>5, HasBounds
  <2>2. e.id \in 1..count
    BY <1>1, <1>5 DEF Live
  <2>3. CASE j = i
    <3>1. e = d
      BY <1>3, <1>5, <2>3 DEF Has
    <3> QED
      BY <1>4, <3>1
  <2>4. CASE j < i
    <3>1. d # TheNames!Receiver
      BY <1>4 DEF TheNames!Receiver
    <3>2. e.id < d.id
      BY <1>1, <1>3, <1>5, <2>4, <3>1 DEF Rising
    <3> QED
      BY <1>4, <2>2, <3>2
  <2> QED
    BY <2>1, <2>3, <2>4
<1>6. \A j \in DOMAIN scopes : n \in DOMAIN scopes[j] => scopes[j][n].id <= d.id
  BY <1>5 DEF Has
<1>7. TheNames!Variants = VariantsOf(blocks, names)
  BY VariantsByBlocks
<1>8. \A m \in names : /\ TheNames!VariantIdent(m) # TheNames!GoIdent(m)
                       /\ TheNames!VariantIdent(m) # "t"
                       /\ TheNames!GoIdent(m) = "t" => m = "t"
  BY DEF TheNames!SpellingsDiffer
<1>9. ASSUME NEW a, g = TheNames!Lookup(chain, a), g.kind # "binder"
      PROVE  \E k : Has(blocks, k, a, g) /\ \A j, e : Has(blocks, j, a, e) => j =< k
  BY <1>1, <1>9, FoundOnChain
<1> SUFFICES ASSUME g # d, g.kind # "binder", d.kind # "static"
             PROVE  \/ g.id \in over
                    \/ /\ n \in TheNames!Variants /\ g.kind = "variant"
                       /\ ~(called /\ d.kind = "method")
                    \/ context = "method" /\ n = "t" /\ g = TheNames!Receiver
                    \/ context = "method" /\ d.kind \in {"field", "method"} /\ g.name = "t"
                    \/ g.name # n /\ TheNames!Ident(g.kind, g.name) = TheNames!Spelling(n)
                    \/ d.kind = "method" /\ ~called /\ g.id < d.id
  BY <1>4, <1>6 DEF RightUse
<1>10. CASE n \in TheNames!Variants /\ ~(called /\ d.kind = "method")
  <2>1. TheNames!Spelling(n) = TheNames!VariantIdent(n)
    BY <1>10 DEF TheNames!Spelling, TheNames!Ident
  <2>2. g = TheNames!Lookup(chain, TheNames!VariantIdent(n))
    BY <1>10, <2>1 DEF TheNames!Taken
  <2>3. PICK k : Has(blocks, k, TheNames!VariantIdent(n), g)
    BY <1>9, <2>2
  <2>4. CASE g.kind = "variant"
    BY <1>10, <2>4
  <2>5. CASE g.kind # "variant"
    <3>1. g.name \in names /\ g.kind \in Plain /\ TheNames!VariantIdent(n) = TheNames!GoIdent(g.name)
      BY <1>1, <1>8, <2>3, <2>5 DEF Spelled
    <3>2. g.name # n
      BY <1>8, <3>1
    <3>3. TheNames!Ident(g.kind, g.name) = TheNames!GoIdent(g.name)
      BY <2>5 DEF TheNames!Ident
    <3> QED
      BY <2>1, <3>1, <3>2, <3>3
  <2> QED
    BY <2>4, <2>5
<1>11. CASE \/ called /\ d.kind = "method"
            \/ n \notin TheNames!Variants /\ d.kind = "field"
  <2>1. context = "method"
    BY <1>1, <1>3, <1>11 DEF Inside, Members
  <2>2. g = TheNames!Lookup(chain, "t") /\ g # TheNames!Receiver
    BY <1>11 DEF TheNames!Taken
  <2>3. PICK k : Has(blocks, k, "t", g)
    BY <1>9, <2>2
  <2>4. g.name = "t"
    BY <1>1, <1>8, <2>2, <2>3 DEF Spelled
  <2> QED
    BY <1>11, <2>1, <2>4
<1>12. CASE n \notin TheNames!Variants /\ d.kind # "field" /\ ~(called /\ d.kind = "method")
  <2>1. d.kind \in Plain \/ (d.kind = "method" /\ ~called)
    BY <1>2, <1>3, <1>4, <1>7, <1>12 DEF Placed, Members
  <2>2. /\ g = TheNames!Lookup(chain, TheNames!GoIdent(n))
        /\ TheNames!Spelling(n) = TheNames!GoIdent(n)
    BY <1>12 DEF TheNames!Taken, TheNames!Spelling, TheNames!Ident
  <2>3. PICK k : /\ Has(blocks, k, TheNames!GoIdent(n), g)
                 /\ \A j, e : Has(blocks, j, TheNames!GoIdent(n), e) => j =< k
    BY <1>9, <2>2
  <2>5. CASE g = TheNames!Receiver
    <3>1. TheNames!GoIdent(n) = "t" /\ context = "method"
      <4>1. \/ TheNames!GoIdent(n) = "t" /\ context = "method"
            \/ g.id \in 1..count
        BY <1>1, <2>3 DEF Spelled
      <4>2. g.id \notin 1..count
        BY <1>1, <2>5 DEF TheNames!Receiver
      <4> QED
        BY <4>1, <4>2
    <3>2. n = "t"
      BY <1>8, <3>1
    <3> QED
      BY <2>5, <3>1, <3>2
  <2>6. CASE g # TheNames!Receiver
    <3>1. /\ g.id \in 1..count /\ g.name \in names
          /\ \/ g.kind = "variant" /\ TheNames!GoIdent(n) = TheNames!VariantIdent(g.name)
             \/ /\ g.kind \in Plain /\ TheNames!GoIdent(n) = TheNames!GoIdent(g.name)
                /\ \/ g.id \in over
                   \/ g.name \in VariantsOf(blocks, names)
                   \/ \E l : Has(scopes, l, g.name, g)
      BY <1>1, <2>3, <2>6 DEF Spelled
    <3>2. TheNames!Ident(g.kind, g.name) = TheNames!Spelling(n)
      BY <2>2, <3>1 DEF TheNames!Ident, Plain
    <3>3. ASSUME g.name = n, NEW l, Has(scopes, l, g.name, g)
          PROVE  d.kind = "method" /\ ~called /\ g.id < d.id
      <4>1. g.id =< d.id /\ g.id \in 1..count /\ g.id < d.id
        BY <1>5, <3>3
      <4>2. ASSUME NEW j, Has(blocks, j, TheNames!GoIdent(n), d) PROVE FALSE
        <5>1. j \in Nat /\ k \in Nat /\ j =< k
          BY <1>1, <2>3, <4>2, HasBounds
        <5>2. CASE j = k
          BY <2>3, <4>2, <5>2 DEF Has
        <5>3. CASE j < k
          <6>1. d.id < g.id
            BY <1>1, <2>3, <4>2, <2>6, <5>3 DEF Rising
          <6> QED
            BY <1>4, <4>1, <6>1
        <5> QED
          BY <5>1, <5>2, <5>3
      <4>3. d.kind \notin Plain
        BY <1>2, <1>3, <4>2 DEF Placed
      <4> QED
        BY <2>1, <4>1, <4>3
    <3>4. CASE g.name = n
      BY <1>7, <1>8, <1>12, <3>1, <3>3, <3>4
    <3>5. CASE g.name # n
      BY <3>2, <3>5
    <3> QED
      BY <3>4, <3>5
  <2> QED
    BY <2>5, <2>6
<1> QED
  BY <1>10, <1>11, <1>12

\* The chains are never empty, and hold two frames from the signature on.
LEMMA LongEnough ==
  ASSUME ChainsMatch
  PROVE  /\ Len(scopes) \in Nat /\ Len(scopes) >= Least /\ Len(blocks) \in Nat /\ Len(blocks) >= Least
<1>1. Len(nest) \in Nat /\ Len(scopes) \in Nat /\ Len(blocks) \in Nat
  BY ChainBounds DEF ChainsMatch, Shape
<1>2. PICK S, B : Levels(nest, Len(scopes), Len(blocks), Least, S, B)
  BY DEF ChainsMatch, Sited
<1>3. Len(nest) \in 0..Len(nest)
  BY <1>1
<1> QED
  BY <1>1, <1>2, <1>3 DEF Levels

\* A step that is no use keeps the property as it is.
LEMMA Unused ==
  ASSUME NamesInv, names' = names, phase' \in Going \cup {"refused", "not-built"},
         use' = TheNames!NoUse, phase' \in Going => ChainsMatch'
  PROVE  NamesInv'
  BY DEF NamesInv, TheNames!BindsAsResolved

\* An empty package matches.
LEMMA NamesInvInit == TheNames!Init => NamesInv
<1> SUFFICES ASSUME TheNames!Init PROVE NamesInv
  OBVIOUS
<1>1. /\ names \in NameSets /\ phase = "package" /\ context = "func"
      /\ scopes = <<TheNames!Empty>> /\ blocks = <<TheNames!Empty>>
      /\ nest = <<>> /\ count = 0 /\ over = {} /\ use = TheNames!NoUse
  BY DEF TheNames!Init
<1>2. scopes \in Seq({TheNames!Empty}) /\ blocks \in Seq({TheNames!Empty})
  BY <1>1
<1>3. Len(scopes) = 1 /\ Len(blocks) = 1 /\ DOMAIN scopes = {1} /\ DOMAIN blocks = {1}
      /\ scopes[1] = TheNames!Empty /\ blocks[1] = TheNames!Empty
  BY <1>1
<1>4. /\ \A i, n, d : ~Has(scopes, i, n, d)
      /\ \A i, n, d : ~Has(blocks, i, n, d)
  BY <1>3, FramesOfOne DEF Has
<1>5. Shape
  <2>1. IsChain(scopes) /\ IsChain(blocks)
    BY <1>2, Zenon DEF IsChain
  <2>2. nest \in Seq(TheNames!Constructs) /\ over \subseteq 1..count /\ count \in Nat
    BY <1>1
  <2> QED
    BY <1>1, <1>3, <2>1, <2>2 DEF Shape
<1>6. Sited(nest, scopes, blocks, names, Least)
  <2> DEFINE O == [j \in 0..0 |-> 1]
  <2>1. O \in [0..0 -> Nat] /\ O[0] = 1
    OBVIOUS
  <2> HIDE DEF O
  <2>2. Len(nest) = 0 /\ Least = 1 /\ 0..0 = {0} /\ 1..0 = {}
    BY <1>1 DEF Least
  <2>3. Levels(nest, Len(scopes), Len(blocks), Least, O, O)
    BY <1>3, <2>1, <2>2 DEF Levels
  <2>4. Placed(scopes, blocks, names, Len(nest), O, O)
    BY <1>4 DEF Placed
  <2> QED
    BY <2>3, <2>4 DEF Sited
<1>7. ChainsMatch
  BY <1>4, <1>5, <1>6 DEF ChainsMatch, Live, Inside, Rising, Spelled
<1> QED
  BY <1>1, <1>7 DEF NamesInv, Going, TheNames!BindsAsResolved

\* A declaration in the last scope and the last block.
LEMMA DeclareKeeps ==
  ASSUME NamesInv, names' = names, phase \in {"package", "signature", "body"},
         NEW n \in names, NEW a, NEW kd,
         \/ kd = "variant" /\ a = TheNames!VariantIdent(n) /\ phase = "package"
         \/ kd \in Plain /\ a = TheNames!GoIdent(n),
         scopes' = TheNames!BindLast(scopes, n, TheNames!Decl(kd, n)),
         TheNames!GoDeclares(a, TheNames!Decl(kd, n)),
         count' = count + 1, UNCHANGED <<context, nest, over>>, use' = TheNames!NoUse
  PROVE  NamesInv'
<1>1. ChainsMatch
  BY DEF NamesInv, Going
<1> PICK d : d = [id |-> count + 1, kind |-> kd, name |-> n]
  OBVIOUS
<1>2. d = TheNames!Decl(kd, n)
  BY DEF TheNames!Decl
<1>3. CASE a \in DOMAIN TheNames!Last(blocks)
  <2>1. phase' = "not-built"
    BY <1>3 DEF TheNames!GoDeclares
  <2> QED
    BY <2>1, Unused DEF Going
<1>4. CASE a \notin DOMAIN TheNames!Last(blocks)
  <2>1. phase' = phase /\ blocks' = TheNames!BindLast(blocks, a, d)
    BY <1>2, <1>4 DEF TheNames!GoDeclares
  <2>2. phase = "package" => Len(blocks) = 1
    BY <1>1 DEF ChainsMatch, Shape
  <2>3. /\ IsChain(scopes') /\ IsChain(blocks')
        /\ Len(scopes') = Len(scopes) /\ Len(blocks') = Len(blocks)
        /\ Live(scopes', names, count + 1, over) /\ Inside(scopes', phase, context)
        /\ Rising(scopes') /\ Rising(blocks')
        /\ Spelled(blocks', scopes', names, count + 1, over, context)
        /\ Sited(nest, scopes', blocks', names, Least)
    BY <1>1, <1>2, <1>4, <2>1, <2>2, DeclaredInLast
  <2>4. Least' = Least
    BY <2>1 DEF Least
  <2>5. Shape'
    <3>1. Shape
      BY <1>1 DEF ChainsMatch
    <3>2. over \subseteq 1..(count + 1) /\ count + 1 \in Nat
      BY <3>1 DEF Shape
    <3> QED
      BY <2>1, <2>3, <3>1, <3>2 DEF Shape
  <2>6. ChainsMatch'
    BY <2>1, <2>3, <2>4, <2>5 DEF ChainsMatch
  <2> QED
    BY <2>1, <2>6, Unused DEF Going
<1> QED
  BY <1>3, <1>4

\* indexFile, resolveFuncDecl and resolveStmt with a new declaration.
LEMMA NamesInvDeclares ==
  ASSUME NamesInv, names' = names, NEW n \in names,
         \/ \E k \in {"func", "variant"} : TheNames!DeclareTop(k, n)
         \/ TheNames!DeclareParam(n)
         \/ TheNames!DeclareLocal(n)
  PROVE  NamesInv'
<1>1. ASSUME NEW k \in {"func", "variant"}, TheNames!DeclareTop(k, n) PROVE NamesInv'
  <2>1. phase = "package" /\ count' = count + 1 /\ UNCHANGED <<context, nest, over, use>>
    BY <1>1 DEF TheNames!DeclareTop
  <2>2. use' = TheNames!NoUse
    BY <2>1 DEF NamesInv
  <2>3. CASE phase' = "refused"
    BY <2>2, <2>3, Unused DEF Going
  <2>4. CASE phase' # "refused"
    <3> PICK a : a = IF k = "variant" THEN TheNames!VariantIdent(n) ELSE TheNames!GoIdent(n)
      OBVIOUS
    <3>1. /\ scopes' = TheNames!BindLast(scopes, n, TheNames!Decl(k, n))
          /\ TheNames!GoDeclares(a, TheNames!Decl(k, n))
      BY <1>1, <2>4 DEF TheNames!DeclareTop, TheNames!Ident
    <3>2. \/ k = "variant" /\ a = TheNames!VariantIdent(n)
          \/ k \in Plain /\ a = TheNames!GoIdent(n)
      BY DEF Plain
    <3> QED
      BY <2>1, <2>2, <3>1, <3>2, DeclareKeeps
  <2> QED
    BY <2>3, <2>4
<1>2. ASSUME TheNames!Declare(n), phase \in {"signature", "body"} PROVE NamesInv'
  <2>1. /\ scopes' = TheNames!BindLast(scopes, n, TheNames!Decl("local", n))
        /\ TheNames!GoDeclares(TheNames!GoIdent(n), TheNames!Decl("local", n))
        /\ count' = count + 1 /\ use' = TheNames!NoUse /\ UNCHANGED <<context, nest, over>>
    BY <1>2 DEF TheNames!Declare
  <2>2. "local" \in Plain
    BY DEF Plain
  <2> QED
    BY <1>2, <2>1, <2>2, DeclareKeeps
<1> QED
  BY <1>1, <1>2 DEF TheNames!DeclareParam, TheNames!DeclareLocal

\* resolveClassDecl with a member: a scope has it, no block does.
LEMMA NamesInvDeclareMember ==
  ASSUME NamesInv, names' = names, NEW n \in names, NEW kd \in Members,
         TheNames!DeclareMember(kd, n)
  PROVE  NamesInv'
<1>1. /\ phase = "class" /\ n \notin DOMAIN TheNames!Last(scopes)
      /\ scopes' = TheNames!BindLast(scopes, n, TheNames!Decl(kd, n))
      /\ count' = count + 1
      /\ UNCHANGED <<phase, context, blocks, nest, over, use>>
  BY DEF TheNames!DeclareMember
<1>2. ChainsMatch
  BY <1>1 DEF NamesInv, Going
<1>3. Shape /\ Live(scopes, names, count, over) /\ Inside(scopes, phase, context)
      /\ Rising(scopes) /\ Rising(blocks)
      /\ Spelled(blocks, scopes, names, count, over, context)
      /\ Sited(nest, scopes, blocks, names, Least)
  BY <1>2 DEF ChainsMatch
<1>4. IsChain(scopes) /\ Len(scopes) = 2 /\ count \in Nat /\ over \subseteq 1..count
  BY <1>1, <1>3 DEF Shape
<1> PICK d : d = TheNames!Decl(kd, n)
  OBVIOUS
<1>5. d.id = count + 1 /\ d.kind = kd /\ d.name = n
  BY DEF TheNames!Decl
<1>6. \A e : ~Has(scopes, 2, n, e)
  <2>1. Len(scopes) >= 1
    BY <1>4
  <2>2. \A e : ~Has(scopes, Len(scopes), n, e)
    BY <1>1, <1>4, <2>1, HasInLast
  <2> QED
    BY <1>4, <2>2
<1>7. IsChain(scopes') /\ Len(scopes') = 2
      /\ \A i, m, e : Has(scopes', i, m, e) <=>
           \/ i = 2 /\ m = n /\ e = d
           \/ ~(i = 2 /\ m = n) /\ Has(scopes, i, m, e)
  <2>1. Len(scopes) >= 1 /\ IsChain(scopes)
    BY <1>4
  <2> PICK t : t = TheNames!BindLast(scopes, n, d)
    OBVIOUS
  <2>2. scopes' = t
    BY <1>1
  <2>3. /\ IsChain(t) /\ Len(t) = Len(scopes)
        /\ \A i, m, e : Has(t, i, m, e) <=>
             \/ i = Len(scopes) /\ m = n /\ e = d
             \/ ~(i = Len(scopes) /\ m = n) /\ Has(scopes, i, m, e)
    BY <2>1, HasBindLast
  <2> QED
    BY <1>4, <2>2, <2>3
<1>8. \A i, m, e : Has(scopes', i, m, e) <=> (i = 2 /\ m = n /\ e = d) \/ Has(scopes, i, m, e)
  BY <1>6, <1>7
<1>9. \A i, m, e : Has(scopes, i, m, e) => i \in Nat /\ i =< 2
  BY <1>4, HasBounds
<1>10. Live(scopes', names, count + 1, over)
  <2>1. count + 1 \notin over /\ count + 1 \in 1..(count + 1) /\ \A x \in 1..count : x \in 1..(count + 1)
    BY <1>4
  <2> QED
    BY <1>3, <1>5, <1>8, <2>1 DEF Live
<1>11. Inside(scopes', phase, context)
  BY <1>1, <1>3, <1>5, <1>8 DEF Inside, Members, Plain
<1>12. Rising(scopes')
  <2>1. \A i, m, e : Has(scopes, i, m, e) => e = TheNames!Receiver \/ e.id \in 1..count
    BY <1>3 DEF Live
  <2>2. \A i, m, e : Has(scopes', i, m, e) =>
          Has(scopes, i, m, e) \/ (i = 2 /\ e.id = count + 1) \/ e = TheNames!Receiver
    BY <1>5, <1>8
  <2> QED
    BY <1>3, <1>4, <1>9, <2>1, <2>2, StillRising
<1>13. Spelled(blocks, scopes', names, count + 1, over, context)
  <2>1. \A x \in 1..count : x \in 1..(count + 1)
    BY <1>4
  <2> QED
    BY <1>3, <1>8, <2>1 DEF Spelled
<1>14. Sited(nest, scopes', blocks, names, Least)
  <2>1. PICK S, B : /\ Levels(nest, Len(scopes), Len(blocks), Least, S, B)
                    /\ Placed(scopes, blocks, names, Len(nest), S, B)
    BY <1>3 DEF Sited
  <2>2. Placed(scopes', blocks, names, Len(nest), S, B)
    BY <1>5, <1>8, <2>1 DEF Placed, Members, Plain
  <2> QED
    BY <1>4, <1>7, <2>1, <2>2 DEF Sited
<1>15. Shape'
  BY <1>1, <1>3, <1>4, <1>7 DEF Shape
<1>16. Least' = Least
  BY <1>1 DEF Least
<1>17. ChainsMatch'
  BY <1>1, <1>3, <1>10, <1>11, <1>12, <1>13, <1>14, <1>15, <1>16 DEF ChainsMatch
<1>18. use' = TheNames!NoUse
  BY <1>1 DEF NamesInv
<1> QED
  BY <1>1, <1>17, <1>18, Unused DEF Going

\* A new scope outside of all constructs.
LEMMA OpensFrame ==
  ASSUME NamesInv, names' = names, phase \in Going, phase' \in Going, nest = <<>>,
         UNCHANGED <<nest, count, over>>, use' = TheNames!NoUse,
         Shape', Inside(scopes', phase', context'),
         Len(scopes') >= Least', Len(blocks') >= Least',
         NoMore(scopes, scopes', blocks, blocks', names, count, over, context, context'),
         \A i, m, e : Has(scopes', i, m, e) => i < Len(scopes')
  PROVE  NamesInv'
<1>1. /\ Live(scopes', names, count, over) /\ Rising(scopes') /\ Rising(blocks')
      /\ Spelled(blocks', scopes', names, count, over, context')
  BY NoneDeclared
<1> PICK t, g, floor : t = scopes' /\ g = blocks' /\ floor = Least
  OBVIOUS
<1> PICK least \in Nat : least = Least'
  BY DEF Least
<1>2. Sited(<<>>, t, g, names, least)
  <2>1. IsChain(scopes) /\ IsChain(blocks) /\ Sited(<<>>, scopes, blocks, names, floor)
    BY DEF NamesInv, ChainsMatch, Shape
  <2>2. IsChain(t) /\ IsChain(g) /\ Len(t) >= least /\ Len(g) >= least
    BY DEF Shape
  <2>3. /\ \A i, m, e : Has(t, i, m, e) => Has(scopes, i, m, e) /\ i < Len(t)
        /\ \A i, m, e : Has(blocks, i, m, e) => Has(g, i, m, e)
    BY DEF NoMore
  <2> QED
    BY <2>1, <2>2, <2>3, SitedOutside
<1>3. ChainsMatch'
  BY <1>1, <1>2 DEF ChainsMatch
<1> QED
  BY <1>3, Unused

\* What a chain says of a longer one with an empty last frame.
LEMMA OneEmptyFrame ==
  ASSUME ChainsMatch
  PROVE  LET t == Append(scopes, TheNames!Empty) IN
         /\ IsChain(t) /\ Len(t) = Len(scopes) + 1
         /\ \A i, m, e : Has(t, i, m, e) <=> Has(scopes, i, m, e)
         /\ \A i, m, e : Has(t, i, m, e) => i < Len(t)
<1> PICK t : t = Append(scopes, TheNames!Empty)
  OBVIOUS
<1>1. IsChain(scopes) /\ Len(scopes) \in Nat
  BY LongEnough DEF ChainsMatch, Shape
<1>2. /\ IsChain(t) /\ Len(t) = Len(scopes) + 1
      /\ \A i, m, e : Has(t, i, m, e) <=> Has(scopes, i, m, e)
  BY <1>1, HasNone
<1>3. \A i, m, e : Has(scopes, i, m, e) => i \in Nat /\ i =< Len(scopes)
  BY <1>1, HasBounds
<1>4. \A i, m, e : Has(t, i, m, e) => i < Len(t)
  BY <1>1, <1>2, <1>3
<1> QED
  BY <1>2, <1>4

\* resolveClassDecl: a scope for the members.
LEMMA NamesInvEnterClass ==
  ASSUME NamesInv, names' = names, TheNames!EnterClass
  PROVE  NamesInv'
<1>1. /\ phase = "package" /\ phase' = "class"
      /\ scopes' = Append(scopes, TheNames!Empty)
      /\ UNCHANGED <<context, blocks, nest, count, over, use>>
  BY DEF TheNames!EnterClass
<1>2. ChainsMatch /\ use' = TheNames!NoUse
  BY <1>1 DEF NamesInv, Going
<1>3. Shape /\ Live(scopes, names, count, over) /\ Inside(scopes, phase, context)
      /\ Rising(scopes) /\ Rising(blocks)
      /\ Spelled(blocks, scopes, names, count, over, context)
  BY <1>2 DEF ChainsMatch
<1>4. /\ IsChain(scopes') /\ Len(scopes') = Len(scopes) + 1
      /\ \A i, m, e : Has(scopes', i, m, e) <=> Has(scopes, i, m, e)
      /\ \A i, m, e : Has(scopes', i, m, e) => i < Len(scopes')
  BY <1>1, <1>2, OneEmptyFrame
<1>5. nest = <<>> /\ Len(scopes) = 1 /\ Len(blocks) = 1
  BY <1>1, <1>3 DEF Shape
<1>6. Shape'
  BY <1>1, <1>3, <1>4, <1>5 DEF Shape
<1>7. \A i, m, e : Has(scopes, i, m, e) => i = 1
  <2>1. \A i, m, e : Has(scopes, i, m, e) => i \in Nat /\ 1 =< i /\ i =< Len(scopes)
    BY <1>3, HasBounds DEF Shape
  <2> QED
    BY <1>5, <2>1
<1>8. Inside(scopes', phase', context')
  BY <1>1, <1>3, <1>4, <1>7 DEF Inside
<1>9. NoMore(scopes, scopes', blocks, blocks', names, count, over, context, context')
  <2>1. \A i, m, e : Has(blocks, i, m, e) => i \in Nat
    BY <1>3, HasBounds DEF Shape
  <2>2. over \in SUBSET (1..count) /\ count \in Nat /\ context = "func" /\ context' = "func"
    BY <1>1, <1>3 DEF Shape
  <2> QED
    BY <1>1, <1>3, <1>4, <2>1, <2>2 DEF NoMore
<1>10. Len(scopes') >= Least' /\ Len(blocks') >= Least'
  BY <1>1, <1>4, <1>5 DEF Least
<1> QED
  BY <1>1, <1>2, <1>4, <1>5, <1>6, <1>8, <1>9, <1>10, OpensFrame DEF Going

\* resolveBlock for the body of a function: a scope, and no block.
LEMMA NamesInvEnterBody ==
  ASSUME NamesInv, names' = names, TheNames!EnterBody
  PROVE  NamesInv'
<1>1. /\ phase = "signature" /\ phase' = "body"
      /\ scopes' = Append(scopes, TheNames!Empty)
      /\ UNCHANGED <<context, blocks, nest, count, over, use>>
  BY DEF TheNames!EnterBody
<1>2. ChainsMatch /\ use' = TheNames!NoUse
  BY <1>1 DEF NamesInv, Going
<1>3. Shape /\ Live(scopes, names, count, over) /\ Inside(scopes, phase, context)
      /\ Rising(scopes) /\ Rising(blocks)
      /\ Spelled(blocks, scopes, names, count, over, context)
  BY <1>2 DEF ChainsMatch
<1>4. /\ IsChain(scopes') /\ Len(scopes') = Len(scopes) + 1
      /\ \A i, m, e : Has(scopes', i, m, e) <=> Has(scopes, i, m, e)
      /\ \A i, m, e : Has(scopes', i, m, e) => i < Len(scopes')
  BY <1>1, <1>2, OneEmptyFrame
<1>5. nest = <<>>
  BY <1>1, <1>3 DEF Shape
<1>6. Shape'
  BY <1>1, <1>3, <1>4, <1>5 DEF Shape
<1>7. Inside(scopes', phase', context')
  BY <1>1, <1>3, <1>4 DEF Inside
<1>8. NoMore(scopes, scopes', blocks, blocks', names, count, over, context, context')
  <2>1. \A i, m, e : Has(blocks, i, m, e) => i \in Nat
    BY <1>3, HasBounds DEF Shape
  <2>2. over \in SUBSET (1..count) /\ count \in Nat
    BY <1>3 DEF Shape
  <2> QED
    BY <1>1, <1>3, <1>4, <2>1, <2>2 DEF NoMore
<1>9. Len(scopes') >= Least' /\ Len(blocks') >= Least'
  BY <1>1, <1>2, <1>4, LongEnough DEF Least
<1> QED
  BY <1>1, <1>2, <1>4, <1>5, <1>6, <1>7, <1>8, <1>9, OpensFrame DEF Going

\* resolveFuncDecl and resolveMethod: a static method leaves the members out, and
\* emitMethod's receiver is in a block only.
LEMMA NamesInvEnterFunction ==
  ASSUME NamesInv, names' = names, NEW c \in {"func", "method", "static"},
         TheNames!EnterFunction(c)
  PROVE  NamesInv'
<1>1. /\ phase \in {"package", "class"} /\ phase' = "signature" /\ context' = c
      /\ c = "func" => phase = "package"
      /\ c # "func" => phase = "class"
      /\ UNCHANGED <<nest, count, over, use>>
  BY DEF TheNames!EnterFunction
<1>2. ChainsMatch /\ use' = TheNames!NoUse
  BY <1>1 DEF NamesInv, Going
<1>3. Shape /\ Live(scopes, names, count, over) /\ Inside(scopes, phase, context)
      /\ Rising(scopes) /\ Rising(blocks)
      /\ Spelled(blocks, scopes, names, count, over, context)
  BY <1>2 DEF ChainsMatch
<1>4. /\ IsChain(scopes) /\ IsChain(blocks) /\ nest = <<>> /\ context = "func"
      /\ Len(blocks) = 1 /\ Len(scopes) \in {1, 2} /\ count \in Nat /\ over \in SUBSET (1..count)
      /\ phase = "package" => Len(scopes) = 1
      /\ phase = "class" => Len(scopes) = 2
  BY <1>1, <1>3 DEF Shape
<1>5. PICK r : /\ r = (IF c = "static" THEN TheNames!Front(scopes) ELSE scopes)
               /\ scopes' = Append(r, TheNames!Empty)
  BY DEF TheNames!EnterFunction
<1>6. /\ IsChain(r) /\ Len(r) \in {1, 2}
      /\ \A i, m, e : Has(r, i, m, e) => Has(scopes, i, m, e)
      /\ c = "static" => \A i, m, e : Has(r, i, m, e) => i = 1
      /\ \A i, m, e : Has(scopes, i, m, e) /\ e.kind \in Plain => Has(r, i, m, e)
  <2>1. CASE c = "static"
    <3>1. Len(scopes) = 2 /\ phase = "class"
      BY <1>1, <1>4, <2>1
    <3>2. r = SubSeq(scopes, 1, 1)
      BY <1>5, <2>1, <3>1 DEF TheNames!Front
    <3>3. 1 \in Nat /\ 1 =< Len(scopes)
      BY <3>1
    <3>4. /\ IsChain(r) /\ Len(r) = 1
          /\ \A i, m, e : Has(r, i, m, e) <=> Has(scopes, i, m, e) /\ i =< 1
      BY <1>4, <3>2, <3>3, HasFirst
    <3>5. \A i, m, e : Has(scopes, i, m, e) => i \in Nat /\ 1 =< i
      BY <1>4, HasBounds
    <3>6. \A i, m, e : Has(scopes, i, m, e) /\ e.kind \in Plain => i = 1
      BY <1>3, <3>1 DEF Inside
    <3>7. \A i, m, e : Has(r, i, m, e) => i = 1
      BY <3>4, <3>5
    <3>8. \A i, m, e : Has(scopes, i, m, e) /\ e.kind \in Plain => Has(r, i, m, e)
      BY <3>4, <3>6
    <3> QED
      BY <3>4, <3>7, <3>8
  <2>2. CASE c # "static"
    BY <1>4, <1>5, <2>2
  <2> QED
    BY <2>1, <2>2
<1>7. /\ IsChain(scopes') /\ Len(scopes') = Len(r) + 1
      /\ \A i, m, e : Has(scopes', i, m, e) <=> Has(r, i, m, e)
  BY <1>5, <1>6, HasNone
<1>8. \A i, m, e : Has(r, i, m, e) => i \in Nat /\ i =< Len(r)
  BY <1>6, HasBounds
<1>9. \A i, m, e : Has(scopes', i, m, e) => i < Len(scopes')
  BY <1>6, <1>7, <1>8
<1>10. /\ IsChain(blocks') /\ Len(blocks') = 2
       /\ \A i, m, e : Has(blocks, i, m, e) => Has(blocks', i, m, e)
       /\ \A i, m, e : Has(blocks', i, m, e) =>
            Has(blocks, i, m, e) \/ (e = TheNames!Receiver /\ m = "t" /\ c = "method")
  <2>1. CASE c = "method"
    <3>1. blocks' = Append(blocks, TheNames!Bind(TheNames!Empty, "t", TheNames!Receiver))
      BY <2>1 DEF TheNames!EnterFunction
    <3>2. /\ IsChain(blocks') /\ Len(blocks') = Len(blocks) + 1
          /\ \A i, m, e : Has(blocks', i, m, e) <=>
               Has(blocks, i, m, e) \/ (i = Len(blocks) + 1 /\ m = "t" /\ e = TheNames!Receiver)
      <4>1. PICK n, d : n = "t" /\ d = TheNames!Receiver
        OBVIOUS
      <4>2. blocks' = Append(blocks, TheNames!Bind(TheNames!Empty, n, d)) /\ IsChain(blocks)
        BY <1>4, <3>1, <4>1
      <4>3. /\ IsChain(blocks') /\ Len(blocks') = Len(blocks) + 1
            /\ \A i, m, e : Has(blocks', i, m, e) <=>
                 Has(blocks, i, m, e) \/ (i = Len(blocks) + 1 /\ m = n /\ e = d)
        BY <4>2, HasOne
      <4> QED
        BY <4>1, <4>3
    <3> QED
      BY <1>4, <2>1, <3>2
  <2>2. CASE c # "method"
    <3>1. blocks' = Append(blocks, TheNames!Empty)
      BY <2>2 DEF TheNames!EnterFunction
    <3>2. /\ IsChain(blocks') /\ Len(blocks') = Len(blocks) + 1
          /\ \A i, m, e : Has(blocks', i, m, e) <=> Has(blocks, i, m, e)
      BY <1>4, <3>1, HasNone
    <3> QED
      BY <1>4, <3>2
  <2> QED
    BY <2>1, <2>2
<1>11. Shape'
  BY <1>1, <1>3, <1>4, <1>7, <1>10 DEF Shape
<1>12. Inside(scopes', phase', context')
  <2> SUFFICES ASSUME NEW i, NEW m, NEW e, Has(scopes', i, m, e)
               PROVE  e.kind \in Members => i # 1 /\ context' = "method"
    BY <1>1 DEF Inside
  <2>1. Has(r, i, m, e) /\ Has(scopes, i, m, e)
    BY <1>6, <1>7
  <2>2. e.kind \in Members => i # 1 /\ phase = "class"
    BY <1>3, <1>4, <2>1 DEF Inside
  <2> QED
    BY <1>1, <1>6, <2>1, <2>2
<1>13. NoMore(scopes, scopes', blocks, blocks', names, count, over, context, context')
  <2>1. \A i, m, e : Has(blocks, i, m, e) => i \in Nat
    BY <1>4, HasBounds
  <2>2. \A i, m, e : Has(scopes', i, m, e) => Has(scopes, i, m, e)
    BY <1>6, <1>7
  <2>3. \A i, m, e : Has(scopes, i, m, e) /\ e.kind \in Plain => Has(scopes', i, m, e)
    BY <1>6, <1>7
  <2> QED
    BY <1>1, <1>3, <1>4, <1>10, <2>1, <2>2, <2>3 DEF NoMore
<1>14. Len(scopes') >= Least' /\ Len(blocks') >= Least'
  <2>1. Least' \in {1, 2}
    BY DEF Least
  <2>2. Len(scopes') >= 2 /\ Len(blocks') >= 2
    <3>1. Len(r) \in {1, 2} /\ Len(scopes') = Len(r) + 1 /\ Len(blocks') = 2
      BY <1>6, <1>7, <1>10, Zenon
    <3>2. (\A n \in {1, 2} : n + 1 >= 2) /\ 2 >= 2
      OBVIOUS
    <3> QED
      BY <3>1, <3>2, Zenon
  <2> QED
    BY <2>1, <2>2
<1>15. phase \in Going /\ phase' \in Going
  BY <1>1 DEF Going
<1> QED
  BY <1>1, <1>2, <1>4, <1>9, <1>11, <1>12, <1>13, <1>14, <1>15, OpensFrame

\* A construct more around.
LEMMA OpensConstruct ==
  ASSUME NamesInv, names' = names, phase = "body", NEW c \in TheNames!Constructs,
         UNCHANGED <<phase, context, over>>, use' = TheNames!NoUse, nest' = Append(nest, c),
         count' \in {count, count + 1},
         IsChain(scopes'), IsChain(blocks'),
         Len(scopes') = Len(scopes) + c.scopes, Len(blocks') = Len(blocks) + c.blocks,
         /\ Live(scopes', names, count', over) /\ Rising(scopes') /\ Rising(blocks')
         /\ Spelled(blocks', scopes', names, count', over, context),
         \A i, m, e : Has(scopes', i, m, e) =>
           \/ Has(scopes, i, m, e)
           \/ /\ i = Len(scopes) + 1 /\ i < Len(scopes') /\ e.kind = "local" /\ c.blocks >= 1
              /\ Has(blocks', Len(blocks) + 1, TheNames!GoIdent(m), e),
         \A i, m, e : Has(blocks, i, m, e) => Has(blocks', i, m, e)
  PROVE  NamesInv'
<1>1. Shape /\ Inside(scopes, phase, context) /\ Sited(nest, scopes, blocks, names, 2)
  BY DEF NamesInv, ChainsMatch, Going, Least
<1> PICK t, g : t = scopes' /\ g = blocks'
  OBVIOUS
<1>2. Sited(Append(nest, c), t, g, names, 2)
  <2>1. /\ IsChain(scopes) /\ IsChain(blocks) /\ IsChain(t) /\ IsChain(g)
        /\ nest \in Seq(TheNames!Constructs) /\ 2 \in Nat
        /\ Len(t) = Len(scopes) + c.scopes /\ Len(g) = Len(blocks) + c.blocks
    BY <1>1 DEF Shape
  <2>2. \A i, m, e : Has(t, i, m, e) =>
           \/ Has(scopes, i, m, e)
           \/ /\ i = Len(scopes) + 1 /\ i < Len(t) /\ e.kind = "local" /\ c.blocks >= 1
              /\ Has(g, Len(blocks) + 1, TheNames!GoIdent(m), e)
    OBVIOUS
  <2>3. \A i, m, e : Has(blocks, i, m, e) => Has(g, i, m, e)
    OBVIOUS
  <2> QED
    BY <1>1, <2>1, <2>2, <2>3, SitedInside
<1>3. Inside(scopes', phase, context)
  BY <1>1 DEF Inside, Members, Plain
<1>4. Shape'
  <2>1. count' \in Nat /\ over' \subseteq 1..count'
    <3>1. count \in Nat /\ \A x \in 1..count : x \in 1..(count + 1)
      BY <1>1 DEF Shape
    <3> QED
      BY <1>1, <3>1 DEF Shape
  <2>2. nest' \in Seq(TheNames!Constructs)
    BY <1>1 DEF Shape
  <2> QED
    BY <2>1, <2>2 DEF Shape
<1>5. Least' = 2
  BY DEF Least
<1>6. Sited(nest', scopes', blocks', names, Least')
  BY <1>2, <1>5
<1>7. ChainsMatch'
  BY <1>3, <1>4, <1>6 DEF ChainsMatch
<1> QED
  BY <1>7, Unused DEF Going

\* A construct that binds nothing.
LEMMA NamesInvEnter ==
  ASSUME NamesInv, names' = names, NEW c \in TheNames!Constructs, TheNames!Enter(c)
  PROVE  NamesInv'
<1>1. /\ phase = "body" /\ nest' = Append(nest, c)
      /\ scopes' = scopes \o TheNames!EmptyFrames(c.scopes)
      /\ blocks' = blocks \o TheNames!EmptyFrames(c.blocks)
      /\ use' = TheNames!NoUse /\ UNCHANGED <<phase, context, count, over>>
  BY DEF TheNames!Enter
<1>2. ChainsMatch
  BY <1>1 DEF NamesInv, Going
<1>3. /\ IsChain(scopes) /\ IsChain(blocks) /\ count \in Nat /\ over \in SUBSET (1..count)
      /\ Live(scopes, names, count, over) /\ Inside(scopes, phase, context)
      /\ Rising(scopes) /\ Rising(blocks)
      /\ Spelled(blocks, scopes, names, count, over, context)
  BY <1>2 DEF ChainsMatch, Shape
<1>4. c.scopes \in {0, 1, 2} /\ c.blocks \in {0, 1, 2}
  BY SizesOfConstructs
<1>5. /\ IsChain(scopes') /\ Len(scopes') = Len(scopes) + c.scopes
      /\ \A i, m, e : Has(scopes', i, m, e) <=> Has(scopes, i, m, e)
  BY <1>1, <1>3, <1>4, HasEmptyFrames
<1>6. /\ IsChain(blocks') /\ Len(blocks') = Len(blocks) + c.blocks
      /\ \A i, m, e : Has(blocks', i, m, e) <=> Has(blocks, i, m, e)
  BY <1>1, <1>3, <1>4, HasEmptyFrames
<1>7. NoMore(scopes, scopes', blocks, blocks', names, count, over, context, context)
  <2>1. \A i, m, e : Has(blocks, i, m, e) => i \in Nat
    BY <1>3, HasBounds
  <2> QED
    BY <1>3, <1>5, <1>6, <2>1 DEF NoMore
<1>8. /\ Live(scopes', names, count, over) /\ Rising(scopes') /\ Rising(blocks')
      /\ Spelled(blocks', scopes', names, count, over, context)
  BY <1>7, NoneDeclared
<1> QED
  BY <1>1, <1>5, <1>6, <1>8, OpensConstruct

\* Two more frames, one after the other.
LEMMA TwoMoreFrames ==
  ASSUME NEW s, IsChain(s), NEW f, NEW h
  PROVE  s \o <<f, h>> = Append(Append(s, f), h) /\ s \o <<f>> = Append(s, f)
<1> PICK F : s \in Seq(F)
  BY DEF IsChain
<1> PICK H : H = F \cup {f, h}
  OBVIOUS
<1>1. s \in Seq(H) /\ f \in H /\ h \in H
  OBVIOUS
<1> QED
  BY <1>1

\* A construct with a binder.
LEMMA NamesInvEnterBinding ==
  ASSUME NamesInv, names' = names, NEW c \in TheNames!Constructs, NEW n \in names,
         TheNames!EnterBinding(c, n)
  PROVE  NamesInv'
<1> PICK d, a : d = TheNames!Decl("local", n) /\ a = TheNames!GoIdent(n)
  OBVIOUS
<1>1. /\ phase = "body" /\ nest' = Append(nest, c) /\ TheNames!Binds(c)
      /\ scopes' = scopes \o <<TheNames!Bind(TheNames!Empty, n, d), TheNames!Empty>>
      /\ blocks' = blocks \o <<TheNames!Bind(TheNames!Empty, a, d)>>
                          \o TheNames!EmptyFrames(c.blocks - 1)
      /\ count' = count + 1
      /\ use' = TheNames!NoUse /\ UNCHANGED <<phase, context, over>>
  BY DEF TheNames!EnterBinding
<1>2. ChainsMatch
  BY <1>1 DEF NamesInv, Going
<1>3. /\ IsChain(scopes) /\ IsChain(blocks) /\ count \in Nat /\ over \in SUBSET (1..count)
      /\ Live(scopes, names, count, over) /\ Inside(scopes, phase, context)
      /\ Rising(scopes) /\ Rising(blocks)
      /\ Spelled(blocks, scopes, names, count, over, context)
  BY <1>2 DEF ChainsMatch, Shape
<1>4. c.scopes = 2 /\ c.blocks \in {1, 2} /\ c.blocks - 1 \in {0, 1, 2}
  BY <1>1, SizesOfConstructs
<1>5. d = [id |-> count + 1, kind |-> "local", name |-> n]
  BY DEF TheNames!Decl
<1> PICK p : p = Append(scopes, TheNames!Bind(TheNames!Empty, n, d))
  OBVIOUS
<1> PICK q : q = Append(blocks, TheNames!Bind(TheNames!Empty, a, d))
  OBVIOUS
<1>6. scopes' = Append(p, TheNames!Empty)
  BY <1>1, <1>3, TwoMoreFrames
<1>7. blocks' = q \o TheNames!EmptyFrames(c.blocks - 1)
  BY <1>1, <1>3, TwoMoreFrames
<1>8. /\ IsChain(p) /\ Len(p) = Len(scopes) + 1
      /\ \A i, m, e : Has(p, i, m, e) <=>
           Has(scopes, i, m, e) \/ (i = Len(scopes) + 1 /\ m = n /\ e = d)
  BY <1>3, HasOne
<1>9. /\ IsChain(scopes') /\ Len(scopes') = Len(p) + 1
      /\ \A i, m, e : Has(scopes', i, m, e) <=> Has(p, i, m, e)
  BY <1>6, <1>8, HasNone
<1>10. /\ IsChain(q) /\ Len(q) = Len(blocks) + 1
       /\ \A i, m, e : Has(q, i, m, e) <=>
            Has(blocks, i, m, e) \/ (i = Len(blocks) + 1 /\ m = a /\ e = d)
  BY <1>3, HasOne
<1>11. /\ IsChain(blocks') /\ Len(blocks') = Len(q) + (c.blocks - 1)
       /\ \A i, m, e : Has(blocks', i, m, e) <=> Has(q, i, m, e)
  BY <1>4, <1>7, <1>10, HasEmptyFrames
<1>12. PICK ls \in Nat, lb \in Nat : ls = Len(scopes) /\ lb = Len(blocks)
  BY <1>3, ChainBounds
<1>13. /\ Len(scopes') = Len(scopes) + c.scopes
       /\ Len(blocks') = Len(blocks) + c.blocks
       /\ Len(scopes) + 1 < Len(scopes')
  BY <1>4, <1>8, <1>9, <1>10, <1>11, <1>12
<1>14. /\ \A i, m, e : Has(scopes, i, m, e) => i \in Nat /\ i =< ls
       /\ \A i, m, e : Has(blocks, i, m, e) => i \in Nat /\ i =< lb
  BY <1>3, <1>12, HasBounds
<1>15. /\ Live(scopes', names, count + 1, over) /\ Rising(scopes') /\ Rising(blocks')
       /\ Spelled(blocks', scopes', names, count + 1, over, context)
  <2>1. /\ \A i, m, e : Has(scopes, i, m, e) => i \in Nat /\ i =< ls + 1 /\ i # ls + 1
        /\ \A i, m, e : Has(blocks, i, m, e) => i \in Nat /\ i =< lb + 1
    <3>1. ASSUME NEW i, i \in Nat, i =< ls PROVE i =< ls + 1 /\ i # ls + 1
      BY <3>1
    <3>2. ASSUME NEW i, i \in Nat, i =< lb PROVE i =< lb + 1
      BY <3>2
    <3> QED
      BY <1>14, <3>1, <3>2
  <2>2. \A i, m, e : Has(scopes', i, m, e) <=>
          \/ i = ls + 1 /\ m = n /\ e = d
          \/ ~(i = ls + 1 /\ m = n) /\ Has(scopes, i, m, e)
    BY <1>8, <1>9, <1>12, <2>1
  <2>3. \A i, m, e : Has(blocks', i, m, e) <=>
          (i = lb + 1 /\ m = a /\ e = d) \/ Has(blocks, i, m, e)
    BY <1>10, <1>11, <1>12
  <2>4. \A e : ~Has(scopes, ls + 1, n, e)
    BY <2>1
  <2>5. "local" \in Plain /\ ls + 1 \in Nat /\ lb + 1 \in Nat
    BY DEF Plain
  <2>6. OneMore(scopes, scopes', blocks, blocks', names, count, over, context, ls + 1, lb + 1,
                n, a, "local", d)
    BY <1>3, <1>5, <2>1, <2>2, <2>3, <2>4, <2>5 DEF OneMore
  <2> QED
    BY <2>6, OneMoreDeclared
<1>16. d.kind = "local"
  BY <1>5
<1>17. \A i, m, e : Has(scopes', i, m, e) =>
         \/ Has(scopes, i, m, e)
         \/ /\ i = Len(scopes) + 1 /\ i < Len(scopes') /\ e.kind = "local" /\ c.blocks >= 1
            /\ Has(blocks', Len(blocks) + 1, TheNames!GoIdent(m), e)
  BY <1>4, <1>8, <1>9, <1>10, <1>11, <1>13, <1>16
<1>18. \A i, m, e : Has(blocks, i, m, e) => Has(blocks', i, m, e)
  BY <1>10, <1>11
<1> QED
  BY <1>1, <1>9, <1>11, <1>13, <1>15, <1>17, <1>18, OpensConstruct

\* Leaving a construct: what its scopes held is over.
LEMMA NamesInvLeave ==
  ASSUME NamesInv, names' = names, TheNames!Leave
  PROVE  NamesInv'
<1>1. PICK c : /\ c = TheNames!Last(nest)
               /\ over' = over \cup UNION {{f[n].id : n \in DOMAIN f} : f \in TheNames!DroppedBy(c)}
               /\ scopes' = SubSeq(scopes, 1, Len(scopes) - c.scopes)
               /\ blocks' = SubSeq(blocks, 1, Len(blocks) - c.blocks)
  BY DEF TheNames!Leave
<1>2. /\ phase = "body" /\ nest # <<>> /\ nest' = TheNames!Front(nest)
      /\ use' = TheNames!NoUse /\ UNCHANGED <<phase, context, count>>
  BY DEF TheNames!Leave
<1>3. ChainsMatch
  BY <1>2 DEF NamesInv, Going
<1>4. /\ IsChain(scopes) /\ IsChain(blocks) /\ nest \in Seq(TheNames!Constructs)
      /\ count \in Nat /\ over \in SUBSET (1..count)
      /\ Live(scopes, names, count, over) /\ Inside(scopes, phase, context)
      /\ Rising(scopes) /\ Rising(blocks)
      /\ Spelled(blocks, scopes, names, count, over, context)
      /\ Sited(nest, scopes, blocks, names, 2)
  BY <1>2, <1>3 DEF ChainsMatch, Shape, Least
<1>5. PICK ls \in Nat, lb \in Nat :
        /\ ls = Len(scopes) - c.scopes /\ lb = Len(blocks) - c.blocks /\ ls >= 2 /\ lb >= 2
  <2>1. OneLess(nest, c, scopes, scopes, blocks, blocks, names, 2)
    BY <1>1, <1>2, <1>4 DEF OneLess
  <2> QED
    BY <2>1, SitedOutward
<1>6. PICK k \in Nat, l \in Nat : k = Len(scopes) /\ l = Len(blocks) /\ DOMAIN scopes = 1..k
  BY <1>4, ChainBounds
<1>7. c.scopes \in {1, 2} /\ c.blocks \in {0, 1, 2}
  <2>1. c \in TheNames!Constructs
    BY <1>1, <1>2, <1>4 DEF TheNames!Last
  <2> QED
    BY <2>1, SizesOfConstructs
<1>8. ls =< k /\ lb =< l
  BY <1>5, <1>6, <1>7
<1>9. /\ IsChain(scopes') /\ Len(scopes') = ls
      /\ \A i, m, e : Has(scopes', i, m, e) <=> Has(scopes, i, m, e) /\ i =< ls
  BY <1>1, <1>4, <1>5, <1>6, <1>8, HasFirst
<1>10. /\ IsChain(blocks') /\ Len(blocks') = lb
       /\ \A i, m, e : Has(blocks', i, m, e) <=> Has(blocks, i, m, e) /\ i =< lb
  BY <1>1, <1>4, <1>5, <1>6, <1>8, HasFirst
<1>11. Sited(nest', scopes', blocks', names, 2)
  <2> PICK t, g : t = scopes' /\ g = blocks'
    OBVIOUS
  <2>1. /\ Len(t) = Len(scopes) - c.scopes /\ Len(g) = Len(blocks) - c.blocks
        /\ \A i, m, e : Has(t, i, m, e) <=> Has(scopes, i, m, e) /\ i =< Len(t)
        /\ \A i, m, e : Has(g, i, m, e) <=> Has(blocks, i, m, e) /\ i =< Len(g)
    BY <1>5, <1>9, <1>10
  <2>2. OneLess(nest, c, scopes, t, blocks, g, names, 2)
    BY <1>1, <1>2, <1>4 DEF OneLess
  <2>3. Sited(TheNames!Front(nest), t, g, names, 2)
    BY <2>1, <2>2, SitedOutward
  <2> QED
    BY <1>2, <2>3
<1>12. \A y : y \in over' <=> (y \in over \/ \E i, m, e : Has(scopes, i, m, e) /\ ls < i /\ y = e.id)
  <2>1. TheNames!DroppedBy(c) = {scopes[i] : i \in (ls + 1)..k}
    BY <1>5, <1>6 DEF TheNames!DroppedBy
  <2>2. ASSUME NEW y, y \in over', y \notin over
        PROVE  \E i, m, e : Has(scopes, i, m, e) /\ ls < i /\ y = e.id
    <3>1. PICK f \in TheNames!DroppedBy(c) : y \in {f[n].id : n \in DOMAIN f}
      BY <1>1, <2>2
    <3>2. PICK i \in (ls + 1)..k : f = scopes[i]
      BY <2>1, <3>1
    <3>3. PICK n \in DOMAIN f : y = f[n].id
      BY <3>1
    <3>4. i \in DOMAIN scopes /\ ls < i
      BY <1>5, <1>6, <3>2
    <3>5. Has(scopes, i, n, f[n])
      BY <3>2, <3>3, <3>4 DEF Has
    <3> QED
      BY <3>3, <3>4, <3>5
  <2>3. ASSUME NEW i, NEW m, NEW e, Has(scopes, i, m, e), ls < i PROVE e.id \in over'
    <3>1. i \in DOMAIN scopes /\ m \in DOMAIN scopes[i] /\ e = scopes[i][m]
      BY <2>3 DEF Has
    <3>2. i \in (ls + 1)..k
      BY <1>5, <1>6, <2>3, <3>1
    <3>3. scopes[i] \in TheNames!DroppedBy(c)
      BY <2>1, <3>2
    <3>4. e.id \in {scopes[i][n].id : n \in DOMAIN scopes[i]}
      BY <3>1
    <3> QED
      BY <1>1, <3>3, <3>4
  <2>4. over \subseteq over'
    BY <1>1
  <2> QED
    BY <2>2, <2>3, <2>4
<1>13. /\ over' \in SUBSET (1..count) /\ Live(scopes', names, count, over')
       /\ Rising(scopes') /\ Rising(blocks')
       /\ Spelled(blocks', scopes', names, count, over', context)
  <2>1. \A i, m, e : Has(scopes, i, m, e) => i \in Nat
    BY <1>4, HasBounds
  <2>2. lb >= 1
    BY <1>5
  <2>3. Fewer(scopes, scopes', blocks, blocks', names, count, over, over', context, ls, lb)
    BY <1>4, <1>9, <1>10, <1>12, <2>1, <2>2 DEF Fewer
  <2> QED
    BY <2>3, FewerLeft
<1>14. Inside(scopes', phase, context)
  BY <1>4, <1>9 DEF Inside
<1>15. nest' \in Seq(TheNames!Constructs)
  BY <1>2, <1>4 DEF TheNames!Front
<1>16. Shape'
  BY <1>2, <1>4, <1>9, <1>10, <1>13, <1>15 DEF Shape
<1>17. Least' = 2
  BY <1>2 DEF Least
<1>18. Sited(nest', scopes', blocks', names, Least')
  BY <1>11, <1>17
<1>19. ChainsMatch'
  BY <1>2, <1>13, <1>14, <1>16, <1>18 DEF ChainsMatch
<1> QED
  BY <1>2, <1>19, Unused DEF Going

\* A use, on Go's chain or with the binder of a loop's head on top of it.
LEMMA NamesInvUseOn ==
  ASSUME TheNames!SpellingsDiffer, NamesInv, names' = names, NEW n \in names, NEW chain, NEW b \in names,
         \/ chain = blocks
         \/ chain = Append(blocks, TheNames!Bind(TheNames!Empty, TheNames!GoIdent(b),
                                [id |-> count + 1, kind |-> "binder", name |-> b])),
         NEW called, TheNames!UseOn(n, called, chain), count' \in {count, count + 1}
  PROVE  NamesInv'
<1> PICK d : d = TheNames!Lookup(scopes, n)
  OBVIOUS
<1> PICK g : g = TheNames!Taken(n, d, called, chain)
  OBVIOUS
<1>1. /\ phase = "body" /\ use = TheNames!NoUse
      /\ UNCHANGED <<context, scopes, blocks, nest, over>>
      /\ \/ phase' = "refused" /\ use' = use
         \/ phase' = "not-built" /\ use' = use
         \/ /\ d # TheNames!Nothing /\ g # TheNames!Nothing
            /\ use' = [name |-> n, called |-> called, meant |-> d, got |-> g] /\ phase' = phase
  BY DEF TheNames!UseOn
<1>2. ChainsMatch /\ names \in NameSets
  BY <1>1 DEF NamesInv, Going
<1>3. CASE phase' \in {"refused", "not-built"}
  BY <1>1, <1>3, Unused DEF Going
<1>4. CASE /\ d # TheNames!Nothing /\ g # TheNames!Nothing
           /\ use' = [name |-> n, called |-> called, meant |-> d, got |-> g] /\ phase' = phase
  <2>1. RightUse(n, called, d, g)
    BY <1>1, <1>2, <1>4, UsesRight
  <2>2. use'.name = n /\ use'.called = called /\ use'.meant = d /\ use'.got = g
    BY <1>4
  <2>3. TheNames!Variants' = TheNames!Variants
    BY <1>1 DEF TheNames!Variants
  <2>4. TheNames!BindsAsResolved'
    BY <1>1, <2>1, <2>2, <2>3 DEF RightUse, TheNames!BindsAsResolved, TheNames!Spelling
  <2>5. /\ Shape /\ Live(scopes, names, count, over) /\ Inside(scopes, phase, context)
        /\ Rising(scopes) /\ Rising(blocks)
        /\ Spelled(blocks, scopes, names, count, over, context)
        /\ Sited(nest, scopes, blocks, names, Least)
    BY <1>2 DEF ChainsMatch
  <2>6. count' \in Nat /\ \A x \in 1..count : x \in 1..count'
    BY <2>5 DEF Shape
  <2>7. Shape'
    <3>1. over' \subseteq 1..count'
      BY <1>1, <2>5, <2>6 DEF Shape
    <3> QED
      BY <1>1, <1>4, <2>5, <2>6, <3>1 DEF Shape
  <2>8. Live(scopes, names, count', over)
    BY <2>5, <2>6 DEF Live
  <2>9. Spelled(blocks, scopes, names, count', over, context)
    BY <2>5, <2>6 DEF Spelled
  <2>10. Least' = Least
    BY <1>4 DEF Least
  <2>11. ChainsMatch'
    BY <1>1, <1>4, <2>5, <2>7, <2>8, <2>9, <2>10 DEF ChainsMatch
  <2> QED
    BY <1>1, <1>2, <1>4, <2>4, <2>11 DEF NamesInv, Going
<1> QED
  BY <1>1, <1>3, <1>4

\* Every step keeps the invariant.
LEMMA NamesInvNext ==
  ASSUME TheNames!SpellingsDiffer, NamesInv, [TheNames!Next]_TheNames!vars
  PROVE  NamesInv'
<1>1. CASE UNCHANGED TheNames!vars
  <2>1. UNCHANGED <<names, phase, context, scopes, blocks, nest, count, over, use>>
    BY <1>1 DEF TheNames!vars
  <2>2. ChainsMatch' <=> ChainsMatch
    BY <2>1 DEF ChainsMatch, Shape, Least
  <2>3. TheNames!BindsAsResolved' <=> TheNames!BindsAsResolved
    <3>1. TheNames!Variants' = TheNames!Variants
      BY <2>1 DEF TheNames!Variants
    <3> QED
      BY <2>1, <3>1 DEF TheNames!BindsAsResolved, TheNames!Spelling
  <2> QED
    BY <2>1, <2>2, <2>3 DEF NamesInv
<1>2. CASE TheNames!Next
  <2> names' = names
    BY <1>2 DEF TheNames!Next
  <2>1. ASSUME NEW k \in {"func", "variant"}, NEW n \in names, TheNames!DeclareTop(k, n)
        PROVE  NamesInv'
    BY <2>1, NamesInvDeclares
  <2>2. CASE TheNames!EnterClass
    BY <2>2, NamesInvEnterClass
  <2>3. ASSUME NEW k \in {"field", "method", "static"}, NEW n \in names,
               TheNames!DeclareMember(k, n)
        PROVE  NamesInv'
    BY <2>3, NamesInvDeclareMember DEF Members
  <2>4. ASSUME NEW c \in {"func", "method", "static"}, TheNames!EnterFunction(c) PROVE NamesInv'
    BY <2>4, NamesInvEnterFunction
  <2>5. ASSUME NEW n \in names, TheNames!DeclareParam(n) \/ TheNames!DeclareLocal(n)
        PROVE  NamesInv'
    BY <2>5, NamesInvDeclares
  <2>6. ASSUME NEW n \in names, NEW called, TheNames!Use(n, called) PROVE NamesInv'
    <3>1. TheNames!UseOn(n, called, blocks) /\ count' = count
      BY <2>6 DEF TheNames!Use
    <3> QED
      BY <3>1, NamesInvUseOn
  <2>7. ASSUME NEW b \in names, NEW n \in names, NEW called,
               TheNames!UseInHead(b, n, called)
        PROVE  NamesInv'
    <3> PICK chain :
          chain = Append(blocks, TheNames!Bind(TheNames!Empty, TheNames!GoIdent(b),
                                   [id |-> count + 1, kind |-> "binder", name |-> b]))
      OBVIOUS
    <3>1. TheNames!UseOn(n, called, chain) /\ count' = count + 1
      BY <2>7 DEF TheNames!UseInHead, TheNames!Decl
    <3> QED
      BY <3>1, NamesInvUseOn
  <2>8. CASE TheNames!EnterBody
    BY <2>8, NamesInvEnterBody
  <2>9. ASSUME NEW c \in TheNames!Constructs, TheNames!Enter(c) PROVE NamesInv'
    BY <2>9, NamesInvEnter
  <2>10. ASSUME NEW c \in TheNames!Constructs, NEW n \in names, TheNames!EnterBinding(c, n)
         PROVE  NamesInv'
    BY <2>10, NamesInvEnterBinding
  <2>11. CASE TheNames!Leave
    BY <2>11, NamesInvLeave
  <2>12. CASE TheNames!Over
    <3>1. UNCHANGED TheNames!vars
      BY <2>12 DEF TheNames!Over, TheNames!vars
    <3> QED
      BY <1>1, <3>1
  <2> QED
    BY <1>2, <2>1, <2>2, <2>3, <2>4, <2>5, <2>6, <2>7, <2>8, <2>9, <2>10, <2>11, <2>12
       DEF TheNames!Next
<1> QED
  BY <1>1, <1>2

\* For programs of every size, over any names: a use means the closest declaration
\* that is not over, and Go takes that one too, but for the listed exceptions.  The
\* assumption is about strings, which the provers take for constants: what prefixes
\* of five letters do to a name.
THEOREM AlwaysBindsAsResolved ==
  ASSUME TheNames!SpellingsDiffer
  PROVE  TheNames!Spec => []TheNames!BindsAsResolved
<1>1. NamesInv => TheNames!BindsAsResolved
  BY DEF NamesInv
<1> QED
  BY <1>1, NamesInvInit, NamesInvNext, PTL DEF TheNames!Spec

-----------------------------------------------------------------------------
(* ProjectManifest: what reading line by line amounts to, for all lines at once. *)

\* The headers above line i, the table it is in, and what sets a key.
HeadersTo(s, i) == {j \in 1..i : s[j].kind = "header"}
TableOf(s, i) == IF HeadersTo(s, i) = {} THEN "" ELSE s[TheManifest!Max(HeadersTo(s, i))].section
Setting(s, key) == {i \in DOMAIN s : s[i].kind = "pair" /\ s[i].key = key}
LastSet(s, key) == s[TheManifest!Max(Setting(s, key))].value.value

\* Line i of s is one of the schema's.
InSchema(s, i) ==
  \/ s[i] = TheManifest!Blank
  \/ s[i].kind = "header" /\ s[i].section \in TheManifest!Sections
  \/ /\ s[i].kind = "pair" /\ TableOf(s, i) = TheManifest!Home(s[i].key)
     /\ s[i].value.form = TheManifest!FormOf(s[i].key)
AllInSchema(s) == \A i \in DOMAIN s : InSchema(s, i)

\* What the lines s say of a key, if anything.
Says(s, key, none) == IF Setting(s, key) = {} THEN none ELSE LastSet(s, key)
Told == /\ manifest.name = Says(lines, "name", "")
        /\ manifest.extra = Says(lines, "extra", <<>>)
\* What the checks at the end ask for.
Complete == /\ manifest.name # ""
            /\ TheManifest!IsInjective([i \in DOMAIN manifest.extra |->
                                          TheManifest!Last(manifest.extra[i])])

\* While it reads, the manifest is what the lines before say, all in the schema;
\* at the end it is accepted for that and for being complete.
ManifestInv ==
  /\ lines \in Seq(TheManifest!Lines)
  /\ DOMAIN manifest = {"name", "go", "extra"}
  /\ manifest = [k \in DOMAIN manifest |-> manifest[k]]
  /\ verdict \in {"reading", "accepted", "refused"}
  /\ verdict = "reading" => /\ AllInSchema(lines) /\ Told
                            /\ section = TableOf(lines, Len(lines))
  /\ verdict = "accepted" => AllInSchema(lines) /\ Told /\ Complete
  /\ verdict = "refused" => ~AllInSchema(lines) \/ (Told /\ ~Complete)

\* Nothing is read yet, and nothing said.
LEMMA ManifestInvInit == TheManifest!Init => ManifestInv
<1> SUFFICES ASSUME TheManifest!Init PROVE ManifestInv
  OBVIOUS
<1>1. /\ lines = <<>> /\ section = "" /\ verdict = "reading"
      /\ manifest = [name |-> "", go |-> "", extra |-> <<>>]
  BY DEF TheManifest!Init
<1>2. lines \in Seq(TheManifest!Lines) /\ Len(lines) = 0 /\ DOMAIN lines = {}
  <2>1. <<>> \in Seq(TheManifest!Lines) /\ Len(<<>>) = 0
    OBVIOUS
  <2>2. \A q \in Seq(TheManifest!Lines) : DOMAIN q = 1..Len(q)
    OBVIOUS
  <2>3. 1..0 = {}
    OBVIOUS
  <2> QED
    BY <1>1, <2>1, <2>2, <2>3
<1>3. \A k : Setting(lines, k) = {}
  BY <1>2 DEF Setting
<1>4. HeadersTo(lines, 0) = {}
  BY DEF HeadersTo
<1>5. HeadersTo(lines, Len(lines)) = {} /\ \A k : Setting(lines, k) = {}
  BY <1>2, <1>3, <1>4
<1>6. Told /\ section = TableOf(lines, Len(lines))
  BY <1>1, <1>5 DEF Told, Says, TableOf
<1>7. AllInSchema(lines)
  BY <1>2 DEF AllInSchema
<1>8. /\ DOMAIN manifest = {"name", "go", "extra"}
      /\ manifest = [k \in DOMAIN manifest |-> manifest[k]]
  BY <1>1
<1> QED
  BY <1>1, <1>2, <1>6, <1>7, <1>8 DEF ManifestInv

\* The largest member of a set of indices.
LEMMA LargestIndex ==
  ASSUME NEW n \in Nat, NEW S \in SUBSET (1..n), NEW i \in S, \A j \in S : j =< i
  PROVE  TheManifest!Max(S) = i
<1>1. i \in S /\ \A y \in S : i >= y
  OBVIOUS
<1>2. ASSUME NEW k \in S, \A y \in S : k >= y PROVE k = i
  BY <1>2
<1> QED
  BY <1>1, <1>2 DEF TheManifest!Max

\* The last index is the largest of those it is among.
LEMMA LastIndexIsLargest ==
  ASSUME NEW n \in Nat, NEW S \in SUBSET (1..n), n \in S
  PROVE  TheManifest!Max(S) = n
<1>1. \A j \in S : j =< n
  OBVIOUS
<1> QED
  BY <1>1, LargestIndex

\* The largest of some indices is one of them.
LEMMA LargestIsMember ==
  ASSUME NEW n \in Nat, NEW S \in SUBSET (1..n), S # {}
  PROVE  TheManifest!Max(S) \in S
<1>1. PICK i \in S : \A j \in S : j =< i
  BY HasMaximum
<1> QED
  BY <1>1, LargestIndex

\* What one more line changes of the tables, and of what the lines say.
LEMMA OneMoreLine ==
  ASSUME NEW s \in Seq(TheManifest!Lines), NEW l \in TheManifest!Lines
  PROVE  LET t == Append(s, l)
             n == Len(s) IN
         /\ t \in Seq(TheManifest!Lines) /\ Len(t) = n + 1 /\ t[n + 1] = l
         /\ \A i \in 1..n : t[i] = s[i] /\ TableOf(t, i) = TableOf(s, i)
         /\ TableOf(t, n + 1) = IF l.kind = "header" THEN l.section ELSE TableOf(s, n)
         /\ \A key, none : Says(t, key, none) = IF l.kind = "pair" /\ l.key = key
                                                THEN l.value.value ELSE Says(s, key, none)
<1> PICK t : t = Append(s, l)
  OBVIOUS
<1> PICK n \in Nat : n = Len(s)
  OBVIOUS
<1> SUFFICES
      /\ t \in Seq(TheManifest!Lines) /\ Len(t) = n + 1 /\ t[n + 1] = l
      /\ \A i \in 1..n : t[i] = s[i] /\ TableOf(t, i) = TableOf(s, i)
      /\ TableOf(t, n + 1) = IF l.kind = "header" THEN l.section ELSE TableOf(s, n)
      /\ \A key, none : Says(t, key, none) = IF l.kind = "pair" /\ l.key = key
                                               THEN l.value.value ELSE Says(s, key, none)
  OBVIOUS
<1>1. /\ t \in Seq(TheManifest!Lines) /\ Len(t) = n + 1 /\ t[n + 1] = l
      /\ \A i \in 1..n : t[i] = s[i]
  OBVIOUS
<1>2. ASSUME NEW i \in 1..n PROVE TableOf(t, i) = TableOf(s, i)
  <2>1. HeadersTo(t, i) = HeadersTo(s, i)
    BY <1>1 DEF HeadersTo
  <2>2. CASE HeadersTo(s, i) = {}
    BY <2>1, <2>2 DEF TableOf
  <2>3. CASE HeadersTo(s, i) # {}
    <3>1. HeadersTo(s, i) \in SUBSET (1..n)
      BY DEF HeadersTo
    <3>2. TheManifest!Max(HeadersTo(s, i)) \in 1..n
      BY <3>1, <2>3, LargestIsMember
    <3> QED
      BY <3>2, <2>1, <2>3, <1>1 DEF TableOf
  <2> QED
    BY <2>2, <2>3
<1>4. ASSUME l.kind # "header" PROVE TableOf(t, n + 1) = TableOf(s, n)
  <2>1. HeadersTo(t, n + 1) = HeadersTo(s, n)
    BY <1>1, <1>4 DEF HeadersTo
  <2>2. CASE HeadersTo(s, n) = {}
    BY <2>1, <2>2 DEF TableOf
  <2>3. CASE HeadersTo(s, n) # {}
    <3>1. HeadersTo(s, n) \in SUBSET (1..n)
      BY DEF HeadersTo
    <3>2. TheManifest!Max(HeadersTo(s, n)) \in 1..n
      BY <3>1, <2>3, LargestIsMember
    <3> QED
      BY <3>2, <2>1, <2>3, <1>1 DEF TableOf
  <2> QED
    BY <2>2, <2>3
<1>5. TableOf(t, n + 1) = IF l.kind = "header" THEN l.section ELSE TableOf(s, n)
  <2>1. CASE l.kind = "header"
    <3>1. HeadersTo(t, n + 1) \in SUBSET (1..(n + 1)) /\ n + 1 \in HeadersTo(t, n + 1)
      BY <1>1, <2>1 DEF HeadersTo
    <3>2. TheManifest!Max(HeadersTo(t, n + 1)) = n + 1
      BY <3>1, LastIndexIsLargest
    <3> QED
      BY <3>1, <3>2, <1>1, <2>1 DEF TableOf
  <2> QED
    BY <2>1, <1>4
<1>6. ASSUME NEW key, NEW none
      PROVE  Says(t, key, none) = IF l.kind = "pair" /\ l.key = key
                                  THEN l.value.value ELSE Says(s, key, none)
  <2>1. CASE l.kind = "pair" /\ l.key = key
    <3>1. Setting(t, key) \in SUBSET (1..(n + 1)) /\ n + 1 \in Setting(t, key)
      BY <1>1, <2>1 DEF Setting
    <3>2. TheManifest!Max(Setting(t, key)) = n + 1
      BY <3>1, LastIndexIsLargest
    <3> QED
      BY <3>1, <3>2, <1>1, <2>1 DEF Says, LastSet
  <2>2. CASE ~(l.kind = "pair" /\ l.key = key)
    <3>1. Setting(t, key) = Setting(s, key) /\ Setting(s, key) \in SUBSET (1..n)
      BY <1>1, <2>2 DEF Setting
    <3>2. CASE Setting(s, key) = {}
      BY <3>1, <3>2, <2>2 DEF Says
    <3>3. CASE Setting(s, key) # {}
      <4>1. TheManifest!Max(Setting(s, key)) \in 1..n
        BY <3>1, <3>3, LargestIsMember
      <4> QED
        BY <4>1, <3>1, <3>3, <2>2, <1>1 DEF Says, LastSet
    <3> QED
      BY <3>2, <3>3
  <2> QED
    BY <2>1, <2>2
<1> QED
  BY <1>1, <1>2, <1>5, <1>6

\* The five kinds of lines.
LEMMA KindsOfLines ==
  ASSUME NEW l \in TheManifest!Lines
  PROVE  /\ l.kind \in {"blank", "junk", "open", "header", "pair"}
         /\ l.kind = "blank" => l = TheManifest!Blank
         /\ l = TheManifest!Blank => l.kind = "blank"
         /\ l.kind = "pair" /\ l.value.form = "list" => l.value.value \in TheManifest!Lists
<1> DEFINE Values == {TheManifest!Str(v) : v \in {"p", "q", "", "1.22", "1"}}
                       \cup {TheManifest!List(v) : v \in TheManifest!Lists}
                       \cup {TheManifest!Malformed}
<1>1. \/ l \in {TheManifest!Blank, TheManifest!Junk, TheManifest!Open}
      \/ \E s \in TheManifest!Sections \cup {"tools"} : l = TheManifest!Header(s)
      \/ \E k \in {"name", "go", "version", "extra"}, v \in Values : l = TheManifest!Pair(k, v)
  <2>1. <<>> \in TheManifest!Lists
    BY DEF TheManifest!Lists
  <2> QED
    BY <2>1 DEF TheManifest!Lines
<1>2. CASE l \in {TheManifest!Blank, TheManifest!Junk, TheManifest!Open}
  BY <1>2 DEF TheManifest!Blank, TheManifest!Junk, TheManifest!Open
<1>3. CASE \E s \in TheManifest!Sections \cup {"tools"} : l = TheManifest!Header(s)
  BY <1>3 DEF TheManifest!Header, TheManifest!Blank
<1>4. ASSUME NEW k, NEW v \in Values, l = TheManifest!Pair(k, v)
      PROVE  /\ l.kind = "pair" /\ l # TheManifest!Blank
             /\ l.value.form = "list" => l.value.value \in TheManifest!Lists
  <2>1. l.kind = "pair" /\ l.value = v
    BY <1>4 DEF TheManifest!Pair
  <2>2. v.form = "list" => v.value \in TheManifest!Lists
    <3>1. CASE v = TheManifest!Malformed
      BY <3>1 DEF TheManifest!Malformed
    <3>2. ASSUME NEW w, v = TheManifest!Str(w) PROVE v.form = "string"
      BY <3>2 DEF TheManifest!Str
    <3>3. ASSUME NEW w, v = TheManifest!List(w) PROVE v.value = w
      BY <3>3 DEF TheManifest!List
    <3> QED
      BY <3>1, <3>2, <3>3
  <2>3. TheManifest!Blank.kind = "blank"
    BY DEF TheManifest!Blank
  <2> QED
    BY <2>1, <2>2, <2>3
<1> HIDE DEF Values
<1> QED
  BY <1>1, <1>2, <1>3, <1>4

\* So the lines stay in the schema exactly if the next one is.
LEMMA NextLineInSchema ==
  ASSUME NEW s \in Seq(TheManifest!Lines), NEW l \in TheManifest!Lines,
         NEW t, t = Append(s, l), AllInSchema(s)
  PROVE  AllInSchema(t) <=>
           \/ l = TheManifest!Blank
           \/ l.kind = "header" /\ l.section \in TheManifest!Sections
           \/ /\ l.kind = "pair" /\ TableOf(s, Len(s)) = TheManifest!Home(l.key)
              /\ l.value.form = TheManifest!FormOf(l.key)
<1>1. PICK n \in Nat : n = Len(s)
  OBVIOUS
<1>2. /\ t \in Seq(TheManifest!Lines) /\ Len(t) = n + 1 /\ t[n + 1] = l
      /\ \A i \in 1..n : t[i] = s[i] /\ TableOf(t, i) = TableOf(s, i)
      /\ TableOf(t, n + 1) = IF l.kind = "header" THEN l.section ELSE TableOf(s, n)
  BY <1>1, OneMoreLine
<1>3. DOMAIN s = 1..n /\ DOMAIN t = 1..(n + 1)
  BY <1>1, <1>2
<1>4. ASSUME NEW i \in 1..n PROVE InSchema(t, i)
  <2>1. InSchema(s, i)
    BY <1>3 DEF AllInSchema
  <2>2. t[i] = s[i] /\ TableOf(t, i) = TableOf(s, i)
    BY <1>2
  <2> QED
    BY <2>1, <2>2 DEF InSchema
<1>5. AllInSchema(t) <=> InSchema(t, n + 1)
  BY <1>3, <1>4 DEF AllInSchema
<1>6. l.kind = "pair" => l.kind # "header"
  OBVIOUS
<1>7. InSchema(t, n + 1) <=>
           \/ l = TheManifest!Blank
           \/ l.kind = "header" /\ l.section \in TheManifest!Sections
           \/ /\ l.kind = "pair" /\ TableOf(s, n) = TheManifest!Home(l.key)
              /\ l.value.form = TheManifest!FormOf(l.key)
  BY <1>2, <1>6 DEF InSchema
<1> QED
  BY <1>1, <1>5, <1>7

\* parseManifestTOML takes one line after another, the last one with its checks.
LEMMA ManifestInvNext ==
  ManifestInv /\ [TheManifest!Next]_(TheManifest!vars) => ManifestInv'
<1> SUFFICES ASSUME ManifestInv, [TheManifest!Next]_(TheManifest!vars)
             PROVE  ManifestInv'
  OBVIOUS
<1>1. ASSUME NEW l \in TheManifest!Lines, TheManifest!Read(l)
      PROVE  ManifestInv'
  <2>1. /\ verdict = "reading" /\ lines' = Append(lines, l)
        /\ lines \in Seq(TheManifest!Lines) /\ AllInSchema(lines) /\ Told
        /\ section = TableOf(lines, Len(lines))
        /\ DOMAIN manifest = {"name", "go", "extra"}
        /\ manifest = [k \in DOMAIN manifest |-> manifest[k]]
    BY <1>1 DEF ManifestInv, TheManifest!Read
  <2>2. PICK n \in Nat : n = Len(lines)
    BY <2>1
  <2>3. PICK t : t = lines'
    OBVIOUS
  <2>4. /\ t \in Seq(TheManifest!Lines) /\ Len(t) = n + 1
        /\ TableOf(t, n + 1) = IF l.kind = "header" THEN l.section ELSE TableOf(lines, n)
        /\ \A key, none : Says(t, key, none) = IF l.kind = "pair" /\ l.key = key
                                               THEN l.value.value ELSE Says(lines, key, none)
    BY <2>1, <2>2, <2>3, OneMoreLine
  <2>5. AllInSchema(t) <=>
          \/ l = TheManifest!Blank
          \/ l.kind = "header" /\ l.section \in TheManifest!Sections
          \/ /\ l.kind = "pair" /\ section = TheManifest!Home(l.key)
             /\ l.value.form = TheManifest!FormOf(l.key)
    BY <2>1, <2>3, NextLineInSchema
  <2>6. l.kind = "blank" => l = TheManifest!Blank
    BY KindsOfLines
  <2>7. l = TheManifest!Blank => l.kind = "blank"
    BY KindsOfLines
  <2>8. /\ manifest.name = Says(lines, "name", "")
        /\ manifest.extra = Says(lines, "extra", <<>>)
    BY <2>1 DEF Told
  <2>9. CASE l.kind = "blank" /\ UNCHANGED <<section, manifest, verdict>>
    <3>1. AllInSchema(t) /\ section = TableOf(t, n + 1)
      BY <2>1, <2>2, <2>4, <2>5, <2>6, <2>9
    <3>2. /\ manifest.name = Says(t, "name", "")
          /\ manifest.extra = Says(t, "extra", <<>>)
      BY <2>4, <2>8, <2>9
    <3> QED
      BY <3>1, <3>2, <2>1, <2>3, <2>4, <2>9 DEF ManifestInv, Told
  <2>10. CASE /\ l.kind = "header" /\ l.section \in TheManifest!Sections
              /\ section' = l.section /\ UNCHANGED <<manifest, verdict>>
    <3>1. AllInSchema(t) /\ section' = TableOf(t, n + 1)
      BY <2>4, <2>5, <2>10
    <3>2. /\ manifest.name = Says(t, "name", "")
          /\ manifest.extra = Says(t, "extra", <<>>)
      BY <2>4, <2>8, <2>10
    <3> QED
      BY <3>1, <3>2, <2>1, <2>3, <2>4, <2>10 DEF ManifestInv, Told
  <2>11. CASE /\ l.kind = "pair" /\ TheManifest!Fits(l)
              /\ manifest' = [manifest EXCEPT ![l.key] = l.value.value]
              /\ UNCHANGED <<section, verdict>>
    <3>1. AllInSchema(t) /\ section = TableOf(t, n + 1)
      BY <2>1, <2>2, <2>4, <2>5, <2>11 DEF TheManifest!Fits
    <3>2. /\ DOMAIN manifest' = {"name", "go", "extra"}
          /\ manifest' = [k \in DOMAIN manifest' |-> manifest'[k]]
      BY <2>1, <2>11
    <3>3. /\ manifest'.name = IF l.key = "name" THEN l.value.value ELSE manifest.name
          /\ manifest'.extra = IF l.key = "extra" THEN l.value.value ELSE manifest.extra
      BY <2>1, <2>11
    <3>4. /\ manifest'.name = Says(t, "name", "")
          /\ manifest'.extra = Says(t, "extra", <<>>)
      BY <3>3, <2>4, <2>8, <2>11
    <3>5. verdict' = "reading" /\ section' = section
      BY <2>1, <2>11
    <3> QED
      BY <3>1, <3>2, <3>4, <3>5, <2>3, <2>4 DEF ManifestInv, Told
  <2>12. CASE /\ \/ l.kind \in {"junk", "open"}
                 \/ l.kind = "header" /\ l.section \notin TheManifest!Sections
                 \/ l.kind = "pair" /\ ~TheManifest!Fits(l)
              /\ verdict' = "refused" /\ UNCHANGED <<section, manifest>>
    <3>1. ~AllInSchema(t)
      BY <2>5, <2>7, <2>12 DEF TheManifest!Fits
    <3> QED
      BY <3>1, <2>1, <2>3, <2>4, <2>12 DEF ManifestInv
  <2> QED
    BY <1>1, <2>9, <2>10, <2>11, <2>12 DEF TheManifest!Read
<1>2. CASE TheManifest!Finish
  <2>1. /\ lines' = lines /\ section' = section /\ manifest' = manifest
        /\ verdict = "reading"
        /\ verdict' = IF Complete THEN "accepted" ELSE "refused"
    BY <1>2 DEF TheManifest!Finish, Complete
  <2> QED
    BY <2>1 DEF ManifestInv, Told, Complete
<1>3. CASE UNCHANGED TheManifest!vars
  BY <1>3 DEF TheManifest!vars, ManifestInv, Told, Complete
<1> QED
  BY <1>1, <1>2, <1>3 DEF TheManifest!Next, TheManifest!Over

\* A list of the schema names no segment twice exactly if it has as many last
\* segments as bindings.
LEMMA AsManySegments ==
  ASSUME NEW b \in TheManifest!Lists
  PROVE  TheManifest!IsInjective([i \in DOMAIN b |-> TheManifest!Last(b[i])]) <=>
         TheManifest!Cardinality({TheManifest!Last(p) : p \in TheManifest!Range(b)}) = Len(b)
<1> DEFINE f == [i \in DOMAIN b |-> TheManifest!Last(b[i])]
           T == {TheManifest!Last(p) : p \in TheManifest!Range(b)}
<1>1. PICK n \in Nat : n = Len(b) /\ DOMAIN b = 1..n
  <2>1. \E S : b \in Seq(S)
    <3>1. CASE b = <<>>
      <4>1. <<>> \in Seq({})
        OBVIOUS
      <4> QED
        BY <3>1, <4>1
    <3>2. CASE \E x : b = <<x>>
      <4>1. PICK x : b = <<x>>
        BY <3>2
      <4>2. <<x>> \in Seq({x})
        OBVIOUS
      <4> QED
        BY <4>1, <4>2
    <3>3. CASE \E x, y : b = <<x, y>>
      <4>1. PICK x, y : b = <<x, y>>
        BY <3>3
      <4>2. <<x, y>> \in Seq({x, y})
        OBVIOUS
      <4> QED
        BY <4>1, <4>2
    <3> QED
      BY <3>1, <3>2, <3>3 DEF TheManifest!Lists
  <2>2. PICK S : b \in Seq(S)
    BY <2>1
  <2> QED
    BY <2>2
<1>2. T = {f[i] : i \in 1..n}
  <2>1. ASSUME NEW i \in 1..n PROVE f[i] \in T
    BY <1>1 DEF TheManifest!Range
  <2>2. ASSUME NEW z \in T PROVE z \in {f[i] : i \in 1..n}
    BY <1>1 DEF TheManifest!Range
  <2> QED
    BY <2>1, <2>2
<1>3. f \in Surjection(1..n, T)
  BY <1>1, <1>2 DEF Surjection
<1>4. IsFiniteSet(1..n) /\ Cardinality(1..n) = n
  BY FS_Interval
<1>5. Cardinality(T) = n <=> f \in Injection(1..n, T)
  BY <1>3, <1>4, FS_Surjection
<1>6. f \in Injection(1..n, T) <=> TheManifest!IsInjective(f)
  BY <1>1, <1>3 DEF Injection, Surjection, IsInjective, TheManifest!IsInjective
<1>7. TheManifest!Cardinality(T) = Cardinality(T)
  BY DEF TheManifest!Cardinality, Cardinality
<1> QED
  BY <1>1, <1>5, <1>6, <1>7

\* A manifest that says what its lines say is read as the schema has it.
LEMMA ManifestInvSuffices == ManifestInv => TheManifest!ReadsSchema
<1> SUFFICES ASSUME ManifestInv, verdict # "reading"
             PROVE  TheManifest!ReadsSchema
  BY DEF TheManifest!ReadsSchema
<1> DEFINE schema == \A i \in DOMAIN lines :
              \/ lines[i] = TheManifest!Blank
              \/ lines[i].kind = "header" /\ lines[i].section \in TheManifest!Sections
              \/ /\ lines[i].kind = "pair" /\ TheManifest!Table(i) = TheManifest!Home(lines[i].key)
                 /\ lines[i].value.form = TheManifest!FormOf(lines[i].key)
           name == TheManifest!LastOf("name")
           extra == TheManifest!LastOf("extra")
<1>1. /\ \A i : TheManifest!Table(i) = TableOf(lines, i)
      /\ \A k : TheManifest!SetBy(k) = Setting(lines, k)
      /\ \A k : TheManifest!LastOf(k) = LastSet(lines, k)
  BY DEF TheManifest!Table, TheManifest!SetBy, TheManifest!LastOf, TableOf, HeadersTo,
         Setting, LastSet
<1>2. schema <=> AllInSchema(lines)
  BY <1>1 DEF AllInSchema, InSchema
<1>3. ASSUME AllInSchema(lines), TheManifest!SetBy("extra") # {}
      PROVE  extra \in TheManifest!Lists
  <2>1. PICK n \in Nat : n = Len(lines) /\ DOMAIN lines = 1..n
    BY DEF ManifestInv
  <2>2. TheManifest!SetBy("extra") \in SUBSET (1..n)
    BY <2>1 DEF TheManifest!SetBy
  <2>3. PICK i \in TheManifest!SetBy("extra") : i = TheManifest!Max(TheManifest!SetBy("extra"))
    BY <1>3, <2>2, LargestIsMember
  <2>4. i \in DOMAIN lines /\ lines[i].kind = "pair" /\ lines[i].key = "extra"
    BY <2>3 DEF TheManifest!SetBy
  <2>5. lines[i] # TheManifest!Blank
    BY <2>4 DEF TheManifest!Blank
  <2>6. lines[i].value.form = "list"
    BY <1>3, <2>4, <2>5 DEF AllInSchema, InSchema, TheManifest!FormOf
  <2>7. lines[i] \in TheManifest!Lines
    BY <2>4 DEF ManifestInv
  <2>8. lines[i].value.value \in TheManifest!Lists
    BY <2>4, <2>6, <2>7, KindsOfLines
  <2> QED
    BY <2>3, <2>8 DEF TheManifest!LastOf
<1>4. ASSUME AllInSchema(lines), Told
      PROVE  Complete <=>
               /\ TheManifest!SetBy("name") # {} /\ name # ""
               /\ TheManifest!SetBy("extra") = {} \/
                  TheManifest!Cardinality({TheManifest!Last(p) : p \in TheManifest!Range(extra)})
                    = Len(extra)
  <2>1. manifest.name # "" <=> TheManifest!SetBy("name") # {} /\ name # ""
    BY <1>1, <1>4 DEF Told, Says
  <2>2. CASE TheManifest!SetBy("extra") = {}
    <3>1. manifest.extra = <<>>
      BY <1>1, <1>4, <2>2 DEF Told, Says
    <3>2. DOMAIN <<>> = {}
      OBVIOUS
    <3>3. TheManifest!IsInjective([i \in DOMAIN manifest.extra |->
                                     TheManifest!Last(manifest.extra[i])])
      BY <3>1, <3>2 DEF TheManifest!IsInjective
    <3> QED
      BY <2>1, <2>2, <3>3 DEF Complete
  <2>3. CASE TheManifest!SetBy("extra") # {}
    <3>1. manifest.extra = extra
      BY <1>1, <1>4, <2>3 DEF Told, Says
    <3>2. extra \in TheManifest!Lists
      BY <1>3, <1>4, <2>3
    <3> HIDE DEF extra, name
    <3>3. Complete <=> /\ manifest.name # ""
                       /\ TheManifest!Cardinality({TheManifest!Last(p) : p \in TheManifest!Range(extra)})
                            = Len(extra)
      BY <3>1, <3>2, AsManySegments DEF Complete
    <3> QED
      BY <2>1, <2>3, <3>3
  <2> QED
    BY <2>2, <2>3
<1>5. ASSUME Told, TheManifest!SetBy("name") # {}
      PROVE  /\ manifest.name = name
             /\ manifest.extra = IF TheManifest!SetBy("extra") = {} THEN <<>> ELSE extra
  BY <1>1, <1>5 DEF Told, Says
<1> HIDE DEF schema, name, extra
<1>6. verdict = "accepted" => AllInSchema(lines) /\ Told /\ Complete
  BY DEF ManifestInv
<1>7. verdict # "accepted" => ~AllInSchema(lines) \/ (AllInSchema(lines) /\ Told /\ ~Complete)
  BY DEF ManifestInv
<1>8. verdict = "accepted" <=>
        /\ schema
        /\ TheManifest!SetBy("name") # {} /\ name # ""
        /\ TheManifest!SetBy("extra") = {} \/
           TheManifest!Cardinality({TheManifest!Last(p) : p \in TheManifest!Range(extra)})
             = Len(extra)
  BY <1>2, <1>4, <1>6, <1>7
<1>9. verdict = "accepted" =>
        /\ manifest.name = name
        /\ manifest.extra = IF TheManifest!SetBy("extra") = {} THEN <<>> ELSE extra
  BY <1>4, <1>5, <1>6
<1> QED
  BY <1>8, <1>9 DEF TheManifest!ReadsSchema, schema, name, extra

\* For manifests of every length: one is accepted exactly if every line of it is
\* in the schema and it is complete, and then says what its last lines say.
THEOREM AlwaysReadsSchema == TheManifest!Spec => []TheManifest!ReadsSchema
<1>1. ManifestInv => TheManifest!ReadsSchema
  BY ManifestInvSuffices
<1> QED
  BY ManifestInvInit, ManifestInvNext, <1>1, PTL DEF TheManifest!Spec

-----------------------------------------------------------------------------
(* Driver: what has been established when a command gets to a stage.         *)

\* The stages in their order; a command is at one of them until it has ended.
Resolving == {"args", "manifest", "resolve"}
Compiling == {"check", "main", "lower"}
Emitted   == {"require", "temp", "main.go", "go.mod", "go", "execute"}
Running   == Resolving \cup {"compile"} \cup Compiling \cup Emitted

\* A tide.toml that is looked at.
Project == verb # "turn" /\ place.manifest = "good"
LibOf   == IF Project /\ program.parses THEN program.imports \cap {"lib"} ELSE {}

\* The types of the state.
DriverTypes ==
  /\ verb \in {"emit", "build", "run", "turn"}
  /\ program \in TheDriver!Programs /\ place \in TheDriver!Places
  /\ step \in Running \cup {"ended", "killed"}

\* What has been established by the time a stage is reached.
DriverPast ==
  /\ step \in Running => done = "none" /\ exit = 0 /\ ~faulty
  /\ step \in Resolving => verb # "turn" /\ units = {"entry"}
  /\ step = "resolve" => place.manifest = "good"
  /\ step \in Running \ Resolving =>
       /\ units = {"entry"} \cup LibOf
       /\ verb # "turn" => place.manifest # "bad"
       /\ Project /\ program.parses => \A i \in program.imports : TheDriver!Resolvable(i)
  /\ step \in Compiling \cup Emitted => program.parses
  /\ step \in Compiling => imports = program.imports \ units
  /\ step = "main" => verb \in {"build", "run"}
  /\ step \in {"lower"} \cup Emitted /\ verb \in {"build", "run"} => TheDriver!Mains = 1
  /\ step \in Emitted =>
       /\ verb # "emit"
       /\ imports = ((program.imports \ units) \ {"idle"})
                      \cup IF program.third THEN {"third"} ELSE {}
  /\ step \in Emitted \ {"require"} =>
       /\ place.bindings # "bad"
       /\ required = IF place.bindings = "lists" THEN imports \cap {"third"} ELSE {}
  /\ step = "execute" => verb # "build" /\ imports \subseteq {"used", "reflect"} \cup required

\* The directory is there from its creation to the end, and then is not.
DriverTemp ==
  /\ step \in Resolving \cup {"compile", "require", "temp"} \cup Compiling => temp = {}
  /\ step = "main.go" => temp = {"dir"}
  /\ step = "go.mod" => temp = {"dir", "main.go"}
  /\ step = "go" => temp = {"dir", "main.go", "go.mod"}

\* The inductive invariant.
DriverInv == DriverTypes /\ DriverPast /\ DriverTemp /\ TheDriver!CommandsEndClean

\* A command that has not begun has established nothing.
LEMMA DriverInvInit == TheDriver!Init => DriverInv
  BY DEF TheDriver!Init, DriverInv, DriverTypes, DriverPast, DriverTemp, TheDriver!CommandsEndClean,
         Resolving, Compiling, Emitted, Running, LibOf, Project

\* A command that ends with what it owes and without its directory.
LEMMA Ending ==
  ASSUME DriverInv, step \in Running,
         NEW result, NEW code, TheDriver!Return(result, code), temp' = {},
         (result # "none") <=> (TheDriver!Accepted /\ ~faulty'),
         code = 0 => result # "none",
         result \in {"printed", "built"} => code = 0
  PROVE  DriverInv'
<1>1. /\ step' = "ended" /\ done' = result /\ exit' = code
      /\ verb' = verb /\ program' = program /\ place' = place
  BY DEF TheDriver!Return, TheDriver!found
<1>2. TheDriver!Accepted' <=> TheDriver!Accepted
  BY <1>1 DEF TheDriver!Accepted
<1>3. DriverTypes'
  BY <1>1 DEF DriverInv, DriverTypes, TheDriver!Programs, TheDriver!Places
<1>4. DriverPast' /\ DriverTemp'
  BY <1>1 DEF DriverPast, DriverTemp, Running, Resolving, Compiling, Emitted
<1>5. TheDriver!CommandsEndClean'
  BY <1>1, <1>2 DEF TheDriver!CommandsEndClean
<1> QED
  BY <1>3, <1>4, <1>5 DEF DriverInv

\* Outside of writeTempModule, what is deferred is all there is to clean up.
LEMMA EndingCleans ==
  ASSUME DriverInv, step \in Running \ {"main.go", "go.mod"},
         NEW result, NEW code, TheDriver!End(result, code)
  PROVE  TheDriver!Return(result, code) /\ temp' = {}
  BY DEF TheDriver!End, TheDriver!Deferred, DriverInv, DriverTemp,
         Running, Resolving, Compiling, Emitted

\* A stage that fails by the file system or the toolchain ends the command clean.
LEMMA Failing ==
  ASSUME DriverInv, step \in Running \ {"main.go", "go.mod"}, TheDriver!Fault
  PROVE  DriverInv'
  BY Ending, EndingCleans DEF TheDriver!Fault

\* So does one that refuses a program that is not acceptable.
LEMMA Refusing ==
  ASSUME DriverInv, step \in Running \ {"main.go", "go.mod"}, TheDriver!Refuse,
         ~TheDriver!Accepted
  PROVE  DriverInv'
  BY Ending, EndingCleans DEF TheDriver!Refuse

\* A command that goes on.
LEMMA GoingOn ==
  ASSUME DriverInv, NEW s \in Running, TheDriver!Go(s), DriverPast', DriverTemp'
  PROVE  DriverInv'
<1>1. step' = s /\ verb' = verb /\ program' = program /\ place' = place
  BY DEF TheDriver!Go, TheDriver!found
<1>2. DriverTypes'
  BY <1>1 DEF DriverInv, DriverTypes, TheDriver!Programs, TheDriver!Places
<1>3. TheDriver!CommandsEndClean'
  BY <1>1 DEF TheDriver!CommandsEndClean, Running, Resolving, Compiling, Emitted
<1> QED
  BY <1>2, <1>3 DEF DriverInv

\* A command that got as far as the lowering has all that an emit asks for.
LEMMA AcceptedToEmit ==
  ASSUME DriverInv, step = "lower", verb = "emit"
  PROVE  TheDriver!Accepted /\ ~faulty
<1>1. /\ program.parses /\ ~faulty
      /\ place.manifest # "bad"
      /\ Project => \A i \in program.imports : TheDriver!Resolvable(i)
  BY DEF DriverInv, DriverPast, Running, Resolving, Compiling, Emitted
<1>2. place.lib \in {"absent", "plain", "main", "cyclic"}
  BY DEF DriverInv, DriverTypes, TheDriver!Places
<1>3. program.imports \subseteq TheDriver!Imports
  BY DEF DriverInv, DriverTypes, TheDriver!Programs
<1> QED
  BY <1>1, <1>2, <1>3 DEF TheDriver!Accepted, TheDriver!Resolvable, TheDriver!Imports, Project

\* And one that got as far as the go command is built exactly if it is accepted.
LEMMA AcceptedToBuild ==
  ASSUME DriverInv, step \in {"go", "execute"}
  PROVE  /\ ~faulty
         /\ step = "go" => (TheDriver!GoBuilds <=> TheDriver!Accepted)
         /\ step = "execute" => TheDriver!Accepted
<1>1. /\ program.parses /\ ~faulty /\ verb # "emit" /\ place.bindings # "bad"
      /\ verb # "turn" => place.manifest # "bad"
      /\ Project => \A i \in program.imports : TheDriver!Resolvable(i)
      /\ verb \in {"build", "run"} => TheDriver!Mains = 1
      /\ units = {"entry"} \cup (IF Project THEN program.imports \cap {"lib"} ELSE {})
      /\ imports = ((program.imports \ units) \ {"idle"})
                     \cup IF program.third THEN {"third"} ELSE {}
      /\ required = IF place.bindings = "lists" THEN imports \cap {"third"} ELSE {}
  BY DEF DriverInv, DriverPast, Running, Resolving, Compiling, Emitted, LibOf
<1>2. place.lib \in {"absent", "plain", "main", "cyclic"}
  BY DEF DriverInv, DriverTypes, TheDriver!Places
<1>3. program.imports \subseteq TheDriver!Imports
  BY DEF DriverInv, DriverTypes, TheDriver!Programs
<1>4. TheDriver!Mains = program.mains
        + IF Project /\ "lib" \in program.imports /\ place.lib = "main" THEN 1 ELSE 0
  BY <1>1 DEF TheDriver!Mains
<1>5. TheDriver!Accepted <=>
        /\ program.imports \cap {"nested", "extra", "other"} = {}
        /\ "lib" \in program.imports => Project
        /\ program.third => place.bindings = "lists"
  BY <1>1, <1>2, <1>3, <1>4 DEF TheDriver!Accepted, TheDriver!Resolvable, TheDriver!Imports, Project
<1>6. imports \subseteq {"used", "reflect"} \cup required <=>
        /\ program.imports \cap {"nested", "extra", "other"} = {}
        /\ "lib" \in program.imports => Project
        /\ program.third => place.bindings = "lists"
  BY <1>1, <1>3 DEF TheDriver!Imports
<1>7. step = "go" => {"main.go", "go.mod"} \subseteq temp
  BY DEF DriverInv, DriverTemp
<1>8. step = "execute" => imports \subseteq {"used", "reflect"} \cup required
  BY DEF DriverInv, DriverPast
<1> QED
  BY <1>1, <1>5, <1>6, <1>7, <1>8 DEF TheDriver!GoBuilds

\* Each stage establishes what the next ones rely on, or ends the command.
LEMMA DriverInvNext ==
  ASSUME DriverInv, [TheDriver!Next]_(TheDriver!vars)
  PROVE  DriverInv'
<1> USE DEF Running, Resolving, Compiling, Emitted
<1>1. CASE TheDriver!Usage
  BY <1>1, Ending, EndingCleans DEF TheDriver!Usage
<1>2. CASE TheDriver!Gather
  <2>1. CASE TheDriver!Fault
    BY <1>2, <2>1, Failing DEF TheDriver!Gather
  <2>2. CASE TheDriver!Go("manifest") /\ UNCHANGED <<units, imports, required, temp>>
    <3>1. DriverPast' /\ DriverTemp'
      BY <1>2, <2>2 DEF TheDriver!Gather, TheDriver!Go, TheDriver!found, DriverInv, DriverPast, DriverTemp
    <3> QED
      BY <2>2, <3>1, GoingOn
  <2> QED
    BY <1>2, <2>1, <2>2 DEF TheDriver!Gather
<1>3. CASE TheDriver!FindManifest
  <2>1. CASE place.manifest = "bad"
    <3>1. ~TheDriver!Accepted
      BY <1>3, <2>1 DEF TheDriver!FindManifest, TheDriver!Accepted, DriverInv, DriverPast
    <3> QED
      BY <1>3, <2>1, <3>1, Refusing DEF TheDriver!FindManifest
  <2>2. CASE place.manifest # "bad"
    <3>1. /\ step = "manifest" /\ UNCHANGED <<units, imports, required, temp>>
          /\ TheDriver!Go(IF place.manifest = "none" THEN "compile" ELSE "resolve")
      BY <1>3, <2>2 DEF TheDriver!FindManifest
    <3>2. place.manifest \in {"none", "good"}
      BY <2>2 DEF DriverInv, DriverTypes, TheDriver!Places
    <3>3. DriverPast' /\ DriverTemp'
      BY <2>2, <3>1, <3>2 DEF TheDriver!Go, TheDriver!found, DriverInv, DriverPast, DriverTemp, LibOf, Project
    <3> QED
      BY <3>1, <3>3, GoingOn
  <2> QED
    BY <2>1, <2>2
<1>4. CASE TheDriver!ResolvePackages
  <2> DEFINE seen == IF program.parses THEN program.imports ELSE {}
  <2>1. CASE \E i \in seen : ~TheDriver!Resolvable(i)
    <3>1. step = "resolve" /\ verb # "turn" /\ place.manifest = "good"
      BY <1>4 DEF TheDriver!ResolvePackages, DriverInv, DriverPast
    <3>2. program.imports \subseteq TheDriver!Imports
      BY DEF DriverInv, DriverTypes, TheDriver!Programs
    <3>3. place.lib \in {"absent", "plain", "main", "cyclic"}
      BY DEF DriverInv, DriverTypes, TheDriver!Places
    <3>4. ~TheDriver!Accepted
      BY <2>1, <3>1, <3>2, <3>3 DEF TheDriver!Accepted, TheDriver!Resolvable, TheDriver!Imports
    <3>5. TheDriver!Refuse
      BY <1>4, <2>1 DEF TheDriver!ResolvePackages
    <3> QED
      BY <3>1, <3>4, <3>5, Refusing
  <2>2. CASE \A i \in seen : TheDriver!Resolvable(i)
    <3>1. /\ step = "resolve" /\ TheDriver!Go("compile")
          /\ units' = units \cup (seen \cap {"lib"})
          /\ UNCHANGED <<imports, required, temp>>
      BY <1>4, <2>2 DEF TheDriver!ResolvePackages
    <3>2. \A i : TheDriver!Resolvable(i)' <=> TheDriver!Resolvable(i)
      BY <3>1 DEF TheDriver!Resolvable, TheDriver!Go, TheDriver!found
    <3>3. DriverPast' /\ DriverTemp'
      BY <2>2, <3>1, <3>2 DEF TheDriver!Go, TheDriver!found, DriverInv, DriverPast, DriverTemp, LibOf, Project
    <3> QED
      BY <3>1, <3>3, GoingOn
  <2> QED
    BY <2>1, <2>2
<1>5. CASE TheDriver!ParseFiles
  <2>1. CASE ~program.parses /\ TheDriver!Refuse
    BY <1>5, <2>1, Refusing DEF TheDriver!ParseFiles, TheDriver!Accepted
  <2>2. CASE TheDriver!Fault
    BY <1>5, <2>2, Failing DEF TheDriver!ParseFiles
  <2>3. CASE /\ program.parses /\ TheDriver!Go("check")
             /\ imports' = program.imports \ units
             /\ UNCHANGED <<units, required, temp>>
    <3>1. \A i : TheDriver!Resolvable(i)' <=> TheDriver!Resolvable(i)
      BY <2>3 DEF TheDriver!Resolvable, TheDriver!Go, TheDriver!found
    <3>2. DriverPast' /\ DriverTemp'
      BY <1>5, <2>3, <3>1 DEF TheDriver!ParseFiles, TheDriver!Go, TheDriver!found, DriverInv, DriverPast, DriverTemp, LibOf, Project
    <3> QED
      BY <2>3, <3>2, GoingOn
  <2> QED
    BY <1>5, <2>1, <2>2, <2>3 DEF TheDriver!ParseFiles
<1>6. CASE TheDriver!Check
  <2>1. CASE TheDriver!Fault
    BY <1>6, <2>1, Failing DEF TheDriver!Check
  <2>2. CASE /\ TheDriver!Go(IF verb \in {"build", "run"} THEN "main" ELSE "lower")
             /\ UNCHANGED <<units, imports, required, temp>>
    <3>1. \A i : TheDriver!Resolvable(i)' <=> TheDriver!Resolvable(i)
      BY <2>2 DEF TheDriver!Resolvable, TheDriver!Go, TheDriver!found
    <3>2. DriverPast' /\ DriverTemp'
      BY <1>6, <2>2, <3>1 DEF TheDriver!Check, TheDriver!Go, TheDriver!found, DriverInv, DriverPast, DriverTemp, LibOf, Project
    <3> QED
      BY <2>2, <3>2, GoingOn
  <2> QED
    BY <1>6, <2>1, <2>2 DEF TheDriver!Check
<1>7. CASE TheDriver!CheckPackageMain
  <2>1. TheDriver!Mains = program.mains
          + IF Project /\ "lib" \in program.imports /\ place.lib = "main" THEN 1 ELSE 0
    BY <1>7 DEF TheDriver!CheckPackageMain, TheDriver!Mains, DriverInv, DriverPast, LibOf, Project
  <2>2. CASE TheDriver!Mains # 1 /\ TheDriver!Refuse
    <3>1. ~TheDriver!Accepted
      BY <1>7, <2>1, <2>2 DEF TheDriver!CheckPackageMain, TheDriver!Accepted, DriverInv, DriverPast, Project
    <3> QED
      BY <1>7, <2>2, <3>1, Refusing DEF TheDriver!CheckPackageMain
  <2>3. CASE TheDriver!Mains = 1 /\ TheDriver!Go("lower") /\ UNCHANGED <<units, imports, required, temp>>
    <3>1. /\ \A i : TheDriver!Resolvable(i)' <=> TheDriver!Resolvable(i)
          /\ TheDriver!Mains' = TheDriver!Mains
      BY <2>3 DEF TheDriver!Resolvable, TheDriver!Mains, TheDriver!Go, TheDriver!found
    <3>2. DriverPast' /\ DriverTemp'
      BY <1>7, <2>3, <3>1 DEF TheDriver!CheckPackageMain, TheDriver!Go, TheDriver!found, DriverInv, DriverPast, DriverTemp, LibOf, Project
    <3> QED
      BY <2>3, <3>2, GoingOn
  <2> QED
    BY <1>7, <2>2, <2>3 DEF TheDriver!CheckPackageMain
<1>8. CASE TheDriver!Lower
  <2>1. CASE TheDriver!Fault
    BY <1>8, <2>1, Failing DEF TheDriver!Lower
  <2>2. CASE verb = "emit" /\ TheDriver!End("printed", 0) /\ UNCHANGED faulty
    <3>1. TheDriver!Accepted /\ ~faulty
      BY <1>8, <2>2, AcceptedToEmit DEF TheDriver!Lower
    <3> QED
      BY <1>8, <2>2, <3>1, Ending, EndingCleans DEF TheDriver!Lower
  <2>3. CASE /\ verb # "emit" /\ TheDriver!Go("require")
             /\ imports' = TheDriver!Header /\ UNCHANGED <<units, required, temp>>
    <3>1. /\ \A i : TheDriver!Resolvable(i)' <=> TheDriver!Resolvable(i)
          /\ TheDriver!Mains' = TheDriver!Mains
      BY <2>3 DEF TheDriver!Resolvable, TheDriver!Mains, TheDriver!Go, TheDriver!found
    <3>2. DriverPast' /\ DriverTemp'
      BY <1>8, <2>3, <3>1 DEF TheDriver!Lower, TheDriver!Header, TheDriver!Go, TheDriver!found, DriverInv, DriverPast, DriverTemp, LibOf, Project
    <3> QED
      BY <2>3, <3>2, GoingOn
  <2> QED
    BY <1>8, <2>1, <2>2, <2>3 DEF TheDriver!Lower
<1>9. CASE TheDriver!Require
  <2>1. CASE place.bindings = "bad" /\ TheDriver!Refuse
    <3>1. ~TheDriver!Accepted
      BY <1>9, <2>1 DEF TheDriver!Require, TheDriver!Accepted, DriverInv, DriverPast
    <3> QED
      BY <1>9, <2>1, <3>1, Refusing DEF TheDriver!Require
  <2>2. CASE /\ place.bindings # "bad" /\ TheDriver!Go("temp")
             /\ required' = IF place.bindings = "lists" THEN imports \cap {"third"} ELSE {}
             /\ UNCHANGED <<units, imports, temp>>
    <3>1. /\ \A i : TheDriver!Resolvable(i)' <=> TheDriver!Resolvable(i)
          /\ TheDriver!Mains' = TheDriver!Mains
      BY <2>2 DEF TheDriver!Resolvable, TheDriver!Mains, TheDriver!Go, TheDriver!found
    <3>2. DriverPast' /\ DriverTemp'
      BY <1>9, <2>2, <3>1 DEF TheDriver!Require, TheDriver!Go, TheDriver!found, DriverInv, DriverPast, DriverTemp, LibOf, Project
    <3> QED
      BY <2>2, <3>2, GoingOn
  <2> QED
    BY <1>9, <2>1, <2>2 DEF TheDriver!Require
<1>10. CASE TheDriver!MakeTemp
  <2>1. CASE TheDriver!Fault
    BY <1>10, <2>1, Failing DEF TheDriver!MakeTemp
  <2>2. CASE TheDriver!Go("main.go") /\ temp' = {"dir"} /\ UNCHANGED <<units, imports, required>>
    <3>1. /\ \A i : TheDriver!Resolvable(i)' <=> TheDriver!Resolvable(i)
          /\ TheDriver!Mains' = TheDriver!Mains
      BY <2>2 DEF TheDriver!Resolvable, TheDriver!Mains, TheDriver!Go, TheDriver!found
    <3>2. DriverPast' /\ DriverTemp'
      BY <1>10, <2>2, <3>1 DEF TheDriver!MakeTemp, TheDriver!Go, TheDriver!found, DriverInv, DriverPast, DriverTemp, LibOf, Project
    <3> QED
      BY <2>2, <3>2, GoingOn
  <2> QED
    BY <1>10, <2>1, <2>2 DEF TheDriver!MakeTemp
<1>11. CASE TheDriver!WriteMain \/ TheDriver!WriteMod
  <2>1. CASE /\ step \in {"main.go", "go.mod"} /\ TheDriver!Return("none", 1)
             /\ faulty' = TRUE /\ temp' = {}
    BY <2>1, Ending
  <2>2. ASSUME NEW s \in {"go.mod", "go"}, TheDriver!Go(s), step = IF s = "go" THEN "go.mod" ELSE "main.go",
               temp' = temp \cup {step}, UNCHANGED <<units, imports, required>>
        PROVE  DriverInv'
    <3>1. /\ \A i : TheDriver!Resolvable(i)' <=> TheDriver!Resolvable(i)
          /\ TheDriver!Mains' = TheDriver!Mains
      BY <2>2 DEF TheDriver!Resolvable, TheDriver!Mains, TheDriver!Go, TheDriver!found
    <3>2. DriverPast' /\ DriverTemp'
      BY <2>2, <3>1 DEF TheDriver!Go, TheDriver!found, DriverInv, DriverPast, DriverTemp, LibOf, Project
    <3> QED
      BY <2>2, <3>2, GoingOn
  <2> QED
    BY <1>11, <2>1, <2>2 DEF TheDriver!WriteMain, TheDriver!WriteMod, TheDriver!WriteFile
<1>12. CASE TheDriver!GoBuild
  <2>1. CASE TheDriver!Fault
    BY <1>12, <2>1, Failing DEF TheDriver!GoBuild
  <2>2. CASE ~TheDriver!GoBuilds /\ TheDriver!Refuse
    <3>1. ~TheDriver!Accepted
      BY <1>12, <2>2, AcceptedToBuild DEF TheDriver!GoBuild
    <3> QED
      BY <1>12, <2>2, <3>1, Refusing DEF TheDriver!GoBuild
  <2>3. CASE TheDriver!GoBuilds /\ verb = "build" /\ TheDriver!End("built", 0) /\ UNCHANGED faulty
    <3>1. TheDriver!Accepted /\ ~faulty
      BY <1>12, <2>3, AcceptedToBuild DEF TheDriver!GoBuild, DriverInv, DriverPast
    <3> QED
      BY <1>12, <2>3, <3>1, Ending, EndingCleans DEF TheDriver!GoBuild
  <2>4. CASE /\ TheDriver!GoBuilds /\ verb # "build" /\ TheDriver!Go("execute")
             /\ temp' = IF verb = "turn" THEN temp \cup {"repl.bin"} ELSE temp
             /\ UNCHANGED <<units, imports, required>>
    <3>1. /\ \A i : TheDriver!Resolvable(i)' <=> TheDriver!Resolvable(i)
          /\ TheDriver!Mains' = TheDriver!Mains
      BY <2>4 DEF TheDriver!Resolvable, TheDriver!Mains, TheDriver!Go, TheDriver!found
    <3>2. DriverPast' /\ DriverTemp'
      BY <1>12, <2>4, <3>1 DEF TheDriver!GoBuild, TheDriver!GoBuilds, TheDriver!Go, TheDriver!found, DriverInv, DriverPast, DriverTemp, LibOf, Project
    <3> QED
      BY <2>4, <3>2, GoingOn
  <2> QED
    BY <1>12, <2>1, <2>2, <2>3, <2>4 DEF TheDriver!GoBuild
<1>13. ASSUME NEW c \in 0..3, TheDriver!Execute(c) PROVE DriverInv'
  <2>1. /\ step = "execute" /\ UNCHANGED faulty
        /\ TheDriver!End("ran", IF verb = "turn" \/ c = 0 THEN 0 ELSE 1)
    BY <1>13 DEF TheDriver!Execute
  <2>2. TheDriver!Accepted /\ ~faulty
    BY <2>1, AcceptedToBuild DEF DriverInv, DriverPast
  <2> QED
    BY <2>1, <2>2, Ending, EndingCleans
<1>14. CASE TheDriver!Kill
  <2>1. /\ step' = "killed" /\ verb' = verb /\ program' = program /\ place' = place
    BY <1>14 DEF TheDriver!Kill, TheDriver!found
  <2>2. DriverTypes'
    BY <2>1 DEF DriverInv, DriverTypes, TheDriver!Programs, TheDriver!Places
  <2> QED
    BY <2>1, <2>2 DEF DriverInv, DriverPast, DriverTemp, TheDriver!CommandsEndClean
<1>15. CASE TheDriver!Over \/ UNCHANGED TheDriver!vars
  <2>1. UNCHANGED <<verb, program, place, step, units, imports, required, temp, done, exit, faulty>>
    BY <1>15 DEF TheDriver!Over, TheDriver!vars, TheDriver!found
  <2>2. /\ \A i : TheDriver!Resolvable(i)' <=> TheDriver!Resolvable(i)
        /\ TheDriver!Mains' = TheDriver!Mains
        /\ TheDriver!Accepted' <=> TheDriver!Accepted
    BY <2>1 DEF TheDriver!Resolvable, TheDriver!Mains, TheDriver!Accepted
  <2>3. DriverPast' /\ DriverTemp'
    BY <2>1, <2>2 DEF DriverInv, DriverPast, DriverTemp, LibOf, Project
  <2>4. DriverTypes' /\ TheDriver!CommandsEndClean'
    BY <2>1, <2>2 DEF DriverInv, DriverTypes, TheDriver!CommandsEndClean,
                      TheDriver!Programs, TheDriver!Places
  <2> QED
    BY <2>3, <2>4 DEF DriverInv
<1> QED
  BY <1>1, <1>2, <1>3, <1>4, <1>5, <1>6, <1>7, <1>8, <1>9, <1>10, <1>11, <1>12, <1>13, <1>14, <1>15
     DEF TheDriver!Next

\* For any number of imports: a command that ends has printed, built or run what
\* it owes if and only if the program and the project are acceptable and nothing
\* failed, exits 0 only then, and leaves no temporary directory behind.
THEOREM CommandsAlwaysEndClean == TheDriver!Spec => []TheDriver!CommandsEndClean
<1>1. DriverInv => TheDriver!CommandsEndClean
  BY DEF DriverInv
<1> QED
  BY <1>1, DriverInvInit, DriverInvNext, PTL DEF TheDriver!Spec

-----------------------------------------------------------------------------
(* Loops: what a loop has visited, by its counter.                           *)

\* Ints are the whole numbers between two bounds; Wrap keeps those, and the number
\* behind the greatest of them becomes the least.
LEMMA IntsAreIntegers ==
  ASSUME Width \in Nat \ {0}
  PROVE  /\ TheLoops!MaxInt \in Int /\ TheLoops!MinInt \in Int /\ TheLoops!MinInt =< 0
         /\ TheLoops!Ints \subseteq Int
         /\ \A n \in Int : n =< TheLoops!MaxInt /\ n >= TheLoops!MinInt => TheLoops!Wrap(n) = n
         /\ \A n \in TheLoops!Ints : TheLoops!Wrap(n + 1) \in TheLoops!Ints
<1> DEFINE bits == 1..(Width - 1)
<1>1. IsFiniteSet(bits) /\ Cardinality(bits) = Width - 1
  BY FS_Interval
<1>2. IsFiniteSet(SUBSET bits) /\ Cardinality(SUBSET bits) = 2^(Width - 1)
  BY <1>1, FS_SUBSET
<1>3. 2^(Width - 1) \in Nat
  BY <1>2, FS_CardinalityType
<1>4. /\ TheLoops!MaxInt \in Int /\ TheLoops!MinInt \in Int /\ TheLoops!MinInt =< 0
  BY <1>3 DEF TheLoops!MaxInt, TheLoops!MinInt
<1> QED
  BY <1>4 DEF TheLoops!Ints, TheLoops!Wrap

\* The loops VisitsRange speaks of: those that end, and those that do not.
Undisturbed == (writes = 0 \/ form = "slice") /\ ~TheLoops!Endless
Unending    == writes = 0 /\ TheLoops!Endless

\* What it has visited are the first values of its range, and the counter is
\* the last of them in a round and the next one between rounds.
LoopInv ==
  /\ form \in {"half-open", "inclusive", "slice"}
  /\ low \in Int /\ low >= TheLoops!MinInt
  /\ first \in Int /\ first =< TheLoops!MaxInt
  /\ ranged = first /\ writes \in Nat
  /\ writes = 0 => bound = first
  /\ status \in {"test", "body", "ended"}
  /\ Undisturbed =>
       /\ visited \in Seq(Int)
       /\ counter = low + Len(visited) - (IF status = "body" THEN 1 ELSE 0)
       /\ status = "body" => Len(visited) > 0
       /\ \A k \in 1..Len(visited) : visited[k] = low + k - 1 /\ visited[k] \in TheLoops!Meant
       /\ status = "ended" => \A i \in TheLoops!Meant : i < counter

\* Nothing is visited before the first test.
LEMMA LoopInvInit ==
  ASSUME Width \in Nat \ {0}, TheLoops!Init
  PROVE  LoopInv
<1> USE IntsAreIntegers
<1>1. /\ low \in Int /\ low >= TheLoops!MinInt
      /\ first \in Int /\ first =< TheLoops!MaxInt
  BY DEF TheLoops!Init, TheLoops!Ints
<1>2. visited = <<>> /\ Len(visited) = 0 /\ counter = low
  BY DEF TheLoops!Init
<1> QED
  BY <1>1, <1>2 DEF TheLoops!Init, LoopInv

\* The test, the body and its writes to the bound, and the step.
LEMMA LoopInvNext ==
  ASSUME Width \in Nat \ {0}, LoopInv, [TheLoops!Next]_(TheLoops!vars)
  PROVE  LoopInv'
<1> USE IntsAreIntegers
<1> USE DEF LoopInv
<1>1. CASE TheLoops!Test
  <2>1. UNCHANGED <<form, low, first, bound, ranged, counter, writes>> /\ status = "test"
    BY <1>1 DEF TheLoops!Test
  <2>2. CASE TheLoops!GoesOn
    <3>1. visited' = Append(visited, counter) /\ status' = "body"
      BY <1>1, <2>2 DEF TheLoops!Test
    <3>2. ASSUME Undisturbed PROVE counter \in TheLoops!Meant
      BY <2>1, <2>2, <3>2 DEF TheLoops!GoesOn, TheLoops!Meant, Undisturbed, TheLoops!Endless
    <3>3. Undisturbed' = Undisturbed /\ TheLoops!Meant' = TheLoops!Meant
      BY <2>1 DEF Undisturbed, TheLoops!Endless, TheLoops!Meant
    <3>4. ASSUME Undisturbed
          PROVE  /\ visited' \in Seq(Int) /\ Len(visited') = Len(visited) + 1
                 /\ \A k \in 1..Len(visited') :
                      visited'[k] = low + k - 1 /\ visited'[k] \in TheLoops!Meant
      <4>1. visited \in Seq(Int) /\ counter = low + Len(visited) /\ counter \in Int
        BY <2>1, <3>4
      <4>2. visited' \in Seq(Int) /\ Len(visited') = Len(visited) + 1
        BY <3>1, <4>1
      <4>3. \A k \in 1..Len(visited') :
              visited'[k] = IF k = Len(visited') THEN counter ELSE visited[k]
        BY <3>1, <4>1
      <4>4. Len(visited') \in Int /\ counter = low + Len(visited') - 1
        BY <4>1, <4>2
      <4>5. \A k \in 1..Len(visited) :
              visited[k] = low + k - 1 /\ visited[k] \in TheLoops!Meant
        BY <3>4
      <4>6. ASSUME NEW k \in 1..Len(visited')
            PROVE  visited'[k] = low + k - 1 /\ visited'[k] \in TheLoops!Meant
        <5>1. CASE k = Len(visited')
          BY <3>2, <3>4, <4>3, <4>4, <5>1
        <5>2. CASE k # Len(visited')
          <6>1. k \in 1..Len(visited)
            BY <4>1, <4>2, <5>2
          <6> QED
            BY <4>3, <4>5, <5>2, <6>1
        <5> QED
          BY <5>1, <5>2
      <4> QED
        BY <4>2, <4>6
    <3> QED
      BY <2>1, <3>1, <3>3, <3>4
  <2>3. CASE ~TheLoops!GoesOn
    <3>1. visited' = visited /\ status' = "ended"
      BY <1>1, <2>3 DEF TheLoops!Test
    <3>2. ASSUME Undisturbed PROVE \A i \in TheLoops!Meant : i < counter
      BY <2>1, <2>3, <3>2 DEF TheLoops!GoesOn, TheLoops!Meant, Undisturbed, TheLoops!Endless
    <3>3. Undisturbed' = Undisturbed /\ TheLoops!Meant' = TheLoops!Meant
      BY <2>1 DEF Undisturbed, TheLoops!Endless, TheLoops!Meant
    <3> QED
      BY <2>1, <3>1, <3>2, <3>3
  <2> QED
    BY <2>2, <2>3
<1>2. ASSUME NEW b \in TheLoops!Ints, TheLoops!Write(b) PROVE LoopInv'
  <2>1. /\ UNCHANGED <<form, low, first, ranged, counter, visited, status>>
        /\ writes' = writes + 1
    BY <1>2 DEF TheLoops!Write
  <2>2. (Undisturbed' => Undisturbed) /\ TheLoops!Meant' = TheLoops!Meant
    BY <2>1 DEF Undisturbed, TheLoops!Endless, TheLoops!Meant
  <2> QED
    BY <2>1, <2>2
<1>3. CASE TheLoops!Advance
  <2>1. /\ UNCHANGED <<form, low, first, bound, ranged, visited, writes>>
        /\ status = "body" /\ status' = "test" /\ counter' = TheLoops!Wrap(counter + 1)
    BY <1>3 DEF TheLoops!Advance
  <2>2. Undisturbed' = Undisturbed /\ TheLoops!Meant' = TheLoops!Meant
    BY <2>1 DEF Undisturbed, TheLoops!Endless, TheLoops!Meant
  <2>3. ASSUME Undisturbed PROVE counter' = low + Len(visited)
    <3>1. counter \in TheLoops!Meant /\ counter = low + Len(visited) - 1
      BY <2>1, <2>3, SMTT(20)
    <3>2. counter + 1 \in Int /\ counter + 1 =< TheLoops!MaxInt /\ counter + 1 >= TheLoops!MinInt
      BY <2>3, <3>1 DEF TheLoops!Meant, Undisturbed, TheLoops!Endless
    <3> QED
      BY <2>1, <3>1, <3>2
  <2> QED
    BY <2>1, <2>2, <2>3
<1>4. CASE UNCHANGED TheLoops!vars
  <2>1. UNCHANGED <<form, low, first, bound, ranged, counter, visited, writes, status>>
    BY <1>4 DEF TheLoops!vars
  <2> QED
    BY <2>1 DEF Undisturbed, TheLoops!Endless, TheLoops!Meant
<1> QED
  BY <1>1, <1>2, <1>3, <1>4 DEF TheLoops!Next

\* A loop up to the greatest int is never over, and until its counter has come to
\* that it has visited the numbers up to the counter.
Rounds == IF status = "body" THEN Len(visited) - 1 ELSE Len(visited)
UnendingInv ==
  Unending =>
    /\ visited \in Seq(Int) /\ counter \in TheLoops!Ints
    /\ status = "body" => Len(visited) > 0
    /\ status # "ended"
    /\ low + Rounds =< TheLoops!MaxInt => counter = low + Rounds
    /\ \A k \in 1..Len(visited) : low + k - 1 =< TheLoops!MaxInt => visited[k] = low + k - 1

LEMMA UnendingInvInit ==
  ASSUME Width \in Nat \ {0}, TheLoops!Init
  PROVE  UnendingInv
<1>1. visited = <<>> /\ Len(visited) = 0 /\ counter = low /\ status = "test"
  BY DEF TheLoops!Init
<1>2. ASSUME Unending PROVE low \in TheLoops!Ints
  BY <1>2 DEF TheLoops!Init, Unending, TheLoops!Endless
<1>3. ASSUME Unending PROVE low \in Int /\ Rounds = 0
  BY <1>1, <1>2, <1>3, IntsAreIntegers DEF Rounds
<1>4. <<>> \in Seq(Int)
  OBVIOUS
<1> QED
  BY <1>1, <1>2, <1>3, <1>4 DEF UnendingInv

\* Its test never fails, and the counter goes round.
LEMMA UnendingInvNext ==
  ASSUME Width \in Nat \ {0}, LoopInv, UnendingInv, [TheLoops!Next]_(TheLoops!vars)
  PROVE  UnendingInv'
<1> SUFFICES ASSUME Unending' PROVE UnendingInv'
  BY DEF UnendingInv
<1>0. /\ TheLoops!Ints \subseteq Int /\ TheLoops!MaxInt \in Int /\ TheLoops!MinInt \in Int
      /\ \A n \in Int : n \in TheLoops!Ints <=> TheLoops!MinInt =< n /\ n =< TheLoops!MaxInt
  BY IntsAreIntegers DEF TheLoops!Ints
<1>1. ASSUME Unending, TheLoops!Test PROVE UnendingInv'
  <2>1. /\ visited \in Seq(Int) /\ counter \in Int /\ counter =< TheLoops!MaxInt /\ low \in Int
        /\ \A k \in 1..Len(visited) : low + k - 1 =< TheLoops!MaxInt => visited[k] = low + k - 1
    BY <1>0, <1>1 DEF UnendingInv, LoopInv
  <2>2. TheLoops!GoesOn
    BY <1>1, <2>1 DEF LoopInv, Unending, TheLoops!Endless, TheLoops!GoesOn
  <2>3. /\ visited' = Append(visited, counter) /\ status' = "body" /\ status = "test"
        /\ counter' = counter /\ low' = low
    BY <1>1, <2>2 DEF TheLoops!Test
  <2>4. PICK n \in Nat : n = Len(visited)
    BY <2>1
  <2>5. /\ visited' \in Seq(Int) /\ Len(visited') = n + 1
        /\ visited'[n + 1] = counter /\ \A k \in 1..n : visited'[k] = visited[k]
    BY <2>1, <2>3, <2>4
  <2>6. Rounds = n /\ Rounds' = n
    BY <2>3, <2>4, <2>5 DEF Rounds
  <2>7. low + n =< TheLoops!MaxInt => counter = low + n
    BY <1>1, <2>6 DEF UnendingInv
  <2>8. ASSUME NEW k \in 1..(n + 1), low + k - 1 =< TheLoops!MaxInt
        PROVE  visited'[k] = low + k - 1
    <3>1. CASE k = n + 1
      BY <2>1, <2>5, <2>7, <2>8, <3>1
    <3>2. CASE k \in 1..n
      BY <2>1, <2>4, <2>5, <2>8, <3>2
    <3> QED
      BY <3>1, <3>2
  <2>9. counter' \in TheLoops!Ints' /\ TheLoops!MaxInt' = TheLoops!MaxInt
    BY <1>1, <2>3 DEF UnendingInv, TheLoops!Ints, TheLoops!MaxInt, TheLoops!MinInt
  <2> QED
    BY <2>3, <2>5, <2>6, <2>7, <2>8, <2>9 DEF UnendingInv
<1>2. ASSUME NEW b \in TheLoops!Ints, TheLoops!Write(b) PROVE FALSE
  BY <1>2 DEF TheLoops!Write, LoopInv, Unending
<1>3. ASSUME Unending, TheLoops!Advance PROVE UnendingInv'
  <2>1. /\ status = "body" /\ status' = "test" /\ UNCHANGED <<low, visited>>
        /\ counter' = TheLoops!Wrap(counter + 1)
    BY <1>3 DEF TheLoops!Advance
  <2>2. /\ visited \in Seq(Int) /\ counter \in TheLoops!Ints /\ low \in Int
        /\ \A k \in 1..Len(visited) : low + k - 1 =< TheLoops!MaxInt => visited[k] = low + k - 1
    BY <1>3 DEF UnendingInv, LoopInv
  <2>3. counter' \in TheLoops!Ints
    BY <2>1, <2>2, IntsAreIntegers
  <2>4. PICK n \in Nat : n = Len(visited) /\ Rounds = n - 1 /\ Rounds' = n
    BY <2>1, <2>2 DEF Rounds
  <2>5. ASSUME low + n =< TheLoops!MaxInt PROVE counter' = low + n
    <3>1. low + (n - 1) =< TheLoops!MaxInt
      BY <1>0, <2>2, <2>5
    <3>2. counter = low + (n - 1)
      BY <1>3, <2>4, <3>1 DEF UnendingInv
    <3>3. counter + 1 = low + n /\ counter + 1 \in Int /\ counter + 1 >= TheLoops!MinInt
      BY <1>0, <2>2, <3>2
    <3> QED
      BY <2>1, <2>5, <3>3, IntsAreIntegers
  <2>6. TheLoops!Ints' = TheLoops!Ints /\ TheLoops!MaxInt' = TheLoops!MaxInt
    BY DEF TheLoops!Ints, TheLoops!MaxInt, TheLoops!MinInt
  <2> QED
    BY <2>1, <2>2, <2>3, <2>4, <2>5, <2>6 DEF UnendingInv
<1>4. CASE UNCHANGED TheLoops!vars
  BY <1>4 DEF TheLoops!vars, UnendingInv, Unending, Rounds, TheLoops!Endless,
              TheLoops!Ints, TheLoops!MaxInt, TheLoops!MinInt
<1>5. TheLoops!Test \/ TheLoops!Advance => Unending
  BY DEF TheLoops!Test, TheLoops!Advance, Unending, TheLoops!Endless, TheLoops!MaxInt
<1> QED
  BY <1>1, <1>2, <1>3, <1>4, <1>5 DEF TheLoops!Next

\* A loop whose counter has passed its range has visited all of it.
LEMMA LoopInvSuffices ==
  ASSUME Width \in Nat \ {0}, LoopInv, UnendingInv
  PROVE  TheLoops!VisitsRange
<1>1. ASSUME Undisturbed
      PROVE  /\ \A k \in DOMAIN visited :
                  visited[k] = low + k - 1 /\ visited[k] \in TheLoops!Meant
             /\ status = "ended" =>
                  \A i \in TheLoops!Meant : \E k \in DOMAIN visited : visited[k] = i
  <2>1. visited \in Seq(Int) /\ DOMAIN visited = 1..Len(visited) /\ low \in Int
    BY <1>1 DEF LoopInv
  <2>2. ASSUME status = "ended", NEW i \in TheLoops!Meant
        PROVE  i - low + 1 \in DOMAIN visited /\ visited[i - low + 1] = i
    <3>1. i \in Int /\ low =< i
      BY <2>1 DEF LoopInv, TheLoops!Meant
    <3>2. i < counter /\ counter = low + Len(visited)
      BY <1>1, <2>2 DEF LoopInv
    <3>3. i - low + 1 \in DOMAIN visited /\ low + (i - low + 1) - 1 = i
      BY <2>1, <3>1, <3>2
    <3> QED
      BY <1>1, <2>1, <3>3 DEF LoopInv
  <2> QED
    BY <1>1, <2>1, <2>2 DEF LoopInv
<1>2. ASSUME Unending
      PROVE  /\ status # "ended"
             /\ \A k \in DOMAIN visited :
                  \/ visited[k] = low + k - 1 /\ visited[k] \in TheLoops!Meant
                  \/ low + k - 1 > TheLoops!MaxInt
  <2>1. /\ visited \in Seq(Int) /\ low \in Int /\ TheLoops!MaxInt \in Int
        /\ TheLoops!Meant = low..TheLoops!MaxInt
    BY <1>2, IntsAreIntegers DEF LoopInv, UnendingInv, Unending, TheLoops!Endless, TheLoops!Meant
  <2>2. ASSUME NEW k \in DOMAIN visited, ~(low + k - 1 > TheLoops!MaxInt)
        PROVE  visited[k] = low + k - 1 /\ visited[k] \in TheLoops!Meant
    <3>1. k \in 1..Len(visited) /\ k \in Nat \ {0}
      BY <2>1
    <3>2. low + k - 1 =< TheLoops!MaxInt /\ low + k - 1 \in TheLoops!Meant
      BY <2>1, <2>2, <3>1
    <3> QED
      BY <1>2, <3>1, <3>2 DEF UnendingInv
  <2> QED
    BY <1>2, <2>2 DEF UnendingInv
<1> QED
  BY <1>1, <1>2 DEF TheLoops!VisitsRange, Undisturbed, Unending, TheLoops!Endless

\* For ints of every width and every number of writes: a loop over a range visits
\* its numbers in order, each of them once and all of them before it ends, unless
\* its body writes to the bound that Go tests again; one that goes up to the
\* greatest int and includes it visits them too, and does not end.
THEOREM AlwaysVisitsRange ==
  ASSUME Width \in Nat \ {0}
  PROVE  TheLoops!Spec => []TheLoops!VisitsRange
<1>1. TheLoops!Init => LoopInv /\ UnendingInv
  BY LoopInvInit, UnendingInvInit
<1>2. LoopInv /\ UnendingInv /\ [TheLoops!Next]_(TheLoops!vars) => (LoopInv /\ UnendingInv)'
  BY LoopInvNext, UnendingInvNext
<1>3. LoopInv /\ UnendingInv => TheLoops!VisitsRange
  BY LoopInvSuffices
<1> QED
  BY <1>1, <1>2, <1>3, PTL DEF TheLoops!Spec

-----------------------------------------------------------------------------
(* Equality: what Go compares, against the terms that the values stand for.  *)

\* A value that is no tuple, by its type; node is the term of the Node at each
\* of the first n addresses.
Single(node, n, p) ==
  \/ /\ p.type = <<"Color">>
     /\ \/ p.term = <<"Red">> /\ p.go = <<0, 0>>
        \/ \E m \in {0, 1} : p.term = <<"Mixed", m>> /\ p.go = <<1, m>>
  \/ /\ p.type = <<"Tree">>
     /\ \/ p.term = <<"Leaf">> /\ p.go = <<0, 0, <<"nil">>>>
        \/ \E k \in 1..n : /\ p.term = node[k] /\ node[k][1] = "Node"
                           /\ p.go = <<1, 0, <<"&", k>>>>
  \/ /\ p.type = <<"Point">>
     /\ \E m \in {0, 1} : p.term = <<"Point", m>> /\ p.go = <<m>>
  \/ p.type = <<"Bag">> /\ p.term = <<"Bag">> /\ p.go = <<<<"nil">>>>
  \/ /\ p.type = <<"Index">> /\ p.term = <<"Index">>
     /\ \E k \in 1..n : p.go = <<<<"&", k>>>>
  \/ /\ p.type = <<"Account">>
     /\ \E k \in 1..n : p.term = <<"Account", k>> /\ p.go = <<"&", k>>
  \/ /\ p.type = <<"Owner">>
     /\ \E k \in 1..n : p.term = <<"Owner", <<"Account", k>>>> /\ p.go = <<<<"&", k>>>>

\* Between two of them Go's == tells what the terms tell, if it has no address.
LEMMA SinglesCompare ==
  ASSUME NEW node, NEW n \in Nat, NEW p, NEW q, Single(node, n, p), Single(node, n, q),
         p.type = q.type
  PROVE  /\ p.go = q.go => p.term = q.term
         /\ p.term = q.term /\ p.term[1] \notin {"Node", "Index"} => p.go = q.go
<1>1. CASE p.type = <<"Color">>
  BY <1>1 DEF Single
<1>2. CASE p.type = <<"Tree">>
  BY <1>2 DEF Single
<1>3. CASE p.type = <<"Point">>
  BY <1>3 DEF Single
<1>4. CASE p.type = <<"Bag">>
  BY <1>4 DEF Single
<1>5. CASE p.type = <<"Index">>
  BY <1>5 DEF Single
<1>6. CASE p.type = <<"Account">>
  BY <1>6 DEF Single
<1>7. CASE p.type = <<"Owner">>
  BY <1>7 DEF Single
<1> QED
  BY <1>1, <1>2, <1>3, <1>4, <1>5, <1>6, <1>7 DEF Single

\* A value, and the values a program has made: node is what the program wrote
\* to the addresses it has handed out.
MadeOf(p, q, v) ==
  /\ v.type = <<"Pair", p.type, q.type>>
  /\ v.term = <<"Pair", p.term, q.term>>
  /\ v.go = <<p.go, q.go>>
Value(node, n, v) ==
  \/ Single(node, n, v)
  \/ \E p, q : Single(node, n, p) /\ Single(node, n, q) /\ MadeOf(p, q, v)

\* All values are such.
ValuesAre(node) ==
  /\ \E S : values \in Seq(S)
  /\ address \in Nat
  /\ \A i \in 1..Len(values) : Value(node, address, values[i])

\* The last comparison is of two of them.
ComparedHere ==
  \/ compared.admitted = FALSE /\ compared.builds = FALSE
  \/ LET a == TheEquality!Left
         b == TheEquality!Right IN
     /\ compared.left \in 1..Len(values) /\ compared.right \in 1..Len(values)
     /\ compared.admitted <=>
          /\ TheEquality!Comparable(a.type) /\ TheEquality!Comparable(b.type)
          /\ {a.type[1], b.type[1]} \cap {"Pair"} # {} => a.type = b.type
     /\ compared.builds <=> (a.type = b.type /\ TheEquality!GoComparable(a.type))
     /\ compared.answer <=> (a.type = b.type /\ a.go = b.go)

\* Both of them.
EqualityInv == (\E node : ValuesAre(node)) /\ ComparedHere

\* A program that has made no value.
LEMMA EqualityInvInit ==
  ASSUME TheEquality!Init
  PROVE  EqualityInv
<1>1. values = <<>> /\ Len(values) = 0 /\ address = 0 /\ values \in Seq({})
  BY DEF TheEquality!Init
<1>2. ValuesAre(0)
  BY <1>1 DEF ValuesAre
<1>3. compared.admitted = FALSE /\ compared.builds = FALSE
  BY DEF TheEquality!Init, TheEquality!None
<1> QED
  BY <1>2, <1>3 DEF EqualityInv, ComparedHere

\* What is written to new addresses does not change the values there are.
LEMMA StillValue ==
  ASSUME NEW node, NEW more, NEW n \in Nat, NEW m \in Nat, m >= n,
         \A k \in 1..n : more[k] = node[k], NEW v
  PROVE  /\ Single(node, n, v) => Single(more, m, v)
         /\ Value(node, n, v) => Value(more, m, v)
<1>1. \A k \in 1..n : k \in 1..m
  OBVIOUS
<1>2. ASSUME NEW w, Single(node, n, w) PROVE Single(more, m, w)
  BY <1>1, <1>2 DEF Single
<1> QED
  BY <1>2 DEF Value

\* Making a value, with d new addresses at most.
LEMMA Makes ==
  ASSUME EqualityInv, NEW v, NEW d \in {0, 1}, TheEquality!Make(v, d),
         NEW node, ValuesAre(node), NEW more, \A k \in 1..address : more[k] = node[k],
         Value(more, address + d, v)
  PROVE  EqualityInv'
<1>1. PICK S : values \in Seq(S)
  BY DEF ValuesAre
<1>2. /\ values' = Append(values, v) /\ address' = address + d
      /\ compared' = TheEquality!None
  BY DEF TheEquality!Make
<1>3. values' \in Seq(S \cup {v}) /\ Len(values') = Len(values) + 1
      /\ \A i \in 1..Len(values') : values'[i] = IF i \in 1..Len(values) THEN values[i] ELSE v
  BY <1>1, <1>2
<1>4. address \in Nat /\ address' \in Nat /\ address' >= address
  BY <1>2 DEF ValuesAre
<1>5. ASSUME NEW i \in 1..Len(values') PROVE Value(more, address', values'[i])
  <2>1. CASE i \in 1..Len(values)
    <3>1. Value(node, address, values[i])
      BY <2>1 DEF ValuesAre
    <3> QED
      BY <1>3, <1>4, <2>1, <3>1, StillValue
  <2>2. CASE i \notin 1..Len(values)
    BY <1>2, <1>3, <2>2
  <2> QED
    BY <2>1, <2>2
<1>6. ValuesAre(more)'
  BY <1>3, <1>4, <1>5 DEF ValuesAre
<1>7. compared'.admitted = FALSE /\ compared'.builds = FALSE
  BY <1>2 DEF TheEquality!None
<1> QED
  BY <1>6, <1>7 DEF EqualityInv, ComparedHere

\* Making a value of any type, and comparing two of them.
LEMMA EqualityInvNext ==
  ASSUME EqualityInv, [TheEquality!Next]_(TheEquality!vars)
  PROVE  EqualityInv'
<1>0. PICK node : ValuesAre(node)
  BY DEF EqualityInv
<1>1. /\ address \in Nat /\ DOMAIN values = 1..Len(values)
      /\ \A i \in DOMAIN values : Value(node, address, values[i])
  BY <1>0 DEF ValuesAre
<1>2. ASSUME NEW v, TheEquality!Make(v, 0), Value(node, address, v)
      PROVE  EqualityInv'
  BY <1>0, <1>1, <1>2, Makes
<1>3. CASE TheEquality!NewColor
  <2>1. CASE TheEquality!Make(TheEquality!Typed(TheEquality!Named("Color"), <<"Red">>, <<0, 0>>), 0)
    BY <1>2, <2>1 DEF Value, Single, TheEquality!Typed, TheEquality!Named
  <2>2. ASSUME NEW n \in {0, 1},
               TheEquality!Make(TheEquality!Typed(TheEquality!Named("Color"), <<"Mixed", n>>, <<1, n>>), 0)
        PROVE  EqualityInv'
    BY <1>2, <2>2 DEF Value, Single, TheEquality!Typed, TheEquality!Named
  <2> QED
    BY <1>3, <2>1, <2>2 DEF TheEquality!NewColor
<1>4. CASE TheEquality!NewTree
  BY <1>2, <1>4 DEF Value, Single, TheEquality!NewTree, TheEquality!Typed, TheEquality!Named, TheEquality!Nil
<1>5. ASSUME NEW v, TheEquality!Make(v, 1), Value(node, address + 1, v)
      PROVE  EqualityInv'
  BY <1>0, <1>1, <1>5, Makes
<1>6. CASE TheEquality!NewRecord
  <2>1. ASSUME NEW n \in {0, 1},
               TheEquality!Make(TheEquality!Typed(TheEquality!Named("Point"), <<"Point", n>>, <<n>>), 0)
        PROVE  EqualityInv'
    BY <1>2, <2>1 DEF Value, Single, TheEquality!Typed, TheEquality!Named
  <2>2. CASE TheEquality!Make(TheEquality!Typed(TheEquality!Named("Bag"), <<"Bag">>, <<TheEquality!Nil>>), 0)
    BY <1>2, <2>2 DEF Value, Single, TheEquality!Typed, TheEquality!Named, TheEquality!Nil
  <2>3. CASE TheEquality!Make(TheEquality!Typed(TheEquality!Named("Index"), <<"Index">>,
                                                <<TheEquality!At(address + 1)>>), 1)
    <3>1. address + 1 \in 1..(address + 1)
      BY <1>1
    <3> QED
      BY <1>5, <2>3, <3>1 DEF Value, Single, TheEquality!Typed, TheEquality!Named, TheEquality!At
  <2> QED
    BY <1>6, <2>1, <2>2, <2>3 DEF TheEquality!NewRecord
<1>7. CASE TheEquality!NewAccount
  <2>1. address + 1 \in 1..(address + 1)
    BY <1>1
  <2> QED
    BY <1>5, <1>7, <2>1
       DEF Value, Single, TheEquality!NewAccount, TheEquality!Typed, TheEquality!Named, TheEquality!At
<1>8. CASE TheEquality!NewNode
  <2>1. PICK i \in DOMAIN values :
          TheEquality!Make(TheEquality!Typed(TheEquality!Named("Tree"), <<"Node", 0, values[i].term>>,
                                             <<1, 0, TheEquality!At(address + 1)>>), 1)
    BY <1>8 DEF TheEquality!NewNode
  <2> DEFINE term == <<"Node", 0, values[i].term>>
             more == [k \in 1..(address + 1) |-> IF k = address + 1 THEN term ELSE node[k]]
             v == TheEquality!Typed(TheEquality!Named("Tree"), term,
                                    <<1, 0, TheEquality!At(address + 1)>>)
  <2>2. /\ \A k \in 1..address : more[k] = node[k]
        /\ address + 1 \in 1..(address + 1) /\ more[address + 1] = term
    BY <1>1
  <2>3. term[1] = "Node"
    OBVIOUS
  <2> HIDE DEF term, more
  <2>4. Value(more, address + 1, v)
    BY <2>2, <2>3 DEF Value, Single, TheEquality!Typed, TheEquality!Named, TheEquality!At
  <2>5. TheEquality!Make(v, 1)
    BY <2>1 DEF term
  <2> HIDE DEF v
  <2> QED
    BY <1>0, <2>2, <2>4, <2>5, Makes
<1>9. CASE TheEquality!NewOwner
  <2>1. PICK i \in DOMAIN values :
          /\ values[i].type = TheEquality!Named("Account")
          /\ TheEquality!Make(TheEquality!Typed(TheEquality!Named("Owner"), <<"Owner", values[i].term>>,
                                                <<values[i].go>>), 0)
    BY <1>9 DEF TheEquality!NewOwner
  <2>2. PICK k \in 1..address : values[i].term = <<"Account", k>> /\ values[i].go = <<"&", k>>
    <3>1. Value(node, address, values[i])
      BY <1>1
    <3>2. Single(node, address, values[i])
      BY <2>1, <3>1 DEF Value, MadeOf, TheEquality!Named
    <3> QED
      BY <2>1, <3>2 DEF Single, TheEquality!Named
  <2> QED
    BY <1>2, <2>1, <2>2 DEF Value, Single, TheEquality!Typed, TheEquality!Named
<1>10. CASE TheEquality!NewPair
  <2>1. PICK i \in DOMAIN values, j \in DOMAIN values :
          /\ values[i].type[1] # "Pair" /\ values[j].type[1] # "Pair"
          /\ TheEquality!Make(TheEquality!Typed(TheEquality!Pair(values[i].type, values[j].type),
                  <<"Pair", values[i].term, values[j].term>>, <<values[i].go, values[j].go>>), 0)
    BY <1>10 DEF TheEquality!NewPair
  <2> DEFINE v == TheEquality!Typed(TheEquality!Pair(values[i].type, values[j].type),
                  <<"Pair", values[i].term, values[j].term>>, <<values[i].go, values[j].go>>)
  <2>2. Single(node, address, values[i]) /\ Single(node, address, values[j])
    BY <1>1, <2>1 DEF Value, MadeOf
  <2>3. MadeOf(values[i], values[j], v)
    BY DEF MadeOf, TheEquality!Typed, TheEquality!Pair
  <2>4. TheEquality!Make(v, 0)
    BY <2>1
  <2> HIDE DEF v
  <2> QED
    BY <1>2, <2>2, <2>3, <2>4 DEF Value
<1>13. CASE TheEquality!Copy
  BY <1>1, <1>2, <1>13 DEF TheEquality!Copy
<1>11. CASE TheEquality!Compare
  <2>1. UNCHANGED <<values, address>>
    BY <1>11 DEF TheEquality!Compare
  <2>2. PICK i \in DOMAIN values, j \in DOMAIN values :
          compared' =
           [left |-> i, right |-> j,
            admitted |-> /\ TheEquality!Comparable(values[i].type) /\ TheEquality!Comparable(values[j].type)
                         /\ {values[i].type[1], values[j].type[1]} \cap {"Pair"} # {} => values[i].type = values[j].type,
            builds |-> values[i].type = values[j].type /\ TheEquality!GoComparable(values[i].type),
            answer |-> values[i].type = values[j].type /\ values[i].go = values[j].go]
    BY <1>11 DEF TheEquality!Compare
  <2>3. ComparedHere'
    <3> DEFINE a == values[i]
               b == values[j]
               admitted == /\ TheEquality!Comparable(a.type) /\ TheEquality!Comparable(b.type)
                           /\ {a.type[1], b.type[1]} \cap {"Pair"} # {} => a.type = b.type
               builds == a.type = b.type /\ TheEquality!GoComparable(a.type)
               answer == a.type = b.type /\ a.go = b.go
    <3>1. compared' = [left |-> i, right |-> j, admitted |-> admitted, builds |-> builds,
                       answer |-> answer]
      BY <2>2
    <3>2. TheEquality!Left' = a /\ TheEquality!Right' = b
      BY <2>1, <2>2 DEF TheEquality!Left, TheEquality!Right
    <3>3. (\A t : TheEquality!Comparable(t)' <=> TheEquality!Comparable(t))
          /\ (\A t : TheEquality!GoComparable(t)' <=> TheEquality!GoComparable(t))
      BY DEF TheEquality!Comparable, TheEquality!GoComparable
    <3>4. /\ compared'.left \in 1..Len(values') /\ compared'.right \in 1..Len(values')
          /\ compared'.admitted <=> admitted
          /\ compared'.builds <=> builds
          /\ compared'.answer <=> answer
      <4> HIDE DEF admitted, builds, answer
      <4> QED
        BY <1>1, <2>1, <3>1
    <3> QED
      BY <3>2, <3>4 DEF ComparedHere
  <2>4. ValuesAre(node)'
    BY <1>0, <2>1 DEF ValuesAre
  <2> QED
    BY <2>3, <2>4 DEF EqualityInv
<1>12. CASE UNCHANGED TheEquality!vars
  BY <1>12 DEF TheEquality!vars, EqualityInv, ValuesAre, ComparedHere, TheEquality!Left, TheEquality!Right
<1> QED
  BY <1>3, <1>4, <1>6, <1>7, <1>8, <1>9, <1>10, <1>11, <1>12, <1>13 DEF TheEquality!Next

\* Between two values of a type, tuples among them, Go's == tells what their
\* terms tell, unless they hold an address.
LEMMA ValuesCompare ==
  ASSUME NEW node, NEW n \in Nat, NEW v, NEW w, Value(node, n, v), Value(node, n, w), v.type = w.type
  PROVE  /\ v.go = w.go => v.term = w.term
         /\ v.term = w.term /\ ~TheEquality!HasAddress(v.term) => v.go = w.go
<1>0. ASSUME NEW p, Single(node, n, p)
      PROVE  p.type[1] # "Pair" /\ p.term[1] # "Pair"
  BY <1>0 DEF Single
<1>1. CASE Single(node, n, v)
  <2>1. Single(node, n, w)
    BY <1>0, <1>1 DEF Value, MadeOf
  <2>2. ~TheEquality!HasAddress(v.term) => v.term[1] \notin {"Node", "Index"}
    BY <1>0, <1>1 DEF TheEquality!HasAddress, TheEquality!Components
  <2> QED
    BY <1>1, <2>1, <2>2, SinglesCompare
<1>2. CASE ~Single(node, n, v)
  <2>1. PICK p, q : Single(node, n, p) /\ Single(node, n, q) /\ MadeOf(p, q, v)
    BY <1>2 DEF Value
  <2>2. v.type[1] = "Pair"
    BY <2>1 DEF MadeOf
  <2>3. PICK r, s : Single(node, n, r) /\ Single(node, n, s) /\ MadeOf(r, s, w)
    BY <1>0, <2>2 DEF Value
  <2>4. p.type = r.type /\ q.type = s.type
    <3>1. v.type[2] = p.type /\ v.type[3] = q.type
      BY <2>1 DEF MadeOf
    <3>2. w.type[2] = r.type /\ w.type[3] = s.type
      BY <2>3 DEF MadeOf
    <3> QED
      BY <3>1, <3>2
  <2>5. /\ v.go = w.go <=> (p.go = r.go /\ q.go = s.go)
        /\ v.term = w.term <=> (p.term = r.term /\ q.term = s.term)
    BY <2>1, <2>3 DEF MadeOf
  <2>6. ~TheEquality!HasAddress(v.term) =>
          p.term[1] \notin {"Node", "Index"} /\ q.term[1] \notin {"Node", "Index"}
    BY <2>1 DEF MadeOf, TheEquality!HasAddress, TheEquality!Components
  <2>7. /\ p.go = r.go => p.term = r.term
        /\ p.term = r.term /\ p.term[1] \notin {"Node", "Index"} => p.go = r.go
    BY <2>1, <2>3, <2>4, SinglesCompare
  <2>8. /\ q.go = s.go => q.term = s.term
        /\ q.term = s.term /\ q.term[1] \notin {"Node", "Index"} => q.go = s.go
    BY <2>1, <2>3, <2>4, SinglesCompare
  <2> QED
    BY <2>5, <2>6, <2>7, <2>8
<1> QED
  BY <1>1, <1>2

\* So a comparison that is admitted and builds goes by the components.
LEMMA EqualityInvSuffices ==
  ASSUME EqualityInv
  PROVE  TheEquality!EqualByComponents
<1> DEFINE a == TheEquality!Left
           b == TheEquality!Right
<1>1. CASE compared.admitted = FALSE /\ compared.builds = FALSE
  BY <1>1 DEF TheEquality!EqualByComponents, TheEquality!Built
<1>2. CASE ~(compared.admitted = FALSE /\ compared.builds = FALSE)
  <2>1. /\ compared.left \in 1..Len(values) /\ compared.right \in 1..Len(values)
        /\ compared.admitted <=>
             /\ TheEquality!Comparable(a.type) /\ TheEquality!Comparable(b.type)
             /\ {a.type[1], b.type[1]} \cap {"Pair"} # {} => a.type = b.type
        /\ compared.builds <=> (a.type = b.type /\ TheEquality!GoComparable(a.type))
        /\ compared.answer <=> (a.type = b.type /\ a.go = b.go)
    BY <1>2 DEF EqualityInv, ComparedHere
  <2>2. PICK node : ValuesAre(node)
    BY DEF EqualityInv
  <2>3. address \in Nat /\ Value(node, address, a) /\ Value(node, address, b)
    BY <2>1, <2>2 DEF ValuesAre, TheEquality!Left, TheEquality!Right
  <2>4. ASSUME TheEquality!Built
        PROVE  /\ compared.answer => a.term = b.term
               /\ a.term = b.term /\ ~TheEquality!HasAddress(a.term) => compared.answer
    <3>1. a.type = b.type
      BY <2>1, <2>4 DEF TheEquality!Built
    <3> HIDE DEF a, b
    <3>2. /\ a.go = b.go => a.term = b.term
          /\ a.term = b.term /\ ~TheEquality!HasAddress(a.term) => a.go = b.go
      BY <2>3, <3>1, ValuesCompare
    <3> QED
      BY <2>1, <3>1, <3>2
  <2>5. compared.admitted => ~TheEquality!HasClass(a.type) /\ ~TheEquality!HasClass(b.type)
    BY <2>1 DEF TheEquality!Comparable, TheEquality!HasClass
  <2>6. ~compared.builds => a.type # b.type \/ ~TheEquality!GoComparable(a.type)
    BY <2>1
  <2> QED
    BY <2>4, <2>5, <2>6 DEF TheEquality!EqualByComponents
<1> QED
  BY <1>1, <1>2

\* For any number of values: a comparison the checker admits and Go builds answers
\* what the components do, whatever the order in which the values were made,
\* except between values that hold an address.
THEOREM AlwaysEqualByComponents ==
  TheEquality!Spec => []TheEquality!EqualByComponents
<1> QED
  BY EqualityInvInit, EqualityInvNext, EqualityInvSuffices, PTL DEF TheEquality!Spec

-----------------------------------------------------------------------------
(* The parts together, as Phases and Values have them.                     *)

\* A step leaves the choice alone, and is one of the chosen part, or none.
LEMMA StepOfPhase ==
  ASSUME [PhasesNext]_phaseVars
  PROVE  /\ part' = part
         /\ part = "jumps"    => [TheJumps!Next]_(TheJumps!vars)
         /\ part = "names"    => [TheNames!Next]_(TheNames!vars)
         /\ part = "manifest" => [TheManifest!Next]_(TheManifest!vars)
         /\ part = "driver"   => [TheDriver!Next]_(TheDriver!vars)
<1>1. CASE UNCHANGED phaseVars
  <2>1. part' = part /\ UNCHANGED <<nest, jumpVars, nameVars, manifestVars, driverVars>>
    BY <1>1 DEF phaseVars
  <2>2. UNCHANGED TheJumps!vars
    BY <2>1 DEF jumpVars, TheJumps!vars
  <2>3. UNCHANGED TheNames!vars
    BY <2>1 DEF nameVars, TheNames!vars
  <2>4. UNCHANGED TheManifest!vars
    BY <2>1 DEF manifestVars, TheManifest!vars
  <2>5. UNCHANGED TheDriver!vars
    BY <2>1 DEF driverVars, TheDriver!vars, TheDriver!found
  <2> QED
    BY <2>1, <2>2, <2>3, <2>4, <2>5
<1>2. CASE PhasesNext
  <2>1. /\ part' = part
        /\ part = "jumps"    => TheJumps!Next
        /\ part = "names"    => TheNames!Next
        /\ part = "manifest" => TheManifest!Next
        /\ part = "driver"   => TheDriver!Next
    BY <1>2 DEF PhasesNext, OnlyPhase
  <2> QED
    BY <2>1
<1> QED
  BY <1>1, <1>2

\* However deep constructs are nested, a jump that passes the checker, codegen and
\* Go lands where it is meant to but for the listed kinds, a spawn joins its own
\* scope, and a jump with nothing in its way works.
THEOREM PhasesJumpsWork == PhasesSpec => []JumpsWork
<1>1. PhasesInit => (part = "jumps" => JumpInv)
  BY JumpInvInit DEF PhasesInit
<1>2. (part = "jumps" => JumpInv) /\ [PhasesNext]_phaseVars => (part = "jumps" => JumpInv)'
  BY StepOfPhase, JumpInvNext
<1>3. (part = "jumps" => JumpInv) => JumpsWork
  BY JumpsLandWhereMeant, SpawnsJoinNearest, CleanJumpsGetThrough
     DEF JumpsWork, TheJumps!JumpsWork
<1> QED
  BY <1>1, <1>2, <1>3, PTL DEF PhasesSpec

\* For programs of every size, over any names: a use means the closest declaration
\* that is not over, and Go takes the same one, but for the listed exceptions.
THEOREM PhasesBindAsResolved == PhasesSpec => []BindsAsResolved
<1>1. PhasesInit => (part = "names" => NamesInv)
  BY NamesInvInit DEF PhasesInit
<1>2. (part = "names" => NamesInv) /\ [PhasesNext]_phaseVars => (part = "names" => NamesInv)'
  BY StepOfPhase, NamesInvNext, SpellingsAssumption
<1>3. (part = "names" => NamesInv) => BindsAsResolved
  BY DEF NamesInv, BindsAsResolved
<1> QED
  BY <1>1, <1>2, <1>3, PTL DEF PhasesSpec

\* For manifests of every length: one is accepted exactly if every line of it is
\* in the schema and it is complete, and then says what its last lines say.
THEOREM PhasesReadSchema == PhasesSpec => []ReadsSchema
<1>1. PhasesInit => (part = "manifest" => ManifestInv)
  BY ManifestInvInit DEF PhasesInit
<1>2. (part = "manifest" => ManifestInv) /\ [PhasesNext]_phaseVars => (part = "manifest" => ManifestInv)'
  BY StepOfPhase, ManifestInvNext
<1>3. (part = "manifest" => ManifestInv) => ReadsSchema
  BY ManifestInvSuffices DEF ReadsSchema
<1> QED
  BY <1>1, <1>2, <1>3, PTL DEF PhasesSpec

\* For any number of imports and whatever fails: a command that ends did what it owes
\* exactly if it could, exits 0 only then, and leaves no temporary directory.
THEOREM PhasesEndClean == PhasesSpec => []CommandsEndClean
<1>1. PhasesInit => (part = "driver" => DriverInv)
  BY DriverInvInit DEF PhasesInit
<1>2. (part = "driver" => DriverInv) /\ [PhasesNext]_phaseVars => (part = "driver" => DriverInv)'
  BY StepOfPhase, DriverInvNext
<1>3. (part = "driver" => DriverInv) => CommandsEndClean
  BY DEF DriverInv, CommandsEndClean
<1> QED
  BY <1>1, <1>2, <1>3, PTL DEF PhasesSpec

\* The same of Values.
LEMMA StepOfValue ==
  ASSUME [ValueNext]_valueVars
  PROVE  /\ which' = which
         /\ which = "loops"    => [TheLoops!Next]_(TheLoops!vars)
         /\ which = "equality" => [TheEquality!Next]_(TheEquality!vars)
<1>1. CASE UNCHANGED valueVars
  BY <1>1 DEF valueVars, loopVars, equalVars, TheLoops!vars, TheEquality!vars
<1>2. CASE ValueNext
  BY <1>2 DEF ValueNext, OnlyValue
<1> QED
  BY <1>1, <1>2

\* For ints of every width and any number of writes: a loop visits its numbers in
\* order, each once and all of them before it ends, unless its body moves the bound;
\* up to the greatest int it visits them and does not end.
THEOREM ValuesVisitRange == ValueSpec => []VisitsRange
<1> DEFINE LoopsInv == which = "loops" => LoopInv /\ UnendingInv
<1>1. ValueInit => LoopsInv
  BY LoopInvInit, UnendingInvInit, WidthAssumption DEF ValueInit
<1>2. LoopsInv /\ [ValueNext]_valueVars => LoopsInv'
  BY StepOfValue, LoopInvNext, UnendingInvNext, WidthAssumption
<1>3. LoopsInv => VisitsRange
  BY LoopInvSuffices, WidthAssumption DEF VisitsRange
<1> QED
  BY <1>1, <1>2, <1>3, PTL DEF ValueSpec

\* For any number of values: == answers what the components do, unless an address
\* is compared, and no comparison of class instances is admitted.
THEOREM ValuesEqualByComponents == ValueSpec => []EqualByComponents
<1>1. ValueInit => (which = "equality" => EqualityInv)
  BY EqualityInvInit DEF ValueInit
<1>2. (which = "equality" => EqualityInv) /\ [ValueNext]_valueVars => (which = "equality" => EqualityInv)'
  BY StepOfValue, EqualityInvNext
<1>3. (which = "equality" => EqualityInv) => EqualByComponents
  BY EqualityInvSuffices DEF EqualByComponents
<1> QED
  BY <1>1, <1>2, <1>3, PTL DEF ValueSpec

=============================================================================
