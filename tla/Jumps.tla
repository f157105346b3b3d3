------------------------------- MODULE Jumps -------------------------------
(***************************************************************************)
(* Where break, continue, return and try land.  The checker and the code   *)
(* generator walk the same nest of constructs, each with a context that it *)
(* changes on the way in and restores on the way out; a jump is judged by  *)
(* the checker's context and written with the generator's, and Go resolves *)
(* what was written by Go's own nest of functions, loops and switches.     *)
(*                                                                         *)
(* Statement blocks and ifs are transparent to all of it and left out, and *)
(* a tail match is a statement match here: both are a Go switch.           *)
(***************************************************************************)
EXTENDS Integers, SequencesExt, FiniteSetsExt

CONSTANT MaxDepth  \* constructs around a jump

VARIABLES
  fn,    \* the declared return type of the function
  nest,  \* the constructs walked into, outermost first
  sema,  \* the checker: [loopDepth, scopeDepth, curReturn, tryForbidden]
  gen,   \* codegen: [inSpawnBody, groupVars]; curFuncReturn stays fn
  saved, \* per construct, both contexts as they were on the way in
  jump   \* the last jump and what became of it: [kind, verdict, lands]

vars == <<fn, nest, sema, gen, saved, jump>>

\* A Result type; "unknown" is the checker's type of what it does not model,
\* a constructor Ok(v) or Err(e) among it.
Types == {"unit", "int", "result"}

\* A construct and the type of its value; closures say if they are annotated.
Statement(k) == [kind |-> k, type |-> "unit", annotated |-> FALSE]
Value(k, t)  == [kind |-> k, type |-> t, annotated |-> FALSE]
Closure(t, a) == [kind |-> "closure", type |-> t, annotated |-> a]

Constructs ==
  {Statement(k) : k \in {"loop", "match", "select", "spawn"}}
    \cup {Value(k, t) : k \in {"value-block", "value-match"}, t \in {"int", "result"}}
    \cup {Value("scope", "result")}
    \cup {Closure(t, a) : t \in Types, a \in BOOLEAN}

JumpKinds == {"break", "continue", "return", "return-int", "return-result",
              "return-Ok", "try"}
IsReturn(j) == j \in {"return", "return-int", "return-result", "return-Ok"}

Init ==
  /\ fn \in Types
  /\ nest = <<>> /\ saved = <<>>
  /\ sema = [loopDepth |-> 0, scopeDepth |-> 0, curReturn |-> fn,
             tryForbidden |-> fn # "result"]
  /\ gen = [inSpawnBody |-> FALSE, groupVars |-> <<>>]
  /\ jump = [kind |-> "none", verdict |-> "none", lands |-> 0]

-----------------------------------------------------------------------------
(* The way in and out of a construct.                                      *)

\* Mutant: a closure's returns are checked against the function's type.
SemaInsideSameReturn(s, c) ==
  CASE c.kind = "loop"    -> [s EXCEPT !.loopDepth = @ + 1]
    [] c.kind = "scope"   -> [s EXCEPT !.scopeDepth = @ + 1]
    [] c.kind = "closure" -> [s EXCEPT !.scopeDepth = 0]
    [] OTHER -> s
\* checkStmt's loops, inferScope, inferClosure; the rest walks through.
SemaInside(s, c) ==
  CASE c.kind = "loop"  -> [s EXCEPT !.loopDepth = @ + 1]
    [] c.kind = "scope" -> [s EXCEPT !.scopeDepth = @ + 1]
    [] c.kind = "closure" ->
         [s EXCEPT !.scopeDepth = 0,
                   !.curReturn = IF c.annotated THEN c.type ELSE "unknown",
                   !.tryForbidden = c.annotated /\ c.type # "result"]
    [] OTHER -> s

\* emitScopeExpr, emitSpawnStmt, emitClosure, for the i-th construct.
GenInside(g, i, c) ==
  CASE c.kind = "scope" -> [inSpawnBody |-> FALSE,
                            groupVars |-> Append(g.groupVars, i)]
    [] c.kind = "spawn"   -> [g EXCEPT !.inSpawnBody = TRUE]
    [] c.kind = "closure" -> [g EXCEPT !.inSpawnBody = FALSE]
    [] OTHER -> g

\* Mutant: any scope around the spawn will do.
AcceptsInClosure(c) == c.kind = "spawn" => \E i \in DOMAIN nest : nest[i].kind = "scope"
\* inferSpawn: E0405 unless a scope is open.
Accepts(c) == c.kind = "spawn" => sema.scopeDepth > 0

Enter(c) ==
  /\ Len(nest) < MaxDepth
  /\ Accepts(c)
  /\ nest' = Append(nest, c)
  /\ sema' = SemaInside(sema, c)
  /\ gen' = GenInside(gen, Len(nest) + 1, c)
  /\ saved' = Append(saved, [sema |-> sema, gen |-> gen])
  /\ jump' = [kind |-> "none", verdict |-> "none", lands |-> 0]
  /\ UNCHANGED fn

\* Each walker puts back what it saved, and counts down what it counted up.
Leave ==
  /\ nest # <<>>
  /\ LET c == Last(nest)
         before == Last(saved) IN
     /\ sema' = CASE c.kind = "loop"  -> [sema EXCEPT !.loopDepth = @ - 1]
                  [] c.kind = "scope" -> [sema EXCEPT !.scopeDepth = @ - 1]
                  [] c.kind = "closure" ->
                       [sema EXCEPT !.scopeDepth = before.sema.scopeDepth,
                                    !.curReturn = before.sema.curReturn,
                                    !.tryForbidden = before.sema.tryForbidden]
                  [] OTHER -> sema
     /\ gen' = CASE c.kind = "scope" ->
                      [inSpawnBody |-> before.gen.inSpawnBody,
                       groupVars |-> SubSeq(gen.groupVars, 1, Len(before.gen.groupVars))]
                 [] c.kind \in {"spawn", "closure"} ->
                      [gen EXCEPT !.inSpawnBody = before.gen.inSpawnBody]
                 [] OTHER -> gen
  /\ nest' = Front(nest)
  /\ saved' = Front(saved)
  /\ jump' = [kind |-> "none", verdict |-> "none", lands |-> 0]
  /\ UNCHANGED fn

-----------------------------------------------------------------------------
(* A jump.                                                                 *)

TypeOfReturned(j) == CASE j = "return" -> "unit" [] j = "return-int" -> "int"
                       [] j = "return-result" -> "result" [] OTHER -> "unknown"

\* inferExpr, checkReturn: the diagnostic, or "accepted".
SemaVerdict(j) ==
  CASE j \in {"break", "continue"} /\ sema.loopDepth = 0 -> "E0404"
    [] IsReturn(j) /\ "unknown" \notin {sema.curReturn, TypeOfReturned(j)}
                   /\ sema.curReturn # TypeOfReturned(j) -> "E0203"
    [] j = "try" /\ sema.tryForbidden -> "E0402"
    [] OTHER -> "accepted"

\* emitTryPreamble writes the function's Result, whatever it is nested in.
GenRefuses(j) == j = "try" /\ fn # "result"

\* The innermost construct of these kinds, 0 for none: the function itself.
Innermost(kinds) == Max({0} \cup {i \in DOMAIN nest : nest[i].kind \in kinds})

\* What is a func literal in Go, and what a break leaves there.
GoFuncs  == {"closure", "spawn", "scope", "value-block", "value-match"}
GoBreaks == {"loop", "match", "select", "value-match"}

\* The Go type of what the statement returns ...
GoReturned(j) == CASE j = "return" -> "unit"
                   [] j = "return-int" -> "int"
                   [] j \in {"return-result", "try"} -> "result"
                   [] j = "return-Ok" -> IF fn = "result" THEN "result" ELSE "untyped"
\* ... which emitSpawnReturn turns into the error of the goroutine.
GoReturnedAt(j) ==
  IF gen.inSpawnBody /\ IsReturn(j)
  THEN IF j = "return-int" THEN "untyped" ELSE "error"
  ELSE GoReturned(j)
GoResult(i) == IF i = 0 THEN fn
               ELSE IF nest[i].kind = "spawn" THEN "error" ELSE nest[i].type

\* Go resolves break and continue within the innermost function.  (A value or
\* tail match that a break leaves builds unless it has a default: Go then
\* misses a return.)
GoBuilds(j) ==
  IF j = "break" THEN Innermost(GoBreaks) >= Max({1, Innermost(GoFuncs)})
  ELSE IF j = "continue" THEN Innermost({"loop"}) > Innermost(GoFuncs)
  ELSE GoReturnedAt(j) = GoResult(Innermost(GoFuncs))
\* Mutant: a break leaves the loop, a continue whatever it is nested in.
GoLandsSwapped(j) == IF j = "continue" THEN Innermost(GoBreaks)
                     ELSE IF j = "break" THEN Innermost({"loop"}) ELSE Innermost(GoFuncs)
GoLands(j) == IF j = "break" THEN Innermost(GoBreaks)
              ELSE IF j = "continue" THEN Innermost({"loop"}) ELSE Innermost(GoFuncs)

Jump(j) ==
  /\ jump.kind = "none"
  /\ LET verdict == CASE SemaVerdict(j) # "accepted" -> SemaVerdict(j)
                      [] GenRefuses(j) -> "not-generated"
                      [] ~GoBuilds(j)  -> "not-built"
                      [] OTHER         -> "lands" IN
     jump' = [kind |-> j, verdict |-> verdict,
              lands |-> IF verdict = "lands" THEN GoLands(j) ELSE 0]
  /\ UNCHANGED <<fn, nest, sema, gen, saved>>

Next == (\E c \in Constructs : Enter(c)) \/ Leave \/ (\E j \in JumpKinds : Jump(j))

Spec == Init /\ [][Next]_vars
-----------------------------------------------------------------------------
(* Properties.                                                             *)

\* The contexts stay in their ranges, and no verdict is without a jump.
TypeOK ==
  /\ Len(nest) = Len(saved) /\ Len(nest) <= MaxDepth
  /\ sema.loopDepth \in 0..MaxDepth /\ sema.scopeDepth \in 0..MaxDepth
  /\ sema.curReturn \in Types \cup {"unknown"}
  /\ \A i \in DOMAIN gen.groupVars : gen.groupVars[i] \in DOMAIN nest
  /\ jump.kind = "none" <=> jump.verdict = "none"
  /\ jump.lands \in 0..Len(nest)

\* What a jump means: a break or continue the innermost loop of the same body,
\* a return or try the body itself, of a closure, a spawn or the function.
Body == Innermost({"closure", "spawn"})
Meant(j) == IF j \in {"break", "continue"}
            THEN IF Innermost({"loop"}) > Body THEN Innermost({"loop"}) ELSE 0
            ELSE Body
Around(i) == {nest[k].kind : k \in (i + 1)..Len(nest)}

\* A jump that is accepted and builds lands where it is meant to, with two
\* exceptions, which lie further in: a break ends the nearest match or select,
\* and a return or a try leaves the nearest scope or construct in value
\* position, if the types happen to agree.  A continue never goes astray.
JumpsLand ==
  jump.verdict = "lands" /\ jump.lands # Meant(jump.kind) =>
    /\ jump.lands > Meant(jump.kind)
    /\ nest[jump.lands].kind \in
         CASE jump.kind = "break"    -> {"match", "select", "value-match"}
           [] jump.kind = "continue" -> {}
           [] OTHER                  -> {"scope", "value-block", "value-match"}

\* What the walkers may not spoil: a jump with nothing between it and its
\* target that Go would take for it, of the right type, works; and no jump in
\* a loop is said to be outside of one.  So every context is put back.
CleanJumpsWork ==
  LET target == Meant(jump.kind)
      type == IF target = 0 THEN fn ELSE nest[target].type
      works ==
        CASE jump.kind = "break"    -> target > 0 /\ Around(target) = {}
          [] jump.kind = "continue" -> target > 0 /\ Around(target) \subseteq {"match", "select"}
          [] OTHER ->
               /\ Around(target) \subseteq {"loop", "match", "select"}
               /\ IF target > 0 /\ nest[target].kind = "spawn" THEN jump.kind = "return-Ok"
                  ELSE IF jump.kind \in {"return-Ok", "try"} THEN type = "result" /\ fn = "result"
                  ELSE TypeOfReturned(jump.kind) = type IN
  /\ jump.kind # "none" /\ works => jump.verdict = "lands" /\ jump.lands = target
  /\ jump.verdict = "E0404" => Innermost({"loop"}) = 0

\* A spawn joins the group of the scope around it: the group the generator
\* names last is that of the nearest scope, and no closure, which could run
\* when the scope is gone, is between them.
SpawnsJoin ==
  nest # <<>> /\ Last(nest).kind = "spawn" =>
    LET scope == Innermost({"scope"}) IN
    /\ scope > 0 /\ gen.groupVars # <<>> /\ Last(gen.groupVars) = scope
    /\ "closure" \notin Around(scope)

\* Jumps and spawns end up where they are meant to.
JumpsWork == JumpsLand /\ CleanJumpsWork /\ SpawnsJoin

\* "break - exit the enclosing loop" (language-spec.md).
BreakLeavesLoop ==
  jump.kind = "break" /\ jump.verdict = "lands" => jump.lands = Meant("break")
=============================================================================
