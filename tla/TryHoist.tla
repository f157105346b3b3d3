------------------------------ MODULE TryHoist ------------------------------
(***************************************************************************)
(* A statement with tries in it, from its expressions to the events of the *)
(* running program.  Go has no expression that returns, so try.go lifts    *)
(* every try in front of the statement (a preamble: evaluate the operand,  *)
(* return if it failed) and puts a temporary in its place, provided that   *)
(* hoistableTries finds nothing that it would overtake; if it does, the    *)
(* try stays, and emitExpr refuses the program.                            *)
(*                                                                         *)
(* An expression is a node and the nodes before it: nodes are numbered in  *)
(* the order the parser finishes them.  Kinds:                             *)
(*   leaf    a literal or a name                                           *)
(*   both    an operator, a tuple or slice literal: its operands only      *)
(*   point   x[i], x / y, x % y: its operands, then perhaps a panic        *)
(*   call    its operands, then the call                                   *)
(*   logic   && and ||: the right operand is evaluated on a condition      *)
(*   branch  what the walks do not enter, a value-position if for one: an  *)
(*           effect of its own, then its part on a condition               *)
(*   try     its operand, then perhaps a return                            *)
(* Expressions that only pass one operand through (a sign, a field,        *)
(* parentheses) are left out.  Of what stays in place Go evaluates calls,  *)
(* && and || from left to right, and may take a point of theirs earlier or *)
(* later.                                                                  *)
(***************************************************************************)
EXTENDS Naturals, SequencesExt

CONSTANT MaxNodes   \* bound: nodes of a statement

VARIABLES
  nodes,     \* the expressions of the statement
  roots,     \* those that are no operand yet: a value, or an LValue and a value
  fallible,  \* curFuncReturn is a Result or an Option
  plan,      \* the tries with a preamble, in the order of the preambles
  taken,     \* the logic and branch nodes whose conditional part is evaluated
  ran,       \* the events of Lowered the program went through, by their places
  status

vars == <<nodes, roots, fallible, plan, taken, ran, status>>

Arity == [leaf |-> {0}, both |-> {2}, point |-> {2}, call |-> {0, 1},
          logic |-> {2}, branch |-> {1}, try |-> {1}]

Node == DOMAIN nodes
KindOf(n) == nodes[n].kind
Kids(n) == nodes[n].kids
Tries == {n \in Node : KindOf(n) = "try"}

\* What f has of the expressions es, of which there are at most two, in their
\* order: lists joined, and states passed on.
Joined(f, es) ==
  IF Len(es) = 0 THEN <<>> ELSE IF Len(es) = 1 THEN f[es[1]] ELSE f[es[1]] \o f[es[2]]
Through(f, es, s) ==
  IF Len(es) = 0 THEN s ELSE IF Len(es) = 1 THEN f[es[1]][s] ELSE f[es[2]][f[es[1]][s]]

-----------------------------------------------------------------------------
(* hoistableTries.                                                         *)

\* What the walk goes into.
\* Mutant: the right operand of && and ||, too.
DescendedAll(n) == IF KindOf(n) = "branch" THEN <<>> ELSE Kids(n)
Descended(n) ==
  CASE KindOf(n) = "logic"  -> <<Kids(n)[1]>>
    [] KindOf(n) = "branch" -> <<>>
    [] OTHER -> Kids(n)

\* What sets impure.
\* Mutant: the panic points were forgotten.
MarksCalls(n) == KindOf(n) \in {"call", "branch"}
Marks(n) == KindOf(n) \in {"call", "point", "branch"}

\* impure = saved, behind a try; unless ok is gone.
\* Mutant: what the operand did counts for what follows.
RestoredNever(saved, inner) == inner
Restored(saved, inner) == IF inner = "unsafe" THEN inner ELSE saved

\* impure and ok as one state.
Purity == {"pure", "impure", "unsafe"}

walk[n \in Node] == [seen \in Purity |->
  LET over(from) == Through(walk, Descended(n), from) IN
  IF seen = "unsafe" THEN seen
  ELSE IF KindOf(n) = "try"
  THEN IF seen = "impure" THEN "unsafe" ELSE Restored(seen, over("pure"))
  ELSE IF Marks(n) /\ over(seen) # "unsafe" THEN "impure" ELSE over(seen)]

Hoistable(exprs) == Through(walk, exprs, "pure") # "unsafe"

-----------------------------------------------------------------------------
(* hoistExprTries and emitTryPreamble: the preambles in their order.  The  *)
(* operand of a try is a frame of its own, checked again by itself.        *)

\* Mutant: the tries of the operand are also left to the caller.
PreamblesTwice(t, inner) == inner \o inner \o <<t>>
Preambles(t, inner) == inner \o <<t>>

hoist[n \in Node] ==
  LET all == Joined(hoist, Descended(n)) IN
  IF KindOf(n) # "try" THEN all
  ELSE Preambles(n, IF Hoistable(Kids(n)) THEN all ELSE <<>>)

HoistsIfSafe(exprs) == IF Hoistable(exprs) THEN Joined(hoist, exprs) ELSE <<>>

-----------------------------------------------------------------------------
(* Evaluation.                                                             *)

\* The operands of n that are evaluated when conditions are as in cond.
Evaluated(n, cond) ==
  CASE KindOf(n) = "logic"  -> IF n \in cond THEN Kids(n) ELSE <<Kids(n)[1]>>
    [] KindOf(n) = "branch" -> IF n \in cond THEN Kids(n) ELSE <<>>
    [] OTHER -> Kids(n)

\* The events of expressions in the order of the text, those of the tries in done
\* being over.
EventsOf(done, cond) ==
  LET ev[n \in Node] ==
        LET sub == Joined(ev, Evaluated(n, cond)) IN
        IF n \in done THEN <<>>
        ELSE IF KindOf(n) = "branch" THEN <<n>> \o sub
        ELSE IF KindOf(n) \in {"call", "point", "try"} THEN sub \o <<n>>
        ELSE sub
  IN ev
Events(exprs, done, cond) == Joined(EventsOf(done, cond), exprs)

\* What the program says.
Source == Events(roots, {}, taken)

\* What preambles do, one after the other: the operand, then the return or not.
EventsOfPreambles(tries, done, cond) ==
  LET upTo[i \in 0 .. Len(tries)] ==
        IF i = 0 THEN <<>>
        ELSE upTo[i - 1] \o (Events(Kids(tries[i]), done, cond) \o <<tries[i]>>)
  IN upTo[Len(tries)]

\* What its Go code says: the preambles, then the statement.
Lowered == EventsOfPreambles(plan, Range(plan), taken) \o Events(roots, Range(plan), taken)

\* The nodes of the expression n.
within[n \in Node] == {n} \cup UNION {within[k] : k \in Range(Kids(n))}
Within(n) == within[n]

\* Go may take the panic point p before or after e: no operand of the other, in
\* the same tries (a try ends a Go statement), and p not in an operand of && or
\* ||, or in a branch, that e is not in.
Floats(p, e) ==
  /\ KindOf(p) = "point"
  /\ p \notin Within(e) /\ e \notin Within(p)
  /\ \A t \in Tries : p \in Within(t) <=> e \in Within(t)
  /\ \A c \in Node : KindOf(c) \in {"logic", "branch"} =>
       \A k \in Range(Kids(c)) : p \in Within(k) => e \in Within(k)

\* Go may go through the events at these places in this order.
InOrder(events, places) ==
  /\ IsInjective(places)
  /\ \A n \in DOMAIN places : \A i \in 1..(places[n] - 1) :
       \/ Floats(events[i], events[places[n]]) \/ Floats(events[places[n]], events[i])
       \/ \E m \in 1..(n - 1) : places[m] = i

\* Go assigns, and may panic over the index, behind all else.
Target == IF Len(roots) = 2 THEN {roots[1]} ELSE {}

-----------------------------------------------------------------------------
Init ==
  /\ nodes = <<>> /\ roots = <<>>
  /\ fallible \in BOOLEAN
  /\ plan = <<>> /\ taken = {} /\ ran = <<>>
  /\ status = "parsing"

\* x = e, x[i] = e.
Assignment(ns, rs) == Len(rs) = 2 /\ ns[rs[1]].kind \in {"leaf", "point"}

\* The parser finishes an expression of kind k over the last a; within the bound
\* it gets to the end of a statement.
Finish(k, a) ==
  /\ status = "parsing"
  /\ Len(nodes) < MaxNodes
  /\ a =< Len(roots) /\ Len(roots) - a =< 1
  /\ LET rest == Len(roots) - a IN
       /\ nodes' = Append(nodes, [kind |-> k, kids |-> SubSeq(roots, rest + 1, Len(roots))])
       /\ roots' = Append(SubSeq(roots, 1, rest), Len(nodes) + 1)
  /\ Len(nodes') < MaxNodes \/ Len(roots') = 1 \/ Assignment(nodes', roots')
  /\ UNCHANGED <<fallible, plan, taken, ran, status>>

\* A preamble needs a function it can return from; a try without one is an
\* error of emitExpr.
Emit(hoisted) ==
  /\ plan' = hoisted
  /\ status' = IF Tries = {} \/ (fallible /\ Tries \subseteq Range(hoisted))
                 THEN "running" ELSE "refused"
  /\ taken' \in IF status' = "running"
                  THEN SUBSET {n \in Node : KindOf(n) \in {"logic", "branch"}}
                  ELSE {{}}
  /\ UNCHANGED <<nodes, roots, fallible, ran>>

\* let x = try e, return try e, try e: emitTryPreamble at once.
LowerTry ==
  /\ status = "parsing"
  /\ Len(roots) = 1 /\ KindOf(roots[1]) = "try"
  /\ Emit(Preambles(roots[1], HoistsIfSafe(Kids(roots[1]))))

\* let x = e, return e, e.
LowerValue ==
  /\ status = "parsing"
  /\ Len(roots) = 1 /\ KindOf(roots[1]) # "try"
  /\ Emit(HoistsIfSafe(roots))

\* Both sides of an assignment are one frame.
LowerAssign ==
  /\ status = "parsing"
  /\ Assignment(nodes, roots)
  /\ Emit(HoistsIfSafe(roots))

\* The program gets to the next event, which may end the function: a panic, or a
\* try that failed.
Run ==
  /\ status = "running"
  /\ LET events == Lowered IN
       \E i \in DOMAIN events :
         /\ ran' = Append(ran, i)
         /\ InOrder(events, ran')
         /\ events[i] \in Target => Range(ran') = DOMAIN events
  /\ status' \in {"running", "left"}
  /\ UNCHANGED <<nodes, roots, fallible, plan, taken>>

\* The statement is over.
Complete ==
  /\ status = "running"
  /\ Range(ran) = DOMAIN Lowered
  /\ status' = "complete"
  /\ UNCHANGED <<nodes, roots, fallible, plan, taken, ran>>

Over == status \in {"refused", "left", "complete"} /\ UNCHANGED vars

Next ==
  \/ \E k \in DOMAIN Arity : \E a \in Arity[k] : Finish(k, a)
  \/ LowerTry \/ LowerValue \/ LowerAssign
  \/ Run \/ Complete \/ Over

Spec == Init /\ [][Next]_vars

-----------------------------------------------------------------------------
(* Properties.                                                             *)

\* Types; a node has operands before it, and a try at most one temporary.
TypeOK ==
  /\ \A n \in Node : /\ KindOf(n) \in DOMAIN Arity
                     /\ Len(Kids(n)) \in Arity[KindOf(n)]
                     /\ Range(Kids(n)) \subseteq 1..(n - 1)
  /\ roots \in Seq(Node) /\ Len(roots) =< 2
  /\ fallible \in BOOLEAN
  /\ plan \in Seq(Tries) /\ IsInjective(plan)
  /\ taken \subseteq Node
  /\ ran \in Seq(DOMAIN Lowered)
  /\ status \in {"parsing", "refused", "running", "left", "complete"}

Text == Events(roots, {}, Node)
Before(e, t) == \E i, j \in DOMAIN Text : i < j /\ Text[i] = e /\ Text[j] = t

\* e is an effect in t's frame that the text has before t: a preamble for t
\* would overtake it.
Overtaken(e, t) ==
  /\ Before(e, t) /\ e \notin Within(t)
  /\ \A u \in Tries : e \in Within(u) => t \in Within(u)

OnCondition(n) ==
  \E c \in Node :
    \/ KindOf(c) = "logic" /\ n \in Within(Kids(c)[2])
    \/ KindOf(c) = "branch" /\ n \in Within(Kids(c)[1])

\* "a try is hoisted only when every expression preceding it in its frame is
\* pure": the program goes through the events of its text in an order Go could
\* have taken if it had expressions that return, each once, and all of them
\* unless it leaves.  The code's does not, after an effect in the right operand of
\* && or ||.
KeepsOrder ==
  LET source == Source
      lowered == Lowered
  IN \E places \in [DOMAIN ran -> DOMAIN source] :
       /\ \A n \in DOMAIN ran : source[places[n]] = lowered[ran[n]]
       /\ InOrder(source, places)
       /\ status = "complete" => Range(places) = DOMAIN source

\* What hoistableTries never sees: an effect in the right operand of && or ||
\* with a try behind it.
Unseen ==
  \E c \in Node : /\ KindOf(c) = "logic"
                  /\ \E e \in Within(Kids(c)[2]), t \in Tries : Overtaken(e, t)

\* Everywhere else no effect is overtaken, lost or repeated, whether a try of
\* the statement fails, something panics or a condition skips a part.
KeepsOrderOfSeen == KeepsOrder \/ Unseen

\* A program is only refused for a try whose preamble would overtake an effect
\* or drop its condition, or in a function that cannot return it.
RefusesOnlyReorderings ==
  status = "refused" =>
    \/ ~fallible
    \/ \E t \in Tries : OnCondition(t) \/ \E e \in Node : Overtaken(e, t)

\* Hoisting refuses exactly what it would reorder, of what it can see.
HoistsExactly == KeepsOrderOfSeen /\ RefusesOnlyReorderings
=============================================================================
