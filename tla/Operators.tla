----------------------------- MODULE Operators -----------------------------
(***************************************************************************)
(* An expression of operators from its tokens to what Go reads: the        *)
(* parser's levels (parseExpr down to parseUnary) build a tree, a compound *)
(* assignment wraps it, sema types it, emitExpr writes it down again, and  *)
(* Go's own parser groups what is written by Go's levels, which are not    *)
(* Tide's.  Parentheses are nodes of the tree and are written as they were *)
(* read; nothing else puts one in.                                         *)
(*                                                                         *)
(* Tokens are operands of type int and bool, parentheses, and one operator *)
(* of each level, - being also the sign.                                   *)
(***************************************************************************)
EXTENDS Naturals, SequencesExt

CONSTANT MaxTokens   \* bound: tokens of a statement

VARIABLES
  form,     \* "value", or the operator of the compound assignment n op= e
  tokens,   \* the expression
  tree,     \* what the parser made of the statement
  text,     \* what codegen writes: tokens, and -- where two signs meet
  read,     \* what Go makes of it
  status

vars == <<form, tokens, tree, text, read, status>>

Operand == {"n", "b"}
Sign    == {"-", "!"}
Infix   == {"||", "&&", "==", "<", "-", "*"}

\* A tree is an operand, or a token with the trees it applies to.
Leaf(t)         == <<t>>
Prefixed(t, e)  == <<t, e>>
Paren(e)        == <<"(", e>>
Binary(t, l, r) == <<t, l, r>>

-----------------------------------------------------------------------------
(* Precedence.  A level is a set of operators, loosest first, and whether  *)
(* they may follow each other (parseBinaryL) or not (parseBinaryOnce).     *)

\* Mutant: comparisons follow each other like additions.
LevelsChained ==
  << [ops |-> {"||"}, repeats |-> TRUE], [ops |-> {"&&"}, repeats |-> TRUE],
     [ops |-> {"=="}, repeats |-> TRUE], [ops |-> {"<"}, repeats |-> TRUE],
     [ops |-> {"-"},  repeats |-> TRUE], [ops |-> {"*"}, repeats |-> TRUE] >>
Levels ==
  << [ops |-> {"||"}, repeats |-> TRUE],  [ops |-> {"&&"}, repeats |-> TRUE],
     [ops |-> {"=="}, repeats |-> FALSE], [ops |-> {"<"}, repeats |-> FALSE],
     [ops |-> {"-"},  repeats |-> TRUE],  [ops |-> {"*"}, repeats |-> TRUE] >>

GoLevels ==
  << [ops |-> {"||"}, repeats |-> TRUE], [ops |-> {"&&"}, repeats |-> TRUE],
     [ops |-> {"==", "<"}, repeats |-> TRUE],
     [ops |-> {"-"},  repeats |-> TRUE], [ops |-> {"*"}, repeats |-> TRUE] >>

\* What a descent returns: a tree and the place behind it, or a diagnostic.
Parsed(t, at) == [ok |-> TRUE, tree |-> t, at |-> at]
Refused == [ok |-> FALSE, tree |-> <<>>, at |-> 0]

At(toks, i, set) == i \in DOMAIN toks /\ toks[i] \in set

RECURSIVE ParseLevel(_, _, _, _), ParseRest(_, _, _, _), ParsePrefix(_, _, _)

ParseLevel(levels, toks, k, at) ==
  IF k > Len(levels) THEN ParsePrefix(levels, toks, at)
  ELSE LET left == ParseLevel(levels, toks, k + 1, at)
       IN IF left.ok THEN ParseRest(levels, toks, k, left) ELSE left

\* The operators of level k behind an operand.
ParseRest(levels, toks, k, left) ==
  IF ~At(toks, left.at, levels[k].ops) THEN left
  ELSE
    LET right == ParseLevel(levels, toks, k + 1, left.at + 1)
        both  == Parsed(Binary(toks[left.at], left.tree, right.tree), right.at)
    IN CASE ~right.ok -> right
         [] right.ok /\ levels[k].repeats -> ParseRest(levels, toks, k, both)
         [] OTHER -> IF At(toks, both.at, levels[k].ops) THEN Refused ELSE both

ParsePrefix(levels, toks, at) ==
  CASE At(toks, at, Sign) ->
         LET e == ParsePrefix(levels, toks, at + 1)
         IN IF e.ok THEN Parsed(Prefixed(toks[at], e.tree), e.at) ELSE e
    [] At(toks, at, Operand) -> Parsed(Leaf(toks[at]), at + 1)
    [] At(toks, at, {"("}) ->
         LET e == ParseLevel(levels, toks, 1, at + 1)
         IN IF e.ok /\ At(toks, e.at, {")"}) THEN Parsed(Paren(e.tree), e.at + 1)
            ELSE Refused
    [] OTHER -> Refused

Whole(levels, toks) ==
  LET e == ParseLevel(levels, toks, 1, 1)
  IN IF e.ok /\ e.at = Len(toks) + 1 THEN e ELSE Refused

-----------------------------------------------------------------------------
(* inferBinary and inferUnary.                                             *)

Type == {"int", "bool", "E0201"}

\* Comparisons want equal types; ordering is not checked any further.
SemaType == [t \in Infix, l, r \in Type |->
  CASE t \in {"-", "*"}   -> IF l = "int" /\ r = "int" THEN "int" ELSE "E0201"
    [] t \in {"&&", "||"} -> IF l = "bool" /\ r = "bool" THEN "bool" ELSE "E0201"
    [] t \in {"==", "<"}  -> IF l = r /\ l # "E0201" THEN "bool" ELSE "E0201"]

\* Go has an order on numbers and strings only.
GoType == [t \in Infix, l, r \in Type |->
  IF t = "<" /\ l = "bool" THEN "E0201" ELSE SemaType[t, l, r]]

SignType(t, e) ==
  IF (t = "-" /\ e = "int") \/ (t = "!" /\ e = "bool") THEN e ELSE "E0201"

RECURSIVE TypeOf(_, _)
TypeOf(rule, e) ==
  CASE Len(e) = 1 -> IF e[1] = "n" THEN "int" ELSE "bool"
    [] e[1] = "(" -> TypeOf(rule, e[2])
    [] Len(e) = 3 -> rule[e[1], TypeOf(rule, e[2]), TypeOf(rule, e[3])]
    [] OTHER      -> SignType(e[1], TypeOf(rule, e[2]))

-----------------------------------------------------------------------------
(* emitExpr.  An operator has blanks around it, a sign has none.           *)

Glued(t, s) == IF t = "-" /\ Head(s) = "-" THEN <<"--">> \o Tail(s) ELSE <<t>> \o s

RECURSIVE EmitBare(_)
\* Mutant: the parentheses are left to Go.
EmitBare(e) ==
  CASE Len(e) = 1 -> e
    [] e[1] = "(" -> EmitBare(e[2])
    [] Len(e) = 3 -> EmitBare(e[2]) \o <<e[1]>> \o EmitBare(e[3])
    [] OTHER      -> Glued(e[1], EmitBare(e[2]))
RECURSIVE Emit(_)
Emit(e) ==
  CASE Len(e) = 1 -> e
    [] e[1] = "(" -> <<"(">> \o Emit(e[2]) \o <<")">>
    [] Len(e) = 3 -> Emit(e[2]) \o <<e[1]>> \o Emit(e[3])
    [] OTHER      -> Glued(e[1], Emit(e[2]))

-----------------------------------------------------------------------------
Init ==
  /\ form \in {"value", "-", "*"}
  /\ tokens = <<>> /\ tree = <<>> /\ text = <<>> /\ read = <<>>
  /\ status = "writing"

Opened == Len(SelectSeq(tokens, LAMBDA t : t = "("))
            - Len(SelectSeq(tokens, LAMBDA t : t = ")"))
BehindOperand == tokens # <<>> /\ Last(tokens) \in Operand \cup {")"}

\* The target and the operator of a compound assignment are tokens too.
Bound == IF form = "value" THEN MaxTokens ELSE MaxTokens - 2

\* The program's author writes a token where the grammar has a place for one.
Write(t) ==
  /\ status = "writing"
  /\ Len(tokens) < Bound
  /\ IF BehindOperand THEN t \in Infix \/ (t = ")" /\ Opened > 0)
                      ELSE t \in Operand \cup Sign \cup {"("}
  /\ tokens' = Append(tokens, t)
  /\ UNCHANGED <<form, tree, text, read, status>>

\* parseAssignmentTail: n op= e becomes n = n op e.
Statement(e) == IF form = "value" THEN e ELSE Binary(form, Leaf("n"), e)

\* Mutant: the target stands for an expression that is refused.
ParseRecovering ==
  /\ status = "writing"
  /\ BehindOperand /\ Opened = 0
  /\ LET e == Whole(Levels, tokens) IN
       IF e.ok THEN tree' = Statement(e.tree) /\ status' = "parsed"
               ELSE tree' = Statement(Leaf("n")) /\ status' = "E0112"
  /\ UNCHANGED <<form, tokens, text, read>>
Parse ==
  /\ status = "writing"
  /\ BehindOperand /\ Opened = 0
  /\ LET e == Whole(Levels, tokens) IN
       IF e.ok THEN tree' = Statement(e.tree) /\ status' = "parsed"
               ELSE tree' = <<>> /\ status' = "E0112"
  /\ UNCHANGED <<form, tokens, text, read>>

Check ==
  /\ status = "parsed"
  /\ status' = IF TypeOf(SemaType, tree) = "E0201" THEN "E0201" ELSE "checked"
  /\ UNCHANGED <<form, tokens, tree, text, read>>

Lower ==
  /\ status = "checked"
  /\ text' = Emit(tree)
  /\ status' = "emitted"
  /\ UNCHANGED <<form, tokens, tree, read>>

GoBuild ==
  /\ status = "emitted"
  /\ LET e == Whole(GoLevels, text) IN
       IF e.ok /\ TypeOf(GoType, e.tree) # "E0201"
         THEN read' = e.tree /\ status' = "built"
         ELSE read' = <<>> /\ status' = "broken"
  /\ UNCHANGED <<form, tokens, tree, text>>

Over ==
  /\ \/ status \in {"E0112", "E0201", "built", "broken"}
     \/ status = "writing" /\ Len(tokens) = Bound
  /\ UNCHANGED vars

Next ==
  \/ \E t \in Operand \cup Sign \cup Infix \cup {"(", ")"} : Write(t)
  \/ Parse \/ Check \/ Lower \/ GoBuild \/ Over

Spec == Init /\ [][Next]_vars

-----------------------------------------------------------------------------
(* Properties.                                                             *)

Built == status = "built"

\* Types; a text is there from the emission on, a reading from Go's on.
TypeOK ==
  /\ form \in {"value", "-", "*"}
  /\ tokens \in Seq(Operand \cup Sign \cup Infix \cup {"(", ")"})
  /\ Len(tokens) =< Bound
  /\ status \in {"writing", "E0112", "parsed", "E0201", "checked", "emitted",
                 "built", "broken"}
  /\ (tree # <<>>) <=> status \notin {"writing", "E0112"}
  /\ (text # <<>>) <=> status \in {"emitted", "built", "broken"}
  /\ text \in Seq(Operand \cup Sign \cup Infix \cup {"(", ")", "--"})
  /\ (read # <<>>) <=> Built

\* grammar.ebnf, OrExpr to UnaryExpr: tokens i to j are an expression of level k.
RECURSIVE Derives(_, _, _)
Derives(i, j, k) ==
  IF k =< Len(Levels)
  THEN \/ Derives(i, j, k + 1)
       \/ \E m \in (i + 1)..(j - 1) :
            /\ tokens[m] \in Levels[k].ops
            /\ Derives(i, m - 1, IF k \in {3, 4} THEN k + 1 ELSE k)
            /\ Derives(m + 1, j, k + 1)
  ELSE \/ i = j /\ tokens[i] \in Operand
       \/ i < j /\ tokens[i] \in Sign /\ Derives(i + 1, j, k)
       \/ i + 1 < j /\ tokens[i] = "(" /\ tokens[j] = ")" /\ Derives(i + 1, j - 1, 1)

\* The level of a tree: that of its operator, or the tightest.
Rank == [t \in Infix |-> CASE t = "||" -> 1 [] t = "&&" -> 2 [] t = "==" -> 3
                           [] t = "<" -> 4 [] t = "-" -> 5 [] t = "*" -> 6]
LevelOf(e) == IF Len(e) = 3 THEN Rank[e[1]] ELSE 7

\* Every operator has operands the grammar allows it.
RECURSIVE Levelled(_)
Levelled(e) ==
  CASE Len(e) = 1 -> TRUE
    [] Len(e) = 2 -> /\ Levelled(e[2])
                     /\ e[1] = "(" \/ LevelOf(e[2]) = 7
    [] Len(e) = 3 -> /\ Levelled(e[2]) /\ Levelled(e[3])
                     /\ LevelOf(e[3]) > LevelOf(e)
                     /\ \/ LevelOf(e[2]) > LevelOf(e)
                        \/ LevelOf(e[2]) = LevelOf(e) /\ e[1] \notin {"==", "<"}

\* The tokens of a tree.
RECURSIVE Spelled(_)
Spelled(e) ==
  CASE Len(e) = 1 -> e
    [] e[1] = "(" -> <<"(">> \o Spelled(e[2]) \o <<")">>
    [] Len(e) = 2 -> <<e[1]>> \o Spelled(e[2])
    [] Len(e) = 3 -> Spelled(e[2]) \o <<e[1]>> \o Spelled(e[3])

\* What the author wrote behind the = or the op=.
Value == IF form = "value" THEN tree ELSE tree[3]

\* The parser accepts exactly the expressions of the grammar, E0112 being for
\* comparisons in a row, and its tree is the grammar's.
ParsesByGrammar ==
  /\ status = "E0112" => ~Derives(1, Len(tokens), 1)
  /\ status = "parsed" => Levelled(Value) /\ Spelled(Value) = tokens

\* A compound assignment whose right side would have needed parentheses.
Regrouped == form # "value" /\ LevelOf(Value) =< Rank[form]

\* "Reproduce the author's grouping so Go preserves the same operator
\* precedence": a program that Go builds is grouped in Go as it was in Tide.
\* The code's is not, when the right side of a compound assignment is looser
\* than its operator, or as loose.
SameGrouping == Built => read = tree

\* Everything else that builds is grouped the same, although Go has other
\* levels and takes == and < for one.
SameGroupingUnlessCompound == Built => read = tree \/ Regrouped

RECURSIVE Somewhere(_, _)
Somewhere(P(_), e) ==
  \/ P(e)
  \/ \E i \in 2..Len(e) : Somewhere(P, e[i])

TwoSigns(e)    == Len(e) = 2 /\ e[1] = "-" /\ e[2][1] = "-" /\ Len(e[2]) = 2
EqualsOrder(e) == Len(e) = 3 /\ e[1] = "==" /\ Len(e[3]) = 3 /\ e[3][1] = "<"
OrdersBools(e) == Len(e) = 3 /\ e[1] = "<" /\ TypeOf(GoType, e[2]) = "bool"

\* "generated Go always builds" fails for operators only in these three ways:
\* -- is a token of Go, b == x < y is (b == x) < y in Go, and Go does not order
\* bools.
BrokenOnlyBy ==
  status = "broken" =>
    \/ Somewhere(TwoSigns, tree)
    \/ Somewhere(EqualsOrder, tree)
    \/ Somewhere(OrdersBools, tree)

\* Go makes of a program what Tide made of it, but for these exceptions.
GoAgrees == SameGroupingUnlessCompound /\ BrokenOnlyBy

\* The grammar, the parser and Go read an expression alike.
ReadAlike == ParsesByGrammar /\ GoAgrees
=============================================================================
