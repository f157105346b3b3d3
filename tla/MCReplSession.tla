--------------------------- MODULE MCReplSession ---------------------------
(* Instances of ReplSession for TLC: the inputs of short sessions.         *)
EXTENDS ReplSession

Form(head, name, uses) ==
  [head |-> head, name |-> name, uses |-> uses, broken |-> FALSE, panics |-> FALSE]
Broken(in)   == [in EXCEPT !.broken = TRUE]
Panicking(in) == [in EXCEPT !.panics = TRUE]

ImportOs == Form("import", "os", {})
FuncF    == Form("func", "f", {})
FuncF2   == Form("func", "f", {"os"})      \* a second definition of f
ClassF   == Form("class", "f", {})
LetX     == Form("let", "x", {})
ExprX    == Form("expr", NoName, {"x"})
Expr1    == Form("expr", NoName, {})
FuncMain == Form("func", "main", {})

\* Redefinitions, references, broken forms, refused ones, and what prints.
Mixed == {ImportOs, FuncF, FuncF2, Broken(FuncF), ClassF, LetX, Panicking(LetX),
          Expr1, ExprX, FuncMain}
=============================================================================
