-------------------------------- MODULE Fits --------------------------------
(***************************************************************************)
(* What may stand where a type is expected.  The checker infers a type for *)
(* an expression, then asks fits: an integer literal narrows to an integer *)
(* type, an unannotated list narrows element by element, and narrowing is  *)
(* written back to the node, where codegen reads the element type of the   *)
(* Go literal.  Go then checks the text again, by its own rules.           *)
(***************************************************************************)
EXTENDS Integers, SequencesExt

CONSTANT MaxNodes  \* lists and parentheses around the leaves

VARIABLES
  expr,   \* the expression, its nodes carrying the types the checker has set
  nodes,  \* how many lists and parentheses it has
  clean,  \* no diagnostic about it so far
  asked   \* the question asked of it at last: [of, want, accepts, go]

vars == <<expr, nodes, clean, asked>>

-----------------------------------------------------------------------------
(* Types.                                                                  *)

P(n) == <<n>>
Slice(t) == <<"Slice", t>>
Option(t) == <<"Option", t>>
Box(t) == <<"Box", t>>  \* a user's generic record
T == <<"T">>            \* a type parameter

Bounds == [int8 |-> <<-128, 127>>, byte |-> <<0, 255>>]
Whole == {"int", "int8", "byte"}
Numbers == Whole \cup {"float64"}

\* Circle implements Solid, which extends Shape; Square implements nothing.
Implements == {<<"Circle", "Solid">>, <<"Circle", "Shape">>, <<"Solid", "Shape">>}

\* equal: invariant; a type parameter is a wildcard, and a named type is its
\* name, its arguments are dropped by namedTypeToType.
RECURSIVE SameType(_, _)
SameType(a, b) ==
  \/ T \in {a, b}
  \/ a[1] = b[1] /\ (Len(a) = 1 \/ a[1] = "Box" \/ SameType(a[2], b[2]))

\* A channel as one of its ends.
ChannelWidens(want, got) ==
  want[1] \in {"SendChan", "RecvChan"} /\ got[1] = "Channel" /\ SameType(want[2], got[2])

\* Mutant: conformance is asked of the elements of a slice as well.
RECURSIVE AdmitsElements(_, _)
AdmitsElements(want, got) ==
  \/ SameType(want, got)
  \/ <<got[1], want[1]>> \in Implements
  \/ ChannelWidens(want, got)
  \/ want[1] = "Slice" /\ got[1] = "Slice" /\ AdmitsElements(want[2], got[2])
\* assignable, channelWidens, satisfiesInterface.
Admits(want, got) ==
  \/ SameType(want, got)
  \/ ChannelWidens(want, got)
  \/ <<got[1], want[1]>> \in Implements

-----------------------------------------------------------------------------
(* Expressions and fits.                                                   *)

\* type is what the checker has set on the outermost node, own on the literal
\* inside the parentheses: they differ once parentheses have been narrowed.
Node(k, t, items, v) ==
  [kind |-> k, type |-> t, own |-> t, parens |-> FALSE, items |-> items, value |-> v]
Variable(t) == Node("variable", t, <<>>, 0)
Literal(v)  == Node("literal", P("int"), <<>>, v)

\* checkIntLitRange.
InRange(t, v) == t[1] \in DOMAIN Bounds => Bounds[t[1]][1] <= v /\ v <= Bounds[t[1]][2]

Narrowed(e, t) == [e EXCEPT !.type = t, !.own = IF e.parens THEN @ ELSE t]
Answer(ok, inRange, e) == [ok |-> ok, inRange |-> inRange, expr |-> e]

\* The answer, whether the range check was silent, and the node as it is left.
RECURSIVE FitsAt(_, _)
FitsAt(want, e) ==
  CASE want = T \/ Admits(want, e.type) -> Answer(TRUE, TRUE, e)
    [] OTHER ->
       IF e.kind = "literal" /\ want[1] \in Whole
         THEN Answer(TRUE, InRange(want, e.value), Narrowed(e, want))
       ELSE IF e.kind = "list" /\ want[1] = "Slice"
         THEN LET each == [i \in DOMAIN e.items |-> FitsAt(want[2], e.items[i])]
                  ok == \A i \in DOMAIN each : each[i].ok
                  left == [e EXCEPT !.items = [i \in DOMAIN each |-> each[i].expr]]
              IN Answer(ok, \A i \in DOMAIN each : each[i].inRange,
                        IF ok THEN Narrowed(left, want) ELSE left)
       ELSE Answer(FALSE, TRUE, e)

Fits(want, e) == LET a == FitsAt(want, e) IN a.ok /\ a.inRange

-----------------------------------------------------------------------------
(* Go.                                                                     *)

\* goTypeFromSema: containers and channels have no spelling, and a named type
\* is spelled without its arguments.
RECURSIVE Spelled(_)
Spelled(t) ==
  CASE t[1] \in {"Map", "Channel", "SendChan", "RecvChan", "T", "Box"} -> FALSE
    [] t[1] \in {"Slice", "Option"} -> Spelled(t[2])
    [] OTHER -> TRUE

Converts(want, got) ==
  \/ want = got
  \/ <<got[1], want[1]>> \in Implements
  \/ want[1] \in {"SendChan", "RecvChan"} /\ got = <<"Channel", want[2]>>

\* May the text of e be assigned to a want: an unannotated list is written with
\* its own element type.
RECURSIVE GoAssigns(_, _)
GoAssigns(want, e) ==
  CASE e.kind = "variable" -> Converts(want, e.type)
    [] e.kind = "literal"  -> want[1] \in Numbers /\ InRange(want, e.value)
    [] OTHER -> /\ want = e.own
                /\ e.kind = "list" => Spelled(e.own)
                /\ \A i \in DOMAIN e.items : GoAssigns(e.own[2], e.items[i])

\* Go infers T from a typed argument, and from constants only by default.
Under(param, t) == IF param = T THEN t ELSE IF param[1] = t[1] THEN t[2] ELSE P("none")
GoInfers(params, args) ==
  LET typed == {i \in {1, 2} : args[i].kind # "literal"} IN
  IF typed = {} THEN P("int")
  ELSE LET i == CHOOSE j \in typed : \A k \in typed : j <= k
       IN Under(params[i], args[i].own)

GoConverts(target, e) ==
  CASE e.kind = "literal" -> target = P("string") \/ InRange(target, e.value)
    [] e.kind = "variable" -> TRUE
    [] OTHER -> GoAssigns(e.own, e)

-----------------------------------------------------------------------------
(* Building an expression: inferSliceLit and ParenExpr.                    *)

VariableTypes ==
  {P(n) : n \in {"int", "int8", "byte", "float64", "string", "Circle", "Square", "Solid"}}
    \cup {Slice(P("byte")), Slice(P("int")), Slice(P("Circle")), Option(P("byte")),
          Box(P("int")), <<"Map", P("int")>>, <<"Channel", P("byte")>>, <<"RecvChan", P("byte")>>}
Leaves == {Variable(t) : t \in VariableTypes} \cup {Literal(v) : v \in {1, 200, 300}}
Wanted == VariableTypes \cup
  {P("Shape"), Slice(P("int8")), Slice(P("Shape")), Slice(Slice(P("byte"))), Slice(Slice(P("Shape"))),
   <<"SendChan", P("byte")>>, Box(P("string")), T, Slice(<<"Map", P("int")>>), Slice(Box(P("int")))}

Others == {Literal(1), Literal(200), Variable(P("byte")), Variable(P("Circle")),
           Variable(Slice(P("byte")))}

None == [of |-> "none", want |-> T, accepts |-> FALSE, go |-> FALSE]

Init ==
  /\ expr \in Leaves
  /\ nodes = 0 /\ clean = TRUE /\ asked = None

Parens ==
  /\ nodes < MaxNodes /\ asked = None /\ ~expr.parens
  /\ expr' = [expr EXCEPT !.parens = TRUE]
  /\ nodes' = nodes + 1
  /\ UNCHANGED <<clean, asked>>

\* [e] and [e, other]: the first element fixes the type, and the second must
\* be assignable to it.
ListOf(items) ==
  /\ nodes < MaxNodes /\ asked = None
  /\ expr' = Node("list", Slice(items[1].type), items, 0)
  /\ clean' = (clean /\ \A i \in DOMAIN items : SameType(items[1].type, items[i].type))
  /\ nodes' = nodes + 1
  /\ UNCHANGED asked

\* []t{e, ..}: each element must fit.
AnnotatedList(t, items) ==
  /\ nodes < MaxNodes /\ asked = None
  /\ LET each == [i \in DOMAIN items |-> FitsAt(t, items[i])] IN
     /\ expr' = Node("annotated", Slice(t), [i \in DOMAIN each |-> each[i].expr], 0)
     /\ clean' = (clean /\ \A i \in DOMAIN each : each[i].ok /\ each[i].inRange)
  /\ nodes' = nodes + 1
  /\ UNCHANGED asked

\* checkBinding, checkReturn, checkArgTypes and the assignments: let x: want = e.
Place(want) ==
  /\ asked = None
  /\ LET a == FitsAt(want, expr) IN
     /\ expr' = a.expr
     /\ asked' = [of |-> "place", want |-> want, accepts |-> clean /\ a.ok /\ a.inRange,
                  go |-> GoAssigns(want, a.expr)]
  /\ UNCHANGED <<nodes, clean>>

\* convOK.
ConvOK(target, t) ==
  IF target = P("string") THEN t = Slice(P("byte")) \/ t[1] \in Whole
  ELSE t[1] \in Numbers

\* inferBuiltinTypeCall: target(e).
Convert(target) ==
  /\ asked = None
  /\ asked' = [of |-> "convert", want |-> target,
               accepts |-> clean /\ ConvOK(target, expr.type), go |-> GoConverts(target, expr)]
  /\ UNCHANGED <<expr, nodes, clean>>

\* unifyArg over the arguments: the first that pins T binds it, and only slices
\* and containers are looked into.
Bind(params, args) ==
  IF params[1] = T THEN args[1].type
  ELSE IF params[1][1] = "Slice" /\ args[1].type[1] = "Slice" THEN args[1].type[2]
  ELSE args[2].type
\* substitute: what unifyArg does not look into keeps its T, a wildcard.
Substitute(p, t) == IF p = T THEN t ELSE IF p[1] = "Slice" THEN Slice(t) ELSE p

Signatures == {<<T, T>>, <<Slice(T), T>>, <<Option(T), T>>}
\* instantiate and checkArgTypes: f(e, second), or f<t>(e, second).
CallGeneric(params, second, explicit) ==
  /\ asked = None
  /\ expr.type[1] \notin {"Circle", "Square", "Solid"}
  /\ LET t == IF explicit # T THEN explicit ELSE Bind(params, <<expr, second>>)
         first == FitsAt(Substitute(params[1], t), expr)
         goT == IF explicit # T THEN explicit ELSE GoInfers(params, <<first.expr, second>>)
         Instance(p) == IF p = T THEN goT ELSE <<p[1], goT>>
     IN /\ expr' = first.expr
        /\ asked' = [of |-> "generic", want |-> params[1],
                     accepts |-> clean /\ first.ok /\ first.inRange
                                   /\ Fits(Substitute(params[2], t), second),
                     go |-> GoAssigns(Instance(params[1]), first.expr)
                              /\ GoAssigns(Instance(params[2]), second)]
  /\ UNCHANGED <<nodes, clean>>

Next ==
  \/ Parens
  \/ ListOf(<<expr>>)
  \/ \E e \in Others : ListOf(<<expr, e>>) \/ ListOf(<<e, expr>>)
  \/ \E t \in {P("byte"), P("Shape"), Slice(P("byte")), Box(P("string"))} :
        AnnotatedList(t, <<expr>>)
  \/ \E t \in Wanted : Place(t)
  \/ \E n \in Numbers \cup {"string"} : Convert(P(n))
  \/ \E s \in Signatures, e \in Others,
        t \in {T, P("byte")} : CallGeneric(s, e, t)

Spec == Init /\ [][Next]_vars

-----------------------------------------------------------------------------
TypeOK ==
  /\ nodes \in 0 .. MaxNodes
  /\ expr.kind \in {"variable", "literal", "list", "annotated"}
  /\ expr.own # expr.type => (expr.kind \in {"list", "literal"} /\ expr.parens)

\* A list whose narrowing stayed on its parentheses, or that cannot be spelled.
RECURSIVE Misspelled(_)
Misspelled(e) ==
  \/ e.kind = "list" /\ (e.own # e.type \/ ~Spelled(e.own))
  \/ \E i \in DOMAIN e.items : Misspelled(e.items[i])

\* What the checker admits where a type is expected, Go admits in the text that
\* codegen writes for it (fits, unifyArg, convOK; emitExpr on slice literals),
\* and where Go refuses, it is for one of these: a list was narrowed through
\* parentheses, a list has elements that goTypeFromSema does not spell, a type
\* parameter or the arguments of a named type were not compared, T was bound
\* by a parameter that unifyArg does not look into, a constant is converted
\* to a type it does not fit.
AdmittedBuilds ==
  asked.accepts =>
    CASE asked.of = "place" ->
           asked.go <=> /\ ~Misspelled(expr)
                        /\ SameType(asked.want, expr.type) => asked.want = expr.type
      [] asked.of = "generic" -> asked.go \/ Misspelled(expr) \/ asked.want = Option(T)
      [] asked.of = "convert" ->
           asked.go \/ Misspelled(expr)
             \/ (expr.kind = "literal" /\ ~InRange(asked.want, expr.value))
=============================================================================
