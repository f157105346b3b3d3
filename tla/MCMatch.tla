------------------------------- MODULE MCMatch -------------------------------
(* Instances of Match for TLC: the subjects and the arms that are tried.   *)
EXTENDS Match

\* Two sums, one with a payload and one spelt in lower case; Option, bool, int and unit.
Kinds == [Shape |-> "sum", Level |-> "sum", Option |-> "predeclared",
          bool |-> "bool", int |-> "open", unit |-> "unit"]
Constructors == [Shape |-> <<"Dot", "Line">>, Level |-> <<"low", "high">>,
                 Option |-> <<"None", "Some">>, bool |-> <<"true", "false">>,
                 int |-> <<>>, unit |-> <<>>]

Of(tuple, comps) == [tuple |-> tuple, comps |-> comps]
Subjects ==
  {Of(FALSE, <<t>>) : t \in DOMAIN Kinds}
    \cup {Of(TRUE, <<"Shape", "bool">>), Of(TRUE, <<"Level", "Shape">>),
          Of(TRUE, <<"Option", "Shape">>), Of(TRUE, <<"Shape", "bool", "bool">>)}

A(k, name, sub) == <<[k |-> k, name |-> name, sub |-> sub]>>
C(name)   == A("ctor", name, "none")
L(name)   == A("lit", name, "none")
N(name)   == A("ident", name, "none")
Wild == A("wild", "_", "none")
Unit == A("unit", "()", "none")
Odd == A("other", "_", "none")
Line(sub) == A("ctor", "Line", sub)

\* Patterns for one component of a type.
For(t) ==
  {Wild, N("x")} \cup
  CASE t = "Shape"  -> {C("Dot"), C("Line"), Line("bind"), Line("test"), C("Dot") \o C("Line")}
    [] t = "Level"  -> {N("low"), N("high"), N("low") \o N("high"), Odd}
    [] t = "Option" -> {C("None"), C("Some"), N("low")}
    [] t = "bool"   -> {L("true"), L("false"), N("low")}
    [] t = "int"    -> {L("1"), L("2"), L("1") \o L("2"), L("true"), Unit}
    [] t = "unit"   -> {Unit}

\* Fewer for the second component.
Few(t) == {Wild} \cup IF t = "bool" THEN {L("true"), L("false")} ELSE {Line("bind"), C("Dot")}

\* For a subject on its own there are more: arms of other types among them.
Alone1 == {N("low"), C("high"), L("1"), L("true") \o L("false"), A("ctor", "Some", "bind")}

Arms(s) ==
  {Of(FALSE, <<Wild>>), Of(FALSE, <<N("x")>>)} \cup
  IF ~s.tuple
    THEN {Of(FALSE, <<p>>) : p \in For(s.comps[1]) \cup Alone1}
           \cup {Of(TRUE, <<Wild, Wild>>)}
    ELSE IF Len(s.comps) = 2
    THEN {Of(TRUE, <<p, q>>) : p \in For(s.comps[1]), q \in Few(s.comps[2])}
           \cup {Of(TRUE, <<Wild, Wild, Wild>>), Of(TRUE, <<Unit, Wild>>)}
    ELSE {Of(TRUE, <<p, q, Wild>>) : p \in {C("Dot"), C("Line")},
                                    q \in Few("bool") \cup {N("low")}}

AnyArms == [s \in Subjects |-> Arms(s)]
=============================================================================
