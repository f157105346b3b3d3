------------------------------ MODULE Equality ------------------------------
(***************************************************************************)
(* == on values of declared types.  A record is a Go struct, a class a     *)
(* pointer, a container a pointer to its wrapper, and a sum a tagged       *)
(* struct with the payloads of all its variants, where a payload of the    *)
(* sum's own type is a pointer to a fresh copy.  The checker admits == on  *)
(* every named type that is no class; Go compares the fields it finds.     *)
(***************************************************************************)
EXTENDS Naturals, SequencesExt

CONSTANT MaxValues  \* values a program makes

VARIABLES
  values,  \* in the order they are made: [type, term, go]
  address, \* addresses handed out by Go's heap
  compared \* the last comparison: [left, right, admitted, builds, answer]

vars == <<values, address, compared>>

\* Tree is Leaf | Node(int, Tree), Color is Red | Mixed(int); Point, Bag, Index
\* and Owner are records of an int, a slice, a map and an Account, a class.
Pair(t, u) == <<"Pair", t, u>>
Named(t) == <<t>>
\* Of the type or the term of a tuple, which has no tuples in it here.
Components(t) == IF t[1] = "Pair" THEN {t[2], t[3]} ELSE {t}

None == [left |-> 0, right |-> 0, admitted |-> FALSE, builds |-> FALSE, answer |-> FALSE]
Init == values = <<>> /\ address = 0 /\ compared = None

\* term is the value as the language has it: a class instance is itself, the
\* rest is its components.  go is what Go compares.
Typed(t, term, go) == [type |-> t, term |-> term, go |-> go]

Make(v, n) ==
  /\ Len(values) < MaxValues
  /\ values' = Append(values, v)
  /\ address' = address + n
  /\ compared' = None

Nil == <<"nil">>
At(a) == <<"&", a>>

\* A nullary variant is a package variable, a payload variant a constructor.
NewColor ==
  \/ Make(Typed(Named("Color"), <<"Red">>, <<0, 0>>), 0)
  \/ \E n \in {0, 1} : Make(Typed(Named("Color"), <<"Mixed", n>>, <<1, n>>), 0)
NewTree == Make(Typed(Named("Tree"), <<"Leaf">>, <<0, 0, Nil>>), 0)
NewRecord ==
  \/ \E n \in {0, 1} : Make(Typed(Named("Point"), <<"Point", n>>, <<n>>), 0)
  \/ Make(Typed(Named("Bag"), <<"Bag">>, <<Nil>>), 0)
  \/ Make(Typed(Named("Index"), <<"Index">>, <<At(address + 1)>>), 1)
NewAccount == Make(Typed(Named("Account"), <<"Account", address + 1>>, At(address + 1)), 1)

\* The constructor TreeNode(n, sub): the tag, the number, and & of its parameter.
NewNode ==
  \E i \in DOMAIN values :
    /\ values[i].type = Named("Tree")
    /\ Make(Typed(Named("Tree"), <<"Node", 0, values[i].term>>, <<1, 0, At(address + 1)>>), 1)
NewOwner ==
  \E i \in DOMAIN values :
    /\ values[i].type = Named("Account")
    /\ Make(Typed(Named("Owner"), <<"Owner", values[i].term>>, <<values[i].go>>), 0)
NewPair ==
  \E i, j \in DOMAIN values :
    /\ values[i].type[1] # "Pair" /\ values[j].type[1] # "Pair"
    /\ Make(Typed(Pair(values[i].type, values[j].type),
                  <<"Pair", values[i].term, values[j].term>>, <<values[i].go, values[j].go>>), 0)
\* let b = a
Copy == \E i \in DOMAIN values : Make(values[i], 0)

-----------------------------------------------------------------------------
\* Mutant: tuples are not asked for their components.
ComparableByName(t) == t # Named("Account")
\* comparable: named types but classes, and tuples of comparable components.
Comparable(t) == \A c \in Components(t) : c # Named("Account")

\* Go refuses == on a struct with a slice in it, and across types.
GoComparable(t) == \A c \in Components(t) : c # Named("Bag")

\* inferBinary on ==: expectSame asks nothing of two named types.
Compare ==
  \E i, j \in DOMAIN values :
    LET a == values[i]
        b == values[j] IN
    /\ i < j /\ compared = None
    /\ compared' =
         [left |-> i, right |-> j,
          admitted |-> /\ Comparable(a.type) /\ Comparable(b.type)
                       /\ {a.type[1], b.type[1]} \cap {"Pair"} # {} => a.type = b.type,
          builds |-> a.type = b.type /\ GoComparable(a.type),
          answer |-> a.type = b.type /\ a.go = b.go]
    /\ UNCHANGED <<values, address>>

Next ==
  \/ NewColor \/ NewTree \/ NewRecord \/ NewAccount
  \/ NewNode \/ NewOwner \/ NewPair \/ Copy \/ Compare

Spec == Init /\ [][Next]_vars

-----------------------------------------------------------------------------
TypeOK ==
  /\ Len(values) <= MaxValues
  /\ compared.left \in 0 .. Len(values) /\ compared.right \in 0 .. Len(values)
  /\ address <= Len(values)

Built == compared.admitted /\ compared.builds
Left == values[compared.left]
Right == values[compared.right]

\* Whether a value of the type has an address Go compares for its contents.
HasAddress(v) == \E c \in Components(v) : c[1] \in {"Node", "Index"}

\* A class, or a tuple with one in it.
HasClass(t) == \E c \in Components(t) : c = Named("Account")

\* Tuples, records and sum values are equal when their components are
\* (comparable, emitTypeDecl, isSelfRefField): what == answers true of is
\* equal, and what is equal is answered true of, unless it holds a payload of
\* its own sum or a container, which Go compares by address.  No comparison of
\* class instances is admitted, in a tuple or alone (E0401; language-spec.md:334
\* has them compared, see ClassesEqualByReference), and one that is admitted and
\* does not build compares different named types or a record of slices.
EqualByComponents ==
  /\ Built /\ compared.answer => Left.term = Right.term
  /\ Built /\ Left.term = Right.term /\ ~HasAddress(Left.term) => compared.answer
  /\ compared.admitted =>
       /\ ~HasClass(Left.type) /\ ~HasClass(Right.type)
       /\ ~compared.builds =>
            Left.type # Right.type \/ ~GoComparable(Left.type)

\* "Class instances - by reference identity": two of one class are compared, and
\* are == if they are the same.
ClassesEqualByReference ==
  compared.left # 0 =>
    LET account == Named("Account") IN
    Left.type = account /\ Right.type = account =>
      Built /\ (compared.answer <=> Left.term = Right.term)

\* Sum values with equal components are ==.
SumsEqualByComponents ==
  Built /\ Left.type = Named("Tree") => (compared.answer <=> Left.term = Right.term)
=============================================================================
