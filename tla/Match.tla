------------------------------- MODULE Match -------------------------------
(***************************************************************************)
(* A match from its arms to the arm that runs: parseMatchExpr collects the *)
(* arms, sema's checkExhaustive (exhaust.go) accepts or rejects them,      *)
(* codegen (match.go) turns them into the clauses of a Go switch, the Go   *)
(* compiler builds it, and the switch picks a clause for a value.          *)
(*                                                                         *)
(* A pattern is a sequence of atoms: one, or the atoms of an alternation.  *)
(* An atom is a record                                                     *)
(*   k     "wild", "ident", "ctor" (VariantPat), "lit", "unit", or "other" *)
(*         for what neither phase knows here (a record or a nested tuple)  *)
(*   name  the identifier, the constructor or the literal                  *)
(*   sub   the payload: "none", "bind" (names and wildcards), or "test"    *)
(*         for sub-patterns that some payloads do not match                *)
(* An arm has a pattern for each component of a tuple pattern, or one.     *)
(* The match is in value position; a statement has the same clauses.  The  *)
(* body of an arm uses every name the arm binds.                           *)
(***************************************************************************)
EXTENDS Integers, SequencesExt

CONSTANTS
  Kind,       \* Kind[t]: "sum", "predeclared" (Option, Result), "bool", "unit", "open"
  Ctors,      \* Ctors[t]: constructors in declaration order; none if open or unit
  Carries,    \* the constructors with a payload
  Lit,        \* literals of the open types
  Subject,    \* what is matched: a tuple literal or not, and component types
  Written,    \* Written[s]: arms a program may have for subject s
  MaxArms,    \* bound: arms of one match
  CellLimit   \* tupleExhaustCellLimit

Type == DOMAIN Kind
Atom == [k : {"wild", "ident", "ctor", "lit", "unit", "other"}, name : STRING,
         sub : {"none", "bind", "test"}]
Arm  == [tuple : BOOLEAN, comps : Seq(Seq(Atom))]

Names(t) == Range(Ctors[t])
HasVariants(t) == Kind[t] \in {"sum", "predeclared"}
IsVariant(n) == \E t \in Type : HasVariants(t) /\ n \in Names(t)

ASSUME TypeAssumption ==
  \A t \in Type :
    /\ Kind[t] \in {"sum", "predeclared", "bool", "unit", "open"}
    /\ Ctors[t] \in Seq(STRING)
    /\ HasVariants(t) => Ctors[t] # <<>>
    /\ Kind[t] = "bool" => Ctors[t] = <<"true", "false">>
    /\ Kind[t] \in {"unit", "open"} => Ctors[t] = <<>>

\* E0104 and E0106; a user variant called like one of Option or Result, which
\* takes its place in codegen's table, is left out.
ASSUME VariantAssumption ==
  \A t, u \in Type : HasVariants(t) /\ HasVariants(u) =>
    \A i \in DOMAIN Ctors[t], k \in DOMAIN Ctors[u] :
      Ctors[t][i] = Ctors[u][k] => t = u /\ i = k

ASSUME SubjectAssumption ==
  \A s \in Subject : /\ s.tuple \in BOOLEAN
                     /\ s.comps \in Seq(Type) \ {<<>>}
                     /\ ~s.tuple => Len(s.comps) = 1

\* true and false are keywords; only constructors have a payload pattern, and
\* an alternation is one of constructors and literals (grammar.ebnf, AltAtom).
IsWritten(p) ==
  /\ p # <<>>
  /\ \A i \in DOMAIN p :
       /\ p[i].k # "ctor" => p[i].sub = "none"
       /\ \A t \in Type : p[i].name \in Names(t) =>
            p[i].k # "unit" /\ (p[i].k = "lit" <=> Kind[t] = "bool")
       /\ Len(p) > 1 => /\ p[i].sub = "none"
                        /\ \/ p[i].k \in {"ctor", "lit"}
                           \/ p[i].k = "ident" /\ IsVariant(p[i].name)
ASSUME WrittenAssumption ==
  \A s \in Subject : \A arm \in Written[s] :
    /\ arm \in Arm
    /\ \A j \in DOMAIN arm.comps : IsWritten(arm.comps[j])
    /\ ~arm.tuple => Len(arm.comps) = 1

VARIABLES
  subject,    \* the subject of the match
  arms,       \* m.Arms
  stage,      \* the last phase passed, or the one that refused the match
  code,       \* clauses: the constants each tests each component against
  guard,      \* a panic or a zero value follows the switch
  value,      \* the value the program runs with
  taken       \* the clause the switch runs, 0 for none

vars == <<subject, arms, stage, code, guard, value, taken>>

-----------------------------------------------------------------------------
(* What a pattern means (type-system.md, Sum-type construction and         *)
(* patterns): the reference the phases are held to.                        *)

Heads(t) == IF Kind[t] = "open" THEN Lit \cup {"another"}
              ELSE IF Kind[t] = "unit" THEN {"()"} ELSE Names(t)

CompValues(t) == {v \in [head : Heads(t), load : 0..1] :
                    v.head \notin Carries => v.load = 0}
Values(s) ==
  {v \in [DOMAIN s.comps -> UNION {CompValues(s.comps[j]) : j \in DOMAIN s.comps}] :
     \A j \in DOMAIN s.comps : v[j] \in CompValues(s.comps[j])}

Binds(a, t) == a.k = "wild" \/ (a.k = "ident" /\ a.name \notin Names(t))

MatchesAtom(a, v, t) ==
  \/ Binds(a, t)
  \/ /\ a.k \in {"ident", "ctor", "lit", "unit"}
     /\ v.head = a.name
     /\ a.sub = "test" => v.load = 1

\* A name or wildcard alone matches a tuple as a whole.
Matches(s, arm, v) ==
  IF arm.tuple = s.tuple
    THEN /\ Len(arm.comps) = Len(s.comps)
         /\ \A j \in DOMAIN arm.comps : \E i \in DOMAIN arm.comps[j] :
              MatchesAtom(arm.comps[j][i], v[j], s.comps[j])
    ELSE ~arm.tuple /\ \E i \in DOMAIN arm.comps[1] : arm.comps[1][i].k \in {"wild", "ident"}

-----------------------------------------------------------------------------
(* sema: exhaust.go.  Below s is the subject, m the arms of the match.     *)

Alone(arm, kinds) == Len(arm.comps[1]) = 1 /\ arm.comps[1][1].k \in kinds
IsCatchAll(arm) == ~arm.tuple /\ Alone(arm, {"wild", "ident"})

\* {} for a type whose values are not enumerated.
FiniteCtors(t) == IF Kind[t] \in {"sum", "bool"} THEN Names(t) ELSE {}

\* Mutant: the atoms of an alternation are not looked at.
CoveredWithoutAlt(arm, t) ==
  IF arm.tuple \/ Len(arm.comps[1]) > 1 THEN {}
    ELSE {a.name : a \in {x \in Range(arm.comps[1]) :
                            x.k = IF Kind[t] = "bool" THEN "lit" ELSE "ctor"}}

\* A variant counts once it is named, whatever is asked of its payload.
Covered(arm, t) ==
  IF arm.tuple THEN {}
    ELSE {a.name : a \in {x \in Range(arm.comps[1]) :
                            x.k = IF Kind[t] = "bool" THEN "lit" ELSE "ctor"}}

\* Mutant: one of the two values of bool is enough.
MissingBoth(m, t) ==
  LET Left == FiniteCtors(t) \ UNION {Covered(m[i], t) : i \in DOMAIN m}
  IN  IF Kind[t] = "bool" /\ Left # FiniteCtors(t) THEN {} ELSE Left

Missing(m, t) == FiniteCtors(t) \ UNION {Covered(m[i], t) : i \in DOMAIN m}

\* What a component pattern admits; {} if the check cannot say.
Admits(a, t) ==
  IF a.k = "wild" \/ (a.k = "ident" /\ a.name \notin FiniteCtors(t)) THEN FiniteCtors(t)
    ELSE IF a.k = "other" THEN {}
    ELSE {a.name} \cap FiniteCtors(t)
Admitted(p, t) ==
  IF \E i \in DOMAIN p : Admits(p[i], t) = {} THEN {}
    ELSE UNION {Admits(p[i], t) : i \in DOMAIN p}

Grid(s) == {c \in [DOMAIN s.comps -> UNION {FiniteCtors(s.comps[j]) : j \in DOMAIN s.comps}] :
              \A j \in DOMAIN s.comps : c[j] \in FiniteCtors(s.comps[j])}
Enumerable(s) ==
  /\ \A j \in DOMAIN s.comps : FiniteCtors(s.comps[j]) # {}
  /\ FoldLeft(LAMBDA n, t : n * Len(Ctors[t]), 1, s.comps) =< CellLimit
Modelled(s, arm) ==
  /\ arm.tuple /\ Len(arm.comps) = Len(s.comps)
  /\ \A j \in DOMAIN arm.comps : Admitted(arm.comps[j], s.comps[j]) # {}
InRectangle(s, arm, c) ==
  \A j \in DOMAIN arm.comps : c[j] \in Admitted(arm.comps[j], s.comps[j])

\* Whatever is beyond the rectangles makes the tuple check abstain.
NonExhaustive(s, m) ==
  IF s.tuple
    THEN /\ Enumerable(s)
         /\ \A i \in DOMAIN m : Modelled(s, m[i])
         /\ \E c \in Grid(s) : \A i \in DOMAIN m : ~InRectangle(s, m[i], c)
    ELSE Missing(m, s.comps[1]) # {}

\* The first arm that matches everything ends the match.
Verdict(s, m) ==
  IF \E i \in DOMAIN m : IsCatchAll(m[i])
    THEN IF \E i \in DOMAIN m : IsCatchAll(m[i]) /\ i < Len(m) THEN "E0304" ELSE "accepted"
    ELSE IF NonExhaustive(s, m) THEN "E0303" ELSE "accepted"

-----------------------------------------------------------------------------
(* codegen: match.go.                                                      *)

Owner(n) == CHOOSE t \in Type : HasVariants(t) /\ n \in Names(t)
Tag(n) == (CHOOSE i \in DOMAIN Ctors[Owner(n)] : Ctors[Owner(n)][i] = n) - 1

\* Mutant: any declared variant will do.
RefersAnywhere(s, a, j) == a.k = "ident" /\ IsVariant(a.name)

\* A name that stands for a variant.  Only a component that is a user sum has
\* a type to compare the variant's owner with.
Refers(s, a, j) ==
  /\ a.k = "ident" /\ IsVariant(a.name)
  /\ s.tuple /\ Kind[s.comps[j]] = "sum" => Owner(a.name) = s.comps[j]

Const(a) == IF a.k = "lit" THEN [lit |-> a.name] ELSE [tag |-> Tag(a.name)]

\* A component pattern () is not looked at: no arm with one is lowered.
Untested(s, p, j) ==
  /\ Len(p) = 1
  /\ \/ p[1].k = "wild"
     \/ p[1].k = "unit" /\ ~s.tuple
     \/ p[1].k = "ident" /\ ~Refers(s, p[1], j)
Tests(s, p, j) == IF Untested(s, p, j) THEN <<>> ELSE [i \in DOMAIN p |-> Const(p[i])]

\* A clause without a test is written default:, wherever it stands.
Clause(s, arm) == [j \in DOMAIN s.comps |->
                     IF arm.tuple = s.tuple THEN Tests(s, arm.comps[j], j) ELSE <<>>]
IsDefault(clause) == \A j \in DOMAIN clause : clause[j] = <<>>
Clauses(s, m) == [i \in DOMAIN m |-> Clause(s, m[i])]

\* Payloads are bound field by field and never tested.
Bindable(a) == a.sub = "none" \/ (a.sub = "bind" /\ a.name \in Carries)

CanHead(arm) ==
  /\ ~arm.tuple
  /\ \/ Alone(arm, {"wild", "unit"})
     \/ \A i \in DOMAIN arm.comps[1] :
          LET a == arm.comps[1][i]
          IN  \/ a.k = "lit"
              \/ a.k = "ident" /\ IsVariant(a.name)
              \/ a.k = "ctor" /\ IsVariant(a.name) /\ Bindable(a)
CanTest(s, arm) ==
  \/ ~arm.tuple /\ Alone(arm, {"wild"})
  \/ /\ arm.tuple /\ Len(arm.comps) = Len(s.comps)
     /\ \A j \in DOMAIN arm.comps :
          LET a == arm.comps[j][1]
          IN  /\ Len(arm.comps[j]) = 1
              /\ \/ a.k \in {"wild", "ident", "lit"}
                 \/ /\ a.k = "ctor" /\ IsVariant(a.name) /\ Bindable(a)
                    /\ Kind[s.comps[j]] = "sum" => Owner(a.name) = s.comps[j]

AtomsOf(m) == UNION {Range(m[i].comps[1]) : i \in DOMAIN m}
Lowerable(s, m) ==
  IF s.tuple THEN \A i \in DOMAIN m : CanTest(s, m[i])
    ELSE /\ \A i \in DOMAIN m : CanHead(m[i])
         /\ \/ \A a \in AtomsOf(m) : a.k # "lit"
            \/ \A a \in AtomsOf(m) : a.k # "ctor" /\ (a.k = "ident" => ~IsVariant(a.name))

\* Mutant: only an arm that is a wildcard counts.
EmitsDefaultForWild(s, m) == \E i \in DOMAIN m : ~m[i].tuple /\ Alone(m[i], {"wild"})

\* matchEmitsDefault, asked apart from the clauses themselves.
EmitsDefault(s, m) ==
  \E i \in DOMAIN m :
    \/ ~m[i].tuple /\ Alone(m[i], {"wild", "unit"})
    \/ m[i].tuple /\ \A j \in DOMAIN m[i].comps : Untested(s, m[i].comps[j], j)

-----------------------------------------------------------------------------
(* The Go compiler, and the switch it builds from the clauses c.           *)

OfType(const, t) ==
  CASE HasVariants(t)   -> DOMAIN const = {"tag"}
    [] Kind[t] = "bool" -> const \in [lit : {"true", "false"}]
    [] OTHER            -> const \in [lit : Lit]

\* An arm that binds component j to a name, which reads its temporary.
ReadsTemp(arm, j) == arm.tuple /\ arm.comps[j][1].k = "ident"

\* Constants of one switch differ, those of a bool switch apart; the temporary
\* of a tuple's component is tested or read by some clause.
GoBuilds(s, m, c) ==
  /\ \A i \in DOMAIN c : \A j \in DOMAIN c[i] :
       \A const \in Range(c[i][j]) : OfType(const, s.comps[j])
  /\ \A i, k \in DOMAIN c : IsDefault(c[i]) /\ IsDefault(c[k]) => i = k
  /\ ~s.tuple /\ Kind[s.comps[1]] # "bool" =>
       \A i, k \in DOMAIN c : \A x \in DOMAIN c[i][1], y \in DOMAIN c[k][1] :
         c[i][1][x] = c[k][1][y] => i = k /\ x = y
  /\ s.tuple => \A j \in DOMAIN s.comps :
       \E i \in DOMAIN c : c[i][j] # <<>> \/ ReadsTemp(m[i], j)

InGo(v, t) == IF HasVariants(t) THEN [tag |-> Tag(v.head)]
                                  ELSE [lit |-> v.head]
Passes(s, clause, v) ==
  \A j \in DOMAIN clause : clause[j] # <<>> => InGo(v[j], s.comps[j]) \in Range(clause[j])

\* The first clause with a test that passes, else the default, else none.
Cases(s, c, v)  == {k \in DOMAIN c : ~IsDefault(c[k]) /\ Passes(s, c[k], v)}
IsTaken(s, c, v, i) ==
  \/ i \in Cases(s, c, v) /\ \A k \in Cases(s, c, v) : i =< k
  \/ /\ Cases(s, c, v) = {}
     /\ \/ i \in DOMAIN c /\ IsDefault(c[i])
        \/ i = 0 /\ \A k \in DOMAIN c : ~IsDefault(c[k])

-----------------------------------------------------------------------------
(* The phases.                                                             *)

NoValue == <<>>

Init ==
  /\ subject \in Subject
  /\ arms = <<>> /\ stage = "parsing"
  /\ code = <<>> /\ guard = FALSE
  /\ value = NoValue /\ taken = 0

ParseArm ==
  /\ stage = "parsing" /\ Len(arms) < MaxArms
  /\ \E arm \in Written[subject] : arms' = Append(arms, arm)
  /\ UNCHANGED <<subject, stage, code, guard, value, taken>>

\* A match without arms does not parse.
Check ==
  /\ stage = "parsing" /\ arms # <<>>
  /\ stage' = Verdict(subject, arms)
  /\ UNCHANGED <<subject, arms, code, guard, value, taken>>

\* Mutant: nothing is emitted for the arms behind a wildcard.
LowerToWild ==
  /\ stage = "accepted" /\ Lowerable(subject, arms)
  /\ stage' = "lowered"
  /\ code' = [i \in {k \in DOMAIN arms :
                       \A n \in 1..(k - 1) : ~IsDefault(Clause(subject, arms[n]))} |->
                Clause(subject, arms[i])]
  /\ guard' = ~EmitsDefault(subject, arms)
  /\ UNCHANGED <<subject, arms, value, taken>>

Lower ==
  /\ stage = "accepted" /\ Lowerable(subject, arms)
  /\ stage' = "lowered"
  /\ code' = Clauses(subject, arms)
  /\ guard' = ~EmitsDefault(subject, arms)
  /\ UNCHANGED <<subject, arms, value, taken>>

RefuseToLower ==
  /\ stage = "accepted" /\ ~Lowerable(subject, arms)
  /\ stage' = "unsupported"
  /\ UNCHANGED <<subject, arms, code, guard, value, taken>>

GoCompile ==
  /\ stage = "lowered"
  /\ stage' = IF GoBuilds(subject, arms, code) THEN "built" ELSE "goError"
  /\ UNCHANGED <<subject, arms, code, guard, value, taken>>

Run ==
  /\ stage = "built"
  /\ value' \in Values(subject)
  /\ taken' \in {i \in 0..Len(code) : IsTaken(subject, code, value', i)}
  /\ stage' = "ran"
  /\ UNCHANGED <<subject, arms, code, guard>>

Finished ==
  /\ stage \in {"E0303", "E0304", "unsupported", "goError", "ran"}
  /\ UNCHANGED vars

Next == ParseArm \/ Check \/ Lower \/ RefuseToLower \/ GoCompile \/ Run \/ Finished

Spec == Init /\ [][Next]_vars

-----------------------------------------------------------------------------
(* Properties.                                                             *)

\* The parser reads a lower-case variant as a name, and outside of tuples the
\* checker leaves it at that, where codegen does not.
Misread ==
  ~subject.tuple /\ \E i \in DOMAIN arms : \E k \in DOMAIN arms[i].comps[1] :
    arms[i].comps[1][k].k = "ident" /\ IsVariant(arms[i].comps[1][k].name)

\* Types; every arm has its clause, in its place.
TypeOK ==
  /\ subject \in Subject
  /\ arms \in Seq(Written[subject])
  /\ stage \in {"parsing", "accepted", "E0303", "E0304", "unsupported",
                "lowered", "goError", "built", "ran"}
  /\ IF stage \in {"lowered", "goError", "built", "ran"} THEN DOMAIN code = DOMAIN arms
                                                        ELSE code = <<>>
  /\ guard \in BOOLEAN
  /\ IF stage = "ran" THEN value \in Values(subject) ELSE value = NoValue
  /\ taken \in 0..Len(arms)

\* No match is rejected that covers its subject, and no arm that can be reached:
\* E0303 comes with a value no arm matches, E0304 with an arm behind others
\* that match every value.
RejectsRightly ==
  ~Misread =>
    /\ stage = "E0303" =>
         \E v \in Values(subject) : \A i \in DOMAIN arms : ~Matches(subject, arms[i], v)
    /\ stage = "E0304" =>
         \E i \in DOMAIN arms : \A v \in Values(subject) :
           \E k \in 1..(i - 1) : Matches(subject, arms[k], v)

\* The subjects the checker claims to check.
IsChecked ==
  IF subject.tuple THEN Enumerable(subject) ELSE FiniteCtors(subject.comps[1]) # {}

\* A checked match that builds has an arm for every value: the panic behind
\* the switch is never reached.  It takes both phases: the checker counts
\* arms that only codegen refuses.
CheckedNeverPanics ==
  stage = "ran" /\ IsChecked /\ ~Misread => taken # 0

\* An arm that type-checks against the subject; a name that is a variant's
\* somewhere is left to components that are user sums.
WellTyped(arm) ==
  \/ IsCatchAll(arm)
  \/ /\ arm.tuple = subject.tuple /\ Len(arm.comps) = Len(subject.comps)
     /\ \A j \in DOMAIN arm.comps : \A i \in DOMAIN arm.comps[j] :
          LET a == arm.comps[j][i]
              t == subject.comps[j]
          IN  \/ Binds(a, t) /\ (IsVariant(a.name) => Kind[t] = "sum")
              \/ a.k \in {"ident", "ctor"} /\ Kind[t] # "bool" /\ a.name \in Names(t)
              \/ a.k = "lit" /\ Kind[t] \in {"bool", "open"} /\ a.name \in Heads(t)
              \/ a.k = "unit" /\ Kind[t] = "unit" /\ a.name \in Heads(t)

FirstMatch(i) ==
  IF i = 0 THEN \A k \in DOMAIN arms : ~Matches(subject, arms[k], value)
    ELSE Matches(subject, arms[i], value) /\ \A k \in 1..(i - 1) : ~Matches(subject, arms[k], value)

\* "Go's first-match switch semantics coincide with Tide's" (lowering-go.md).
RunsFirstMatch ==
  stage = "ran" /\ ~Misread /\ (\A i \in DOMAIN arms : WellTyped(arms[i])) =>
    FirstMatch(taken)

\* They do if no clause stands behind the default.
RunsFirstMatchOfOrdered ==
  (\A i \in DOMAIN code : IsDefault(code[i]) => i = Len(code)) => RunsFirstMatch

\* The switch is followed by a panic exactly if it has no default: Go wants a
\* terminating statement, and vet no unreachable one.
GuardOrDefault ==
  stage \in {"lowered", "built", "ran"} =>
    (guard <=> \A i \in DOMAIN code : ~IsDefault(code[i]))

\* A match that is checked runs, and it runs the arm the source says; the panic
\* behind it is there exactly if the switch could fall through.
RunsRightArm == CheckedNeverPanics /\ RunsFirstMatchOfOrdered /\ GuardOrDefault
=============================================================================
