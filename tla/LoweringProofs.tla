--------------------------- MODULE LoweringProofs ---------------------------
(***************************************************************************)
(* Theorems about what codegen lowers.  Match, for all types, subjects and *)
(* arms: what the checker rejects deserves it, what it accepts has an arm  *)
(* for every value, and the emitted switch runs the first arm that matches.*)
(* Dispatch, for chains of calls of every length: a call runs the method   *)
(* that the checker typed, or Go refuses it, where Dispatch says.          *)
(* TryHoist, for statements of every size: a hoisted try overtakes nothing *)
(* that the walk looks at, and none is refused without a reason.           *)
(***************************************************************************)
EXTENDS Match, Lowering, IndexLemmas, SequenceTheorems, TLAPS


-----------------------------------------------------------------------------
(* What each phase leaves behind.                                          *)

\* Each stage vouches for the phases before it.
History ==
  /\ subject \in Subject
  /\ arms \in Seq(Written[subject])
  /\ stage \in {"E0303", "E0304"} => stage = Verdict(subject, arms)
  /\ stage \in {"accepted", "unsupported", "lowered", "goError", "built", "ran"} =>
       Verdict(subject, arms) = "accepted"
  /\ stage \in {"lowered", "goError", "built", "ran"} =>
       /\ Lowerable(subject, arms)
       /\ code = Clauses(subject, arms)
       /\ guard = ~EmitsDefault(subject, arms)
  /\ stage \in {"parsing", "accepted", "E0303", "E0304", "unsupported"} => code = <<>>
  /\ stage \in {"built", "ran"} => GoBuilds(subject, arms, code)
  /\ stage = "ran" => /\ value \in Values(subject)
                      /\ taken \in 0..Len(code)
                      /\ IsTaken(subject, code, value, taken)
  /\ stage # "ran" => value = NoValue /\ taken = 0
  /\ stage \in {"parsing", "accepted", "E0303", "E0304", "unsupported",
                "lowered", "goError", "built", "ran"}
  /\ guard \in BOOLEAN

LEMMA HistoryInit == Init => History
<1> SUFFICES ASSUME Init PROVE History
  OBVIOUS
<1>1. subject \in Subject /\ arms \in Seq(Written[subject])
  BY DEF Init
<1>2. stage = "parsing" /\ code = <<>> /\ guard = FALSE /\ value = NoValue /\ taken = 0
  BY DEF Init
<1> QED
  BY <1>1, <1>2 DEF History

LEMMA VerdictRange == \A s, m : Verdict(s, m) \in {"E0303", "E0304", "accepted"}
  BY DEF Verdict

LEMMA HistoryStep == History /\ [Next]_vars => History'
<1> SUFFICES ASSUME History, [Next]_vars PROVE History'
  OBVIOUS
<1>1. CASE ParseArm
  BY <1>1 DEF ParseArm, History
<1>2. CASE Check
  BY <1>2, VerdictRange DEF Check, History
<1>3. CASE Lower
  BY <1>3 DEF Lower, History
<1>4. CASE RefuseToLower
  BY <1>4 DEF RefuseToLower, History
<1>5. CASE GoCompile
  BY <1>5 DEF GoCompile, History
<1>6. CASE Run
  BY <1>6 DEF Run, History
<1>7. CASE Finished \/ UNCHANGED vars
  BY <1>7 DEF Finished, vars, History
<1> QED
  BY <1>1, <1>2, <1>3, <1>4, <1>5, <1>6, <1>7 DEF Next

LEMMA HistoryInvariant == Spec => []History
  BY HistoryInit, HistoryStep, PTL DEF Spec

LEMMA ClausesLen ==
  ASSUME NEW s, NEW S, NEW m \in Seq(S)
  PROVE  DOMAIN Clauses(s, m) = DOMAIN m /\ Len(Clauses(s, m)) = Len(m)
<1>1. DOMAIN m = 1..Len(m) /\ Len(m) \in Nat
  OBVIOUS
<1>2. Clauses(s, m) = [i \in 1..Len(m) |-> Clause(s, m[i])]
  BY <1>1 DEF Clauses
<1> QED
  BY <1>1, <1>2

(* Types; every arm has its clause, in its place.                          *)
THEOREM TypeCorrect == Spec => []TypeOK
<1>1. History => TypeOK
  <2> SUFFICES ASSUME History PROVE TypeOK
    OBVIOUS
  <2>1. DOMAIN Clauses(subject, arms) = DOMAIN arms /\ Len(Clauses(subject, arms)) = Len(arms)
    BY ClausesLen DEF History
  <2>2. taken \in 0..Len(arms)
    <3>1. Len(arms) \in Nat
      BY DEF History
    <3> QED
      BY <2>1, <3>1 DEF History
  <2> QED
    BY <2>1, <2>2 DEF History, TypeOK
<1> QED
  BY <1>1, HistoryInvariant, PTL

-----------------------------------------------------------------------------
(* The panic behind the switch, and its default.                           *)

\* A pattern has no test exactly if it tests nothing.
LEMMA TestsNothing ==
  ASSUME NEW s, NEW p \in Seq(Atom), p # <<>>, NEW j
  PROVE  Tests(s, p, j) = <<>> <=> Untested(s, p, j)
<1>1. 1 \in DOMAIN p
  OBVIOUS
<1>2. [i \in DOMAIN p |-> Const(p[i])] # <<>>
  BY <1>1
<1> QED
  BY <1>2 DEF Tests

\* What the parser gives an arm of the match.
LEMMA ArmsAreWritten ==
  ASSUME NEW s \in Subject, NEW m \in Seq(Written[s]), NEW i \in DOMAIN m
  PROVE  /\ m[i] \in Arm
         /\ \A j \in DOMAIN m[i].comps : m[i].comps[j] \in Seq(Atom) /\ IsWritten(m[i].comps[j])
         /\ ~m[i].tuple => Len(m[i].comps) = 1
<1>1. m[i] \in Written[s]
  OBVIOUS
<1>2. m[i] \in Arm
  BY <1>1, WrittenAssumption
<1>3. m[i].comps \in Seq(Seq(Atom))
  BY <1>2 DEF Arm
<1> QED
  BY <1>1, <1>2, <1>3, WrittenAssumption

LEMMA DefaultOfTuple ==
  ASSUME NEW s \in Subject, s.tuple, NEW arm \in Arm, CanTest(s, arm),
         \A j \in DOMAIN arm.comps : arm.comps[j] \in Seq(Atom) /\ arm.comps[j] # <<>>
  PROVE  IsDefault(Clause(s, arm)) <=>
           \/ ~arm.tuple /\ Alone(arm, {"wild", "unit"})
           \/ arm.tuple /\ \A j \in DOMAIN arm.comps : Untested(s, arm.comps[j], j)
<1>1. arm.tuple \in BOOLEAN /\ arm.comps \in Seq(Seq(Atom)) /\ s.comps \in Seq(Type)
  BY SubjectAssumption DEF Arm
<1>2. CASE arm.tuple
  <2>1. DOMAIN arm.comps = DOMAIN s.comps
    BY <1>1, <1>2 DEF CanTest
  <2>2. Clause(s, arm) = [j \in DOMAIN s.comps |-> Tests(s, arm.comps[j], j)]
    BY <1>2 DEF Clause
  <2>3. \A j \in DOMAIN arm.comps : Tests(s, arm.comps[j], j) = <<>> <=> Untested(s, arm.comps[j], j)
    BY TestsNothing
  <2> QED
    BY <1>2, <2>1, <2>2, <2>3 DEF IsDefault
<1>3. CASE ~arm.tuple
  <2>1. Clause(s, arm) = [j \in DOMAIN s.comps |-> <<>>]
    BY <1>3 DEF Clause
  <2> QED
    BY <1>3, <2>1 DEF IsDefault, CanTest, Alone
<1> QED
  BY <1>1, <1>2, <1>3

LEMMA DefaultOfOne ==
  ASSUME NEW s \in Subject, ~s.tuple, NEW arm \in Arm, CanHead(arm),
         Len(arm.comps) = 1, arm.comps[1] \in Seq(Atom), arm.comps[1] # <<>>
  PROVE  IsDefault(Clause(s, arm)) <=> Alone(arm, {"wild", "unit"})
<1>1. ~arm.tuple /\ DOMAIN s.comps = {1}
  <2>1. s.comps \in Seq(Type) /\ Len(s.comps) = 1
    BY SubjectAssumption
  <2>2. DOMAIN s.comps = 1..1
    BY <2>1
  <2> QED
    BY <2>2 DEF CanHead
<1>2. Clause(s, arm) = [j \in DOMAIN s.comps |-> Tests(s, arm.comps[j], j)]
  <2>1. arm.tuple \in BOOLEAN /\ s.tuple \in BOOLEAN
    BY SubjectAssumption DEF Arm
  <2>2. arm.tuple = s.tuple
    BY <1>1, <2>1
  <2> QED
    BY <2>2 DEF Clause
<1>3. IsDefault(Clause(s, arm)) <=> Untested(s, arm.comps[1], 1)
  BY <1>1, <1>2, TestsNothing DEF IsDefault
<1>4. Alone(arm, {"wild", "unit"}) => Untested(s, arm.comps[1], 1)
  BY DEF Alone, Untested
<1>5. ASSUME Untested(s, arm.comps[1], 1), ~Alone(arm, {"wild", "unit"})
      PROVE  FALSE
  <2>1. Len(arm.comps[1]) = 1 /\ 1 \in DOMAIN arm.comps[1]
    BY <1>5 DEF Untested
  <2>2. arm.comps[1][1].k = "ident" /\ ~Refers(s, arm.comps[1][1], 1)
    BY <1>5, <2>1 DEF Untested, Alone
  <2>3. IsVariant(arm.comps[1][1].name)
    BY <1>5, <2>1, <2>2 DEF CanHead
  <2> QED
    BY <2>2, <2>3 DEF Refers
<1> QED
  BY <1>3, <1>4, <1>5

LEMMA GuardIsMissingDefault ==
  ASSUME NEW s \in Subject, NEW m \in Seq(Written[s]), Lowerable(s, m)
  PROVE  EmitsDefault(s, m) <=> \E i \in DOMAIN Clauses(s, m) : IsDefault(Clauses(s, m)[i])
<1>1. DOMAIN Clauses(s, m) = DOMAIN m /\ \A i \in DOMAIN m : Clauses(s, m)[i] = Clause(s, m[i])
  BY DEF Clauses
<1>2. \A i \in DOMAIN m :
        /\ m[i] \in Arm
        /\ \A j \in DOMAIN m[i].comps : m[i].comps[j] \in Seq(Atom) /\ m[i].comps[j] # <<>>
        /\ ~m[i].tuple => Len(m[i].comps) = 1
  BY ArmsAreWritten DEF IsWritten
<1>3. CASE s.tuple
  <2>1. \A i \in DOMAIN m : CanTest(s, m[i])
    BY <1>3 DEF Lowerable
  <2> QED
    BY <1>1, <1>2, <1>3, <2>1, DefaultOfTuple DEF EmitsDefault
<1>4. CASE ~s.tuple
  <2>1. \A i \in DOMAIN m : CanHead(m[i])
    BY <1>4 DEF Lowerable
  <2>2. \A i \in DOMAIN m : ~m[i].tuple
    BY <2>1 DEF CanHead
  <2>3. \A i \in DOMAIN m : 1 \in DOMAIN m[i].comps /\ m[i].comps \in Seq(Seq(Atom))
    BY <1>2, <2>2 DEF Arm
  <2>4. \A i \in DOMAIN m : IsDefault(Clause(s, m[i])) <=> Alone(m[i], {"wild", "unit"})
    BY <1>2, <1>4, <2>1, <2>2, <2>3, DefaultOfOne
  <2> QED
    BY <1>1, <2>2, <2>4 DEF EmitsDefault
<1> QED
  BY <1>3, <1>4

(* codegen asks about the default apart from the clauses it emits; the two *)
(* answers agree for every match it lowers.                                *)
THEOREM GuardAlwaysRight == Spec => []GuardOrDefault
<1>1. History => GuardOrDefault
  <2> SUFFICES ASSUME History, stage \in {"lowered", "built", "ran"}
               PROVE  guard <=> \A i \in DOMAIN code : ~IsDefault(code[i])
    BY DEF GuardOrDefault
  <2>1. Lowerable(subject, arms) /\ code = Clauses(subject, arms) /\ guard = ~EmitsDefault(subject, arms)
    BY DEF History
  <2>2. subject \in Subject /\ arms \in Seq(Written[subject])
    BY DEF History
  <2>3. EmitsDefault(subject, arms) <=> \E i \in DOMAIN code : IsDefault(code[i])
    BY <2>1, <2>2, GuardIsMissingDefault
  <2> QED
    BY <2>1, <2>3
<1> QED
  BY <1>1, HistoryInvariant, PTL
-----------------------------------------------------------------------------
(* What is rejected deserves it.                                           *)

\* A value for a choice of constructors, without a payload to speak of.
Sample(s, c) == [j \in DOMAIN s.comps |-> [head |-> c[j], load |-> 0]]

LEMMA KindOfFinite ==
  ASSUME NEW t \in Type, FiniteCtors(t) # {}
  PROVE  Kind[t] \in {"sum", "bool"} /\ FiniteCtors(t) = Names(t) /\ Heads(t) = Names(t)
<1>1. Kind[t] \in {"sum", "bool"}
  BY DEF FiniteCtors
<1> QED
  BY <1>1 DEF FiniteCtors, Heads

LEMMA SampleIsValue ==
  ASSUME NEW s \in Subject, NEW c,
         \A j \in DOMAIN s.comps : c[j] \in FiniteCtors(s.comps[j])
  PROVE  Sample(s, c) \in Values(s)
<1>1. \A j \in DOMAIN s.comps : s.comps[j] \in Type
  BY SubjectAssumption
<1>2. \A j \in DOMAIN s.comps : [head |-> c[j], load |-> 0] \in CompValues(s.comps[j])
  <2> SUFFICES ASSUME NEW j \in DOMAIN s.comps
               PROVE  [head |-> c[j], load |-> 0] \in CompValues(s.comps[j])
    OBVIOUS
  <2>1. c[j] \in Heads(s.comps[j])
    BY <1>1, KindOfFinite
  <2> QED
    BY <2>1 DEF CompValues
<1> QED
  BY <1>2 DEF Sample, Values

LEMMA TypesOfSubject ==
  ASSUME NEW s \in Subject
  PROVE  /\ s.tuple \in BOOLEAN /\ s.comps \in Seq(Type)
         /\ \A j \in DOMAIN s.comps : s.comps[j] \in Type
         /\ ~s.tuple => Len(s.comps) = 1 /\ DOMAIN s.comps = {1}
<1>1. s.tuple \in BOOLEAN /\ s.comps \in Seq(Type) /\ (~s.tuple => Len(s.comps) = 1)
  BY SubjectAssumption
<1>2. \A j \in DOMAIN s.comps : s.comps[j] \in Type
  BY <1>1
<1>3. ~s.tuple => DOMAIN s.comps = {1}
  <2>1. DOMAIN s.comps = 1..Len(s.comps) /\ 1..1 = {1}
    BY <1>1
  <2> QED
    BY <1>1, <2>1
<1> QED
  BY <1>1, <1>2, <1>3

\* Misread, of the subject and the arms given.
Misreads(s, m) ==
  ~s.tuple /\ \E i \in DOMAIN m : \E k \in DOMAIN m[i].comps[1] :
    m[i].comps[1][k].k = "ident" /\ IsVariant(m[i].comps[1][k].name)

\* A pattern of a single subject that covers a constructor names it.
LEMMA MatchedIsCovered ==
  ASSUME NEW t \in Type, NEW p \in Seq(Atom), IsWritten(p), NEW x \in DOMAIN p,
         NEW v, v.head \in FiniteCtors(t), MatchesAtom(p[x], v, t),
         p[x].k = "ident" => ~IsVariant(p[x].name),
         Len(p) = 1 => p[1].k \notin {"wild", "ident"}
  PROVE  p[x].k = (IF Kind[t] = "bool" THEN "lit" ELSE "ctor") /\ p[x].name = v.head
<1>1. Kind[t] \in {"sum", "bool"} /\ FiniteCtors(t) = Names(t)
  BY KindOfFinite
<1>2. p[x].k \notin {"wild", "ident"}
  <2>1. Len(p) = 1 \/ Len(p) > 1
    <3>1. Len(p) \in Nat /\ DOMAIN p = 1..Len(p) /\ x \in 1..Len(p)
      OBVIOUS
    <3> QED
      BY <3>1
  <2>2. CASE Len(p) = 1
    <3>1. DOMAIN p = 1..1
      BY <2>2
    <3>2. x = 1
      BY <3>1
    <3> QED
      BY <2>2, <3>2
  <2>3. CASE Len(p) > 1
    BY <2>3 DEF IsWritten
  <2> QED
    BY <2>1, <2>2, <2>3
<1>3. p[x].k \in {"ctor", "lit"} /\ p[x].name = v.head
  <2>1. p[x].k \in {"ctor", "lit", "unit"} /\ p[x].name = v.head
    BY <1>2 DEF MatchesAtom, Binds
  <2>2. p[x].k # "unit"
    BY <1>1, <2>1 DEF IsWritten
  <2> QED
    BY <2>1, <2>2
<1>4. p[x].k = "lit" <=> Kind[t] = "bool"
  BY <1>1, <1>3 DEF IsWritten
<1> QED
  BY <1>3, <1>4

LEMMA MissingIsReal ==
  ASSUME NEW s \in Subject, ~s.tuple, NEW m \in Seq(Written[s]), ~Misreads(s, m),
         \A i \in DOMAIN m : ~IsCatchAll(m[i]), Missing(m, s.comps[1]) # {}
  PROVE  \E v \in Values(s) : \A i \in DOMAIN m : ~Matches(s, m[i], v)
<1> DEFINE t == s.comps[1]
<1>1. PICK n \in FiniteCtors(t) : \A i \in DOMAIN m : n \notin Covered(m[i], t)
  BY DEF Missing
<1> DEFINE v == Sample(s, [j \in {1} |-> n])
<1>2. v \in Values(s)
  BY TypesOfSubject, SampleIsValue
<1>3. v[1].head = n
  BY TypesOfSubject DEF Sample
<1>4. ASSUME NEW i \in DOMAIN m, Matches(s, m[i], v)
      PROVE  FALSE
  <2>1. /\ m[i] \in Arm
        /\ \A j \in DOMAIN m[i].comps : m[i].comps[j] \in Seq(Atom) /\ IsWritten(m[i].comps[j])
    BY ArmsAreWritten
  <2>2. ~m[i].tuple /\ m[i].tuple = s.tuple
    BY <1>4, <2>1, TypesOfSubject DEF Matches, Arm
  <2>3. 1 \in DOMAIN m[i].comps
    <3>1. Len(m[i].comps) = 1 /\ m[i].comps \in Seq(Seq(Atom))
      BY <2>1, <2>2, ArmsAreWritten DEF Arm
    <3> QED
      BY <3>1
  <2>4. PICK x \in DOMAIN m[i].comps[1] : MatchesAtom(m[i].comps[1][x], v[1], t)
    BY <1>4, <2>2, <2>3 DEF Matches
  <2>5. m[i].comps[1][x].k = "ident" => ~IsVariant(m[i].comps[1][x].name)
    BY DEF Misreads
  <2>6. Len(m[i].comps[1]) = 1 => m[i].comps[1][1].k \notin {"wild", "ident"}
    BY <2>2 DEF IsCatchAll, Alone
  <2>7. t \in Type
    BY TypesOfSubject
  <2> DEFINE p == m[i].comps[1]
  <2>8. p \in Seq(Atom) /\ IsWritten(p)
    BY <2>1, <2>3
  <2> HIDE DEF v, t, p
  <2>9. p[x].k = (IF Kind[t] = "bool" THEN "lit" ELSE "ctor") /\ p[x].name = n
    BY <1>1, <1>3, <2>4, <2>5, <2>6, <2>7, <2>8, MatchedIsCovered DEF p
  <2>10. p[x] \in Range(p)
    BY <2>4 DEF Range, p
  <2>11. n \in Covered(m[i], t)
    BY <2>2, <2>9, <2>10 DEF Covered, p
  <2> QED
    BY <1>1, <2>11
<1> QED
  BY <1>2, <1>4

LEMMA UncoveredCellIsReal ==
  ASSUME NEW s \in Subject, s.tuple, NEW m \in Seq(Written[s]), NonExhaustive(s, m)
  PROVE  \E v \in Values(s) : \A i \in DOMAIN m : ~Matches(s, m[i], v)
<1>1. Enumerable(s) /\ \A i \in DOMAIN m : Modelled(s, m[i])
  BY DEF NonExhaustive
<1>2. PICK c \in Grid(s) : \A i \in DOMAIN m : ~InRectangle(s, m[i], c)
  BY DEF NonExhaustive
<1> DEFINE v == Sample(s, c)
<1>3. \A j \in DOMAIN s.comps : c[j] \in FiniteCtors(s.comps[j])
  BY DEF Grid
<1>4. v \in Values(s)
  BY <1>3, SampleIsValue
<1>5. \A j \in DOMAIN s.comps : v[j].head = c[j]
  BY DEF Sample
<1> HIDE DEF v
<1>6. ASSUME NEW i \in DOMAIN m, Matches(s, m[i], v)
      PROVE  FALSE
  <2>1. /\ m[i] \in Arm
        /\ \A j \in DOMAIN m[i].comps : m[i].comps[j] \in Seq(Atom) /\ IsWritten(m[i].comps[j])
    BY ArmsAreWritten
  <2>2. m[i].tuple /\ Len(m[i].comps) = Len(s.comps) /\ m[i].tuple = s.tuple
    BY <1>1, <2>1, TypesOfSubject DEF Modelled, Arm
  <2>3. DOMAIN m[i].comps = DOMAIN s.comps
    BY <2>1, <2>2, TypesOfSubject DEF Arm
  <2>4. \A j \in DOMAIN m[i].comps : \E x \in DOMAIN m[i].comps[j] :
          MatchesAtom(m[i].comps[j][x], v[j], s.comps[j])
    BY <1>6, <2>2 DEF Matches
  <2>5. ASSUME NEW j \in DOMAIN m[i].comps
        PROVE  c[j] \in Admitted(m[i].comps[j], s.comps[j])
    <3> DEFINE t == s.comps[j]
    <3>1. PICK x \in DOMAIN m[i].comps[j] : MatchesAtom(m[i].comps[j][x], v[j], t)
      BY <2>4
    <3>2. Admitted(m[i].comps[j], t) # {}
      BY <1>1 DEF Modelled
    <3>3. t \in Type /\ c[j] \in FiniteCtors(t) /\ v[j].head = c[j]
      BY <1>3, <1>5, <2>3, TypesOfSubject
    <3>4. FiniteCtors(t) = Names(t)
      BY <3>3, KindOfFinite
    <3> HIDE DEF t
    <3>5. c[j] \in Admits(m[i].comps[j][x], t)
      BY <3>1, <3>3, <3>4 DEF MatchesAtom, Binds, Admits
    <3>6. Admitted(m[i].comps[j], t) = UNION {Admits(m[i].comps[j][y], t) : y \in DOMAIN m[i].comps[j]}
      BY <3>2 DEF Admitted
    <3> QED
      BY <3>5, <3>6 DEF t
  <2> QED
    BY <1>2, <2>5 DEF InRectangle
<1> QED
  BY <1>4, <1>6

\* A name or a wildcard alone matches every value.
LEMMA CatchAllMatches ==
  ASSUME NEW s \in Subject, NEW m \in Seq(Written[s]), ~Misreads(s, m),
         NEW i \in DOMAIN m, IsCatchAll(m[i]), NEW v
  PROVE  Matches(s, m[i], v)
<1> DEFINE arm == m[i]
<1> DEFINE a == m[i].comps[1][1]
<1>1. /\ arm \in Arm /\ ~arm.tuple /\ Len(arm.comps) = 1
      /\ \A j \in DOMAIN arm.comps : arm.comps[j] \in Seq(Atom) /\ IsWritten(arm.comps[j])
  BY ArmsAreWritten DEF IsCatchAll
<1>2. DOMAIN arm.comps = {1}
  <2>1. arm.comps \in Seq(Seq(Atom))
    BY <1>1 DEF Arm
  <2>2. DOMAIN arm.comps = 1..1 /\ 1..1 = {1}
    BY <1>1, <2>1
  <2> QED
    BY <2>2
<1>3. a.k \in {"wild", "ident"} /\ 1 \in DOMAIN arm.comps[1] /\ IsWritten(arm.comps[1])
  <2>1. Len(arm.comps[1]) = 1 /\ a.k \in {"wild", "ident"}
    BY DEF IsCatchAll, Alone
  <2>2. arm.comps[1] \in Seq(Atom) /\ IsWritten(arm.comps[1])
    BY <1>1, <1>2
  <2>3. DOMAIN arm.comps[1] = 1..1
    BY <2>1, <2>2
  <2> QED
    BY <2>1, <2>2, <2>3
<1>4. CASE s.tuple
  <2>1. arm.tuple # s.tuple
    BY <1>1, <1>4
  <2> QED
    BY <1>1, <1>3, <2>1 DEF Matches
<1>5. CASE ~s.tuple
  <2>1. arm.tuple = s.tuple
    BY <1>1, <1>5, TypesOfSubject DEF Arm
  <2>2. s.comps[1] \in Type /\ Len(s.comps) = 1
    BY <1>5, TypesOfSubject
  <2>3. a.k = "ident" => ~IsVariant(a.name)
    BY <1>3, <1>5 DEF Misreads
  <2>4. Binds(a, s.comps[1])
    <3>1. SUFFICES ASSUME a.k = "ident", a.name \in Names(s.comps[1])
                   PROVE  FALSE
      BY <1>3 DEF Binds
    <3>2. Kind[s.comps[1]] # "bool"
      BY <1>3, <2>2, <3>1 DEF IsWritten
    <3>3. Kind[s.comps[1]] \notin {"unit", "open"}
      BY <2>2, <3>1, TypeAssumption DEF Names, Range
    <3>4. HasVariants(s.comps[1])
      BY <2>2, <3>2, <3>3, TypeAssumption DEF HasVariants
    <3> QED
      BY <2>2, <2>3, <3>1, <3>4 DEF IsVariant
  <2>5. MatchesAtom(a, v[1], s.comps[1])
    BY <2>4 DEF MatchesAtom
  <2> QED
    BY <1>1, <1>2, <1>3, <2>1, <2>2, <2>5 DEF Matches
<1> QED
  BY <1>4, <1>5

(* The checker never rejects an exhaustive match, nor a reachable arm.     *)
THEOREM RejectsAlwaysRightly == Spec => []RejectsRightly
<1>1. History => RejectsRightly
  <2> SUFFICES ASSUME History, ~Misread
               PROVE  /\ stage = "E0303" =>
                           \E v \in Values(subject) : \A i \in DOMAIN arms : ~Matches(subject, arms[i], v)
                      /\ stage = "E0304" =>
                           \E i \in DOMAIN arms : \A v \in Values(subject) :
                             \E k \in 1..(i - 1) : Matches(subject, arms[k], v)
    BY DEF RejectsRightly
  <2>1. subject \in Subject /\ arms \in Seq(Written[subject])
    BY DEF History
  <2>2. ~Misreads(subject, arms)
    BY DEF Misreads, Misread
  <2>3. CASE stage = "E0303"
    <3>1. Verdict(subject, arms) = "E0303"
      BY <2>3 DEF History
    <3>2. (\A i \in DOMAIN arms : ~IsCatchAll(arms[i])) /\ NonExhaustive(subject, arms)
      BY <3>1 DEF Verdict
    <3>3. CASE subject.tuple
      BY <2>1, <2>3, <3>2, <3>3, UncoveredCellIsReal
    <3>4. CASE ~subject.tuple
      <4>1. Missing(arms, subject.comps[1]) # {}
        BY <3>2, <3>4 DEF NonExhaustive
      <4> QED
        BY <2>1, <2>2, <2>3, <3>2, <3>4, <4>1, MissingIsReal
    <3> QED
      BY <3>3, <3>4
  <2>4. CASE stage = "E0304"
    <3>1. Verdict(subject, arms) = "E0304"
      BY <2>4 DEF History
    <3>2. PICK i \in DOMAIN arms : IsCatchAll(arms[i]) /\ i < Len(arms)
      BY <3>1 DEF Verdict
    <3>3. DOMAIN arms = 1..Len(arms) /\ Len(arms) \in Nat
      BY <2>1
    <3>4. i + 1 \in DOMAIN arms /\ i \in 1..((i + 1) - 1)
      BY <3>2, <3>3
    <3>5. \A v \in Values(subject) : Matches(subject, arms[i], v)
      BY <2>1, <2>2, <3>2, CatchAllMatches
    <3> QED
      BY <2>4, <3>4, <3>5
  <2> QED
    BY <2>3, <2>4
<1> QED
  BY <1>1, HistoryInvariant, PTL
-----------------------------------------------------------------------------
(* Tags and literals tell constructors apart.                              *)

LEMMA OwnerIsType ==
  ASSUME NEW t \in Type, HasVariants(t), NEW n \in Names(t)
  PROVE  Owner(n) = t /\ IsVariant(n)
<1>1. PICK i \in DOMAIN Ctors[t] : Ctors[t][i] = n
  BY DEF Names, Range
<1>2. \A u \in Type : HasVariants(u) /\ n \in Names(u) => u = t
  <2> SUFFICES ASSUME NEW u \in Type, HasVariants(u), n \in Names(u) PROVE u = t
    OBVIOUS
  <2>1. PICK k \in DOMAIN Ctors[u] : Ctors[u][k] = n
    BY DEF Names, Range
  <2> QED
    BY <1>1, <2>1, VariantAssumption
<1> QED
  BY <1>2 DEF Owner, IsVariant

LEMMA TagIsInjective ==
  ASSUME NEW t \in Type, HasVariants(t), NEW n \in Names(t), NEW o \in Names(t)
  PROVE  Tag(n) = Tag(o) <=> n = o
<1>1. Owner(n) = t /\ Owner(o) = t
  BY OwnerIsType
<1>2. Ctors[t] \in Seq(STRING)
  BY TypeAssumption
<1>3. ASSUME NEW q \in Names(t), Owner(q) = t
      PROVE  Tag(q) + 1 \in DOMAIN Ctors[t] /\ Ctors[t][Tag(q) + 1] = q
  <2>1. \E i \in DOMAIN Ctors[t] : Ctors[t][i] = q
    BY DEF Names, Range
  <2> DEFINE i == CHOOSE i \in DOMAIN Ctors[t] : Ctors[t][i] = q
  <2>2. i \in DOMAIN Ctors[t] /\ Ctors[t][i] = q
    BY <2>1
  <2>3. Tag(q) = i - 1
    BY <1>3 DEF Tag
  <2> HIDE DEF i
  <2>4. i \in Int
    BY <1>2, <2>2
  <2> QED
    BY <2>2, <2>3, <2>4
<1> QED
  BY <1>1, <1>3

LEMMA ConstantsDiffer ==
  ASSUME NEW x, NEW y
  PROVE  /\ [lit |-> x] = [lit |-> y] <=> x = y
         /\ [tag |-> x] = [tag |-> y] <=> x = y
         /\ DOMAIN [lit |-> x] = {"lit"} /\ DOMAIN [tag |-> x] = {"tag"}
         /\ [tag |-> x] # [lit |-> y]
<1>1. [lit |-> x] = [lit |-> y] => [lit |-> x].lit = [lit |-> y].lit
  OBVIOUS
<1>2. [tag |-> x] = [tag |-> y] => [tag |-> x].tag = [tag |-> y].tag
  OBVIOUS
<1>3. DOMAIN [lit |-> x] = {"lit"} /\ DOMAIN [tag |-> x] = {"tag"} /\ DOMAIN [lit |-> y] = {"lit"}
  OBVIOUS
<1>4. "lit" # "tag"
  OBVIOUS
<1>5. {"lit"} # {"tag"}
  BY <1>4
<1> QED
  BY <1>1, <1>2, <1>3, <1>5

\* The constant of a constructor is that of the values made with it.
LEMMA ConstIsHead ==
  ASSUME NEW t \in Type, NEW a, NEW v, v.head \in Heads(t),
         \/ a.k \in {"ident", "ctor"} /\ HasVariants(t) /\ a.name \in Names(t)
         \/ a.k = "lit" /\ ~HasVariants(t)
  PROVE  Const(a) = InGo(v, t) <=> v.head = a.name
<1>1. CASE a.k \in {"ident", "ctor"} /\ HasVariants(t) /\ a.name \in Names(t)
  <2>1. Const(a) = [tag |-> Tag(a.name)] /\ InGo(v, t) = [tag |-> Tag(v.head)]
    BY <1>1 DEF Const, InGo
  <2>2. v.head \in Names(t)
    BY <1>1 DEF Heads, HasVariants
  <2> QED
    BY <1>1, <2>1, <2>2, TagIsInjective, ConstantsDiffer
<1>2. CASE a.k = "lit" /\ ~HasVariants(t)
  BY <1>2, ConstantsDiffer DEF Const, InGo
<1> QED
  BY <1>1, <1>2

LEMMA ValueParts ==
  ASSUME NEW s \in Subject, NEW v \in Values(s), NEW j \in DOMAIN s.comps
  PROVE  v[j].head \in Heads(s.comps[j])
<1>1. v[j] \in CompValues(s.comps[j])
  BY DEF Values
<1> QED
  BY <1>1 DEF CompValues

-----------------------------------------------------------------------------
(* What is checked has an arm for every value.                             *)

\* Without a default and a case for the value, no clause passes.
LEMMA NoneTaken ==
  ASSUME NEW s, NEW m, NEW v, IsTaken(s, Clauses(s, m), v, 0), 0 \notin DOMAIN m
  PROVE  \A i \in DOMAIN m : ~IsDefault(Clause(s, m[i])) /\ ~Passes(s, Clause(s, m[i]), v)
<1>1. DOMAIN Clauses(s, m) = DOMAIN m /\ \A i \in DOMAIN m : Clauses(s, m)[i] = Clause(s, m[i])
  BY DEF Clauses
<1>2. Cases(s, Clauses(s, m), v) = {} /\ \A i \in DOMAIN m : ~IsDefault(Clause(s, m[i]))
  BY <1>1 DEF IsTaken, Cases
<1> QED
  BY <1>1, <1>2 DEF Cases

LEMMA WildIsDefault ==
  ASSUME NEW s \in Subject, NEW arm \in Arm, ~arm.tuple, Alone(arm, {"wild", "unit"}),
         ~s.tuple => Len(arm.comps) = 1
  PROVE  IsDefault(Clause(s, arm))
<1>1. ~s.tuple => Untested(s, arm.comps[1], 1)
  BY DEF Untested, Alone
<1>2. ~s.tuple => Tests(s, arm.comps[1], 1) = <<>>
  BY <1>1 DEF Tests
<1>3. CASE s.tuple
  BY <1>3 DEF Clause, IsDefault
<1>4. CASE ~s.tuple
  BY <1>2, <1>4, TypesOfSubject DEF Clause, IsDefault
<1> QED
  BY <1>3, <1>4

LEMMA ClauseOfTuple ==
  ASSUME NEW s \in Subject, NEW arm, arm.tuple = s.tuple
  PROVE  /\ DOMAIN Clause(s, arm) = DOMAIN s.comps
         /\ \A j \in DOMAIN s.comps : Clause(s, arm)[j] = Tests(s, arm.comps[j], j)
BY DEF Clause

LEMMA OnePanicsNever ==
  ASSUME NEW s \in Subject, ~s.tuple, FiniteCtors(s.comps[1]) # {},
         NEW m \in Seq(Written[s]), ~Misreads(s, m),
         Verdict(s, m) = "accepted", Lowerable(s, m), NEW v \in Values(s)
  PROVE  ~IsTaken(s, Clauses(s, m), v, 0)
<1> SUFFICES ASSUME IsTaken(s, Clauses(s, m), v, 0) PROVE FALSE
  OBVIOUS
<1> DEFINE t == s.comps[1]
<1>1. \A i \in DOMAIN m : ~IsDefault(Clause(s, m[i])) /\ ~Passes(s, Clause(s, m[i]), v)
  <2>1. 0 \notin DOMAIN m
    OBVIOUS
  <2> QED
    BY <2>1, NoneTaken
<1>2. t \in Type /\ DOMAIN s.comps = {1}
  BY TypesOfSubject
<1>3. Kind[t] \in {"sum", "bool"} /\ FiniteCtors(t) = Names(t) /\ Heads(t) = Names(t)
  BY <1>2, KindOfFinite
<1>4. \A i \in DOMAIN m : CanHead(m[i]) /\ ~m[i].tuple /\ m[i] \in Arm /\ Len(m[i].comps) = 1
                          /\ m[i].comps[1] \in Seq(Atom) /\ m[i].tuple = s.tuple
  <2> SUFFICES ASSUME NEW i \in DOMAIN m
               PROVE  CanHead(m[i]) /\ ~m[i].tuple /\ m[i] \in Arm /\ Len(m[i].comps) = 1
                      /\ m[i].comps[1] \in Seq(Atom) /\ m[i].tuple = s.tuple
    OBVIOUS
  <2>1. CanHead(m[i]) /\ ~m[i].tuple
    BY DEF Lowerable, CanHead
  <2>2. m[i] \in Arm /\ Len(m[i].comps) = 1
    BY <2>1, ArmsAreWritten
  <2>3. m[i].comps \in Seq(Seq(Atom)) /\ m[i].tuple \in BOOLEAN
    BY <2>2 DEF Arm
  <2>4. m[i].tuple = s.tuple
    BY <2>1, <2>3, TypesOfSubject
  <2> QED
    BY <2>1, <2>2, <2>3, <2>4
<1>5. \A i \in DOMAIN m : ~IsCatchAll(m[i])
  <2> SUFFICES ASSUME NEW i \in DOMAIN m, IsCatchAll(m[i]) PROVE FALSE
    OBVIOUS
  <2>1. CASE Alone(m[i], {"wild"})
    BY <1>1, <1>4, <2>1, WildIsDefault DEF Alone
  <2>2. CASE ~Alone(m[i], {"wild"})
    <3>1. Len(m[i].comps[1]) = 1 /\ m[i].comps[1][1].k = "ident"
      BY <2>2 DEF IsCatchAll, Alone
    <3>2. DOMAIN m[i].comps[1] = 1..1
      BY <1>4, <3>1
    <3>3. 1 \in DOMAIN m[i].comps[1]
      BY <3>2
    <3>4. IsVariant(m[i].comps[1][1].name)
      BY <1>4, <2>2, <3>1, <3>3 DEF CanHead, Alone
    <3> QED
      BY <3>1, <3>3, <3>4 DEF Misreads
  <2> QED
    BY <2>1, <2>2
<1>6. Missing(m, t) = {}
  BY <1>5 DEF Verdict, NonExhaustive
<1>7. v[1].head \in FiniteCtors(t) /\ v[1].head \in Heads(t)
  BY <1>2, <1>3, ValueParts
<1>8. PICK i \in DOMAIN m : v[1].head \in Covered(m[i], t)
  BY <1>6, <1>7 DEF Missing
<1> DEFINE p == m[i].comps[1]
<1>9. PICK x \in DOMAIN p : p[x].k = (IF Kind[t] = "bool" THEN "lit" ELSE "ctor") /\ p[x].name = v[1].head
  BY <1>4, <1>8 DEF Covered, Range
<1>10. Clause(s, m[i])[1] = Tests(s, p, 1) /\ DOMAIN Clause(s, m[i]) = {1}
  <2>1. m[i].tuple = s.tuple
    BY <1>4
  <2>2. /\ DOMAIN Clause(s, m[i]) = DOMAIN s.comps
        /\ \A j \in DOMAIN s.comps : Clause(s, m[i])[j] = Tests(s, m[i].comps[j], j)
    BY <2>1, ClauseOfTuple
  <2> QED
    BY <1>2, <2>2
<1>11. Const(p[x]) = InGo(v[1], t)
  <2>1. CASE Kind[t] = "bool"
    BY <1>2, <1>7, <1>9, <2>1, ConstIsHead DEF HasVariants
  <2>2. CASE Kind[t] = "sum"
    <3>1. HasVariants(t) /\ p[x].name \in Names(t) /\ p[x].k = "ctor"
      BY <1>3, <1>7, <1>9, <2>2 DEF HasVariants
    <3> QED
      BY <1>2, <1>7, <1>9, <3>1, ConstIsHead
  <2> QED
    BY <1>3, <2>1, <2>2
<1>12. Passes(s, Clause(s, m[i]), v)
  <2>1. CASE Untested(s, p, 1)
    BY <1>10, <2>1 DEF Passes, Tests
  <2>2. CASE ~Untested(s, p, 1)
    <3>1. Tests(s, p, 1) = [y \in DOMAIN p |-> Const(p[y])]
      BY <2>2 DEF Tests
    <3>2. InGo(v[1], t) \in Range(Tests(s, p, 1))
      BY <1>9, <1>11, <3>1 DEF Range
    <3> QED
      BY <1>10, <3>2 DEF Passes
  <2> QED
    BY <2>1, <2>2
<1> QED
  BY <1>1, <1>12
\* Go has compared every constant with the type of its component.
LEMMA ConstantsAreTyped ==
  ASSUME NEW s \in Subject, NEW m, GoBuilds(s, m, Clauses(s, m)), NEW i \in DOMAIN m,
         m[i].tuple = s.tuple, NEW j \in DOMAIN s.comps,
         ~Untested(s, m[i].comps[j], j), NEW x \in DOMAIN m[i].comps[j]
  PROVE  OfType(Const(m[i].comps[j][x]), s.comps[j])
<1>1. DOMAIN Clauses(s, m) = DOMAIN m /\ Clauses(s, m)[i] = Clause(s, m[i])
  BY DEF Clauses
<1>2. DOMAIN Clause(s, m[i]) = DOMAIN s.comps /\ Clause(s, m[i])[j] = Tests(s, m[i].comps[j], j)
  BY ClauseOfTuple
<1>3. Tests(s, m[i].comps[j], j) = [y \in DOMAIN m[i].comps[j] |-> Const(m[i].comps[j][y])]
  BY DEF Tests
<1>4. Const(m[i].comps[j][x]) \in Range(Clauses(s, m)[i][j])
  BY <1>1, <1>2, <1>3 DEF Range
<1> QED
  BY <1>1, <1>2, <1>4 DEF GoBuilds

LEMMA TypedConstant ==
  ASSUME NEW t \in Type, Kind[t] \in {"sum", "bool"}, NEW a, OfType(Const(a), t)
  PROVE  /\ Kind[t] = "sum"  => HasVariants(t) /\ a.k # "lit"
         /\ Kind[t] = "bool" => ~HasVariants(t) /\ a.k = "lit" /\ a.name \in {"true", "false"}
<1>1. CASE Kind[t] = "sum"
  <2>1. HasVariants(t) /\ DOMAIN Const(a) = {"tag"}
    BY <1>1 DEF OfType, HasVariants
  <2>2. {"lit"} # {"tag"}
    <3>1. "lit" # "tag"
      OBVIOUS
    <3> QED
      BY <3>1
  <2>3. a.k # "lit"
    BY <2>1, <2>2, ConstantsDiffer DEF Const
  <2> QED
    BY <1>1, <2>1, <2>3
<1>2. CASE Kind[t] = "bool"
  <2>1. ~HasVariants(t) /\ Const(a) \in [lit : {"true", "false"}]
    BY <1>2 DEF OfType, HasVariants
  <2>2. PICK y \in {"true", "false"} : Const(a) = [lit |-> y]
    BY <2>1
  <2>3. a.k = "lit"
    BY <2>2, ConstantsDiffer DEF Const
  <2>4. a.name = y
    BY <2>2, <2>3, ConstantsDiffer DEF Const
  <2> QED
    BY <1>2, <2>1, <2>3, <2>4
<1> QED
  BY <1>1, <1>2

\* The boolean constructors are the keywords.
LEMMA NamesOfBool ==
  ASSUME NEW t \in Type, Kind[t] = "bool"
  PROVE  Names(t) = {"true", "false"}
<1>1. Ctors[t] = <<"true", "false">>
  BY TypeAssumption
<1>2. Range(<<"true", "false">>) = {"true", "false"}
  BY DEF Range
<1> QED
  BY <1>1, <1>2 DEF Names

\* The one atom of a component that codegen tests, if Go compares it with the
\* component: it admits the constructor it names, and no other.
LEMMA TestedAtom ==
  ASSUME NEW s \in Subject, s.tuple, NEW j \in DOMAIN s.comps,
         FiniteCtors(s.comps[j]) # {}, NEW a,
         \/ a.k = "ident" /\ Refers(s, a, j)
         \/ a.k = "lit"
         \/ a.k = "ctor" /\ (Kind[s.comps[j]] = "sum" => IsVariant(a.name) /\ Owner(a.name) = s.comps[j]),
         OfType(Const(a), s.comps[j])
  PROVE  /\ Admits(a, s.comps[j]) = {a.name}
         /\ \/ a.k \in {"ident", "ctor"} /\ HasVariants(s.comps[j]) /\ a.name \in Names(s.comps[j])
            \/ a.k = "lit" /\ ~HasVariants(s.comps[j])
<1> DEFINE t == s.comps[j]
<1>1. t \in Type
  BY TypesOfSubject
<1>2. Kind[t] \in {"sum", "bool"} /\ FiniteCtors(t) = Names(t)
  BY <1>1, KindOfFinite
<1>3. CASE Kind[t] = "sum"
  <2>1. HasVariants(t) /\ a.k \in {"ident", "ctor"}
    BY <1>1, <1>2, <1>3, TypedConstant
  <2>2. IsVariant(a.name) /\ Owner(a.name) = t
    BY <1>3, <2>1 DEF Refers
  <2>3. a.name \in Names(t)
    <3>1. \E u \in Type : HasVariants(u) /\ a.name \in Names(u)
      BY <2>2 DEF IsVariant
    <3> QED
      BY <2>2, <3>1 DEF Owner
  <2> QED
    BY <1>2, <2>1, <2>3 DEF Admits
<1>4. CASE Kind[t] = "bool"
  <2>1. ~HasVariants(t) /\ a.k = "lit" /\ a.name \in Names(t)
    BY <1>1, <1>2, <1>4, TypedConstant, NamesOfBool
  <2> QED
    BY <1>2, <2>1 DEF Admits
<1> QED
  BY <1>2, <1>3, <1>4

LEMMA AdmittedOfOne ==
  ASSUME NEW p \in Seq(Atom), Len(p) = 1, NEW t
  PROVE  Admitted(p, t) = Admits(p[1], t) /\ DOMAIN p = {1}
<1>1. DOMAIN p = {1}
  <2>1. DOMAIN p = 1..1 /\ 1..1 = {1}
    OBVIOUS
  <2> QED
    BY <2>1
<1> QED
  BY <1>1 DEF Admitted

LEMMA TuplePanicsNever ==
  ASSUME NEW s \in Subject, s.tuple, Enumerable(s),
         NEW m \in Seq(Written[s]), Verdict(s, m) = "accepted", Lowerable(s, m),
         GoBuilds(s, m, Clauses(s, m)), NEW v \in Values(s)
  PROVE  ~IsTaken(s, Clauses(s, m), v, 0)
<1> SUFFICES ASSUME IsTaken(s, Clauses(s, m), v, 0) PROVE FALSE
  OBVIOUS
<1>1. \A i \in DOMAIN m : ~IsDefault(Clause(s, m[i])) /\ ~Passes(s, Clause(s, m[i]), v)
  <2>1. 0 \notin DOMAIN m
    OBVIOUS
  <2> QED
    BY <2>1, NoneTaken
<1>2. \A j \in DOMAIN s.comps : FiniteCtors(s.comps[j]) # {}
  BY DEF Enumerable
<1>3. \A i \in DOMAIN m : m[i].tuple /\ m[i].tuple = s.tuple /\ DOMAIN m[i].comps = DOMAIN s.comps
                          /\ Len(m[i].comps) = Len(s.comps)
  <2> SUFFICES ASSUME NEW i \in DOMAIN m
               PROVE  m[i].tuple /\ m[i].tuple = s.tuple /\ DOMAIN m[i].comps = DOMAIN s.comps
                      /\ Len(m[i].comps) = Len(s.comps)
    OBVIOUS
  <2>1. CanTest(s, m[i]) /\ m[i] \in Arm
    BY ArmsAreWritten DEF Lowerable
  <2>2. m[i].tuple
    BY <1>1, <2>1, WildIsDefault DEF CanTest, Alone
  <2>3. m[i].tuple = s.tuple /\ m[i].comps \in Seq(Seq(Atom))
    BY <2>1, <2>2, TypesOfSubject DEF Arm
  <2>4. Len(m[i].comps) = Len(s.comps)
    BY <2>1, <2>2 DEF CanTest
  <2> QED
    BY <2>2, <2>3, <2>4, TypesOfSubject
\* What codegen and Go make of a component, and what sema reads in it.
<1>4. ASSUME NEW i \in DOMAIN m, NEW j \in DOMAIN s.comps
      PROVE  LET a == m[i].comps[j][1]
                 t == s.comps[j]
             IN  /\ m[i].comps[j] \in Seq(Atom) /\ Len(m[i].comps[j]) = 1
                 /\ \/ /\ Untested(s, m[i].comps[j], j)
                       /\ Admits(a, t) # {}
                    \/ /\ ~Untested(s, m[i].comps[j], j)
                       /\ Admits(a, t) = {a.name}
                       /\ \/ a.k \in {"ident", "ctor"} /\ HasVariants(t) /\ a.name \in Names(t)
                          \/ a.k = "lit" /\ ~HasVariants(t)
  <2> DEFINE p == m[i].comps[j]
  <2> DEFINE a == m[i].comps[j][1]
  <2> DEFINE t == s.comps[j]
  <2>1. p \in Seq(Atom) /\ j \in DOMAIN m[i].comps
    BY <1>3, ArmsAreWritten
  <2>2. /\ Len(p) = 1
        /\ \/ a.k \in {"wild", "ident", "lit"}
           \/ a.k = "ctor" /\ IsVariant(a.name) /\ (Kind[t] = "sum" => Owner(a.name) = t)
    BY <1>3, <2>1 DEF Lowerable, CanTest
  <2>3. CASE Untested(s, p, j)
    <3>1. a.k = "wild" \/ a.k = "ident"
      BY <2>3 DEF Untested
    <3> QED
      BY <1>2, <2>1, <2>2, <2>3, <3>1 DEF Admits
  <2>4. CASE ~Untested(s, p, j)
    <3>1. \/ a.k = "ident" /\ Refers(s, a, j)
          \/ a.k = "lit"
          \/ a.k = "ctor" /\ (Kind[t] = "sum" => IsVariant(a.name) /\ Owner(a.name) = t)
      BY <2>2, <2>4 DEF Untested
    <3>2. 1 \in DOMAIN p
      BY <2>1, <2>2, AdmittedOfOne
    <3>3. OfType(Const(a), t)
      BY <1>3, <2>4, <3>2, ConstantsAreTyped
    <3> HIDE DEF p, a
    <3> QED
      BY <1>2, <2>1, <2>2, <2>4, <3>1, <3>3, TestedAtom DEF p, a
  <2> QED
    BY <2>3, <2>4
<1>5. \A i \in DOMAIN m : Modelled(s, m[i])
  <2> SUFFICES ASSUME NEW i \in DOMAIN m, NEW j \in DOMAIN s.comps
               PROVE  Admitted(m[i].comps[j], s.comps[j]) # {}
    BY <1>3 DEF Modelled
  <2>1. Admits(m[i].comps[j][1], s.comps[j]) # {}
    BY <1>4
  <2> QED
    BY <1>4, <2>1, AdmittedOfOne
<1> DEFINE c == [j \in DOMAIN s.comps |-> v[j].head]
<1>6. c \in Grid(s)
  <2>1. ASSUME NEW j \in DOMAIN s.comps
        PROVE  v[j].head \in FiniteCtors(s.comps[j])
    <3>1. v[j].head \in Heads(s.comps[j])
      BY ValueParts
    <3>2. s.comps[j] \in Type /\ FiniteCtors(s.comps[j]) # {}
      BY <1>2, TypesOfSubject
    <3>3. FiniteCtors(s.comps[j]) = Heads(s.comps[j])
      BY <3>2, KindOfFinite
    <3> QED
      BY <3>1, <3>3
  <2> QED
    BY <2>1 DEF Grid
<1>7. \A i \in DOMAIN m : ~IsCatchAll(m[i])
  BY <1>3 DEF IsCatchAll
<1>8. ~NonExhaustive(s, m)
  BY <1>7 DEF Verdict
<1>9. PICK i \in DOMAIN m : InRectangle(s, m[i], c)
  BY <1>5, <1>6, <1>8 DEF NonExhaustive
<1>10. ASSUME NEW j \in DOMAIN s.comps, ~Untested(s, m[i].comps[j], j)
       PROVE  InGo(v[j], s.comps[j]) \in Range(Tests(s, m[i].comps[j], j))
  <2> DEFINE a == m[i].comps[j][1]
  <2> DEFINE t == s.comps[j]
  <2>1. v[j].head \in Admitted(m[i].comps[j], t)
    BY <1>3, <1>9 DEF InRectangle
  <2>2. v[j].head = a.name
    <3>1. /\ m[i].comps[j] \in Seq(Atom) /\ Len(m[i].comps[j]) = 1
          /\ Admits(m[i].comps[j][1], s.comps[j]) = {m[i].comps[j][1].name}
      BY <1>4, <1>10
    <3>2. Admitted(m[i].comps[j], t) = {a.name}
      BY <3>1, AdmittedOfOne
    <3> QED
      BY <2>1, <3>2
  <2>3. t \in Type /\ v[j].head \in Heads(t)
    BY TypesOfSubject, ValueParts
  <2>4. \/ a.k \in {"ident", "ctor"} /\ HasVariants(t) /\ a.name \in Names(t)
        \/ a.k = "lit" /\ ~HasVariants(t)
    BY <1>4, <1>10
  <2>5. Const(a) = InGo(v[j], t)
    <3> HIDE DEF a, t
    <3> QED
      BY <2>2, <2>3, <2>4, ConstIsHead
  <2>6. 1 \in DOMAIN m[i].comps[j]
    BY <1>4, AdmittedOfOne
  <2>7. Tests(s, m[i].comps[j], j) = [y \in DOMAIN m[i].comps[j] |-> Const(m[i].comps[j][y])]
    BY <1>10 DEF Tests
  <2> QED
    BY <2>5, <2>6, <2>7 DEF Range
<1>11. Passes(s, Clause(s, m[i]), v)
  <2>1. /\ DOMAIN Clause(s, m[i]) = DOMAIN s.comps
        /\ \A j \in DOMAIN s.comps : Clause(s, m[i])[j] = Tests(s, m[i].comps[j], j)
    BY <1>3, ClauseOfTuple
  <2>2. \A j \in DOMAIN s.comps : Untested(s, m[i].comps[j], j) => Tests(s, m[i].comps[j], j) = <<>>
    BY DEF Tests
  <2> QED
    BY <1>10, <2>1, <2>2 DEF Passes
<1> QED
  BY <1>1, <1>11

(* A match the checker accepts and Go builds has an arm for every value of *)
(* a subject the checker claims to check.                                  *)
THEOREM CheckedAlwaysRuns == Spec => []CheckedNeverPanics
<1>1. History => CheckedNeverPanics
  <2> SUFFICES ASSUME History, stage = "ran", IsChecked, ~Misread, taken = 0
               PROVE  FALSE
    BY DEF CheckedNeverPanics
  <2>1. subject \in Subject /\ arms \in Seq(Written[subject]) /\ value \in Values(subject)
    BY DEF History
  <2>2. /\ Verdict(subject, arms) = "accepted" /\ Lowerable(subject, arms)
        /\ code = Clauses(subject, arms) /\ GoBuilds(subject, arms, code)
        /\ IsTaken(subject, code, value, 0)
    BY DEF History
  <2>3. ~Misreads(subject, arms)
    BY DEF Misreads, Misread
  <2>4. CASE subject.tuple
    <3>1. Enumerable(subject)
      BY <2>4 DEF IsChecked
    <3> QED
      BY <2>1, <2>2, <2>4, <3>1, TuplePanicsNever
  <2>5. CASE ~subject.tuple
    <3>1. FiniteCtors(subject.comps[1]) # {}
      BY <2>5 DEF IsChecked
    <3> QED
      BY <2>1, <2>2, <2>3, <2>5, <3>1, OnePanicsNever
  <2> QED
    BY <2>4, <2>5
<1> QED
  BY <1>1, HistoryInvariant, PTL
-----------------------------------------------------------------------------
(* The clause that runs is that of the first arm that matches.             *)

\* WellTyped of one atom.
Fits(a, t) ==
  \/ Binds(a, t) /\ (IsVariant(a.name) => Kind[t] = "sum")
  \/ a.k \in {"ident", "ctor"} /\ Kind[t] # "bool" /\ a.name \in Names(t)
  \/ a.k = "lit" /\ Kind[t] \in {"bool", "open"} /\ a.name \in Heads(t)
  \/ a.k = "unit" /\ Kind[t] = "unit" /\ a.name \in Heads(t)

LEMMA VariantsOfType ==
  ASSUME NEW t \in Type, NEW n \in Names(t), Kind[t] # "bool"
  PROVE  HasVariants(t) /\ IsVariant(n) /\ Owner(n) = t
<1>1. Kind[t] \notin {"unit", "open"}
  BY TypeAssumption DEF Names, Range
<1>2. HasVariants(t)
  BY <1>1, TypeAssumption DEF HasVariants
<1> QED
  BY <1>2, OwnerIsType

\* A component's tests pass for the values its pattern matches.
LEMMA ComponentAgrees ==
  ASSUME NEW s \in Subject, NEW j \in DOMAIN s.comps,
         NEW p \in Seq(Atom), NEW v, v.head \in Heads(s.comps[j]),
         \A x \in DOMAIN p : /\ p[x].sub # "test"
                             /\ p[x].k \in {"wild", "ident", "unit"} => Len(p) = 1
                             /\ p[x].k = "ident" => s.tuple
                             /\ p[x].k = "unit" => ~s.tuple
                             /\ Fits(p[x], s.comps[j])
  PROVE  (Tests(s, p, j) # <<>> => InGo(v, s.comps[j]) \in Range(Tests(s, p, j)))
           <=> p = <<>> \/ \E x \in DOMAIN p : MatchesAtom(p[x], v, s.comps[j])
<1> DEFINE t == s.comps[j]
<1>1. t \in Type
  BY TypesOfSubject
<1>2. CASE Untested(s, p, j)
  <2>1. Tests(s, p, j) = <<>>
    BY <1>2 DEF Tests
  <2>2. /\ 1 \in DOMAIN p
        /\ p[1].k \in {"wild", "unit"} \/ (p[1].k = "ident" /\ ~Refers(s, p[1], j))
    BY <1>2, AdmittedOfOne DEF Untested
  <2>3. Binds(p[1], t) \/ p[1].k = "unit"
    <3>1. SUFFICES ASSUME p[1].k = "ident", p[1].name \in Names(t)
                   PROVE  FALSE
      BY <2>2 DEF Binds
    <3>2. Kind[t] # "bool"
      BY <2>2, <3>1 DEF Fits, Binds
    <3>3. IsVariant(p[1].name) /\ Owner(p[1].name) = t
      BY <1>1, <3>1, <3>2, VariantsOfType
    <3> QED
      BY <2>2, <3>1, <3>3 DEF Refers
  <2>4. p[1].k = "unit" => MatchesAtom(p[1], v, t)
    <3> SUFFICES ASSUME p[1].k = "unit" PROVE MatchesAtom(p[1], v, t)
      OBVIOUS
    <3>1. Kind[t] = "unit" /\ p[1].name \in Heads(t) /\ p[1].sub # "test"
      BY <2>2 DEF Fits, Binds
    <3>2. Heads(t) = {"()"}
      BY <3>1 DEF Heads
    <3> QED
      BY <3>1, <3>2 DEF MatchesAtom
  <2> QED
    BY <2>1, <2>2, <2>3, <2>4 DEF MatchesAtom
<1>3. CASE ~Untested(s, p, j)
  <2>1. Tests(s, p, j) = [x \in DOMAIN p |-> Const(p[x])]
    BY <1>3 DEF Tests
  <2>2. ASSUME NEW x \in DOMAIN p
        PROVE  Const(p[x]) = InGo(v, t) <=> MatchesAtom(p[x], v, t)
    <3>1. p[x].k \in {"wild", "ident", "unit"} => x = 1 /\ Len(p) = 1
      <4>1. Len(p) = 1 => DOMAIN p = {1}
        BY AdmittedOfOne
      <4> QED
        BY <4>1
    <3>2. p[x].k \notin {"wild", "unit"}
      BY <1>3, <3>1 DEF Untested
    <3>3. p[x].k = "ident" => Refers(s, p[x], j) /\ s.tuple
      BY <1>3, <3>1 DEF Untested
    <3>4. ~Binds(p[x], t)
      <4>1. SUFFICES ASSUME Binds(p[x], t) PROVE FALSE
        OBVIOUS
      <4>2. p[x].k = "ident" /\ p[x].name \notin Names(t)
        BY <3>2, <4>1 DEF Binds
      <4>3. IsVariant(p[x].name)
        BY <3>3, <4>2 DEF Refers
      <4>4. Kind[t] = "sum"
        BY <4>2, <4>3 DEF Fits
      <4>5. Owner(p[x].name) = t
        BY <3>3, <4>2, <4>4 DEF Refers
      <4>6. \E u \in Type : HasVariants(u) /\ p[x].name \in Names(u)
        BY <4>3 DEF IsVariant
      <4>7. p[x].name \in Names(Owner(p[x].name))
        BY <4>6 DEF Owner
      <4> QED
        BY <4>2, <4>5, <4>7
    <3>5. \/ p[x].k \in {"ident", "ctor"} /\ HasVariants(t) /\ p[x].name \in Names(t)
          \/ p[x].k = "lit" /\ ~HasVariants(t)
      <4>1. CASE p[x].k \in {"ident", "ctor"} /\ Kind[t] # "bool" /\ p[x].name \in Names(t)
        BY <1>1, <4>1, VariantsOfType
      <4>2. CASE p[x].k = "lit" /\ Kind[t] \in {"bool", "open"}
        BY <4>2 DEF HasVariants
      <4> QED
        BY <3>2, <3>4, <4>1, <4>2 DEF Fits
    <3>6. Const(p[x]) = InGo(v, t) <=> v.head = p[x].name
      <4> HIDE DEF t
      <4>1. v.head \in Heads(t)
        BY DEF t
      <4> QED
        BY <1>1, <3>5, <4>1, ConstIsHead
    <3>7. MatchesAtom(p[x], v, t) <=> v.head = p[x].name
      BY <3>4, <3>5 DEF MatchesAtom
    <3> QED
      BY <3>6, <3>7
  <2>3. p = <<>> <=> Tests(s, p, j) = <<>>
    <3>1. p = <<>> <=> DOMAIN p = {}
      OBVIOUS
    <3>2. Tests(s, p, j) = <<>> <=> DOMAIN p = {}
      BY <2>1
    <3> QED
      BY <3>1, <3>2
  <2> QED
    BY <2>1, <2>2, <2>3 DEF Range
<1> QED
  BY <1>2, <1>3

\* WellTyped, of the subject given.
TypesOK(s, arm) ==
  \/ IsCatchAll(arm)
  \/ /\ arm.tuple = s.tuple /\ Len(arm.comps) = Len(s.comps)
     /\ \A j \in DOMAIN arm.comps : \A x \in DOMAIN arm.comps[j] : Fits(arm.comps[j][x], s.comps[j])

\* What codegen lowers has no sub-pattern it would have to test, and no
\* name for a value outside of tuples unless it is misread.
LEMMA LoweredAtoms ==
  ASSUME NEW s \in Subject, NEW m \in Seq(Written[s]), ~Misreads(s, m), Lowerable(s, m),
         NEW i \in DOMAIN m, ~IsCatchAll(m[i]), m[i].tuple = s.tuple,
         NEW j \in DOMAIN m[i].comps, NEW x \in DOMAIN m[i].comps[j]
  PROVE  LET p == m[i].comps[j]
         IN  /\ p[x].sub # "test"
             /\ p[x].k \in {"wild", "ident", "unit"} => Len(p) = 1
             /\ p[x].k = "ident" => s.tuple
             /\ p[x].k = "unit" => ~s.tuple
<1> DEFINE p == m[i].comps[j]
<1>1. p \in Seq(Atom) /\ IsWritten(p) /\ m[i] \in Arm /\ (~m[i].tuple => Len(m[i].comps) = 1)
  BY ArmsAreWritten
<1>2. p[x].k # "ctor" => p[x].sub # "test"
  BY <1>1 DEF IsWritten
<1>3. CASE s.tuple
  <2>1. CanTest(s, m[i]) /\ m[i].tuple
    BY <1>3 DEF Lowerable
  <2>2. Len(p) = 1 /\ p[1].k # "unit" /\ (p[1].k = "ctor" => Bindable(p[1]))
    BY <2>1 DEF CanTest
  <2>3. x = 1
    BY <1>1, <2>2, AdmittedOfOne
  <2> QED
    BY <1>2, <1>3, <2>2, <2>3 DEF Bindable
<1>4. CASE ~s.tuple
  <2>1. CanHead(m[i]) /\ ~m[i].tuple
    BY <1>4 DEF Lowerable, CanHead
  <2>2. j = 1
    <3>1. m[i].comps \in Seq(Seq(Atom)) /\ Len(m[i].comps) = 1
      BY <1>1, <2>1 DEF Arm
    <3>2. DOMAIN m[i].comps = 1..1
      BY <3>1
    <3> QED
      BY <3>2
  <2>3. ~Alone(m[i], {"wild"})
    BY <2>1 DEF IsCatchAll, Alone
  <2>4. \/ p[x].k = "lit"
        \/ p[x].k = "unit" /\ Len(p) = 1
        \/ p[x].k = "ident" /\ IsVariant(p[x].name)
        \/ p[x].k = "ctor" /\ Bindable(p[x])
    <3>1. CASE Alone(m[i], {"wild", "unit"})
      <4>1. Len(p) = 1 /\ p[1].k = "unit"
        BY <2>2, <2>3, <3>1 DEF Alone
      <4>2. x = 1
        BY <1>1, <4>1, AdmittedOfOne
      <4> QED
        BY <4>1, <4>2
    <3>2. CASE ~Alone(m[i], {"wild", "unit"})
      BY <2>1, <2>2, <3>2 DEF CanHead
    <3> QED
      BY <3>1, <3>2
  <2>5. ~(p[x].k = "ident" /\ IsVariant(p[x].name))
    BY <1>4, <2>2 DEF Misreads
  <2> QED
    BY <1>2, <1>4, <2>4, <2>5 DEF Bindable
<1> QED
  BY <1>3, <1>4

LEMMA ClauseAgrees ==
  ASSUME NEW s \in Subject, NEW m \in Seq(Written[s]), ~Misreads(s, m), Lowerable(s, m),
         NEW i \in DOMAIN m, TypesOK(s, m[i]), NEW v \in Values(s)
  PROVE  Passes(s, Clause(s, m[i]), v) <=> Matches(s, m[i], v)
<1>1. /\ m[i] \in Arm /\ (~m[i].tuple => Len(m[i].comps) = 1)
      /\ \A j \in DOMAIN m[i].comps : m[i].comps[j] \in Seq(Atom) /\ IsWritten(m[i].comps[j])
  BY ArmsAreWritten
<1>2. CASE IsCatchAll(m[i])
  <2>1. Matches(s, m[i], v)
    BY <1>2, CatchAllMatches
  <2>2. IsDefault(Clause(s, m[i]))
    <3>1. CASE s.tuple
      <4>1. m[i].tuple # s.tuple
        BY <1>2, <3>1 DEF IsCatchAll
      <4> QED
        BY <4>1 DEF Clause, IsDefault
    <3>2. CASE ~s.tuple
      <4>1. m[i].tuple = s.tuple /\ m[i].comps \in Seq(Seq(Atom))
        BY <1>1, <1>2, <3>2, TypesOfSubject DEF IsCatchAll, Arm
      <4>2. 1 \in DOMAIN m[i].comps
        <5>1. Len(m[i].comps) = 1
          BY <1>1, <1>2 DEF IsCatchAll
        <5> QED
          BY <4>1, <5>1
      <4>3. Len(m[i].comps[1]) = 1 /\ m[i].comps[1][1].k \in {"wild", "ident"}
        BY <1>2 DEF IsCatchAll, Alone
      <4>4. 1 \in DOMAIN m[i].comps[1]
        BY <1>1, <4>2, <4>3, AdmittedOfOne
      <4>5. m[i].comps[1][1].k = "ident" => ~IsVariant(m[i].comps[1][1].name)
        BY <3>2, <4>4 DEF Misreads
      <4>6. Untested(s, m[i].comps[1], 1)
        BY <4>3, <4>5 DEF Untested, Refers
      <4>7. Tests(s, m[i].comps[1], 1) = <<>>
        BY <4>6 DEF Tests
      <4> QED
        BY <3>2, <4>1, <4>7, ClauseOfTuple, TypesOfSubject DEF IsDefault
    <3> QED
      BY <3>1, <3>2
  <2>3. Passes(s, Clause(s, m[i]), v)
    BY <2>2 DEF Passes, IsDefault
  <2> QED
    BY <2>1, <2>3
<1>3. CASE ~IsCatchAll(m[i])
  <2>1. /\ m[i].tuple = s.tuple /\ Len(m[i].comps) = Len(s.comps)
        /\ \A j \in DOMAIN m[i].comps : \A x \in DOMAIN m[i].comps[j] :
             Fits(m[i].comps[j][x], s.comps[j])
    BY <1>3 DEF TypesOK
  <2>2. DOMAIN m[i].comps = DOMAIN s.comps
    BY <1>1, <2>1, TypesOfSubject DEF Arm
  <2>3. ASSUME NEW j \in DOMAIN s.comps
        PROVE  (Tests(s, m[i].comps[j], j) # <<>> =>
                  InGo(v[j], s.comps[j]) \in Range(Tests(s, m[i].comps[j], j)))
                 <=> \E x \in DOMAIN m[i].comps[j] : MatchesAtom(m[i].comps[j][x], v[j], s.comps[j])
    <3> DEFINE p == m[i].comps[j]
    <3>1. p \in Seq(Atom) /\ p # <<>>
      BY <1>1, <2>2 DEF IsWritten
    <3>2. \A x \in DOMAIN p : /\ p[x].sub # "test"
                              /\ p[x].k \in {"wild", "ident", "unit"} => Len(p) = 1
                              /\ p[x].k = "ident" => s.tuple
                              /\ p[x].k = "unit" => ~s.tuple
                              /\ Fits(p[x], s.comps[j])
      BY <1>3, <2>1, <2>2, LoweredAtoms
    <3>3. v[j].head \in Heads(s.comps[j])
      BY ValueParts
    <3> HIDE DEF p
    <3>4. (Tests(s, p, j) # <<>> => InGo(v[j], s.comps[j]) \in Range(Tests(s, p, j)))
            <=> p = <<>> \/ \E x \in DOMAIN p : MatchesAtom(p[x], v[j], s.comps[j])
      BY <3>1, <3>2, <3>3, ComponentAgrees
    <3> QED
      BY <3>1, <3>4 DEF p
  <2>4. /\ DOMAIN Clause(s, m[i]) = DOMAIN s.comps
        /\ \A j \in DOMAIN s.comps : Clause(s, m[i])[j] = Tests(s, m[i].comps[j], j)
    BY <2>1, ClauseOfTuple
  <2>5. Passes(s, Clause(s, m[i]), v) <=>
          \A j \in DOMAIN s.comps : Tests(s, m[i].comps[j], j) # <<>> =>
            InGo(v[j], s.comps[j]) \in Range(Tests(s, m[i].comps[j], j))
    BY <2>4 DEF Passes
  <2>6. Matches(s, m[i], v) <=>
          \A j \in DOMAIN s.comps : \E x \in DOMAIN m[i].comps[j] :
            MatchesAtom(m[i].comps[j][x], v[j], s.comps[j])
    BY <2>1, <2>2 DEF Matches
  <2> QED
    BY <2>3, <2>5, <2>6
<1> QED
  BY <1>2, <1>3

(* If no clause stands behind the default, the first arm that matches runs.*)
THEOREM OrderedRunsFirstMatch == Spec => []RunsFirstMatchOfOrdered
<1>1. History => RunsFirstMatchOfOrdered
  <2> SUFFICES ASSUME History, stage = "ran", ~Misread,
                      \A i \in DOMAIN code : IsDefault(code[i]) => i = Len(code),
                      \A i \in DOMAIN arms : WellTyped(arms[i])
               PROVE  FirstMatch(taken)
    BY DEF RunsFirstMatchOfOrdered, RunsFirstMatch
  <2>1. subject \in Subject /\ arms \in Seq(Written[subject]) /\ value \in Values(subject)
    BY DEF History
  <2>2. /\ Lowerable(subject, arms) /\ code = Clauses(subject, arms)
        /\ IsTaken(subject, code, value, taken) /\ taken \in 0..Len(code)
    BY DEF History
  <2>3. ~Misreads(subject, arms) /\ \A i \in DOMAIN arms : TypesOK(subject, arms[i])
    BY DEF Misreads, Misread, WellTyped, TypesOK, Fits
  <2>4. DOMAIN code = DOMAIN arms /\ Len(code) = Len(arms) /\ DOMAIN arms = 1..Len(arms)
    BY <2>1, <2>2, ClausesLen
  <2>5. \A i \in DOMAIN arms : code[i] = Clause(subject, arms[i])
    BY <2>2 DEF Clauses
  <2>6. \A i \in DOMAIN arms : Passes(subject, code[i], value) <=> Matches(subject, arms[i], value)
    BY <2>1, <2>2, <2>3, <2>5, ClauseAgrees
  <2>7. Len(arms) \in Nat /\ taken \in 0..Len(arms)
    BY <2>1, <2>2, <2>4
  <2>8. \A k \in 1..(taken - 1) : k \in DOMAIN arms /\ ~IsDefault(code[k])
    BY <2>4, <2>7
  <2>9. CASE taken \in Cases(subject, code, value) /\ \A k \in Cases(subject, code, value) : taken =< k
    <3>1. taken \in DOMAIN arms /\ taken # 0 /\ Matches(subject, arms[taken], value)
      BY <2>4, <2>6, <2>9 DEF Cases
    <3>2. \A k \in 1..(taken - 1) : ~(taken =< k)
      BY <2>7
    <3>3. \A k \in 1..(taken - 1) : ~Passes(subject, code[k], value)
      BY <2>4, <2>8, <2>9, <3>2 DEF Cases
    <3> QED
      BY <2>6, <2>8, <3>1, <3>3 DEF FirstMatch
  <2>10. CASE Cases(subject, code, value) = {} /\ taken \in DOMAIN code /\ IsDefault(code[taken])
    <3>1. Passes(subject, code[taken], value)
      BY <2>10 DEF Passes, IsDefault
    <3>2. taken \in DOMAIN arms /\ taken # 0 /\ Matches(subject, arms[taken], value)
      BY <2>4, <2>6, <2>10, <3>1
    <3>3. \A k \in 1..(taken - 1) : ~Passes(subject, code[k], value)
      BY <2>4, <2>8, <2>10 DEF Cases
    <3> QED
      BY <2>6, <2>8, <3>2, <3>3 DEF FirstMatch
  <2>11. CASE /\ Cases(subject, code, value) = {}
              /\ taken = 0 /\ \A k \in DOMAIN code : ~IsDefault(code[k])
    <3>1. \A k \in DOMAIN arms : ~Passes(subject, code[k], value)
      BY <2>4, <2>11 DEF Cases
    <3> QED
      BY <2>6, <2>11, <3>1 DEF FirstMatch
  <2> QED
    BY <2>2, <2>9, <2>10, <2>11 DEF IsTaken
<1> QED
  BY <1>1, HistoryInvariant, PTL

(* A checked match runs the arm that the source says, whatever the types,  *)
(* and a panic stands behind it exactly if it has no default.              *)
THEOREM AlwaysRunsRightArm == Spec => []RunsRightArm
<1>1. CheckedNeverPanics /\ RunsFirstMatchOfOrdered /\ GuardOrDefault => RunsRightArm
  BY DEF RunsRightArm
<1> QED
  BY <1>1, CheckedAlwaysRuns, OrderedRunsFirstMatch, GuardAlwaysRight, PTL

-----------------------------------------------------------------------------
(* Dispatch: the types that occur in chains of calls.                      *)


(* The types that occur.                                                   *)
Kinds == {"int", "bool", "unit", "string", "Class", "Option", "Result", "Slice", "Map",
          "Set", "Stack", "Channel", "SendChan", "RecvChan", "Duration"}
Receives == {"Channel", "RecvChan"}
Named(t) == t[1] = "Class" => t = TheCalls!Class
Element(t) ==
  t[1] \in Kinds /\ Named(t) /\ (t[1] \in Receives => t[2] = TheCalls!Scalar)
Typed(t) ==
  /\ t[1] \in Kinds /\ Named(t) /\ (t[1] \in Receives => Element(t[2]))
  \/ t = <<"Handle">>

LEMMA ElementTyped ==
  ASSUME NEW t, Element(t)
  PROVE  Typed(t) /\ t[1] # "Handle"
<1>1. Element(TheCalls!Scalar)
  BY DEF Element, Kinds, Receives, Named, TheCalls!Scalar
<1> QED
  BY <1>1 DEF Element, Typed, Kinds, Receives

LEMMA TypedKinds ==
  ASSUME NEW t, Typed(t)
  PROVE  /\ t[1] \in Kinds \cup {"Handle"}
         /\ t # TheCalls!NoGo /\ t # TheCalls!Unknown /\ t # TheCalls!Composite
         /\ t[1] = "Class" => t = TheCalls!Class
         /\ t[1] = "Handle" => t = <<"Handle">>
         /\ t[1] \in Receives => Element(t[2])
  BY DEF Typed, Kinds, TheCalls!NoGo, TheCalls!Unknown, TheCalls!Composite, Receives, Named

LEMMA ResultsTyped ==
  ASSUME NEW t, Typed(t), NEW m \in TheCalls!MethodsOf(t[1])
  PROVE  /\ Typed(TheCalls!MethodType(t, m)) /\ TheCalls!MethodType(t, m)[1] # "Handle"
         /\ TheCalls!MethodType(t, m) = TheCalls!ResultOf(t, m)
         /\ m \in TheCalls!AllMethods
<1>1. TheCalls!MethodType(t, m) = TheCalls!ResultOf(t, m)
  BY DEF TheCalls!MethodType
<1>2. m \in TheCalls!AllMethods
  BY DEF TheCalls!MethodsOf, TheCalls!AllMethods, TheCalls!ClassMethods, TheCalls!HandleMethods
<1>3. Element(TheCalls!ResultOf(t, m)) \/ (TheCalls!ResultOf(t, m) = t /\ t[1] = "Slice")
  <2>1. CASE t[1] = "Class"
    <3>1. TheCalls!ResultOf(t, m) \in {<<"string">>, TheCalls!Class}
      BY <2>1 DEF TheCalls!ResultOf
    <3>2. Element(<<"string">>) /\ Element(TheCalls!Class)
      BY DEF Element, Kinds, Receives, Named, TheCalls!Class
    <3> QED
      BY <3>1, <3>2
  <2>2. CASE t[1] # "Class" /\ m = "recv"
    <3>1. t[1] \in Receives
      BY <2>2 DEF TheCalls!MethodsOf, Receives, TheCalls!HandleMethods
    <3> QED
      BY <2>2, <3>1, TypedKinds DEF TheCalls!ResultOf
  <2>3. CASE t[1] # "Class" /\ m # "recv"
    <3>1. m = "copy" => t[1] = "Slice"
      BY <2>3 DEF TheCalls!MethodsOf, TheCalls!HandleMethods
    <3> QED
      BY <2>3, <3>1 DEF TheCalls!ResultOf, Element, Kinds, Receives, Named, TheCalls!Scalar, TheCalls!Slice, TheCalls!Class
  <2> QED
    BY <2>1, <2>2, <2>3
<1>4. CASE Element(TheCalls!ResultOf(t, m))
  BY <1>1, <1>2, <1>4, ElementTyped
<1>5. CASE TheCalls!ResultOf(t, m) = t /\ t[1] = "Slice"
  BY <1>1, <1>2, <1>5
<1> QED
  BY <1>3, <1>4, <1>5

(* The invariant.                                                          *)
Size == Len(calls)
Known == root.form = "variable" /\ root.known

RootOK ==
  /\ root.form \in {"variable", "call", "field", "literal", "product"}
  /\ root.name \in {"plain"} \cup TheCalls!ModuleNames
  /\ root.known \in BOOLEAN
  /\ Typed(root.type)
  /\ root.form # "variable" => root.name = "plain" /\ (root.known \/ root.form = "product")
  /\ root.form = "literal" => root.type = TheCalls!Class
  /\ root.form = "product" => root.type = <<"Duration">>


AllTyped == \A i \in DOMAIN types : Typed(types[i])
IsSequence(s) == \E S : s \in Seq(S)
HasEffects == \/ root.form \in {"call", "literal"}
              \/ \E i \in 1 .. Size : calls[i] \in TheCalls!Effectful
\* The source, and the types of its parts.
SourceOK ==
  /\ calls \in Seq(TheCalls!AllMethods \cup {"parens"})
  /\ IsSequence(types)
  /\ Len(types) = Size + 1
  /\ types[1] = root.type
  /\ AllTyped
  /\ divides => TheCalls!Type = <<"Duration">>
  /\ ~HasEffects => source.effects = <<>>

\* What the checker knows of the whole.
SemaOK ==
  /\ typed \in {TheCalls!Type, TheCalls!Unknown}
  /\ Size = 0 => typed = IF root.known THEN TheCalls!Type ELSE TheCalls!Unknown
  /\ TheCalls!Type = <<"Handle">> => typed = IF root.known THEN TheCalls!Type ELSE TheCalls!Unknown

\* A received channel, to which the prefix is still open.
Received == Size = 1 /\ calls[1] = "recv" /\ Known

\* A send, which is a statement.
Sent == Size = 1 /\ calls[1] = "send" /\ Known /\ types[1][1] \in TheCalls!Channels

\* The text: what is open in front of it, and that what Go refuses stays refused.
TextOK ==
  /\ text.ident \in BOOLEAN /\ (text.ident <=> Size = 0 /\ root.form = "variable")
  /\ text.product \in BOOLEAN /\ (text.product <=> Size = 0 /\ root.form = "product")
  /\ text.send \in BOOLEAN /\ (text.send <=> Sent)
  /\ text.prefix \in {"none", "address", "receive"}
  /\ Size = 0 /\ root.form = "literal" => text.prefix = "address" /\ text.core.type = TheCalls!Composite
  /\ Size = 0 /\ root.form # "literal" => text.prefix = "none" /\ text.core.type = root.type
  /\ Received => text.prefix = "receive" /\ text.core.type = root.type /\ root.type[1] \in Receives
  /\ text.prefix = "address" /\ text.core.type # TheCalls!NoGo => Size = 0 /\ root.form = "literal"
  /\ text.prefix = "receive" /\ text.core.type # TheCalls!NoGo => Received
  /\ TheCalls!GoAccepts => TheCalls!Whole(text).type = TheCalls!Type
  /\ ~TheCalls!GoAccepts => text.core.type = TheCalls!NoGo

AcceptsOK == TheCalls!GoAccepts <=> \A i \in 1 .. Size : ~TheCalls!RefusedFor(i)
RunsOK ==
  TheCalls!GoAccepts /\ ~TheCalls!CopiesEffects /\ ~TheCalls!ConvertsArgument =>
    TheCalls!Whole(text).effects = source.effects /\ TheCalls!Whole(text).value = source.value

CallInv == RootOK /\ SourceOK /\ SemaOK /\ TextOK /\ AcceptsOK /\ RunsOK

-----------------------------------------------------------------------------
(* One call.                                                               *)

\* What RefusedFor says of the call that comes next.
Refuses(m) ==
  LET named  == text.ident /\ root.name \in TheCalls!ModuleNames
      judged == text.ident /\ root.known
  IN \/ /\ ~named /\ m \in TheCalls!ShortcutNames
        /\ \/ TheCalls!Type = TheCalls!Class
           \/ TheCalls!Type[1] \in TheCalls!Containers /\ ~judged
     \/ TheCalls!Type = <<"Handle">> /\ ~root.known
     \/ TheCalls!Type[1] \in TheCalls!Channels /\ ~judged
     \/ /\ named
        /\ \/ TheCalls!Type[1] \in {"Slice", "string"}
           \/ TheCalls!Type = TheCalls!Class /\ <<root.name, m>> \in {<<"strings", "split">>, <<"strconv", "atoi">>}
     \/ /\ m \notin TheCalls!ShortcutNames \ {"copy"}
        /\ Received \/ (Size = 0 /\ root.form = "literal")

\* A text that Go refuses, whatever follows it.
Fails(u) == u.prefix \in {"none", "address", "receive"} /\ u.core.type = TheCalls!NoGo /\ TheCalls!Whole(u).type = TheCalls!NoGo
\* One that does what the call means, but for the copies and conversions.
Works(m, u) ==
  /\ TheCalls!Whole(u).type = TheCalls!MethodType(TheCalls!Type, m)
  /\ \/ u.prefix = "none" /\ ~(m = "recv" /\ Size = 0 /\ Known)
     \/ /\ u.prefix = "receive" /\ m = "recv" /\ Size = 0 /\ Known
        /\ u.core.type = root.type /\ root.type[1] \in Receives
  /\ \/ text.ident /\ root.name = "strings" /\ m = "fromBytes"
     \/ /\ TheCalls!Whole(u).value = <<m, TheCalls!Whole(text).value>>
        /\ \/ TheCalls!Whole(u).effects = TheCalls!Does(m, TheCalls!Whole(text)).effects
           \/ m = "copy" /\ TheCalls!Whole(u).effects = TheCalls!Whole(text).effects \o TheCalls!Whole(text).effects

Outcome(m, u) ==
  /\ u.ident = FALSE /\ u.product = FALSE
  /\ \/ (~TheCalls!GoAccepts \/ Refuses(m)) /\ Fails(u)
     \/ TheCalls!GoAccepts /\ ~Refuses(m) /\ Works(m, u)

LEMMA TypeIsTyped ==
  ASSUME SourceOK
  PROVE  /\ Typed(TheCalls!Type) /\ TheCalls!Type = types[Size + 1] /\ Size \in Nat
         /\ Size = 0 => TheCalls!Type = root.type
<1>1. TheCalls!Type = types[Size + 1] /\ Size \in Nat /\ Size + 1 \in DOMAIN types
      /\ (Size = 0 => TheCalls!Type = root.type)
  BY DEF SourceOK, TheCalls!Type, TheCalls!Last, Size, IsSequence
<1>2. Typed(types[Size + 1])
  BY <1>1, Zenon DEF SourceOK, AllTyped
<1> QED
  BY <1>1, <1>2, Zenon

\* Of an accepted text without an open prefix, the core is the whole.
LEMMA CoreIsWhole ==
  ASSUME RootOK, SourceOK, TextOK, TheCalls!GoAccepts
  PROVE  /\ \/ text.prefix = "none" /\ TheCalls!Whole(text) = text.core
            \/ text.prefix = "address" /\ Size = 0 /\ root.form = "literal" /\ text.core.type = TheCalls!Composite
            \/ text.prefix = "receive" /\ Received /\ text.core.type = root.type /\ root.type[1] \in Receives
         /\ text # TheCalls!Refused
         /\ TheCalls!Whole(text).type = TheCalls!Type
<1>1. TheCalls!Whole(TheCalls!Refused).type = TheCalls!NoGo
  BY DEF TheCalls!Whole, TheCalls!Refused, TheCalls!Text, TheCalls!GoExpr
<1>2. text # TheCalls!Refused
  BY <1>1 DEF TheCalls!GoAccepts
<1>3. text.prefix = "none" => TheCalls!Whole(text) = text.core
  BY DEF TheCalls!Whole
<1>4. text.core.type = TheCalls!NoGo => text.prefix = "none"
  BY DEF TheCalls!GoAccepts, TheCalls!Whole, TheCalls!GoReceive, TheCalls!GoAddress, TheCalls!GoExpr, TheCalls!NoGo, TheCalls!Composite, Receives
<1> QED
  BY <1>2, <1>3, <1>4 DEF TextOK, Received

\* A lowering that Go refuses.
LEMMA RefusedFails ==
  /\ Fails(TheCalls!Refused) /\ TheCalls!Refused.ident = FALSE /\ TheCalls!Refused.product = FALSE /\ TheCalls!Refused.send = FALSE
  BY DEF Fails, TheCalls!Whole, TheCalls!Refused, TheCalls!Text, TheCalls!GoExpr

LEMMA TextFields ==
  ASSUME NEW e
  PROVE  /\ TheCalls!Text(e).prefix = "none" /\ TheCalls!Text(e).ident = FALSE /\ TheCalls!Text(e).product = FALSE
         /\ TheCalls!Text(e).send = FALSE
         /\ TheCalls!Text(e).core = e /\ TheCalls!Whole(TheCalls!Text(e)) = e
  BY DEF TheCalls!Text, TheCalls!Whole

LEMMA GoExprFields ==
  ASSUME NEW t, NEW does
  PROVE  TheCalls!GoExpr(t, does).type = t /\ TheCalls!GoExpr(t, does).value = does.value
           /\ TheCalls!GoExpr(t, does).effects = does.effects
  BY DEF TheCalls!GoExpr

LEMMA DoesFields ==
  ASSUME NEW m, NEW e
  PROVE  TheCalls!Does(m, e).value = <<m, e.value>>
  BY DEF TheCalls!Does

\* An identifier stands alone, and is accepted.
LEMMA IdentAccepted ==
  ASSUME RootOK, SourceOK, TextOK, text.ident
  PROVE  /\ Size = 0 /\ root.form = "variable" /\ TheCalls!GoAccepts /\ text.prefix = "none"
         /\ TheCalls!Type = root.type /\ text.core.type = TheCalls!Type /\ TheCalls!Whole(text) = text.core
<1>1. Size = 0 /\ root.form = "variable" /\ text.prefix = "none" /\ text.core.type = root.type
  BY DEF TextOK
<1>2. TheCalls!Whole(text) = text.core /\ TheCalls!Type = root.type /\ Typed(TheCalls!Type)
  BY <1>1, TypeIsTyped DEF TheCalls!Whole
<1> QED
  BY <1>1, <1>2, TypedKinds DEF TheCalls!GoAccepts

LEMMA NamedBindingOutcome ==
  ASSUME CallInv, NEW m \in TheCalls!MethodsOf(TheCalls!Type[1]), NEW u \in TheCalls!NamedBinding(m)
  PROVE  Outcome(m, u)
<1>1. text.ident /\ root.name \in {"strings", "strconv"}
  BY DEF TheCalls!NamedBinding, TheCalls!IsNamed
<1>2. /\ Size = 0 /\ root.form = "variable" /\ TheCalls!GoAccepts /\ text.prefix = "none"
      /\ TheCalls!Type = root.type /\ text.core.type = TheCalls!Type /\ TheCalls!Whole(text) = text.core
  BY <1>1, IdentAccepted DEF CallInv
<1>3. Typed(TheCalls!Type)
  BY TypeIsTyped DEF CallInv
<1>4. m \in {"fromBytes", "atoi"}
  BY DEF TheCalls!NamedBinding, TheCalls!IsNamed
<1>5. TheCalls!Type = TheCalls!Class
  BY <1>3, <1>4, TypedKinds DEF TheCalls!MethodsOf, TheCalls!HandleMethods
<1>6. CASE root.name = "strings" /\ m = "fromBytes"
  <2>1. u = TheCalls!Text(TheCalls!GoConversion)
    BY <1>1, <1>6 DEF TheCalls!NamedBinding, TheCalls!IsNamed
  <2>a. TheCalls!Whole(u) = TheCalls!GoConversion /\ u.ident = FALSE /\ u.product = FALSE /\ u.prefix = "none"
    BY <2>1, TextFields
  <2>2. TheCalls!Whole(u).type = <<"string">>
    BY <2>a, GoExprFields DEF TheCalls!GoConversion
  <2>3. TheCalls!MethodType(TheCalls!Type, m) = <<"string">>
    BY <1>5, <1>6 DEF TheCalls!MethodType, TheCalls!ResultOf, TheCalls!MethodsOf, TheCalls!ClassMethods, TheCalls!Class
  <2>4. ~Refuses(m)
    BY <1>1, <1>2, <1>5, <1>6
       DEF Refuses, TheCalls!ShortcutNames, TheCalls!Class, TheCalls!Channels, TheCalls!ModuleNames, Received
  <2> QED
    BY <1>1, <1>2, <1>6, <2>a, <2>2, <2>3, <2>4 DEF Outcome, Works
<1>7. CASE root.name = "strconv" /\ m = "atoi"
  <2>1. u = TheCalls!Refused
    BY <1>1, <1>7 DEF TheCalls!NamedBinding, TheCalls!IsNamed
  <2>2. Refuses(m)
    BY <1>1, <1>5, <1>7 DEF Refuses, TheCalls!ModuleNames
  <2> QED
    BY <2>1, <2>2, RefusedFails DEF Outcome
<1> QED
  BY <1>6, <1>7, <1>1 DEF TheCalls!NamedBinding, TheCalls!IsNamed

LEMMA ChannelOperationOutcome ==
  ASSUME CallInv, NEW m \in TheCalls!MethodsOf(TheCalls!Type[1]), NEW u \in TheCalls!ChannelOperation(m)
  PROVE  Outcome(m, u)
<1>1. text.ident /\ typed[1] \in TheCalls!Channels
  BY DEF TheCalls!ChannelOperation
<1>2. /\ Size = 0 /\ root.form = "variable" /\ TheCalls!GoAccepts /\ text.prefix = "none"
      /\ TheCalls!Type = root.type /\ text.core.type = TheCalls!Type /\ TheCalls!Whole(text) = text.core
  BY <1>1, IdentAccepted DEF CallInv
<1>3. root.known /\ TheCalls!Type[1] \in TheCalls!Channels
  BY <1>1, <1>2 DEF CallInv, SemaOK, TheCalls!Unknown, TheCalls!Channels
<1>4. Typed(TheCalls!Type)
  BY TypeIsTyped DEF CallInv
<1>5. ~Refuses(m)
  BY <1>1, <1>2, <1>3
     DEF Refuses, Received, TheCalls!Channels, TheCalls!Containers, TheCalls!Class
<1>6. CASE m = "recv"
  <2>1. u = [TheCalls!Text(text.core) EXCEPT !.prefix = "receive"]
    BY <1>1, <1>6 DEF TheCalls!ChannelOperation
  <2>2. u.prefix = "receive" /\ u.core = text.core /\ u.ident = FALSE /\ u.product = FALSE
    BY <2>1 DEF TheCalls!Text
  <2>3. TheCalls!Type[1] \in Receives
    BY <1>3, <1>6 DEF TheCalls!MethodsOf, TheCalls!Channels, Receives
  <2>4. TheCalls!Whole(u) = TheCalls!GoExpr(TheCalls!Type[2], TheCalls!Does("recv", text.core))
    BY <1>2, <2>2, <2>3 DEF TheCalls!Whole, TheCalls!GoReceive, Receives
  <2>5. TheCalls!MethodType(TheCalls!Type, m) = TheCalls!Type[2]
    BY <1>6, <2>3 DEF TheCalls!MethodType, TheCalls!ResultOf, Receives
  <2>6. TheCalls!Whole(u).type = TheCalls!MethodType(TheCalls!Type, m) /\ TheCalls!Whole(u).value = <<m, TheCalls!Whole(text).value>>
          /\ TheCalls!Whole(u).effects = TheCalls!Does(m, TheCalls!Whole(text)).effects
    BY <1>2, <1>6, <2>4, <2>5, GoExprFields, DoesFields
  <2>7. u.prefix = "receive" /\ m = "recv" /\ Size = 0 /\ Known
          /\ u.core.type = root.type /\ root.type[1] \in Receives
    BY <1>2, <1>3, <1>6, <2>2, <2>3 DEF Known
  <2>8. Works(m, u)
    BY <2>6, <2>7 DEF Works
  <2> QED
    BY <1>2, <1>5, <2>2, <2>8 DEF Outcome
<1>7. CASE m \in {"send", "tryRecv", "close"}
  <2>1. \/ u = TheCalls!Text(TheCalls!GoBuiltin(TheCalls!Whole(text), m))
        \/ u = [TheCalls!Text(TheCalls!GoBuiltin(TheCalls!Whole(text), m)) EXCEPT !.send = TRUE]
    BY <1>1, <1>7 DEF TheCalls!ChannelOperation
  <2>2. TheCalls!Whole(u) = TheCalls!GoBuiltin(TheCalls!Whole(text), m) /\ u.prefix = "none" /\ u.ident = FALSE
          /\ u.product = FALSE
    BY <2>1 DEF TheCalls!Text, TheCalls!Whole
  <2>3. TheCalls!BuiltinType(TheCalls!Type, m) = TheCalls!MethodType(TheCalls!Type, m)
    BY <1>3, <1>7 DEF TheCalls!BuiltinType, TheCalls!MethodType, TheCalls!ResultOf, TheCalls!MethodsOf, TheCalls!Channels
  <2>4. TheCalls!Whole(u).type = TheCalls!MethodType(TheCalls!Type, m) /\ TheCalls!Whole(u).value = <<m, TheCalls!Whole(text).value>>
          /\ TheCalls!Whole(u).effects = TheCalls!Does(m, TheCalls!Whole(text)).effects
    BY <1>2, <2>2, <2>3, GoExprFields, DoesFields DEF TheCalls!GoBuiltin
  <2>5. Works(m, u)
    BY <1>7, <2>2, <2>4 DEF Works
  <2> QED
    BY <1>2, <1>5, <2>2, <2>5 DEF Outcome
<1>8. m \in {"recv", "send", "tryRecv", "close"}
  BY <1>1 DEF TheCalls!ChannelOperation
<1> QED
  BY <1>6, <1>7, <1>8

LEMMA FailsIfCoreDoes ==
  ASSUME NEW u, u.prefix \in {"none", "address", "receive"}, u.core.type = TheCalls!NoGo
  PROVE  Fails(u)
<1>1. TheCalls!NoGo[1] = "refused" /\ TheCalls!NoGo # TheCalls!Composite
  BY DEF TheCalls!NoGo, TheCalls!Composite
<1>2. TheCalls!Whole(u).type = TheCalls!NoGo
  BY <1>1, GoExprFields DEF TheCalls!Whole, TheCalls!GoReceive, TheCalls!GoAddress
<1> QED
  BY <1>2 DEF Fails

\* Types that have Go methods of the spelling x: exported or not.
Selectable(x) == TheCalls!Type[1] \in IF x THEN {"Handle"} ELSE TheCalls!Containers \cup {"Class"}

LEMMA SelectorOutcome ==
  ASSUME CallInv, NEW m \in TheCalls!MethodsOf(TheCalls!Type[1]), NEW x \in BOOLEAN
  PROVE  /\ TheCalls!Selector(text, m, x).ident = FALSE /\ TheCalls!Selector(text, m, x).product = FALSE
         /\ IF TheCalls!GoAccepts /\ text.prefix = "none" /\ Selectable(x)
              THEN Works(m, TheCalls!Selector(text, m, x))
              ELSE Fails(TheCalls!Selector(text, m, x))
<1> DEFINE u == TheCalls!Selector(text, m, x)
<1>1. /\ u.ident = FALSE /\ u.product = FALSE /\ u.prefix = text.prefix
      /\ u.core = TheCalls!GoSelect(text.core, m, x)
  BY DEF TheCalls!Selector, TheCalls!Text
<1>2. /\ u.core.type = IF m \in TheCalls!GoMethods(text.core.type) /\ (x <=> text.core.type[1] = "Handle")
                        THEN TheCalls!MethodType(text.core.type, m) ELSE TheCalls!NoGo
      /\ u.core.value = <<m, text.core.value>>
      /\ u.core.effects = TheCalls!Does(m, text.core).effects
  BY <1>1, GoExprFields, DoesFields DEF TheCalls!GoSelect
<1>3. text.prefix \in {"none", "address", "receive"}
  BY DEF CallInv, TextOK
<1>4. Typed(TheCalls!Type)
  BY TypeIsTyped DEF CallInv
<1> HIDE DEF u
<1>5. CASE TheCalls!GoAccepts /\ text.prefix = "none" /\ Selectable(x)
  <2>1. TheCalls!Whole(text) = text.core /\ text.core.type = TheCalls!Type
    BY <1>5, CoreIsWhole DEF CallInv
  <2>2. m \in TheCalls!GoMethods(TheCalls!Type) /\ (x <=> TheCalls!Type[1] = "Handle")
    BY <1>5 DEF TheCalls!GoMethods, Selectable, TheCalls!Containers
  <2>3. TheCalls!Whole(u) = u.core
    BY <1>1, <1>5 DEF TheCalls!Whole
  <2>4. m # "recv"
    BY <1>5 DEF TheCalls!MethodsOf, TheCalls!Containers, TheCalls!ClassMethods, TheCalls!HandleMethods, Selectable
  <2>5. Works(m, u)
    BY <1>1, <1>2, <1>5, <2>1, <2>2, <2>3, <2>4 DEF Works
  <2> QED
    BY <1>1, <1>5, <2>5 DEF u
<1>6. CASE ~(TheCalls!GoAccepts /\ text.prefix = "none" /\ Selectable(x))
  <2>1. TheCalls!GoMethods(text.core.type) = {} \/ ~(x <=> text.core.type[1] = "Handle")
    <3>1. CASE ~TheCalls!GoAccepts
      BY <3>1 DEF CallInv, TextOK, TheCalls!GoMethods, TheCalls!NoGo, TheCalls!Containers
    <3>2. CASE TheCalls!GoAccepts
      <4>1. \/ text.prefix = "none" /\ text.core.type = TheCalls!Type
            \/ text.core.type = TheCalls!Composite
            \/ text.core.type[1] \in Receives
        BY <3>2, CoreIsWhole DEF CallInv
      <4> QED
        BY <1>6, <3>2, <4>1, CoreIsWhole
           DEF CallInv, TheCalls!GoMethods, TheCalls!Containers, TheCalls!Composite, Receives, Selectable
    <3> QED
      BY <3>1, <3>2
  <2>2. Fails(u)
    BY <1>1, <1>2, <1>3, <2>1, FailsIfCoreDoes
  <2> QED
    BY <1>1, <1>6, <2>2 DEF u
<1> QED
  BY <1>5, <1>6

\* What stands behind an open prefix.
LEMMA OpenPrefixes ==
  ASSUME CallInv, TheCalls!GoAccepts, text.prefix # "none"
  PROVE  /\ ~text.ident
         /\ Received \/ (Size = 0 /\ root.form = "literal")
         /\ TheCalls!Type[1] # "Handle"
         /\ text.core.type[1] # "Slice"
<1>1. CASE text.prefix = "address" /\ Size = 0 /\ root.form = "literal"
  <2>1. TheCalls!Type = TheCalls!Class
    BY <1>1, TypeIsTyped DEF CallInv, RootOK
  <2> QED
    BY <1>1, <2>1 DEF CallInv, TextOK, TheCalls!Class, TheCalls!Composite
<1>2. CASE text.prefix = "receive" /\ Received /\ text.core.type = root.type
             /\ root.type[1] \in Receives
  <2>1. TheCalls!Whole(text).type = root.type[2]
    BY <1>2, GoExprFields DEF TheCalls!Whole, TheCalls!GoReceive, Receives
  <2>2. TheCalls!Type = root.type[2]
    BY <2>1, CoreIsWhole DEF CallInv
  <2>3. TheCalls!Type[1] # "Handle"
    BY <1>2, <2>2, TypedKinds, ElementTyped DEF CallInv, RootOK
  <2>4. ~text.ident
    BY <1>2 DEF CallInv, TextOK, Received
  <2>5. text.core.type[1] # "Slice"
    BY <1>2 DEF Receives
  <2> QED
    BY <1>2, <2>3, <2>4, <2>5
<1> QED
  BY <1>1, <1>2, CoreIsWhole DEF CallInv

LEMMA HandleMethodOutcome ==
  ASSUME CallInv, NEW m \in TheCalls!MethodsOf(TheCalls!Type[1]), NEW u \in TheCalls!HandleMethod(m)
  PROVE  Outcome(m, u)
<1>1. typed[1] = "Handle" /\ u = TheCalls!Selector(text, m, TRUE)
  BY DEF TheCalls!HandleMethod
<1>2. typed = TheCalls!Type /\ TheCalls!Type = <<"Handle">> /\ root.known
  <2>1. typed = TheCalls!Type
    BY <1>1 DEF CallInv, SemaOK, TheCalls!Unknown
  <2>2. TheCalls!Type = <<"Handle">>
    BY <1>1, <2>1, TypeIsTyped, TypedKinds DEF CallInv
  <2> QED
    BY <1>1, <2>1, <2>2 DEF CallInv, SemaOK, TheCalls!Unknown
<1>3. CASE TheCalls!GoAccepts
  <2>1. text.prefix = "none"
    BY <1>2, <1>3, OpenPrefixes
  <2>2. Works(m, u)
    BY <1>1, <1>2, <1>3, <2>1, SelectorOutcome DEF Selectable
  <2>3. ~Received /\ ~(Size = 0 /\ root.form = "literal")
    BY <2>1 DEF CallInv, TextOK
  <2>4. ~Refuses(m)
    BY <1>2, <2>3 DEF Refuses, TheCalls!Class, TheCalls!Containers, TheCalls!Channels
  <2> QED
    BY <1>1, <1>3, <2>2, <2>4, SelectorOutcome DEF Outcome
<1>4. CASE ~TheCalls!GoAccepts
  BY <1>1, <1>4, SelectorOutcome DEF Outcome
<1> QED
  BY <1>3, <1>4

\* A copy slices the core of its receiver.
LEMMA CopyFails ==
  ASSUME CallInv, text.core.type[1] # "Slice"
  PROVE  Fails(TheCalls!Shortcut("copy"))
<1> DEFINE sliced == [TheCalls!Text(TheCalls!GoEmpty(text.core)) EXCEPT !.prefix = text.prefix]
           copied == TheCalls!GoCopy(TheCalls!Whole(sliced), TheCalls!Whole(text))
<1>1. TheCalls!Shortcut("copy") = TheCalls!Text(copied)
  BY DEF TheCalls!Shortcut
<1>2. TheCalls!Whole(sliced).type = TheCalls!NoGo
  <2>1. TheCalls!GoEmpty(text.core).type = TheCalls!NoGo
    BY GoExprFields DEF TheCalls!GoEmpty
  <2>2. sliced.core = TheCalls!GoEmpty(text.core) /\ sliced.prefix = text.prefix
    BY DEF TheCalls!Text
  <2>3. text.prefix \in {"none", "address", "receive"}
    BY DEF CallInv, TextOK
  <2> HIDE DEF sliced
  <2> QED
    BY <2>1, <2>2, <2>3, FailsIfCoreDoes DEF Fails
<1>3. copied.type = TheCalls!NoGo
  BY <1>2, GoExprFields DEF TheCalls!GoCopy, TheCalls!NoGo
<1> HIDE DEF copied, sliced
<1> PICK u : u = TheCalls!Shortcut("copy")
  OBVIOUS
<1>4. u.prefix = "none" /\ u.core = copied /\ TheCalls!Whole(u) = copied
  BY <1>1, TextFields
<1> QED
  BY <1>3, <1>4 DEF Fails

LEMMA SliceMethodOutcome ==
  ASSUME CallInv, NEW m \in TheCalls!MethodsOf(TheCalls!Type[1]), NEW u \in TheCalls!SliceMethod(m), TheCalls!HandleMethod(m) = {}
  PROVE  Outcome(m, u)
<1>1. /\ u = TheCalls!Shortcut(m) /\ m \in TheCalls!ShortcutNames
      /\ ~(text.ident /\ root.name \in TheCalls!ModuleNames)
      /\ ~(text.ident /\ typed[1] \in TheCalls!Containers \cup TheCalls!Channels)
  BY DEF TheCalls!SliceMethod, TheCalls!IsNamed
<1>2. Typed(TheCalls!Type) /\ Typed(TheCalls!Type)
  BY TypeIsTyped DEF CallInv
<1>3. u.ident = FALSE /\ u.product = FALSE /\ u.prefix = "none"
  BY <1>1, TextFields DEF TheCalls!Shortcut
<1>4. m # "copy" => TheCalls!Whole(u) = TheCalls!GoBuiltin(TheCalls!Whole(text), m) /\ u.core = TheCalls!GoBuiltin(TheCalls!Whole(text), m)
  BY <1>1, TextFields DEF TheCalls!Shortcut
<1>5. ASSUME m = "copy", text.core.type[1] # "Slice"
      PROVE  Fails(u)
  BY <1>1, <1>5, CopyFails
<1>6. CASE ~TheCalls!GoAccepts
  <2>1. TheCalls!Whole(text).type = TheCalls!NoGo /\ text.core.type = TheCalls!NoGo
    BY <1>6 DEF TheCalls!GoAccepts, CallInv, TextOK
  <2>2. CASE m = "copy"
    BY <1>3, <1>5, <1>6, <2>1, <2>2 DEF Outcome, TheCalls!NoGo
  <2>3. CASE m # "copy"
    <3>1. u.core.type = TheCalls!NoGo
      BY <1>4, <2>1, <2>3, GoExprFields DEF TheCalls!GoBuiltin, TheCalls!BuiltinType, TheCalls!NoGo
    <3> QED
      BY <1>3, <1>6, <3>1, FailsIfCoreDoes DEF Outcome
  <2> QED
    BY <2>2, <2>3
<1>7. CASE TheCalls!GoAccepts
  <2>1. TheCalls!Whole(text).type = TheCalls!Type
    BY <1>7, CoreIsWhole DEF CallInv
  <2>2. TheCalls!Type[1] \in {"Slice", "string", "Class", "Handle"} \cup TheCalls!Containers
    BY <1>1 DEF TheCalls!MethodsOf, TheCalls!ShortcutNames, TheCalls!Containers
  <2>3. CASE TheCalls!Type[1] \in {"Slice", "string"} /\ m # "copy"
    <3>1. TheCalls!BuiltinType(TheCalls!Type, m) = TheCalls!MethodType(TheCalls!Type, m)
      BY <1>1, <2>3 DEF TheCalls!BuiltinType, TheCalls!MethodType, TheCalls!ResultOf, TheCalls!MethodsOf, TheCalls!ShortcutNames
    <3>2. Works(m, u)
      BY <1>1, <1>3, <1>4, <2>1, <2>3, <3>1, GoExprFields, DoesFields
         DEF Works, TheCalls!GoBuiltin, TheCalls!ShortcutNames
    <3>3. ~Refuses(m)
      BY <1>1, <2>3 DEF Refuses, TheCalls!Class, TheCalls!Containers, TheCalls!Channels
    <3> QED
      BY <1>3, <1>7, <3>2, <3>3 DEF Outcome
  <2>4. CASE TheCalls!Type[1] = "Slice" /\ m = "copy" /\ text.prefix = "none"
    <3>1. TheCalls!Whole(text) = text.core
      BY <2>4 DEF TheCalls!Whole
    <3> DEFINE sliced == [TheCalls!Text(TheCalls!GoEmpty(text.core)) EXCEPT !.prefix = text.prefix]
    <3>2. TheCalls!Whole(sliced) = TheCalls!GoEmpty(text.core)
      <4>1. sliced.core = TheCalls!GoEmpty(text.core) /\ sliced.prefix = "none"
        BY <2>4 DEF TheCalls!Text
      <4> QED
        BY <4>1 DEF TheCalls!Whole
    <3>3. TheCalls!Whole(u) = TheCalls!GoCopy(TheCalls!GoEmpty(text.core), text.core)
      BY <1>1, <2>4, <3>1, <3>2, TextFields DEF TheCalls!Shortcut
    <3>4. /\ TheCalls!GoEmpty(text.core).type = TheCalls!Type /\ TheCalls!GoEmpty(text.core).effects = text.core.effects
      BY <2>1, <2>4, <3>1, GoExprFields DEF TheCalls!GoEmpty
    <3>5. /\ TheCalls!Whole(u).type = TheCalls!Type /\ TheCalls!Whole(u).value = <<"copy", text.core.value>>
          /\ TheCalls!Whole(u).effects = text.core.effects \o text.core.effects
      <4> DEFINE twice == TheCalls!GoEmpty(text.core).effects \o text.core.effects
                 does  == [effects |-> twice, value |-> <<"copy", text.core.value>>]
      <4>1. TheCalls!Whole(u) = TheCalls!GoExpr(TheCalls!Type, does)
        BY <2>1, <2>4, <3>1, <3>3, <3>4 DEF TheCalls!GoCopy
      <4>2. twice = text.core.effects \o text.core.effects
        BY <3>4, Zenon
      <4> HIDE DEF twice
      <4>3. does.effects = twice /\ does.value = <<"copy", text.core.value>>
        OBVIOUS
      <4> HIDE DEF does
      <4> QED
        BY <4>1, <4>2, <4>3, GoExprFields
    <3>6. TheCalls!MethodType(TheCalls!Type, m) = TheCalls!Type
      BY <2>4 DEF TheCalls!MethodType, TheCalls!ResultOf, TheCalls!MethodsOf
    <3>7. Works(m, u)
      BY <1>3, <2>4, <3>1, <3>5, <3>6 DEF Works
    <3>8. ~Received /\ ~(Size = 0 /\ root.form = "literal")
      BY <2>4 DEF CallInv, TextOK
    <3>9. ~Refuses(m)
      BY <1>1, <2>4, <3>8 DEF Refuses, TheCalls!Class, TheCalls!Containers, TheCalls!Channels
    <3> QED
      BY <1>3, <1>7, <3>7, <3>9 DEF Outcome
  <2>5. CASE TheCalls!Type[1] = "Slice" /\ m = "copy" /\ text.prefix # "none"
    <3>1. Received \/ (Size = 0 /\ root.form = "literal")
      BY <1>7, <2>5, OpenPrefixes
    <3>2. Refuses(m)
      BY <2>5, <3>1 DEF Refuses, TheCalls!ShortcutNames
    <3>3. text.core.type[1] # "Slice"
      BY <1>7, <2>5, OpenPrefixes
    <3> QED
      BY <1>3, <1>5, <2>5, <3>2, <3>3 DEF Outcome
  <2>6. CASE TheCalls!Type[1] \notin {"Slice", "string"}
    <3>1. Refuses(m)
      <4>1. CASE TheCalls!Type[1] \in TheCalls!Containers
        <5>1. ~(text.ident /\ root.known)
          <6>1. SUFFICES ASSUME text.ident, root.known PROVE FALSE
            OBVIOUS
          <6>2. typed = TheCalls!Type
            BY <6>1, IdentAccepted DEF CallInv, SemaOK
          <6> QED
            BY <1>1, <4>1, <6>1, <6>2
        <5> QED
          BY <1>1, <4>1, <5>1 DEF Refuses
      <4>2. CASE TheCalls!Type[1] = "Class"
        BY <1>1, <1>2, <4>2, TypedKinds DEF Refuses
      <4>3. CASE TheCalls!Type[1] = "Handle"
        <5>1. TheCalls!Type = <<"Handle">> /\ m \in TheCalls!HandleMethods
          BY <1>2, <4>3, TypedKinds DEF TheCalls!MethodsOf
        <5>2. typed[1] # "Handle"
          BY <5>1 DEF TheCalls!HandleMethod
        <5>3. ~root.known
          BY <5>1, <5>2 DEF CallInv, SemaOK
        <5> QED
          BY <1>1, <5>1, <5>3 DEF Refuses
      <4> QED
        BY <2>2, <2>6, <4>1, <4>2, <4>3
    <3>2. CASE m # "copy"
      <4>1. u.core.type = TheCalls!NoGo
        BY <1>4, <2>1, <2>6, <3>2, GoExprFields, <1>1, <2>2
           DEF TheCalls!GoBuiltin, TheCalls!BuiltinType, TheCalls!ShortcutNames, TheCalls!Containers
      <4> QED
        BY <1>3, <3>1, <4>1, FailsIfCoreDoes DEF Outcome
    <3>3. CASE m = "copy"
      <4>1. text.core.type[1] # "Slice"
        BY <1>7, <2>1, <2>6, OpenPrefixes DEF TheCalls!Whole
      <4> QED
        BY <1>3, <1>5, <3>1, <3>3, <4>1 DEF Outcome
    <3> QED
      BY <3>2, <3>3
  <2>7. m = "copy" => TheCalls!Type[1] # "string"
    BY DEF TheCalls!MethodsOf
  <2> QED
    BY <2>2, <2>3, <2>4, <2>5, <2>6, <2>7
<1> QED
  BY <1>6, <1>7

LEMMA PlainSelectorOutcome ==
  ASSUME CallInv, NEW m \in TheCalls!MethodsOf(TheCalls!Type[1]), TheCalls!HandleMethod(m) = {},
         TheCalls!NamedBinding(m) = {}, TheCalls!ChannelOperation(m) = {}, TheCalls!SliceMethod(m) = {}
  PROVE  Outcome(m, TheCalls!PlainSelector(m))
<1> DEFINE u == TheCalls!Selector(text, m, FALSE)
<1>1. Typed(TheCalls!Type)
  BY TypeIsTyped DEF CallInv
<1>2. /\ u.ident = FALSE /\ u.product = FALSE
      /\ IF TheCalls!GoAccepts /\ text.prefix = "none" /\ TheCalls!Type[1] \in TheCalls!Containers \cup {"Class"}
           THEN Works(m, u) ELSE Fails(u)
  BY SelectorOutcome DEF Selectable
<1> HIDE DEF u
<1>3. ~(TheCalls!IsNamed({"strconv"}) /\ m = "atoi")
  BY DEF TheCalls!NamedBinding
<1>4. CASE TheCalls!IsNamed({"strings"}) /\ m = "split"
  <2>1. TheCalls!PlainSelector(m) = TheCalls!Refused
    BY <1>4 DEF TheCalls!PlainSelector
  <2>2. text.ident /\ root.name = "strings"
    BY <1>4 DEF TheCalls!IsNamed
  <2>3. TheCalls!Type = TheCalls!Class
    BY <1>1, <1>4, TypedKinds DEF TheCalls!MethodsOf, TheCalls!HandleMethods
  <2>4. Refuses(m)
    BY <1>4, <2>2, <2>3 DEF Refuses, TheCalls!ModuleNames
  <2> QED
    BY <2>1, <2>4, RefusedFails DEF Outcome
<1>5. CASE ~(TheCalls!IsNamed({"strings"}) /\ m = "split")
  <2>1. TheCalls!PlainSelector(m) = u
    BY <1>5 DEF TheCalls!PlainSelector, u
  <2>2. m \in TheCalls!ShortcutNames =>
          (text.ident /\ root.name \in TheCalls!ModuleNames) \/ (text.ident /\ typed[1] \in TheCalls!Containers \cup TheCalls!Channels)
    BY DEF TheCalls!SliceMethod, TheCalls!IsNamed
  <2>3. CASE ~TheCalls!GoAccepts
    BY <1>2, <2>1, <2>3 DEF Outcome
  <2>4. CASE TheCalls!GoAccepts /\ text.prefix # "none"
    <3>1. ~text.ident /\ (Received \/ (Size = 0 /\ root.form = "literal"))
      BY <2>4, OpenPrefixes
    <3>2. m \notin TheCalls!ShortcutNames
      BY <2>2, <3>1
    <3>3. Refuses(m)
      BY <3>1, <3>2 DEF Refuses
    <3> QED
      BY <1>2, <2>1, <2>4, <3>3 DEF Outcome
  <2>5. CASE TheCalls!GoAccepts /\ text.prefix = "none" /\ TheCalls!Type[1] \in TheCalls!Containers \cup {"Class"}
    <3>1. ~Received /\ ~(Size = 0 /\ root.form = "literal")
      BY <2>5 DEF CallInv, TextOK
    <3>2. ~(/\ ~(text.ident /\ root.name \in TheCalls!ModuleNames) /\ m \in TheCalls!ShortcutNames
            /\ \/ TheCalls!Type = TheCalls!Class
               \/ TheCalls!Type[1] \in TheCalls!Containers /\ ~(text.ident /\ root.known))
      <4>1. SUFFICES ASSUME ~(text.ident /\ root.name \in TheCalls!ModuleNames), m \in TheCalls!ShortcutNames
                     PROVE  ~(\/ TheCalls!Type = TheCalls!Class
                              \/ TheCalls!Type[1] \in TheCalls!Containers /\ ~(text.ident /\ root.known))
        OBVIOUS
      <4>2. text.ident /\ typed[1] \in TheCalls!Containers \cup TheCalls!Channels
        BY <2>2, <4>1
      <4>3. root.known /\ typed = TheCalls!Type
        BY <4>2, IdentAccepted DEF CallInv, SemaOK, TheCalls!Unknown, TheCalls!Containers, TheCalls!Channels
      <4> QED
        BY <4>2, <4>3 DEF TheCalls!Class, TheCalls!Containers, TheCalls!Channels
    <3>3. TheCalls!Type[1] \notin TheCalls!Channels \cup {"Slice", "string", "Handle"}
      BY <2>5 DEF TheCalls!Containers, TheCalls!Channels
    <3>4. ~(text.ident /\ root.name \in TheCalls!ModuleNames /\ TheCalls!Type = TheCalls!Class
             /\ <<root.name, m>> \in {<<"strings", "split">>, <<"strconv", "atoi">>})
      BY <1>3, <1>5 DEF TheCalls!IsNamed
    <3>5. ~Refuses(m)
      BY <3>1, <3>2, <3>3, <3>4 DEF Refuses
    <3> QED
      BY <1>2, <2>1, <2>5, <3>5 DEF Outcome
  <2>6. CASE TheCalls!GoAccepts /\ text.prefix = "none" /\ TheCalls!Type[1] \notin TheCalls!Containers \cup {"Class"}
    <3>1. TheCalls!Type[1] \in {"Slice", "string", "Handle"} \cup TheCalls!Channels
      BY <1>1, <2>6, TypedKinds DEF TheCalls!MethodsOf, TheCalls!Containers, TheCalls!Channels, Kinds
    <3>2. CASE TheCalls!Type[1] \in {"Slice", "string"}
      <4>1. m \in TheCalls!ShortcutNames
        BY <3>2 DEF TheCalls!MethodsOf, TheCalls!ShortcutNames
      <4>2. ~(text.ident /\ typed[1] \in TheCalls!Containers \cup TheCalls!Channels)
        BY <3>2 DEF CallInv, SemaOK, TheCalls!Unknown, TheCalls!Containers, TheCalls!Channels
      <4>3. Refuses(m)
        BY <2>2, <3>2, <4>1, <4>2 DEF Refuses
      <4> QED
        BY <1>2, <2>1, <2>6, <4>3 DEF Outcome
    <3>3. CASE TheCalls!Type[1] \in TheCalls!Channels
      <4>1. m \in {"recv", "send", "tryRecv", "close"}
        BY <3>3 DEF TheCalls!MethodsOf, TheCalls!Channels
      <4>2. ~(text.ident /\ typed[1] \in TheCalls!Channels)
        <5>1. SUFFICES ASSUME text.ident, typed[1] \in TheCalls!Channels PROVE TheCalls!ChannelOperation(m) # {}
          OBVIOUS
        <5> QED
          BY <4>1, <5>1 DEF TheCalls!ChannelOperation
      <4>3. ~(text.ident /\ root.known)
        <5>1. SUFFICES ASSUME text.ident, root.known PROVE FALSE
          OBVIOUS
        <5>2. typed = TheCalls!Type
          BY <5>1, IdentAccepted DEF CallInv, SemaOK
        <5> QED
          BY <3>3, <4>2, <5>1, <5>2
      <4>4. Refuses(m)
        BY <3>3, <4>3 DEF Refuses
      <4> QED
        BY <1>2, <2>1, <2>6, <4>4 DEF Outcome
    <3>4. CASE TheCalls!Type[1] = "Handle"
      <4>1. TheCalls!Type = <<"Handle">> /\ m \in TheCalls!HandleMethods
        BY <1>1, <3>4, TypedKinds DEF TheCalls!MethodsOf
      <4>2. typed[1] # "Handle"
        BY <4>1 DEF TheCalls!HandleMethod
      <4>3. ~root.known
        BY <4>1, <4>2 DEF CallInv, SemaOK
      <4>4. Refuses(m)
        BY <4>1, <4>3 DEF Refuses
      <4> QED
        BY <1>2, <2>1, <2>6, <4>4 DEF Outcome
    <3> QED
      BY <3>1, <3>2, <3>3, <3>4
  <2> QED
    BY <2>3, <2>4, <2>5, <2>6
<1> QED
  BY <1>4, <1>5

LEMMA LowerOutcome ==
  ASSUME CallInv, NEW m \in TheCalls!MethodsOf(TheCalls!Type[1]), NEW u \in TheCalls!Lower(m)
  PROVE  Outcome(m, u)
<1>1. CASE text = TheCalls!Refused
  <2>1. ~TheCalls!GoAccepts
    BY <1>1, RefusedFails DEF TheCalls!GoAccepts, Fails
  <2>2. u = TheCalls!Refused
    BY <1>1 DEF TheCalls!Lower
  <2> QED
    BY <2>1, <2>2, RefusedFails DEF Outcome
<1>2. CASE text # TheCalls!Refused
  <2>1. CASE TheCalls!NamedBinding(m) # {}
    <3>1. u \in TheCalls!NamedBinding(m)
      BY <1>2, <2>1 DEF TheCalls!Lower
    <3> QED
      BY <3>1, NamedBindingOutcome
  <2>2. CASE TheCalls!NamedBinding(m) = {} /\ TheCalls!ChannelOperation(m) # {}
    <3>1. u \in TheCalls!ChannelOperation(m)
      BY <1>2, <2>2 DEF TheCalls!Lower
    <3> QED
      BY <3>1, ChannelOperationOutcome
  <2>3. CASE TheCalls!NamedBinding(m) = {} /\ TheCalls!ChannelOperation(m) = {} /\ TheCalls!HandleMethod(m) # {}
    <3>1. u \in TheCalls!HandleMethod(m)
      BY <1>2, <2>3 DEF TheCalls!Lower
    <3> QED
      BY <3>1, HandleMethodOutcome
  <2>4. CASE /\ TheCalls!NamedBinding(m) = {} /\ TheCalls!ChannelOperation(m) = {} /\ TheCalls!HandleMethod(m) = {}
             /\ TheCalls!SliceMethod(m) # {}
    <3>1. u \in TheCalls!SliceMethod(m)
      BY <1>2, <2>4 DEF TheCalls!Lower
    <3> QED
      BY <2>4, <3>1, SliceMethodOutcome
  <2>5. CASE /\ TheCalls!NamedBinding(m) = {} /\ TheCalls!ChannelOperation(m) = {} /\ TheCalls!HandleMethod(m) = {}
             /\ TheCalls!SliceMethod(m) = {}
    <3>1. u = TheCalls!PlainSelector(m)
      BY <1>2, <2>5 DEF TheCalls!Lower
    <3> QED
      BY <2>5, <3>1, PlainSelectorOutcome
  <2> QED
    BY <2>1, <2>2, <2>3, <2>4, <2>5
<1> QED
  BY <1>1, <1>2

\* Only the send of a channel that codegen sees is a statement.
LEMMA SendLowered ==
  ASSUME TextOK, NEW m, NEW u \in TheCalls!Lower(m)
  PROVE  u.send \in BOOLEAN /\ (u.send <=> m = "send" /\ text.ident /\ typed[1] \in TheCalls!Channels)
<1>1. CASE text = TheCalls!Refused
  <2>1. u = TheCalls!Refused
    BY <1>1 DEF TheCalls!Lower
  <2> QED
    BY <1>1, <2>1, RefusedFails
<1>2. CASE text # TheCalls!Refused
  <2>1. CASE u \in TheCalls!NamedBinding(m)
    <3>1. m # "send" /\ (u = TheCalls!Refused \/ u = TheCalls!Text(TheCalls!GoConversion))
      BY <2>1 DEF TheCalls!NamedBinding
    <3>2. u.send = FALSE
      <4>1. TheCalls!Text(TheCalls!GoConversion).send = FALSE
        BY TextFields
      <4>2. TheCalls!Refused.send = FALSE
        BY RefusedFails
      <4> QED
        BY <3>1, <4>1, <4>2, Zenon
    <3> QED
      BY <3>1, <3>2
  <2>2. CASE u \in TheCalls!ChannelOperation(m)
    <3>1. text.ident /\ typed[1] \in TheCalls!Channels
      BY <2>2 DEF TheCalls!ChannelOperation
    <3>2. CASE m = "send"
      <4>1. u = [TheCalls!Text(TheCalls!GoBuiltin(TheCalls!Whole(text), m)) EXCEPT !.send = TRUE]
        BY <2>2, <3>1, <3>2 DEF TheCalls!ChannelOperation
      <4>2. u.send = TRUE
        BY <4>1 DEF TheCalls!Text
      <4> QED
        BY <3>1, <3>2, <4>2
    <3>3. CASE m # "send"
      <4>1. u.send = FALSE
        <5>1. m \in {"recv", "tryRecv", "close"}
          BY <2>2, <3>1, <3>3 DEF TheCalls!ChannelOperation
        <5>2. CASE m = "recv"
          <6>1. u = [TheCalls!Text(text.core) EXCEPT !.prefix = "receive"]
            BY <2>2, <3>1, <5>2 DEF TheCalls!ChannelOperation
          <6> QED
            BY <6>1 DEF TheCalls!Text
        <5>3. CASE m \in {"tryRecv", "close"}
          <6>1. u = TheCalls!Text(TheCalls!GoBuiltin(TheCalls!Whole(text), m))
            BY <2>2, <3>1, <5>3 DEF TheCalls!ChannelOperation
          <6> QED
            BY <6>1, TextFields
        <5> QED
          BY <5>1, <5>2, <5>3
      <4> QED
        BY <3>3, <4>1
    <3> QED
      BY <3>2, <3>3
  <2>3. CASE TheCalls!ChannelOperation(m) = {} /\ u \notin TheCalls!NamedBinding(m)
    <3>1. ~(m = "send" /\ text.ident /\ typed[1] \in TheCalls!Channels)
      BY <2>3 DEF TheCalls!ChannelOperation
    <3>2. u \in TheCalls!HandleMethod(m) \cup TheCalls!SliceMethod(m) \cup {TheCalls!PlainSelector(m)}
      BY <1>2, <2>3 DEF TheCalls!Lower
    <3>3. \A x \in BOOLEAN : TheCalls!Selector(text, m, x).send = FALSE
      BY DEF TheCalls!Selector, TheCalls!Text
    <3>4. TheCalls!Shortcut(m).send = FALSE
      BY TextFields DEF TheCalls!Shortcut
    <3>5. u.send = FALSE
      BY <3>2, <3>3, <3>4, RefusedFails DEF TheCalls!HandleMethod, TheCalls!SliceMethod, TheCalls!PlainSelector
    <3> QED
      BY <3>1, <3>5
  <2> QED
    BY <1>2, <2>1, <2>2, <2>3 DEF TheCalls!Lower
<1> QED
  BY <1>1, <1>2

-----------------------------------------------------------------------------
(* Every step.                                                             *)

\* One more call or pair of parentheses leaves what was before it.
LEMMA OneMore ==
  ASSUME RootOK, SourceOK, NEW c \in TheCalls!AllMethods \cup {"parens"}, NEW t, Typed(t),
         calls' = Append(calls, c), types' = Append(types, t), root' = root
  PROVE  /\ Size \in Nat /\ Size' = Size + 1
         /\ calls' \in Seq(TheCalls!AllMethods \cup {"parens"})
         /\ \A i \in 1 .. Size : calls'[i] = calls[i] /\ types'[i] = types[i]
         /\ calls'[Size + 1] = c /\ types'[Size + 1] = TheCalls!Type
         /\ types'[1] = root'.type
         /\ IsSequence(types') /\ Len(types') = Size' + 1 /\ TheCalls!Type' = t
         /\ AllTyped'
<1>1. /\ Size \in Nat /\ TheCalls!Type = types[Size + 1] /\ Len(types) = Size + 1
      /\ calls \in Seq(TheCalls!AllMethods \cup {"parens"}) /\ types[1] = root.type
  BY TypeIsTyped DEF SourceOK
<1>2. PICK S : types \in Seq(S)
  BY DEF SourceOK, IsSequence
<1>3. types \in Seq(S \cup {t}) /\ types' \in Seq(S \cup {t}) /\ Len(types') = Size + 2
  BY <1>1, <1>2
<1>4. /\ \A i \in 1 .. Size + 1 : types'[i] = types[i]
      /\ types'[Size + 2] = t
  BY <1>1, <1>2
<1>5. /\ Size' = Size + 1 /\ calls' \in Seq(TheCalls!AllMethods \cup {"parens"})
      /\ \A i \in 1 .. Size : calls'[i] = calls[i]
      /\ calls'[Size + 1] = c
  BY <1>1 DEF Size
<1>6. TheCalls!Type' = t
  BY <1>3, <1>4, <1>1 DEF TheCalls!Type, TheCalls!Last
<1>7. AllTyped'
  <2>1. SUFFICES ASSUME NEW i \in DOMAIN types' PROVE Typed(types'[i])
    BY Zenon DEF AllTyped
  <2>2. DOMAIN types' = 1 .. Size + 2 /\ DOMAIN types = 1 .. Size + 1
    BY <1>1, <1>2, <1>3
  <2>3. CASE i = Size + 2
    BY <2>3, <1>4
  <2>4. CASE i # Size + 2
    <3>1. i \in DOMAIN types /\ types'[i] = types[i]
      BY <1>1, <1>4, <2>2, <2>4
    <3>2. Typed(types[i])
      BY <3>1, Zenon DEF SourceOK, AllTyped
    <3> QED
      BY <3>1, <3>2, Zenon
  <2> QED
    BY <2>3, <2>4
<1>8. IsSequence(types')
  BY <1>3, Zenon DEF IsSequence
<1>9. types'[1] = root'.type /\ types'[Size + 1] = TheCalls!Type
  BY <1>1, <1>4
<1>11. ASSUME NEW i \in 1 .. Size
       PROVE  calls'[i] = calls[i] /\ types'[i] = types[i]
  <2>1. i \in 1 .. Size + 1
    BY <1>1
  <2> QED
    BY <1>4, <1>5, <2>1, Zenon
<1>12. Len(types') = Size' + 1
  BY <1>1, <1>3, <1>5
<1> QED
  BY <1>1, <1>5, <1>6, <1>7, <1>8, <1>9, <1>11, <1>12

\* What was refused before stays refused, and Refuses speaks of the next call.
LEMMA RefusedBefore ==
  ASSUME Size \in Nat, root' = root,
         \A i \in 1 .. Size : calls'[i] = calls[i] /\ types'[i] = types[i]
  PROVE  \A i \in 1 .. Size : TheCalls!RefusedFor(i)' <=> TheCalls!RefusedFor(i)
<1>1. SUFFICES ASSUME NEW i \in 1 .. Size PROVE TheCalls!RefusedFor(i)' <=> TheCalls!RefusedFor(i)
  OBVIOUS
<1>2. /\ calls'[i] = calls[i] /\ types'[i] = types[i]
      /\ i = 2 => calls'[1] = calls[1]
  BY <1>1
<1>3. /\ TheCalls!TakenForSlice(i)' <=> TheCalls!TakenForSlice(i)
      /\ TheCalls!ChannelNotSeen(i)' <=> TheCalls!ChannelNotSeen(i)
      /\ TheCalls!TakenForModule(i)' <=> TheCalls!TakenForModule(i)
      /\ TheCalls!HandleNotSeen(i)' <=> TheCalls!HandleNotSeen(i)
  BY <1>2 DEF TheCalls!TakenForSlice, TheCalls!ChannelNotSeen, TheCalls!TakenForModule, TheCalls!HandleNotSeen, TheCalls!HasModuleName, TheCalls!Judged,
              TheCalls!IsVariable
<1>4. /\ TheCalls!OpenPrefix(i)' <=> TheCalls!OpenPrefix(i)
      /\ TheCalls!SendInParens(i)' <=> TheCalls!SendInParens(i)
  <2>1. i = 2 => types'[1] = types[1]
    BY <1>1
  <2> QED
    BY <1>2, <2>1 DEF TheCalls!OpenPrefix, TheCalls!SendInParens, TheCalls!Judged, TheCalls!IsVariable
<1> QED
  BY <1>3, <1>4 DEF TheCalls!RefusedFor

LEMMA RefusedNext ==
  ASSUME RootOK, SourceOK, TextOK, NEW n \in Nat, n = Size + 1, Size \in Nat,
         NEW m \in TheCalls!AllMethods, root' = root,
         \A i \in 1 .. Size : calls'[i] = calls[i],
         calls'[n] = m, types'[n] = TheCalls!Type
  PROVE  TheCalls!RefusedFor(n)' <=> Refuses(m)
<1>1. m # "parens"
  BY DEF TheCalls!AllMethods, TheCalls!ClassMethods, TheCalls!HandleMethods
<1>2. /\ n = 1 <=> Size = 0
      /\ n = 2 <=> Size = 1
      /\ n = 2 => calls'[1] = calls[1]
  OBVIOUS
<1>3. text.ident <=> n = 1 /\ root.form = "variable"
  BY <1>2 DEF TextOK
<1>4. Received <=> n = 2 /\ calls[1] = "recv" /\ root.form = "variable" /\ root.known
  BY <1>2 DEF Received, Known
<1>5. TheCalls!TakenForSlice(n)' <=>
        /\ ~(text.ident /\ root.name \in TheCalls!ModuleNames) /\ m \in TheCalls!ShortcutNames
        /\ \/ TheCalls!Type = TheCalls!Class
           \/ TheCalls!Type[1] \in TheCalls!Containers /\ ~(text.ident /\ root.known)
  BY <1>3 DEF TheCalls!TakenForSlice, TheCalls!HasModuleName, TheCalls!Judged, TheCalls!IsVariable
<1>6. TheCalls!ChannelNotSeen(n)' <=> TheCalls!Type[1] \in TheCalls!Channels /\ ~(text.ident /\ root.known)
  BY <1>1, <1>3 DEF TheCalls!ChannelNotSeen, TheCalls!Judged, TheCalls!IsVariable
<1>7. TheCalls!TakenForModule(n)' <=>
        /\ text.ident /\ root.name \in TheCalls!ModuleNames
        /\ \/ TheCalls!Type[1] \in {"Slice", "string"}
           \/ TheCalls!Type = TheCalls!Class /\ <<root.name, m>> \in {<<"strings", "split">>, <<"strconv", "atoi">>}
  BY <1>1, <1>3 DEF TheCalls!TakenForModule, TheCalls!HasModuleName, TheCalls!IsVariable
<1>8. TheCalls!OpenPrefix(n)' <=>
        /\ m \notin TheCalls!ShortcutNames \ {"copy"}
        /\ Received \/ (Size = 0 /\ root.form = "literal")
  BY <1>1, <1>2, <1>4 DEF TheCalls!OpenPrefix, TheCalls!Judged, TheCalls!IsVariable
<1>9. ~TheCalls!SendInParens(n)' /\ (TheCalls!HandleNotSeen(n)' <=> TheCalls!Type = <<"Handle">> /\ ~root.known)
  BY <1>1 DEF TheCalls!SendInParens, TheCalls!HandleNotSeen
<1>10. TheCalls!RefusedFor(n)' <=>
         \/ TheCalls!TakenForSlice(n)' \/ TheCalls!HandleNotSeen(n)' \/ TheCalls!ChannelNotSeen(n)' \/ TheCalls!TakenForModule(n)'
         \/ TheCalls!OpenPrefix(n)' \/ TheCalls!SendInParens(n)'
  BY DEF TheCalls!RefusedFor
<1> QED
  BY <1>5, <1>6, <1>7, <1>8, <1>9, <1>10 DEF Refuses

LEMMA CallStep ==
  ASSUME CallInv, NEW m \in TheCalls!AllMethods, TheCalls!Call(m)
  PROVE  CallInv'
<1> DEFINE n == Size + 1
<1>1. /\ m \in TheCalls!MethodsOf(TheCalls!Type[1]) /\ ~divides /\ calls' = Append(calls, m)
      /\ types' = Append(types, TheCalls!MethodType(TheCalls!Type, m)) /\ typed' = TheCalls!SemaType(typed, m)
      /\ source' = TheCalls!Does(m, source) /\ text' \in TheCalls!Lower(m) /\ root' = root /\ divides' = divides
  BY DEF TheCalls!Call
<1>2. /\ Typed(TheCalls!Type) /\ Typed(TheCalls!MethodType(TheCalls!Type, m)) /\ TheCalls!MethodType(TheCalls!Type, m)[1] # "Handle"
  BY <1>1, TypeIsTyped, ResultsTyped DEF CallInv
<1>3. /\ Size \in Nat /\ Size' = Size + 1
      /\ calls' \in Seq(TheCalls!AllMethods \cup {"parens"})
      /\ \A i \in 1 .. Size : calls'[i] = calls[i] /\ types'[i] = types[i]
      /\ calls'[Size + 1] = m /\ types'[Size + 1] = TheCalls!Type
      /\ types'[1] = root'.type
      /\ IsSequence(types') /\ Len(types') = Size' + 1 /\ TheCalls!Type' = TheCalls!MethodType(TheCalls!Type, m)
      /\ AllTyped'
  BY <1>1, <1>2, OneMore DEF CallInv
<1>4. Outcome(m, text')
  BY <1>1, LowerOutcome
<1>5. (\A i \in 1 .. Size' : ~TheCalls!RefusedFor(i)') <=> (\A i \in 1 .. Size : ~TheCalls!RefusedFor(i)) /\ ~Refuses(m)
  <2>1. \A i \in 1 .. Size : TheCalls!RefusedFor(i)' <=> TheCalls!RefusedFor(i)
    BY <1>1, <1>3, RefusedBefore
  <2>2. ASSUME NEW k \in Nat, k = Size + 1
        PROVE  TheCalls!RefusedFor(k)' <=> Refuses(m)
    BY <1>1, <1>3, <2>2, RefusedNext DEF CallInv
  <2>3. ASSUME NEW i \in 1 .. Size', ~(i \in 1 .. Size)
        PROVE  TheCalls!RefusedFor(i)' <=> Refuses(m)
    BY <1>3, <2>2, <2>3
  <2>4. ASSUME NEW k \in Nat, k = Size + 1
        PROVE  k \in 1 .. Size'
    BY <1>3, <2>4
  <2>5. 1 .. Size \subseteq 1 .. Size'
    BY <1>3
  <2>6. PICK k \in Nat : k = Size + 1
    BY <1>3
  <2> QED
    BY <2>1, <2>2, <2>3, <2>4, <2>5, <2>6
<1>6. TheCalls!GoAccepts' <=> TheCalls!GoAccepts /\ ~Refuses(m)
  BY <1>2, <1>4, TypedKinds DEF Outcome, Works, Fails, TheCalls!GoAccepts
<1>7. SourceOK'
  <2>1. ~HasEffects' => source'.effects = <<>>
    <3>1. SUFFICES ASSUME ~HasEffects' PROVE source'.effects = <<>>
      OBVIOUS
    <3>2. /\ root.form \notin {"call", "literal"}
          /\ \A i \in 1 .. Size' : calls'[i] \notin TheCalls!Effectful
      BY <1>1, <3>1 DEF HasEffects
    <3>3. ~HasEffects
      <4>1. ASSUME NEW i \in 1 .. Size PROVE calls[i] \notin TheCalls!Effectful
        <5>1. i \in 1 .. Size' /\ calls'[i] = calls[i]
          BY <1>3
        <5> QED
          BY <3>2, <5>1
      <4> QED
        BY <3>2, <4>1 DEF HasEffects
    <3>4. m \notin TheCalls!Effectful
      <4>1. Size + 1 \in 1 .. Size'
        BY <1>3
      <4> QED
        BY <1>3, <3>2, <4>1
    <3>5. source'.effects = source.effects
      BY <1>1, <3>4 DEF TheCalls!Does
    <3> QED
      BY <3>3, <3>5 DEF CallInv, SourceOK
  <2> QED
    BY <1>1, <1>3, <2>1 DEF SourceOK
<1>8. SemaOK'
  <2>1. typed' \in {TheCalls!Type', TheCalls!Unknown}
    BY <1>1, <1>3 DEF TheCalls!SemaType, CallInv, SemaOK, TheCalls!Unknown
  <2> QED
    BY <1>2, <1>3, <2>1 DEF SemaOK
<1>9. TextOK'
  <2>1. text'.ident = FALSE /\ text'.product = FALSE /\ text'.prefix \in {"none", "address", "receive"}
    BY <1>4 DEF Outcome, Works, Fails
  <2>2. Size' # 0
    BY <1>3
  <2>3. Received' <=> (m = "recv" /\ Size = 0 /\ Known)
    <3>1. Size = 0 => calls'[1] = m
      BY <1>3
    <3>2. Received' <=> (Size' = 1 /\ calls'[1] = "recv" /\ Known)
      BY <1>1 DEF Received, Known
    <3> QED
      BY <1>3, <3>1, <3>2
  <2>4. ASSUME m = "recv", Size = 0, Known
        PROVE  TheCalls!GoAccepts /\ ~Refuses(m)
    <3>1. text.ident
      BY <2>4 DEF CallInv, TextOK, Known
    <3>2. TheCalls!Type[1] \in Receives
      BY <1>1, <2>4 DEF TheCalls!MethodsOf, TheCalls!ClassMethods, TheCalls!HandleMethods, Receives
    <3>3. ~Refuses(m)
      BY <2>4, <3>1, <3>2
         DEF Refuses, Received, Known, Receives, TheCalls!Class, TheCalls!Containers, TheCalls!ShortcutNames
    <3> QED
      BY <3>1, <3>3, IdentAccepted DEF CallInv
  <2>5. Received' => text'.prefix = "receive" /\ text'.core.type = root'.type
                       /\ root'.type[1] \in Receives
    BY <1>1, <1>4, <2>3, <2>4 DEF Outcome, Works
  <2>6. text'.core.type # TheCalls!NoGo => TheCalls!GoAccepts' /\ Works(m, text')
    BY <1>4, <1>6 DEF Outcome, Fails
  <2>7. text'.prefix = "address" => text'.core.type = TheCalls!NoGo
    BY <2>6 DEF Works
  <2>8. text'.prefix = "receive" /\ text'.core.type # TheCalls!NoGo => Received'
    BY <2>3, <2>6 DEF Works
  <2>9. TheCalls!GoAccepts' => TheCalls!Whole(text)'.type = TheCalls!Type'
    BY <1>3, <1>4, <1>6 DEF Outcome, Works
  <2>10. ~TheCalls!GoAccepts' => text'.core.type = TheCalls!NoGo
    BY <2>6
  <2>11. text'.send \in BOOLEAN /\ (text'.send <=> Sent')
    <3>1. /\ text'.send \in BOOLEAN
          /\ text'.send <=> m = "send" /\ text.ident /\ typed[1] \in TheCalls!Channels
      BY <1>1, SendLowered DEF CallInv
    <3>2. Sent' <=> Size = 0 /\ m = "send" /\ Known /\ TheCalls!Type[1] \in TheCalls!Channels
      <4>1. Size = 0 => calls'[1] = m /\ types'[1] = TheCalls!Type
        BY <1>3
      <4>2. Sent' <=> (Size' = 1 /\ calls'[1] = "send" /\ Known /\ types'[1][1] \in TheCalls!Channels)
        BY <1>1 DEF Sent, Known
      <4> QED
        BY <1>3, <4>1, <4>2
    <3>3. text.ident <=> Size = 0 /\ root.form = "variable"
      BY DEF CallInv, TextOK
    <3>4. Size = 0 => (typed[1] \in TheCalls!Channels <=> root.known /\ TheCalls!Type[1] \in TheCalls!Channels)
      BY DEF CallInv, SemaOK, RootOK, TheCalls!Unknown, TheCalls!Channels
    <3> QED
      BY <3>1, <3>2, <3>3, <3>4 DEF Known
  <2> QED
    BY <2>1, <2>2, <2>5, <2>7, <2>8, <2>9, <2>10, <2>11 DEF TextOK
<1>10. AcceptsOK'
  BY <1>5, <1>6 DEF CallInv, AcceptsOK
<1>11. RunsOK'
  <2>1. SUFFICES ASSUME TheCalls!GoAccepts', ~TheCalls!CopiesEffects', ~TheCalls!ConvertsArgument'
                 PROVE  TheCalls!Whole(text)'.effects = source'.effects /\ TheCalls!Whole(text)'.value = source'.value
    BY DEF RunsOK
  <2>2. TheCalls!GoAccepts /\ Works(m, text')
    BY <1>4, <1>6, <2>1 DEF Outcome
  <2>3. DOMAIN calls = 1 .. Size /\ DOMAIN calls' = 1 .. Size'
    BY <1>3 DEF CallInv, SourceOK, Size
  <2>4. ~TheCalls!CopiesEffects
    <3>1. SUFFICES ASSUME TheCalls!CopiesEffects PROVE FALSE
      OBVIOUS
    <3>2. PICK i \in 1 .. Size : calls[i] = "copy" /\
             (root.form \in {"call", "literal"} \/ \E j \in 1 .. i - 1 : calls[j] \in TheCalls!Effectful)
      BY <2>3, <3>1 DEF TheCalls!CopiesEffects
    <3>3. i \in 1 .. Size' /\ calls'[i] = calls[i]
      BY <1>3
    <3>4. \A j \in 1 .. i - 1 : calls'[j] = calls[j]
      BY <1>3
    <3> QED
      BY <1>1, <2>1, <2>3, <3>2, <3>3, <3>4 DEF TheCalls!CopiesEffects
  <2>5. Size = 0 <=> ~(Len(calls) > 0)
    BY <1>3 DEF Size
  <2>6. Len(calls') > 0
    BY <1>3 DEF Size
  <2>7. ~TheCalls!ConvertsArgument
    BY <1>1, <1>3, <2>1, <2>5, <2>6 DEF TheCalls!ConvertsArgument
  <2>8. TheCalls!Whole(text).effects = source.effects /\ TheCalls!Whole(text).value = source.value
    BY <2>2, <2>4, <2>7 DEF CallInv, RunsOK
  <2>9. ~(text.ident /\ root.name = "strings" /\ m = "fromBytes")
    <3>1. SUFFICES ASSUME text.ident, root.name = "strings", m = "fromBytes" PROVE FALSE
      OBVIOUS
    <3>2. Size = 0 /\ root.form = "variable"
      BY <3>1 DEF CallInv, TextOK
    <3>3. calls'[1] = m
      BY <1>3, <3>2
    <3> QED
      BY <1>1, <2>1, <2>6, <3>1, <3>2, <3>3 DEF TheCalls!ConvertsArgument
  <2>10. TheCalls!Whole(text)'.value = source'.value
    BY <1>1, <2>2, <2>8, <2>9 DEF Works, TheCalls!Does
  <2>11. CASE TheCalls!Whole(text').effects = TheCalls!Does(m, TheCalls!Whole(text)).effects
    BY <1>1, <2>8, <2>10, <2>11 DEF TheCalls!Does
  <2>12. CASE m = "copy" /\ TheCalls!Whole(text').effects = TheCalls!Whole(text).effects \o TheCalls!Whole(text).effects
    <3>1. ~HasEffects
      <4>1. SUFFICES ASSUME HasEffects PROVE TheCalls!CopiesEffects'
        BY <2>1
      <4>2. ASSUME NEW k \in Nat, k = Size + 1 PROVE TheCalls!CopiesEffects'
        <5>1. k \in DOMAIN calls' /\ calls'[k] = "copy" /\ k - 1 = Size
          BY <1>3, <2>3, <2>12, <4>2
        <5>2. \A j \in 1 .. Size : calls'[j] = calls[j]
          BY <1>3
        <5>3. root'.form \in {"call", "literal"} \/ \E j \in 1 .. k - 1 : calls'[j] \in TheCalls!Effectful
          BY <1>1, <4>1, <5>1, <5>2 DEF HasEffects
        <5> QED
          BY <5>1, <5>3 DEF TheCalls!CopiesEffects
      <4> QED
        BY <1>3, <4>2
    <3>2. source.effects = <<>> /\ source'.effects = <<>>
      BY <1>1, <2>12, <3>1 DEF CallInv, SourceOK, TheCalls!Does, TheCalls!Effectful
    <3>3. TheCalls!Whole(text).effects = <<>>
      BY <2>8, <3>2
    <3>4. <<>> \o <<>> = <<>>
      OBVIOUS
    <3>5. TheCalls!Whole(text').effects = <<>>
      BY <2>12, <3>3, <3>4
    <3> QED
      BY <2>10, <3>2, <3>5
  <2> QED
    BY <2>2, <2>9, <2>11, <2>12 DEF Works
<1>12. RootOK'
  BY <1>1 DEF CallInv, RootOK
<1> QED
  BY <1>7, <1>8, <1>9, <1>10, <1>11, <1>12 DEF CallInv

LEMMA GroupStep ==
  ASSUME CallInv, TheCalls!Group
  PROVE  CallInv'
<1>1. /\ ~divides /\ calls' = Append(calls, "parens") /\ types' = Append(types, TheCalls!Type)
      /\ text' = TheCalls!Grouped(text)
      /\ root' = root /\ typed' = typed /\ source' = source /\ divides' = divides
  BY DEF TheCalls!Group
<1>2. Typed(TheCalls!Type)
  BY TypeIsTyped DEF CallInv
<1>3. /\ Size \in Nat /\ Size' = Size + 1
      /\ calls' \in Seq(TheCalls!AllMethods \cup {"parens"})
      /\ \A i \in 1 .. Size : calls'[i] = calls[i] /\ types'[i] = types[i]
      /\ calls'[Size + 1] = "parens" /\ types'[Size + 1] = TheCalls!Type
      /\ types'[1] = root'.type
      /\ IsSequence(types') /\ Len(types') = Size' + 1 /\ TheCalls!Type' = TheCalls!Type
      /\ AllTyped'
  BY <1>1, <1>2, OneMore DEF CallInv
<1>4. /\ text'.ident = FALSE /\ text'.product = FALSE /\ text'.prefix = "none"
      /\ text'.send = FALSE /\ TheCalls!Whole(text') = text'.core
      /\ text.send => text'.core.type = TheCalls!NoGo
      /\ ~text.send => text'.core = TheCalls!Whole(text)
  <2>1. CASE text.send
    <3>1. text' = TheCalls!Refused
      BY <1>1, <2>1 DEF TheCalls!Grouped
    <3> QED
      BY <2>1, <3>1, RefusedFails DEF TheCalls!Refused, TheCalls!Text, TheCalls!Whole, Fails
  <2>2. CASE ~text.send
    BY <1>1, <2>2, TextFields, RefusedFails DEF TheCalls!Refused, TheCalls!Grouped
  <2> QED
    BY <2>1, <2>2
<1>5. TheCalls!GoAccepts' <=> TheCalls!GoAccepts /\ ~text.send
  BY <1>4 DEF TheCalls!GoAccepts
<1>6. (\A i \in 1 .. Size' : ~TheCalls!RefusedFor(i)')
        <=> (\A i \in 1 .. Size : ~TheCalls!RefusedFor(i)) /\ ~text.send
  <2>1. \A i \in 1 .. Size : TheCalls!RefusedFor(i)' <=> TheCalls!RefusedFor(i)
    BY <1>1, <1>3, RefusedBefore
  <2>2. ASSUME NEW i \in 1 .. Size', ~(i \in 1 .. Size)
        PROVE  TheCalls!RefusedFor(i)' <=> text.send
    <3>1. calls'[i] = "parens" /\ i = Size + 1
      BY <1>3, <2>2
    <3>2. ~TheCalls!TakenForSlice(i)' /\ ~TheCalls!ChannelNotSeen(i)' /\ ~TheCalls!OpenPrefix(i)' /\ ~TheCalls!HandleNotSeen(i)'
      BY <3>1 DEF TheCalls!TakenForSlice, TheCalls!ChannelNotSeen, TheCalls!OpenPrefix, TheCalls!ShortcutNames, TheCalls!HandleNotSeen
    <3>3. ~TheCalls!TakenForModule(i)'
      BY <3>1 DEF TheCalls!TakenForModule
    <3>4. TheCalls!SendInParens(i)' <=> text.send
      <4>1. Size = 1 => calls'[1] = calls[1] /\ types'[1] = types[1]
        BY <1>3
      <4>2. i = 2 <=> Size = 1
        BY <1>3, <3>1
      <4>3. text.send <=> Sent
        BY DEF CallInv, TextOK
      <4>4. TheCalls!Judged(1)' <=> Known
        BY <1>1 DEF TheCalls!Judged, TheCalls!IsVariable, Known
      <4>5. TheCalls!SendInParens(i)' <=>
              /\ i = 2 /\ calls'[2] = "parens" /\ calls'[1] = "send"
              /\ types'[1][1] \in TheCalls!Channels /\ TheCalls!Judged(1)'
        BY DEF TheCalls!SendInParens
      <4> QED
        BY <3>1, <4>1, <4>2, <4>3, <4>4, <4>5 DEF Sent
    <3> QED
      BY <3>2, <3>3, <3>4 DEF TheCalls!RefusedFor
  <2>3. 1 .. Size \subseteq 1 .. Size'
    BY <1>3
  <2>4. \E i \in 1 .. Size' : ~(i \in 1 .. Size)
    <3>1. ASSUME NEW k \in Nat, k = Size + 1 PROVE k \in 1 .. Size' /\ ~(k \in 1 .. Size)
      BY <1>3, <3>1
    <3> QED
      BY <1>3, <3>1
  <2> QED
    BY <2>1, <2>2, <2>3, <2>4
<1>7. HasEffects => HasEffects'
  <2>1. 1 .. Size \subseteq 1 .. Size'
    BY <1>3
  <2> QED
    BY <1>1, <1>3, <2>1 DEF HasEffects
<1>8. SourceOK'
  BY <1>1, <1>3, <1>7 DEF CallInv, SourceOK
<1>9. SemaOK'
  BY <1>1, <1>3 DEF CallInv, SemaOK
<1>10. TextOK'
  <2>1. Size' # 0
    BY <1>3
  <2>2. ~Received'
    <3>1. Size' = 1 => calls'[1] = "parens"
      BY <1>3
    <3> QED
      BY <3>1 DEF Received
  <2>3. TheCalls!GoAccepts' => TheCalls!Whole(text)'.type = TheCalls!Type'
    BY <1>3, <1>4, <1>5, CoreIsWhole DEF CallInv
  <2>5. ~Sent'
    <3>1. Size' = 1 => calls'[1] = "parens"
      BY <1>3
    <3> QED
      BY <3>1 DEF Sent
  <2>4. ~TheCalls!GoAccepts' => text'.core.type = TheCalls!NoGo
    BY <1>4, <1>5 DEF TheCalls!GoAccepts
  <2> QED
    BY <1>4, <2>1, <2>2, <2>3, <2>4, <2>5 DEF TextOK
<1>11. AcceptsOK'
  BY <1>5, <1>6 DEF CallInv, AcceptsOK
<1>12. RunsOK'
  <2>1. DOMAIN calls = 1 .. Size /\ DOMAIN calls' = 1 .. Size'
    BY <1>3 DEF CallInv, SourceOK, Size
  <2>2. TheCalls!CopiesEffects => TheCalls!CopiesEffects'
    <3>1. SUFFICES ASSUME TheCalls!CopiesEffects PROVE TheCalls!CopiesEffects'
      OBVIOUS
    <3>2. PICK i \in 1 .. Size : calls[i] = "copy" /\
             (root.form \in {"call", "literal"} \/ \E j \in 1 .. i - 1 : calls[j] \in TheCalls!Effectful)
      BY <2>1, <3>1 DEF TheCalls!CopiesEffects
    <3>3. i \in 1 .. Size' /\ calls'[i] = calls[i]
      BY <1>3
    <3>4. \A j \in 1 .. i - 1 : calls'[j] = calls[j]
      BY <1>3
    <3> QED
      BY <1>1, <2>1, <3>2, <3>3, <3>4 DEF TheCalls!CopiesEffects
  <2>3. Len(calls) = Size /\ Len(calls') = Size'
    BY DEF Size
  <2>4. TheCalls!ConvertsArgument => TheCalls!ConvertsArgument'
    BY <1>1, <1>3, <2>3 DEF TheCalls!ConvertsArgument
  <2> QED
    BY <1>1, <1>4, <1>5, <2>2, <2>4 DEF CallInv, RunsOK
<1>13. RootOK'
  BY <1>1 DEF CallInv, RootOK
<1> QED
  BY <1>8, <1>9, <1>10, <1>11, <1>12, <1>13 DEF CallInv

LEMMA DivideStep ==
  ASSUME CallInv, TheCalls!DivideBy
  PROVE  CallInv'
<1>1. /\ TheCalls!Type = <<"Duration">> /\ root' = root /\ calls' = calls /\ types' = types
      /\ typed' = typed /\ source' = source /\ text' = text
  BY DEF TheCalls!DivideBy
<1>2. /\ Size' = Size /\ TheCalls!Type' = TheCalls!Type /\ (TheCalls!GoAccepts' <=> TheCalls!GoAccepts) /\ (HasEffects' <=> HasEffects)
      /\ (TheCalls!CopiesEffects' <=> TheCalls!CopiesEffects) /\ (TheCalls!ConvertsArgument' <=> TheCalls!ConvertsArgument)
      /\ (AllTyped' <=> AllTyped)
  BY <1>1 DEF Size, TheCalls!Type, TheCalls!GoAccepts, HasEffects, TheCalls!CopiesEffects, TheCalls!ConvertsArgument, AllTyped
<1>3. \A i \in 1 .. Size : TheCalls!RefusedFor(i)' <=> TheCalls!RefusedFor(i)
  BY <1>1 DEF TheCalls!RefusedFor, TheCalls!TakenForSlice, TheCalls!HandleNotSeen, TheCalls!ChannelNotSeen, TheCalls!TakenForModule, TheCalls!OpenPrefix,
              TheCalls!SendInParens, TheCalls!HasModuleName, TheCalls!Judged, TheCalls!IsVariable
<1>4. RootOK' /\ SourceOK' /\ SemaOK'
  BY <1>1, <1>2 DEF CallInv, RootOK, SourceOK, SemaOK
<1>5. TextOK'
  BY <1>1, <1>2 DEF CallInv, TextOK, Received, Sent, Known
<1>6. AcceptsOK' /\ RunsOK'
  BY <1>1, <1>2, <1>3 DEF CallInv, AcceptsOK, RunsOK
<1> QED
  BY <1>4, <1>5, <1>6 DEF CallInv

LEMMA StutterCalls ==
  ASSUME CallInv, UNCHANGED TheCalls!vars
  PROVE  CallInv'
<1>1. /\ root' = root /\ calls' = calls /\ types' = types
      /\ typed' = typed /\ source' = source /\ text' = text /\ divides' = divides
  BY DEF TheCalls!vars
<1>2. /\ Size' = Size /\ TheCalls!Type' = TheCalls!Type /\ (TheCalls!GoAccepts' <=> TheCalls!GoAccepts) /\ (HasEffects' <=> HasEffects)
      /\ (TheCalls!CopiesEffects' <=> TheCalls!CopiesEffects) /\ (TheCalls!ConvertsArgument' <=> TheCalls!ConvertsArgument)
      /\ (AllTyped' <=> AllTyped)
  BY <1>1 DEF Size, TheCalls!Type, TheCalls!GoAccepts, HasEffects, TheCalls!CopiesEffects, TheCalls!ConvertsArgument, AllTyped
<1>3. \A i \in 1 .. Size : TheCalls!RefusedFor(i)' <=> TheCalls!RefusedFor(i)
  BY <1>1 DEF TheCalls!RefusedFor, TheCalls!TakenForSlice, TheCalls!HandleNotSeen, TheCalls!ChannelNotSeen, TheCalls!TakenForModule, TheCalls!OpenPrefix,
              TheCalls!SendInParens, TheCalls!HasModuleName, TheCalls!Judged, TheCalls!IsVariable
<1>4. RootOK' /\ SourceOK' /\ SemaOK'
  BY <1>1, <1>2 DEF CallInv, RootOK, SourceOK, SemaOK
<1>5. TextOK'
  BY <1>1, <1>2 DEF CallInv, TextOK, Received, Sent, Known
<1>6. AcceptsOK' /\ RunsOK'
  BY <1>1, <1>2, <1>3 DEF CallInv, AcceptsOK, RunsOK
<1> QED
  BY <1>4, <1>5, <1>6 DEF CallInv

LEMMA CallsBegin ==
  ASSUME TheCalls!Init
  PROVE  CallInv
<1>1. /\ calls = <<>> /\ divides = FALSE /\ types = <<root.type>>
      /\ typed = (IF root.known THEN root.type ELSE TheCalls!Unknown) /\ source = TheCalls!Leaf(root.form)
      /\ text = [prefix  |-> IF root.form = "literal" THEN "address" ELSE "none",
                 core    |-> TheCalls!GoExpr(IF root.form = "literal" THEN TheCalls!Composite ELSE root.type,
                                    TheCalls!Leaf(root.form)),
                 ident   |-> root.form = "variable",
                 product |-> root.form = "product",
                 send    |-> FALSE]
  BY DEF TheCalls!Init
<1>2. \A t \in TheCalls!RootTypes : Typed(t)
  <2>1. \A t \in {TheCalls!Slice(TheCalls!Scalar), TheCalls!Slice(TheCalls!Class), <<"Map", TheCalls!Scalar>>, <<"Map", TheCalls!Slice(TheCalls!Scalar)>>,
                  <<"Set", TheCalls!Scalar>>, <<"Stack", TheCalls!Scalar>>, <<"string">>, TheCalls!Class, <<"Handle">>,
                  <<"SendChan", TheCalls!Scalar>>} : Typed(t)
    BY DEF Typed, Kinds, Named, Receives, TheCalls!Slice, TheCalls!Class
  <2>2. \A t \in {TheCalls!Scalar, TheCalls!Slice(TheCalls!Scalar), TheCalls!Class, <<"Map", TheCalls!Scalar>>, <<"Channel", TheCalls!Scalar>>} : Element(t)
    BY DEF Element, Kinds, Named, Receives, TheCalls!Slice, TheCalls!Class, TheCalls!Scalar
  <2>3. ASSUME NEW c \in {"Channel", "RecvChan"},
               NEW t \in {TheCalls!Scalar, TheCalls!Slice(TheCalls!Scalar), TheCalls!Class, <<"Map", TheCalls!Scalar>>, <<"Channel", TheCalls!Scalar>>}
        PROVE  Typed(<<c, t>>)
    <3>1. Element(t)
      BY <2>2, Zenon
    <3> QED
      BY <3>1 DEF Typed, Kinds, Named, Receives
  <2> QED
    BY <2>1, <2>3 DEF TheCalls!RootTypes
<1>3. RootOK
  <2>1. CASE \E t \in TheCalls!RootTypes, n \in {"plain"} \cup TheCalls!ModuleNames, k \in BOOLEAN :
                root = [form |-> "variable", name |-> n, type |-> t, known |-> k]
    BY <1>2, <2>1 DEF RootOK
  <2>2. CASE \E t \in TheCalls!RootTypes, f \in {"call", "field"} :
                root = [form |-> f, name |-> "plain", type |-> t, known |-> TRUE]
    BY <1>2, <2>2 DEF RootOK
  <2>3. CASE root = [form |-> "literal", name |-> "plain", type |-> TheCalls!Class, known |-> TRUE]
    BY <2>3 DEF RootOK, Typed, TheCalls!Class, Kinds, Named, Receives
  <2>4. CASE root = [form |-> "product", name |-> "plain", type |-> <<"Duration">>, known |-> FALSE]
    BY <2>4 DEF RootOK, Typed, TheCalls!Class, Kinds, Named, Receives
  <2> QED
    BY <2>1, <2>2, <2>3, <2>4 DEF TheCalls!Init
<1>4. Size = 0 /\ TheCalls!Type = root.type /\ Typed(TheCalls!Type) /\ Len(types) = 1 /\ types[1] = root.type
  BY <1>1, <1>3 DEF Size, TheCalls!Type, TheCalls!Last, RootOK
<1>5. SourceOK
  <2>1. AllTyped
    <3>1. \A i \in DOMAIN types : i = 1
      BY <1>1
    <3> QED
      BY <1>4, <3>1, Zenon DEF AllTyped
  <2>2. types \in Seq({root.type})
    BY <1>1
  <2>3. IsSequence(types)
    BY <2>2, Zenon DEF IsSequence
  <2>4. ~HasEffects => source.effects = <<>>
    BY <1>1 DEF HasEffects, TheCalls!Leaf
  <2> QED
    BY <1>1, <1>4, <2>1, <2>3, <2>4 DEF SourceOK
<1>6. SemaOK
  BY <1>1, <1>4 DEF SemaOK
<1>7. /\ root.form # "literal" => TheCalls!Whole(text) = TheCalls!GoExpr(root.type, TheCalls!Leaf(root.form))
      /\ root.form = "literal" => TheCalls!Whole(text) = TheCalls!GoExpr(TheCalls!Class, TheCalls!Leaf(root.form))
  <2>1. CASE root.form # "literal"
    BY <1>1, <2>1 DEF TheCalls!Whole
  <2>2. CASE root.form = "literal"
    <3>1. TheCalls!Whole(text) = TheCalls!GoAddress(TheCalls!GoExpr(TheCalls!Composite, TheCalls!Leaf(root.form)))
      BY <1>1, <2>2 DEF TheCalls!Whole
    <3> QED
      BY <2>2, <3>1 DEF TheCalls!GoAddress, TheCalls!GoExpr
  <2> QED
    BY <2>1, <2>2
<1>8. TheCalls!Whole(text) = TheCalls!GoExpr(TheCalls!Type, TheCalls!Leaf(root.form))
  BY <1>3, <1>4, <1>7 DEF RootOK
<1>9. TheCalls!GoAccepts
  BY <1>4, <1>8, TypedKinds, GoExprFields DEF TheCalls!GoAccepts
<1>10. TextOK
  <2>1. ~Received /\ ~Sent
    BY <1>4 DEF Received, Sent
  <2>2. text.core.type = IF root.form = "literal" THEN TheCalls!Composite ELSE root.type
    BY <1>1, GoExprFields
  <2>3. TheCalls!Whole(text).type = TheCalls!Type
    BY <1>8, GoExprFields
  <2>4. /\ text.ident <=> root.form = "variable"
        /\ text.product <=> root.form = "product"
        /\ text.prefix = IF root.form = "literal" THEN "address" ELSE "none"
        /\ text.ident \in BOOLEAN /\ text.product \in BOOLEAN /\ text.send = FALSE
    BY <1>1
  <2> QED
    BY <1>4, <1>9, <2>1, <2>2, <2>3, <2>4 DEF TextOK
<1>11. AcceptsOK
  BY <1>4, <1>9 DEF AcceptsOK
<1>12. RunsOK
  BY <1>1, <1>8, GoExprFields DEF RunsOK
<1> QED
  BY <1>3, <1>5, <1>6, <1>10, <1>11, <1>12 DEF CallInv

LEMMA CallInvSuffices ==
  ASSUME CallInv
  PROVE  TheCalls!CallsRunAsTyped
<1>1. DOMAIN calls = 1 .. Size /\ Size \in Nat /\ (calls = <<>> <=> Size = 0)
  BY DEF CallInv, SourceOK, Size
<1>2. TheCalls!GoAccepts <=> \A i \in DOMAIN calls : ~TheCalls!RefusedFor(i)
  BY <1>1 DEF CallInv, AcceptsOK
<1>3. ~TheCalls!DividesByProduct => TheCalls!GoValue = TheCalls!Whole(text).value
  BY <1>1 DEF CallInv, TextOK, TheCalls!DividesByProduct, TheCalls!GoValue
<1> QED
  BY <1>2, <1>3 DEF CallInv, RunsOK, TheCalls!CallsRunAsTyped

LEMMA CallInvariant == LoweringSpec => []CallInv
<1>1. LoweringInit => CallInv
  BY CallsBegin DEF LoweringInit
<1>2. CallInv /\ [LoweringNext]_loweringVars => CallInv'
  <2> SUFFICES ASSUME CallInv, [LoweringNext]_loweringVars PROVE CallInv'
    OBVIOUS
  <2>1. ASSUME NEW m \in TheCalls!AllMethods, TheCalls!Call(m) PROVE CallInv'
    BY <2>1, CallStep
  <2>2. CASE TheCalls!Group
    BY <2>2, GroupStep
  <2>3. CASE TheCalls!DivideBy
    BY <2>3, DivideStep
  <2>4. CASE UNCHANGED callVars
    BY <2>4, StutterCalls DEF callVars, TheCalls!vars
  <2> QED
    BY <2>1, <2>2, <2>3, <2>4 DEF LoweringNext, TheCalls!Next, loweringVars
<1> QED
  BY <1>1, <1>2, PTL DEF LoweringSpec

(* A chain of calls runs as it is typed, for every root and every length,  *)
(* but for the lowerings that the property names (emitCall).               *)
THEOREM CallsAlwaysRunAsTyped == LoweringSpec => []CallsRunAsTyped
<1>1. CallInv => CallsRunAsTyped
  BY CallInvSuffices DEF CallsRunAsTyped
<1> QED
  BY <1>1, CallInvariant, PTL


-----------------------------------------------------------------------------
(* TryHoist: the tries of a statement of every size.                       *)


-----------------------------------------------------------------------------
(* Induction and recursion over the first numbers.                         *)

\* What holds of a number if it holds of those before it holds of all.
LEMMA Induction ==
  ASSUME NEW L \in Nat, NEW N \in Nat, NEW S,
         \A n \in L .. N : (\A k \in L .. n - 1 : k \in S) => n \in S
  PROVE  \A n \in L .. N : n \in S
<1> DEFINE bad == {n \in L .. N : n \notin S}
<1>1. SUFFICES ASSUME bad # {} PROVE FALSE
  OBVIOUS
<1>2. bad \in SUBSET Nat /\ IsFiniteSet(bad)
  <2>1. IsFiniteSet(L .. N) /\ bad \subseteq L .. N
    BY FS_Interval
  <2> QED
    BY <2>1, FS_Subset
<1>3. PICK n \in bad : \A j \in bad : n =< j
  <2> HIDE DEF bad
  <2> QED
    BY <1>1, <1>2, HasMinimum
<1>4. \A k \in L .. n - 1 : k \in S
  BY <1>3
<1> QED
  BY <1>3, <1>4

\* A function may be defined by what it is at smaller numbers.
OnlyBefore(G, L, N, V) ==
  \A n \in L .. N : \A f, g \in [L .. N -> V] :
    (\A k \in L .. n - 1 : f[k] = g[k]) => G[n][f] = G[n][g]
Solves(f, G, L, N) == \A n \in L .. N : f[n] = G[n][f]

LEMMA Recursion ==
  ASSUME NEW L \in Nat, NEW N \in Nat, NEW V, V # {},
         NEW G \in [L .. N -> [[L .. N -> V] -> V]],
         OnlyBefore(G, L, N, V)
  PROVE  \E f \in [L .. N -> V] : Solves(f, G, L, N)
<1> DEFINE D == L .. N
           Upto(m, f) == \A n \in D : n < m => f[n] = G[n][f]
           S == {m \in Nat : \E f \in [D -> V] : Upto(m, f)}
<1>1. PICK d \in V : TRUE
  OBVIOUS
<1>2. /\ \A m \in Nat : m \in S <=> \E f \in [D -> V] : Upto(m, f)
      /\ \A m \in Nat, f \in [D -> V] : Upto(m, f) <=> \A n \in D : n < m => f[n] = G[n][f]
      /\ \A n \in D : n \in Nat /\ n >= L /\ n =< N
      /\ \A n \in Nat : n >= L /\ n =< N => n \in D
  <2>1. \A m \in Nat : m \in S <=> \E f \in [D -> V] : Upto(m, f)
    <3> HIDE DEF Upto, D
    <3> QED
      BY Zenon DEF S
  <2>2. \A m \in Nat, f \in [D -> V] : Upto(m, f) <=> \A n \in D : n < m => f[n] = G[n][f]
    BY Zenon DEF Upto
  <2>3. /\ \A n \in D : n \in Nat /\ n >= L /\ n =< N
        /\ \A n \in Nat : n >= L /\ n =< N => n \in D
    OBVIOUS
  <2> QED
    BY <2>1, <2>2, <2>3, Zenon
<1>a. \A n \in D : G[n] \in [[D -> V] -> V]
  OBVIOUS
<1>b. \A n \in D : \A f, g \in [D -> V] :
           (\A k \in L .. n - 1 : f[k] = g[k]) => G[n][f] = G[n][g]
  BY DEF OnlyBefore
<1> HIDE DEF S, Upto, D
<1>3. ASSUME NEW m \in 0 .. N + 1, \A k \in 0 .. m - 1 : k \in S
      PROVE  m \in S
  <2>1. CASE m = 0
    <3> DEFINE f == [n \in D |-> d]
    <3>1. f \in [D -> V]
      OBVIOUS
    <3> HIDE DEF f
    <3>2. Upto(0, f)
      <4>1. \A n \in D : ~(n < 0)
        BY <1>2
      <4> QED
        BY <1>2, <3>1, <4>1
    <3> QED
      BY <1>2, <2>1, <3>1, <3>2
  <2>2. CASE m # 0
    <3> m \in Nat /\ m - 1 \in Nat /\ m - 1 \in 0 .. m - 1
      BY <2>2
    <3>1. m - 1 \in S
      BY <1>3
    <3>2. PICK f \in [D -> V] : Upto(m - 1, f)
      BY <1>2, <3>1
    <3>3. CASE m - 1 \notin D
      <4>1. \A n \in D : n < m => n < m - 1
        BY <1>2, <3>3
      <4>2. Upto(m, f)
        BY <1>2, <3>2, <4>1
      <4> QED
        BY <1>2, <4>2
    <3>4. CASE m - 1 \in D
      <4> DEFINE g == [f EXCEPT ![m - 1] = G[m - 1][f]]
      <4>3. g \in [D -> V] /\ g[m - 1] = G[m - 1][f] /\ \A n \in D : n # m - 1 => g[n] = f[n]
        BY <1>a, <3>4
      <4> HIDE DEF g
      <4>4. ASSUME NEW n \in D, n < m
            PROVE  g[n] = G[n][g]
        <5>1. \A k \in L .. n - 1 : f[k] = g[k]
          <6>1. ASSUME NEW k \in L .. n - 1 PROVE k \in D /\ k # m - 1
            BY <1>2, <4>4
          <6> QED
            BY <4>3, <6>1
        <5>2. G[n][f] = G[n][g]
          BY <1>b, <4>3, <5>1
        <5>3. CASE n = m - 1
          BY <4>3, <5>2, <5>3
        <5>4. CASE n # m - 1
          <6>1. n < m - 1
            BY <1>2, <4>4, <5>4
          <6>2. f[n] = G[n][f]
            BY <1>2, <3>2, <6>1
          <6> QED
            BY <4>3, <5>2, <5>4, <6>2
        <5> QED
          BY <5>3, <5>4
      <4>5. Upto(m, g)
        BY <1>2, <4>3, <4>4
      <4> QED
        BY <1>2, <4>3, <4>5
    <3> QED
      BY <3>3, <3>4
  <2> QED
    BY <2>1, <2>2
<1>4. \A m \in 0 .. N + 1 : m \in S
  <2>1. 0 \in Nat /\ N + 1 \in Nat
    OBVIOUS
  <2>2. \A m \in 0 .. N + 1 : (\A k \in 0 .. m - 1 : k \in S) => m \in S
    BY <1>3
  <2> QED
    BY <2>1, <2>2, Induction
<1>5. N + 1 \in Nat /\ N + 1 \in 0 .. N + 1
  OBVIOUS
<1>6. PICK f \in [D -> V] : Upto(N + 1, f)
  BY <1>2, <1>4, <1>5
<1>7. \A n \in D : n < N + 1
  BY <1>2
<1>8. \A n \in D : f[n] = G[n][f]
  BY <1>2, <1>5, <1>6, <1>7
<1> QED
  BY <1>6, <1>8 DEF D, Solves

-----------------------------------------------------------------------------
(* The shape of a statement.                                               *)

Total == Len(nodes)

\* The operands of n end right before it, and begin at low[n].
ShapeOf(n, low) ==
  \/ /\ TheTries!Kids(n) = <<>> /\ low[n] = n
     /\ TheTries!KindOf(n) \in {"leaf", "call"}
  \/ /\ n - 1 \in TheTries!Node /\ TheTries!Kids(n) = <<n - 1>> /\ low[n] = low[n - 1]
     /\ TheTries!KindOf(n) \in {"call", "branch", "try"}
  \/ /\ n - 1 \in TheTries!Node
     /\ \E a \in TheTries!Node : a + 1 = low[n - 1] /\ TheTries!Kids(n) = <<a, n - 1>> /\ low[n] = low[a]
     /\ TheTries!KindOf(n) \in {"both", "point", "logic"}

\* Two expressions are apart, or one is within the other.
Forest(low) ==
  /\ Total \in Nat /\ TheTries!Node = 1 .. Total
  /\ low \in [TheTries!Node -> Nat] /\ \A n \in TheTries!Node : 1 =< low[n] /\ low[n] =< n
  /\ \A n \in TheTries!Node : ShapeOf(n, low)
  /\ \A x, y \in TheTries!Node : x < y => x < low[y] \/ low[y] =< low[x]

\* What the walks go into, by kind.
Single(n, k) == k \in TheTries!Node /\ k = n - 1 /\ TheTries!Kids(n) = <<k>>
Pair(n, a, b, low) == a \in TheTries!Node /\ b \in TheTries!Node /\ a < b /\ b = n - 1 /\ TheTries!Kids(n) = <<a, b>>
                        /\ a + 1 = low[b] /\ low[n] = low[a]

LEMMA Forms ==
  ASSUME NEW low, Forest(low), NEW n \in TheTries!Node
  PROVE  \/ TheTries!KindOf(n) = "leaf" /\ low[n] = n /\ TheTries!Kids(n) = <<>>
         \/ TheTries!KindOf(n) = "call" /\ low[n] = n /\ TheTries!Kids(n) = <<>>
         \/ \E k : TheTries!KindOf(n) \in {"call", "branch", "try"} /\ low[n] = low[k] /\ Single(n, k)
         \/ \E a, b : TheTries!KindOf(n) \in {"both", "point", "logic"} /\ Pair(n, a, b, low)
<1>1. ShapeOf(n, low)
  BY DEF Forest
<1>2. CASE n - 1 \in TheTries!Node /\ TheTries!Kids(n) = <<n - 1>> /\ low[n] = low[n - 1]
             /\ TheTries!KindOf(n) \in {"call", "branch", "try"}
  <2>1. Single(n, n - 1)
    BY <1>2 DEF Single
  <2> QED
    BY <1>2, <2>1
<1>3. CASE /\ n - 1 \in TheTries!Node
           /\ \E a \in TheTries!Node : a + 1 = low[n - 1] /\ TheTries!Kids(n) = <<a, n - 1>> /\ low[n] = low[a]
           /\ TheTries!KindOf(n) \in {"both", "point", "logic"}
  <2>1. PICK a \in TheTries!Node : a + 1 = low[n - 1] /\ TheTries!Kids(n) = <<a, n - 1>> /\ low[n] = low[a]
    BY <1>3
  <2>2. a < n - 1
    BY <1>3, <2>1 DEF Forest
  <2>3. Pair(n, a, n - 1, low)
    BY <1>3, <2>1, <2>2 DEF Pair
  <2> QED
    BY <1>3, <2>3
<1> QED
  BY <1>1, <1>2, <1>3 DEF ShapeOf

LEMMA Parts ==
  ASSUME NEW n \in TheTries!Node
  PROVE  /\ TheTries!Kids(n) = <<>> => /\ TheTries!KindOf(n) # "logic" => TheTries!Descended(n) = <<>>
                                       /\ \A cond : TheTries!KindOf(n) # "logic" => TheTries!Evaluated(n, cond) = <<>>
         /\ \A k : TheTries!Kids(n) = <<k>> =>
              /\ TheTries!KindOf(n) \in {"call", "try"} =>
                   TheTries!Descended(n) = <<k>> /\ \A cond : TheTries!Evaluated(n, cond) = <<k>>
              /\ TheTries!KindOf(n) = "branch" =>
                   /\ TheTries!Descended(n) = <<>>
                   /\ \A cond : TheTries!Evaluated(n, cond) = IF n \in cond THEN <<k>> ELSE <<>>
         /\ \A a, b : TheTries!Kids(n) = <<a, b>> =>
              /\ TheTries!KindOf(n) \in {"both", "point"} =>
                   TheTries!Descended(n) = <<a, b>> /\ \A cond : TheTries!Evaluated(n, cond) = <<a, b>>
              /\ TheTries!KindOf(n) = "logic" =>
                   /\ TheTries!Descended(n) = <<a>>
                   /\ \A cond : TheTries!Evaluated(n, cond) = IF n \in cond THEN <<a, b>> ELSE <<a>>
  BY DEF TheTries!Descended, TheTries!Evaluated

LEMMA JoinedNone ==
  ASSUME NEW f
  PROVE  TheTries!Joined(f, <<>>) = <<>>
<1>1. Len(<<>>) = 0
  OBVIOUS
<1> QED
  BY <1>1, Zenon DEF TheTries!Joined

LEMMA JoinedOne ==
  ASSUME NEW f, NEW a
  PROVE  TheTries!Joined(f, <<a>>) = f[a]
<1>1. Len(<<a>>) = 1 /\ 1 # 0 /\ <<a>>[1] = a
  OBVIOUS
<1> QED
  BY <1>1, Zenon DEF TheTries!Joined

LEMMA JoinedTwo ==
  ASSUME NEW f, NEW a, NEW b
  PROVE  TheTries!Joined(f, <<a, b>>) = f[a] \o f[b]
<1>1. Len(<<a, b>>) = 2 /\ 2 # 0 /\ 2 # 1 /\ <<a, b>>[1] = a /\ <<a, b>>[2] = b
  OBVIOUS
<1> QED
  BY <1>1, Zenon DEF TheTries!Joined

LEMMA ThroughNone ==
  ASSUME NEW f, NEW s
  PROVE  TheTries!Through(f, <<>>, s) = s
<1>1. Len(<<>>) = 0
  OBVIOUS
<1> QED
  BY <1>1, Zenon DEF TheTries!Through

LEMMA ThroughOne ==
  ASSUME NEW f, NEW a, NEW s
  PROVE  TheTries!Through(f, <<a>>, s) = f[a][s]
<1>1. Len(<<a>>) = 1 /\ 1 # 0 /\ <<a>>[1] = a
  OBVIOUS
<1> QED
  BY <1>1, Zenon DEF TheTries!Through

LEMMA ThroughTwo ==
  ASSUME NEW f, NEW a, NEW b, NEW s
  PROVE  TheTries!Through(f, <<a, b>>, s) = f[b][f[a][s]]
<1>1. Len(<<a, b>>) = 2 /\ 2 # 0 /\ 2 # 1 /\ <<a, b>>[1] = a /\ <<a, b>>[2] = b
  OBVIOUS
<1> QED
  BY <1>1, Zenon DEF TheTries!Through

\* All parts of n are before it.
LEMMA Operands ==
  ASSUME NEW low, Forest(low), NEW n \in TheTries!Node
  PROVE  /\ \/ TheTries!Descended(n) = <<>>
            \/ \E k \in 1 .. n - 1 : TheTries!Descended(n) = <<k>>
            \/ \E a, b \in 1 .. n - 1 : TheTries!Descended(n) = <<a, b>>
         /\ \A cond : \/ TheTries!Evaluated(n, cond) = <<>>
                     \/ \E k \in 1 .. n - 1 : TheTries!Evaluated(n, cond) = <<k>>
                     \/ \E a, b \in 1 .. n - 1 : TheTries!Evaluated(n, cond) = <<a, b>>
         /\ \/ TheTries!Kids(n) = <<>>
            \/ \E k \in 1 .. n - 1 : TheTries!Kids(n) = <<k>>
            \/ \E a, b \in 1 .. n - 1 : TheTries!Kids(n) = <<a, b>>
         /\ 1 .. n - 1 \subseteq TheTries!Node
<1>0. 1 .. n - 1 \subseteq TheTries!Node
  BY DEF Forest
<1>1. CASE TheTries!Kids(n) = <<>> /\ TheTries!KindOf(n) # "logic"
  BY <1>0, <1>1, Parts
<1>2. ASSUME NEW k, TheTries!KindOf(n) \in {"call", "branch", "try"}, Single(n, k)
      PROVE  /\ k \in 1 .. n - 1 /\ TheTries!Kids(n) = <<k>>
             /\ TheTries!Descended(n) \in {<<>>, <<k>>}
             /\ \A cond : TheTries!Evaluated(n, cond) \in {<<>>, <<k>>}
  <2>1. k \in 1 .. n - 1 /\ TheTries!Kids(n) = <<k>>
    BY <1>2 DEF Forest, Single
  <2> QED
    BY <1>2, <2>1, Parts
<1>3. ASSUME NEW a, NEW b, TheTries!KindOf(n) \in {"both", "point", "logic"}, Pair(n, a, b, low)
      PROVE  /\ a \in 1 .. n - 1 /\ b \in 1 .. n - 1 /\ TheTries!Kids(n) = <<a, b>>
             /\ TheTries!Descended(n) \in {<<a>>, <<a, b>>}
             /\ \A cond : TheTries!Evaluated(n, cond) \in {<<a>>, <<a, b>>}
  <2>1. a \in 1 .. n - 1 /\ b \in 1 .. n - 1 /\ TheTries!Kids(n) = <<a, b>>
    BY <1>3 DEF Forest, Pair
  <2> QED
    BY <1>3, <2>1, Parts
<1>4. CASE \E k : TheTries!KindOf(n) \in {"call", "branch", "try"} /\ Single(n, k)
  <2>1. PICK k : TheTries!KindOf(n) \in {"call", "branch", "try"} /\ Single(n, k)
    BY <1>4
  <2> QED
    BY <1>0, <1>2, <2>1
<1>5. CASE \E a, b : TheTries!KindOf(n) \in {"both", "point", "logic"} /\ Pair(n, a, b, low)
  <2>1. PICK a, b : TheTries!KindOf(n) \in {"both", "point", "logic"} /\ Pair(n, a, b, low)
    BY <1>5
  <2> QED
    BY <1>0, <1>3, <2>1
<1>6. TheTries!KindOf(n) = "leaf" \/ TheTries!KindOf(n) = "call" => TheTries!KindOf(n) # "logic"
  OBVIOUS
<1> QED
  BY <1>1, <1>4, <1>5, <1>6, Forms

-----------------------------------------------------------------------------
(* The recursive functions of the model are what their equations say.      *)

WalkStep(f, n) == [seen \in TheTries!Purity |->
  IF seen = "unsafe" THEN seen
  ELSE IF TheTries!KindOf(n) = "try"
  THEN IF seen = "impure" THEN "unsafe"
                          ELSE TheTries!Restored(seen, TheTries!Through(f, TheTries!Descended(n), "pure"))
  ELSE IF TheTries!Marks(n) /\ TheTries!Through(f, TheTries!Descended(n), seen) # "unsafe"
       THEN "impure" ELSE TheTries!Through(f, TheTries!Descended(n), seen)]

\* What is passed on through the parts of n depends on what is before n.
LEMMA ThroughAgrees ==
  ASSUME NEW low, Forest(low), NEW n \in TheTries!Node, NEW f, NEW g,
         \A k \in 1 .. n - 1 : f[k] = g[k], NEW s
  PROVE  TheTries!Through(f, TheTries!Descended(n), s) = TheTries!Through(g, TheTries!Descended(n), s)
<1>1. CASE TheTries!Descended(n) = <<>>
  <2>1. TheTries!Through(f, <<>>, s) = s /\ TheTries!Through(g, <<>>, s) = s
    BY ThroughNone, ThroughOne, ThroughTwo
  <2> QED
    BY <1>1, <2>1
<1>2. CASE \E k \in 1 .. n - 1 : TheTries!Descended(n) = <<k>>
  <2>1. PICK k \in 1 .. n - 1 : TheTries!Descended(n) = <<k>>
    BY <1>2
  <2>2. TheTries!Through(f, <<k>>, s) = f[k][s] /\ TheTries!Through(g, <<k>>, s) = g[k][s]
    BY ThroughNone, ThroughOne, ThroughTwo
  <2> QED
    BY <2>1, <2>2
<1>3. CASE \E a, b \in 1 .. n - 1 : TheTries!Descended(n) = <<a, b>>
  <2>1. PICK a \in 1 .. n - 1, b \in 1 .. n - 1 : TheTries!Descended(n) = <<a, b>>
    BY <1>3
  <2>2. TheTries!Through(f, <<a, b>>, s) = f[b][f[a][s]] /\ TheTries!Through(g, <<a, b>>, s) = g[b][g[a][s]]
    BY ThroughNone, ThroughOne, ThroughTwo
  <2> QED
    BY <2>1, <2>2
<1> QED
  BY <1>1, <1>2, <1>3, Operands

LEMMA ThroughTyped ==
  ASSUME NEW low, Forest(low), NEW n \in TheTries!Node, NEW f,
         \A k \in 1 .. n - 1 : f[k] \in [TheTries!Purity -> TheTries!Purity], NEW s \in TheTries!Purity
  PROVE  TheTries!Through(f, TheTries!Descended(n), s) \in TheTries!Purity
<1>1. CASE TheTries!Descended(n) = <<>>
  <2>1. TheTries!Through(f, <<>>, s) = s
    BY ThroughNone, ThroughOne, ThroughTwo
  <2> QED
    BY <1>1, <2>1
<1>2. CASE \E k \in 1 .. n - 1 : TheTries!Descended(n) = <<k>>
  <2>1. PICK k \in 1 .. n - 1 : TheTries!Descended(n) = <<k>>
    BY <1>2
  <2>2. TheTries!Through(f, <<k>>, s) = f[k][s] /\ f[k] \in [TheTries!Purity -> TheTries!Purity]
    BY ThroughNone, ThroughOne, ThroughTwo
  <2> QED
    BY <2>1, <2>2
<1>3. CASE \E a, b \in 1 .. n - 1 : TheTries!Descended(n) = <<a, b>>
  <2>1. PICK a \in 1 .. n - 1, b \in 1 .. n - 1 : TheTries!Descended(n) = <<a, b>>
    BY <1>3
  <2>2. TheTries!Through(f, <<a, b>>, s) = f[b][f[a][s]]
    BY ThroughNone, ThroughOne, ThroughTwo
  <2>3. f[a] \in [TheTries!Purity -> TheTries!Purity] /\ f[b] \in [TheTries!Purity -> TheTries!Purity]
    OBVIOUS
  <2>4. f[b][f[a][s]] \in TheTries!Purity
    BY <2>3
  <2> QED
    BY <2>1, <2>2, <2>4
<1> QED
  BY <1>1, <1>2, <1>3, Operands

LEMMA WalkUnfolds ==
  ASSUME NEW low, Forest(low)
  PROVE  /\ TheTries!walk \in [TheTries!Node -> [TheTries!Purity -> TheTries!Purity]]
         /\ \A n \in TheTries!Node : TheTries!walk[n] = WalkStep(TheTries!walk, n)
<1> DEFINE V == [TheTries!Purity -> TheTries!Purity]
           G == [n \in TheTries!Node |-> [f \in [TheTries!Node -> V] |-> WalkStep(f, n)]]
<1>1. /\ TheTries!Node = 1 .. Total /\ Total \in Nat
      /\ \A n \in TheTries!Node : 1 .. n - 1 \subseteq TheTries!Node
  BY DEF Forest
<1>2. "pure" \in TheTries!Purity /\ "impure" \in TheTries!Purity /\ "unsafe" \in TheTries!Purity
  BY DEF TheTries!Purity
<1>3. ASSUME NEW n \in TheTries!Node, NEW f \in [TheTries!Node -> V]
      PROVE  WalkStep(f, n) \in V
  <2>1. \A k \in 1 .. n - 1 : f[k] \in [TheTries!Purity -> TheTries!Purity]
    BY <1>1
  <2>2. \A s \in TheTries!Purity : TheTries!Through(f, TheTries!Descended(n), s) \in TheTries!Purity
    BY <2>1, ThroughTyped
  <2> QED
    BY <1>2, <2>2 DEF WalkStep, TheTries!Restored
<1>4. ASSUME NEW n \in TheTries!Node, NEW f, NEW g, \A k \in 1 .. n - 1 : f[k] = g[k]
      PROVE  WalkStep(f, n) = WalkStep(g, n)
  <2>1. \A s : TheTries!Through(f, TheTries!Descended(n), s) = TheTries!Through(g, TheTries!Descended(n), s)
    BY <1>4, ThroughAgrees
  <2> QED
    BY <2>1 DEF WalkStep
<1>5. /\ V # {} /\ G \in [TheTries!Node -> [[TheTries!Node -> V] -> V]]
      /\ \A n \in TheTries!Node, f \in [TheTries!Node -> V] : G[n][f] = WalkStep(f, n)
  <2>1. [p \in TheTries!Purity |-> p] \in V
    OBVIOUS
  <2>2. V # {}
    BY <2>1
  <2> HIDE DEF V
  <2> QED
    BY <1>3, <2>2
<1> HIDE DEF G, V
<1>6. OnlyBefore(G, 1, Total, V)
  <2>1. \A n \in TheTries!Node : \A f, g \in [TheTries!Node -> V] :
          (\A k \in 1 .. n - 1 : f[k] = g[k]) => G[n][f] = G[n][g]
    BY <1>4, <1>5
  <2> QED
    BY <1>1, <2>1 DEF OnlyBefore
<1>7. PICK f \in [TheTries!Node -> V] : Solves(f, G, 1, Total)
  <2>1. /\ G \in [1 .. Total -> [[1 .. Total -> V] -> V]] /\ V # {}
        /\ 1 \in Nat /\ Total \in Nat
    BY <1>1, <1>5
  <2>2. \E f \in [1 .. Total -> V] : Solves(f, G, 1, Total)
    BY <1>6, <2>1, Recursion
  <2> QED
    BY <1>1, <2>2
<1>8. f = [n \in TheTries!Node |-> WalkStep(f, n)] /\ \A n \in TheTries!Node : f[n] = WalkStep(f, n)
  <2>1. \A n \in TheTries!Node : f[n] = WalkStep(f, n)
    BY <1>1, <1>5, <1>7 DEF Solves
  <2> QED
    BY <2>1
<1>9. TheTries!walk = CHOOSE w : w = [n \in TheTries!Node |-> WalkStep(w, n)]
  BY Zenon DEF TheTries!walk, WalkStep
<1>10. TheTries!walk = [n \in TheTries!Node |-> WalkStep(TheTries!walk, n)]
  BY <1>8, <1>9
<1>11. \A n \in TheTries!Node : TheTries!walk[n] = WalkStep(TheTries!walk, n)
  BY <1>10
<1>12. TheTries!walk = f
  <2> DEFINE S == {n \in TheTries!Node : TheTries!walk[n] = f[n]}
  <2>1. ASSUME NEW n \in TheTries!Node, \A k \in 1 .. n - 1 : k \in S
        PROVE  n \in S
    BY <1>4, <1>8, <1>11, <2>1
  <2>2. \A n \in TheTries!Node : n \in S
    <3>1. 1 \in Nat /\ \A n \in 1 .. Total : (\A k \in 1 .. n - 1 : k \in S) => n \in S
      BY <1>1, <2>1
    <3> HIDE DEF S
    <3> QED
      BY <1>1, <3>1, Induction
  <2> QED
    BY <1>8, <1>10, <2>2
<1> QED
  BY <1>11, <1>12 DEF V

\* One list es of the parts of n.
PartsBefore(n, es) ==
  \/ es = <<>>
  \/ \E k \in 1 .. n - 1 : es = <<k>>
  \/ \E a, b \in 1 .. n - 1 : es = <<a, b>>

LEMMA JoinedAgrees ==
  ASSUME NEW n, NEW es, PartsBefore(n, es), NEW f, NEW g, \A k \in 1 .. n - 1 : f[k] = g[k]
  PROVE  TheTries!Joined(f, es) = TheTries!Joined(g, es)
<1>1. CASE es = <<>>
  BY <1>1, JoinedNone
<1>2. CASE \E k \in 1 .. n - 1 : es = <<k>>
  <2>1. PICK k \in 1 .. n - 1 : es = <<k>>
    BY <1>2
  <2>2. TheTries!Joined(f, <<k>>) = f[k] /\ TheTries!Joined(g, <<k>>) = g[k]
    BY JoinedOne
  <2> QED
    BY <2>1, <2>2
<1>3. CASE \E a, b \in 1 .. n - 1 : es = <<a, b>>
  <2>1. PICK a \in 1 .. n - 1, b \in 1 .. n - 1 : es = <<a, b>>
    BY <1>3
  <2>2. TheTries!Joined(f, <<a, b>>) = f[a] \o f[b] /\ TheTries!Joined(g, <<a, b>>) = g[a] \o g[b]
    BY JoinedTwo
  <2>3. f[a] = g[a] /\ f[b] = g[b]
    OBVIOUS
  <2> QED
    BY <2>1, <2>2, <2>3
<1> QED
  BY <1>1, <1>2, <1>3 DEF PartsBefore

LEMMA JoinedTyped ==
  ASSUME NEW n, NEW es, PartsBefore(n, es), NEW T, NEW f, \A k \in 1 .. n - 1 : f[k] \in Seq(T)
  PROVE  TheTries!Joined(f, es) \in Seq(T)
<1>1. CASE es = <<>>
  <2>1. <<>> \in Seq(T)
    OBVIOUS
  <2> QED
    BY <1>1, <2>1, JoinedNone
<1>2. CASE \E k \in 1 .. n - 1 : es = <<k>>
  <2>1. PICK k \in 1 .. n - 1 : es = <<k>>
    BY <1>2
  <2> QED
    BY <2>1, JoinedOne
<1>3. CASE \E a, b \in 1 .. n - 1 : es = <<a, b>>
  <2>1. PICK a \in 1 .. n - 1, b \in 1 .. n - 1 : es = <<a, b>>
    BY <1>3
  <2>2. TheTries!Joined(f, <<a, b>>) = f[a] \o f[b]
    BY JoinedTwo
  <2>3. f[a] \in Seq(T) /\ f[b] \in Seq(T)
    OBVIOUS
  <2>4. f[a] \o f[b] \in Seq(T)
    BY <2>3
  <2> QED
    BY <2>1, <2>2, <2>4
<1> QED
  BY <1>1, <1>2, <1>3 DEF PartsBefore

LEMMA AllPartsBefore ==
  ASSUME NEW low, Forest(low), NEW n \in TheTries!Node
  PROVE  /\ PartsBefore(n, TheTries!Descended(n)) /\ PartsBefore(n, TheTries!Kids(n))
         /\ \A cond : PartsBefore(n, TheTries!Evaluated(n, cond))
         /\ 1 .. n - 1 \subseteq TheTries!Node
  BY Operands DEF PartsBefore

HoistStep(f, n) ==
  IF TheTries!KindOf(n) # "try" THEN TheTries!Joined(f, TheTries!Descended(n))
  ELSE TheTries!Preambles(n, IF TheTries!Hoistable(TheTries!Kids(n)) THEN TheTries!Joined(f, TheTries!Descended(n)) ELSE <<>>)

LEMMA HoistUnfolds ==
  ASSUME NEW low, Forest(low)
  PROVE  /\ TheTries!hoist \in [TheTries!Node -> Seq(TheTries!Node)]
         /\ \A n \in TheTries!Node : TheTries!hoist[n] = HoistStep(TheTries!hoist, n)
<1> DEFINE V == Seq(TheTries!Node)
           G == [n \in TheTries!Node |-> [f \in [TheTries!Node -> V] |-> HoistStep(f, n)]]
<1>1. /\ TheTries!Node = 1 .. Total /\ Total \in Nat
      /\ \A n \in TheTries!Node : 1 .. n - 1 \subseteq TheTries!Node
  BY DEF Forest
<1>3. ASSUME NEW n \in TheTries!Node, NEW f \in [TheTries!Node -> V]
      PROVE  HoistStep(f, n) \in V
  <2>1. \A k \in 1 .. n - 1 : f[k] \in Seq(TheTries!Node)
    BY <1>1
  <2>2. TheTries!Joined(f, TheTries!Descended(n)) \in Seq(TheTries!Node)
    BY <2>1, AllPartsBefore, JoinedTyped
  <2>3. <<n>> \in Seq(TheTries!Node) /\ <<>> \in Seq(TheTries!Node)
    OBVIOUS
  <2>4. \A s \in Seq(TheTries!Node) : s \o <<n>> \in Seq(TheTries!Node)
    BY <2>3
  <2> QED
    BY <2>2, <2>3, <2>4 DEF HoistStep, TheTries!Preambles
<1>4. ASSUME NEW n \in TheTries!Node, NEW f, NEW g, \A k \in 1 .. n - 1 : f[k] = g[k]
      PROVE  HoistStep(f, n) = HoistStep(g, n)
  <2>1. TheTries!Joined(f, TheTries!Descended(n)) = TheTries!Joined(g, TheTries!Descended(n))
    BY <1>4, AllPartsBefore, JoinedAgrees
  <2> QED
    BY <2>1, Zenon DEF HoistStep
<1>5. /\ V # {} /\ G \in [TheTries!Node -> [[TheTries!Node -> V] -> V]]
      /\ \A n \in TheTries!Node, f \in [TheTries!Node -> V] : G[n][f] = HoistStep(f, n)
  <2>1. <<>> \in V
    OBVIOUS
  <2>2. V # {}
    BY <2>1
  <2> HIDE DEF V
  <2> QED
    BY <1>3, <2>2
<1> HIDE DEF G, V
<1>6. OnlyBefore(G, 1, Total, V)
  <2>1. \A n \in TheTries!Node : \A f, g \in [TheTries!Node -> V] :
          (\A k \in 1 .. n - 1 : f[k] = g[k]) => G[n][f] = G[n][g]
    BY <1>4, <1>5
  <2> QED
    BY <1>1, <2>1 DEF OnlyBefore
<1>7. PICK f \in [TheTries!Node -> V] : Solves(f, G, 1, Total)
  <2>1. /\ G \in [1 .. Total -> [[1 .. Total -> V] -> V]] /\ V # {}
        /\ 1 \in Nat /\ Total \in Nat
    BY <1>1, <1>5
  <2>2. \E f \in [1 .. Total -> V] : Solves(f, G, 1, Total)
    BY <1>6, <2>1, Recursion
  <2> QED
    BY <1>1, <2>2
<1>8. f = [n \in TheTries!Node |-> HoistStep(f, n)] /\ \A n \in TheTries!Node : f[n] = HoistStep(f, n)
  <2>1. \A n \in TheTries!Node : f[n] = HoistStep(f, n)
    BY <1>1, <1>5, <1>7 DEF Solves
  <2> QED
    BY <2>1
<1>9. TheTries!hoist = CHOOSE w : w = [n \in TheTries!Node |-> HoistStep(w, n)]
  BY Zenon DEF TheTries!hoist, HoistStep
<1>10. TheTries!hoist = [n \in TheTries!Node |-> HoistStep(TheTries!hoist, n)]
  BY <1>8, <1>9
<1>11. \A n \in TheTries!Node : TheTries!hoist[n] = HoistStep(TheTries!hoist, n)
  BY <1>10
<1>12. TheTries!hoist = f
  <2> DEFINE S == {n \in TheTries!Node : TheTries!hoist[n] = f[n]}
  <2>1. ASSUME NEW n \in TheTries!Node, \A k \in 1 .. n - 1 : k \in S
        PROVE  n \in S
    BY <1>4, <1>8, <1>11, <2>1
  <2>2. \A n \in TheTries!Node : n \in S
    <3>1. 1 \in Nat /\ \A n \in 1 .. Total : (\A k \in 1 .. n - 1 : k \in S) => n \in S
      BY <1>1, <2>1
    <3> HIDE DEF S
    <3> QED
      BY <1>1, <3>1, Induction
  <2> QED
    BY <1>8, <1>10, <2>2
<1> QED
  BY <1>11, <1>12 DEF V

EventsStep(f, n, done, cond) ==
  IF n \in done THEN <<>>
  ELSE IF TheTries!KindOf(n) = "branch" THEN <<n>> \o TheTries!Joined(f, TheTries!Evaluated(n, cond))
  ELSE IF TheTries!KindOf(n) \in {"call", "point", "try"} THEN TheTries!Joined(f, TheTries!Evaluated(n, cond)) \o <<n>>
  ELSE TheTries!Joined(f, TheTries!Evaluated(n, cond))

LEMMA EventsUnfolds ==
  ASSUME NEW low, Forest(low), NEW done, NEW cond
  PROVE  /\ TheTries!EventsOf(done, cond) \in [TheTries!Node -> Seq(TheTries!Node)]
         /\ \A n \in TheTries!Node : TheTries!EventsOf(done, cond)[n] = EventsStep(TheTries!EventsOf(done, cond), n, done, cond)
<1> DEFINE V == Seq(TheTries!Node)
           G == [n \in TheTries!Node |-> [f \in [TheTries!Node -> V] |-> EventsStep(f, n, done, cond)]]
<1>1. /\ TheTries!Node = 1 .. Total /\ Total \in Nat
      /\ \A n \in TheTries!Node : 1 .. n - 1 \subseteq TheTries!Node
  BY DEF Forest
<1>3. ASSUME NEW n \in TheTries!Node, NEW f \in [TheTries!Node -> V]
      PROVE  EventsStep(f, n, done, cond) \in V
  <2>1. \A k \in 1 .. n - 1 : f[k] \in Seq(TheTries!Node)
    BY <1>1
  <2>2. TheTries!Joined(f, TheTries!Evaluated(n, cond)) \in Seq(TheTries!Node)
    BY <2>1, AllPartsBefore, JoinedTyped
  <2>3. <<n>> \in Seq(TheTries!Node) /\ <<>> \in Seq(TheTries!Node)
    OBVIOUS
  <2>4. \A s \in Seq(TheTries!Node) : s \o <<n>> \in Seq(TheTries!Node) /\ <<n>> \o s \in Seq(TheTries!Node)
    BY <2>3
  <2> QED
    BY <2>2, <2>3, <2>4 DEF EventsStep
<1>4. ASSUME NEW n \in TheTries!Node, NEW f, NEW g, \A k \in 1 .. n - 1 : f[k] = g[k]
      PROVE  EventsStep(f, n, done, cond) = EventsStep(g, n, done, cond)
  <2>1. TheTries!Joined(f, TheTries!Evaluated(n, cond)) = TheTries!Joined(g, TheTries!Evaluated(n, cond))
    BY <1>4, AllPartsBefore, JoinedAgrees
  <2> QED
    BY <2>1, Zenon DEF EventsStep
<1>5. /\ V # {} /\ G \in [TheTries!Node -> [[TheTries!Node -> V] -> V]]
      /\ \A n \in TheTries!Node, f \in [TheTries!Node -> V] : G[n][f] = EventsStep(f, n, done, cond)
  <2>1. <<>> \in V
    OBVIOUS
  <2>2. V # {}
    BY <2>1
  <2> HIDE DEF V
  <2> QED
    BY <1>3, <2>2
<1> HIDE DEF G, V
<1>6. OnlyBefore(G, 1, Total, V)
  <2>1. \A n \in TheTries!Node : \A f, g \in [TheTries!Node -> V] :
          (\A k \in 1 .. n - 1 : f[k] = g[k]) => G[n][f] = G[n][g]
    BY <1>4, <1>5
  <2> QED
    BY <1>1, <2>1 DEF OnlyBefore
<1>7. PICK f \in [TheTries!Node -> V] : Solves(f, G, 1, Total)
  <2>1. /\ G \in [1 .. Total -> [[1 .. Total -> V] -> V]] /\ V # {}
        /\ 1 \in Nat /\ Total \in Nat
    BY <1>1, <1>5
  <2>2. \E f \in [1 .. Total -> V] : Solves(f, G, 1, Total)
    BY <1>6, <2>1, Recursion
  <2> QED
    BY <1>1, <2>2
<1>8. f = [n \in TheTries!Node |-> EventsStep(f, n, done, cond)] /\ \A n \in TheTries!Node : f[n] = EventsStep(f, n, done, cond)
  <2>1. \A n \in TheTries!Node : f[n] = EventsStep(f, n, done, cond)
    BY <1>1, <1>5, <1>7 DEF Solves
  <2> QED
    BY <2>1
<1>9. TheTries!EventsOf(done, cond) = CHOOSE w : w = [n \in TheTries!Node |-> EventsStep(w, n, done, cond)]
  BY Zenon DEF TheTries!EventsOf, EventsStep
<1>10. TheTries!EventsOf(done, cond) = [n \in TheTries!Node |-> EventsStep(TheTries!EventsOf(done, cond), n, done, cond)]
  BY <1>8, <1>9
<1>11. \A n \in TheTries!Node : TheTries!EventsOf(done, cond)[n] = EventsStep(TheTries!EventsOf(done, cond), n, done, cond)
  BY <1>10
<1>12. TheTries!EventsOf(done, cond) = f
  <2> DEFINE S == {n \in TheTries!Node : TheTries!EventsOf(done, cond)[n] = f[n]}
  <2>1. ASSUME NEW n \in TheTries!Node, \A k \in 1 .. n - 1 : k \in S
        PROVE  n \in S
    BY <1>4, <1>8, <1>11, <2>1
  <2>2. \A n \in TheTries!Node : n \in S
    <3>1. 1 \in Nat /\ \A n \in 1 .. Total : (\A k \in 1 .. n - 1 : k \in S) => n \in S
      BY <1>1, <2>1
    <3> HIDE DEF S
    <3> QED
      BY <1>1, <3>1, Induction
  <2> QED
    BY <1>8, <1>10, <2>2
<1> QED
  BY <1>11, <1>12 DEF V

\* The nodes of an expression are those from low[n] to n.
LEMMA WithinIs ==
  ASSUME NEW low, Forest(low)
  PROVE  \A n \in TheTries!Node : TheTries!Within(n) = low[n] .. n
<1> DEFINE Step(f, n) == {n} \cup UNION {f[k] : k \in TheTries!Range(TheTries!Kids(n))}
           f == [n \in TheTries!Node |-> low[n] .. n]
<1>1. /\ TheTries!Node = 1 .. Total /\ Total \in Nat
      /\ \A n \in TheTries!Node : 1 .. n - 1 \subseteq TheTries!Node
  BY DEF Forest
<1>2. ASSUME NEW n \in TheTries!Node
      PROVE  /\ f[n] = Step(f, n)
             /\ TheTries!Range(TheTries!Kids(n)) \subseteq 1 .. n - 1
  <2>0. n \in Nat /\ low[n] \in Nat /\ low[n] =< n
    BY DEF Forest
  <2>1. CASE TheTries!Kids(n) = <<>> /\ low[n] = n
    BY <2>0, <2>1 DEF TheTries!Range
  <2>2. ASSUME NEW k, low[n] = low[k], Single(n, k)
        PROVE  f[n] = Step(f, n) /\ TheTries!Range(TheTries!Kids(n)) \subseteq 1 .. n - 1
    <3>1. TheTries!Range(TheTries!Kids(n)) = {k} /\ k \in 1 .. n - 1
      BY <2>2, <1>1 DEF TheTries!Range, Single
    <3>2. Step(f, n) = {n} \cup (low[k] .. k)
      BY <3>1, <2>2 DEF Single
    <3>3. low[k] =< k /\ k = n - 1
      BY <2>2 DEF Forest, Single
    <3>4. low[n] .. n = {n} \cup (low[k] .. k)
      BY <2>0, <2>2, <3>3
    <3> QED
      BY <3>1, <3>2, <3>4
  <2>3. ASSUME NEW a, NEW b, Pair(n, a, b, low)
        PROVE  f[n] = Step(f, n) /\ TheTries!Range(TheTries!Kids(n)) \subseteq 1 .. n - 1
    <3>1. TheTries!Range(TheTries!Kids(n)) = {a, b} /\ a \in 1 .. n - 1 /\ b \in 1 .. n - 1
      BY <2>3, <1>1 DEF TheTries!Range, Pair
    <3>2. Step(f, n) = {n} \cup (low[a] .. a) \cup (low[b] .. b)
      BY <3>1, <2>3 DEF Pair
    <3>3. /\ low[a] =< a /\ low[b] =< b /\ low[a] \in Nat /\ low[b] \in Nat
      BY <2>3 DEF Forest, Pair
    <3>4. n \in Nat /\ a \in Nat /\ b \in Nat /\ n = b + 1 /\ low[b] = a + 1 /\ low[n] = low[a]
      BY <2>0, <2>3, <1>1 DEF Pair
    <3>5. low[n] .. n = {n} \cup (low[a] .. a) \cup (low[b] .. b)
      BY <3>3, <3>4
    <3>6. f[n] = low[n] .. n
      OBVIOUS
    <3> QED
      BY <3>1, <3>2, <3>5, <3>6
  <2> QED
    BY <2>1, <2>2, <2>3, Forms
<1>3. ASSUME NEW n \in TheTries!Node, NEW g, NEW h, \A k \in 1 .. n - 1 : g[k] = h[k]
      PROVE  Step(g, n) = Step(h, n)
  BY <1>2, <1>3
<1>4. f = [n \in TheTries!Node |-> Step(f, n)]
  BY <1>2
<1>5. TheTries!within = CHOOSE w : w = [n \in TheTries!Node |-> Step(w, n)]
  BY Zenon DEF TheTries!within
<1> HIDE DEF f, Step
<1>6. TheTries!within = [n \in TheTries!Node |-> Step(TheTries!within, n)]
  BY <1>4, <1>5
<1>7. \A n \in TheTries!Node : TheTries!within[n] = Step(TheTries!within, n)
  BY <1>6
<1>8. \A n \in TheTries!Node : TheTries!within[n] = f[n]
  <2> DEFINE S == {n \in TheTries!Node : TheTries!within[n] = f[n]}
  <2>1. ASSUME NEW n \in TheTries!Node, \A k \in 1 .. n - 1 : k \in S
        PROVE  n \in S
    BY <1>2, <1>3, <1>7, <2>1
  <2>2. \A n \in TheTries!Node : n \in S
    <3>1. 1 \in Nat /\ \A n \in 1 .. Total : (\A k \in 1 .. n - 1 : k \in S) => n \in S
      BY <1>1, <2>1
    <3> HIDE DEF S
    <3> QED
      BY <1>1, <3>1, Induction
  <2> QED
    BY <2>2
<1> QED
  BY <1>8 DEF TheTries!Within, f

-----------------------------------------------------------------------------
(* Each of them, kind by kind.                                             *)

\* One list, then another.
Then(s, u) == s \o u

LEMMA WalkNone ==
  ASSUME NEW low, Forest(low), NEW n \in TheTries!Node, TheTries!Kids(n) = <<>>, NEW s \in {"pure", "impure"}
  PROVE  /\ TheTries!KindOf(n) = "leaf" => TheTries!walk[n][s] = s
         /\ TheTries!KindOf(n) = "call" => TheTries!walk[n][s] = "impure"
<1>1. TheTries!walk[n] = WalkStep(TheTries!walk, n) /\ s \in TheTries!Purity /\ s # "unsafe"
  BY WalkUnfolds DEF TheTries!Purity
<1>2. TheTries!KindOf(n) # "logic" => TheTries!Descended(n) = <<>>
  BY Parts
<1>3. TheTries!Through(TheTries!walk, <<>>, s) = s
  BY ThroughNone
<1> QED
  BY <1>1, <1>2, <1>3 DEF WalkStep, TheTries!Marks

LEMMA WalkSingle ==
  ASSUME NEW low, Forest(low), NEW n \in TheTries!Node, NEW k, Single(n, k), NEW s \in {"pure", "impure"}
  PROVE  /\ TheTries!KindOf(n) = "branch" => TheTries!walk[n][s] = "impure"
         /\ TheTries!KindOf(n) = "call" /\ TheTries!walk[k][s] = "unsafe" => TheTries!walk[n][s] = "unsafe"
         /\ TheTries!KindOf(n) = "call" /\ TheTries!walk[k][s] # "unsafe" => TheTries!walk[n][s] = "impure"
         /\ TheTries!KindOf(n) = "try" => TheTries!walk[n]["impure"] = "unsafe"
         /\ TheTries!KindOf(n) = "try" /\ TheTries!walk[k]["pure"] = "unsafe" => TheTries!walk[n]["pure"] = "unsafe"
         /\ TheTries!KindOf(n) = "try" /\ TheTries!walk[k]["pure"] # "unsafe" => TheTries!walk[n]["pure"] = "pure"
<1>1. /\ TheTries!walk[n] = WalkStep(TheTries!walk, n) /\ s \in TheTries!Purity /\ s # "unsafe"
      /\ "pure" \in TheTries!Purity /\ "impure" \in TheTries!Purity
  BY WalkUnfolds DEF TheTries!Purity
<1>2. /\ TheTries!KindOf(n) \in {"call", "try"} => TheTries!Descended(n) = <<k>>
      /\ TheTries!KindOf(n) = "branch" => TheTries!Descended(n) = <<>>
  BY Parts DEF Single
<1>3. CASE TheTries!KindOf(n) = "branch"
  <2>1. TheTries!Through(TheTries!walk, TheTries!Descended(n), s) = s
    BY <1>2, <1>3, ThroughNone
  <2> QED
    BY <1>1, <1>3, <2>1 DEF WalkStep, TheTries!Marks
<1>4. CASE TheTries!KindOf(n) = "call"
  <2>1. TheTries!Through(TheTries!walk, TheTries!Descended(n), s) = TheTries!walk[k][s]
    BY <1>2, <1>4, ThroughOne
  <2> QED
    BY <1>1, <1>4, <2>1 DEF WalkStep, TheTries!Marks
<1>5. CASE TheTries!KindOf(n) = "try"
  <2>1. TheTries!Through(TheTries!walk, TheTries!Descended(n), "pure") = TheTries!walk[k]["pure"]
    BY <1>2, <1>5, ThroughOne
  <2> QED
    BY <1>1, <1>5, <2>1 DEF WalkStep, TheTries!Restored
<1> QED
  BY <1>3, <1>4, <1>5

LEMMA WalkPair ==
  ASSUME NEW low, Forest(low), NEW n \in TheTries!Node, NEW a, NEW b, Pair(n, a, b, low),
         NEW s \in {"pure", "impure"}
  PROVE  /\ TheTries!KindOf(n) = "both" => TheTries!walk[n][s] = TheTries!walk[b][TheTries!walk[a][s]]
         /\ TheTries!KindOf(n) = "point" /\ TheTries!walk[b][TheTries!walk[a][s]] = "unsafe" => TheTries!walk[n][s] = "unsafe"
         /\ TheTries!KindOf(n) = "point" /\ TheTries!walk[b][TheTries!walk[a][s]] # "unsafe" => TheTries!walk[n][s] = "impure"
         /\ TheTries!KindOf(n) = "logic" => TheTries!walk[n][s] = TheTries!walk[a][s]
<1>1. /\ TheTries!walk[n] = WalkStep(TheTries!walk, n) /\ s \in TheTries!Purity /\ s # "unsafe"
  BY WalkUnfolds DEF TheTries!Purity
<1>2. /\ TheTries!KindOf(n) \in {"both", "point"} => TheTries!Descended(n) = <<a, b>>
      /\ TheTries!KindOf(n) = "logic" => TheTries!Descended(n) = <<a>>
  BY Parts DEF Pair
<1>3. CASE TheTries!KindOf(n) = "logic"
  <2>1. TheTries!Through(TheTries!walk, TheTries!Descended(n), s) = TheTries!walk[a][s]
    BY <1>2, <1>3, ThroughOne
  <2> QED
    BY <1>1, <1>3, <2>1 DEF WalkStep, TheTries!Marks
<1>4. CASE TheTries!KindOf(n) \in {"both", "point"}
  <2>1. TheTries!Through(TheTries!walk, TheTries!Descended(n), s) = TheTries!walk[b][TheTries!walk[a][s]]
    BY <1>2, <1>4, ThroughTwo
  <2> QED
    BY <1>1, <1>4, <2>1 DEF WalkStep, TheTries!Marks
<1> QED
  BY <1>3, <1>4

LEMMA WalkTyped ==
  ASSUME NEW low, Forest(low), NEW n \in TheTries!Node
  PROVE  /\ TheTries!walk[n]["unsafe"] = "unsafe"
         /\ \A s \in {"pure", "impure", "unsafe"} : TheTries!walk[n][s] \in {"pure", "impure", "unsafe"}
<1>1. TheTries!walk[n] = WalkStep(TheTries!walk, n) /\ TheTries!walk[n] \in [TheTries!Purity -> TheTries!Purity]
  BY WalkUnfolds
<1> QED
  BY <1>1 DEF WalkStep, TheTries!Purity

LEMMA HoistNone ==
  ASSUME NEW low, Forest(low), NEW n \in TheTries!Node, TheTries!Kids(n) = <<>>, TheTries!KindOf(n) \in {"leaf", "call"}
  PROVE  TheTries!hoist[n] = <<>>
<1>1. TheTries!hoist[n] = HoistStep(TheTries!hoist, n) /\ TheTries!Descended(n) = <<>>
  BY HoistUnfolds, Parts
<1> QED
  BY <1>1, JoinedNone DEF HoistStep

LEMMA HoistSingle ==
  ASSUME NEW low, Forest(low), NEW n \in TheTries!Node, NEW k, Single(n, k)
  PROVE  /\ TheTries!KindOf(n) = "branch" => TheTries!hoist[n] = <<>>
         /\ TheTries!KindOf(n) = "call" => TheTries!hoist[n] = TheTries!hoist[k]
         /\ TheTries!KindOf(n) = "try" /\ TheTries!walk[k]["pure"] # "unsafe" => TheTries!hoist[n] = Then(TheTries!hoist[k], <<n>>)
         /\ TheTries!KindOf(n) = "try" /\ TheTries!walk[k]["pure"] = "unsafe" => TheTries!hoist[n] = <<n>>
<1>1. TheTries!hoist[n] = HoistStep(TheTries!hoist, n)
  BY HoistUnfolds
<1>2. /\ TheTries!KindOf(n) \in {"call", "try"} => TheTries!Descended(n) = <<k>>
      /\ TheTries!KindOf(n) = "branch" => TheTries!Descended(n) = <<>>
      /\ TheTries!Kids(n) = <<k>>
  BY Parts DEF Single
<1>3. TheTries!Joined(TheTries!hoist, <<>>) = <<>> /\ TheTries!Joined(TheTries!hoist, <<k>>) = TheTries!hoist[k]
  BY JoinedNone, JoinedOne
<1>4. TheTries!Hoistable(<<k>>) <=> TheTries!walk[k]["pure"] # "unsafe"
  BY ThroughOne DEF TheTries!Hoistable
<1>5. <<>> \o <<n>> = <<n>>
  OBVIOUS
<1> QED
  BY <1>1, <1>2, <1>3, <1>4, <1>5 DEF HoistStep, TheTries!Preambles, Then

LEMMA HoistPair ==
  ASSUME NEW low, Forest(low), NEW n \in TheTries!Node, NEW a, NEW b, Pair(n, a, b, low)
  PROVE  /\ TheTries!KindOf(n) \in {"both", "point"} => TheTries!hoist[n] = Then(TheTries!hoist[a], TheTries!hoist[b])
         /\ TheTries!KindOf(n) = "logic" => TheTries!hoist[n] = TheTries!hoist[a]
<1>1. TheTries!hoist[n] = HoistStep(TheTries!hoist, n)
  BY HoistUnfolds
<1>2. /\ TheTries!KindOf(n) \in {"both", "point"} => TheTries!Descended(n) = <<a, b>>
      /\ TheTries!KindOf(n) = "logic" => TheTries!Descended(n) = <<a>>
  BY Parts DEF Pair
<1>3. TheTries!Joined(TheTries!hoist, <<a>>) = TheTries!hoist[a] /\ TheTries!Joined(TheTries!hoist, <<a, b>>) = TheTries!hoist[a] \o TheTries!hoist[b]
  BY JoinedTwo, JoinedOne
<1> QED
  BY <1>1, <1>2, <1>3 DEF HoistStep, Then

LEMMA EventsNone ==
  ASSUME NEW low, Forest(low), NEW n \in TheTries!Node, TheTries!Kids(n) = <<>>, NEW done, NEW cond, n \notin done
  PROVE  /\ TheTries!KindOf(n) = "leaf" => TheTries!EventsOf(done, cond)[n] = <<>>
         /\ TheTries!KindOf(n) = "call" => TheTries!EventsOf(done, cond)[n] = <<n>>
<1> DEFINE ev == TheTries!EventsOf(done, cond)
<1>1. ev[n] = EventsStep(ev, n, done, cond)
  BY EventsUnfolds
<1>2. TheTries!KindOf(n) # "logic" => TheTries!Evaluated(n, cond) = <<>>
  BY Parts
<1> HIDE DEF ev
<1>3. TheTries!Joined(ev, <<>>) = <<>> /\ <<>> \o <<n>> = <<n>>
  BY JoinedNone
<1> QED
  BY <1>1, <1>2, <1>3 DEF EventsStep, ev

LEMMA EventsSingle ==
  ASSUME NEW low, Forest(low), NEW n \in TheTries!Node, NEW k, Single(n, k), NEW done, NEW cond,
         n \notin done
  PROVE  /\ TheTries!KindOf(n) = "branch" /\ n \in cond =>
              TheTries!EventsOf(done, cond)[n] = Then(<<n>>, TheTries!EventsOf(done, cond)[k])
         /\ TheTries!KindOf(n) = "branch" /\ n \notin cond => TheTries!EventsOf(done, cond)[n] = <<n>>
         /\ TheTries!KindOf(n) \in {"call", "try"} =>
              TheTries!EventsOf(done, cond)[n] = Then(TheTries!EventsOf(done, cond)[k], <<n>>)
<1> DEFINE ev == TheTries!EventsOf(done, cond)
<1>1. ev[n] = EventsStep(ev, n, done, cond)
  BY EventsUnfolds
<1>2. /\ TheTries!KindOf(n) \in {"call", "try"} => TheTries!Evaluated(n, cond) = <<k>>
      /\ TheTries!KindOf(n) = "branch" => TheTries!Evaluated(n, cond) = IF n \in cond THEN <<k>> ELSE <<>>
  BY Parts DEF Single
<1> HIDE DEF ev
<1>3. TheTries!Joined(ev, <<>>) = <<>> /\ TheTries!Joined(ev, <<k>>) = ev[k] /\ <<n>> \o <<>> = <<n>>
  BY JoinedNone, JoinedOne
<1> QED
  BY <1>1, <1>2, <1>3 DEF EventsStep, ev, Then

LEMMA EventsPair ==
  ASSUME NEW low, Forest(low), NEW n \in TheTries!Node, NEW a, NEW b, Pair(n, a, b, low),
         NEW done, NEW cond, n \notin done
  PROVE  /\ TheTries!KindOf(n) = "both" =>
              TheTries!EventsOf(done, cond)[n] = Then(TheTries!EventsOf(done, cond)[a], TheTries!EventsOf(done, cond)[b])
         /\ TheTries!KindOf(n) = "point" =>
              TheTries!EventsOf(done, cond)[n] =
                Then(Then(TheTries!EventsOf(done, cond)[a], TheTries!EventsOf(done, cond)[b]), <<n>>)
         /\ TheTries!KindOf(n) = "logic" /\ n \in cond =>
              TheTries!EventsOf(done, cond)[n] = Then(TheTries!EventsOf(done, cond)[a], TheTries!EventsOf(done, cond)[b])
         /\ TheTries!KindOf(n) = "logic" /\ n \notin cond =>
              TheTries!EventsOf(done, cond)[n] = TheTries!EventsOf(done, cond)[a]
<1> DEFINE ev == TheTries!EventsOf(done, cond)
<1>1. ev[n] = EventsStep(ev, n, done, cond)
  BY EventsUnfolds
<1>2. /\ TheTries!KindOf(n) \in {"both", "point"} => TheTries!Evaluated(n, cond) = <<a, b>>
      /\ TheTries!KindOf(n) = "logic" => TheTries!Evaluated(n, cond) = IF n \in cond THEN <<a, b>> ELSE <<a>>
  BY Parts DEF Pair
<1> HIDE DEF ev
<1>3. TheTries!Joined(ev, <<a>>) = ev[a] /\ TheTries!Joined(ev, <<a, b>>) = ev[a] \o ev[b]
  BY JoinedTwo, JoinedOne
<1> QED
  BY <1>1, <1>2, <1>3 DEF EventsStep, ev, Then

LEMMA EventsSkip ==
  ASSUME NEW low, Forest(low), NEW n \in TheTries!Node, NEW a, NEW b, Pair(n, a, b, low),
         TheTries!KindOf(n) = "logic", NEW done, NEW cond, n \notin done
  PROVE  /\ n \in cond =>
              TheTries!EventsOf(done, cond)[n] = Then(TheTries!EventsOf(done, cond)[a], TheTries!EventsOf(done, cond)[b])
         /\ n \notin cond => TheTries!EventsOf(done, cond)[n] = TheTries!EventsOf(done, cond)[a]
<1> DEFINE ev == TheTries!EventsOf(done, cond)
<1>1. ev[n] = EventsStep(ev, n, done, cond)
  BY EventsUnfolds
<1>2. TheTries!Evaluated(n, cond) = IF n \in cond THEN <<a, b>> ELSE <<a>>
  BY Parts DEF Pair
<1> HIDE DEF ev
<1>3. TheTries!Joined(ev, <<a>>) = ev[a] /\ TheTries!Joined(ev, <<a, b>>) = ev[a] \o ev[b]
  BY JoinedTwo, JoinedOne
<1> QED
  BY <1>1, <1>2, <1>3 DEF EventsStep, ev, Then

LEMMA EventsDone ==
  ASSUME NEW low, Forest(low), NEW n \in TheTries!Node, NEW done, NEW cond
  PROVE  /\ n \in done => TheTries!EventsOf(done, cond)[n] = <<>>
         /\ TheTries!EventsOf(done, cond)[n] \in Seq(TheTries!Node)
<1>1. /\ TheTries!EventsOf(done, cond)[n] = EventsStep(TheTries!EventsOf(done, cond), n, done, cond)
      /\ TheTries!EventsOf(done, cond) \in [TheTries!Node -> Seq(TheTries!Node)]
  BY EventsUnfolds
<1> QED
  BY <1>1, Zenon DEF EventsStep

-----------------------------------------------------------------------------
(* Lists of events.                                                        *)

Elements(s) == {s[i] : i \in DOMAIN s}
Precedes(s, e, t) == \E i, j \in DOMAIN s : i < j /\ s[i] = e /\ s[j] = t

LEMMA ElementsOne ==
  ASSUME NEW x
  PROVE  Elements(<<>>) = {} /\ Elements(<<x>>) = {x}
  BY DEF Elements

\* Where the elements of a joined list are.
LEMMA JoinedIndexes ==
  ASSUME NEW T, NEW s \in Seq(T), NEW u \in Seq(T)
  PROVE  /\ s \o u \in Seq(T) /\ Len(s) \in Nat /\ Len(u) \in Nat
         /\ DOMAIN (s \o u) = 1 .. Len(s) + Len(u)
         /\ DOMAIN s = 1 .. Len(s) /\ DOMAIN u = 1 .. Len(u)
         /\ \A i \in 1 .. Len(s) : (s \o u)[i] = s[i]
         /\ \A i \in 1 .. Len(u) : (s \o u)[Len(s) + i] = u[i]
  OBVIOUS

LEMMA ElementsJoined ==
  ASSUME NEW T, NEW s \in Seq(T), NEW u \in Seq(T)
  PROVE  Elements(s \o u) = Elements(s) \cup Elements(u)
<1> DEFINE w == s \o u
<1>1. /\ Len(s) \in Nat /\ Len(u) \in Nat
      /\ DOMAIN w = 1 .. Len(s) + Len(u) /\ DOMAIN s = 1 .. Len(s) /\ DOMAIN u = 1 .. Len(u)
      /\ \A i \in 1 .. Len(s) : w[i] = s[i]
      /\ \A i \in 1 .. Len(u) : w[Len(s) + i] = u[i]
  BY JoinedIndexes
<1> HIDE DEF w
<1>2. ASSUME NEW i \in DOMAIN w PROVE w[i] \in Elements(s) \cup Elements(u)
  <2>1. CASE i =< Len(s)
    BY <1>1, <2>1 DEF Elements
  <2>2. CASE i > Len(s)
    <3>1. i - Len(s) \in 1 .. Len(u) /\ i = Len(s) + (i - Len(s))
      BY <1>1, <2>2
    <3>2. w[i] = u[i - Len(s)]
      BY <1>1, <3>1
    <3> QED
      BY <1>1, <3>1, <3>2 DEF Elements
  <2> QED
    BY <1>1, <2>1, <2>2
<1>3. ASSUME NEW i \in DOMAIN s PROVE s[i] \in Elements(w)
  <2>1. i \in DOMAIN w /\ w[i] = s[i]
    BY <1>1
  <2> QED
    BY <2>1 DEF Elements
<1>4. ASSUME NEW i \in DOMAIN u PROVE u[i] \in Elements(w)
  <2>1. Len(s) + i \in DOMAIN w /\ w[Len(s) + i] = u[i]
    BY <1>1
  <2> QED
    BY <2>1 DEF Elements
<1>5. Elements(w) \subseteq Elements(s) \cup Elements(u)
  BY <1>2 DEF Elements
<1>6. Elements(s) \subseteq Elements(w) /\ Elements(u) \subseteq Elements(w)
  BY <1>3, <1>4 DEF Elements
<1> QED
  BY <1>5, <1>6 DEF w

LEMMA PrecedesJoined ==
  ASSUME NEW T, NEW s \in Seq(T), NEW u \in Seq(T), NEW e, NEW t,
         \/ Precedes(s, e, t) \/ Precedes(u, e, t)
         \/ e \in Elements(s) /\ t \in Elements(u)
  PROVE  Precedes(s \o u, e, t)
<1> DEFINE w == s \o u
<1>1. /\ Len(s) \in Nat /\ Len(u) \in Nat
      /\ DOMAIN w = 1 .. Len(s) + Len(u) /\ DOMAIN s = 1 .. Len(s) /\ DOMAIN u = 1 .. Len(u)
      /\ \A i \in 1 .. Len(s) : w[i] = s[i]
      /\ \A i \in 1 .. Len(u) : w[Len(s) + i] = u[i]
  BY JoinedIndexes
<1> HIDE DEF w
<1>2. CASE Precedes(s, e, t)
  <2>1. PICK i \in DOMAIN s, j \in DOMAIN s : i < j /\ s[i] = e /\ s[j] = t
    BY <1>2 DEF Precedes
  <2>2. i \in DOMAIN w /\ j \in DOMAIN w /\ w[i] = e /\ w[j] = t
    BY <1>1, <2>1
  <2> QED
    BY <2>1, <2>2 DEF Precedes, w
<1>3. CASE Precedes(u, e, t)
  <2>1. PICK i \in DOMAIN u, j \in DOMAIN u : i < j /\ u[i] = e /\ u[j] = t
    BY <1>3 DEF Precedes
  <2>2. /\ Len(s) + i \in DOMAIN w /\ Len(s) + j \in DOMAIN w /\ Len(s) + i < Len(s) + j
        /\ w[Len(s) + i] = e /\ w[Len(s) + j] = t
    BY <1>1, <2>1
  <2> QED
    BY <2>2 DEF Precedes, w
<1>4. CASE e \in Elements(s) /\ t \in Elements(u)
  <2>1. PICK i \in DOMAIN s, j \in DOMAIN u : s[i] = e /\ u[j] = t
    BY <1>4 DEF Elements
  <2>2. i \in 1 .. Len(s) /\ j \in 1 .. Len(u)
    BY <1>1, <2>1
  <2>3. i \in DOMAIN w /\ Len(s) + j \in DOMAIN w /\ i < Len(s) + j
    BY <1>1, <2>2
  <2>4. w[i] = e /\ w[Len(s) + j] = t
    BY <1>1, <2>1, <2>2
  <2> QED
    BY <2>3, <2>4 DEF Precedes, w
<1> QED
  BY <1>2, <1>3, <1>4

\* What is needed of lists of nodes.
LEMMA Lists ==
  /\ <<>> \in Seq(TheTries!Node) /\ Elements(<<>>) = {}
  /\ \A n : Elements(<<n>>) = {n}
  /\ \A n \in TheTries!Node : <<n>> \in Seq(TheTries!Node)
  /\ \A s, u \in Seq(TheTries!Node) :
       Then(s, u) \in Seq(TheTries!Node) /\ Elements(Then(s, u)) = Elements(s) \cup Elements(u)
  /\ \A s \in Seq(TheTries!Node) : Then(s, <<>>) = s /\ Then(<<>>, s) = s
  /\ \A s \in Seq(TheTries!Node) : Elements(s) = {} => s = <<>>
<1>1. <<>> \in Seq(TheTries!Node) /\ Elements(<<>>) = {}
  <2>1. <<>> \in Seq(TheTries!Node)
    OBVIOUS
  <2> QED
    BY <2>1, ElementsOne, Zenon
<1>2. \A n : Elements(<<n>>) = {n}
  BY ElementsOne
<1>3. \A n \in TheTries!Node : <<n>> \in Seq(TheTries!Node)
  OBVIOUS
<1>4. ASSUME NEW s \in Seq(TheTries!Node), NEW u \in Seq(TheTries!Node)
      PROVE  Then(s, u) \in Seq(TheTries!Node) /\ Elements(Then(s, u)) = Elements(s) \cup Elements(u)
  BY ElementsJoined DEF Then
<1>5. ASSUME NEW s \in Seq(TheTries!Node) PROVE Then(s, <<>>) = s /\ Then(<<>>, s) = s
  BY ConcatEmptySeq DEF Then
<1>6. ASSUME NEW s \in Seq(TheTries!Node), Elements(s) = {} PROVE s = <<>>
  <2>0. DOMAIN s = 1 .. Len(s) /\ Len(s) \in Nat
    OBVIOUS
  <2>1. DOMAIN s = {}
    BY <1>6 DEF Elements
  <2>2. Len(s) = 0
    <3>1. 1 \notin 1 .. Len(s)
      BY <2>0, <2>1
    <3> QED
      BY <2>0, <3>1
  <2> QED
    BY <2>2, EmptySeq
<1> QED
  BY <1>1, <1>2, <1>3, <1>4, <1>5, <1>6

LEMMA InThen ==
  ASSUME NEW s \in Seq(TheTries!Node), NEW u \in Seq(TheTries!Node)
  PROVE  /\ Then(s, u) \in Seq(TheTries!Node)
         /\ \A m : m \in Elements(Then(s, u)) <=> m \in Elements(s) \/ m \in Elements(u)
<1>1. Then(s, u) \in Seq(TheTries!Node) /\ Elements(Then(s, u)) = Elements(s) \cup Elements(u)
  BY Lists
<1> QED
  BY <1>1

LEMMA InOne ==
  ASSUME NEW n
  PROVE  /\ <<>> \in Seq(TheTries!Node) /\ (n \in TheTries!Node => <<n>> \in Seq(TheTries!Node))
         /\ \A m : m \in Elements(<<n>>) <=> m = n
         /\ \A m : m \notin Elements(<<>>)
<1>1. <<>> \in Seq(TheTries!Node) /\ (n \in TheTries!Node => <<n>> \in Seq(TheTries!Node)) /\ Elements(<<>>) = {}
  BY Lists
<1>2. Elements(<<n>>) = {n}
  BY Lists
<1> QED
  BY <1>1, <1>2

LEMMA ThenTwice ==
  \A s, u, v \in Seq(TheTries!Node) : Then(Then(s, u), v) = Then(s, Then(u, v))
<1>1. ASSUME NEW s \in Seq(TheTries!Node), NEW u \in Seq(TheTries!Node), NEW v \in Seq(TheTries!Node)
      PROVE  Then(Then(s, u), v) = Then(s, Then(u, v))
  BY ConcatAssociative DEF Then
<1> QED
  BY <1>1

LEMMA Appended ==
  ASSUME NEW s \in Seq(TheTries!Node), NEW u \in Seq(TheTries!Node), NEW v, Then(s, u) = v, NEW n \in TheTries!Node
  PROVE  Then(s, Then(u, <<n>>)) = Then(v, <<n>>)
<1>1. <<n>> \in Seq(TheTries!Node)
  BY Lists
<1>2. Then(Then(s, u), <<n>>) = Then(s, Then(u, <<n>>))
  BY <1>1, ThenTwice, Zenon
<1> QED
  BY <1>2

LEMMA PrecedesThen ==
  \A s, u \in Seq(TheTries!Node) : \A e, t :
    \/ Precedes(s, e, t) \/ Precedes(u, e, t)
    \/ e \in Elements(s) /\ t \in Elements(u)
    => Precedes(Then(s, u), e, t)
<1>1. ASSUME NEW s \in Seq(TheTries!Node), NEW u \in Seq(TheTries!Node), NEW e, NEW t,
             \/ Precedes(s, e, t) \/ Precedes(u, e, t)
             \/ e \in Elements(s) /\ t \in Elements(u)
      PROVE  Precedes(Then(s, u), e, t)
  BY <1>1, PrecedesJoined DEF Then
<1> QED
  BY <1>1

-----------------------------------------------------------------------------
(* Where expressions and their events are.                                 *)

LEMMA Bounds ==
  ASSUME NEW low, Forest(low)
  PROVE  /\ Total \in Nat /\ TheTries!Node = 1 .. Total
         /\ \A n \in TheTries!Node : n \in Nat /\ low[n] \in Nat /\ 1 =< low[n] /\ low[n] =< n
         /\ \A x, y \in TheTries!Node : low[y] =< x /\ x =< y => low[y] =< low[x]
         /\ \A n \in TheTries!Node : \A m : m \in TheTries!Within(n) <=> m \in TheTries!Node /\ low[n] =< m /\ m =< n
<1>1. /\ Total \in Nat /\ TheTries!Node = 1 .. Total
      /\ \A n \in TheTries!Node : n \in Nat /\ low[n] \in Nat /\ 1 =< low[n] /\ low[n] =< n
  BY DEF Forest
<1>2. ASSUME NEW x \in TheTries!Node, NEW y \in TheTries!Node, low[y] =< x, x =< y
      PROVE  low[y] =< low[x]
  BY <1>1, <1>2 DEF Forest
<1>3. ASSUME NEW n \in TheTries!Node, NEW m
      PROVE  m \in TheTries!Within(n) <=> m \in TheTries!Node /\ low[n] =< m /\ m =< n
  BY <1>1, WithinIs
<1> QED
  BY <1>1, <1>2, <1>3

Eventful(n) == TheTries!KindOf(n) \in {"call", "point", "branch", "try"}

\* m is an event of n, and in none of the tries in done.
Owned(m, n, done) ==
  /\ m \in TheTries!Within(n) /\ Eventful(m)
  /\ \A u \in done : u \in TheTries!Within(n) => m \notin TheTries!Within(u)

LEMMA OwnedHere ==
  ASSUME NEW low, Forest(low), NEW done \in SUBSET TheTries!Node, NEW n \in TheTries!Node, n \notin done
  PROVE  /\ Eventful(n) => Owned(n, n, done)
         /\ \A k, m : Single(n, k) /\ low[n] = low[k] /\ Owned(m, k, done) => Owned(m, n, done)
         /\ \A a, b, m : Pair(n, a, b, low) /\ (Owned(m, a, done) \/ Owned(m, b, done))
                           => Owned(m, n, done)
<1>1. /\ TheTries!Node = 1 .. Total
      /\ \A x \in TheTries!Node : x \in Nat /\ low[x] \in Nat /\ 1 =< low[x] /\ low[x] =< x
      /\ \A x, y \in TheTries!Node : low[y] =< x /\ x =< y => low[y] =< low[x]
      /\ \A x \in TheTries!Node : \A m : m \in TheTries!Within(x) <=> m \in TheTries!Node /\ low[x] =< m /\ m =< x
  BY Bounds
<1>2. Eventful(n) => Owned(n, n, done)
  <2>1. \A u \in done : u \in TheTries!Within(n) => n \notin TheTries!Within(u)
    BY <1>1
  <2>2. n \in TheTries!Within(n)
    BY <1>1
  <2> QED
    BY <2>1, <2>2 DEF Owned
<1>3. ASSUME NEW k, NEW m, Single(n, k), low[n] = low[k], Owned(m, k, done)
      PROVE  Owned(m, n, done)
  <2>1. k \in TheTries!Node /\ k = n - 1 /\ m \in TheTries!Within(k) /\ Eventful(m)
    BY <1>3 DEF Single, Owned
  <2>2. m \in TheTries!Within(n)
    BY <1>1, <1>3, <2>1
  <2>3. ASSUME NEW u \in done, u \in TheTries!Within(n) PROVE m \notin TheTries!Within(u)
    <3>1. u \in TheTries!Within(k)
      BY <1>1, <1>3, <2>1, <2>3
    <3> QED
      BY <1>3, <2>3, <3>1 DEF Owned
  <2> QED
    BY <2>1, <2>2, <2>3 DEF Owned
<1>4. ASSUME NEW a, NEW b, NEW m, Pair(n, a, b, low), Owned(m, a, done) \/ Owned(m, b, done)
      PROVE  Owned(m, n, done)
  <2>1. /\ a \in TheTries!Node /\ b \in TheTries!Node /\ b = n - 1 /\ low[b] = a + 1 /\ low[n] = low[a] /\ a < b
        /\ m \in TheTries!Within(a) \/ m \in TheTries!Within(b)
        /\ Eventful(m)
    BY <1>4 DEF Pair, Owned
  <2>2. m \in TheTries!Within(n)
    BY <1>1, <2>1
  <2>3. ASSUME NEW u \in done, u \in TheTries!Within(n), m \in TheTries!Within(u) PROVE FALSE
    <3>1. u \in TheTries!Node /\ low[n] =< u /\ u =< n /\ u # n /\ low[u] =< m /\ m =< u /\ m \in TheTries!Node
          /\ u \in Nat /\ low[u] \in Nat /\ m \in Nat
      BY <1>1, <2>3
    <3>2. CASE Owned(m, a, done)
      <4>1. low[a] =< m /\ m =< a
        BY <1>1, <2>1, <3>2 DEF Owned
      <4>2. u \notin TheTries!Within(a)
        BY <2>3, <3>2 DEF Owned
      <4>3. a + 1 =< u /\ u =< b
        BY <1>1, <2>1, <3>1, <4>2
      <4>4. low[b] =< low[u]
        BY <1>1, <2>1, <3>1, <4>3
      <4> QED
        BY <1>1, <2>1, <3>1, <4>1, <4>4
    <3>3. CASE Owned(m, b, done)
      <4>1. low[b] =< m /\ m =< b
        BY <1>1, <2>1, <3>3 DEF Owned
      <4>2. u \notin TheTries!Within(b)
        BY <2>3, <3>3 DEF Owned
      <4>3. low[b] =< u /\ u =< b
        BY <2>1, <3>1, <4>1
      <4>4. u \in TheTries!Within(b)
        BY <1>1, <2>1, <3>1, <4>3
      <4> QED
        BY <4>2, <4>4
    <3> QED
      BY <1>4, <3>2, <3>3
  <2> QED
    BY <2>1, <2>2, <2>3 DEF Owned
<1> QED
  BY <1>2, <1>3, <1>4

\* The events of n are within n, but not within the tries that are over.
LEMMA EventsWithin ==
  ASSUME NEW low, Forest(low), NEW done \in SUBSET TheTries!Node, NEW cond
  PROVE  \A n \in TheTries!Node : \A m \in Elements(TheTries!EventsOf(done, cond)[n]) : Owned(m, n, done)
<1> DEFINE ev == TheTries!EventsOf(done, cond)
           S == {n \in TheTries!Node : \A m \in Elements(ev[n]) : Owned(m, n, done)}
<1>1. Total \in Nat /\ TheTries!Node = 1 .. Total /\ \A n \in TheTries!Node : n \in Nat
  BY Bounds
<1>2. \A n \in TheTries!Node : ev[n] \in Seq(TheTries!Node)
  BY EventsDone
<1>3. \A n \in TheTries!Node : n \in S <=> \A m \in Elements(ev[n]) : Owned(m, n, done)
  OBVIOUS
<1> HIDE DEF ev, S
<1>6. ASSUME NEW n \in TheTries!Node, \A k \in 1 .. n - 1 : k \in S
      PROVE  n \in S
  <2> SUFFICES ASSUME NEW m \in Elements(ev[n]) PROVE Owned(m, n, done)
    BY <1>3
  <2>1. n \notin done
    BY Lists, EventsDone DEF ev
  <2>2. CASE TheTries!Kids(n) = <<>> /\ TheTries!KindOf(n) \in {"leaf", "call"}
    <3>1. ev[n] = <<>> \/ (TheTries!KindOf(n) = "call" /\ ev[n] = <<n>>)
      BY <2>1, <2>2, EventsNone DEF ev
    <3>2. m = n /\ Eventful(n)
      <4>1. Elements(<<>>) = {} /\ Elements(<<n>>) = {n}
        BY ElementsOne, Zenon
      <4>2. m \in Elements(<<>>) \/ (TheTries!KindOf(n) = "call" /\ m \in Elements(<<n>>))
        BY <3>1, Zenon
      <4> QED
        BY <4>1, <4>2 DEF Eventful
    <3> QED
      BY <2>1, <3>2, OwnedHere
  <2>3. ASSUME NEW k, TheTries!KindOf(n) \in {"call", "branch", "try"}, low[n] = low[k], Single(n, k)
        PROVE  Owned(m, n, done)
    <3>1. ev[n] = Then(<<n>>, ev[k]) \/ ev[n] = <<n>> \/ ev[n] = Then(ev[k], <<n>>)
      BY <2>1, <2>3, EventsSingle DEF ev
    <3>2. k \in TheTries!Node /\ k \in 1 .. n - 1
      BY <1>1, <2>3 DEF Single
    <3>3. m = n \/ m \in Elements(ev[k])
      <4>1. ev[k] \in Seq(TheTries!Node) /\ <<n>> \in Seq(TheTries!Node) /\ \A x : x \in Elements(<<n>>) <=> x = n
        BY <1>2, <3>2, InOne, InThen, Zenon
      <4>2. /\ m \in Elements(Then(<<n>>, ev[k])) => m \in Elements(<<n>>) \/ m \in Elements(ev[k])
            /\ m \in Elements(Then(ev[k], <<n>>)) => m \in Elements(ev[k]) \/ m \in Elements(<<n>>)
        BY <4>1, InOne, InThen, Zenon
      <4> QED
        BY <3>1, <4>1, <4>2
    <3>4. m \in Elements(ev[k]) => Owned(m, k, done)
      BY <1>3, <1>6, <3>2
    <3>5. Eventful(n)
      BY <2>3 DEF Eventful
    <3> QED
      BY <2>1, <2>3, <3>3, <3>4, <3>5, OwnedHere
  <2>4. ASSUME NEW a, NEW b, TheTries!KindOf(n) \in {"both", "point", "logic"}, Pair(n, a, b, low)
        PROVE  Owned(m, n, done)
    <3>1. \/ ev[n] = Then(ev[a], ev[b]) \/ ev[n] = ev[a]
          \/ ev[n] = Then(Then(ev[a], ev[b]), <<n>>) /\ TheTries!KindOf(n) = "point"
      BY <2>1, <2>4, EventsPair DEF ev
    <3>2. a \in TheTries!Node /\ a \in 1 .. n - 1 /\ b \in TheTries!Node /\ b \in 1 .. n - 1
      BY <1>1, <2>4 DEF Pair
    <3>5. (m = n /\ TheTries!KindOf(n) = "point") \/ m \in Elements(ev[a]) \/ m \in Elements(ev[b])
      <4>1. /\ ev[a] \in Seq(TheTries!Node) /\ ev[b] \in Seq(TheTries!Node)
            /\ <<n>> \in Seq(TheTries!Node) /\ \A x : x \in Elements(<<n>>) <=> x = n
        BY <1>2, <3>2, InOne, InThen, Zenon
      <4>2. /\ Then(ev[a], ev[b]) \in Seq(TheTries!Node)
            /\ m \in Elements(Then(ev[a], ev[b])) => m \in Elements(ev[a]) \/ m \in Elements(ev[b])
        BY <4>1, InOne, InThen, Zenon
      <4>3. m \in Elements(Then(Then(ev[a], ev[b]), <<n>>)) =>
              m \in Elements(Then(ev[a], ev[b])) \/ m \in Elements(<<n>>)
        BY <4>1, <4>2, InOne, InThen, Zenon
      <4> QED
        BY <3>1, <4>1, <4>2, <4>3, Zenon
    <3>6. m \in Elements(ev[a]) \/ m \in Elements(ev[b]) => Owned(m, a, done) \/ Owned(m, b, done)
      BY <1>3, <1>6, <3>2
    <3>7. TheTries!KindOf(n) = "point" => Eventful(n)
      BY DEF Eventful
    <3> QED
      BY <2>1, <2>4, <3>5, <3>6, <3>7, OwnedHere
  <2> QED
    BY <2>2, <2>3, <2>4, Forms
<1>7. \A n \in TheTries!Node : n \in S
  <2>1. 1 \in Nat /\ \A n \in 1 .. Total : (\A k \in 1 .. n - 1 : k \in S) => n \in S
    BY <1>1, <1>6
  <2> QED
    BY <1>1, <2>1, Induction
<1> QED
  BY <1>3, <1>7 DEF ev

-----------------------------------------------------------------------------
(* Induction over expressions.                                             *)

LEMMA OverExpressions ==
  ASSUME NEW low, Forest(low), NEW S,
         \A n \in TheTries!Node : TheTries!Kids(n) = <<>> /\ low[n] = n /\ TheTries!KindOf(n) \in {"leaf", "call"} => n \in S,
         \A n \in TheTries!Node : \A k : TheTries!KindOf(n) \in {"call", "branch", "try"} /\ Single(n, k)
                                  /\ low[n] = low[k] /\ k \in S => n \in S,
         \A n \in TheTries!Node : \A a, b : TheTries!KindOf(n) \in {"both", "point", "logic"} /\ Pair(n, a, b, low)
                                     /\ a \in S /\ b \in S => n \in S
  PROVE  \A n \in TheTries!Node : n \in S
<1>1. Total \in Nat /\ TheTries!Node = 1 .. Total /\ 1 \in Nat
  BY Bounds
<1>2. ASSUME NEW n \in TheTries!Node, \A k \in 1 .. n - 1 : k \in S PROVE n \in S
  <2>1. ASSUME NEW k, TheTries!KindOf(n) \in {"call", "branch", "try"}, low[n] = low[k], Single(n, k)
        PROVE  n \in S
    <3>1. k \in 1 .. n - 1
      BY <1>1, <2>1 DEF Single
    <3> QED
      BY <1>2, <2>1, <3>1
  <2>2. ASSUME NEW a, NEW b, TheTries!KindOf(n) \in {"both", "point", "logic"}, Pair(n, a, b, low)
        PROVE  n \in S
    <3>1. a \in 1 .. n - 1 /\ b \in 1 .. n - 1
      BY <1>1, <2>2 DEF Pair
    <3> QED
      BY <1>2, <2>2, <3>1
  <2>3. CASE TheTries!Kids(n) = <<>> /\ low[n] = n /\ TheTries!KindOf(n) \in {"leaf", "call"}
    BY <2>3
  <2> QED
    BY <2>1, <2>2, <2>3, Forms
<1> QED
  BY <1>1, <1>2, Induction

\* The nodes of an expression are its own and those of its operands.
LEMMA WithinNone ==
  ASSUME NEW low, Forest(low), NEW n \in TheTries!Node, low[n] = n
  PROVE  \A m : m \in TheTries!Within(n) <=> m = n
<1>1. n \in Nat /\ TheTries!Node = 1 .. Total /\ \A m : m \in TheTries!Within(n) <=> m \in TheTries!Node /\ low[n] =< m /\ m =< n
  BY Bounds
<1> QED
  BY <1>1

LEMMA WithinSingle ==
  ASSUME NEW low, Forest(low), NEW n \in TheTries!Node, NEW k, Single(n, k), low[n] = low[k]
  PROVE  /\ \A m : m \in TheTries!Within(n) <=> m = n \/ m \in TheTries!Within(k)
         /\ k \in TheTries!Node /\ n \notin TheTries!Within(k)
<1>1. /\ TheTries!Node = 1 .. Total /\ Total \in Nat
      /\ \A x \in TheTries!Node : x \in Nat /\ low[x] \in Nat /\ 1 =< low[x] /\ low[x] =< x
      /\ \A x \in TheTries!Node : \A m : m \in TheTries!Within(x) <=> m \in TheTries!Node /\ low[x] =< m /\ m =< x
  BY Bounds
<1>2. k \in TheTries!Node /\ k = n - 1
  BY DEF Single
<1>3. ASSUME NEW m PROVE m \in TheTries!Within(n) <=> m = n \/ m \in TheTries!Within(k)
  BY <1>1, <1>2
<1>4. n \notin TheTries!Within(k)
  BY <1>1, <1>2
<1> QED
  BY <1>2, <1>3, <1>4

LEMMA WithinPair ==
  ASSUME NEW low, Forest(low), NEW n \in TheTries!Node, NEW a, NEW b, Pair(n, a, b, low)
  PROVE  /\ \A m : m \in TheTries!Within(n) <=> m = n \/ m \in TheTries!Within(a) \/ m \in TheTries!Within(b)
         /\ a \in TheTries!Node /\ b \in TheTries!Node /\ n \notin TheTries!Within(a) /\ n \notin TheTries!Within(b)
         /\ \A m : m \in TheTries!Within(a) => m \notin TheTries!Within(b)
         /\ low[b] = a + 1
<1>1. /\ TheTries!Node = 1 .. Total /\ Total \in Nat
      /\ \A x \in TheTries!Node : x \in Nat /\ low[x] \in Nat /\ 1 =< low[x] /\ low[x] =< x
      /\ \A x \in TheTries!Node : \A m : m \in TheTries!Within(x) <=> m \in TheTries!Node /\ low[x] =< m /\ m =< x
  BY Bounds
<1>2. a \in TheTries!Node /\ b \in TheTries!Node /\ a < b /\ b = n - 1 /\ a + 1 = low[b] /\ low[n] = low[a]
  BY DEF Pair
<1>3. ASSUME NEW m PROVE m \in TheTries!Within(n) <=> m = n \/ m \in TheTries!Within(a) \/ m \in TheTries!Within(b)
  <2>1. m \in TheTries!Within(n) <=> m \in TheTries!Node /\ low[a] =< m /\ m =< n
    BY <1>1, <1>2
  <2>2. m \in TheTries!Within(a) <=> m \in TheTries!Node /\ low[a] =< m /\ m =< a
    BY <1>1, <1>2
  <2>3. m \in TheTries!Within(b) <=> m \in TheTries!Node /\ a + 1 =< m /\ m =< n - 1
    BY <1>1, <1>2
  <2> QED
    BY <1>1, <1>2, <2>1, <2>2, <2>3
<1>4. n \notin TheTries!Within(a) /\ n \notin TheTries!Within(b)
  BY <1>1, <1>2
<1>5. ASSUME NEW m \in TheTries!Within(a) PROVE m \notin TheTries!Within(b)
  BY <1>1, <1>2
<1> QED
  BY <1>2, <1>3, <1>4, <1>5

\* Whose the events of an expression are.
LEMMA MembersSingle ==
  ASSUME NEW low, Forest(low), NEW n \in TheTries!Node, NEW k, Single(n, k),
         NEW done, NEW cond, n \notin done, NEW m
  PROVE  /\ (TheTries!KindOf(n) \in {"call", "try"} \/ (TheTries!KindOf(n) = "branch" /\ n \in cond)) =>
              (m \in Elements(TheTries!EventsOf(done, cond)[n]) <=>
                 m = n \/ m \in Elements(TheTries!EventsOf(done, cond)[k]))
         /\ TheTries!KindOf(n) = "branch" /\ n \notin cond =>
              (m \in Elements(TheTries!EventsOf(done, cond)[n]) <=> m = n)
<1> DEFINE ev == TheTries!EventsOf(done, cond)
<1>1. /\ TheTries!KindOf(n) = "branch" /\ n \in cond => ev[n] = Then(<<n>>, ev[k])
      /\ TheTries!KindOf(n) = "branch" /\ n \notin cond => ev[n] = <<n>>
      /\ TheTries!KindOf(n) \in {"call", "try"} => ev[n] = Then(ev[k], <<n>>)
  BY EventsSingle DEF ev
<1>2. ev[k] \in Seq(TheTries!Node)
  BY EventsDone DEF ev, Single
<1> HIDE DEF ev
<1>3. <<n>> \in Seq(TheTries!Node) /\ \A x : x \in Elements(<<n>>) <=> x = n
  BY InOne, Zenon
<1>4. /\ m \in Elements(Then(<<n>>, ev[k])) <=> m \in Elements(<<n>>) \/ m \in Elements(ev[k])
      /\ m \in Elements(Then(ev[k], <<n>>)) <=> m \in Elements(ev[k]) \/ m \in Elements(<<n>>)
  BY <1>2, <1>3, InThen, Zenon
<1>5. m \in Elements(<<n>>) <=> m = n
  BY <1>3
<1>6. CASE TheTries!KindOf(n) \in {"call", "try"}
  BY <1>1, <1>4, <1>5, <1>6 DEF ev
<1>7. CASE TheTries!KindOf(n) = "branch" /\ n \in cond
  BY <1>1, <1>4, <1>5, <1>7 DEF ev
<1>8. CASE TheTries!KindOf(n) = "branch" /\ n \notin cond
  BY <1>1, <1>5, <1>8 DEF ev
<1> QED
  BY <1>6, <1>7, <1>8

LEMMA MembersPair ==
  ASSUME NEW low, Forest(low), NEW n \in TheTries!Node, NEW a, NEW b, Pair(n, a, b, low),
         NEW done, NEW cond, n \notin done, NEW m
  PROVE  /\ (TheTries!KindOf(n) = "both" \/ (TheTries!KindOf(n) = "logic" /\ n \in cond)) =>
              (m \in Elements(TheTries!EventsOf(done, cond)[n]) <=>
                 m \in Elements(TheTries!EventsOf(done, cond)[a]) \/ m \in Elements(TheTries!EventsOf(done, cond)[b]))
         /\ TheTries!KindOf(n) = "point" =>
              (m \in Elements(TheTries!EventsOf(done, cond)[n]) <=>
                 \/ m \in Elements(TheTries!EventsOf(done, cond)[a]) \/ m \in Elements(TheTries!EventsOf(done, cond)[b])
                 \/ m = n)
         /\ TheTries!KindOf(n) = "logic" /\ n \notin cond =>
              (m \in Elements(TheTries!EventsOf(done, cond)[n]) <=> m \in Elements(TheTries!EventsOf(done, cond)[a]))
<1> DEFINE ev == TheTries!EventsOf(done, cond)
<1>1. /\ TheTries!KindOf(n) = "both" => ev[n] = Then(ev[a], ev[b])
      /\ TheTries!KindOf(n) = "point" => ev[n] = Then(Then(ev[a], ev[b]), <<n>>)
      /\ TheTries!KindOf(n) = "logic" /\ n \in cond => ev[n] = Then(ev[a], ev[b])
      /\ TheTries!KindOf(n) = "logic" /\ n \notin cond => ev[n] = ev[a]
  BY EventsPair DEF ev
<1>2. ev[a] \in Seq(TheTries!Node) /\ ev[b] \in Seq(TheTries!Node)
  BY EventsDone DEF ev, Pair
<1> HIDE DEF ev
<1>3. <<n>> \in Seq(TheTries!Node) /\ \A x : x \in Elements(<<n>>) <=> x = n
  BY InOne, Zenon
<1>4. /\ Then(ev[a], ev[b]) \in Seq(TheTries!Node)
      /\ m \in Elements(Then(ev[a], ev[b])) <=> m \in Elements(ev[a]) \/ m \in Elements(ev[b])
  BY <1>2, InThen, Zenon
<1>5. m \in Elements(Then(Then(ev[a], ev[b]), <<n>>)) <=>
        m \in Elements(Then(ev[a], ev[b])) \/ m \in Elements(<<n>>)
  BY <1>3, <1>4, InThen, Zenon
<1>6. m \in Elements(<<n>>) <=> m = n
  BY <1>3
<1>7. CASE TheTries!KindOf(n) = "both" \/ (TheTries!KindOf(n) = "logic" /\ n \in cond)
  BY <1>1, <1>4, <1>7 DEF ev
<1>8. CASE TheTries!KindOf(n) = "point"
  BY <1>1, <1>4, <1>5, <1>6, <1>8 DEF ev
<1>9. CASE TheTries!KindOf(n) = "logic" /\ n \notin cond
  BY <1>1, <1>9 DEF ev
<1> QED
  BY <1>7, <1>8, <1>9

-----------------------------------------------------------------------------
(* What the text has, and in which order.                                  *)

\* The events of an expression if no condition skips a part.
All == TheTries!EventsOf({}, TheTries!Node)

LEMMA TextTyped ==
  ASSUME NEW low, Forest(low), NEW n \in TheTries!Node
  PROVE  All[n] \in Seq(TheTries!Node)
  BY EventsDone DEF All

LEMMA TextHas ==
  ASSUME NEW low, Forest(low)
  PROVE  \A n \in TheTries!Node : \A m \in TheTries!Within(n) : Eventful(m) => m \in Elements(All[n])
<1> DEFINE S == {n \in TheTries!Node : \A m \in TheTries!Within(n) : Eventful(m) => m \in Elements(All[n])}
<1>0. \A n \in TheTries!Node : n \in S <=> \A m \in TheTries!Within(n) : Eventful(m) => m \in Elements(All[n])
  OBVIOUS
<1> HIDE DEF S
<1>1. ASSUME NEW n \in TheTries!Node, TheTries!Kids(n) = <<>>, low[n] = n, TheTries!KindOf(n) \in {"leaf", "call"}
      PROVE  n \in S
  <2>1. \A m : m \in TheTries!Within(n) <=> m = n
    BY <1>1, WithinNone
  <2>2. TheTries!KindOf(n) = "call" => n \in Elements(All[n])
    <3>1. TheTries!KindOf(n) = "call" => All[n] = <<n>>
      BY <1>1, EventsNone DEF All
    <3>2. n \in Elements(<<n>>)
      BY InOne, Zenon
    <3> QED
      BY <3>1, <3>2
  <2>3. Eventful(n) => TheTries!KindOf(n) = "call"
    BY <1>1 DEF Eventful
  <2> QED
    BY <1>0, <2>1, <2>2, <2>3
<1>2. ASSUME NEW n \in TheTries!Node, NEW k, TheTries!KindOf(n) \in {"call", "branch", "try"}, Single(n, k),
             low[n] = low[k], k \in S
      PROVE  n \in S
  <2>1. \A m : m \in TheTries!Within(n) <=> m = n \/ m \in TheTries!Within(k)
    BY <1>2, WithinSingle
  <2>2. \A m : m = n \/ m \in Elements(All[k]) => m \in Elements(All[n])
    <3>1. n \notin {} /\ n \in TheTries!Node
      OBVIOUS
    <3> QED
      BY <1>2, <3>1, MembersSingle DEF All
  <2>3. k \in TheTries!Node
    BY <1>2 DEF Single
  <2> QED
    BY <1>0, <1>2, <2>1, <2>2, <2>3
<1>3. ASSUME NEW n \in TheTries!Node, NEW a, NEW b, TheTries!KindOf(n) \in {"both", "point", "logic"},
             Pair(n, a, b, low), a \in S, b \in S
      PROVE  n \in S
  <2>1. \A m : m \in TheTries!Within(n) <=> m = n \/ m \in TheTries!Within(a) \/ m \in TheTries!Within(b)
    BY <1>3, WithinPair
  <2>2. \A m : m \in Elements(All[a]) \/ m \in Elements(All[b]) => m \in Elements(All[n])
    <3>1. n \notin {} /\ n \in TheTries!Node
      OBVIOUS
    <3> QED
      BY <1>3, <3>1, MembersPair DEF All
  <2>3. TheTries!KindOf(n) = "point" => n \in Elements(All[n])
    <3>1. n \notin {} /\ n \in TheTries!Node
      OBVIOUS
    <3> QED
      BY <1>3, <3>1, MembersPair DEF All
  <2>4. Eventful(n) => TheTries!KindOf(n) = "point"
    BY <1>3 DEF Eventful
  <2>5. a \in TheTries!Node /\ b \in TheTries!Node
    BY <1>3 DEF Pair
  <2> QED
    BY <1>0, <1>3, <2>1, <2>2, <2>3, <2>4, <2>5
<1>4. \A n \in TheTries!Node : n \in S
  BY <1>1, <1>2, <1>3, OverExpressions
<1> QED
  BY <1>0, <1>4

\* An order between events of a part is one of the whole.
LEMMA PairOrders ==
  ASSUME NEW low, Forest(low), NEW n \in TheTries!Node, NEW a, NEW b, Pair(n, a, b, low),
         TheTries!KindOf(n) \in {"both", "point", "logic"}, NEW e, NEW t,
         \/ Precedes(All[a], e, t) \/ Precedes(All[b], e, t)
         \/ e \in Elements(All[a]) /\ t \in Elements(All[b])
  PROVE  Precedes(All[n], e, t)
<1>1. n \notin {} /\ n \in TheTries!Node
  OBVIOUS
<1>2. /\ TheTries!KindOf(n) = "both" => All[n] = Then(All[a], All[b])
      /\ TheTries!KindOf(n) = "point" => All[n] = Then(Then(All[a], All[b]), <<n>>)
      /\ TheTries!KindOf(n) = "logic" => All[n] = Then(All[a], All[b])
  BY <1>1, EventsPair DEF All
<1>3. All[a] \in Seq(TheTries!Node) /\ All[b] \in Seq(TheTries!Node) /\ <<n>> \in Seq(TheTries!Node)
  BY TextTyped, Lists DEF Pair
<1>4. Then(All[a], All[b]) \in Seq(TheTries!Node)
  BY <1>3, InThen, Zenon
<1>5. Precedes(Then(All[a], All[b]), e, t)
  BY <1>3, PrecedesThen
<1>6. Precedes(Then(Then(All[a], All[b]), <<n>>), e, t)
  BY <1>3, <1>4, <1>5, PrecedesThen
<1> QED
  BY <1>2, <1>5, <1>6

LEMMA PartOrders ==
  ASSUME NEW low, Forest(low), NEW e, NEW t
  PROVE  \A n \in TheTries!Node : \A k \in TheTries!Within(n) : Precedes(All[k], e, t) => Precedes(All[n], e, t)
<1> DEFINE S == {n \in TheTries!Node : \A k \in TheTries!Within(n) : Precedes(All[k], e, t) => Precedes(All[n], e, t)}
<1>0. \A n \in TheTries!Node : n \in S <=> \A k \in TheTries!Within(n) : Precedes(All[k], e, t) => Precedes(All[n], e, t)
  OBVIOUS
<1> HIDE DEF S
<1>1. ASSUME NEW n \in TheTries!Node, low[n] = n
      PROVE  n \in S
  BY <1>0, <1>1, WithinNone
<1>2. ASSUME NEW n \in TheTries!Node, NEW k, TheTries!KindOf(n) \in {"call", "branch", "try"}, Single(n, k),
             low[n] = low[k], k \in S
      PROVE  n \in S
  <2>1. (\A m : m \in TheTries!Within(n) <=> m = n \/ m \in TheTries!Within(k)) /\ k \in TheTries!Node
    BY <1>2, WithinSingle
  <2>2. n \notin {} /\ n \in TheTries!Node
    OBVIOUS
  <2>3. /\ TheTries!KindOf(n) = "branch" => All[n] = Then(<<n>>, All[k])
        /\ TheTries!KindOf(n) \in {"call", "try"} => All[n] = Then(All[k], <<n>>)
    BY <1>2, <2>2, EventsSingle DEF All
  <2>4. All[k] \in Seq(TheTries!Node) /\ <<n>> \in Seq(TheTries!Node)
    BY <2>1, TextTyped, Lists
  <2>5. Precedes(All[k], e, t) =>
          Precedes(Then(<<n>>, All[k]), e, t) /\ Precedes(Then(All[k], <<n>>), e, t)
    BY <2>4, PrecedesThen
  <2>6. Precedes(All[k], e, t) => Precedes(All[n], e, t)
    BY <1>2, <2>3, <2>5
  <2> QED
    BY <1>0, <1>2, <2>1, <2>6
<1>3. ASSUME NEW n \in TheTries!Node, NEW a, NEW b, TheTries!KindOf(n) \in {"both", "point", "logic"},
             Pair(n, a, b, low), a \in S, b \in S
      PROVE  n \in S
  <2>1. /\ \A m : m \in TheTries!Within(n) <=> m = n \/ m \in TheTries!Within(a) \/ m \in TheTries!Within(b)
        /\ a \in TheTries!Node /\ b \in TheTries!Node
    BY <1>3, WithinPair
  <2>2. Precedes(All[a], e, t) \/ Precedes(All[b], e, t) => Precedes(All[n], e, t)
    BY <1>3, PairOrders
  <2> QED
    BY <1>0, <1>3, <2>1, <2>2
<1>4. \A n \in TheTries!Node : n \in S
  BY <1>1, <1>2, <1>3, OverExpressions
<1> QED
  BY <1>0, <1>4

\* Of two expressions of which one ends where the other begins: an effect of the
\* first, outside its tries, is overtaken by a try of the second.
LEMMA Across ==
  ASSUME NEW low, Forest(low), NEW a \in TheTries!Node, NEW b \in TheTries!Node, low[b] = a + 1,
         NEW e \in TheTries!Within(a), NEW t \in TheTries!Within(b), t \in TheTries!Tries, TheTries!Before(e, t),
         \A u \in TheTries!Tries : u \in TheTries!Within(a) => e \notin TheTries!Within(u)
  PROVE  TheTries!Overtaken(e, t)
<1>1. /\ TheTries!Node = 1 .. Total /\ Total \in Nat
      /\ \A x \in TheTries!Node : x \in Nat /\ low[x] \in Nat /\ 1 =< low[x] /\ low[x] =< x
      /\ \A x, y \in TheTries!Node : low[y] =< x /\ x =< y => low[y] =< low[x]
      /\ \A x \in TheTries!Node : \A m : m \in TheTries!Within(x) <=> m \in TheTries!Node /\ low[x] =< m /\ m =< x
  BY Bounds
<1>2. e \in Nat /\ t \in Nat /\ e \in TheTries!Node /\ t \in TheTries!Node /\ low[a] =< e /\ e =< a
      /\ low[b] =< t /\ t =< b /\ a \in Nat /\ b \in Nat
  BY <1>1
<1>3. low[b] =< low[t] /\ low[t] \in Nat
  BY <1>1, <1>2
<1>4. e \notin TheTries!Within(t)
  BY <1>1, <1>2, <1>3
<1>5. ASSUME NEW u \in TheTries!Tries, e \in TheTries!Within(u) PROVE t \in TheTries!Within(u)
  <2>1. u \in TheTries!Node /\ u \in Nat /\ low[u] \in Nat /\ low[u] =< e /\ e =< u
    BY <1>1, <1>5 DEF TheTries!Tries
  <2>2. u \notin TheTries!Within(a)
    BY <1>5
  <2>3. u > a
    <3>1. ~(low[a] =< u /\ u =< a)
      BY <1>1, <2>1, <2>2
    <3>2. low[a] \in Nat
      BY <1>1
    <3>3. low[a] =< u
      BY <1>2, <2>1, <3>2
    <3> QED
      BY <1>2, <2>1, <3>1, <3>3
  <2>4. CASE u =< b
    <3>1. low[b] =< low[u]
      BY <1>1, <1>2, <2>1, <2>3, <2>4
    <3> QED
      BY <1>2, <2>1, <3>1
  <2>5. CASE u > b
    BY <1>1, <1>2, <2>1, <2>5
  <2> QED
    BY <1>2, <2>1, <2>4, <2>5
<1> QED
  BY <1>4, <1>5 DEF TheTries!Overtaken

-----------------------------------------------------------------------------
(* The walk and the preambles.                                             *)

\* An expression without tries is left as it is.
Plain(n, cond) ==
  /\ TheTries!EventsOf(TheTries!Tries, cond)[n] = TheTries!EventsOf({}, cond)[n]
  /\ TheTries!hoist[n] = <<>>
  /\ TheTries!walk[n]["pure"] \in {"pure", "impure"} /\ TheTries!walk[n]["impure"] = "impure"

LEMMA NoTries ==
  ASSUME NEW low, Forest(low), NEW cond
  PROVE  \A n \in TheTries!Node : (\A m \in TheTries!Within(n) : m \notin TheTries!Tries) => Plain(n, cond)
<1> DEFINE S == {n \in TheTries!Node : (\A m \in TheTries!Within(n) : m \notin TheTries!Tries) => Plain(n, cond)}
<1>0. \A n \in TheTries!Node : n \in S <=> ((\A m \in TheTries!Within(n) : m \notin TheTries!Tries) => Plain(n, cond))
  OBVIOUS
<1> HIDE DEF S
<1>4. \A n : n \notin {}
  OBVIOUS
<1>1. ASSUME NEW n \in TheTries!Node, TheTries!Kids(n) = <<>>, low[n] = n, TheTries!KindOf(n) \in {"leaf", "call"}
      PROVE  n \in S
  <2>1. n \notin TheTries!Tries
    BY <1>1 DEF TheTries!Tries
  <2>2. TheTries!EventsOf(TheTries!Tries, cond)[n] = TheTries!EventsOf({}, cond)[n]
    BY <1>1, <1>4, <2>1, EventsNone
  <2>3. TheTries!hoist[n] = <<>>
    BY <1>1, HoistNone
  <2>4. \A s \in {"pure", "impure"} : TheTries!walk[n][s] = s \/ TheTries!walk[n][s] = "impure"
    BY <1>1, WalkNone
  <2> QED
    BY <1>0, <2>2, <2>3, <2>4 DEF Plain
<1>2. ASSUME NEW n \in TheTries!Node, NEW k, TheTries!KindOf(n) \in {"call", "branch", "try"}, Single(n, k),
             low[n] = low[k], k \in S
      PROVE  n \in S
  <2> SUFFICES ASSUME \A m \in TheTries!Within(n) : m \notin TheTries!Tries PROVE Plain(n, cond)
    BY <1>0
  <2>1. (\A m : m \in TheTries!Within(n) <=> m = n \/ m \in TheTries!Within(k)) /\ k \in TheTries!Node
    BY <1>2, WithinSingle
  <2>2. n \notin TheTries!Tries /\ TheTries!KindOf(n) \in {"call", "branch"} /\ Plain(k, cond)
    BY <1>0, <1>2, <2>1 DEF TheTries!Tries
  <2>3. TheTries!EventsOf(TheTries!Tries, cond)[n] = TheTries!EventsOf({}, cond)[n]
    <3>1. TheTries!EventsOf(TheTries!Tries, cond)[k] = TheTries!EventsOf({}, cond)[k]
      BY <2>2 DEF Plain
    <3>2. /\ TheTries!KindOf(n) = "branch" /\ n \in cond =>
               TheTries!EventsOf(TheTries!Tries, cond)[n] = Then(<<n>>, TheTries!EventsOf(TheTries!Tries, cond)[k])
          /\ TheTries!KindOf(n) = "branch" /\ n \notin cond => TheTries!EventsOf(TheTries!Tries, cond)[n] = <<n>>
          /\ TheTries!KindOf(n) = "call" =>
               TheTries!EventsOf(TheTries!Tries, cond)[n] = Then(TheTries!EventsOf(TheTries!Tries, cond)[k], <<n>>)
      BY <1>2, <2>2, EventsSingle
    <3>3. /\ TheTries!KindOf(n) = "branch" /\ n \in cond =>
               TheTries!EventsOf({}, cond)[n] = Then(<<n>>, TheTries!EventsOf({}, cond)[k])
          /\ TheTries!KindOf(n) = "branch" /\ n \notin cond => TheTries!EventsOf({}, cond)[n] = <<n>>
          /\ TheTries!KindOf(n) = "call" =>
               TheTries!EventsOf({}, cond)[n] = Then(TheTries!EventsOf({}, cond)[k], <<n>>)
      BY <1>2, <1>4, EventsSingle
    <3> QED
      BY <2>2, <3>1, <3>2, <3>3
  <2>4. TheTries!hoist[n] = <<>>
    BY <1>2, <2>2, HoistSingle DEF Plain
  <2>5. \A s \in {"pure", "impure"} : TheTries!walk[n][s] = "impure"
    <3>1. \A s \in {"pure", "impure"} : TheTries!walk[k][s] # "unsafe"
      BY <2>2 DEF Plain
    <3> QED
      BY <1>2, <2>2, <3>1, WalkSingle
  <2> QED
    BY <2>3, <2>4, <2>5 DEF Plain
<1>3. ASSUME NEW n \in TheTries!Node, NEW a, NEW b, TheTries!KindOf(n) \in {"both", "point", "logic"},
             Pair(n, a, b, low), a \in S, b \in S
      PROVE  n \in S
  <2> SUFFICES ASSUME \A m \in TheTries!Within(n) : m \notin TheTries!Tries PROVE Plain(n, cond)
    BY <1>0
  <2>1. /\ \A m : m \in TheTries!Within(n) <=> m = n \/ m \in TheTries!Within(a) \/ m \in TheTries!Within(b)
        /\ a \in TheTries!Node /\ b \in TheTries!Node
    BY <1>3, WithinPair
  <2>2. n \notin TheTries!Tries /\ Plain(a, cond) /\ Plain(b, cond)
    BY <1>0, <1>3, <2>1 DEF TheTries!Tries
  <2>3. TheTries!EventsOf(TheTries!Tries, cond)[n] = TheTries!EventsOf({}, cond)[n]
    <3>1. /\ TheTries!EventsOf(TheTries!Tries, cond)[a] = TheTries!EventsOf({}, cond)[a]
          /\ TheTries!EventsOf(TheTries!Tries, cond)[b] = TheTries!EventsOf({}, cond)[b]
      BY <2>2 DEF Plain
    <3>2. /\ TheTries!KindOf(n) = "both" =>
              TheTries!EventsOf(TheTries!Tries, cond)[n] = Then(TheTries!EventsOf(TheTries!Tries, cond)[a], TheTries!EventsOf(TheTries!Tries, cond)[b])
          /\ TheTries!KindOf(n) = "point" =>
              TheTries!EventsOf(TheTries!Tries, cond)[n] =
                Then(Then(TheTries!EventsOf(TheTries!Tries, cond)[a], TheTries!EventsOf(TheTries!Tries, cond)[b]), <<n>>)
          /\ TheTries!KindOf(n) = "logic" /\ n \in cond =>
              TheTries!EventsOf(TheTries!Tries, cond)[n] = Then(TheTries!EventsOf(TheTries!Tries, cond)[a], TheTries!EventsOf(TheTries!Tries, cond)[b])
          /\ TheTries!KindOf(n) = "logic" /\ n \notin cond =>
              TheTries!EventsOf(TheTries!Tries, cond)[n] = TheTries!EventsOf(TheTries!Tries, cond)[a]
      BY <1>3, <2>2, EventsPair
    <3>3. /\ TheTries!KindOf(n) = "both" =>
              TheTries!EventsOf({}, cond)[n] = Then(TheTries!EventsOf({}, cond)[a], TheTries!EventsOf({}, cond)[b])
          /\ TheTries!KindOf(n) = "point" =>
              TheTries!EventsOf({}, cond)[n] =
                Then(Then(TheTries!EventsOf({}, cond)[a], TheTries!EventsOf({}, cond)[b]), <<n>>)
          /\ TheTries!KindOf(n) = "logic" /\ n \in cond =>
              TheTries!EventsOf({}, cond)[n] = Then(TheTries!EventsOf({}, cond)[a], TheTries!EventsOf({}, cond)[b])
          /\ TheTries!KindOf(n) = "logic" /\ n \notin cond =>
              TheTries!EventsOf({}, cond)[n] = TheTries!EventsOf({}, cond)[a]
      BY <1>3, <1>4, EventsPair
    <3> QED
      BY <1>3, <3>1, <3>2, <3>3
  <2>4. TheTries!hoist[n] = <<>>
    <3>1. Then(<<>>, <<>>) = <<>>
      BY Lists
    <3> QED
      BY <1>3, <2>2, <3>1, HoistPair DEF Plain
  <2>5. TheTries!walk[n]["pure"] \in {"pure", "impure"} /\ TheTries!walk[n]["impure"] = "impure"
    <3>1. /\ TheTries!walk[a]["pure"] \in {"pure", "impure"} /\ TheTries!walk[a]["impure"] = "impure"
          /\ TheTries!walk[b]["pure"] \in {"pure", "impure"} /\ TheTries!walk[b]["impure"] = "impure"
      BY <2>2 DEF Plain
    <3>2. /\ TheTries!walk[b][TheTries!walk[a]["pure"]] \in {"pure", "impure"}
          /\ TheTries!walk[b][TheTries!walk[a]["impure"]] = "impure"
      BY <3>1
    <3>3. \A s \in {"pure", "impure"} :
            /\ TheTries!KindOf(n) = "both" => TheTries!walk[n][s] = TheTries!walk[b][TheTries!walk[a][s]]
            /\ TheTries!KindOf(n) = "point" /\ TheTries!walk[b][TheTries!walk[a][s]] # "unsafe" => TheTries!walk[n][s] = "impure"
            /\ TheTries!KindOf(n) = "logic" => TheTries!walk[n][s] = TheTries!walk[a][s]
      BY <1>3, WalkPair
    <3> QED
      BY <1>3, <3>1, <3>2, <3>3
  <2> QED
    BY <2>3, <2>4, <2>5 DEF Plain
<1>5. \A n \in TheTries!Node : n \in S
  BY <1>1, <1>2, <1>3, OverExpressions
<1> QED
  BY <1>0, <1>5

\* Once impure, the walk stays so, and then there was no try.
LEMMA WalkImpure ==
  ASSUME NEW low, Forest(low)
  PROVE  \A n \in TheTries!Node : /\ TheTries!walk[n]["impure"] \in {"impure", "unsafe"}
                                  /\ TheTries!walk[n]["impure"] = "impure" => TheTries!hoist[n] = <<>>
<1> DEFINE Fine(n) == /\ TheTries!walk[n]["impure"] \in {"impure", "unsafe"}
                      /\ TheTries!walk[n]["impure"] = "impure" => TheTries!hoist[n] = <<>>
           S == {n \in TheTries!Node : Fine(n)}
<1>0. \A n \in TheTries!Node : n \in S <=> Fine(n)
  OBVIOUS
<1> HIDE DEF S
<1>1. ASSUME NEW n \in TheTries!Node, TheTries!Kids(n) = <<>>, TheTries!KindOf(n) \in {"leaf", "call"}
      PROVE  n \in S
  <2>1. TheTries!walk[n]["impure"] = "impure"
    BY <1>1, WalkNone
  <2>2. TheTries!hoist[n] = <<>>
    BY <1>1, HoistNone
  <2> QED
    BY <1>0, <2>1, <2>2
<1>2. ASSUME NEW n \in TheTries!Node, NEW k, TheTries!KindOf(n) \in {"call", "branch", "try"}, Single(n, k), k \in S
      PROVE  n \in S
  <2>1. k \in TheTries!Node /\ Fine(k)
    BY <1>0, <1>2 DEF Single
  <2>2. /\ TheTries!KindOf(n) = "branch" => TheTries!walk[n]["impure"] = "impure"
        /\ TheTries!KindOf(n) = "call" /\ TheTries!walk[k]["impure"] = "unsafe" => TheTries!walk[n]["impure"] = "unsafe"
        /\ TheTries!KindOf(n) = "call" /\ TheTries!walk[k]["impure"] # "unsafe" => TheTries!walk[n]["impure"] = "impure"
        /\ TheTries!KindOf(n) = "try" => TheTries!walk[n]["impure"] = "unsafe"
    BY <1>2, WalkSingle
  <2>3. /\ TheTries!KindOf(n) = "branch" => TheTries!hoist[n] = <<>>
        /\ TheTries!KindOf(n) = "call" => TheTries!hoist[n] = TheTries!hoist[k]
    BY <1>2, HoistSingle
  <2>4. Fine(n)
    BY <1>2, <2>1, <2>2, <2>3
  <2> QED
    BY <1>0, <2>4
<1>3. ASSUME NEW n \in TheTries!Node, NEW a, NEW b, TheTries!KindOf(n) \in {"both", "point", "logic"},
             Pair(n, a, b, low), a \in S, b \in S
      PROVE  n \in S
  <2>1. a \in TheTries!Node /\ b \in TheTries!Node /\ Fine(a) /\ Fine(b)
    BY <1>0, <1>3 DEF Pair
  <2>2. TheTries!walk[b]["unsafe"] = "unsafe"
    BY <2>1, WalkTyped
  <2>3. /\ TheTries!KindOf(n) = "both" => TheTries!walk[n]["impure"] = TheTries!walk[b][TheTries!walk[a]["impure"]]
        /\ TheTries!KindOf(n) = "point" /\ TheTries!walk[b][TheTries!walk[a]["impure"]] = "unsafe" => TheTries!walk[n]["impure"] = "unsafe"
        /\ TheTries!KindOf(n) = "point" /\ TheTries!walk[b][TheTries!walk[a]["impure"]] # "unsafe" => TheTries!walk[n]["impure"] = "impure"
        /\ TheTries!KindOf(n) = "logic" => TheTries!walk[n]["impure"] = TheTries!walk[a]["impure"]
    BY <1>3, WalkPair
  <2>4. /\ TheTries!KindOf(n) \in {"both", "point"} => TheTries!hoist[n] = Then(TheTries!hoist[a], TheTries!hoist[b])
        /\ TheTries!KindOf(n) = "logic" => TheTries!hoist[n] = TheTries!hoist[a]
    BY <1>3, HoistPair
  <2>5. Then(<<>>, <<>>) = <<>>
    BY Lists
  <2>6. TheTries!walk[b][TheTries!walk[a]["impure"]] \in {"impure", "unsafe"}
    BY <2>1, <2>2
  <2>7. TheTries!walk[n]["impure"] \in {"impure", "unsafe"}
    BY <1>3, <2>1, <2>3, <2>6
  <2>8. ASSUME TheTries!walk[n]["impure"] = "impure" PROVE TheTries!hoist[n] = <<>>
    <3>1. CASE TheTries!KindOf(n) = "logic"
      BY <2>1, <2>3, <2>4, <2>8, <3>1
    <3>2. CASE TheTries!KindOf(n) \in {"both", "point"}
      <4>1. TheTries!walk[a]["impure"] # "unsafe" /\ TheTries!walk[b][TheTries!walk[a]["impure"]] # "unsafe"
        BY <2>2, <2>3, <2>8, <3>2
      <4>2. TheTries!walk[a]["impure"] = "impure" /\ TheTries!walk[b]["impure"] = "impure"
        BY <2>1, <4>1
      <4> QED
        BY <2>1, <2>4, <2>5, <3>2, <4>2
    <3> QED
      BY <1>3, <3>1, <3>2
  <2> QED
    BY <1>0, <2>7, <2>8
<1>5. \A n \in TheTries!Node : n \in S
  BY <1>1, <1>2, <1>3, OverExpressions
<1> QED
  BY <1>0, <1>5

\* The preambles of an expression are for tries within it.
LEMMA HoistWithin ==
  ASSUME NEW low, Forest(low)
  PROVE  \A n \in TheTries!Node : /\ TheTries!hoist[n] \in Seq(TheTries!Node)
                                  /\ \A t \in Elements(TheTries!hoist[n]) : t \in TheTries!Tries /\ t \in TheTries!Within(n)
<1> DEFINE Fine(n) == /\ TheTries!hoist[n] \in Seq(TheTries!Node)
                      /\ \A t \in Elements(TheTries!hoist[n]) : t \in TheTries!Tries /\ t \in TheTries!Within(n)
           S == {n \in TheTries!Node : Fine(n)}
<1>0. \A n \in TheTries!Node : n \in S <=> Fine(n)
  OBVIOUS
<1> HIDE DEF S
<1>4. <<>> \in Seq(TheTries!Node) /\ \A m : m \notin Elements(<<>>)
  BY InOne, Zenon
<1>1. ASSUME NEW n \in TheTries!Node, TheTries!Kids(n) = <<>>, TheTries!KindOf(n) \in {"leaf", "call"}
      PROVE  n \in S
  BY <1>0, <1>1, <1>4, HoistNone
<1>2. ASSUME NEW n \in TheTries!Node, NEW k, TheTries!KindOf(n) \in {"call", "branch", "try"}, Single(n, k),
             low[n] = low[k], k \in S
      PROVE  n \in S
  <2>1. (\A m : m \in TheTries!Within(n) <=> m = n \/ m \in TheTries!Within(k)) /\ k \in TheTries!Node
    BY <1>2, WithinSingle
  <2>2. Fine(k)
    BY <1>0, <1>2, <2>1
  <2>3. <<n>> \in Seq(TheTries!Node) /\ \A m : m \in Elements(<<n>>) <=> m = n
    BY InOne, Zenon
  <2>4. /\ Then(TheTries!hoist[k], <<n>>) \in Seq(TheTries!Node)
        /\ \A m : m \in Elements(Then(TheTries!hoist[k], <<n>>)) <=> m \in Elements(TheTries!hoist[k]) \/ m \in Elements(<<n>>)
    BY <2>2, <2>3, InThen
  <2>5. \/ TheTries!hoist[n] = <<>> \/ TheTries!hoist[n] = TheTries!hoist[k]
        \/ TheTries!KindOf(n) = "try" /\ (TheTries!hoist[n] = <<n>> \/ TheTries!hoist[n] = Then(TheTries!hoist[k], <<n>>))
    BY <1>2, HoistSingle
  <2>6. TheTries!KindOf(n) = "try" => n \in TheTries!Tries
    BY DEF TheTries!Tries
  <2>7. CASE TheTries!hoist[n] = <<>>
    BY <1>0, <1>4, <2>7
  <2>8. CASE TheTries!hoist[n] = TheTries!hoist[k]
    BY <1>0, <2>1, <2>2, <2>8
  <2>9. CASE TheTries!KindOf(n) = "try" /\ TheTries!hoist[n] = <<n>>
    <3>1. n \in TheTries!Tries /\ n \in TheTries!Within(n)
      BY <2>1, <2>6, <2>9
    <3>2. \A t \in Elements(<<n>>) : t = n
      BY <2>3
    <3>3. \A t \in Elements(TheTries!hoist[n]) : t \in TheTries!Tries /\ t \in TheTries!Within(n)
      BY <2>9, <3>1, <3>2
    <3>4. TheTries!hoist[n] \in Seq(TheTries!Node)
      BY <2>3, <2>9
    <3> QED
      BY <1>0, <3>3, <3>4
  <2>10. CASE TheTries!KindOf(n) = "try" /\ TheTries!hoist[n] = Then(TheTries!hoist[k], <<n>>)
    BY <1>0, <2>1, <2>2, <2>3, <2>4, <2>6, <2>10
  <2> QED
    BY <2>5, <2>7, <2>8, <2>9, <2>10
<1>3. ASSUME NEW n \in TheTries!Node, NEW a, NEW b, TheTries!KindOf(n) \in {"both", "point", "logic"},
             Pair(n, a, b, low), a \in S, b \in S
      PROVE  n \in S
  <2>1. /\ \A m : m \in TheTries!Within(n) <=> m = n \/ m \in TheTries!Within(a) \/ m \in TheTries!Within(b)
        /\ a \in TheTries!Node /\ b \in TheTries!Node
    BY <1>3, WithinPair
  <2>2. Fine(a) /\ Fine(b)
    BY <1>0, <1>3, <2>1
  <2>3. /\ Then(TheTries!hoist[a], TheTries!hoist[b]) \in Seq(TheTries!Node)
        /\ \A m : m \in Elements(Then(TheTries!hoist[a], TheTries!hoist[b])) <=> m \in Elements(TheTries!hoist[a]) \/ m \in Elements(TheTries!hoist[b])
    BY <2>2, InThen
  <2>4. TheTries!hoist[n] = Then(TheTries!hoist[a], TheTries!hoist[b]) \/ TheTries!hoist[n] = TheTries!hoist[a]
    BY <1>3, HoistPair
  <2>5. CASE TheTries!hoist[n] = TheTries!hoist[a]
    BY <1>0, <2>1, <2>2, <2>5
  <2>6. CASE TheTries!hoist[n] = Then(TheTries!hoist[a], TheTries!hoist[b])
    BY <1>0, <2>1, <2>2, <2>3, <2>6
  <2> QED
    BY <2>4, <2>5, <2>6
<1>5. \A n \in TheTries!Node : n \in S
  BY <1>1, <1>2, <1>3, OverExpressions
<1> QED
  BY <1>0, <1>5

\* Where the walk stays pure there is no effect but in the right operand of a
\* condition, other than in tries.
LEMMA PureEvents ==
  ASSUME NEW low, Forest(low), NEW cond
  PROVE  \A n \in TheTries!Node : TheTries!walk[n]["pure"] = "pure" =>
           \A e \in Elements(TheTries!EventsOf(TheTries!Tries, cond)[n]) :
             \E c \in TheTries!Node : TheTries!KindOf(c) = "logic" /\ e \in TheTries!Within(TheTries!Kids(c)[2])
<1> DEFINE Behind(e) == \E c \in TheTries!Node : TheTries!KindOf(c) = "logic" /\ e \in TheTries!Within(TheTries!Kids(c)[2])
           Fine(n) == TheTries!walk[n]["pure"] = "pure" =>
                        \A e \in Elements(TheTries!EventsOf(TheTries!Tries, cond)[n]) : Behind(e)
           S == {n \in TheTries!Node : Fine(n)}
<1>0. \A n \in TheTries!Node : n \in S <=> Fine(n)
  OBVIOUS
<1> HIDE DEF S, Behind
<1>4. \A m : m \notin Elements(<<>>)
  BY InOne, Zenon
<1>1. ASSUME NEW n \in TheTries!Node, TheTries!Kids(n) = <<>>, TheTries!KindOf(n) \in {"leaf", "call"}
      PROVE  n \in S
  <2>1. TheTries!KindOf(n) = "call" => TheTries!walk[n]["pure"] = "impure"
    BY <1>1, WalkNone
  <2>2. n \notin TheTries!Tries
    BY <1>1 DEF TheTries!Tries
  <2>3. TheTries!KindOf(n) = "leaf" => TheTries!EventsOf(TheTries!Tries, cond)[n] = <<>>
    BY <1>1, <2>2, EventsNone
  <2> QED
    BY <1>0, <1>1, <1>4, <2>1, <2>3
<1>2. ASSUME NEW n \in TheTries!Node, NEW k, TheTries!KindOf(n) \in {"call", "branch", "try"}, Single(n, k), k \in S
      PROVE  n \in S
  <2>1. TheTries!KindOf(n) # "try" => TheTries!walk[n]["pure"] # "pure"
    <3>1. /\ TheTries!KindOf(n) = "branch" => TheTries!walk[n]["pure"] = "impure"
          /\ TheTries!KindOf(n) = "call" /\ TheTries!walk[k]["pure"] = "unsafe" => TheTries!walk[n]["pure"] = "unsafe"
          /\ TheTries!KindOf(n) = "call" /\ TheTries!walk[k]["pure"] # "unsafe" => TheTries!walk[n]["pure"] = "impure"
      BY <1>2, WalkSingle
    <3> QED
      BY <1>2, <3>1
  <2>2. TheTries!KindOf(n) = "try" => TheTries!EventsOf(TheTries!Tries, cond)[n] = <<>>
    <3>1. TheTries!KindOf(n) = "try" => n \in TheTries!Tries
      BY DEF TheTries!Tries
    <3> QED
      BY <3>1, EventsDone
  <2> QED
    BY <1>0, <1>4, <2>1, <2>2
<1>3. ASSUME NEW n \in TheTries!Node, NEW a, NEW b, TheTries!KindOf(n) \in {"both", "point", "logic"},
             Pair(n, a, b, low), a \in S, b \in S
      PROVE  n \in S
  <2> SUFFICES ASSUME TheTries!walk[n]["pure"] = "pure", NEW e \in Elements(TheTries!EventsOf(TheTries!Tries, cond)[n])
               PROVE  Behind(e)
    BY <1>0
  <2>1. a \in TheTries!Node /\ b \in TheTries!Node /\ Fine(a) /\ Fine(b) /\ TheTries!Kids(n) = <<a, b>>
    BY <1>0, <1>3 DEF Pair
  <2>2. n \notin TheTries!Tries
    BY <1>3 DEF TheTries!Tries
  <2>3. /\ TheTries!KindOf(n) = "both" => TheTries!walk[n]["pure"] = TheTries!walk[b][TheTries!walk[a]["pure"]]
        /\ TheTries!KindOf(n) = "point" /\ TheTries!walk[b][TheTries!walk[a]["pure"]] = "unsafe" => TheTries!walk[n]["pure"] = "unsafe"
        /\ TheTries!KindOf(n) = "point" /\ TheTries!walk[b][TheTries!walk[a]["pure"]] # "unsafe" => TheTries!walk[n]["pure"] = "impure"
        /\ TheTries!KindOf(n) = "logic" => TheTries!walk[n]["pure"] = TheTries!walk[a]["pure"]
    BY <1>3, WalkPair
  <2>4. TheTries!KindOf(n) # "point"
    BY <2>3
  <2>5. /\ TheTries!walk[a]["pure"] \in {"pure", "impure", "unsafe"}
        /\ TheTries!walk[b]["unsafe"] = "unsafe"
        /\ TheTries!walk[b]["impure"] # "pure"
    <3>1. TheTries!walk[b]["impure"] \in {"impure", "unsafe"}
      BY <2>1, WalkImpure, Zenon
    <3> QED
      BY <2>1, <3>1, WalkTyped
  <2>6. TheTries!walk[a]["pure"] = "pure" /\ (TheTries!KindOf(n) = "both" => TheTries!walk[b]["pure"] = "pure")
    BY <1>3, <2>3, <2>4, <2>5
  <2>7. \/ e \in Elements(TheTries!EventsOf(TheTries!Tries, cond)[a])
        \/ /\ e \in Elements(TheTries!EventsOf(TheTries!Tries, cond)[b])
           /\ TheTries!KindOf(n) \in {"both", "logic"}
    <3>1. a \in TheTries!Node /\ b \in TheTries!Node /\ TheTries!KindOf(n) \in {"both", "logic"}
      BY <1>3, <2>1, <2>4
    <3>2. /\ TheTries!KindOf(n) = "both" \/ (TheTries!KindOf(n) = "logic" /\ n \in cond) =>
               (e \in Elements(TheTries!EventsOf(TheTries!Tries, cond)[n]) <=>
                  e \in Elements(TheTries!EventsOf(TheTries!Tries, cond)[a]) \/ e \in Elements(TheTries!EventsOf(TheTries!Tries, cond)[b]))
          /\ TheTries!KindOf(n) = "logic" /\ n \notin cond =>
               (e \in Elements(TheTries!EventsOf(TheTries!Tries, cond)[n]) <=> e \in Elements(TheTries!EventsOf(TheTries!Tries, cond)[a]))
      BY <1>3, <2>2, MembersPair
    <3> HIDE DEF Behind, Fine
    <3>3. CASE TheTries!KindOf(n) = "both"
      BY <3>2, <3>3
    <3>4. CASE TheTries!KindOf(n) = "logic" /\ n \in cond
      BY <3>2, <3>4
    <3>5. CASE TheTries!KindOf(n) = "logic" /\ n \notin cond
      BY <3>2, <3>5
    <3> QED
      BY <3>1, <3>3, <3>4, <3>5
  <2>8. CASE e \in Elements(TheTries!EventsOf(TheTries!Tries, cond)[a])
    BY <2>1, <2>6, <2>8
  <2>9. CASE e \in Elements(TheTries!EventsOf(TheTries!Tries, cond)[b]) /\ TheTries!KindOf(n) = "both"
    BY <2>1, <2>6, <2>9
  <2>10. CASE e \in Elements(TheTries!EventsOf(TheTries!Tries, cond)[b]) /\ TheTries!KindOf(n) = "logic"
    <3>1. TheTries!Tries \in SUBSET TheTries!Node
      BY DEF TheTries!Tries
    <3>2. Owned(e, b, TheTries!Tries)
      BY <2>1, <2>10, <3>1, EventsWithin
    <3>3. e \in TheTries!Within(b) /\ TheTries!Kids(n)[2] = b
      BY <2>1, <3>2 DEF Owned
    <3> QED
      BY <2>10, <3>3 DEF Behind
  <2> QED
    BY <2>7, <2>8, <2>9, <2>10
<1>5. \A n \in TheTries!Node : n \in S
  BY <1>1, <1>2, <1>3, OverExpressions
<1> QED
  BY <1>0, <1>5 DEF Behind

-----------------------------------------------------------------------------
(* The events of preambles.                                                *)

OfPreamble(t, done, cond) == Then(TheTries!Events(TheTries!Kids(t), done, cond), <<t>>)

\* The events up to preamble i, from those up to the one before.
PreambleStep(f, i, tries, done, cond) ==
  IF i = 0 THEN <<>> ELSE Then(f[i - 1], OfPreamble(tries[i], done, cond))
Upto(f, m, tries, done, cond) ==
  /\ f[0] = <<>>
  /\ \A i \in 1 .. m : f[i] = Then(f[i - 1], OfPreamble(tries[i], done, cond))

\* Kinds have the operands that the parser gives them.
LEMMA OfPreambleTyped ==
  ASSUME NEW low, Forest(low), NEW t \in TheTries!Node, NEW done, NEW cond
  PROVE  OfPreamble(t, done, cond) \in Seq(TheTries!Node)
<1> DEFINE ev == TheTries!EventsOf(done, cond)
<1>1. \A n \in TheTries!Node : ev[n] \in Seq(TheTries!Node)
  BY EventsDone
<1> HIDE DEF ev
<1>2. TheTries!Joined(ev, TheTries!Kids(t)) \in Seq(TheTries!Node)
  <2>1. CASE TheTries!Kids(t) = <<>>
    BY <2>1, JoinedNone, InOne
  <2>2. ASSUME NEW k, Single(t, k) PROVE TheTries!Joined(ev, TheTries!Kids(t)) \in Seq(TheTries!Node)
    BY <1>1, <2>2, JoinedOne DEF Single
  <2>3. ASSUME NEW a, NEW b, Pair(t, a, b, low) PROVE TheTries!Joined(ev, TheTries!Kids(t)) \in Seq(TheTries!Node)
    <3>1. TheTries!Joined(ev, TheTries!Kids(t)) = ev[a] \o ev[b] /\ ev[a] \in Seq(TheTries!Node) /\ ev[b] \in Seq(TheTries!Node)
      BY <1>1, <2>3, JoinedTwo DEF Pair
    <3> QED
      BY <3>1
  <2> QED
    BY <2>1, <2>2, <2>3, Forms
<1>3. <<t>> \in Seq(TheTries!Node)
  OBVIOUS
<1> QED
  BY <1>2, <1>3, InThen DEF OfPreamble, TheTries!Events, ev

LEMMA StepsChosen ==
  ASSUME NEW m \in Nat, NEW V, <<>> \in V, NEW tries, NEW done, NEW cond,
         \A s \in V, i \in 1 .. m : Then(s, OfPreamble(tries[i], done, cond)) \in V,
         NEW u, u = CHOOSE f : f = [i \in 0 .. m |-> PreambleStep(f, i, tries, done, cond)]
  PROVE  Upto(u, m, tries, done, cond)
<1> DEFINE D == 0 .. m
           Step(i, g) == PreambleStep(g, i, tries, done, cond)
           G == [i \in D |-> [g \in [D -> V] |-> Step(i, g)]]
<1>0. 0 \in Nat /\ V # {} /\ \A i \in D : i \in Nat /\ (i # 0 => i \in 1 .. m /\ i - 1 \in D)
  OBVIOUS
<1>1. ASSUME NEW i \in D, NEW g \in [D -> V] PROVE Step(i, g) \in V
  <2>1. CASE i = 0
    BY <2>1 DEF PreambleStep
  <2>2. CASE i # 0
    <3>1. g[i - 1] \in V /\ i \in 1 .. m
      BY <1>0, <2>2
    <3>2. Then(g[i - 1], OfPreamble(tries[i], done, cond)) \in V
      BY <3>1
    <3> QED
      BY <2>2, <3>2 DEF PreambleStep
  <2> QED
    BY <2>1, <2>2
<1>2. ASSUME NEW i \in D, NEW g, NEW h, \A k \in 0 .. i - 1 : g[k] = h[k]
      PROVE  Step(i, g) = Step(i, h)
  <2>1. i # 0 => g[i - 1] = h[i - 1]
    BY <1>0, <1>2
  <2> QED
    BY <2>1 DEF PreambleStep
<1> HIDE DEF Step
<1>3. /\ G \in [D -> [[D -> V] -> V]]
      /\ \A i \in D, g \in [D -> V] : G[i][g] = Step(i, g)
  BY <1>1
<1> HIDE DEF G
<1>4. OnlyBefore(G, 0, m, V)
  <2>1. \A i \in D : \A f, g \in [D -> V] :
          (\A k \in 0 .. i - 1 : f[k] = g[k]) => G[i][f] = G[i][g]
    <3> SUFFICES ASSUME NEW i \in D, NEW f \in [D -> V], NEW g \in [D -> V],
                        \A k \in 0 .. i - 1 : f[k] = g[k]
                 PROVE  G[i][f] = G[i][g]
      OBVIOUS
    <3>1. Step(i, f) = Step(i, g)
      BY <1>2
    <3> QED
      BY <1>3, <3>1
  <2> QED
    BY <2>1, Zenon DEF OnlyBefore
<1>5. PICK h \in [D -> V] : Solves(h, G, 0, m)
  BY <1>0, <1>3, <1>4, Recursion
<1>6. h = [i \in D |-> Step(i, h)]
  BY <1>3, <1>5 DEF Solves
<1>7. u = [i \in D |-> Step(i, u)]
  BY <1>6 DEF Step
<1>8. \A i \in D : u[i] = Step(i, u)
  BY <1>7
<1>9. u[0] = <<>>
  <2>1. 0 \in D
    OBVIOUS
  <2> QED
    BY <1>8, <2>1 DEF Step, PreambleStep
<1>10. ASSUME NEW i \in 1 .. m PROVE u[i] = Then(u[i - 1], OfPreamble(tries[i], done, cond))
  <2>1. i \in D /\ i # 0
    OBVIOUS
  <2> QED
    BY <1>8, <2>1 DEF Step, PreambleStep
<1> QED
  BY <1>9, <1>10 DEF Upto

LEMMA PreamblesUnfold ==
  ASSUME NEW low, Forest(low), NEW tries \in Seq(TheTries!Node), NEW done, NEW cond
  PROVE  \E f : /\ Upto(f, Len(tries), tries, done, cond)
                /\ TheTries!EventsOfPreambles(tries, done, cond) = f[Len(tries)]
<1> DEFINE f == CHOOSE g : g = [i \in 0 .. Len(tries) |-> PreambleStep(g, i, tries, done, cond)]
           V == Seq(TheTries!Node)
<1>1. TheTries!EventsOfPreambles(tries, done, cond) = f[Len(tries)]
  BY Zenon DEF TheTries!EventsOfPreambles, PreambleStep, OfPreamble, Then
<1>2. Len(tries) \in Nat /\ <<>> \in V /\ \A i \in 1 .. Len(tries) : tries[i] \in TheTries!Node
  BY InOne
<1>3. \A s \in V, i \in 1 .. Len(tries) : Then(s, OfPreamble(tries[i], done, cond)) \in V
  BY <1>2, InThen, OfPreambleTyped
<1> DEFINE m == Len(tries)
<1> HIDE DEF V, m
<1>4. Upto(f, m, tries, done, cond)
  BY <1>2, <1>3, StepsChosen DEF m
<1> QED
  BY <1>1, <1>4, Zenon DEF m

LEMMA UptoTyped ==
  ASSUME NEW m \in Nat, NEW V, <<>> \in V, NEW f, NEW tries, NEW done, NEW cond,
         Upto(f, m, tries, done, cond),
         \A s \in V, i \in 1 .. m : Then(s, OfPreamble(tries[i], done, cond)) \in V
  PROVE  \A i \in 0 .. m : f[i] \in V
<1> DEFINE S == {i \in 0 .. m : f[i] \in V}
<1>1. ASSUME NEW i \in 0 .. m, \A k \in 0 .. i - 1 : k \in S PROVE i \in S
  <2>1. CASE i = 0
    BY <2>1 DEF Upto
  <2>2. CASE i # 0
    <3>1. i \in 1 .. m /\ i - 1 \in 0 .. i - 1
      BY <2>2
    <3>2. f[i - 1] \in V
      BY <1>1, <3>1
    <3>3. f[i] = Then(f[i - 1], OfPreamble(tries[i], done, cond))
      BY <3>1 DEF Upto
    <3> QED
      BY <3>1, <3>2, <3>3
  <2> QED
    BY <2>1, <2>2
<1>2. \A i \in 0 .. m : i \in S
  <2>1. 0 \in Nat
    OBVIOUS
  <2> HIDE DEF S
  <2> QED
    BY <1>1, <2>1, Induction
<1> QED
  BY <1>2

\* The events of preambles, one after the other.
LEMMA OfPreambles ==
  ASSUME NEW low, Forest(low), NEW done, NEW cond
  PROVE  /\ TheTries!EventsOfPreambles(<<>>, done, cond) = <<>>
         /\ \A s \in Seq(TheTries!Node) : TheTries!EventsOfPreambles(s, done, cond) \in Seq(TheTries!Node)
         /\ \A n \in TheTries!Node : TheTries!EventsOfPreambles(<<n>>, done, cond) = OfPreamble(n, done, cond)
         /\ \A s, u \in Seq(TheTries!Node) :
              TheTries!EventsOfPreambles(Then(s, u), done, cond)
                = Then(TheTries!EventsOfPreambles(s, done, cond), TheTries!EventsOfPreambles(u, done, cond))
<1> DEFINE V == Seq(TheTries!Node)
           P(s) == TheTries!EventsOfPreambles(s, done, cond)
           O(n) == OfPreamble(n, done, cond)
<1>1. \A n \in TheTries!Node : O(n) \in V
  BY OfPreambleTyped
<1>2. /\ <<>> \in V
      /\ \A s \in V : Then(s, <<>>) = s /\ Then(<<>>, s) = s
      /\ \A s, u \in V : Then(s, u) \in V
      /\ \A s, u, v \in V : Then(Then(s, u), v) = Then(s, Then(u, v))
  BY Lists, ThenTwice
<1>3. /\ \A s \in V : Len(s) \in Nat /\ \A i \in 1 .. Len(s) : s[i] \in TheTries!Node
      /\ \A n \in TheTries!Node : <<n>> \in V /\ Len(<<n>>) = 1 /\ <<n>>[1] = n
      /\ Len(<<>>) = 0
  OBVIOUS
<1>4. ASSUME NEW s \in V, NEW u \in V
      PROVE  /\ Len(Then(s, u)) = Len(s) + Len(u)
             /\ \A i \in 1 .. Len(s) : Then(s, u)[i] = s[i]
             /\ \A i \in 1 .. Len(u) : Then(s, u)[Len(s) + i] = u[i]
  BY DEF Then
<1>5. ASSUME NEW s \in V
      PROVE  \E f : /\ Upto(f, Len(s), s, done, cond) /\ P(s) = f[Len(s)]
                    /\ \A i \in 0 .. Len(s) : f[i] \in V
  <2>1. PICK f : Upto(f, Len(s), s, done, cond) /\ P(s) = f[Len(s)]
    BY PreamblesUnfold
  <2>2. \A t \in V, i \in 1 .. Len(s) : Then(t, OfPreamble(s[i], done, cond)) \in V
    BY <1>1, <1>2, <1>3
  <2> DEFINE m == Len(s)
  <2>3. m \in Nat
    BY <1>3
  <2> HIDE DEF V, m
  <2>4. \A i \in 0 .. m : f[i] \in V
    BY <1>2, <2>1, <2>2, <2>3, UptoTyped DEF m
  <2> QED
    BY <2>1, <2>4, Zenon DEF m
<1> HIDE DEF V, P
<1>6. P(<<>>) = <<>>
  <2>1. PICK f : Upto(f, Len(<<>>), <<>>, done, cond) /\ P(<<>>) = f[Len(<<>>)]
    BY <1>2, <1>5
  <2>2. P(<<>>) = f[0] /\ f[0] = <<>>
    BY <1>3, <2>1, Zenon DEF Upto
  <2> QED
    BY <2>2
<1>7. ASSUME NEW s \in V PROVE P(s) \in V
  <2>1. PICK f : P(s) = f[Len(s)] /\ \A i \in 0 .. Len(s) : f[i] \in V
    BY <1>5
  <2> DEFINE m == Len(s)
  <2>2. m \in Nat /\ P(s) = f[m] /\ \A i \in 0 .. m : f[i] \in V
    BY <1>3, <2>1, Zenon
  <2> HIDE DEF m
  <2>3. m \in 0 .. m
    BY <2>2
  <2> QED
    BY <2>2, <2>3
<1>8. ASSUME NEW n \in TheTries!Node PROVE P(<<n>>) = O(n)
  <2>1. PICK f : Upto(f, Len(<<n>>), <<n>>, done, cond) /\ P(<<n>>) = f[Len(<<n>>)]
    BY <1>3, <1>5, Zenon
  <2>2. Upto(f, 1, <<n>>, done, cond) /\ P(<<n>>) = f[1]
    BY <1>3, <2>1, Zenon
  <2>3. 1 \in 1 .. 1 /\ 1 - 1 = 0
    OBVIOUS
  <2>4. f[0] = <<>> /\ f[1] = Then(f[1 - 1], OfPreamble(<<n>>[1], done, cond))
    BY <2>2, <2>3, Zenon DEF Upto
  <2>5. f[1] = Then(<<>>, O(n))
    BY <1>3, <2>3, <2>4, Zenon
  <2> QED
    BY <1>1, <1>2, <2>2, <2>5, Zenon
<1>9. ASSUME NEW s \in V, NEW u \in V PROVE P(Then(s, u)) = Then(P(s), P(u))
  <2>1. Then(s, u) \in V
    BY <1>2
  <2>2. PICK f : /\ Upto(f, Len(s), s, done, cond) /\ P(s) = f[Len(s)]
                 /\ \A i \in 0 .. Len(s) : f[i] \in V
    BY <1>5
  <2>3. PICK g : /\ Upto(g, Len(u), u, done, cond) /\ P(u) = g[Len(u)]
                 /\ \A i \in 0 .. Len(u) : g[i] \in V
    BY <1>5
  <2>4. PICK h : Upto(h, Len(Then(s, u)), Then(s, u), done, cond) /\ P(Then(s, u)) = h[Len(Then(s, u))]
    BY <1>5, <2>1
  <2> DEFINE m == Len(s)
             k == Len(u)
             w == Then(s, u)
  <2>5. /\ m \in Nat /\ k \in Nat /\ Len(w) = m + k
        /\ \A i \in 1 .. m : w[i] = s[i]
        /\ \A i \in 1 .. k : w[m + i] = u[i] /\ u[i] \in TheTries!Node
    BY <1>3, <1>4
  <2>6. /\ Upto(f, m, s, done, cond) /\ P(s) = f[m] /\ \A i \in 0 .. m : f[i] \in V
        /\ Upto(g, k, u, done, cond) /\ P(u) = g[k] /\ \A i \in 0 .. k : g[i] \in V
        /\ Upto(h, m + k, w, done, cond) /\ P(w) = h[m + k]
    BY <2>2, <2>3, <2>4, <2>5, Zenon
  <2> HIDE DEF m, k, w
  <2>7. \A i \in 1 .. k : w[m + i] = u[i] /\ OfPreamble(u[i], done, cond) \in V
    BY <1>1, <2>5
  <2>8. h[m + k] = Then(f[m], g[k])
    <3> DEFINE S == {i \in 0 .. m : h[i] = f[i]}
               T == {i \in 0 .. k : h[m + i] = Then(f[m], g[i])}
    <3>a. /\ <<>> \in V /\ \A i \in 1 .. m : w[i] = s[i]
          /\ m \in Nat /\ k \in Nat
      BY <1>2, <2>5
    <3>b. /\ \A x \in V : Then(x, <<>>) = x
          /\ \A x, y, z \in V : Then(Then(x, y), z) = Then(x, Then(y, z))
      BY <1>2, Zenon
    <3> USE <2>6, <2>7, <3>a, <3>b
    <3>0. 0 \in Nat /\ m \in 0 .. m /\ k \in 0 .. k /\ 0 \in 0 .. k
      OBVIOUS
    <3>1. ASSUME NEW i \in 0 .. m, \A j \in 0 .. i - 1 : j \in S PROVE i \in S
      <4>1. CASE i = 0
        BY <4>1 DEF Upto
      <4>2. CASE i # 0
        <5>1. i \in 1 .. m /\ i \in 1 .. m + k /\ i - 1 \in 0 .. i - 1
          BY <4>2
        <5>2. h[i - 1] = f[i - 1]
          BY <3>1, <5>1
        <5>3. /\ f[i] = Then(f[i - 1], OfPreamble(s[i], done, cond))
              /\ h[i] = Then(h[i - 1], OfPreamble(w[i], done, cond))
          BY <5>1 DEF Upto
        <5> QED
          BY <5>1, <5>2, <5>3
      <4> QED
        BY <4>1, <4>2
    <3>2. h[m] = f[m]
      <4>1. \A i \in 0 .. m : i \in S
        <5> HIDE DEF S
        <5> QED
          BY <3>0, <3>1, Induction
      <4> QED
        BY <3>0, <4>1
    <3>3. ASSUME NEW i \in 0 .. k, \A j \in 0 .. i - 1 : j \in T PROVE i \in T
      <4>1. CASE i = 0
        <5>1. g[0] = <<>> /\ m + 0 = m
          BY DEF Upto
        <5>2. Then(f[m], <<>>) = f[m]
          BY <3>0
        <5> QED
          BY <3>2, <4>1, <5>1, <5>2
      <4>2. CASE i # 0
        <5>1. /\ i \in 1 .. k /\ m + i \in 1 .. m + k /\ i - 1 \in 0 .. i - 1 /\ i - 1 \in 0 .. k
              /\ m + i - 1 = m + (i - 1)
          BY <4>2
        <5>2. h[m + (i - 1)] = Then(f[m], g[i - 1])
          BY <3>3, <5>1
        <5>3. g[i] = Then(g[i - 1], OfPreamble(u[i], done, cond))
          BY <5>1 DEF Upto
        <5>4. h[m + i] = Then(h[m + i - 1], OfPreamble(w[m + i], done, cond))
          BY <5>1 DEF Upto
        <5>5. w[m + i] = u[i] /\ OfPreamble(u[i], done, cond) \in V /\ f[m] \in V /\ g[i - 1] \in V
          BY <3>0, <5>1
        <5>6. Then(Then(f[m], g[i - 1]), OfPreamble(u[i], done, cond))
                = Then(f[m], Then(g[i - 1], OfPreamble(u[i], done, cond)))
          BY <5>5
        <5>7. h[m + i] = Then(f[m], g[i])
          BY <5>1, <5>2, <5>3, <5>4, <5>5, <5>6
        <5> QED
          BY <5>7
      <4> QED
        BY <4>1, <4>2
    <3>4. \A i \in 0 .. k : i \in T
      <4> HIDE DEF T
      <4> QED
        BY <3>0, <3>3, Induction
    <3> QED
      BY <3>0, <3>4
  <2> QED
    BY <2>6, <2>8, Zenon DEF w
<1> QED
  BY <1>2, <1>6, <1>7, <1>8, <1>9 DEF V, P

-----------------------------------------------------------------------------
(* The Go code does what the text says.                                    *)

\* All tries of n have a preamble.
Lifted(n) == \A t \in TheTries!Within(n) : t \in TheTries!Tries => t \in Elements(TheTries!hoist[n])

\* Expressions next to each other, and their events.
Adjacent(a, b, low) == a \in TheTries!Node /\ b \in TheTries!Node /\ low[b] = a + 1
Ordered(a, b) == \A e, t : e \in Elements(All[a]) /\ t \in Elements(All[b]) => TheTries!Before(e, t)
Contained == \A n \in TheTries!Node : \A e, t : Precedes(All[n], e, t) => TheTries!Before(e, t)

Done(n, cond) == TheTries!EventsOfPreambles(TheTries!hoist[n], TheTries!Tries, cond)
Left(n, cond) == TheTries!EventsOf(TheTries!Tries, cond)[n]
Said(n, cond) == TheTries!EventsOf({}, cond)[n]
Agrees(n, cond) == Then(Done(n, cond), Left(n, cond)) = Said(n, cond)

LEMMA PartsTyped ==
  ASSUME NEW low, Forest(low), NEW n \in TheTries!Node, NEW cond
  PROVE  /\ Done(n, cond) \in Seq(TheTries!Node) /\ Left(n, cond) \in Seq(TheTries!Node)
         /\ Said(n, cond) \in Seq(TheTries!Node) /\ TheTries!hoist[n] \in Seq(TheTries!Node)
<1>1. TheTries!hoist[n] \in Seq(TheTries!Node)
  BY HoistWithin
<1>2. Done(n, cond) \in Seq(TheTries!Node)
  BY <1>1, OfPreambles DEF Done
<1>3. Left(n, cond) \in Seq(TheTries!Node) /\ Said(n, cond) \in Seq(TheTries!Node)
  BY EventsDone DEF Left, Said
<1> QED
  BY <1>1, <1>2, <1>3

\* Expressions next to each other have no node in common.
LEMMA Apart ==
  ASSUME NEW low, Forest(low), NEW a, NEW b, Adjacent(a, b, low), NEW m, m \in TheTries!Within(a)
  PROVE  m \notin TheTries!Within(b)
<1>1. /\ \A x \in TheTries!Node : x \in Nat
      /\ \A x \in TheTries!Node : \A y : y \in TheTries!Within(x) <=> y \in TheTries!Node /\ low[x] =< y /\ y =< x
  BY Bounds
<1>2. a \in TheTries!Node /\ b \in TheTries!Node /\ low[b] = a + 1
  BY DEF Adjacent
<1>3. m \in Nat /\ a \in Nat /\ m =< a
  BY <1>1, <1>2
<1>4. ~(low[b] =< m)
  BY <1>2, <1>3
<1> QED
  BY <1>1, <1>2, <1>4

LEMMA EachCovered ==
  ASSUME NEW low, Forest(low), NEW a, NEW b, Adjacent(a, b, low),
         \A t \in TheTries!Tries : t \in TheTries!Within(a) \/ t \in TheTries!Within(b) =>
           t \in Elements(Then(TheTries!hoist[a], TheTries!hoist[b]))
  PROVE  Lifted(a) /\ Lifted(b)
<1>1. a \in TheTries!Node /\ b \in TheTries!Node
  BY DEF Adjacent
<1>2. /\ TheTries!hoist[a] \in Seq(TheTries!Node) /\ TheTries!hoist[b] \in Seq(TheTries!Node)
      /\ \A t \in Elements(TheTries!hoist[a]) : t \in TheTries!Within(a)
      /\ \A t \in Elements(TheTries!hoist[b]) : t \in TheTries!Within(b)
  BY <1>1, HoistWithin
<1>3. \A m : m \in Elements(Then(TheTries!hoist[a], TheTries!hoist[b])) <=> m \in Elements(TheTries!hoist[a]) \/ m \in Elements(TheTries!hoist[b])
  BY <1>2, InThen
<1>4. \A m : m \in TheTries!Within(a) => m \notin TheTries!Within(b)
  BY Apart
<1> QED
  BY <1>2, <1>3, <1>4 DEF Lifted

LEMMA BothCovered ==
  ASSUME NEW low, Forest(low), NEW a, NEW b, Adjacent(a, b, low), Lifted(a), Lifted(b)
  PROVE  \A t \in TheTries!Tries : t \in TheTries!Within(a) \/ t \in TheTries!Within(b) =>
           t \in Elements(Then(TheTries!hoist[a], TheTries!hoist[b]))
<1>1. a \in TheTries!Node /\ b \in TheTries!Node
  BY DEF Adjacent
<1>2. TheTries!hoist[a] \in Seq(TheTries!Node) /\ TheTries!hoist[b] \in Seq(TheTries!Node)
  BY <1>1, HoistWithin
<1>3. \A m : m \in Elements(Then(TheTries!hoist[a], TheTries!hoist[b])) <=> m \in Elements(TheTries!hoist[a]) \/ m \in Elements(TheTries!hoist[b])
  BY <1>2, InThen
<1> QED
  BY <1>3 DEF Lifted

\* An effect of a that is in none of its tries, before a try of b.
LEMMA Jumped ==
  ASSUME NEW low, Forest(low), NEW a, NEW b, Adjacent(a, b, low), Ordered(a, b),
         NEW e, Owned(e, a, TheTries!Tries), NEW t \in TheTries!Tries, t \in TheTries!Within(b)
  PROVE  TheTries!Overtaken(e, t)
<1>1. a \in TheTries!Node /\ b \in TheTries!Node /\ low[b] = a + 1
  BY DEF Adjacent
<1>2. e \in TheTries!Within(a) /\ Eventful(e) /\ Eventful(t) /\ \A u \in TheTries!Tries : u \in TheTries!Within(a) => e \notin TheTries!Within(u)
  BY DEF Owned, Eventful, TheTries!Tries
<1>3. e \in Elements(All[a]) /\ t \in Elements(All[b])
  BY <1>1, <1>2, TextHas
<1>4. TheTries!Before(e, t)
  BY <1>3 DEF Ordered
<1> QED
  BY <1>1, <1>2, <1>4, Across

LEMMA NoneBehind ==
  ASSUME NEW low, Forest(low), NEW a, NEW b, Adjacent(a, b, low), Ordered(a, b), ~TheTries!Unseen,
         NEW t \in TheTries!Tries, t \in TheTries!Within(b), TheTries!walk[a]["pure"] = "pure", NEW cond
  PROVE  Left(a, cond) = <<>>
<1>1. a \in TheTries!Node
  BY DEF Adjacent
<1>2. ASSUME NEW e \in Elements(Left(a, cond)) PROVE FALSE
  <2>1. PICK c \in TheTries!Node : TheTries!KindOf(c) = "logic" /\ e \in TheTries!Within(TheTries!Kids(c)[2])
    BY <1>1, <1>2, PureEvents DEF Left
  <2>2. TheTries!Tries \in SUBSET TheTries!Node
    BY DEF TheTries!Tries
  <2>3. Owned(e, a, TheTries!Tries)
    BY <1>1, <1>2, <2>2, EventsWithin DEF Left
  <2>4. TheTries!Overtaken(e, t)
    BY <2>3, Jumped
  <2> QED
    BY <2>1, <2>4 DEF TheTries!Unseen
<1>3. Left(a, cond) \in Seq(TheTries!Node)
  BY <1>1, PartsTyped
<1> QED
  BY <1>2, <1>3, Lists

LEMMA PairAgrees ==
  ASSUME NEW low, Forest(low), NEW a, NEW b, Adjacent(a, b, low), Ordered(a, b), ~TheTries!Unseen,
         NEW cond, TheTries!walk[b][TheTries!walk[a]["pure"]] # "unsafe", Lifted(a), Lifted(b),
         Agrees(a, cond), TheTries!walk[b]["pure"] # "unsafe" => Agrees(b, cond)
  PROVE  Then(TheTries!EventsOfPreambles(Then(TheTries!hoist[a], TheTries!hoist[b]), TheTries!Tries, cond), Then(Left(a, cond), Left(b, cond)))
           = Then(Said(a, cond), Said(b, cond))
<1> DEFINE V == Seq(TheTries!Node)
           p == Done(a, cond)
           q == Done(b, cond)
           d == Left(a, cond)
           e == Left(b, cond)
<1>1. a \in TheTries!Node /\ b \in TheTries!Node
  BY DEF Adjacent
<1>2. p \in V /\ q \in V /\ d \in V /\ e \in V /\ TheTries!hoist[a] \in V /\ TheTries!hoist[b] \in V
  BY <1>1, PartsTyped
<1>3. TheTries!EventsOfPreambles(Then(TheTries!hoist[a], TheTries!hoist[b]), TheTries!Tries, cond) = Then(p, q)
  <2>1. TheTries!EventsOfPreambles(Then(TheTries!hoist[a], TheTries!hoist[b]), TheTries!Tries, cond)
          = Then(TheTries!EventsOfPreambles(TheTries!hoist[a], TheTries!Tries, cond), TheTries!EventsOfPreambles(TheTries!hoist[b], TheTries!Tries, cond))
    BY <1>2, OfPreambles
  <2> QED
    BY <2>1 DEF Done
<1>4. /\ \A s \in V : Then(s, <<>>) = s /\ Then(<<>>, s) = s
      /\ \A s, u \in V : Then(s, u) \in V
      /\ \A s, u, v \in V : Then(Then(s, u), v) = Then(s, Then(u, v))
  BY Lists, ThenTwice
<1>5. Then(p, d) = Said(a, cond)
  BY DEF Agrees
<1>6. CASE \A t \in TheTries!Within(b) : t \notin TheTries!Tries
  <2>1. Plain(b, cond)
    BY <1>1, <1>6, NoTries
  <2>2. e = Said(b, cond) /\ TheTries!hoist[b] = <<>>
    BY <2>1 DEF Plain, Left, Said
  <2>3. q = <<>>
    BY <2>2, OfPreambles DEF Done
  <2> HIDE DEF V, p, q, d, e
  <2>4. Then(Then(p, q), Then(d, e)) = Then(Then(p, d), e)
    BY <1>2, <1>4, <2>3
  <2> QED
    BY <1>3, <1>5, <2>2, <2>4 DEF p, q, d, e
<1>7. CASE \E t \in TheTries!Within(b) : t \in TheTries!Tries
  <2>1. PICK t \in TheTries!Within(b) : t \in TheTries!Tries
    BY <1>7
  <2>2. TheTries!hoist[b] # <<>>
    <3>1. t \in Elements(TheTries!hoist[b])
      BY <2>1 DEF Lifted
    <3>2. t \notin Elements(<<>>)
      BY InOne
    <3> QED
      BY <3>1, <3>2, Zenon
  <2>3. TheTries!walk[a]["pure"] = "pure"
    <3>1. TheTries!walk[b]["impure"] \in {"impure", "unsafe"} /\ TheTries!walk[b]["impure"] # "impure"
      BY <1>1, <2>2, WalkImpure
    <3>2. TheTries!walk[a]["pure"] \in {"pure", "impure", "unsafe"} /\ TheTries!walk[b]["unsafe"] = "unsafe"
      BY <1>1, WalkTyped
    <3> QED
      BY <3>1, <3>2
  <2>4. Then(q, e) = Said(b, cond)
    BY <2>3 DEF Agrees
  <2>5. d = <<>>
    BY <2>1, <2>3, NoneBehind
  <2> HIDE DEF V, p, q, d, e
  <2>6. p = Said(a, cond) /\ Then(Then(p, q), Then(d, e)) = Then(p, Then(q, e))
    BY <1>2, <1>4, <1>5, <2>5
  <2> QED
    BY <1>3, <2>4, <2>6 DEF p, q, d, e
<1> QED
  BY <1>6, <1>7

\* Where conditional effects are not overtaken, an expression whose tries all have
\* preambles does what it says.
LEMMA AllAgree ==
  ASSUME NEW low, Forest(low), Contained, ~TheTries!Unseen, NEW cond
  PROVE  \A n \in TheTries!Node : Lifted(n) /\ TheTries!walk[n]["pure"] # "unsafe" => Agrees(n, cond)
<1> DEFINE S == {n \in TheTries!Node : Lifted(n) /\ TheTries!walk[n]["pure"] # "unsafe" => Agrees(n, cond)}
<1>0. \A n \in TheTries!Node : n \in S <=> (Lifted(n) /\ TheTries!walk[n]["pure"] # "unsafe" => Agrees(n, cond))
  OBVIOUS
<1> HIDE DEF S
<1>4. /\ \A s \in Seq(TheTries!Node) : Then(s, <<>>) = s /\ Then(<<>>, s) = s
      /\ \A s, u \in Seq(TheTries!Node) : Then(s, u) \in Seq(TheTries!Node)
      /\ \A s, u, v \in Seq(TheTries!Node) : Then(Then(s, u), v) = Then(s, Then(u, v))
  BY Lists, ThenTwice
<1>5. /\ TheTries!EventsOfPreambles(<<>>, TheTries!Tries, cond) = <<>>
      /\ \A n \in TheTries!Node : n \notin {} /\ <<n>> \in Seq(TheTries!Node)
  BY OfPreambles, Lists
<1>6. ASSUME NEW n \in TheTries!Node, \A m \in TheTries!Within(n) : m \notin TheTries!Tries PROVE Agrees(n, cond)
  <2>1. Plain(n, cond)
    BY <1>6, NoTries
  <2>2. Done(n, cond) = <<>> /\ Left(n, cond) = Said(n, cond) /\ Left(n, cond) \in Seq(TheTries!Node)
    BY <1>5, <2>1, PartsTyped DEF Plain, Done, Left, Said
  <2> QED
    BY <1>4, <2>2 DEF Agrees
<1>1. ASSUME NEW n \in TheTries!Node, TheTries!Kids(n) = <<>>, low[n] = n, TheTries!KindOf(n) \in {"leaf", "call"}
      PROVE  n \in S
  <2>1. \A m \in TheTries!Within(n) : m \notin TheTries!Tries
    BY <1>1, WithinNone DEF TheTries!Tries
  <2> QED
    BY <1>0, <1>6, <2>1
<1>2. ASSUME NEW n \in TheTries!Node, NEW k, TheTries!KindOf(n) \in {"call", "branch", "try"}, Single(n, k),
             low[n] = low[k], k \in S
      PROVE  n \in S
  <2> SUFFICES ASSUME Lifted(n), TheTries!walk[n]["pure"] # "unsafe" PROVE Agrees(n, cond)
    BY <1>0
  <2>1. (\A m : m \in TheTries!Within(n) <=> m = n \/ m \in TheTries!Within(k)) /\ k \in TheTries!Node /\ n \notin TheTries!Within(k)
    BY <1>2, WithinSingle
  <2>2. /\ Done(k, cond) \in Seq(TheTries!Node) /\ Left(k, cond) \in Seq(TheTries!Node) /\ Said(k, cond) \in Seq(TheTries!Node)
        /\ TheTries!hoist[k] \in Seq(TheTries!Node) /\ <<n>> \in Seq(TheTries!Node)
    BY <1>5, <2>1, PartsTyped
  <2>3. CASE TheTries!KindOf(n) = "branch"
    <3>1. TheTries!hoist[n] = <<>> /\ n \notin TheTries!Tries
      BY <1>2, <2>3, HoistSingle DEF TheTries!Tries
    <3>2. \A m : m \notin Elements(<<>>)
      BY InOne, Zenon
    <3>3. \A m \in TheTries!Within(n) : m \notin TheTries!Tries
      BY <3>1, <3>2 DEF Lifted
    <3> QED
      BY <1>6, <3>3
  <2>4. CASE TheTries!KindOf(n) = "call"
    <3>1. TheTries!hoist[n] = TheTries!hoist[k] /\ n \notin TheTries!Tries
      BY <1>2, <2>4, HoistSingle DEF TheTries!Tries
    <3>2. TheTries!walk[k]["pure"] # "unsafe"
      BY <1>2, <2>4, WalkSingle
    <3>3. Lifted(k)
      BY <2>1, <3>1 DEF Lifted
    <3>4. Agrees(k, cond)
      BY <1>0, <1>2, <2>1, <3>2, <3>3
    <3>5. Left(n, cond) = Then(Left(k, cond), <<n>>)
      BY <1>2, <2>4, <3>1, EventsSingle DEF Left
    <3>6. Said(n, cond) = Then(Said(k, cond), <<n>>)
      BY <1>2, <1>5, <2>4, EventsSingle DEF Said
    <3>7. Done(n, cond) = Done(k, cond)
      BY <3>1 DEF Done
    <3>8. Then(Then(Done(k, cond), Left(k, cond)), <<n>>)
            = Then(Done(k, cond), Then(Left(k, cond), <<n>>))
      BY <2>2, ThenTwice, ZenonT(40)
    <3> QED
      BY <3>4, <3>5, <3>6, <3>7, <3>8 DEF Agrees
  <2>5. CASE TheTries!KindOf(n) = "try"
    <3>1. n \in TheTries!Tries /\ TheTries!walk[k]["pure"] # "unsafe"
      BY <1>2, <2>5, WalkSingle DEF TheTries!Tries
    <3>2. TheTries!hoist[n] = Then(TheTries!hoist[k], <<n>>)
      BY <1>2, <2>5, <3>1, HoistSingle
    <3>3. Lifted(k)
      <4>1. ASSUME NEW t \in TheTries!Within(k), t \in TheTries!Tries PROVE t \in Elements(TheTries!hoist[k])
        <5>1. t \in Elements(TheTries!hoist[n]) /\ t # n
          BY <2>1, <4>1 DEF Lifted
        <5>2. t \in Elements(TheTries!hoist[k]) \/ t \in Elements(<<n>>)
          BY <2>2, <3>2, <5>1, InThen
        <5>3. t \in Elements(<<n>>) <=> t = n
          BY InOne
        <5> QED
          BY <5>1, <5>2, <5>3
      <4> QED
        BY <4>1 DEF Lifted
    <3>4. Then(Done(k, cond), Left(k, cond)) = Said(k, cond)
      BY <1>0, <1>2, <2>1, <3>1, <3>3 DEF Agrees
    <3>5. Left(n, cond) = <<>>
      BY <3>1, EventsDone DEF Left
    <3>6. Said(n, cond) = Then(Said(k, cond), <<n>>)
      BY <1>2, <1>5, <2>5, EventsSingle DEF Said
    <3>7. TheTries!Events(TheTries!Kids(n), TheTries!Tries, cond) = Left(k, cond)
      BY <1>2, JoinedOne DEF Single, TheTries!Events, Left
    <3>8. Done(n, cond) = Then(Done(k, cond), Then(Left(k, cond), <<n>>))
      <4>1. TheTries!EventsOfPreambles(Then(TheTries!hoist[k], <<n>>), TheTries!Tries, cond)
              = Then(TheTries!EventsOfPreambles(TheTries!hoist[k], TheTries!Tries, cond), TheTries!EventsOfPreambles(<<n>>, TheTries!Tries, cond))
        BY <2>2, OfPreambles, ZenonT(40)
      <4>2. TheTries!EventsOfPreambles(<<n>>, TheTries!Tries, cond) = OfPreamble(n, TheTries!Tries, cond)
        BY OfPreambles
      <4> QED
        BY <3>2, <3>7, <4>1, <4>2 DEF Done, OfPreamble
    <3>9. Done(n, cond) = Said(n, cond)
      <4>1. Then(Then(Done(k, cond), Left(k, cond)), <<n>>)
              = Then(Done(k, cond), Then(Left(k, cond), <<n>>))
        BY <2>2, ThenTwice, ZenonT(40)
      <4> QED
        BY <3>4, <3>6, <3>8, <4>1
    <3>10. Said(n, cond) \in Seq(TheTries!Node)
      BY PartsTyped
    <3> QED
      BY <1>4, <3>5, <3>9, <3>10 DEF Agrees
  <2> QED
    BY <1>2, <2>3, <2>4, <2>5
<1>3. ASSUME NEW n \in TheTries!Node, NEW a, NEW b, TheTries!KindOf(n) \in {"both", "point", "logic"},
             Pair(n, a, b, low), a \in S, b \in S
      PROVE  n \in S
  <2> SUFFICES ASSUME Lifted(n), TheTries!walk[n]["pure"] # "unsafe" PROVE Agrees(n, cond)
    BY <1>0
  <2>1. /\ \A m : m \in TheTries!Within(n) <=> m = n \/ m \in TheTries!Within(a) \/ m \in TheTries!Within(b)
        /\ a \in TheTries!Node /\ b \in TheTries!Node /\ n \notin TheTries!Within(a) /\ n \notin TheTries!Within(b)
        /\ \A m : m \in TheTries!Within(a) => m \notin TheTries!Within(b)
        /\ low[b] = a + 1
    BY <1>3, WithinPair
  <2>2. /\ Done(a, cond) \in Seq(TheTries!Node) /\ Left(a, cond) \in Seq(TheTries!Node) /\ Said(a, cond) \in Seq(TheTries!Node)
        /\ Left(b, cond) \in Seq(TheTries!Node) /\ Said(b, cond) \in Seq(TheTries!Node)
        /\ TheTries!hoist[a] \in Seq(TheTries!Node) /\ TheTries!hoist[b] \in Seq(TheTries!Node) /\ <<n>> \in Seq(TheTries!Node)
    BY <1>5, <2>1, PartsTyped
  <2>3. n \notin TheTries!Tries
    BY <1>3 DEF TheTries!Tries
  <2>4. Adjacent(a, b, low)
    BY <2>1 DEF Adjacent
  <2>5. CASE TheTries!KindOf(n) = "logic"
    <3>1. TheTries!hoist[n] = TheTries!hoist[a] /\ TheTries!walk[a]["pure"] # "unsafe"
      BY <1>3, <2>5, HoistPair, WalkPair
    <3>2. \A t \in Elements(TheTries!hoist[a]) : t \in TheTries!Within(a)
      BY <2>1, HoistWithin
    <3>3. Lifted(a) /\ \A m \in TheTries!Within(b) : m \notin TheTries!Tries
      BY <2>1, <3>1, <3>2 DEF Lifted
    <3>4. Then(Done(a, cond), Left(a, cond)) = Said(a, cond)
      BY <1>0, <1>3, <2>1, <3>1, <3>3 DEF Agrees
    <3>5. Left(b, cond) = Said(b, cond)
      BY <2>1, <3>3, NoTries DEF Plain, Left, Said
    <3>7. n \notin {} /\ n \in TheTries!Node
      OBVIOUS
    <3>8. Done(n, cond) = Done(a, cond)
      BY <3>1 DEF Done
    <3>9. Then(Then(Done(a, cond), Left(a, cond)), Left(b, cond))
            = Then(Done(a, cond), Then(Left(a, cond), Left(b, cond)))
      BY <1>4, <2>2
    <3>10. CASE n \in cond
      <4>1. Left(n, cond) = Then(Left(a, cond), Left(b, cond))
        BY <1>3, <2>3, <2>5, <3>10, EventsSkip DEF Left
      <4>2. Said(n, cond) = Then(Said(a, cond), Said(b, cond))
        BY <1>3, <2>5, <3>7, <3>10, EventsSkip DEF Said
      <4> QED
        BY <3>4, <3>5, <3>8, <3>9, <4>1, <4>2 DEF Agrees
    <3>11. CASE n \notin cond
      <4>1. Left(n, cond) = Left(a, cond)
        BY <1>3, <2>3, <2>5, <3>11, EventsSkip DEF Left
      <4>2. Said(n, cond) = Said(a, cond)
        BY <1>3, <2>5, <3>7, <3>11, EventsSkip DEF Said
      <4> QED
        BY <3>4, <3>8, <4>1, <4>2 DEF Agrees
    <3> QED
      BY <3>10, <3>11
  <2>6. CASE TheTries!KindOf(n) \in {"both", "point"}
    <3>1. TheTries!hoist[n] = Then(TheTries!hoist[a], TheTries!hoist[b])
      BY <1>3, <2>6, HoistPair
    <3>2. TheTries!walk[b][TheTries!walk[a]["pure"]] # "unsafe" /\ TheTries!walk[a]["pure"] # "unsafe"
      <4>1. TheTries!walk[b]["unsafe"] = "unsafe"
        BY <2>1, WalkTyped
      <4>2. TheTries!walk[b][TheTries!walk[a]["pure"]] # "unsafe"
        BY <1>3, <2>6, WalkPair
      <4> QED
        BY <4>1, <4>2
    <3>3. Lifted(a) /\ Lifted(b)
      <4>1. \A t \in TheTries!Tries : t \in TheTries!Within(a) \/ t \in TheTries!Within(b) => t \in Elements(Then(TheTries!hoist[a], TheTries!hoist[b]))
        BY <2>1, <3>1 DEF Lifted
      <4> QED
        BY <2>4, <4>1, EachCovered
    <3>4. Agrees(a, cond) /\ (TheTries!walk[b]["pure"] # "unsafe" => Agrees(b, cond))
      BY <1>0, <1>3, <2>1, <3>2, <3>3
    <3>5. Ordered(a, b)
      <4>1. ASSUME NEW e, NEW t, e \in Elements(All[a]), t \in Elements(All[b])
            PROVE  TheTries!Before(e, t)
        <5>1. Precedes(All[n], e, t)
          BY <1>3, <4>1, PairOrders
        <5> QED
          BY <5>1 DEF Contained
      <4> QED
        BY <4>1 DEF Ordered
    <3> DEFINE p == TheTries!EventsOfPreambles(Then(TheTries!hoist[a], TheTries!hoist[b]), TheTries!Tries, cond)
               d == Then(Left(a, cond), Left(b, cond))
               s == Then(Said(a, cond), Said(b, cond))
    <3>6. Then(p, d) = s
      BY <2>4, <3>2, <3>3, <3>4, <3>5, PairAgrees
    <3>7. Done(n, cond) = p
      BY <3>1 DEF Done
    <3>8. /\ TheTries!KindOf(n) = "both" => Left(n, cond) = d
          /\ TheTries!KindOf(n) = "point" => Left(n, cond) = Then(d, <<n>>)
      BY <1>3, <2>3, EventsPair DEF Left
    <3>9. /\ TheTries!KindOf(n) = "both" => Said(n, cond) = s
          /\ TheTries!KindOf(n) = "point" => Said(n, cond) = Then(s, <<n>>)
      BY <1>3, <1>5, EventsPair DEF Said
    <3>10. p \in Seq(TheTries!Node) /\ d \in Seq(TheTries!Node)
      BY <1>4, <2>2, OfPreambles
    <3>11. Then(p, Then(d, <<n>>)) = Then(s, <<n>>)
      BY <3>6, <3>10, Appended
    <3> HIDE DEF p, d, s
    <3> QED
      BY <2>6, <3>6, <3>7, <3>8, <3>9, <3>11 DEF Agrees
  <2> QED
    BY <1>3, <2>5, <2>6
<1>7. \A n \in TheTries!Node : n \in S
  BY <1>1, <1>2, <1>3, OverExpressions
<1> QED
  BY <1>0, <1>7

-----------------------------------------------------------------------------
(* Only what a preamble would reorder is not hoisted.                      *)

Excused == \E t \in TheTries!Tries : TheTries!OnCondition(t) \/ \E e \in TheTries!Node : TheTries!Overtaken(e, t)

\* The preambles are all there, and an effect that the walk saw is in no try.
Hoisted(n) ==
  /\ Lifted(n) /\ TheTries!walk[n]["pure"] \in {"pure", "impure"}
  /\ TheTries!walk[n]["pure"] = "impure" => \E e : Owned(e, n, TheTries!Tries)

LEMMA PairHoisted ==
  ASSUME NEW low, Forest(low), NEW a, NEW b, Adjacent(a, b, low), Ordered(a, b), ~Excused,
         Hoisted(a), Hoisted(b)
  PROVE  /\ TheTries!walk[b][TheTries!walk[a]["pure"]] \in {"pure", "impure"}
         /\ TheTries!walk[b][TheTries!walk[a]["pure"]] = "impure" => \E e : Owned(e, a, TheTries!Tries) \/ Owned(e, b, TheTries!Tries)
<1>1. a \in TheTries!Node /\ b \in TheTries!Node
  BY DEF Adjacent
<1>2. CASE TheTries!walk[a]["pure"] = "pure"
  BY <1>2 DEF Hoisted
<1>3. CASE TheTries!walk[a]["pure"] = "impure"
  <2>1. PICK e : Owned(e, a, TheTries!Tries)
    BY <1>3 DEF Hoisted
  <2>2. ASSUME NEW t \in TheTries!Tries, t \in TheTries!Within(b) PROVE FALSE
    <3>1. TheTries!Overtaken(e, t)
      BY <2>1, <2>2, Jumped
    <3>2. e \in TheTries!Node
      BY <1>1, <2>1, Bounds DEF Owned
    <3> QED
      BY <3>1, <3>2 DEF Excused
  <2>3. \A m \in TheTries!Within(b) : m \notin TheTries!Tries
    BY <2>2
  <2>4. TheTries!walk[b]["impure"] = "impure"
    BY <1>1, <2>3, NoTries DEF Plain
  <2> QED
    BY <1>3, <2>1, <2>4
<1> QED
  BY <1>2, <1>3 DEF Hoisted

LEMMA AllHoisted ==
  ASSUME NEW low, Forest(low), Contained, ~Excused
  PROVE  \A n \in TheTries!Node : Hoisted(n)
<1> DEFINE S == {n \in TheTries!Node : Hoisted(n)}
<1>0. \A n \in TheTries!Node : n \in S <=> Hoisted(n)
  OBVIOUS
<1> HIDE DEF S
<1>4. TheTries!Tries \in SUBSET TheTries!Node
  BY DEF TheTries!Tries
<1>1. ASSUME NEW n \in TheTries!Node, TheTries!Kids(n) = <<>>, low[n] = n, TheTries!KindOf(n) \in {"leaf", "call"}
      PROVE  n \in S
  <2>1. n \notin TheTries!Tries
    BY <1>1 DEF TheTries!Tries
  <2>2. Lifted(n)
    BY <1>1, <2>1, WithinNone DEF Lifted
  <2>3. TheTries!KindOf(n) = "call" => Owned(n, n, TheTries!Tries)
    BY <1>4, <2>1, OwnedHere DEF Eventful
  <2>4. /\ TheTries!KindOf(n) = "leaf" => TheTries!walk[n]["pure"] = "pure"
        /\ TheTries!KindOf(n) = "call" => TheTries!walk[n]["pure"] = "impure"
    BY <1>1, WalkNone
  <2> QED
    BY <1>0, <1>1, <2>2, <2>3, <2>4 DEF Hoisted
<1>2. ASSUME NEW n \in TheTries!Node, NEW k, TheTries!KindOf(n) \in {"call", "branch", "try"}, Single(n, k),
             low[n] = low[k], k \in S
      PROVE  n \in S
  <2>1. (\A m : m \in TheTries!Within(n) <=> m = n \/ m \in TheTries!Within(k)) /\ k \in TheTries!Node /\ TheTries!Kids(n) = <<k>>
    BY <1>2, WithinSingle DEF Single
  <2>2. Hoisted(k) /\ TheTries!hoist[k] \in Seq(TheTries!Node)
    BY <1>0, <1>2, <2>1, PartsTyped
  <2>3. n \notin TheTries!Tries => Owned(n, n, TheTries!Tries)
    BY <1>2, <1>4, OwnedHere DEF Eventful
  <2>4. n \in TheTries!Tries <=> TheTries!KindOf(n) = "try"
    BY DEF TheTries!Tries
  <2>5. CASE TheTries!KindOf(n) = "branch"
    <3>1. TheTries!walk[n]["pure"] = "impure"
      BY <1>2, <2>5, WalkSingle
    <3>2. ASSUME NEW t \in TheTries!Tries, t \in TheTries!Within(k) PROVE FALSE
      <4>1. TheTries!OnCondition(t)
        BY <2>1, <2>5, <3>2 DEF TheTries!OnCondition
      <4> QED
        BY <4>1 DEF Excused
    <3>3. Lifted(n)
      BY <2>1, <2>4, <2>5, <3>2 DEF Lifted
    <3> QED
      BY <1>0, <2>3, <2>4, <2>5, <3>1, <3>3 DEF Hoisted
  <2>6. CASE TheTries!KindOf(n) = "call"
    <3>1. TheTries!walk[n]["pure"] = "impure"
      BY <1>2, <2>2, <2>6, WalkSingle DEF Hoisted
    <3>2. TheTries!hoist[n] = TheTries!hoist[k]
      BY <1>2, <2>6, HoistSingle
    <3>3. Lifted(n)
      BY <2>1, <2>2, <2>4, <2>6, <3>2 DEF Lifted, Hoisted
    <3> QED
      BY <1>0, <2>3, <2>4, <2>6, <3>1, <3>3 DEF Hoisted
  <2>7. CASE TheTries!KindOf(n) = "try"
    <3>1. TheTries!walk[k]["pure"] # "unsafe" /\ TheTries!walk[n]["pure"] = "pure"
      BY <1>2, <2>2, <2>7, WalkSingle DEF Hoisted
    <3>2. TheTries!hoist[n] = Then(TheTries!hoist[k], <<n>>)
      BY <1>2, <2>7, <3>1, HoistSingle
    <3>3. \A m : m \in Elements(TheTries!hoist[n]) <=> m \in Elements(TheTries!hoist[k]) \/ m = n
      <4>1. <<n>> \in Seq(TheTries!Node) /\ \A m : m \in Elements(<<n>>) <=> m = n
        BY InOne, Zenon
      <4>2. \A m : m \in Elements(Then(TheTries!hoist[k], <<n>>)) <=> m \in Elements(TheTries!hoist[k]) \/ m \in Elements(<<n>>)
        BY <2>2, <4>1, InThen
      <4> QED
        BY <3>2, <4>1, <4>2
    <3>4. Lifted(n)
      BY <2>1, <2>2, <3>3 DEF Lifted, Hoisted
    <3> QED
      BY <1>0, <3>1, <3>4 DEF Hoisted
  <2> QED
    BY <1>2, <2>5, <2>6, <2>7
<1>3. ASSUME NEW n \in TheTries!Node, NEW a, NEW b, TheTries!KindOf(n) \in {"both", "point", "logic"},
             Pair(n, a, b, low), a \in S, b \in S
      PROVE  n \in S
  <2>1. /\ \A m : m \in TheTries!Within(n) <=> m = n \/ m \in TheTries!Within(a) \/ m \in TheTries!Within(b)
        /\ a \in TheTries!Node /\ b \in TheTries!Node /\ low[b] = a + 1 /\ TheTries!Kids(n) = <<a, b>>
    BY <1>3, WithinPair DEF Pair
  <2>2. n \notin TheTries!Tries
    BY <1>3 DEF TheTries!Tries
  <2>3. Hoisted(a) /\ Hoisted(b)
    BY <1>0, <1>3, <2>1
  <2>4. /\ TheTries!KindOf(n) = "point" => Owned(n, n, TheTries!Tries)
        /\ \A e : Owned(e, a, TheTries!Tries) \/ Owned(e, b, TheTries!Tries) => Owned(e, n, TheTries!Tries)
    <3>1. TheTries!KindOf(n) = "point" => Eventful(n)
      BY DEF Eventful
    <3> QED
      BY <1>3, <1>4, <2>2, <3>1, OwnedHere
  <2>5. CASE TheTries!KindOf(n) = "logic"
    <3>1. TheTries!walk[n]["pure"] = TheTries!walk[a]["pure"] /\ TheTries!hoist[n] = TheTries!hoist[a]
      BY <1>3, <2>5, WalkPair, HoistPair
    <3>2. ASSUME NEW t \in TheTries!Tries, t \in TheTries!Within(b) PROVE FALSE
      <4>1. t \in TheTries!Within(TheTries!Kids(n)[2])
        BY <2>1, <3>2
      <4>2. TheTries!OnCondition(t)
        BY <2>5, <4>1 DEF TheTries!OnCondition
      <4> QED
        BY <4>2 DEF Excused
    <3>3. Lifted(n)
      BY <2>1, <2>2, <2>3, <3>1, <3>2 DEF Lifted, Hoisted
    <3> QED
      BY <1>0, <2>3, <2>4, <3>1, <3>3 DEF Hoisted
  <2>6. CASE TheTries!KindOf(n) \in {"both", "point"}
    <3>1. Adjacent(a, b, low)
      BY <2>1 DEF Adjacent
    <3>2. Ordered(a, b)
      <4>1. ASSUME NEW e, NEW t, e \in Elements(All[a]), t \in Elements(All[b])
            PROVE  TheTries!Before(e, t)
        <5>1. Precedes(All[n], e, t)
          BY <1>3, <4>1, PairOrders
        <5> QED
          BY <5>1 DEF Contained
      <4> QED
        BY <4>1 DEF Ordered
    <3>3. /\ TheTries!walk[b][TheTries!walk[a]["pure"]] \in {"pure", "impure"}
          /\ TheTries!walk[b][TheTries!walk[a]["pure"]] = "impure" => \E e : Owned(e, a, TheTries!Tries) \/ Owned(e, b, TheTries!Tries)
      BY <2>3, <3>1, <3>2, PairHoisted
    <3>4. /\ TheTries!KindOf(n) = "both" => TheTries!walk[n]["pure"] = TheTries!walk[b][TheTries!walk[a]["pure"]]
          /\ TheTries!KindOf(n) = "point" => TheTries!walk[n]["pure"] = "impure"
      BY <1>3, <3>3, WalkPair
    <3>5. \A t \in TheTries!Tries : t \in TheTries!Within(a) \/ t \in TheTries!Within(b) => t \in Elements(Then(TheTries!hoist[a], TheTries!hoist[b]))
      BY <2>3, <3>1, BothCovered DEF Hoisted
    <3>6. TheTries!hoist[n] = Then(TheTries!hoist[a], TheTries!hoist[b])
      BY <1>3, <2>6, HoistPair
    <3>7. Lifted(n)
      BY <2>1, <2>2, <3>5, <3>6 DEF Lifted
    <3> QED
      BY <1>0, <2>4, <2>6, <3>3, <3>4, <3>7 DEF Hoisted
  <2> QED
    BY <1>3, <2>5, <2>6
<1>5. \A n \in TheTries!Node : n \in S
  BY <1>1, <1>2, <1>3, OverExpressions
<1> QED
  BY <1>0, <1>5

-----------------------------------------------------------------------------
(* The expressions of a statement.                                         *)

\* One expression, or the two sides of an assignment.
One(low) == Total \in TheTries!Node /\ roots = <<Total>> /\ low[Total] = 1
Two(a, low) == /\ Total \in TheTries!Node /\ a \in TheTries!Node /\ roots = <<a, Total>>
               /\ low[a] = 1 /\ low[Total] = a + 1
Shape(low) ==
  \/ Total = 0 /\ roots = <<>>
  \/ One(low)
  \/ \E a : Two(a, low)

LEMMA WholeOne ==
  ASSUME NEW low, Forest(low), One(low)
  PROVE  /\ Contained /\ \A m \in TheTries!Node : m \in TheTries!Within(Total)
         /\ TheTries!Text = All[Total]
<1>1. TheTries!Text = All[Total]
  BY JoinedOne DEF One, TheTries!Text, TheTries!Events, All
<1>2. \A m \in TheTries!Node : m \in TheTries!Within(Total)
  BY Bounds DEF One
<1>3. ASSUME NEW n \in TheTries!Node, NEW e, NEW t, Precedes(All[n], e, t) PROVE TheTries!Before(e, t)
  <2>1. Precedes(All[Total], e, t)
    BY <1>2, <1>3, PartOrders DEF One
  <2> QED
    BY <1>1, <2>1 DEF Precedes, TheTries!Before
<1> QED
  BY <1>1, <1>2, <1>3 DEF Contained

LEMMA WholeTwo ==
  ASSUME NEW low, Forest(low), NEW a, Two(a, low)
  PROVE  /\ Contained /\ \A m \in TheTries!Node : m \in TheTries!Within(a) \/ m \in TheTries!Within(Total)
         /\ TheTries!Text = Then(All[a], All[Total])
         /\ Adjacent(a, Total, low) /\ Ordered(a, Total)
<1>1. TheTries!Text = Then(All[a], All[Total])
  BY JoinedTwo DEF Two, TheTries!Text, TheTries!Events, All, Then
<1>2. \A m \in TheTries!Node : m \in TheTries!Within(a) \/ m \in TheTries!Within(Total)
  <2>1. a \in TheTries!Node /\ Total \in TheTries!Node /\ low[a] = 1 /\ low[Total] = a + 1
    BY DEF Two
  <2> QED
    BY <2>1, Bounds
<1>3. All[a] \in Seq(TheTries!Node) /\ All[Total] \in Seq(TheTries!Node)
  BY TextTyped DEF Two
<1>4. ASSUME NEW e, NEW t, \/ Precedes(All[a], e, t) \/ Precedes(All[Total], e, t)
                           \/ e \in Elements(All[a]) /\ t \in Elements(All[Total])
      PROVE  TheTries!Before(e, t)
  <2>1. Precedes(Then(All[a], All[Total]), e, t)
    BY <1>3, <1>4, PrecedesThen
  <2> QED
    BY <1>1, <2>1 DEF Precedes, TheTries!Before
<1>5. ASSUME NEW n \in TheTries!Node, NEW e, NEW t, Precedes(All[n], e, t) PROVE TheTries!Before(e, t)
  <2>1. Precedes(All[a], e, t) \/ Precedes(All[Total], e, t)
    BY <1>2, <1>5, PartOrders DEF Two
  <2> QED
    BY <1>4, <2>1
<1>6. Adjacent(a, Total, low)
  BY DEF Two, Adjacent
<1>7. Ordered(a, Total)
  BY <1>4 DEF Ordered
<1> QED
  BY <1>1, <1>2, <1>5, <1>6, <1>7 DEF Contained

\* The preambles of a statement that is hoisted.
Preambled == TheTries!Joined(TheTries!hoist, roots)

LEMMA RootsHoisted ==
  ASSUME NEW low, Forest(low), One(low) \/ (\E a : Two(a, low)), ~Excused
  PROVE  TheTries!Hoistable(roots) /\ \A t \in TheTries!Tries : t \in Elements(Preambled)
<1>1. CASE One(low)
  <2>1. Hoisted(Total) /\ \A m \in TheTries!Node : m \in TheTries!Within(Total)
    BY <1>1, AllHoisted, WholeOne DEF One
  <2>2. TheTries!Hoistable(roots) <=> TheTries!walk[Total]["pure"] # "unsafe"
    BY <1>1, ThroughOne DEF One, TheTries!Hoistable
  <2>3. Preambled = TheTries!hoist[Total]
    BY <1>1, JoinedOne DEF One, Preambled
  <2> QED
    BY <2>1, <2>2, <2>3 DEF Hoisted, Lifted, TheTries!Tries
<1>2. ASSUME NEW a, Two(a, low)
      PROVE  TheTries!Hoistable(roots) /\ \A t \in TheTries!Tries : t \in Elements(Preambled)
  <2>1. /\ Hoisted(a) /\ Hoisted(Total) /\ \A m \in TheTries!Node : m \in TheTries!Within(a) \/ m \in TheTries!Within(Total)
        /\ Adjacent(a, Total, low) /\ Ordered(a, Total)
    BY <1>2, AllHoisted, WholeTwo DEF Two
  <2>2. TheTries!Hoistable(roots) <=> TheTries!walk[Total][TheTries!walk[a]["pure"]] # "unsafe"
    BY <1>2, ThroughTwo DEF Two, TheTries!Hoistable
  <2>3. Preambled = Then(TheTries!hoist[a], TheTries!hoist[Total])
    BY <1>2, JoinedTwo DEF Two, Preambled, Then
  <2>4. TheTries!walk[Total][TheTries!walk[a]["pure"]] \in {"pure", "impure"}
    BY <2>1, PairHoisted
  <2>5. \A t \in TheTries!Tries : t \in TheTries!Within(a) \/ t \in TheTries!Within(Total) =>
          t \in Elements(Then(TheTries!hoist[a], TheTries!hoist[Total]))
    BY <2>1, BothCovered DEF Hoisted
  <2> QED
    BY <2>1, <2>2, <2>3, <2>4, <2>5 DEF TheTries!Tries
<1> QED
  BY <1>1, <1>2

\* All the preambles, then what is left of the statement.
LEMMA RootsAgree ==
  ASSUME NEW low, Forest(low), One(low) \/ (\E a : Two(a, low)), ~TheTries!Unseen, NEW cond,
         TheTries!Hoistable(roots), \A t \in TheTries!Tries : t \in Elements(Preambled)
  PROVE  Then(TheTries!EventsOfPreambles(Preambled, TheTries!Tries, cond), TheTries!Events(roots, TheTries!Tries, cond))
           = TheTries!Events(roots, {}, cond)
<1>1. CASE One(low)
  <2>1. Total \in TheTries!Node /\ Contained
    BY <1>1, WholeOne DEF One
  <2>2. TheTries!walk[Total]["pure"] # "unsafe"
    BY <1>1, ThroughOne DEF One, TheTries!Hoistable
  <2>3. Preambled = TheTries!hoist[Total] /\ \A d : TheTries!Events(roots, d, cond) = TheTries!EventsOf(d, cond)[Total]
    BY <1>1, JoinedOne DEF One, Preambled, TheTries!Events
  <2>4. Lifted(Total)
    BY <2>3 DEF Lifted
  <2>5. Agrees(Total, cond)
    BY <2>1, <2>2, <2>4, AllAgree
  <2> QED
    BY <2>3, <2>5 DEF Agrees, Done, Left, Said
<1>2. ASSUME NEW a, Two(a, low)
      PROVE  Then(TheTries!EventsOfPreambles(Preambled, TheTries!Tries, cond), TheTries!Events(roots, TheTries!Tries, cond))
               = TheTries!Events(roots, {}, cond)
  <2>1. /\ a \in TheTries!Node /\ Total \in TheTries!Node /\ Contained
        /\ Adjacent(a, Total, low) /\ Ordered(a, Total)
    BY <1>2, WholeTwo DEF Two
  <2>2. TheTries!walk[Total][TheTries!walk[a]["pure"]] # "unsafe"
    BY <1>2, ThroughTwo DEF Two, TheTries!Hoistable
  <2>3. TheTries!walk[a]["pure"] # "unsafe"
    BY <2>1, <2>2, WalkTyped
  <2>4. /\ Preambled = Then(TheTries!hoist[a], TheTries!hoist[Total])
        /\ \A d : TheTries!Events(roots, d, cond) = Then(TheTries!EventsOf(d, cond)[a], TheTries!EventsOf(d, cond)[Total])
    BY <1>2, JoinedTwo DEF Two, Preambled, TheTries!Events, Then
  <2>5. Lifted(a) /\ Lifted(Total)
    BY <2>1, <2>4, EachCovered
  <2>6. Agrees(a, cond) /\ (TheTries!walk[Total]["pure"] # "unsafe" => Agrees(Total, cond))
    BY <2>1, <2>3, <2>5, AllAgree
  <2>7. Then(TheTries!EventsOfPreambles(Then(TheTries!hoist[a], TheTries!hoist[Total]), TheTries!Tries, cond),
             Then(Left(a, cond), Left(Total, cond)))
          = Then(Said(a, cond), Said(Total, cond))
    BY <2>1, <2>2, <2>5, <2>6, PairAgrees
  <2>8. /\ TheTries!Events(roots, TheTries!Tries, cond) = Then(Left(a, cond), Left(Total, cond))
        /\ TheTries!Events(roots, {}, cond) = Then(Said(a, cond), Said(Total, cond))
    BY <2>4 DEF Left, Said
  <2> QED
    BY <2>4, <2>7, <2>8
<1> QED
  BY <1>1, <1>2

LEMMA RootsTyped ==
  ASSUME NEW low, Forest(low), Shape(low), NEW done, NEW cond
  PROVE  TheTries!Events(roots, done, cond) \in Seq(TheTries!Node)
<1>1. CASE Total = 0 /\ roots = <<>>
  BY <1>1, JoinedNone, InOne DEF TheTries!Events
<1>2. CASE One(low)
  BY <1>2, JoinedOne, EventsDone DEF One, TheTries!Events
<1>3. ASSUME NEW a, Two(a, low) PROVE TheTries!Events(roots, done, cond) \in Seq(TheTries!Node)
  <2>1. /\ TheTries!Events(roots, done, cond) = Then(TheTries!EventsOf(done, cond)[a], TheTries!EventsOf(done, cond)[Total])
        /\ a \in TheTries!Node /\ Total \in TheTries!Node
    BY <1>3, JoinedTwo DEF Two, TheTries!Events, Then
  <2>2. TheTries!EventsOf(done, cond)[a] \in Seq(TheTries!Node) /\ TheTries!EventsOf(done, cond)[Total] \in Seq(TheTries!Node)
    BY <2>1, EventsDone
  <2> QED
    BY <2>1, <2>2, InThen
<1> QED
  BY <1>1, <1>2, <1>3 DEF Shape

-----------------------------------------------------------------------------
(* Lowering a statement.                                                   *)

\* What emitLet and emitAssign hand to the preambles.
Planned(h) ==
  \/ Len(roots) = 1 /\ TheTries!KindOf(roots[1]) = "try" /\ h = TheTries!Preambles(roots[1], TheTries!HoistsIfSafe(TheTries!Kids(roots[1])))
  \/ Len(roots) = 1 /\ TheTries!KindOf(roots[1]) # "try" /\ h = TheTries!HoistsIfSafe(roots)
  \/ Len(roots) = 2 /\ h = TheTries!HoistsIfSafe(roots)

\* A statement that is one try has its own preamble in any case; its operand is
\* a frame by itself.
LEMMA PlannedIs ==
  ASSUME NEW low, Forest(low), Shape(low), NEW h, Planned(h)
  PROVE  /\ One(low) \/ (\E a : Two(a, low))
         /\ h = <<>> \/ h = Preambled
         /\ TheTries!Hoistable(roots) => h = Preambled
         /\ TheTries!Tries # {} /\ (\A t \in TheTries!Tries : t \in Elements(h)) => TheTries!Hoistable(roots) /\ h = Preambled
         /\ h \in Seq(TheTries!Node) /\ \A t \in Elements(h) : t \in TheTries!Tries
<1>1. One(low) \/ (\E a : Two(a, low))
  <2>1. roots # <<>>
    BY DEF Planned
  <2> QED
    BY <2>1 DEF Shape
<1>2. ASSUME NEW m \in TheTries!Node PROVE TheTries!hoist[m] \in Seq(TheTries!Node) /\ \A t \in Elements(TheTries!hoist[m]) : t \in TheTries!Tries
  BY HoistWithin
<1>3. \A t : t \notin Elements(<<>>)
  BY InOne, Zenon
<1>4. <<>> \in Seq(TheTries!Node)
  OBVIOUS
<1>5. Preambled \in Seq(TheTries!Node) /\ \A t \in Elements(Preambled) : t \in TheTries!Tries
  <2>1. CASE One(low)
    BY <1>2, <2>1, JoinedOne DEF One, Preambled
  <2>2. ASSUME NEW a, Two(a, low)
        PROVE  Preambled \in Seq(TheTries!Node) /\ \A t \in Elements(Preambled) : t \in TheTries!Tries
    <3>1. Preambled = Then(TheTries!hoist[a], TheTries!hoist[Total]) /\ a \in TheTries!Node /\ Total \in TheTries!Node
      BY <2>2, JoinedTwo DEF Two, Preambled, Then
    <3>2. TheTries!hoist[a] \in Seq(TheTries!Node) /\ TheTries!hoist[Total] \in Seq(TheTries!Node)
      BY <1>2, <3>1
    <3> QED
      BY <1>2, <3>1, <3>2, InThen
  <2> QED
    BY <1>1, <2>1, <2>2
<1>6. CASE h = TheTries!HoistsIfSafe(roots)
  <2>1. h = IF TheTries!Hoistable(roots) THEN Preambled ELSE <<>>
    BY <1>6 DEF TheTries!HoistsIfSafe, Preambled
  <2>2. TheTries!Tries # {} /\ (\A t \in TheTries!Tries : t \in Elements(h)) => h # <<>>
    BY <1>3
  <2> QED
    BY <1>1, <1>3, <1>4, <1>5, <2>1, <2>2
<1>7. CASE /\ Len(roots) = 1 /\ TheTries!KindOf(roots[1]) = "try"
           /\ h = TheTries!Preambles(roots[1], TheTries!HoistsIfSafe(TheTries!Kids(roots[1])))
  <2>1. One(low) /\ roots[1] = Total /\ Total \in TheTries!Node
    <3>1. ASSUME NEW a, Two(a, low) PROVE FALSE
      <4>1. Len(<<a, Total>>) = 2
        OBVIOUS
      <4> QED
        BY <1>7, <3>1, <4>1 DEF Two
    <3>2. One(low)
      BY <1>1, <3>1
    <3> QED
      BY <3>2 DEF One
  <2>2. PICK k : Single(Total, k) /\ low[Total] = low[k]
    BY <1>7, <2>1, Forms
  <2>3. TheTries!KindOf(Total) = "try" /\ TheTries!Kids(Total) = <<k>> /\ k \in TheTries!Node
    BY <1>7, <2>1, <2>2 DEF Single
  <2>4. h = TheTries!hoist[Total]
    <3>1. TheTries!Descended(Total) = <<k>>
      BY <2>1, <2>3, Parts
    <3>2. TheTries!hoist[Total] = HoistStep(TheTries!hoist, Total)
      BY <2>1, HoistUnfolds
    <3> QED
      BY <1>7, <2>1, <2>3, <3>1, <3>2 DEF HoistStep, TheTries!HoistsIfSafe
  <2>5. Preambled = TheTries!hoist[Total] /\ (TheTries!Hoistable(roots) <=> TheTries!walk[Total]["pure"] # "unsafe")
    BY <2>1, JoinedOne, ThroughOne DEF One, Preambled, TheTries!Hoistable
  <2>6. ASSUME \A t \in TheTries!Tries : t \in Elements(h) PROVE TheTries!walk[Total]["pure"] # "unsafe"
    <3>1. SUFFICES ASSUME TheTries!walk[k]["pure"] = "unsafe" PROVE FALSE
      BY <2>1, <2>2, <2>3, WalkSingle
    <3>2. TheTries!hoist[Total] = <<Total>>
      BY <2>1, <2>2, <2>3, <3>1, HoistSingle
    <3>3. \A m : m \in Elements(<<Total>>) <=> m = Total
      BY InOne
    <3>4. Total \notin TheTries!Within(k)
      BY <2>1, <2>2, WithinSingle
    <3>5. \A m \in TheTries!Within(k) : m \notin TheTries!Tries
      BY <2>4, <2>6, <3>2, <3>3, <3>4
    <3>6. TheTries!walk[k]["pure"] \in {"pure", "impure"}
      BY <2>3, <3>5, NoTries DEF Plain
    <3> QED
      BY <3>1, <3>6
  <2> QED
    BY <1>1, <1>5, <2>4, <2>5, <2>6
<1> QED
  BY <1>6, <1>7 DEF Planned

\* The events of the Go code for the preambles h.
Runs(h, cond) == TheTries!EventsOfPreambles(h, TheTries!Range(h), cond) \o TheTries!Events(roots, TheTries!Range(h), cond)

LEMMA LoweredRight ==
  ASSUME NEW low, Forest(low), Shape(low), NEW h, Planned(h), \A t \in TheTries!Tries : t \in Elements(h),
         ~TheTries!Unseen, NEW cond
  PROVE  Runs(h, cond) = TheTries!Events(roots, {}, cond)
<1>1. h \in Seq(TheTries!Node) /\ (\A t \in Elements(h) : t \in TheTries!Tries)
  BY PlannedIs
<1>2. TheTries!Range(h) = TheTries!Tries
  <2>1. TheTries!Range(h) = Elements(h)
    BY DEF TheTries!Range, Elements
  <2> QED
    BY <1>1, <2>1
<1>3. Runs(h, cond) = Then(TheTries!EventsOfPreambles(h, TheTries!Tries, cond), TheTries!Events(roots, TheTries!Tries, cond))
  BY <1>2 DEF Runs, Then
<1>4. CASE TheTries!Tries = {}
  <2>1. h = <<>>
    BY <1>1, <1>4, Lists
  <2>2. TheTries!EventsOfPreambles(h, TheTries!Tries, cond) = <<>>
    BY <2>1, OfPreambles
  <2>3. TheTries!Events(roots, {}, cond) \in Seq(TheTries!Node)
    BY RootsTyped
  <2> QED
    BY <1>3, <1>4, <2>2, <2>3, Lists
<1>5. CASE TheTries!Tries # {}
  <2>1. TheTries!Hoistable(roots) /\ h = Preambled /\ (One(low) \/ (\E a : Two(a, low)))
    BY <1>5, PlannedIs
  <2> QED
    BY <1>3, <2>1, RootsAgree
<1> QED
  BY <1>4, <1>5

LEMMA RefusedRight ==
  ASSUME NEW low, Forest(low), Shape(low), NEW h, Planned(h), ~(\A t \in TheTries!Tries : t \in Elements(h))
  PROVE  Excused
<1>1. SUFFICES ASSUME ~Excused PROVE FALSE
  OBVIOUS
<1>2. One(low) \/ (\E a : Two(a, low))
  BY PlannedIs
<1>3. TheTries!Hoistable(roots) /\ \A t \in TheTries!Tries : t \in Elements(Preambled)
  BY <1>1, <1>2, RootsHoisted
<1>4. h = Preambled
  BY <1>3, PlannedIs
<1> QED
  BY <1>3, <1>4

-----------------------------------------------------------------------------
(* The program, step by step.                                              *)

NodeLists == Seq([kind : DOMAIN TheTries!Arity, kids : Seq(Nat)])

\* The statement is well formed.
Formed == nodes \in NodeLists /\ \E low : Forest(low) /\ Shape(low)

LEMMA Fields ==
  ASSUME NEW n, NEW k, NEW ks, nodes'[n] = [kind |-> k, kids |-> ks]
  PROVE  TheTries!Kids(n)' = ks /\ TheTries!KindOf(n)' = k
  BY DEF TheTries!Kids, TheTries!KindOf

\* One more expression, over the last ones.
Puts(k, ks) == nodes' = Append(nodes, [kind |-> k, kids |-> ks])
Fit(k, ks, from, low) ==
  \/ ks = <<>> /\ from = Total + 1 /\ k \in {"leaf", "call"}
  \/ /\ Total \in TheTries!Node /\ ks = <<Total>> /\ from = low[Total]
     /\ k \in {"call", "branch", "try"}
  \/ /\ Total \in TheTries!Node
     /\ \E a \in TheTries!Node : a + 1 = low[Total] /\ ks = <<a, Total>> /\ from = low[a]
     /\ k \in {"both", "point", "logic"}

LEMMA Grown ==
  ASSUME NEW low, Forest(low), nodes \in NodeLists, NEW k, NEW ks, NEW from \in Nat,
         k \in DOMAIN TheTries!Arity, ks \in Seq(Nat), Puts(k, ks), Fit(k, ks, from, low)
  PROVE  /\ nodes' \in NodeLists
         /\ \E up : /\ Forest(up)' /\ up[Total + 1] = from
                    /\ \A n \in TheTries!Node : up[n] = low[n]
         /\ Total' = Total + 1 /\ TheTries!Node' = 1 .. Total + 1
<1>1. /\ Total \in Nat /\ TheTries!Node = 1 .. Total /\ low \in [TheTries!Node -> Nat]
      /\ \A n \in TheTries!Node : n \in Nat /\ low[n] \in Nat /\ 1 =< low[n] /\ low[n] =< n
      /\ \A x, y \in TheTries!Node : x < y => x < low[y] \/ low[y] =< low[x]
  BY DEF Forest
<1>2. [kind |-> k, kids |-> ks] \in [kind : DOMAIN TheTries!Arity, kids : Seq(Nat)]
  OBVIOUS
<1>3. nodes' \in NodeLists
  BY <1>2 DEF NodeLists, Puts
<1>4. Total' = Total + 1 /\ TheTries!Node' = 1 .. Total + 1
  BY DEF Total, TheTries!Node, NodeLists, Puts
<1>5. /\ \A n \in TheTries!Node : nodes'[n] = nodes[n]
      /\ nodes'[Total + 1] = [kind |-> k, kids |-> ks]
  BY <1>1 DEF Total, TheTries!Node, NodeLists, Puts
<1>6. PICK up : up = [n \in 1 .. Total + 1 |-> IF n = Total + 1 THEN from ELSE low[n]]
  OBVIOUS
<1>7. /\ up[Total + 1] = from /\ \A n \in TheTries!Node : up[n] = low[n]
  BY <1>1, <1>6
<1>8. up \in [TheTries!Node' -> Nat]
  BY <1>1, <1>4, <1>6
<1>9. 1 =< from /\ from =< Total + 1
  BY <1>1 DEF Fit
<1>10. \A n \in TheTries!Node' : 1 =< up[n] /\ up[n] =< n
  BY <1>1, <1>4, <1>7, <1>9
<1>11. ASSUME NEW x \in TheTries!Node', NEW y \in TheTries!Node', x < y
       PROVE  x < up[y] \/ up[y] =< up[x]
  <2>1. CASE y # Total + 1
    BY <1>1, <1>4, <1>7, <1>11, <2>1
  <2>2. CASE y = Total + 1
    <3>1. x \in TheTries!Node /\ up[y] = from /\ up[x] = low[x]
      BY <1>1, <1>4, <1>7, <1>11, <2>2
    <3>2. x = Total \/ x < Total
      BY <1>1, <3>1
    <3>3. ASSUME ks = <<>> /\ from = Total + 1 PROVE x < from \/ from =< low[x]
      BY <1>1, <3>1, <3>2, <3>3
    <3>4. ASSUME Total \in TheTries!Node /\ from = low[Total] PROVE x < from \/ from =< low[x]
      BY <1>1, <3>1, <3>2, <3>4
    <3>5. ASSUME NEW a \in TheTries!Node, Total \in TheTries!Node, a + 1 = low[Total], from = low[a]
          PROVE  x < from \/ from =< low[x]
      <4>1. x = Total => from =< low[x]
        BY <1>1, <3>1, <3>5
      <4>2. x < Total => x =< a \/ low[Total] =< low[x]
        BY <1>1, <3>1, <3>5
      <4>3. x =< a => x = a \/ x < a
        BY <1>1, <3>1
      <4>4. x < a => x < from \/ from =< low[x]
        BY <1>1, <3>1, <3>5
      <4>5. low[Total] =< low[x] => from =< low[x]
        BY <1>1, <3>1, <3>5
      <4>6. x = a => from =< low[x]
        BY <1>1, <3>1, <3>5
      <4> QED
        BY <3>2, <4>1, <4>2, <4>3, <4>4, <4>5, <4>6
    <3>6. x < from \/ from =< low[x]
      BY <3>3, <3>4, <3>5, Zenon DEF Fit
    <3> QED
      BY <3>1, <3>6
  <2> QED
    BY <2>1, <2>2
<1>12. ASSUME NEW n \in TheTries!Node' PROVE ShapeOf(n, up)'
  <2>1. CASE n \in TheTries!Node
    <3>1. nodes'[n] = nodes[n] /\ up[n] = low[n] /\ ShapeOf(n, low)
      BY <1>5, <1>7, <2>1 DEF Forest
    <3>2. \A m \in TheTries!Node : m \in TheTries!Node' /\ up[m] = low[m]
      BY <1>1, <1>4, <1>7
    <3> QED
      BY <3>1, <3>2 DEF ShapeOf, TheTries!Kids, TheTries!KindOf
  <2>2. CASE n = Total + 1
    <3>0. nodes'[n] = [kind |-> k, kids |-> ks] /\ up[n] = from
      BY <1>5, <1>7, <2>2, Zenon
    <3>1. TheTries!Kids(n)' = ks /\ TheTries!KindOf(n)' = k /\ up[n] = from
      BY <3>0, Fields, Zenon
    <3>2. n - 1 = Total /\ \A m \in TheTries!Node : m \in TheTries!Node' /\ up[m] = low[m]
      BY <1>1, <1>4, <1>7, <2>2
    <3> QED
      BY <2>2, <3>1, <3>2 DEF ShapeOf, Fit
  <2> QED
    BY <1>1, <1>4, <2>1, <2>2
<1>13. Forest(up)'
  <2>1. Total' \in Nat /\ TheTries!Node' = 1 .. Total'
    BY <1>1, <1>4
  <2>2. /\ \A n \in TheTries!Node' : ShapeOf(n, up)'
        /\ \A x, y \in TheTries!Node' : x < y => x < up[y] \/ up[y] =< up[x]
    BY <1>11, <1>12, Zenon
  <2> QED
    BY <1>8, <1>10, <2>1, <2>2, Zenon DEF Forest
<1> QED
  BY <1>3, <1>4, <1>7, <1>13

LEMMA ListsOf ==
  /\ \A s \in Seq(Nat), x \in Nat : Len(s) = 1 /\ s[1] = x => s = <<x>>
  /\ \A s \in Seq(Nat), x, y \in Nat : Len(s) = 2 /\ s[1] = x /\ s[2] = y => s = <<x, y>>
<1>1. ASSUME NEW s \in Seq(Nat), NEW x \in Nat, Len(s) = 1, s[1] = x
      PROVE  s = <<x>>
  <2>1. <<x>> \in Seq(Nat) /\ Len(<<x>>) = 1 /\ <<x>>[1] = x
    OBVIOUS
  <2>2. \A n \in 1 .. Len(s) : s[n] = <<x>>[n]
    BY <1>1, <2>1
  <2> QED
    BY <1>1, <2>1, <2>2, SeqEqual
<1>2. ASSUME NEW s \in Seq(Nat), NEW x \in Nat, NEW y \in Nat, Len(s) = 2, s[1] = x, s[2] = y
      PROVE  s = <<x, y>>
  <2>1. <<x, y>> \in Seq(Nat) /\ Len(<<x, y>>) = 2 /\ <<x, y>>[1] = x /\ <<x, y>>[2] = y
    OBVIOUS
  <2>2. \A n \in 1 .. Len(s) : s[n] = <<x, y>>[n]
    BY <1>2, <2>1
  <2> QED
    BY <1>2, <2>1, <2>2, SeqEqual
<1> QED
  BY <1>1, <1>2

LEMMA LastOnes ==
  /\ \A m \in Nat : SubSeq(<<>>, 1, 0) = <<>> /\ Append(SubSeq(<<>>, 1, 0), m) = <<m>>
  /\ \A x, m \in Nat :
       /\ SubSeq(<<x>>, 2, 1) = <<>> /\ Append(SubSeq(<<x>>, 1, 1), m) = <<x, m>>
       /\ SubSeq(<<x>>, 1, 1) = <<x>> /\ Append(SubSeq(<<x>>, 1, 0), m) = <<m>>
  /\ \A x, y, m \in Nat :
       /\ SubSeq(<<x, y>>, 2, 2) = <<y>> /\ Append(SubSeq(<<x, y>>, 1, 1), m) = <<x, m>>
       /\ SubSeq(<<x, y>>, 1, 2) = <<x, y>> /\ Append(SubSeq(<<x, y>>, 1, 0), m) = <<m>>
  /\ Len(<<>>) = 0 /\ (\A x \in Nat : Len(<<x>>) = 1) /\ (\A x, y \in Nat : Len(<<x, y>>) = 2)
<1>1. /\ SubSeq(<<>>, 1, 0) = <<>>
      /\ \A x \in Nat : SubSeq(<<x>>, 2, 1) = <<>> /\ SubSeq(<<x>>, 1, 0) = <<>>
      /\ \A x, y \in Nat : SubSeq(<<x, y>>, 1, 0) = <<>>
  OBVIOUS
<1>2. Len(<<>>) = 0 /\ (\A x \in Nat : Len(<<x>>) = 1) /\ (\A x, y \in Nat : Len(<<x, y>>) = 2)
  OBVIOUS
<1>3. ASSUME NEW x \in Nat, NEW m \in Nat
      PROVE  /\ SubSeq(<<x>>, 1, 1) = <<x>>
             /\ Append(<<>>, m) = <<m>> /\ Append(<<x>>, m) = <<x, m>>
  <2>1. <<>> \in Seq(Nat) /\ <<x>> \in Seq(Nat) /\ Len(<<x>>) = 1 /\ <<x>>[1] = x
    OBVIOUS
  <2>2. SubSeq(<<x>>, 1, 1) = <<x>>
    BY <2>1, SubSeqFull
  <2>3. Append(<<>>, m) = <<m>>
    <3>1. Append(<<>>, m) \in Seq(Nat) /\ Len(Append(<<>>, m)) = 1 /\ Append(<<>>, m)[1] = m
      BY <2>1
    <3> QED
      BY <3>1, ListsOf
  <2>4. Append(<<x>>, m) = <<x, m>>
    <3>1. /\ Append(<<x>>, m) \in Seq(Nat) /\ Len(Append(<<x>>, m)) = 2
          /\ Append(<<x>>, m)[1] = x /\ Append(<<x>>, m)[2] = m
      BY <2>1
    <3> QED
      BY <3>1, ListsOf
  <2> QED
    BY <2>2, <2>3, <2>4
<1>4. ASSUME NEW x \in Nat, NEW y \in Nat
      PROVE  /\ SubSeq(<<x, y>>, 2, 2) = <<y>> /\ SubSeq(<<x, y>>, 1, 1) = <<x>>
             /\ SubSeq(<<x, y>>, 1, 2) = <<x, y>>
  <2>1. <<x, y>> \in Seq(Nat) /\ Len(<<x, y>>) = 2 /\ <<x, y>>[1] = x /\ <<x, y>>[2] = y
    OBVIOUS
  <2>2. SubSeq(<<x, y>>, 1, 2) = <<x, y>>
    BY <2>1, SubSeqFull
  <2>3. /\ SubSeq(<<x, y>>, 2, 2) \in Seq(Nat) /\ Len(SubSeq(<<x, y>>, 2, 2)) = 1
        /\ SubSeq(<<x, y>>, 2, 2)[1] = y
    BY <2>1
  <2>4. /\ SubSeq(<<x, y>>, 1, 1) \in Seq(Nat) /\ Len(SubSeq(<<x, y>>, 1, 1)) = 1
        /\ SubSeq(<<x, y>>, 1, 1)[1] = x
    BY <2>1
  <2> QED
    BY <2>2, <2>3, <2>4, ListsOf
<1>5. ASSUME NEW m \in Nat
      PROVE  SubSeq(<<>>, 1, 0) = <<>> /\ Append(SubSeq(<<>>, 1, 0), m) = <<m>>
  BY <1>1, <1>3, Zenon
<1>6. ASSUME NEW x \in Nat, NEW m \in Nat
      PROVE  /\ SubSeq(<<x>>, 2, 1) = <<>> /\ Append(SubSeq(<<x>>, 1, 1), m) = <<x, m>>
             /\ SubSeq(<<x>>, 1, 1) = <<x>> /\ Append(SubSeq(<<x>>, 1, 0), m) = <<m>>
  <2>1. /\ SubSeq(<<x>>, 1, 1) = <<x>> /\ Append(<<>>, m) = <<m>> /\ Append(<<x>>, m) = <<x, m>>
    BY <1>3
  <2>2. SubSeq(<<x>>, 2, 1) = <<>> /\ SubSeq(<<x>>, 1, 0) = <<>>
    BY <1>1
  <2> QED
    BY <2>1, <2>2, Zenon
<1>7. ASSUME NEW x \in Nat, NEW y \in Nat, NEW m \in Nat
      PROVE  /\ SubSeq(<<x, y>>, 2, 2) = <<y>> /\ Append(SubSeq(<<x, y>>, 1, 1), m) = <<x, m>>
             /\ SubSeq(<<x, y>>, 1, 2) = <<x, y>> /\ Append(SubSeq(<<x, y>>, 1, 0), m) = <<m>>
  <2>1. Append(<<>>, m) = <<m>> /\ Append(<<x>>, m) = <<x, m>>
    BY <1>3
  <2>2. SubSeq(<<x, y>>, 1, 0) = <<>>
    BY <1>1
  <2>3. /\ SubSeq(<<x, y>>, 2, 2) = <<y>> /\ SubSeq(<<x, y>>, 1, 1) = <<x>>
        /\ SubSeq(<<x, y>>, 1, 2) = <<x, y>>
    BY <1>4
  <2> QED
    BY <2>1, <2>2, <2>3, Zenon
<1> QED
  BY <1>2, <1>5, <1>6, <1>7, Zenon

LEMMA LastTwo ==
  ASSUME NEW x \in Nat, NEW y \in Nat, NEW m \in Nat
  PROVE  /\ SubSeq(<<x, y>>, 2, 2) = <<y>> /\ Append(SubSeq(<<x, y>>, 1, 1), m) = <<x, m>>
         /\ SubSeq(<<x, y>>, 1, 2) = <<x, y>> /\ Append(SubSeq(<<x, y>>, 1, 0), m) = <<m>>
  BY LastOnes, ZenonT(40)

\* The expressions that are left for the others.
LEMMA LastPut ==
  ASSUME NEW k, NEW a, TheTries!Finish(k, a), Total \in Nat
  PROVE  /\ roots = <<>> /\ a = 0 => Puts(k, <<>>) /\ roots' = <<Total + 1>>
         /\ \A x \in Nat : roots = <<x>> =>
              /\ a # 2
              /\ a = 0 => Puts(k, <<>>) /\ roots' = <<x, Total + 1>>
              /\ a = 1 => Puts(k, <<x>>) /\ roots' = <<Total + 1>>
         /\ \A x, y \in Nat : roots = <<x, y>> =>
              /\ a # 0
              /\ a = 1 => Puts(k, <<y>>) /\ roots' = <<x, Total + 1>>
              /\ a = 2 => Puts(k, <<x, y>>) /\ roots' = <<Total + 1>>
<1>1. /\ a =< Len(roots) /\ Len(roots) - a =< 1
      /\ Puts(k, SubSeq(roots, (Len(roots) - a) + 1, Len(roots)))
      /\ roots' = Append(SubSeq(roots, 1, Len(roots) - a), Total + 1)
  BY Zenon DEF TheTries!Finish, Total, Puts
<1>2. /\ 0 - 0 = 0 /\ 1 - 0 = 1 /\ 1 - 1 = 0 /\ 2 - 1 = 1 /\ 2 - 2 = 0
      /\ 0 + 1 = 1 /\ 1 + 1 = 2 /\ ~(2 =< 1) /\ ~(2 - 0 =< 1)
  OBVIOUS
<1>3. roots = <<>> /\ a = 0 => Puts(k, <<>>) /\ roots' = <<Total + 1>>
  <2>1. ASSUME roots = <<>>, a = 0 PROVE Puts(k, <<>>) /\ roots' = <<Total + 1>>
    <3>1. Len(roots) = 0 /\ Len(roots) - a = 0 /\ (Len(roots) - a) + 1 = 1 /\ Total + 1 \in Nat
      BY <2>1
    <3>2. Puts(k, SubSeq(<<>>, 1, 0)) /\ roots' = Append(SubSeq(<<>>, 1, 0), Total + 1)
      BY <1>1, <2>1, <3>1
    <3> QED
      BY <3>1, <3>2, LastOnes, Zenon
  <2> QED
    BY <2>1
<1>4. ASSUME NEW x \in Nat, roots = <<x>>
      PROVE  /\ a # 2
             /\ a = 0 => Puts(k, <<>>) /\ roots' = <<x, Total + 1>>
             /\ a = 1 => Puts(k, <<x>>) /\ roots' = <<Total + 1>>
  <2>1. Len(roots) = 1
    BY <1>4, LastOnes, Zenon
  <2>2. a # 2
    BY <1>1, <1>2, <2>1, Zenon
  <2>3. ASSUME a = 0 PROVE Puts(k, <<>>) /\ roots' = <<x, Total + 1>>
    <3>1. Len(roots) - a = 1 /\ (Len(roots) - a) + 1 = 2
      BY <2>1, <2>3
    <3>2. Puts(k, SubSeq(<<x>>, 2, 1)) /\ roots' = Append(SubSeq(<<x>>, 1, 1), Total + 1)
      BY <1>1, <1>4, <2>1, <3>1
    <3>3. Total + 1 \in Nat
      OBVIOUS
    <3>4. /\ SubSeq(<<x>>, 2, 1) = <<>>
          /\ Append(SubSeq(<<x>>, 1, 1), Total + 1) = <<x, Total + 1>>
      BY <3>3, LastOnes, ZenonT(40)
    <3> QED
      BY <3>2, <3>4, Zenon
  <2>4. ASSUME a = 1 PROVE Puts(k, <<x>>) /\ roots' = <<Total + 1>>
    <3>1. Len(roots) - a = 0 /\ (Len(roots) - a) + 1 = 1
      BY <2>1, <2>4
    <3>2. Puts(k, SubSeq(<<x>>, 1, 1)) /\ roots' = Append(SubSeq(<<x>>, 1, 0), Total + 1)
      BY <1>1, <1>4, <2>1, <3>1
    <3>3. Total + 1 \in Nat
      OBVIOUS
    <3>4. /\ SubSeq(<<x>>, 1, 1) = <<x>>
          /\ Append(SubSeq(<<x>>, 1, 0), Total + 1) = <<Total + 1>>
      BY <3>3, LastOnes, ZenonT(40)
    <3> QED
      BY <3>2, <3>4, Zenon
  <2> QED
    BY <2>2, <2>3, <2>4
<1>5. ASSUME NEW x \in Nat, NEW y \in Nat, roots = <<x, y>>
      PROVE  /\ a # 0
             /\ a = 1 => Puts(k, <<y>>) /\ roots' = <<x, Total + 1>>
             /\ a = 2 => Puts(k, <<x, y>>) /\ roots' = <<Total + 1>>
  <2>1. Len(roots) = 2
    BY <1>5, LastOnes, Zenon
  <2>2. a # 0
    BY <1>1, <1>2, <2>1, Zenon
  <2>3. ASSUME a = 1 PROVE Puts(k, <<y>>) /\ roots' = <<x, Total + 1>>
    <3>1. Len(roots) - a = 1 /\ (Len(roots) - a) + 1 = 2
      BY <2>1, <2>3
    <3>2. Puts(k, SubSeq(<<x, y>>, 2, 2)) /\ roots' = Append(SubSeq(<<x, y>>, 1, 1), Total + 1)
      BY <1>1, <1>5, <2>1, <3>1
    <3>3. Total + 1 \in Nat
      OBVIOUS
    <3>4. /\ SubSeq(<<x, y>>, 2, 2) = <<y>>
          /\ Append(SubSeq(<<x, y>>, 1, 1), Total + 1) = <<x, Total + 1>>
      BY <3>3, LastTwo, ZenonT(40)
    <3> QED
      BY <3>2, <3>4, Zenon
  <2>4. ASSUME a = 2 PROVE Puts(k, <<x, y>>) /\ roots' = <<Total + 1>>
    <3>1. Len(roots) - a = 0 /\ (Len(roots) - a) + 1 = 1
      BY <2>1, <2>4
    <3>2. Puts(k, SubSeq(<<x, y>>, 1, 2)) /\ roots' = Append(SubSeq(<<x, y>>, 1, 0), Total + 1)
      BY <1>1, <1>5, <2>1, <3>1
    <3>3. Total + 1 \in Nat
      OBVIOUS
    <3>4. /\ SubSeq(<<x, y>>, 1, 2) = <<x, y>>
          /\ Append(SubSeq(<<x, y>>, 1, 0), Total + 1) = <<Total + 1>>
      BY <3>3, LastTwo, ZenonT(40)
    <3> QED
      BY <3>2, <3>4, Zenon
  <2> QED
    BY <2>2, <2>3, <2>4
<1> QED
  BY <1>3, <1>4, <1>5, Zenon

LEMMA FinishedOne ==
  ASSUME NEW low, Forest(low), nodes \in NodeLists, NEW k \in DOMAIN TheTries!Arity, NEW ks \in Seq(Nat),
         NEW from, from = 1, Puts(k, ks), Fit(k, ks, from, low), roots' = <<Total + 1>>
  PROVE  Formed'
<1>1. from \in Nat
  OBVIOUS
<1>2. /\ nodes' \in NodeLists /\ Total' = Total + 1 /\ TheTries!Node' = 1 .. Total + 1
      /\ \E up : Forest(up)' /\ up[Total + 1] = from
  BY <1>1, Grown, ZenonT(40)
<1>3. PICK up : Forest(up)' /\ up[Total + 1] = from
  BY <1>2
<1>4. Total + 1 \in 1 .. Total + 1
  BY Bounds
<1>5. One(up)'
  BY <1>2, <1>3, <1>4, Zenon DEF One
<1> QED
  BY <1>2, <1>3, <1>5, Zenon DEF Formed, Shape

LEMMA FinishedTwo ==
  ASSUME NEW low, Forest(low), nodes \in NodeLists, NEW k \in DOMAIN TheTries!Arity, NEW ks \in Seq(Nat),
         NEW x \in TheTries!Node, low[x] = 1, NEW from, from = x + 1, Puts(k, ks), Fit(k, ks, from, low),
         roots' = <<x, Total + 1>>
  PROVE  Formed'
<1>1. from \in Nat
  BY Bounds
<1>2. /\ nodes' \in NodeLists /\ Total' = Total + 1 /\ TheTries!Node' = 1 .. Total + 1
      /\ \E up : Forest(up)' /\ up[Total + 1] = from /\ \A n \in TheTries!Node : up[n] = low[n]
  BY <1>1, Grown, ZenonT(40)
<1>3. PICK up : Forest(up)' /\ up[Total + 1] = from /\ \A n \in TheTries!Node : up[n] = low[n]
  BY <1>2
<1>4. Total + 1 \in 1 .. Total + 1 /\ x \in 1 .. Total + 1
  BY Bounds
<1>5. Two(x, up)'
  BY <1>2, <1>3, <1>4, Zenon DEF Two
<1> QED
  BY <1>2, <1>3, <1>5, Zenon DEF Formed, Shape

LEMMA FinishedWell ==
  ASSUME Formed, NEW k \in DOMAIN TheTries!Arity, NEW a \in TheTries!Arity[k], TheTries!Finish(k, a)
  PROVE  Formed'
<1>1. PICK low : Forest(low) /\ Shape(low)
  BY DEF Formed
<1>2. /\ nodes \in NodeLists /\ Total \in Nat /\ TheTries!Node = 1 .. Total
      /\ \A n \in TheTries!Node : n \in Nat /\ low[n] \in Nat
  BY <1>1, Bounds DEF Formed
<1>3. /\ a \in {0, 1, 2}
      /\ a = 0 => k \in {"leaf", "call"}
      /\ a = 1 => k \in {"call", "branch", "try"}
      /\ a = 2 => k \in {"both", "point", "logic"}
  BY DEF TheTries!Arity
<1>4. CASE Total = 0 /\ roots = <<>>
  <2>1. a = 0
    BY <1>3, <1>4, LastOnes DEF TheTries!Finish
  <2>2. Fit(k, <<>>, 1, low)
    BY <1>3, <1>4, <2>1 DEF Fit
  <2>3. Puts(k, <<>>) /\ roots' = <<Total + 1>>
    BY <1>4, <2>1, LastPut
  <2>4. <<>> \in Seq(Nat)
    OBVIOUS
  <2> QED
    BY <1>1, <1>2, <2>2, <2>3, <2>4, FinishedOne, Zenon
<1>5. CASE One(low)
  <2>1. Total \in TheTries!Node /\ roots = <<Total>> /\ low[Total] = 1 /\ Total \in Nat
    BY <1>2, <1>5 DEF One
  <2>2. CASE a = 0
    <3>1. Puts(k, <<>>) /\ roots' = <<Total, Total + 1>>
      BY <2>1, <2>2, LastPut, Zenon
    <3>2. Fit(k, <<>>, Total + 1, low) /\ <<>> \in Seq(Nat)
      BY <1>3, <2>2 DEF Fit
    <3> QED
      BY <1>1, <1>2, <2>1, <3>1, <3>2, FinishedTwo, Zenon
  <2>3. CASE a = 1
    <3>1. Puts(k, <<Total>>) /\ roots' = <<Total + 1>>
      BY <2>1, <2>3, LastPut, Zenon
    <3>2. Fit(k, <<Total>>, 1, low) /\ <<Total>> \in Seq(Nat)
      BY <1>3, <2>1, <2>3 DEF Fit
    <3> QED
      BY <1>1, <1>2, <3>1, <3>2, FinishedOne, Zenon
  <2>4. a # 2
    BY <2>1, LastPut, Zenon
  <2> QED
    BY <1>3, <2>2, <2>3, <2>4
<1>6. ASSUME NEW x, Two(x, low) PROVE Formed'
  <2>1. /\ Total \in TheTries!Node /\ x \in TheTries!Node /\ roots = <<x, Total>> /\ low[x] = 1 /\ low[Total] = x + 1
        /\ Total \in Nat /\ x \in Nat
    BY <1>2, <1>6 DEF Two
  <2>2. CASE a = 1
    <3>1. Puts(k, <<Total>>) /\ roots' = <<x, Total + 1>>
      BY <2>1, <2>2, LastPut, Zenon
    <3>2. Fit(k, <<Total>>, x + 1, low) /\ <<Total>> \in Seq(Nat)
      BY <1>3, <2>1, <2>2 DEF Fit
    <3> QED
      BY <1>1, <1>2, <2>1, <3>1, <3>2, FinishedTwo, Zenon
  <2>3. CASE a = 2
    <3>1. Puts(k, <<x, Total>>) /\ roots' = <<Total + 1>>
      BY <2>1, <2>3, LastPut, Zenon
    <3>2. Fit(k, <<x, Total>>, 1, low) /\ <<x, Total>> \in Seq(Nat)
      BY <1>3, <2>1, <2>3 DEF Fit
    <3> QED
      BY <1>1, <1>2, <3>1, <3>2, FinishedOne, Zenon
  <2>4. a # 0
    BY <2>1, LastPut, Zenon
  <2> QED
    BY <1>3, <2>2, <2>3, <2>4
<1> QED
  BY <1>1, <1>4, <1>5, <1>6, Zenon DEF Shape

\* What stays as it is as long as the statement does.
LEMMA SameStatement ==
  ASSUME nodes' = nodes, roots' = roots
  PROVE  /\ TheTries!Source' = TheTries!Events(roots, {}, conditions') /\ TheTries!Lowered' = Runs(plan', conditions')
         /\ TheTries!Unseen' = TheTries!Unseen /\ Excused' = Excused
<1>1. TheTries!Source' = TheTries!Events(roots, {}, conditions')
  BY SMT DEF TheTries!Source, TheTries!Events, TheTries!Joined, TheTries!EventsOf, TheTries!Node, TheTries!Kids, TheTries!KindOf, TheTries!Evaluated
<1>2. TheTries!Lowered' = Runs(plan', conditions')
  BY SMT DEF TheTries!Lowered, Runs, TheTries!EventsOfPreambles, TheTries!Events, TheTries!Joined, TheTries!EventsOf, TheTries!Node, TheTries!Kids, TheTries!KindOf, TheTries!Evaluated
<1>3. /\ TheTries!Node' = TheTries!Node /\ TheTries!Tries' = TheTries!Tries
      /\ \A n : TheTries!KindOf(n)' = TheTries!KindOf(n) /\ TheTries!Kids(n)' = TheTries!Kids(n)
  BY SMT DEF TheTries!Node, TheTries!Tries, TheTries!KindOf, TheTries!Kids
<1>4. \A n : TheTries!Within(n)' = TheTries!Within(n)
  BY SMT DEF TheTries!Within, TheTries!within, TheTries!Node, TheTries!Kids
<1>5. TheTries!Text' = TheTries!Text
  BY SMT DEF TheTries!Text, TheTries!Events, TheTries!Joined, TheTries!EventsOf, TheTries!Node, TheTries!Kids, TheTries!KindOf, TheTries!Evaluated
<1>6. \A e, t : TheTries!Before(e, t)' <=> TheTries!Before(e, t)
  BY <1>5 DEF TheTries!Before
<1>7. \A e, t : TheTries!Overtaken(e, t)' <=> TheTries!Overtaken(e, t)
  BY <1>3, <1>4, <1>6 DEF TheTries!Overtaken
<1>8. TheTries!Unseen' = TheTries!Unseen
  BY <1>3, <1>4, <1>7 DEF TheTries!Unseen
<1>9. Excused' = Excused
  BY <1>3, <1>4, <1>7 DEF Excused, TheTries!OnCondition
<1> QED
  BY <1>1, <1>2, <1>8, <1>9, Zenon

LEMMA SameForm ==
  ASSUME nodes' = nodes, roots' = roots
  PROVE  Formed' = Formed
  BY SMT DEF Formed, NodeLists, Forest, Shape, ShapeOf, One, Two, Total, TheTries!Node, TheTries!Kids, TheTries!KindOf

LEMMA SameOrder ==
  ASSUME nodes' = nodes, TheTries!Lowered' = TheTries!Lowered, TheTries!InOrder(TheTries!Lowered, ran')
  PROVE  TheTries!InOrder(TheTries!Lowered, ran)'
<1>1. /\ TheTries!Node' = TheTries!Node /\ TheTries!Tries' = TheTries!Tries
      /\ \A n : TheTries!KindOf(n)' = TheTries!KindOf(n) /\ TheTries!Kids(n)' = TheTries!Kids(n)
  BY SMT DEF TheTries!Node, TheTries!Tries, TheTries!KindOf, TheTries!Kids
<1>2. \A n : TheTries!Within(n)' = TheTries!Within(n)
  BY SMT DEF TheTries!Within, TheTries!within, TheTries!Node, TheTries!Kids
<1>3. \A e, f : TheTries!Floats(e, f)' <=> TheTries!Floats(e, f)
  BY <1>1, <1>2, Zenon DEF TheTries!Floats
<1> QED
  BY <1>3 DEF TheTries!InOrder

\* What the program has gone through, in Go's order of what its text says.
Faithful ==
  /\ status \in {"parsing", "refused", "running", "left", "complete"}
  /\ status \in {"parsing", "refused"} => ran = <<>>
  /\ status \in {"running", "left", "complete"} =>
       /\ TheTries!Lowered = TheTries!Source \/ TheTries!Unseen
       /\ TheTries!InOrder(TheTries!Lowered, ran)
       /\ ran \in Seq(DOMAIN TheTries!Lowered)
  /\ status = "complete" => TheTries!Range(ran) = DOMAIN TheTries!Lowered
  /\ status = "refused" => ~fallible \/ Excused

Inv == Formed /\ Faithful

LEMMA EmptyInOrder == ASSUME NEW events PROVE TheTries!InOrder(events, <<>>) /\ <<>> \in Seq(DOMAIN events)
<1>1. DOMAIN <<>> = {}
  OBVIOUS
<1> QED
  BY <1>1 DEF TheTries!InOrder, TheTries!IsInjective

LEMMA InvIsEnough ==
  ASSUME Inv
  PROVE  TheTries!HoistsExactly
<1>1. TheTries!KeepsOrderOfSeen
  <2>1. CASE status \in {"running", "left", "complete"}
    <3>1. SUFFICES ASSUME TheTries!Lowered = TheTries!Source PROVE TheTries!KeepsOrder
      BY <2>1 DEF Inv, Faithful, TheTries!KeepsOrderOfSeen
    <3>2. ran \in Seq(DOMAIN TheTries!Source) /\ TheTries!InOrder(TheTries!Source, ran)
      BY <2>1, <3>1 DEF Inv, Faithful
    <3>3. ran \in [DOMAIN ran -> DOMAIN TheTries!Source]
      BY <3>2
    <3>4. \A n \in DOMAIN ran : TheTries!Source[ran[n]] = TheTries!Lowered[ran[n]]
      BY <3>1
    <3>5. status = "complete" => TheTries!Range(ran) = DOMAIN TheTries!Source
      BY <3>1 DEF Inv, Faithful
    <3> QED
      BY <3>2, <3>3, <3>4, <3>5, Zenon DEF TheTries!KeepsOrder
  <2>2. CASE status \in {"parsing", "refused"}
    <3>1. ran = <<>> /\ status # "complete"
      BY <2>2 DEF Inv, Faithful
    <3>2. TheTries!InOrder(TheTries!Source, ran) /\ ran \in Seq(DOMAIN TheTries!Source) /\ DOMAIN ran = {}
      BY <3>1, EmptyInOrder
    <3>3. ran \in [DOMAIN ran -> DOMAIN TheTries!Source]
      BY <3>2
    <3>4. \A n \in DOMAIN ran : TheTries!Source[ran[n]] = TheTries!Lowered[ran[n]]
      BY <3>2
    <3> QED
      BY <3>1, <3>2, <3>3, <3>4, Zenon DEF TheTries!KeepsOrderOfSeen, TheTries!KeepsOrder
  <2> QED
    BY <2>1, <2>2 DEF Inv, Faithful
<1>2. TheTries!RefusesOnlyReorderings
  BY DEF Inv, Faithful, TheTries!RefusesOnlyReorderings, Excused
<1> QED
  BY <1>1, <1>2 DEF TheTries!HoistsExactly

LEMMA InitInv == TheTries!Init => Inv
<1> SUFFICES ASSUME TheTries!Init PROVE Inv
  OBVIOUS
<1>1. nodes = <<>> /\ roots = <<>> /\ ran = <<>> /\ status = "parsing"
  BY DEF TheTries!Init
<1>2. Total = 0 /\ TheTries!Node = {} /\ nodes \in NodeLists
  BY <1>1 DEF Total, TheTries!Node, NodeLists
<1>3. PICK low : low = [n \in {} |-> 0]
  OBVIOUS
<1>4. Forest(low)
  <2>1. 0 \in Nat /\ {} = 1 .. 0 /\ low \in [{} -> Nat] /\ \A n : n \notin {}
    BY <1>3
  <2> QED
    BY <1>2, <2>1, Zenon DEF Forest
<1>5. Formed
  BY <1>1, <1>2, <1>4, Zenon DEF Formed, Shape
<1>6. Faithful
  BY <1>1 DEF Faithful
<1> QED
  BY <1>5, <1>6 DEF Inv

LEMMA EmitInv ==
  ASSUME Inv, status = "parsing", NEW h, Planned(h), TheTries!Emit(h)
  PROVE  Inv'
<1>1. PICK low : Forest(low) /\ Shape(low)
  BY DEF Inv, Formed
<1>2. /\ plan' = h /\ nodes' = nodes /\ roots' = roots /\ fallible' = fallible
      /\ ran' = ran /\ ran = <<>>
  BY DEF TheTries!Emit, Inv, Faithful
<1>3. /\ TheTries!Source' = TheTries!Events(roots, {}, conditions') /\ TheTries!Lowered' = Runs(h, conditions')
      /\ TheTries!Unseen' = TheTries!Unseen /\ Excused' = Excused /\ Formed'
  BY <1>2, SameStatement, SameForm, Zenon DEF Inv
<1>4. TheTries!Tries \subseteq TheTries!Range(h) => \A t \in TheTries!Tries : t \in Elements(h)
  BY DEF TheTries!Range, Elements
<1>5. (\A t \in TheTries!Tries : t \in Elements(h)) => TheTries!Tries \subseteq TheTries!Range(h)
  BY DEF TheTries!Range, Elements
<1>6. CASE TheTries!Tries = {} \/ (fallible /\ TheTries!Tries \subseteq TheTries!Range(h))
  <2>1. status' = "running"
    BY <1>6 DEF TheTries!Emit
  <2>2. \A t \in TheTries!Tries : t \in Elements(h)
    BY <1>4, <1>6
  <2>3. TheTries!Lowered' = TheTries!Source' \/ TheTries!Unseen'
    BY <1>1, <1>3, <2>2, LoweredRight, Zenon
  <2>4. TheTries!InOrder(TheTries!Lowered, ran)' /\ ran' \in Seq(DOMAIN TheTries!Lowered')
    <3>1. DOMAIN <<>> = {} /\ ran' = <<>>
      BY <1>2
    <3>2. TheTries!InOrder(TheTries!Lowered, ran)'
      BY <3>1 DEF TheTries!InOrder, TheTries!IsInjective
    <3> QED
      BY <3>1, <3>2
  <2> QED
    BY <1>2, <1>3, <2>1, <2>3, <2>4 DEF Inv, Faithful
<1>7. CASE ~(TheTries!Tries = {} \/ (fallible /\ TheTries!Tries \subseteq TheTries!Range(h)))
  <2>1. status' = "refused"
    BY <1>7 DEF TheTries!Emit
  <2>2. ~fallible' \/ Excused'
    BY <1>1, <1>2, <1>3, <1>5, <1>7, RefusedRight, Zenon
  <2> QED
    BY <1>2, <1>3, <2>1, <2>2 DEF Inv, Faithful
<1> QED
  BY <1>6, <1>7

LEMMA RunInv ==
  ASSUME Inv, TheTries!Run \/ TheTries!Complete
  PROVE  Inv'
<1>1. /\ status = "running" /\ nodes' = nodes /\ roots' = roots /\ fallible' = fallible
      /\ plan' = plan /\ conditions' = conditions
      /\ TheTries!Lowered = TheTries!Source \/ TheTries!Unseen
      /\ TheTries!InOrder(TheTries!Lowered, ran) /\ ran \in Seq(DOMAIN TheTries!Lowered)
  BY DEF TheTries!Run, TheTries!Complete, Inv, Faithful
<1>2. /\ TheTries!Source' = TheTries!Source /\ TheTries!Lowered' = TheTries!Lowered /\ TheTries!Unseen' = TheTries!Unseen /\ Excused' = Excused
      /\ Formed'
  BY <1>1, SameStatement, SameForm, Zenon DEF Inv, TheTries!Source, TheTries!Lowered, Runs
<1>3. TheTries!InOrder(TheTries!Lowered, ran') => TheTries!InOrder(TheTries!Lowered, ran)'
  BY <1>1, <1>2, SameOrder
<1>4. CASE TheTries!Run
  <2>1. PICK i \in DOMAIN TheTries!Lowered : ran' = Append(ran, i) /\ TheTries!InOrder(TheTries!Lowered, ran')
    BY <1>4 DEF TheTries!Run
  <2>2. ran' \in Seq(DOMAIN TheTries!Lowered)
    BY <1>1, <2>1, AppendProperties
  <2>3. status' \in {"running", "left"}
    BY <1>4 DEF TheTries!Run
  <2> QED
    BY <1>1, <1>2, <1>3, <2>1, <2>2, <2>3 DEF Inv, Faithful
<1>5. CASE TheTries!Complete
  <2>1. ran' = ran /\ TheTries!Range(ran) = DOMAIN TheTries!Lowered /\ status' = "complete"
    BY <1>5 DEF TheTries!Complete
  <2> QED
    BY <1>1, <1>2, <1>3, <2>1 DEF Inv, Faithful
<1> QED
  BY <1>4, <1>5

LEMMA NextInv ==
  ASSUME Inv, TheTries!Next \/ UNCHANGED TheTries!vars
  PROVE  Inv'
<1>1. ASSUME NEW k \in DOMAIN TheTries!Arity, NEW a \in TheTries!Arity[k], TheTries!Finish(k, a) PROVE Inv'
  <2>1. Formed'
    BY <1>1, FinishedWell DEF Inv
  <2>2. status' = "parsing" /\ ran' = <<>>
    BY <1>1 DEF TheTries!Finish, Inv, Faithful
  <2> QED
    BY <2>1, <2>2 DEF Inv, Faithful
<1>2. CASE TheTries!LowerTry
  BY <1>2, EmitInv, Zenon DEF TheTries!LowerTry, Planned
<1>3. CASE TheTries!LowerValue
  BY <1>3, EmitInv, Zenon DEF TheTries!LowerValue, Planned
<1>4. CASE TheTries!LowerAssign
  BY <1>4, EmitInv, Zenon DEF TheTries!LowerAssign, TheTries!Assignment, Planned
<1>5. CASE TheTries!Run \/ TheTries!Complete
  BY <1>5, RunInv
<1>6. CASE UNCHANGED TheTries!vars
  <2>1. /\ nodes' = nodes /\ roots' = roots /\ fallible' = fallible /\ plan' = plan
        /\ conditions' = conditions /\ ran' = ran /\ status' = status
    BY <1>6 DEF TheTries!vars
  <2>2. /\ TheTries!Source' = TheTries!Source /\ TheTries!Lowered' = TheTries!Lowered /\ TheTries!Unseen' = TheTries!Unseen /\ Excused' = Excused
        /\ Formed'
    BY <2>1, SameStatement, SameForm, Zenon DEF Inv, TheTries!Source, TheTries!Lowered, Runs
  <2>3. TheTries!InOrder(TheTries!Lowered, ran) => TheTries!InOrder(TheTries!Lowered, ran)'
    BY <2>1, <2>2, SameOrder, Zenon
  <2> QED
    BY <2>1, <2>2, <2>3 DEF Inv, Faithful
<1> QED
  BY <1>1, <1>2, <1>3, <1>4, <1>5, <1>6 DEF TheTries!Next, TheTries!Over

LEMMA TryInvariant == LoweringSpec => []Inv
<1>1. LoweringInit => Inv
  BY InitInv DEF LoweringInit
<1>2. Inv /\ [LoweringNext]_loweringVars => Inv'
  <2> SUFFICES ASSUME Inv, [LoweringNext]_loweringVars PROVE Inv'
    OBVIOUS
  <2>1. TheTries!Next \/ UNCHANGED TheTries!vars
    BY DEF LoweringNext, loweringVars, tryVars, TheTries!vars
  <2> QED
    BY <2>1, NextInv, Zenon
<1> QED
  BY <1>1, <1>2, PTL DEF LoweringSpec

(* A statement of any size with tries in it runs in an order that Go gives *)
(* to what it says, but for what hoistableTries does not look at, and it is*)
(* refused only where a preamble would reorder or could not return         *)
(* (try.go).                                                               *)
THEOREM TriesAlwaysHoistedExactly == LoweringSpec => []HoistsExactly
<1>1. Inv => HoistsExactly
  BY InvIsEnough DEF HoistsExactly
<1> QED
  BY <1>1, TryInvariant, PTL

=============================================================================
