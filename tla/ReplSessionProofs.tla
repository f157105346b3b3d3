------------------------- MODULE ReplSessionProofs -------------------------
(***************************************************************************)
(* Theorems about ReplSession for every set of inputs, every bound and     *)
(* whether or not the toolchain fails.                                     *)
(***************************************************************************)
EXTENDS ReplSession, IndexLemmas

-----------------------------------------------------------------------------
(* The operations on the session record.                                   *)

\* A stored declaration of the same head and name is found at an index of
\* the declarations.
LEMMA SameDeclIndex ==
  ASSUME NEW s \in Session, NEW in \in Input, SameDecl(s, in) # {}
  PROVE  /\ Min(SameDecl(s, in)) \in DOMAIN s.decls
         /\ Min(SameDecl(s, in)) \in SameDecl(s, in)
<1>1. s.decls \in Seq(Input)
  BY DEF Session
<1>2. SameDecl(s, in) \subseteq 1..Len(s.decls)
  BY <1>1 DEF SameDecl
<1> Len(s.decls) \in Nat
  BY <1>1
<1>3. SameDecl(s, in) \subseteq Nat /\ IsFiniteSet(SameDecl(s, in))
  <2>1. IsFiniteSet(1..Len(s.decls))
    BY FS_Interval
  <2> QED
    BY <1>2, <2>1, FS_Subset
<1>4. Min(SameDecl(s, in)) \in SameDecl(s, in)
  BY <1>3, MinIsMember
<1> QED
  BY <1>1, <1>2, <1>4

\* The four things add may do.
AddsImport(s, in) ==
  Add(s, in) = Update(s, Append(s.imports, in), s.decls, s.stmts, Appended("imports"))
AddsDecl(s, in) ==
  /\ SameDecl(s, in) = {}
  /\ Add(s, in) = Update(s, s.imports, Append(s.decls, in), s.stmts, Appended("decls"))
AddsStmt(s, in) ==
  Add(s, in) = Update(s, s.imports, s.decls, Append(s.stmts, in), Appended("stmts"))
Replaces(s, in, i) ==
  /\ i \in SameDecl(s, in)
  /\ i \in DOMAIN s.decls
  /\ Add(s, in) =
       Update(s, s.imports, [s.decls EXCEPT ![i] = in], s.stmts, Replaced(s, i))

LEMMA AddCases ==
  ASSUME NEW s \in Session, NEW in \in Input
  PROVE  \/ AddsImport(s, in) \/ AddsDecl(s, in) \/ AddsStmt(s, in)
         \/ \E i \in Nat : Replaces(s, in, i)
<1>1. CASE in.head = "import"
  BY <1>1 DEF Add, DeclHeads, AddsImport
<1>2. CASE in.head \in DeclHeads /\ SameDecl(s, in) # {}
  <2> DEFINE i == Min(SameDecl(s, in))
  <2>1. i \in DOMAIN s.decls /\ i \in SameDecl(s, in)
    BY <1>2, SameDeclIndex
  <2>2. i \in Nat
    BY <2>1 DEF Session
  <2>3. Replaces(s, in, i)
    BY <1>2, <2>1 DEF Add, DeclHeads, Replaces
  <2> QED
    BY <2>2, <2>3
<1>3. CASE in.head \in DeclHeads /\ SameDecl(s, in) = {}
  BY <1>3 DEF Add, DeclHeads, AddsDecl
<1>4. CASE in.head \notin {"import"} \cup DeclHeads
  BY <1>4 DEF Add, AddsStmt
<1> QED
  BY <1>1, <1>2, <1>3, <1>4

\* Slots and undo records of the right types make a session.
LEMMA UpdateType ==
  ASSUME NEW s \in Session, NEW imports \in Seq(Input), NEW decls \in Seq(Input),
         NEW stmts \in Seq(Input), NEW change \in Change
  PROVE  Update(s, imports, decls, stmts, change) \in Session
  BY DEF Update, Session

LEMMA SlotTypes ==
  ASSUME NEW s \in Session
  PROVE  /\ s.imports \in Seq(Input)
         /\ s.decls \in Seq(Input)
         /\ s.stmts \in Seq(Input)
  BY DEF Session

\* add keeps the session well-formed.
LEMMA AddType ==
  ASSUME NEW s \in Session, NEW in \in Input
  PROVE  Add(s, in) \in Session
<1>1. /\ s.imports \in Seq(Input)
      /\ s.decls \in Seq(Input)
      /\ s.stmts \in Seq(Input)
  BY SlotTypes
<1>2. /\ Append(s.imports, in) \in Seq(Input)
      /\ Append(s.decls, in) \in Seq(Input)
      /\ Append(s.stmts, in) \in Seq(Input)
  BY <1>1
<1>3. /\ Appended("imports") \in Change
      /\ Appended("decls") \in Change
      /\ Appended("stmts") \in Change
  BY DEF Appended, Change
<1>4. CASE AddsImport(s, in)
  <2>1. Update(s, Append(s.imports, in), s.decls, s.stmts, Appended("imports")) \in Session
    BY <1>1, <1>2, <1>3, UpdateType
  <2> QED
    BY <1>4, <2>1, Zenon DEF AddsImport
<1>5. CASE AddsDecl(s, in)
  <2>1. Update(s, s.imports, Append(s.decls, in), s.stmts, Appended("decls")) \in Session
    BY <1>1, <1>2, <1>3, UpdateType
  <2> QED
    BY <1>5, <2>1, Zenon DEF AddsDecl
<1>6. CASE AddsStmt(s, in)
  <2>1. Update(s, s.imports, s.decls, Append(s.stmts, in), Appended("stmts")) \in Session
    BY <1>1, <1>2, <1>3, UpdateType
  <2> QED
    BY <1>6, <2>1, Zenon DEF AddsStmt
<1>7. ASSUME NEW i \in Nat, Replaces(s, in, i)
      PROVE  Add(s, in) \in Session
  <2>1. i \in DOMAIN s.decls
    BY <1>7 DEF Replaces
  <2>2. [s.decls EXCEPT ![i] = in] \in Seq(Input)
    BY <1>1, <2>1
  <2>3. Replaced(s, i) \in Change
    BY <1>1, <2>1 DEF Replaced, Change
  <2> QED
    BY <1>1, <1>7, <2>2, <2>3, UpdateType, Zenon DEF Replaces
<1> QED
  BY <1>4, <1>5, <1>6, <1>7, AddCases, Zenon

LEMMA DropLastOfAppend ==
  ASSUME NEW S, NEW q \in Seq(S), NEW x \in S
  PROVE  DropLast(Append(q, x)) = q
  BY DEF DropLast, Front

\* Rolling back undoes what add did, in whichever slot, and keeps nothing of
\* it but the rejected text.
LEMMA RollbackUndoesAdd ==
  ASSUME NEW s \in Session, NEW in \in Input
  PROVE  /\ Source(Rollback(MarkRejected(Add(s, in), in))) = Source(s)
         /\ Rollback(MarkRejected(Add(s, in), in)) \in Session
<1> DEFINE back == Rollback(MarkRejected(Add(s, in), in))
           restored ==
      [imports |-> s.imports, decls |-> s.decls, stmts |-> s.stmts,
       lastChange |-> NoChange, rejected |-> s.rejected \cup {in}]
<1>1. /\ s.imports \in Seq(Input)
      /\ s.decls \in Seq(Input)
      /\ s.stmts \in Seq(Input)
      /\ s.rejected \in SUBSET Input
  BY DEF Session
<1>2. NoChange \in Change
  BY DEF NoChange, Change
<1>3. restored \in Session /\ Source(restored) = Source(s)
  BY <1>1, <1>2 DEF Session, Source
<1>4. /\ DropLast(Append(s.imports, in)) = s.imports
      /\ DropLast(Append(s.decls, in)) = s.decls
      /\ DropLast(Append(s.stmts, in)) = s.stmts
  BY <1>1, DropLastOfAppend
<1>5. CASE AddsImport(s, in)
  <2> DEFINE m == MarkRejected(Add(s, in), in)
  <2>1. m = [imports |-> Append(s.imports, in), decls |-> s.decls, stmts |-> s.stmts,
             lastChange |-> Appended("imports"), rejected |-> s.rejected \cup {in}]
    BY <1>5 DEF AddsImport, MarkRejected, Update
  <2>2. m.lastChange.kind = "appended" /\ m.lastChange.slot = "imports"
    BY <2>1 DEF Appended
  <2>3. back = DropFrom(m, "imports")
    BY <2>2 DEF Rollback
  <2>4. DropFrom(m, "imports") = Update(m, s.imports, s.decls, s.stmts, NoChange)
    BY <1>4, <2>1 DEF DropFrom
  <2>5. back = restored
    BY <2>1, <2>3, <2>4 DEF Update
  <2> QED
    BY <1>3, <2>5
<1>6. CASE AddsDecl(s, in)
  <2> DEFINE m == MarkRejected(Add(s, in), in)
  <2>1. m = [imports |-> s.imports, decls |-> Append(s.decls, in), stmts |-> s.stmts,
             lastChange |-> Appended("decls"), rejected |-> s.rejected \cup {in}]
    BY <1>6 DEF AddsDecl, MarkRejected, Update
  <2>2. m.lastChange.kind = "appended" /\ m.lastChange.slot = "decls"
    BY <2>1 DEF Appended
  <2>3. back = DropFrom(m, "decls")
    BY <2>2 DEF Rollback
  <2>4. DropFrom(m, "decls") = Update(m, s.imports, s.decls, s.stmts, NoChange)
    BY <1>4, <2>1 DEF DropFrom
  <2>5. back = restored
    BY <2>1, <2>3, <2>4 DEF Update
  <2> QED
    BY <1>3, <2>5
<1>7. CASE AddsStmt(s, in)
  <2> DEFINE m == MarkRejected(Add(s, in), in)
  <2>1. m = [imports |-> s.imports, decls |-> s.decls, stmts |-> Append(s.stmts, in),
             lastChange |-> Appended("stmts"), rejected |-> s.rejected \cup {in}]
    BY <1>7 DEF AddsStmt, MarkRejected, Update
  <2>2. m.lastChange.kind = "appended" /\ m.lastChange.slot = "stmts"
    BY <2>1 DEF Appended
  <2>3. back = DropFrom(m, "stmts")
    BY <2>2 DEF Rollback
  <2>4. DropFrom(m, "stmts") = Update(m, s.imports, s.decls, s.stmts, NoChange)
    BY <1>4, <2>1 DEF DropFrom
  <2>5. back = restored
    BY <2>1, <2>3, <2>4 DEF Update
  <2> QED
    BY <1>3, <2>5
<1>8. ASSUME NEW i \in Nat, Replaces(s, in, i)
      PROVE  back = restored
  <2>1. [[s.decls EXCEPT ![i] = in] EXCEPT ![i] = s.decls[i]] = s.decls
    BY <1>1, <1>8 DEF Replaces
  <2> QED
    BY <1>8, <2>1 DEF Replaces, Rollback, MarkRejected, Update, Replaced
<1> QED
  BY <1>3, <1>5, <1>6, <1>7, <1>8, AddCases, Zenon

\* Whether a session compiles is a matter of its source alone.
LEMMA CompilesBySource ==
  ASSUME NEW s, NEW t, Source(s) = Source(t)
  PROVE  Compiles(s) <=> Compiles(t)
<1>1. s.imports = t.imports /\ s.decls = t.decls /\ s.stmts = t.stmts
  BY DEF Source
<1>2. Sound(s) <=> Sound(t)
  BY <1>1, Zenon DEF Sound
<1>3. DeclaredOnce(s) <=> DeclaredOnce(t)
  <2>1. {s.decls, s.stmts} = {t.decls, t.stmts}
    BY <1>1
  <2>2. /\ NamesOf(s.decls) = NamesOf(t.decls) /\ NamesOf(s.stmts) = NamesOf(t.stmts)
        /\ NamesOf(s.imports) = NamesOf(t.imports)
    BY <1>1
  <2> QED
    BY <2>1, <2>2, Zenon DEF DeclaredOnce
<1>4. Resolves(s) <=> Resolves(t)
  BY <1>1, Zenon DEF Resolves
<1> QED
  BY <1>2, <1>3, <1>4 DEF Compiles

\* What a turn prints is a statement of the session.
LEMMA PrintedType ==
  ASSUME NEW s \in Session
  PROVE  Printed(s) \in Input \cup {NoInput}
<1>1. s.stmts \in Seq(Input) /\ Len(s.stmts) \in Nat
  BY DEF Session
<1>2. CASE Exprs(s) # {}
  <2>1. Exprs(s) \in SUBSET (1..Len(s.stmts))
    BY <1>1 DEF Exprs
  <2>2. \E i \in Exprs(s) : \A j \in Exprs(s) : j =< i
    BY <1>1, <1>2, <2>1, HasMaximum
  <2> DEFINE last == CHOOSE i \in Exprs(s) : \A j \in Exprs(s) : j =< i
  <2>3. last \in Exprs(s)
    BY <2>2
  <2>4. s.stmts[last] \in Input
    BY <1>1, <2>1, <2>3
  <2>5. Printed(s) \in {NoInput, s.stmts[last]}
    BY <1>2, Zenon DEF Printed
  <2> QED
    BY <2>4, <2>5
<1> QED
  BY <1>2 DEF Printed

-----------------------------------------------------------------------------
(* The invariants.                                                         *)

\* A reset of main leaves a well-formed session with no body.
LEMMA ResetTypes ==
  /\ EmptySession \in Session
  /\ \A s \in Session :
       [imports |-> s.imports, decls |-> s.decls, stmts |-> <<>>,
        lastChange |-> s.lastChange, rejected |-> {}] \in Session
  BY DEF EmptySession, Session, NoChange, Change

\* Every variable has its type: the undo record always points into the slot it
\* names, and what is stored are inputs.
THEOREM TypeCorrect == Spec => []TypeOK
<1>1. Init => TypeOK
  BY ResetTypes DEF Init, TypeOK
<1>2. TypeOK /\ [Next]_vars => TypeOK'
  <2> SUFFICES ASSUME TypeOK, [Next]_vars PROVE TypeOK'
    OBVIOUS
  <2> USE DEF TypeOK
  <2>1. ASSUME NEW in \in Input, Refuse(in) PROVE TypeOK'
    BY <2>1 DEF Refuse
  <2>2. ASSUME NEW in \in Input, Store(in) PROVE TypeOK'
    BY <2>2, AddType DEF Store
  <2>3. ASSUME NEW in \in Input, Run(in) PROVE TypeOK'
    <3>1. Add(sess, in) \in Session
      BY AddType
    <3>2. Printed(Add(sess, in)) \in Input \cup {NoInput}
      BY <3>1, PrintedType
    <3> QED
      BY <2>3, <3>1, <3>2 DEF Run
  <2>4. ASSUME NEW in \in Input, Fail(in) PROVE TypeOK'
    BY <2>4, RollbackUndoesAdd DEF Fail
  <2>5. CASE BeginMultiLine \/ CtrlC
    BY <2>5 DEF BeginMultiLine, CtrlC
  <2>6. CASE ResetAll
    BY <2>6, ResetTypes DEF ResetAll, Meta
  <2>7. CASE ResetMain
    BY <2>7, ResetTypes DEF ResetMain, Meta
  <2>8. CASE OneShot
    BY <2>8 DEF OneShot, Meta
  <2>9. CASE Quit \/ Closed \/ UNCHANGED vars
    BY <2>9 DEF Quit, Closed, vars
  <2> QED
    BY <2>1, <2>2, <2>3, <2>4, <2>5, <2>6, <2>7, <2>8, <2>9 DEF Next
<1> QED
  BY <1>1, <1>2, PTL DEF Spec

\* Once a session has a body it compiles as it stands, whatever was refused,
\* failed, redefined or reset before: a turn either leaves a source that was
\* just compiled, or the very source it found, or no body at all.
THEOREM BodyAlwaysCompiles == Spec => []BodyCompiles
<1>1. Init => BodyCompiles
  BY DEF Init, BodyCompiles, EmptySession
<1>2. TypeOK /\ BodyCompiles /\ [Next]_vars => BodyCompiles'
  <2> SUFFICES ASSUME TypeOK, BodyCompiles, [Next]_vars PROVE BodyCompiles'
    OBVIOUS
  <2>1. ASSUME sess' = sess PROVE BodyCompiles'
    BY <2>1 DEF BodyCompiles, Compiles, Sound, DeclaredOnce, Resolves
  <2>2. ASSUME sess'.stmts = <<>> PROVE BodyCompiles'
    BY <2>2 DEF BodyCompiles
  <2>3. ASSUME NEW in \in Input, Store(in) PROVE BodyCompiles'
    BY <2>2, <2>3 DEF Store
  <2>4. ASSUME NEW in \in Input, Run(in) PROVE BodyCompiles'
    <3>1. Compiles(Add(sess, in)) /\ sess' = Add(sess, in)
      BY <2>4 DEF Run
    <3>2. Source(sess') = Source(Add(sess, in))
      BY <3>1
    <3>3. Compiles(sess')
      BY <3>1, <3>2, CompilesBySource
    <3>4. Compiles(sess') <=> Compiles(sess)'
      BY DEF Compiles, Sound, DeclaredOnce, Resolves
    <3> QED
      BY <3>3, <3>4 DEF BodyCompiles
  <2>5. ASSUME NEW in \in Input, Fail(in) PROVE BodyCompiles'
    <3>1. Source(sess') = Source(sess)
      BY <2>5, RollbackUndoesAdd DEF Fail, TypeOK
    <3>2. sess'.stmts = sess.stmts
      BY <3>1 DEF Source
    <3>3. Compiles(sess') <=> Compiles(sess)
      BY <3>1, CompilesBySource
    <3> QED
      BY <3>2, <3>3 DEF BodyCompiles
  <2>6. CASE ResetAll
    BY <2>2, <2>6 DEF ResetAll, Meta, EmptySession
  <2>7. CASE ResetMain
    BY <2>2, <2>7 DEF ResetMain, Meta
  <2>8. ASSUME NEW in \in Input, Refuse(in) PROVE BodyCompiles'
    BY <2>1, <2>8 DEF Refuse
  <2>9. CASE BeginMultiLine \/ CtrlC \/ OneShot \/ Quit \/ Closed \/ UNCHANGED vars
    BY <2>1, <2>9 DEF BeginMultiLine, CtrlC, OneShot, Meta, Quit, Closed, vars
  <2> QED
    BY <2>3, <2>4, <2>5, <2>6, <2>7, <2>8, <2>9 DEF Next
<1> QED
  BY <1>1, <1>2, TypeCorrect, PTL DEF Spec

\* A failed turn leaves the source exactly as it was, whichever slot the input
\* went to and whether or not it replaced a declaration.
THEOREM FailedTurnsRestore == Spec => FailedTurnRestores
<1>1. TypeOK /\ [Next]_vars =>
        [\A in \in Input : Fail(in) => Source(sess') = Source(sess)]_vars
  BY RollbackUndoesAdd DEF Fail, TypeOK
<1> QED
  BY <1>1, TypeCorrect, PTL DEF Spec, FailedTurnRestores

\* No two declarations of s share a head and a name.
Distinct(s) ==
  \A i, j \in DOMAIN s.decls :
    /\ s.decls[i].head = s.decls[j].head
    /\ s.decls[i].name = s.decls[j].name
    /\ s.decls[i].name # NoName
    => i = j

\* An appended declaration is one no stored declaration shares its head and
\* name with; an overwriting one takes the place of its own.
LEMMA AddKeepsDistinct ==
  ASSUME NEW s \in Session, NEW in \in Input, Distinct(s)
  PROVE  Distinct(Add(s, in))
<1>1. s.decls \in Seq(Input) /\ Len(s.decls) \in Nat
  BY DEF Session
<1>2. CASE AddsDecl(s, in)
  <2> DEFINE q == Append(s.decls, in)
  <2>1. Add(s, in).decls = q
    BY <1>2 DEF AddsDecl, Update
  <2>2. /\ DOMAIN q = 1..(Len(s.decls) + 1)
        /\ q[Len(s.decls) + 1] = in
        /\ \A i \in DOMAIN s.decls : q[i] = s.decls[i]
        /\ DOMAIN s.decls = 1..Len(s.decls)
    BY <1>1
  <2>3. \A i \in DOMAIN s.decls :
          ~(in.name # NoName /\ s.decls[i].head = in.head /\ s.decls[i].name = in.name)
    BY <1>2 DEF AddsDecl, SameDecl
  <2>4. ASSUME NEW i \in DOMAIN q, NEW j \in DOMAIN q,
               q[i].head = q[j].head, q[i].name = q[j].name, q[i].name # NoName
        PROVE  i = j
    <3>1. CASE i \in DOMAIN s.decls /\ j \in DOMAIN s.decls
      BY <2>2, <2>4, <3>1 DEF Distinct
    <3>2. CASE i \in DOMAIN s.decls /\ j = Len(s.decls) + 1
      BY <2>2, <2>3, <2>4, <3>2
    <3>3. CASE j \in DOMAIN s.decls /\ i = Len(s.decls) + 1
      BY <2>2, <2>3, <2>4, <3>3
    <3> QED
      BY <1>1, <2>2, <3>1, <3>2, <3>3
  <2> QED
    BY <2>1, <2>4 DEF Distinct
<1>3. ASSUME NEW k \in Nat, Replaces(s, in, k) PROVE Distinct(Add(s, in))
  <2> DEFINE q == [s.decls EXCEPT ![k] = in]
  <2>1. Add(s, in).decls = q
    BY <1>3 DEF Replaces, Update
  <2>2. k \in DOMAIN s.decls /\ s.decls[k].head = in.head /\ s.decls[k].name = in.name
    BY <1>3 DEF Replaces, SameDecl
  <2>3. DOMAIN q = DOMAIN s.decls
    OBVIOUS
  <2>4. \A i \in DOMAIN q : q[i].head = s.decls[i].head /\ q[i].name = s.decls[i].name
    BY <1>1, <2>2
  <2> QED
    BY <2>1, <2>3, <2>4 DEF Distinct
<1>4. ASSUME Add(s, in).decls = s.decls PROVE Distinct(Add(s, in))
  BY <1>4 DEF Distinct
<1>5. CASE AddsImport(s, in) \/ AddsStmt(s, in)
  BY <1>4, <1>5 DEF AddsImport, AddsStmt, Update
<1> QED
  BY <1>2, <1>3, <1>5, AddCases

\* Last definition wins: no declaration is ever stored twice under one head
\* and name, failed redefinitions that were rolled back included.
THEOREM LastDeclAlwaysWins == Spec => []LastDeclWins
<1>1. Init => LastDeclWins
  BY DEF Init, LastDeclWins, EmptySession
<1>2. TypeOK /\ LastDeclWins /\ [Next]_vars => LastDeclWins'
  <2> SUFFICES ASSUME TypeOK, LastDeclWins, [Next]_vars PROVE Distinct(sess')
    BY DEF LastDeclWins, Distinct
  <2>0. Distinct(sess) /\ sess \in Session
    BY DEF LastDeclWins, Distinct, TypeOK
  <2>1. ASSUME sess'.decls = sess.decls PROVE Distinct(sess')
    BY <2>0, <2>1 DEF Distinct
  <2>2. ASSUME NEW in \in Input, Store(in) \/ Run(in) PROVE Distinct(sess')
    BY <2>0, <2>2, AddKeepsDistinct DEF Store, Run
  <2>3. ASSUME NEW in \in Input, Fail(in) PROVE Distinct(sess')
    <3>1. Source(sess') = Source(sess)
      BY <2>0, <2>3, RollbackUndoesAdd DEF Fail
    <3> QED
      BY <2>1, <3>1 DEF Source
  <2>4. CASE ResetAll
    BY <2>4 DEF ResetAll, Meta, EmptySession, Distinct
  <2>5. CASE ResetMain
    BY <2>1, <2>5 DEF ResetMain, Meta
  <2>6. ASSUME NEW in \in Input, Refuse(in) PROVE Distinct(sess')
    BY <2>1, <2>6 DEF Refuse
  <2>7. CASE BeginMultiLine \/ CtrlC \/ OneShot \/ Quit \/ Closed \/ UNCHANGED vars
    BY <2>1, <2>7 DEF BeginMultiLine, CtrlC, OneShot, Meta, Quit, Closed, vars
  <2> QED
    BY <2>2, <2>3, <2>4, <2>5, <2>6, <2>7 DEF Next
<1> QED
  BY <1>1, <1>2, TypeCorrect, PTL DEF Spec

\* At any time the session compiles and declares nothing twice.
THEOREM SessionAlwaysSound == Spec => []SessionIsSound
<1>1. BodyCompiles /\ LastDeclWins => SessionIsSound
  BY DEF SessionIsSound
<1> QED
  BY <1>1, BodyAlwaysCompiles, LastDeclAlwaysWins, PTL

\* What NothingLost asks of two sessions.
Keeps(s, t) ==
  /\ IsPrefix(s.imports, t.imports)
  /\ IsPrefix(s.stmts, t.stmts)
  /\ \A i \in DOMAIN s.decls :
       /\ i \in DOMAIN t.decls
       /\ t.decls[i].head = s.decls[i].head
       /\ \/ t.decls[i] = s.decls[i]
          \/ /\ s.decls[i].name # NoName
             /\ t.decls[i].name = s.decls[i].name

LEMMA PrefixOfAppend ==
  ASSUME NEW q \in Seq(Input), NEW in \in Input
  PROVE  IsPrefix(q, q) /\ IsPrefix(q, Append(q, in))
<1>1. Len(q) \in Nat /\ Len(Append(q, in)) = Len(q) + 1
  OBVIOUS
<1>2. SubSeq(q, 1, Len(q)) = q /\ SubSeq(Append(q, in), 1, Len(q)) = q
  OBVIOUS
<1> QED
  BY <1>1, <1>2 DEF IsPrefix

LEMMA KeepsSource ==
  ASSUME NEW s \in Session, NEW t, Source(t) = Source(s)
  PROVE  Keeps(s, t)
<1>1. t.imports = s.imports /\ t.decls = s.decls /\ t.stmts = s.stmts
  BY DEF Source
<1>2. IsPrefix(s.imports, s.imports) /\ IsPrefix(s.stmts, s.stmts)
  BY DEF Session, IsPrefix
<1> QED
  BY <1>1, <1>2 DEF Keeps

\* add appends to one slot, or replaces a declaration by one of its own head and
\* name.
LEMMA AddKeeps ==
  ASSUME NEW s \in Session, NEW in \in Input
  PROVE  Keeps(s, Add(s, in))
<1>1. s.imports \in Seq(Input) /\ s.decls \in Seq(Input) /\ s.stmts \in Seq(Input)
  BY SlotTypes
<1>2. /\ IsPrefix(s.imports, s.imports) /\ IsPrefix(s.imports, Append(s.imports, in))
      /\ IsPrefix(s.stmts, s.stmts) /\ IsPrefix(s.stmts, Append(s.stmts, in))
  BY <1>1, PrefixOfAppend
<1>3. CASE AddsImport(s, in) \/ AddsStmt(s, in)
  <2>1. /\ Add(s, in).decls = s.decls
        /\ Add(s, in).imports \in {s.imports, Append(s.imports, in)}
        /\ Add(s, in).stmts \in {s.stmts, Append(s.stmts, in)}
    BY <1>3 DEF AddsImport, AddsStmt, Update
  <2> QED
    BY <1>2, <2>1 DEF Keeps
<1>4. CASE AddsDecl(s, in)
  <2>1. /\ Add(s, in).imports = s.imports /\ Add(s, in).stmts = s.stmts
        /\ Add(s, in).decls = Append(s.decls, in)
    BY <1>4 DEF AddsDecl, Update
  <2>2. \A i \in DOMAIN s.decls : /\ i \in DOMAIN Append(s.decls, in)
                                 /\ Append(s.decls, in)[i] = s.decls[i]
    BY <1>1
  <2> QED
    BY <1>2, <2>1, <2>2 DEF Keeps
<1>5. ASSUME NEW k \in Nat, Replaces(s, in, k) PROVE Keeps(s, Add(s, in))
  <2>1. /\ Add(s, in).imports = s.imports /\ Add(s, in).stmts = s.stmts
        /\ Add(s, in).decls = [s.decls EXCEPT ![k] = in]
    BY <1>5 DEF Replaces, Update
  <2>2. /\ k \in DOMAIN s.decls /\ s.decls[k].head = in.head
        /\ s.decls[k].name = in.name /\ in.name # NoName
    BY <1>5 DEF Replaces, SameDecl
  <2> QED
    BY <1>2, <2>1, <2>2 DEF Keeps
<1> QED
  BY <1>3, <1>4, <1>5, AddCases

\* Nothing the session accepted is lost except by a reset or a redefinition.
THEOREM NothingEverLost == Spec => NothingLost
<1>1. TypeOK /\ [Next]_vars => [ResetAll \/ ResetMain \/ Keeps(sess, sess')]_vars
  <2> SUFFICES ASSUME TypeOK, Next PROVE ResetAll \/ ResetMain \/ Keeps(sess, sess')
    OBVIOUS
  <2>1. sess \in Session
    BY DEF TypeOK
  <2>2. ASSUME NEW in \in Input, Store(in) \/ Run(in) PROVE Keeps(sess, sess')
    BY <2>1, <2>2, AddKeeps DEF Store, Run
  <2>3. ASSUME NEW in \in Input, Fail(in) PROVE Keeps(sess, sess')
    BY <2>1, <2>3, RollbackUndoesAdd, KeepsSource DEF Fail
  <2>4. ASSUME sess' = sess PROVE Keeps(sess, sess')
    BY <2>1, <2>4, KeepsSource
  <2>5. ASSUME NEW in \in Input, Refuse(in) PROVE Keeps(sess, sess')
    BY <2>4, <2>5 DEF Refuse
  <2>6. CASE BeginMultiLine \/ CtrlC \/ OneShot \/ Quit \/ Closed
    BY <2>4, <2>6 DEF BeginMultiLine, CtrlC, OneShot, Meta, Quit, Closed, vars
  <2> QED
    BY <2>2, <2>3, <2>5, <2>6 DEF Next
<1> QED
  BY <1>1, TypeCorrect, PTL DEF Spec, NothingLost, Keeps

-----------------------------------------------------------------------------
(* What comes next.                                                        *)

\* A sequence of inputs names what it named before and what the new one names.
LEMMA NamesOfAppend ==
  ASSUME NEW q \in Seq(Input), NEW in \in Input
  PROVE  NamesOf(Append(q, in)) = NamesOf(q) \cup ({in.name} \ {NoName})
<1>1. PICK n \in Nat : n = Len(q) /\ DOMAIN q = 1..n
  OBVIOUS
<1>2. PICK t : t = Append(q, in)
  OBVIOUS
<1>3. DOMAIN t = 1..(n + 1) /\ t[n + 1] = in /\ \A i \in 1..n : t[i] = q[i]
  BY <1>1, <1>2
<1>4. ASSUME NEW x PROVE x \in NamesOf(t) <=> x \in NamesOf(q) \cup ({in.name} \ {NoName})
  <2>1. x \in NamesOf(t) <=> x # NoName /\ \E i \in 1..(n + 1) : x = t[i].name
    BY <1>3 DEF NamesOf
  <2>2. x \in NamesOf(q) <=> x # NoName /\ \E i \in 1..n : x = q[i].name
    BY <1>1 DEF NamesOf
  <2>3. (\E i \in 1..(n + 1) : x = t[i].name) <=> x = in.name \/ \E i \in 1..n : x = q[i].name
    <3>1. ASSUME NEW i \in 1..(n + 1), x = t[i].name
          PROVE  x = in.name \/ \E k \in 1..n : x = q[k].name
      <4>1. i = n + 1 \/ i \in 1..n
        OBVIOUS
      <4> QED
        BY <4>1, <3>1, <1>3
    <3>2. n + 1 \in 1..(n + 1) /\ \A i \in 1..n : i \in 1..(n + 1)
      OBVIOUS
    <3> QED
      BY <3>1, <3>2, <1>3
  <2> QED
    BY <2>1, <2>2, <2>3
<1> QED
  BY <1>2, <1>4

\* The parts of a session that compiles, slot by slot.
Whole(q) == \A i \in DOMAIN q : ~q[i].broken
Once(q)  == \A i, j \in DOMAIN q : i # j /\ q[i].name # NoName => q[i].name # q[j].name
FileOf(imports, decls) == AutoImports \cup NamesOf(imports) \cup NamesOf(decls)

\* Compiles, with what it asks of the parts of the session kept apart.
LEMMA CompilesBySlots ==
  ASSUME NEW s
  PROVE  Compiles(s) <=>
           /\ Whole(s.imports) /\ Whole(s.decls) /\ Whole(s.stmts)
           /\ Once(s.decls) /\ Once(s.stmts)
           /\ (NamesOf(s.decls) \cup NamesOf(s.stmts)) \cap NamesOf(s.imports) = {}
           /\ \A i \in DOMAIN s.decls : s.decls[i].uses \subseteq FileOf(s.imports, s.decls)
           /\ \A i \in DOMAIN s.stmts :
                s.stmts[i].uses \subseteq FileOf(s.imports, s.decls)
                                            \cup NamesOf(SubSeq(s.stmts, 1, i - 1))
<1>1. Sound(s) <=> Whole(s.imports) /\ Whole(s.decls) /\ Whole(s.stmts)
  BY Zenon DEF Sound, Whole
<1>2. DeclaredOnce(s) <=>
        /\ Once(s.decls) /\ Once(s.stmts)
        /\ (NamesOf(s.decls) \cup NamesOf(s.stmts)) \cap NamesOf(s.imports) = {}
  BY Zenon DEF DeclaredOnce, Once
<1>3. Resolves(s) <=>
        /\ \A i \in DOMAIN s.decls : s.decls[i].uses \subseteq FileOf(s.imports, s.decls)
        /\ \A i \in DOMAIN s.stmts :
             s.stmts[i].uses \subseteq FileOf(s.imports, s.decls)
                                         \cup NamesOf(SubSeq(s.stmts, 1, i - 1))
  BY Zenon DEF Resolves, FileOf
<1> QED
  BY <1>1, <1>2, <1>3 DEF Compiles

\* One more form, whole and of a name no other has.
LEMMA OneMoreForm ==
  ASSUME NEW q \in Seq(Input), NEW in \in Input, Whole(q), Once(q), ~in.broken,
         in.name \notin NamesOf(q)
  PROVE  Whole(Append(q, in)) /\ Once(Append(q, in))
<1>1. PICK n \in Nat : n = Len(q) /\ DOMAIN q = 1..n
  OBVIOUS
<1>2. PICK t : t = Append(q, in)
  OBVIOUS
<1>3. DOMAIN t = 1..(n + 1) /\ t[n + 1] = in /\ \A i \in 1..n : t[i] = q[i]
  BY <1>1, <1>2
<1>4. \A i \in 1..n : q[i].name = NoName \/ q[i].name # in.name
  BY <1>1 DEF NamesOf
<1>5. \A i \in 1..(n + 1) : i = n + 1 \/ i \in 1..n
  OBVIOUS
<1>6. Whole(t)
  BY <1>1, <1>3, <1>5 DEF Whole
<1>7. Once(t)
  <2> SUFFICES ASSUME NEW i \in 1..(n + 1), NEW j \in 1..(n + 1), i # j,
                      t[i].name # NoName, t[i].name = t[j].name
               PROVE  FALSE
    BY <1>3 DEF Once
  <2>1. CASE i \in 1..n /\ j \in 1..n
    BY <2>1, <1>1, <1>3 DEF Once
  <2>2. CASE i = n + 1 /\ j \in 1..n
    BY <2>2, <1>3, <1>4
  <2>3. CASE i \in 1..n /\ j = n + 1
    BY <2>3, <1>3, <1>4
  <2> QED
    BY <1>5, <2>1, <2>2, <2>3
<1> QED
  BY <1>2, <1>6, <1>7

\* An input that stands on its own compiles on top of any body that does: it is
\* whole, its name is nobody's, and it refers to nothing, while what refers to
\* names finds those it has found before.
LEMMA SelfContainedCompiles ==
  ASSUME NEW s \in Session, NEW in \in Input, Compiles(s), ~in.broken, in.uses = {},
         in.name \notin NamesOf(s.imports) \cup NamesOf(s.decls) \cup NamesOf(s.stmts)
  PROVE  Compiles(Add(s, in))
<1>1. s.imports \in Seq(Input) /\ s.decls \in Seq(Input) /\ s.stmts \in Seq(Input)
  BY SlotTypes
<1>2. /\ Whole(s.imports) /\ Whole(s.decls) /\ Whole(s.stmts)
      /\ Once(s.decls) /\ Once(s.stmts)
      /\ (NamesOf(s.decls) \cup NamesOf(s.stmts)) \cap NamesOf(s.imports) = {}
      /\ \A i \in DOMAIN s.decls : s.decls[i].uses \subseteq FileOf(s.imports, s.decls)
      /\ \A i \in DOMAIN s.stmts :
           s.stmts[i].uses \subseteq FileOf(s.imports, s.decls)
                                       \cup NamesOf(SubSeq(s.stmts, 1, i - 1))
  BY CompilesBySlots
<1>3. /\ NamesOf(Append(s.imports, in)) = NamesOf(s.imports) \cup ({in.name} \ {NoName})
      /\ NamesOf(Append(s.decls, in)) = NamesOf(s.decls) \cup ({in.name} \ {NoName})
      /\ NamesOf(Append(s.stmts, in)) = NamesOf(s.stmts) \cup ({in.name} \ {NoName})
  BY <1>1, NamesOfAppend
<1>4. CASE AddsImport(s, in)
  <2>1. /\ Add(s, in).imports = Append(s.imports, in)
        /\ Add(s, in).decls = s.decls /\ Add(s, in).stmts = s.stmts
    BY <1>4 DEF AddsImport, Update
  <2>2. Whole(Append(s.imports, in))
    <3>1. \A i \in DOMAIN Append(s.imports, in) :
            Append(s.imports, in)[i] = in \/ (i \in DOMAIN s.imports /\ Append(s.imports, in)[i] = s.imports[i])
      BY <1>1
    <3> QED
      BY <3>1, <1>2 DEF Whole
  <2>3. (NamesOf(s.decls) \cup NamesOf(s.stmts)) \cap NamesOf(Append(s.imports, in)) = {}
    BY <1>2, <1>3
  <2>4. FileOf(s.imports, s.decls) \subseteq FileOf(Append(s.imports, in), s.decls)
    BY <1>3 DEF FileOf
  <2>5. /\ \A i \in DOMAIN s.decls : s.decls[i].uses \subseteq FileOf(Append(s.imports, in), s.decls)
        /\ \A i \in DOMAIN s.stmts :
             s.stmts[i].uses \subseteq FileOf(Append(s.imports, in), s.decls)
                                         \cup NamesOf(SubSeq(s.stmts, 1, i - 1))
    BY <1>2, <2>4
  <2> QED
    BY <1>2, <2>1, <2>2, <2>3, <2>5, CompilesBySlots
<1>5. CASE AddsDecl(s, in)
  <2>1. /\ Add(s, in).decls = Append(s.decls, in)
        /\ Add(s, in).imports = s.imports /\ Add(s, in).stmts = s.stmts
    BY <1>5 DEF AddsDecl, Update
  <2>2. Whole(Append(s.decls, in)) /\ Once(Append(s.decls, in))
    BY <1>1, <1>2, OneMoreForm
  <2>3. (NamesOf(Append(s.decls, in)) \cup NamesOf(s.stmts)) \cap NamesOf(s.imports) = {}
    BY <1>2, <1>3
  <2>4. FileOf(s.imports, s.decls) \subseteq FileOf(s.imports, Append(s.decls, in))
    BY <1>3 DEF FileOf
  <2>5. \A i \in DOMAIN Append(s.decls, in) :
          Append(s.decls, in)[i].uses \subseteq FileOf(s.imports, Append(s.decls, in))
    <3>1. \A i \in DOMAIN Append(s.decls, in) :
            Append(s.decls, in)[i] = in \/ (i \in DOMAIN s.decls /\ Append(s.decls, in)[i] = s.decls[i])
      BY <1>1
    <3> QED
      BY <3>1, <1>2, <2>4
  <2>6. \A i \in DOMAIN s.stmts :
          s.stmts[i].uses \subseteq FileOf(s.imports, Append(s.decls, in))
                                      \cup NamesOf(SubSeq(s.stmts, 1, i - 1))
    BY <1>2, <2>4
  <2> QED
    BY <1>2, <2>1, <2>2, <2>3, <2>5, <2>6, CompilesBySlots
<1>6. CASE AddsStmt(s, in)
  <2>1. /\ Add(s, in).stmts = Append(s.stmts, in)
        /\ Add(s, in).imports = s.imports /\ Add(s, in).decls = s.decls
    BY <1>6 DEF AddsStmt, Update
  <2>2. Whole(Append(s.stmts, in)) /\ Once(Append(s.stmts, in))
    BY <1>1, <1>2, OneMoreForm
  <2>3. (NamesOf(s.decls) \cup NamesOf(Append(s.stmts, in))) \cap NamesOf(s.imports) = {}
    BY <1>2, <1>3
  <2>4. ASSUME NEW i \in DOMAIN Append(s.stmts, in)
        PROVE  Append(s.stmts, in)[i].uses \subseteq FileOf(s.imports, s.decls)
                 \cup NamesOf(SubSeq(Append(s.stmts, in), 1, i - 1))
    <3>1. \/ Append(s.stmts, in)[i] = in
          \/ i \in DOMAIN s.stmts /\ Append(s.stmts, in)[i] = s.stmts[i]
      BY <1>1
    <3>2. CASE Append(s.stmts, in)[i] = in
      BY <3>2
    <3>3. CASE i \in DOMAIN s.stmts /\ Append(s.stmts, in)[i] = s.stmts[i]
      <4>1. SubSeq(Append(s.stmts, in), 1, i - 1) = SubSeq(s.stmts, 1, i - 1)
        BY <1>1, <3>3
      <4> QED
        BY <1>2, <3>3, <4>1
    <3> QED
      BY <3>1, <3>2, <3>3
  <2> QED
    BY <1>2, <2>1, <2>2, <2>3, <2>4, CompilesBySlots
<1>7. ASSUME NEW i \in Nat PROVE ~Replaces(s, in, i)
  <2>1. \A k \in DOMAIN s.decls : s.decls[k].name = NoName \/ s.decls[k].name # in.name
    BY DEF NamesOf
  <2> QED
    BY <2>1 DEF Replaces, SameDecl
<1> QED
  BY <1>4, <1>5, <1>6, <1>7, AddCases

\* A session that does not compile without a body does not with one: a statement
\* adds no name at file level.
LEMMA StmtMendsNothing ==
  ASSUME NEW s \in Session, NEW in \in Input, s.stmts = <<>>, ~Compiles(s), AddsStmt(s, in)
  PROVE  ~Compiles(Add(s, in))
<1> DEFINE t == Add(s, in)
<1>1. t.imports = s.imports /\ t.decls = s.decls
  BY DEF AddsStmt, Update
<1>2. NamesOf(s.stmts) = {} /\ Whole(s.stmts) /\ Once(s.stmts) /\ DOMAIN s.stmts = {}
  BY DEF NamesOf, Whole, Once
<1> HIDE DEF t
<1>3. ASSUME Compiles(t) PROVE Compiles(s)
  <2>1. /\ Whole(s.imports) /\ Whole(s.decls) /\ Once(s.decls)
        /\ (NamesOf(s.decls) \cup NamesOf(t.stmts)) \cap NamesOf(s.imports) = {}
        /\ \A i \in DOMAIN s.decls : s.decls[i].uses \subseteq FileOf(s.imports, s.decls)
    BY <1>1, <1>3, CompilesBySlots
  <2>2. (NamesOf(s.decls) \cup NamesOf(s.stmts)) \cap NamesOf(s.imports) = {}
    BY <1>2, <2>1
  <2> QED
    BY <1>2, <2>1, <2>2, CompilesBySlots
<1> QED
  BY <1>3 DEF t

\* An input that stands on its own compiles if the session does, and no earlier
\* failure, redefinition or reset leaves anything behind that it could trip over;
\* on a session that does not compile no statement does.
THEOREM AlwaysStaysUsable == Spec => []StaysUsable
<1>1. TypeOK /\ BodyCompiles => StaysUsable
  <2> SUFFICES ASSUME TypeOK, BodyCompiles, NEW in \in Input
               PROVE  /\ SelfContained(in) /\ (sess.stmts # <<>> \/ Compiles(sess))
                           => Compiles(Add(sess, in))
                      /\ ~Compiles(sess) /\ in.head \notin {"import"} \cup DeclHeads
                           => ~Compiles(Add(sess, in))
    BY DEF StaysUsable
  <2>1. sess \in Session /\ (sess.stmts # <<>> => Compiles(sess))
    BY DEF TypeOK, BodyCompiles
  <2>2. ASSUME SelfContained(in), Compiles(sess) PROVE Compiles(Add(sess, in))
    <3>1. /\ ~in.broken /\ in.uses = {}
          /\ in.name \notin NamesOf(sess.imports) \cup NamesOf(sess.decls) \cup NamesOf(sess.stmts)
      BY <2>2 DEF SelfContained
    <3> QED
      BY <2>1, <2>2, <3>1, SelfContainedCompiles
  <2>3. ASSUME ~Compiles(sess), in.head \notin {"import"} \cup DeclHeads
        PROVE  ~Compiles(Add(sess, in))
    <3>1. AddsStmt(sess, in)
      BY <2>3 DEF Add, AddsStmt
    <3> QED
      BY <2>1, <2>3, <3>1, StmtMendsNothing
  <2> QED
    BY <2>1, <2>2, <2>3
<1> QED
  BY <1>1, TypeCorrect, BodyAlwaysCompiles, PTL

\* Only what is kept without a build takes a session from one that compiles to one
\* that does not: a turn that ran has compiled, a turn that failed has put back
\* what was there, and a reset drops whole slots.
THEOREM AlwaysStaysSound == Spec => StaysSound
<1>1. ASSUME NEW in \in Input, TypeOK, Store(in), Compiles(sess), SelfContained(in)
      PROVE  Compiles(Add(sess, in))
  <2>1. /\ ~in.broken /\ in.uses = {}
        /\ in.name \notin NamesOf(sess.imports) \cup NamesOf(sess.decls) \cup NamesOf(sess.stmts)
    BY <1>1 DEF SelfContained
  <2> QED
    BY <1>1, <2>1, SelfContainedCompiles DEF TypeOK
<1>2. ASSUME NEW s, NEW t, Compiles(s), t.imports = s.imports, t.decls = s.decls, t.stmts = <<>>
      PROVE  Compiles(t)
  <2>1. NamesOf(t.stmts) = {} /\ Whole(t.stmts) /\ Once(t.stmts) /\ DOMAIN t.stmts = {}
    BY <1>2 DEF NamesOf, Whole, Once
  <2>2. /\ Whole(s.imports) /\ Whole(s.decls) /\ Once(s.decls)
        /\ NamesOf(s.decls) \cap NamesOf(s.imports) = {}
        /\ \A i \in DOMAIN s.decls : s.decls[i].uses \subseteq FileOf(s.imports, s.decls)
    BY <1>2, CompilesBySlots
  <2> QED
    BY <1>2, <2>1, <2>2, CompilesBySlots
<1>3. Compiles(EmptySession)
  <2>1. /\ EmptySession.imports = <<>> /\ EmptySession.decls = <<>>
        /\ EmptySession.stmts = <<>>
    BY DEF EmptySession
  <2>2. NamesOf(<<>>) = {} /\ Whole(<<>>) /\ Once(<<>>) /\ DOMAIN <<>> = {}
    BY DEF NamesOf, Whole, Once
  <2> QED
    BY <2>1, <2>2, CompilesBySlots
<1>4. TypeOK /\ [Next]_vars =>
        [Compiles(sess) =>
           Compiles(sess') \/ \E in \in Input : Store(in) /\ ~SelfContained(in)]_vars
  <2> SUFFICES ASSUME TypeOK, Next, Compiles(sess),
                      \A in \in Input : Store(in) => SelfContained(in)
               PROVE  Compiles(sess')
    OBVIOUS
  <2>1. ASSUME NEW in \in Input, Store(in) \/ Run(in) PROVE Compiles(sess')
    <3>1. sess' = Add(sess, in) /\ Compiles(Add(sess, in))
      BY <1>1, <2>1 DEF Store, Run
    <3> QED
      BY <3>1
  <2>2. ASSUME NEW in \in Input, Fail(in) PROVE Compiles(sess')
    <3>1. Source(sess') = Source(sess)
      BY <2>2, RollbackUndoesAdd DEF Fail, TypeOK
    <3> QED
      BY <3>1, CompilesBySource
  <2>3. ASSUME sess' = sess PROVE Compiles(sess')
    BY <2>3
  <2>4. ASSUME NEW in \in Input, Refuse(in) PROVE Compiles(sess')
    BY <2>3, <2>4 DEF Refuse
  <2>5. CASE BeginMultiLine \/ CtrlC \/ OneShot \/ Quit \/ Closed
    BY <2>3, <2>5 DEF BeginMultiLine, CtrlC, OneShot, Meta, Quit, Closed, vars
  <2>6. CASE ResetAll
    <3>1. sess' = EmptySession
      BY <2>6 DEF ResetAll, Meta
    <3> QED
      BY <1>3, <3>1
  <2>7. CASE ResetMain
    <3>1. sess'.imports = sess.imports /\ sess'.decls = sess.decls /\ sess'.stmts = <<>>
      BY <2>7 DEF ResetMain, Meta
    <3> QED
      BY <1>2, <3>1
  <2> QED
    BY <2>1, <2>2, <2>4, <2>5, <2>6, <2>7 DEF Next
<1> QED
  BY <1>4, TypeCorrect, PTL DEF Spec, StaysSound

\* No turn changes more of the source than it says, failed ones nothing, and none
\* that was built breaks it.
THEOREM TurnsAlwaysKeepSource == Spec => TurnsKeepSource
  BY FailedTurnsRestore, NothingEverLost, AlwaysStaysSound DEF TurnsKeepSource

\* As long as nothing in the session ends the program, an expression that is
\* run prints itself and no older one.
THEOREM NewestExprAlwaysPrints == Spec => NewestExprPrints
<1>1. ASSUME NEW s \in Session, NEW in \in Input, in.head = "expr", ~in.panics,
             \A i \in DOMAIN s.stmts : ~s.stmts[i].panics
      PROVE  Printed(Add(s, in)) = in
  <2>1. Add(s, in).stmts = Append(s.stmts, in)
    <3>1. in.head \notin {"import"} \cup DeclHeads
      BY <1>1 DEF DeclHeads
    <3>2. AddsStmt(s, in)
      BY <3>1 DEF Add, AddsStmt
    <3> QED
      BY <3>2 DEF AddsStmt, Update
  <2>2. PICK t : t = Add(s, in)
    OBVIOUS
  <2>3. PICK n \in Nat : n = Len(s.stmts) /\ DOMAIN s.stmts = 1..n
    BY SlotTypes
  <2>4. /\ DOMAIN t.stmts = 1..(n + 1) /\ t.stmts[n + 1] = in
        /\ \A i \in 1..n : t.stmts[i] = s.stmts[i]
    BY <2>1, <2>2, <2>3, SlotTypes
  <2>5. \A i \in 1..(n + 1) : i = n + 1 \/ i \in 1..n
    OBVIOUS
  <2>6. \A i \in 1..(n + 1) : ~Panics(t, i)
    BY <1>1, <2>3, <2>4, <2>5 DEF Panics
  <2>7. Exprs(t) \subseteq 1..(n + 1) /\ n + 1 \in Exprs(t)
    BY <1>1, <2>4 DEF Exprs
  <2> DEFINE last == CHOOSE i \in Exprs(t) : \A j \in Exprs(t) : j <= i
  <2>8. last = n + 1
    <3>1. \A j \in Exprs(t) : j <= n + 1
      BY <2>7
    <3>2. ASSUME NEW i \in Exprs(t), \A j \in Exprs(t) : j <= i PROVE i = n + 1
      BY <2>7, <3>2
    <3> QED
      BY <2>7, <3>1, <3>2
  <2>9. Printed(t) = IF \E i \in 1..last : Panics(t, i) THEN NoInput ELSE t.stmts[last]
    BY <2>7 DEF Printed
  <2> HIDE DEF last
  <2> QED
    BY <2>2, <2>4, <2>6, <2>8, <2>9
<1>2. TypeOK /\ [Next]_vars =>
        [\A in \in Input :
           /\ in.head = "expr" /\ ~in.panics
           /\ \A i \in DOMAIN sess.stmts : ~sess.stmts[i].panics
           /\ Run(in)
           => printed' = in]_vars
  BY <1>1 DEF TypeOK, Run
<1> QED
  BY <1>2, TypeCorrect, PTL DEF Spec, NewestExprPrints
====
