---------------------------- MODULE ReplSession ----------------------------
(***************************************************************************)
(* The interactive prompt, cmd/tide/repl.go and repl_prompt.go: a session  *)
(* is source text that grows by one input per turn and is recompiled and   *)
(* rerun from the start on every turn.  add stores the input in one of     *)
(* three slots and remembers how to take it out again; when the turn fails *)
(* the input is rolled back and remembered as rejected.                    *)
(*                                                                         *)
(* An input is a record of what classification and compilation can see of  *)
(* it, not its text:                                                       *)
(*   head    the first word: a keyword, "assign" or "expr" for the two     *)
(*           shapes of the default case (a call statement counts as        *)
(*           "assign": it runs and is not printed)                         *)
(*   name    what it declares, binds or imports; NoName if nothing         *)
(*   uses    the names it refers to                                        *)
(*   broken  it fails to compile whatever surrounds it                     *)
(*   panics  evaluating it ends the program                                *)
(* Two different texts are two different inputs, so an input stands for    *)
(* its own text in the rejected set.                                       *)
(***************************************************************************)
EXTENDS Naturals, FiniteSets, SequencesExt

CONSTANTS
  Input,           \* the inputs the user may submit
  NoName, NoInput,
  MaxForms,        \* bound on the forms a session holds, for model checking
  ToolchainFails   \* a build or exec may fail for reasons outside the session

DeclHeads    == {"func", "class", "type", "interface"}
BindHeads    == {"let", "var"}
ControlHeads == {"if", "for", "while", "match", "return", "break", "continue"}
Heads == {"import", "assign", "expr"} \cup DeclHeads \cup BindHeads \cup ControlHeads

ASSUME InputAssumption ==
  /\ \A in \in Input : /\ in.head \in Heads
                       /\ in.broken \in BOOLEAN
                       /\ in.panics \in BOOLEAN
                       /\ in.head \notin {"import"} \cup DeclHeads \cup BindHeads
                            => in.name = NoName
  /\ NoInput \notin Input
ASSUME BoundsAssumption ==
  /\ MaxForms \in Nat
  /\ ToolchainFails \in BOOLEAN

VARIABLES
  sess,      \* the replSession
  pending,   \* the buffer holds an unbalanced, multi-line input
  printed,   \* the expression whose value the last turn printed
  over       \* the prompt has been left

vars == <<sess, pending, printed, over>>

-----------------------------------------------------------------------------
(* The session record and its operations.                                  *)

NoChange == [kind |-> "appended", slot |-> "none", index |-> 0, text |-> NoInput]

EmptySession ==
  [imports |-> <<>>, decls |-> <<>>, stmts |-> <<>>,
   lastChange |-> NoChange, rejected |-> {}]

\* What is compiled: the three slots, without the bookkeeping.
Source(s) == <<s.imports, s.decls, s.stmts>>

\* Mutant: the text that is overwritten is not kept.
ReplacedUnkept(s, i) ==
  [kind |-> "replaced", slot |-> "decls", index |-> i, text |-> NoInput]

\* What add remembers of an append, and of the overwriting of declaration i.
Appended(slot) == [kind |-> "appended", slot |-> slot, index |-> 0, text |-> NoInput]
Replaced(s, i) ==
  [kind |-> "replaced", slot |-> "decls", index |-> i, text |-> s.decls[i]]

\* Mutant: only the newest declaration is looked at.
SameDeclNewest(s, in) ==
  {i \in DOMAIN s.decls : /\ i = Len(s.decls)
                          /\ in.name # NoName
                          /\ s.decls[i].head = in.head
                          /\ s.decls[i].name = in.name}

\* Mutant: a class is taken for the type of the same name.
SameDeclAnyHead(s, in) ==
  {i \in DOMAIN s.decls : in.name # NoName /\ s.decls[i].name = in.name}

\* Where a declaration of the same head and name is stored.
SameDecl(s, in) ==
  {i \in DOMAIN s.decls : /\ in.name # NoName
                          /\ s.decls[i].head = in.head
                          /\ s.decls[i].name = in.name}

\* Inputs add turns away: a text that already failed, control flow, and a
\* user-written func main.
Refused(s, in) ==
  \/ in \in s.rejected
  \/ in.head \in ControlHeads
  \/ in.head = "func" /\ in.name = "main"

\* s with these slots and this undo record.
Update(s, imports, decls, stmts, change) ==
  [imports |-> imports, decls |-> decls, stmts |-> stmts,
   lastChange |-> change, rejected |-> s.rejected]

\* The slot add files the input in, by its first word.
Add(s, in) ==
  LET i == Min(SameDecl(s, in)) IN
  CASE in.head = "import" ->
         Update(s, Append(s.imports, in), s.decls, s.stmts, Appended("imports"))
    [] in.head \in DeclHeads /\ SameDecl(s, in) # {} ->
         Update(s, s.imports, [s.decls EXCEPT ![i] = in], s.stmts, Replaced(s, i))
    [] in.head \in DeclHeads /\ SameDecl(s, in) = {} ->
         Update(s, s.imports, Append(s.decls, in), s.stmts, Appended("decls"))
    [] OTHER ->
         Update(s, s.imports, s.decls, Append(s.stmts, in), Appended("stmts"))

DropLast(q) == IF q = <<>> THEN q ELSE Front(q)

\* Mutant: whatever was added, the last statement is dropped.
RollbackStmtsOnly(s) == Update(s, s.imports, s.decls, DropLast(s.stmts), NoChange)

\* What rollback drops from, or puts back into, the slot last written.
DropFrom(s, slot) ==
  Update(s, IF slot = "imports" THEN DropLast(s.imports) ELSE s.imports,
            IF slot = "decls" THEN DropLast(s.decls) ELSE s.decls,
            IF slot = "stmts" THEN DropLast(s.stmts) ELSE s.stmts,
         NoChange)

\* Mutant: a replaced declaration is truncated like an appended one.
RollbackTruncates(s) == DropFrom(s, s.lastChange.slot)

Rollback(s) ==
  LET c == s.lastChange IN
  IF c.kind = "replaced"
    THEN Update(s, s.imports, [s.decls EXCEPT ![c.index] = c.text], s.stmts, NoChange)
    ELSE DropFrom(s, c.slot)

MarkRejected(s, in) ==
  [imports |-> s.imports, decls |-> s.decls, stmts |-> s.stmts,
   lastChange |-> s.lastChange, rejected |-> s.rejected \cup {in}]

-----------------------------------------------------------------------------
(* Compiling and running the rendered session.                             *)

NamesOf(q) == {q[i].name : i \in DOMAIN q} \ {NoName}

\* Every form is sound.
Sound(s) ==
  \A q \in {s.imports, s.decls, s.stmts} : \A i \in DOMAIN q : ~q[i].broken

\* A name is declared once at file level, imports included (sema E0113), and
\* bound once in main, where a second `var x` does not compile; main ends
\* with a use of every import, which a binding of that name would capture.
DeclaredOnce(s) ==
  /\ \A q \in {s.decls, s.stmts} : \A i, j \in DOMAIN q :
       i # j /\ q[i].name # NoName => q[i].name # q[j].name
  /\ (NamesOf(s.decls) \cup NamesOf(s.stmts)) \cap NamesOf(s.imports) = {}

\* A name resolves to an import (fmt and reflect are added when needed), a
\* declaration, or, inside main, a binding above.
AutoImports == {"fmt", "reflect"}
Resolves(s) ==
  LET file == AutoImports \cup NamesOf(s.imports) \cup NamesOf(s.decls) IN
  /\ \A i \in DOMAIN s.decls : s.decls[i].uses \subseteq file
  /\ \A i \in DOMAIN s.stmts :
       s.stmts[i].uses \subseteq file \cup NamesOf(SubSeq(s.stmts, 1, i - 1))

Compiles(s) == Sound(s) /\ DeclaredOnce(s) /\ Resolves(s)

Panics(s, i) == s.stmts[i].panics

\* The last bare expression of the body is rendered as a print, every other
\* one as `let _ = (...)`; main runs from its first statement, so the value
\* appears unless a statement up to that one ends the program.
Exprs(s) == {i \in DOMAIN s.stmts : s.stmts[i].head = "expr"}
\* Mutant: the first expression is taken for the newest.
PrintedFirst(s) ==
  IF Exprs(s) = {} THEN NoInput
  ELSE LET first == Min(Exprs(s)) IN
       IF \E i \in 1..first : Panics(s, i) THEN NoInput ELSE s.stmts[first]

Printed(s) ==
  IF Exprs(s) = {} THEN NoInput
  ELSE LET last == CHOOSE i \in Exprs(s) : \A j \in Exprs(s) : j <= i IN
       IF \E i \in 1..last : Panics(s, i) THEN NoInput ELSE s.stmts[last]

-----------------------------------------------------------------------------
(* The prompt.                                                             *)

Init ==
  /\ sess    = EmptySession
  /\ pending = FALSE
  /\ printed = NoInput
  /\ over    = FALSE

\* A balanced input that add accepts, while the model has room for it.
Accepts(in) ==
  /\ ~over
  /\ ~Refused(sess, in)
  /\ Len(sess.imports) + Len(sess.decls) + Len(sess.stmts) < MaxForms

\* add returns an error: nothing is stored.
Refuse(in) ==
  /\ ~over
  /\ Refused(sess, in)
  /\ pending' = FALSE
  /\ printed' = NoInput
  /\ UNCHANGED <<sess, over>>

\* Imports and declarations alone are stored without compiling anything.
Store(in) ==
  /\ Accepts(in)
  /\ Add(sess, in).stmts = <<>>
  /\ sess' = Add(sess, in)
  /\ pending' = FALSE
  /\ printed' = NoInput
  /\ UNCHANGED over

\* The session compiles; its program runs to an exit code that is not looked
\* at.
Run(in) ==
  /\ Accepts(in)
  /\ Add(sess, in).stmts # <<>>
  /\ Compiles(Add(sess, in))
  /\ sess' = Add(sess, in)
  /\ pending' = FALSE
  /\ printed' = Printed(Add(sess, in))
  /\ UNCHANGED over

\* Mutant: the rejected input stays in the session.
FailKeeping(in) ==
  /\ Accepts(in)
  /\ Add(sess, in).stmts # <<>>
  /\ ~Compiles(Add(sess, in)) \/ ToolchainFails
  /\ sess' = MarkRejected(Add(sess, in), in)
  /\ pending' = FALSE
  /\ printed' = NoInput
  /\ UNCHANGED over

\* The session does not compile, or the toolchain or the exec failed: the
\* input is rejected and rolled back.
Fail(in) ==
  /\ Accepts(in)
  /\ Add(sess, in).stmts # <<>>
  /\ ~Compiles(Add(sess, in)) \/ ToolchainFails
  /\ sess' = Rollback(MarkRejected(Add(sess, in), in))
  /\ pending' = FALSE
  /\ printed' = NoInput
  /\ UNCHANGED over

\* A line that leaves brackets or a literal open waits for more lines.
BeginMultiLine ==
  /\ ~over
  /\ ~pending
  /\ pending' = TRUE
  /\ UNCHANGED <<sess, printed, over>>

\* Ctrl-C on a continuation prompt drops the buffer.
CtrlC ==
  /\ ~over
  /\ pending
  /\ pending' = FALSE
  /\ UNCHANGED <<sess, printed, over>>

\* Meta-commands are read at a fresh prompt only.
Meta(newSession) ==
  /\ ~over
  /\ ~pending
  /\ sess' = newSession
  /\ printed' = NoInput
  /\ UNCHANGED <<pending, over>>

ResetAll  == Meta(EmptySession)

\* Imports, declarations and the undo record survive.
ResetMain ==
  Meta([imports |-> sess.imports, decls |-> sess.decls, stmts |-> <<>>,
        lastChange |-> sess.lastChange, rejected |-> {}])

\* :type and :inspect render the session with one more statement and compile
\* that; the session itself is not touched, and nothing of it is printed.
OneShot == Meta(sess)

\* :quit, or end of input on any prompt.
Quit == ~over /\ over' = TRUE /\ UNCHANGED <<sess, pending, printed>>

Closed == over /\ UNCHANGED vars

Next ==
  \/ \E in \in Input : Refuse(in) \/ Store(in) \/ Run(in) \/ Fail(in)
  \/ BeginMultiLine \/ CtrlC
  \/ ResetAll \/ ResetMain \/ OneShot
  \/ Quit \/ Closed

Spec == Init /\ [][Next]_vars

-----------------------------------------------------------------------------
(* Properties.                                                             *)

Change ==
  [kind : {"appended", "replaced"}, slot : {"none", "imports", "decls", "stmts"},
   index : Nat, text : Input \cup {NoInput}]
Session ==
  [imports : Seq(Input), decls : Seq(Input), stmts : Seq(Input),
   lastChange : Change, rejected : SUBSET Input]

\* The type of every variable; statements are never declarations.
TypeOK ==
  /\ sess \in Session
  /\ pending \in BOOLEAN
  /\ printed \in Input \cup {NoInput}
  /\ over \in BOOLEAN

\* "The session stays usable": once it has a body it compiles as it stands,
\* so whatever fails later is the fault of what was added later.
BodyCompiles == sess.stmts # <<>> => Compiles(sess)

\* Last definition wins: no declaration is stored twice under one head and
\* name, so a redefinition never trips over the one it replaces.
LastDeclWins ==
  \A i, j \in DOMAIN sess.decls :
    /\ sess.decls[i].head = sess.decls[j].head
    /\ sess.decls[i].name = sess.decls[j].name
    /\ sess.decls[i].name # NoName
    => i = j

\* At any time the session is a program that compiles and has no two versions
\* of a declaration.
SessionIsSound == BodyCompiles /\ LastDeclWins

\* A failed turn leaves the source exactly as it was, whichever slot the
\* input went to and whether or not it replaced a declaration.
FailedTurnRestores ==
  [][\A in \in Input : Fail(in) => Source(sess') = Source(sess)]_vars

\* Nothing the session accepted is lost except by a reset or a redefinition:
\* imports and statements only grow at the end, and a declaration only gives
\* way to one of its own head and name.
NothingLost ==
  [][ResetAll \/ ResetMain \/
       /\ IsPrefix(sess.imports, sess'.imports)
       /\ IsPrefix(sess.stmts, sess'.stmts)
       /\ \A i \in DOMAIN sess.decls :
            /\ i \in DOMAIN sess'.decls
            /\ sess'.decls[i].head = sess.decls[i].head
            /\ \/ sess'.decls[i] = sess.decls[i]
               \/ /\ sess.decls[i].name # NoName
                  /\ sess'.decls[i].name = sess.decls[i].name]_vars

\* It is sound, with a fresh name and no references.
SelfContained(in) ==
  /\ ~in.broken
  /\ in.uses = {}
  /\ in.name \notin UNION {NamesOf(q) : q \in {sess.imports, sess.decls, sess.stmts}}
\* An input that stands on its own compiles if the session has a body or
\* compiles without one: no earlier failure, redefinition or reset leaves
\* anything behind that it could trip over.  On a session that does not compile,
\* because of what was kept without a build, no statement does.
StaysUsable ==
  \A in \in Input : ~Refused(sess, in) =>
    /\ SelfContained(in) /\ (sess.stmts # <<>> \/ Compiles(sess)) => Compiles(Add(sess, in))
    /\ ~Compiles(sess) /\ in.head \notin {"import"} \cup DeclHeads => ~Compiles(Add(sess, in))

\* A session that compiles goes on to, through failures, redefinitions and resets,
\* until an import or a declaration that does not stand on its own is kept
\* without a build.
StaysSound ==
  [][Compiles(sess) =>
       Compiles(sess') \/ \E in \in Input : Store(in) /\ ~SelfContained(in)]_vars

\* No turn changes more of the source than it says, or breaks it.
TurnsKeepSource == FailedTurnRestores /\ NothingLost /\ StaysSound

\* "only that line prints its value on this turn": as long as nothing in the
\* session ends the program, an expression prints itself and no older one.
NewestExprPrints ==
  [][\A in \in Input :
       /\ in.head = "expr" /\ ~in.panics
       /\ \A i \in DOMAIN sess.stmts : ~sess.stmts[i].panics
       /\ Run(in)
       => printed' = in]_vars

\* "Compile error: none - input discarded": every session compiles.  One with a
\* declaration from before the first statement need not.
EverySessionCompiles == Compiles(sess)
=============================================================================
