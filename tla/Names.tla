------------------------------- MODULE Names -------------------------------
(***************************************************************************)
(* What a name means.  The checker binds every use of a name to the        *)
(* closest declaration on its chain of scopes; codegen writes an           *)
(* identifier for it, and Go binds that on a chain of its own, in which    *)
(* some Tide scopes share a block and some names are spelled otherwise.    *)
(*                                                                         *)
(* A program declares what its package holds, then the members of a class, *)
(* then the parameters of one function, and then its body is walked.       *)
(* Types are left out: where Go finds something else of another type it    *)
(* refuses to build, which is the better of the two outcomes.  Imports and *)
(* type parameters, those of sums included, are left out too.              *)
(***************************************************************************)
EXTENDS Naturals, SequencesExt, FiniteSetsExt

CONSTANTS
  NameSets,    \* sets of names, each for programs that use no other
  GoReserved,  \* those that goIdent must spell otherwise
  MaxDecls,    \* for each, the declarations of a program
  MaxDepth     \* constructs around a use

VARIABLES
  names,    \* those of this program
  phase,    \* "package", "class", "signature", "body", or a refusal
  context,  \* of the body: "func", "method" or "static"
  scopes,   \* the checker's chain, outermost first: names to declarations
  blocks,   \* Go's chain: identifiers to declarations
  nest,     \* constructs around, with their numbers of scopes and blocks
  count,    \* declarations so far
  over,     \* declarations whose scope has ended
  use       \* the last use: the name, if it is called, what is meant, what Go takes

vars == <<names, phase, context, scopes, blocks, nest, count, over, use>>

Decl(k, n) == [id |-> count + 1, kind |-> k, name |-> n]
Receiver   == [id |-> 0, kind |-> "receiver", name |-> "t"]
Nothing    == [id |-> 0, kind |-> "nothing", name |-> ""]
NoUse      == [name |-> "", called |-> FALSE, meant |-> Nothing, got |-> Nothing]
Empty      == [n \in {} |-> Nothing]
Bind(frame, n, d) == [m \in DOMAIN frame \cup {n} |-> IF m = n THEN d ELSE frame[m]]
BindLast(chain, n, d) == [chain EXCEPT ![Len(chain)] = Bind(@, n, d)]

\* Scope.lookup, and Go's rule alike: the closest frame that has the name.
Lookup(chain, n) ==
  LET having == {i \in DOMAIN chain : n \in DOMAIN chain[i]} IN
  IF having = {} THEN Nothing ELSE chain[Max(having)][n]

GoIdent(n) == IF n \in GoReserved THEN "tide_" \o n ELSE n
VariantIdent(n) == "Color" \o n
Ident(k, n) == IF k = "variant" THEN VariantIdent(n) ELSE GoIdent(n)

\* What is true of these spellings, whatever the names are.
SpellingsDiffer ==
  \A s \in NameSets : \A n \in s :
    /\ VariantIdent(n) \notin {GoIdent(n), "t"}
    /\ GoIdent(n) = "t" => n = "t"

Init ==
  /\ names \in NameSets
  /\ phase = "package" /\ context = "func"
  /\ scopes = <<Empty>> /\ blocks = <<Empty>>
  /\ nest = <<>> /\ count = 0 /\ over = {} /\ use = NoUse

\* Go refuses a second declaration of an identifier in one block.
GoDeclares(ident, d) ==
  IF ident \in DOMAIN Last(blocks)
  THEN phase' = "not-built" /\ UNCHANGED blocks
  ELSE UNCHANGED phase /\ blocks' = BindLast(blocks, ident, d)

-----------------------------------------------------------------------------
(* Declarations.                                                           *)

\* indexFile: a second top-level name is E0113, unless it is a variant, whose
\* earlier namesake only counts if it is a variant as well (E0104, E0106).
DeclareTop(k, n) ==
  LET prev == Lookup(scopes, n)
      d == Decl(k, n) IN
  /\ phase = "package" /\ count < MaxDecls[names]
  /\ count' = count + 1
  /\ IF prev # Nothing /\ (k # "variant" \/ prev.kind = "variant")
     THEN phase' = "refused" /\ UNCHANGED <<scopes, blocks>>
     ELSE /\ scopes' = BindLast(scopes, n, d)
          /\ GoDeclares(Ident(k, n), d)
  /\ UNCHANGED <<context, nest, over, use>>

\* resolveClassDecl: fields and methods join the member scope; Go keeps them
\* behind the receiver.  (Two members of one name do not get past E0105 or Go.)
EnterClass ==
  /\ phase = "package"
  /\ phase' = "class"
  /\ scopes' = Append(scopes, Empty)
  /\ UNCHANGED <<context, blocks, nest, count, over, use>>

DeclareMember(k, n) ==
  /\ phase = "class" /\ count < MaxDecls[names]
  /\ n \notin DOMAIN Last(scopes)
  /\ scopes' = BindLast(scopes, n, Decl(k, n))
  /\ count' = count + 1
  /\ UNCHANGED <<phase, context, blocks, nest, over, use>>

\* resolveFuncDecl, resolveMethod: a static method does not see the members;
\* emitMethod names the receiver t, among the parameters.
EnterFunction(c) ==
  /\ phase = IF c = "func" THEN "package" ELSE "class"
  /\ phase' = "signature"
  /\ context' = c
  /\ scopes' = Append(IF c = "static" THEN Front(scopes) ELSE scopes, Empty)
  /\ blocks' = Append(blocks, IF c = "method" THEN Bind(Empty, "t", Receiver) ELSE Empty)
  /\ UNCHANGED <<nest, count, over, use>>

Declare(n) ==
  /\ count < MaxDecls[names]
  /\ scopes' = BindLast(scopes, n, Decl("local", n))
  /\ GoDeclares(GoIdent(n), Decl("local", n))
  /\ count' = count + 1
  /\ use' = NoUse
  /\ UNCHANGED <<context, nest, over>>

DeclareParam(n) == phase = "signature" /\ Declare(n)
DeclareLocal(n) == phase = "body" /\ Declare(n)

\* The body is a scope of its own; in Go it is the block of the parameters.
EnterBody ==
  /\ phase = "signature"
  /\ phase' = "body"
  /\ scopes' = Append(scopes, Empty)
  /\ UNCHANGED <<context, blocks, nest, count, over, use>>

-----------------------------------------------------------------------------
(* Constructs, by their scopes and blocks.  A block in statement position  *)
(* is run inline: emitBlockBody writes no braces around it.  A clause is a *)
(* match arm, a select case or a closure: what it binds and its block are  *)
(* two scopes and one block.  A loop's binder has a block of its own.      *)

Constructs == {[kind |-> "inline", scopes |-> 1, blocks |-> 0],
               [kind |-> "braces", scopes |-> 1, blocks |-> 1],
               [kind |-> "clause", scopes |-> 2, blocks |-> 1],
               [kind |-> "loop",   scopes |-> 2, blocks |-> 2]}
Binds(c) == c.kind \in {"clause", "loop"}

EmptyFrames(k) == [i \in 1..k |-> Empty]

\* resolveStmt and resolveExpr against emitStmt and its kin.
Enter(c) ==
  /\ phase = "body" /\ Len(nest) < MaxDepth
  /\ nest' = Append(nest, c)
  /\ scopes' = scopes \o EmptyFrames(c.scopes)
  /\ blocks' = blocks \o EmptyFrames(c.blocks)
  /\ use' = NoUse
  /\ UNCHANGED <<phase, context, count, over>>

\* The same with a binder: the pattern of an arm or a loop, a parameter.
EnterBinding(c, n) ==
  /\ phase = "body" /\ Len(nest) < MaxDepth /\ count < MaxDecls[names] /\ Binds(c)
  /\ nest' = Append(nest, c)
  /\ scopes' = scopes \o <<Bind(Empty, n, Decl("local", n)), Empty>>
  /\ blocks' = blocks \o <<Bind(Empty, GoIdent(n), Decl("local", n))>>
                      \o EmptyFrames(c.blocks - 1)
  /\ count' = count + 1
  /\ use' = NoUse
  /\ UNCHANGED <<phase, context, over>>

DroppedBy(c) == {scopes[i] : i \in (Len(scopes) - c.scopes + 1)..Len(scopes)}

Leave ==
  /\ phase = "body" /\ nest # <<>>
  /\ LET c == Last(nest) IN
     /\ over' = over \cup UNION {{f[n].id : n \in DOMAIN f} : f \in DroppedBy(c)}
     /\ scopes' = SubSeq(scopes, 1, Len(scopes) - c.scopes)
     /\ blocks' = SubSeq(blocks, 1, Len(blocks) - c.blocks)
  /\ nest' = Front(nest)
  /\ use' = NoUse
  /\ UNCHANGED <<phase, context, count>>

-----------------------------------------------------------------------------
(* Uses.                                                                   *)

\* g.variant, by name alone.
Variants == {n \in names : VariantIdent(n) \in DOMAIN blocks[1]}
Spelling(n) == Ident(IF n \in Variants THEN "variant" ELSE "name", n)

\* Mutant: the implicit receiver is forgotten.
TakenBare(n, d, called, chain) == Lookup(chain, Spelling(n))
\* What Go takes, on a chain, for name n that the checker bound to d.  emitCall
\* asks if a method is called before emitExpr asks for a variant, and that before
\* it asks for a field; a method that is not called has no receiver.
Taken(n, d, called, chain) ==
  IF \/ called /\ d.kind = "method"
     \/ n \notin Variants /\ d.kind = "field"
  THEN LET t == Lookup(chain, "t") IN IF t = Receiver THEN d ELSE t
  ELSE Lookup(chain, Spelling(n))

UseOn(n, called, chain) ==
  LET d == Lookup(scopes, n)
      g == Taken(n, d, called, chain) IN
  /\ phase = "body" /\ use = NoUse
  /\ IF d = Nothing THEN phase' = "refused" /\ UNCHANGED use
     ELSE IF g = Nothing THEN phase' = "not-built" /\ UNCHANGED use
     ELSE /\ use' = [name |-> n, called |-> called, meant |-> d, got |-> g]
          /\ UNCHANGED phase
  /\ UNCHANGED <<context, scopes, blocks, nest, over>>

\* resolveExpr's Ident; an unknown name is E0103, and Go's undefined.
Use(n, called) == UseOn(n, called, blocks) /\ UNCHANGED count

\* emitForStmt, emitForTuple: the upper bound of a range, and the map that the
\* second binder reads, are written where the first binder is bound already.
UseInHead(binder, n, called) ==
  /\ count < MaxDecls[names]
  /\ UseOn(n, called, Append(blocks, Bind(Empty, GoIdent(binder), Decl("binder", binder))))
  /\ count' = count + 1

\* A program that is refused, by the checker or by Go, goes no further.
Over == /\ phase \in {"refused", "not-built"}
        /\ UNCHANGED <<phase, context, scopes, blocks, nest, count, over, use>>

Next ==
  /\ UNCHANGED names
  /\ \/ \E k \in {"func", "variant"}, n \in names : DeclareTop(k, n)
     \/ EnterClass
     \/ \E k \in {"field", "method", "static"}, n \in names : DeclareMember(k, n)
     \/ \E c \in {"func", "method", "static"} : EnterFunction(c)
     \/ \E n \in names : DeclareParam(n) \/ DeclareLocal(n)
     \/ \E n \in names, called \in BOOLEAN :
          Use(n, called) \/ \E b \in names : UseInHead(b, n, called)
     \/ EnterBody
     \/ \E c \in Constructs : Enter(c) \/ \E n \in names : EnterBinding(c, n)
     \/ Leave
     \/ Over

Spec == Init /\ [][Next]_vars
-----------------------------------------------------------------------------
(* Properties.                                                             *)

\* The phases, and chains that are as long as the constructs around make them.
TypeOK ==
  /\ phase \in {"package", "class", "signature", "body", "refused", "not-built"}
  /\ context \in {"func", "method", "static"}
  /\ count \in 0..MaxDecls[names] /\ over \subseteq 1..MaxDecls[names]
  /\ \A i \in DOMAIN scopes : DOMAIN scopes[i] \subseteq names
  /\ phase = "body" => Len(blocks) = 2 + FoldSeq(LAMBDA c, k : c.blocks + k, 0, nest)

\* The checker means the closest declaration that is not over, and Go takes
\* that one too, with these exceptions: an inline block is over and its names
\* are not; a name that some variant has is the variant, unless it is a method's
\* and called; in a method, t is the receiver unless something closer is called
\* t, and then members are looked for there; two names are spelled the same; a
\* static method, and a method that is taken as a value, is not found behind the
\* receiver, but what the package has by that name is; and the head of a loop may
\* take the loop's own binder.
BindsAsResolved ==
  use # NoUse =>
    /\ use.meant.id \notin over
    /\ \A i \in DOMAIN scopes : use.name \in DOMAIN scopes[i] =>
         scopes[i][use.name].id <= use.meant.id
    /\ use.got # use.meant =>
         \/ use.got.id \in over
         \/ /\ use.name \in Variants /\ use.got.kind = "variant"
            /\ ~(use.called /\ use.meant.kind = "method")
         \/ context = "method" /\ use.name = "t" /\ use.got = Receiver
         \/ context = "method" /\ use.meant.kind \in {"field", "method"} /\ use.got.name = "t"
         \/ /\ use.got.name # use.name
            /\ Ident(use.got.kind, use.got.name) = Spelling(use.name)
         \/ use.meant.kind = "static"
         \/ use.meant.kind = "method" /\ ~use.called /\ use.got.id < use.meant.id
         \/ use.got.kind = "binder"

\* "Bindings created by let / var inside a Block are visible from their
\* declaration point to the end of the enclosing Block" (name-resolution.md).
BlockEndsScope == use.got.id \notin over
=============================================================================
