----------------------------- MODULE MCCompiler -----------------------------
(***************************************************************************)
(* The phases of the compiler, and the commands that drive it, in one run. *)
(* Each of them works on its own: one is chosen, and the rest never        *)
(* changes.  Match, Phases and Lowering are extended and have variables of *)
(* their own; the parts that are added here share the variables s1 to s6.  *)
(***************************************************************************)
EXTENDS MCMatch, Phases, Lowering

CONSTANTS
  Alphabets, Keywords, Reserved, XDigits, UDigits, MaxInt,  \* Lexer
  MaxTokens                                                 \* Operators

VARIABLES s1, s2, s3, s4, s5, s6

TheLexer == INSTANCE Lexer
  WITH alphabet <- s1, text <- s2, offset <- s3, tokens <- s4, literals <- s5,
       status <- s6
TheOperators == INSTANCE Operators
  WITH form <- s1, tokens <- s2, tree <- s3, text <- s4, read <- s5,
       status <- s6

shared  == <<s1, s2, s3, s4, s5, s6>>
allVars == <<phaseVars, vars, loweringVars, shared>>

Unshared == /\ s1 = "unused" /\ s2 = "unused" /\ s3 = "unused" /\ s4 = "unused"
            /\ s5 = "unused" /\ s6 = "unused"
Unmatched == Init /\ subject = CHOOSE s \in Subject : TRUE
Unlowered == lowering = "none" /\ LoweringInit

\* A part that is added here starts, or steps.
Starts(p) == part = p /\ PhasesInit /\ Unmatched /\ Unlowered
Steps(p)  == part = p /\ UNCHANGED <<phaseVars, vars, loweringVars>>

CompilerInit ==
  \/ Starts("lexer")     /\ TheLexer!Init
  \/ Starts("operators") /\ TheOperators!Init
  \/ part = "match" /\ PhasesInit /\ Init /\ Unlowered /\ Unshared
  \/ part = "lowering" /\ PhasesInit /\ Unmatched /\ lowering \in Lowerings /\ LoweringInit
       /\ Unshared
  \/ part \in PhaseParts /\ PhasesInit /\ Unmatched /\ Unlowered /\ Unshared

CompilerNext ==
  \/ Steps("lexer")     /\ TheLexer!Next
  \/ Steps("operators") /\ TheOperators!Next
  \/ part = "match" /\ Next /\ UNCHANGED <<phaseVars, loweringVars, shared>>
  \/ LoweringNext /\ UNCHANGED <<phaseVars, vars, shared>>
  \/ PhasesNext /\ UNCHANGED <<vars, loweringVars, shared>>

CompilerSpec == CompilerInit /\ [][CompilerNext]_allVars

-----------------------------------------------------------------------------
(* The properties of the parts, by their names; those of Match, Phases and *)
(* Lowering are as they are.                                               *)

TypesOK ==
  CASE part = "match"     -> TypeOK
    [] part = "lexer"     -> TheLexer!TypeOK
    [] part = "operators" -> TheOperators!TypeOK
    [] part = "names"     -> TheNames!TypeOK
    [] part = "jumps"     -> TheJumps!TypeOK
    [] part = "lowering"  -> IF lowering = "try" THEN TheTries!TypeOK ELSE TheCalls!TypeOK
    [] part = "driver"    -> TheDriver!TypeOK
    [] part = "manifest"  -> TheManifest!TypeOK

LiteralsSurvive  == part = "lexer"     => TheLexer!LiteralsSurvive
LexesByGrammar   == [][part = "lexer"  => TheLexer!TakesLongest]_allVars
ReadAlike        == part = "operators" => TheOperators!ReadAlike

\* What the documents say and the code refutes; the README says where.
KeepsOrder       == lowering = "try"   => TheTries!KeepsOrder
BlockEndsScope   == part = "names"     => TheNames!BlockEndsScope
OnlyMalformedEscapes == part = "lexer" => TheLexer!OnlyMalformedEscapes

-----------------------------------------------------------------------------
(* Instances of the Lexer's and Names' constants.                          *)

MCAlphabets ==
  { [chars |-> {"0", "1", "x", "B", "e", "_", ".", "+"}, max |-> 5],
    [chars |-> {"\"", "'", "\\", "n", "0", "u", "\n"}, max |-> 5],
    [chars |-> {"i", "f", "_", "t", "1", " "}, max |-> 4],
    [chars |-> {"/", "*", ".", "=", "<", "-", "&", "a", "\n", "\r"}, max |-> 4] }
MCKeywords == {<<"i", "f">>}
MCReserved == <<"_", "t", "_">>
MCNameSets == {{"t"}, {"t", "Up"}, {"map", "tide_map"}, {"Up", "ColorUp"}}
MCMaxDecls == [ns \in MCNameSets |-> IF ns = {"t"} THEN 3 ELSE 2]
=============================================================================
