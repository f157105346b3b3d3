------------------------------- MODULE Phases -------------------------------
(***************************************************************************)
(* Four phases of the compiler and its driver side by side: the checker    *)
(* and codegen on jumps and on names, the reading of a tide.toml, and the  *)
(* commands.  They share no state.  One is chosen and steps while the      *)
(* others keep an initial state; a module that extends this one may choose *)
(* a part of its own.                                                      *)
(***************************************************************************)
EXTENDS Naturals

CONSTANTS
  NameSets, GoReserved, MaxDecls, MaxScopes,  \* Names
  MaxDepth,                                   \* Jumps
  MaxLines,                                   \* ProjectManifest
  MaxImports                                  \* Driver

VARIABLES
  part,
  fn, nest, sema, gen, saved, jump,                                \* Jumps
  names, phase, context, scopes, blocks, count, over, use,         \* Names, with nest
  lines, section, manifest, verdict,                               \* ProjectManifest
  verb, program, place, step, units, imports, required, temp,      \* Driver
  done, exit, faulty

TheJumps    == INSTANCE Jumps
TheNames    == INSTANCE Names WITH MaxDepth <- MaxScopes
TheManifest == INSTANCE ProjectManifest
TheDriver   == INSTANCE Driver WITH stage <- step

jumpVars     == <<fn, sema, gen, saved, jump>>
nameVars     == <<names, phase, context, scopes, blocks, count, over, use>>
manifestVars == <<lines, section, manifest, verdict>>
driverVars   == <<verb, program, place, step, units, imports, required, temp, done, exit,
                  faulty>>
phaseVars    == <<part, nest, jumpVars, nameVars, manifestVars, driverVars>>

PhaseParts == {"jumps", "names", "manifest", "driver"}

\* An idle part is in some initial state, the same in all behaviours.
IdleDriver ==
  /\ verb = "emit"
  /\ program = CHOOSE p \in TheDriver!Programs : TRUE
  /\ place = CHOOSE p \in TheDriver!Places : TRUE
PhasesInit ==
  /\ part = "jumps"  \/ fn = CHOOSE t \in TheJumps!Types : TRUE
  /\ part = "names"  \/ names = CHOOSE s \in NameSets : TRUE
  /\ part = "driver" \/ IdleDriver
  /\ TheJumps!Init /\ TheNames!Init /\ TheManifest!Init /\ TheDriver!Init

\* Part p is the one that steps.
OnlyPhase(p) ==
  /\ part = p /\ UNCHANGED part
  /\ p # "jumps"    => UNCHANGED jumpVars
  /\ p # "names"    => UNCHANGED nameVars
  /\ p # "manifest" => UNCHANGED manifestVars
  /\ p # "driver"   => UNCHANGED driverVars
  /\ p \notin {"jumps", "names"} => UNCHANGED nest

PhasesNext ==
  \/ OnlyPhase("jumps")    /\ TheJumps!Next
  \/ OnlyPhase("names")    /\ TheNames!Next
  \/ OnlyPhase("manifest") /\ TheManifest!Next
  \/ OnlyPhase("driver")   /\ TheDriver!Next

PhasesSpec == part \in PhaseParts /\ PhasesInit /\ [][PhasesNext]_phaseVars

\* What the theorem about Names supposes of strings.
ASSUME SpellingsAssumption == TheNames!SpellingsDiffer

-----------------------------------------------------------------------------
(* The properties of the parts, by their names; the modules say what they  *)
(* mean and which code they are about.                                     *)

\* A jump that builds lands where it is meant to, with the listed exceptions,
\* and a spawn joins its scope (loopDepth, scopeDepth and groupVars).
JumpsWork == part = "jumps" => TheJumps!JumpsWork

\* Go takes the declaration that resolve.go found, with the listed exceptions.
BindsAsResolved == part = "names" => TheNames!BindsAsResolved

\* parseManifest accepts exactly the schema, and the last line for a key counts.
ReadsSchema == part = "manifest" => TheManifest!ReadsSchema

\* A command does what it owes exactly if it can, says so by its exit code, and
\* leaves no temporary module (cmd/tide/main.go).
CommandsEndClean == part = "driver" => TheDriver!CommandsEndClean
=============================================================================
