------------------------------- MODULE Values -------------------------------
(***************************************************************************)
(* Loops over ranges, and equality, in a generated program, side by side:  *)
(* one is chosen and steps while the other keeps an initial state.  A      *)
(* module that extends this one may choose a part of its own.              *)
(***************************************************************************)
EXTENDS Integers

CONSTANTS
  Width, MaxWrites,  \* Loops
  MaxValues          \* Equality

ASSUME WidthAssumption == Width \in Nat \ {0}

VARIABLES
  which,
  form, low, first, bound, ranged, counter, visited, writes, status,  \* Loops
  values, address, compared                                           \* Equality

TheLoops    == INSTANCE Loops
TheEquality == INSTANCE Equality

loopVars  == <<form, low, first, bound, ranged, counter, visited, writes, status>>
equalVars == <<values, address, compared>>
valueVars == <<which, loopVars, equalVars>>

ValueParts == {"loops", "equality"}

\* An idle loop is one of those that may begin, always the same ones.
ValueInit ==
  /\ TheLoops!Init /\ (which # "loops" => form = "slice" /\ first = 0)
  /\ TheEquality!Init

\* Part p is the one that steps.
OnlyValue(p) ==
  /\ which = p /\ UNCHANGED which
  /\ p # "loops"    => UNCHANGED loopVars
  /\ p # "equality" => UNCHANGED equalVars

ValueNext ==
  \/ OnlyValue("loops")    /\ TheLoops!Next
  \/ OnlyValue("equality") /\ TheEquality!Next

ValueSpec == which \in ValueParts /\ ValueInit /\ [][ValueNext]_valueVars

-----------------------------------------------------------------------------
(* The properties of the parts, by their names; the modules say what they  *)
(* mean and which code they are about.                                     *)

\* A loop visits its range in order, once and all of it, with the listed
\* exceptions (emitForStmt).
VisitsRange == which = "loops" => TheLoops!VisitsRange

\* == answers what the components do, with the listed exceptions (comparable).
EqualByComponents == which = "equality" => TheEquality!EqualByComponents
=============================================================================
