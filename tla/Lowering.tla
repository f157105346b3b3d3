------------------------------ MODULE Lowering ------------------------------
(***************************************************************************)
(* Two lowerings of codegen side by side: the tries of a statement, and a  *)
(* chain of method calls.  They share no state.  One is chosen and steps   *)
(* while the other keeps its initial state; a module that extends this one *)
(* may choose none of them.                                                *)
(***************************************************************************)
EXTENDS Naturals

CONSTANTS MaxNodes, MaxCalls  \* TryHoist, Dispatch

VARIABLES
  lowering,
  nodes, roots, fallible, plan, conditions, ran, status,  \* TryHoist
  root, calls, types, typed, source, text, divides        \* Dispatch

TheTries == INSTANCE TryHoist WITH taken <- conditions
TheCalls == INSTANCE Dispatch WITH sema <- typed

tryVars      == <<nodes, roots, fallible, plan, conditions, ran, status>>
callVars     == <<root, calls, types, typed, source, text, divides>>
loweringVars == <<lowering, tryVars, callVars>>

Lowerings == {"try", "calls"}

\* An idle lowering is in some initial state, the same in all behaviours.
LoweringInit ==
  /\ lowering = "try" \/ fallible = FALSE
  /\ lowering = "calls" \/ root = [form |-> "field", name |-> "plain",
                                   type |-> <<"string">>, known |-> TRUE]
  /\ TheTries!Init /\ TheCalls!Init

LoweringNext ==
  \/ lowering = "try"   /\ TheTries!Next /\ UNCHANGED <<lowering, callVars>>
  \/ lowering = "calls" /\ TheCalls!Next /\ UNCHANGED <<lowering, tryVars>>

LoweringSpec == lowering \in Lowerings /\ LoweringInit /\ [][LoweringNext]_loweringVars

-----------------------------------------------------------------------------
(* The properties of the parts, by their names; the modules say what they  *)
(* mean in full.                                                           *)

\* A hoisted try overtakes no effect that hoistableTries looks at, and a try is
\* refused only where its preamble would overtake one, drop a condition, or
\* return from a function that cannot (try.go).
HoistsExactly == lowering = "try" => TheTries!HoistsExactly

\* A method call runs the method the checker typed, once, or Go refuses it,
\* with the listed exceptions (emitCall).
CallsRunAsTyped == lowering = "calls" => TheCalls!CallsRunAsTyped
=============================================================================
