------------------------------ MODULE MCValues ------------------------------
(***************************************************************************)
(* What a generated program does with values: the containers, loops over   *)
(* ranges, equality, and where a value of one type is admitted for another.*)
(* One of them is chosen and steps while the others keep an initial state. *)
(* OrderedMap and Values are extended, Fits is instantiated.               *)
(***************************************************************************)
EXTENDS MCOrderedMap, Values

CONSTANT MaxLists  \* Fits

VARIABLES expr, nodes, clean, asked

TheFits == INSTANCE Fits WITH MaxNodes <- MaxLists

mapVars == vars
fitVars == <<expr, nodes, clean, asked>>
allVars == <<valueVars, mapVars, fitVars>>

\* An idle part is in one of its initial states.
ValuesInit ==
  /\ which \in {"map", "fits"} \cup ValueParts
  /\ Init /\ ValueInit
  /\ TheFits!Init /\ (which # "fits" => expr = CHOOSE e \in TheFits!Leaves : TRUE)

ValuesNext ==
  \/ which = "map"  /\ Next         /\ UNCHANGED <<valueVars, fitVars>>
  \/ which = "fits" /\ TheFits!Next /\ UNCHANGED <<valueVars, mapVars>>
  \/ ValueNext /\ UNCHANGED <<mapVars, fitVars>>

ValuesSpec == ValuesInit /\ [][ValuesNext]_allVars

-----------------------------------------------------------------------------
(* The properties of the parts, by their names; those of OrderedMap and of *)
(* Values are as they are.                                                 *)

TypesOK ==
  CASE which = "map"      -> TypeOK
    [] which = "loops"    -> TheLoops!TypeOK
    [] which = "equality" -> TheEquality!TypeOK
    [] which = "fits"     -> TheFits!TypeOK

AdmittedBuilds == which = "fits"     => TheFits!AdmittedBuilds
=============================================================================
