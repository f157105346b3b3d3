------------------------------- MODULE Loops -------------------------------
(***************************************************************************)
(* What a for loop visits.  A range is lowered to Go's three-part for,     *)
(* which evaluates the upper bound before every round; a slice to Go's     *)
(* range, which takes the slice once.                                      *)
(* Maps and sets are ranged over by their order slice, as OrderedMap has   *)
(* it, and channels are drained, as Channels has it.                       *)
(*                                                                         *)
(* The bound names a variable, a length for slices, that the body may      *)
(* write.                                                                  *)
(***************************************************************************)
EXTENDS Integers, Sequences

CONSTANTS
  Width,     \* bits of an int
  MaxWrites  \* writes of the body to the bound

VARIABLES
  form,     \* "half-open", "inclusive" or "slice"
  low,      \* the lower bound
  first,    \* the upper bound as the loop began
  bound,    \* the upper bound now
  ranged,   \* the length that Go's range took
  counter,  \* of the loop
  visited,  \* the counter in every round so far
  writes,   \* the body's writes to the bound
  status    \* "test", "body", "ended"

vars == <<form, low, first, bound, ranged, counter, visited, writes, status>>

MaxInt == 2^(Width - 1) - 1
MinInt == -(2^(Width - 1))
Ints == MinInt..MaxInt
Wrap(n) ==
  LET ints == MaxInt - MinInt + 1 IN
  IF n > MaxInt THEN n - ints ELSE IF n < MinInt THEN n + ints ELSE n

Init ==
  /\ form \in {"half-open", "inclusive", "slice"}
  /\ low \in IF form = "slice" THEN {0} ELSE Ints
  /\ first \in IF form = "slice" THEN 0..MaxInt ELSE Ints
  /\ bound = first /\ ranged = first
  /\ counter = low
  /\ visited = <<>> /\ writes = 0
  /\ status = "test"

\* Mutant: an inclusive range stops one early.
GoesOnHalfOpen == IF form = "slice" THEN counter < ranged ELSE counter < bound
\* emitForStmt's i < hi or i <= hi, of hi as it is now; Go's range has its own
\* length.
GoesOn == CASE form = "inclusive" -> counter <= bound
            [] form = "slice"     -> counter < ranged
            [] OTHER              -> counter < bound

Test ==
  /\ status = "test"
  /\ status' = IF GoesOn THEN "body" ELSE "ended"
  /\ visited' = IF GoesOn THEN Append(visited, counter) ELSE visited
  /\ UNCHANGED <<form, low, first, bound, ranged, counter, writes>>

\* An assignment in the body, or a push to the slice whose length it is.
Write(b) ==
  /\ status = "body" /\ writes < MaxWrites
  /\ form = "slice" => b >= 0
  /\ bound' = b
  /\ writes' = writes + 1
  /\ UNCHANGED <<form, low, first, ranged, counter, visited, status>>

\* i++; Len(visited) bounds the rounds of a loop that does not end.
Advance ==
  /\ status = "body" /\ Len(visited) <= 2^Width
  /\ counter' = Wrap(counter + 1)
  /\ status' = "test"
  /\ UNCHANGED <<form, low, first, bound, ranged, visited, writes>>

Next == Test \/ (\E b \in Ints : Write(b)) \/ Advance
Spec == Init /\ [][Next]_vars
-----------------------------------------------------------------------------
(* Properties.                                                             *)

\* Every number is in its range, and an ended loop's condition is false.
TypeOK ==
  /\ {low, first, bound, counter} \subseteq Ints
  /\ Len(visited) <= 2^Width + 1
  /\ status = "ended" => ~GoesOn

\* The values a range stands for (language-spec.md), of its bounds when the
\* loop began.
Meant == IF form = "inclusive" THEN low..first ELSE {i \in low..first : i < first}

\* No int is greater than what the loop goes up to.
Endless == form = "inclusive" /\ first = MaxInt

\* A loop visits what its range stands for, in order and each value once, all
\* of it before it ends, and nothing else; unless its body writes the bound,
\* which a slice does not mind.  An inclusive loop up to the greatest int, and
\* only that, does not end and has more rounds, but they are behind its range.
VisitsRange ==
  (writes = 0 \/ form = "slice") =>
    /\ \A k \in DOMAIN visited :
         \/ visited[k] = low + k - 1 /\ visited[k] \in Meant
         \/ Endless /\ low + k - 1 > MaxInt
    /\ status = "ended" =>
         ~Endless /\ \A i \in Meant : \E k \in DOMAIN visited : visited[k] = i
=============================================================================
