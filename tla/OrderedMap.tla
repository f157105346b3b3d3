----------------------------- MODULE OrderedMap -----------------------------
(***************************************************************************)
(* The Go code emitted for Map and Set (internal/codegen/codegen.go        *)
(* writePredeclaredContainers) and for a loop over one (control_flow.go    *)
(* emitForStmt, emitForTuple): a Go map, a slice that lists its keys in    *)
(* the order they came, and loops that range over that slice while their   *)
(* bodies change it.                                                       *)
(*                                                                         *)
(* What is hard here is Go's slices: a slice is a header over a backing    *)
(* array; append writes into that array as long as it has room; delete     *)
(* closes the gap by shifting the array's cells; and range evaluates the   *)
(* header once, so a loop goes on over the array it began with.  Hence the *)
(* heap of arrays.  A Set is a Map whose values are not looked at.         *)
(***************************************************************************)
EXTENDS Naturals, SequencesExt

CONSTANTS
  Key, Value,
  NoKey,           \* what a cell holds before it is written
  Array, NoArray,  \* addresses of backing arrays; nil
  MaxCap,          \* bound on an array's cells
  MaxLoops         \* bound on loops inside one another

ASSUME NamesAssumption == NoKey \notin Key /\ NoArray \notin Array
ASSUME BoundsAssumption == MaxCap \in Nat /\ MaxLoops \in Nat

VARIABLES
  dict,    \* m.m
  order,   \* m.order, a slice
  heap,    \* heap[a]: the cells of array a, as many as it has room for
  loops,   \* the loops over m that are running, innermost last
  copy     \* the slice a program got from keys() last, and what it held then

vars == <<dict, order, heap, loops, copy>>

Slice(a, n) == [arr |-> a, len |-> n]
Nil == Slice(NoArray, 0)
Elems(s) == [i \in 1..s.len |-> heap[s.arr][i]]
Keys == DOMAIN dict

Init ==
  /\ dict  = [k \in {} |-> NoKey]
  /\ order = Nil
  /\ heap  = [a \in Array \cup {NoArray} |-> <<>>]
  /\ loops = <<>>
  /\ copy  = [slice |-> Nil, was |-> <<>>]

InUse(o, c, ls) == {o.arr, c.slice.arr} \cup {ls[i].slice.arr : i \in DOMAIN ls}
Free == Array \ InUse(order, copy, loops)

\* What the collector leaves of the cells of h after the step.
Collected(h) ==
  [a \in DOMAIN h |-> IF a \in InUse(order', copy', loops') THEN h[a] ELSE <<>>]

-----------------------------------------------------------------------------
(* set, add.                                                               *)

\* append within the array's room.
AppendInPlace(k) ==
  /\ order.len < Len(heap[order.arr])
  /\ heap'  = [heap EXCEPT ![order.arr] = ReplaceAt(@, order.len + 1, k)]
  /\ order' = Slice(order.arr, order.len + 1)

\* The cells of a longer array with the elements of s at its front.
Moved(s, cap) == [i \in 1..cap |-> IF i =< s.len THEN heap[s.arr][i] ELSE NoKey]

\* append to a full array: another one, as large as the runtime likes.
AppendMoving(k) ==
  /\ order.len = Len(heap[order.arr])
  /\ \E a \in Free, cap \in (order.len + 1)..MaxCap :
       /\ order' = Slice(a, order.len + 1)
       /\ heap'  = Collected([heap EXCEPT
                     ![a] = ReplaceAt(Moved(order, cap), order.len + 1, k)])

Assign(k, v) == dict' = [x \in Keys \cup {k} |-> IF x = k THEN v ELSE dict[x]]

\* Mutant: the key is listed again.
SetKnownAgain(k, v) ==
  /\ k \in Keys
  /\ Assign(k, v)
  /\ UNCHANGED <<loops, copy>>
  /\ AppendInPlace(k) \/ AppendMoving(k)

SetKnown(k, v) ==
  /\ k \in Keys
  /\ Assign(k, v)
  /\ UNCHANGED <<order, heap, loops, copy>>

SetNew(k, v) ==
  /\ k \notin Keys
  /\ Assign(k, v)
  /\ UNCHANGED <<loops, copy>>
  /\ AppendInPlace(k) \/ AppendMoving(k)

-----------------------------------------------------------------------------
(* delete; the running loops are marked.                                   *)

Loop(slice, at, first, current, disturbed) ==
  [slice |-> slice, at |-> at, first |-> first, current |-> current,
   disturbed |-> disturbed]
Disturbed(l) == Loop(l.slice, l.at, l.first, l.current, TRUE)

\* Mutant: the freed cell is cleared, as slices.Delete does.
ShiftedAndCleared(cells, i, len) ==
  [j \in DOMAIN cells |-> IF j \in i..(len - 1) THEN cells[j + 1]
                         ELSE IF j = len THEN NoKey ELSE cells[j]]

\* The cells after i move down by one; the last one is left as it was.
Shifted(cells, i, len) ==
  [j \in DOMAIN cells |-> IF j \in i..(len - 1) THEN cells[j + 1] ELSE cells[j]]

\* append(m.order[:i], m.order[i+1:]...) works in the array m.order is over.
Delete(k) ==
  /\ k \in Keys
  /\ dict' = [x \in Keys \ {k} |-> dict[x]]
  /\ \E i \in 1..order.len :
       /\ heap[order.arr][i] = k
       /\ heap' = [heap EXCEPT ![order.arr] = Shifted(@, i, order.len)]
  /\ order' = Slice(order.arr, order.len - 1)
  /\ loops' = [i \in DOMAIN loops |-> Disturbed(loops[i])]
  /\ UNCHANGED copy

-----------------------------------------------------------------------------
(* keys, toSlice.                                                          *)

\* Mutant: the slice itself is handed out.
GetKeysShared ==
  /\ copy' = [slice |-> order, was |-> Elems(order)]
  /\ UNCHANGED <<dict, order, heap, loops>>

\* Mutant: as many keys are copied as the array has cells.
GetKeysWholeArray ==
  /\ \E a \in Free :
       /\ UNCHANGED <<dict, order, loops>>
       /\ copy' = [slice |-> Slice(a, Len(heap[order.arr])), was |-> heap[order.arr]]
       /\ heap' = Collected([heap EXCEPT ![a] = heap[order.arr]])

\* make and copy.
GetKeys ==
  /\ \E a \in Free :
       /\ UNCHANGED <<dict, order, loops>>
       /\ copy' = [slice |-> Slice(a, order.len), was |-> Elems(order)]
       /\ heap' = Collected([heap EXCEPT ![a] = Elems(order)])

-----------------------------------------------------------------------------
(* for k in m, for (k, v) in m.                                            *)

\* range m.order: the header as it is now.
Begin ==
  /\ Len(loops) < MaxLoops
  /\ loops' = Append(loops, Loop(order, 0, Elems(order), NoKey, FALSE))
  /\ UNCHANGED <<dict, order, heap, copy>>

Inner == Last(loops)
InnerWith(l) == ReplaceAt(loops, Len(loops), l)

\* Mutant: the header is looked up on every turn.
VisitLive ==
  /\ loops # <<>>
  /\ Inner.at < order.len
  /\ loops' = InnerWith(Loop(order, Inner.at + 1, Inner.first,
                             heap[order.arr][Inner.at + 1], Inner.disturbed))
  /\ UNCHANGED <<dict, order, heap, copy>>

\* The next key, and for the pair its value, m.m[k], which is the zero value
\* if the key is not known any more.
Visit ==
  /\ loops # <<>>
  /\ Inner.at < Inner.slice.len
  /\ loops' = InnerWith(Loop(Inner.slice, Inner.at + 1, Inner.first,
                             heap[Inner.slice.arr][Inner.at + 1], Inner.disturbed))
  /\ UNCHANGED <<dict, order, heap, copy>>

\* The loop is through, or its body breaks.
Leave ==
  /\ loops # <<>>
  /\ loops' = Front(loops)
  /\ UNCHANGED <<dict, order, copy>>
  /\ heap' = Collected(heap)

Next ==
  \/ \E k \in Key, v \in Value : SetKnown(k, v) \/ SetNew(k, v)
  \/ \E k \in Key : Delete(k)
  \/ GetKeys \/ Begin \/ Visit \/ Leave

Spec == Init /\ [][Next]_vars

-----------------------------------------------------------------------------
(* Properties.                                                             *)

\* Types; no slice is longer than its array.
SliceType == [arr : Array \cup {NoArray}, len : Nat]
TypeOK ==
  /\ Keys \subseteq Key /\ \A k \in Keys : dict[k] \in Value
  /\ order \in SliceType
  /\ heap \in [Array \cup {NoArray} -> Seq(Key \cup {NoKey})]
  /\ heap[NoArray] = <<>>
  /\ order.len =< Len(heap[order.arr])
  /\ copy \in [slice : SliceType, was : Seq(Key)]
  /\ copy.slice.len =< Len(heap[copy.slice.arr])
  /\ loops \in Seq([slice : SliceType, at : Nat, first : Seq(Key),
                    current : Key \cup {NoKey}, disturbed : BOOLEAN])
  /\ \A i \in DOMAIN loops : /\ loops[i].slice.len =< Len(heap[loops[i].slice.arr])
                             /\ loops[i].at =< loops[i].slice.len

\* "the wrapper keeps insertion order in sync with the backing map": each key
\* is listed once, and nothing else is.
InStep ==
  /\ Range(Elems(order)) = Keys
  /\ IsInjective(Elems(order))

\* A slice that keys() returned is the program's own: no later change of the
\* map shows in it.
CopyIsOwn == Elems(copy.slice) = copy.was

\* A loop whose body deletes nothing goes through the keys that were there when
\* it began, each once and in order, and all of them are known ("always Some
\* here"), however many keys its body or a loop inside it adds.
UndisturbedLoop ==
  \A i \in DOMAIN loops :
    LET l == loops[i] IN
    ~l.disturbed =>
      /\ Elems(l.slice) = l.first
      /\ Range(l.first) \subseteq Keys
      /\ l.at \in 1..Len(l.first) => l.current = l.first[l.at]

\* Whatever its body deletes, a loop only meets what was a key of the map at
\* some time, never an unwritten cell.
OnlyKeysVisited ==
  \A i \in DOMAIN loops :
    LET l == loops[i] IN
    /\ Range(Elems(l.slice)) \subseteq Key
    /\ l.at > 0 => l.current \in Key

\* Whatever is set and deleted meanwhile, the arrays that slices share never
\* show a program more than it may see: its own copies are its own, and its loops
\* meet keys, those they began with if nothing is deleted.
AliasingIsSafe == CopyIsOwn /\ UndisturbedLoop /\ OnlyKeysVisited

\* "always Some here because we just read a known key": a loop only meets keys
\* the map still has.  The code's does not, once a body deletes.
VisitedIsKnown == [][Visit => Last(loops').current \in Keys]_vars

\* The map is the ordered list of entries of OrderedDict.
Entries == [i \in 1..order.len |-> [key   |-> Elems(order)[i],
                                    value |-> dict[Elems(order)[i]]]]
Dict == INSTANCE OrderedDict WITH entries <- Entries
ImplementsDict == Dict!Spec
=============================================================================
