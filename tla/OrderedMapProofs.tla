------------------------- MODULE OrderedMapProofs -------------------------
(***************************************************************************)
(* The emitted Map for every set of keys and values, every way an array    *)
(* can grow and loops nested to any depth.  The argument: only the array   *)
(* under m.order is ever written; keys() hands out another one; and a loop *)
(* that shares it never looks past m.order's length unless something was   *)
(* deleted, so an append below it writes where it does not look.           *)
(***************************************************************************)
EXTENDS OrderedMap, SequenceTheorems, TLAPS

Cell    == Key \cup {NoKey}
Address == Array \cup {NoArray}

HeapOK  == heap \in [Address -> Seq(Cell)] /\ heap[NoArray] = <<>>
Fits(s) == s \in SliceType /\ s.len =< Len(heap[s.arr])
LoopType == [slice : SliceType, at : Nat, first : Seq(Key),
             current : Cell, disturbed : BOOLEAN]
LoopOK(l) == l \in LoopType /\ Fits(l.slice) /\ l.at =< l.slice.len

\* InStep, cell by cell.
Listed ==
  /\ \A i \in 1..order.len : heap[order.arr][i] \in Keys
  /\ \A k \in Keys : \E i \in 1..order.len : heap[order.arr][i] = k
  /\ \A i, j \in 1..order.len : heap[order.arr][i] = heap[order.arr][j] => i = j

Own ==
  /\ copy.slice.arr = order.arr => copy.slice.arr = NoArray
  /\ Elems(copy.slice) = copy.was

\* A loop looks at keys only.
Sees(l) ==
  /\ \A j \in 1..l.slice.len : heap[l.slice.arr][j] \in Key
  /\ l.at > 0 => l.current \in Key

\* An undisturbed loop looks at what it found when it began, and below the
\* length of the order if it shares its array.
Steady(l) ==
  ~l.disturbed =>
    /\ l.slice.len = Len(l.first)
    /\ \A j \in 1..l.slice.len : heap[l.slice.arr][j] = l.first[j]
    /\ \A j \in 1..l.slice.len : l.first[j] \in Keys
    /\ l.at > 0 => l.current = l.first[l.at]
    /\ l.slice.arr = order.arr => l.slice.len =< order.len

LoopInv == \A i \in DOMAIN loops : Sees(loops[i]) /\ Steady(loops[i])

Inv == TypeOK /\ Listed /\ Own /\ LoopInv

USE NamesAssumption, BoundsAssumption DEF Address, Slice, vars

-----------------------------------------------------------------------------
(* Sequences that are made cell by cell.                                   *)

LEMMA NamedParts ==
  ASSUME TypeOK
  PROVE      /\ Keys \subseteq Key /\ \A k \in Keys : dict[k] \in Value
             /\ HeapOK /\ Fits(order)
             /\ Fits(copy.slice) /\ copy \in [slice : SliceType, was : Seq(Key)]
             /\ loops \in Seq(LoopType) /\ \A i \in DOMAIN loops : LoopOK(loops[i])
             /\ copy.slice.arr \in Address
             /\ \A i \in DOMAIN loops : loops[i].slice.arr \in Address
<1>1. /\ Keys \subseteq Key /\ \A k \in Keys : dict[k] \in Value
      /\ HeapOK /\ Fits(order)
  BY DEF TypeOK, HeapOK, Fits, Cell
<1>2. copy \in [slice : SliceType, was : Seq(Key)] /\ Fits(copy.slice)
  BY DEF TypeOK, Fits
<1>3. loops \in Seq(LoopType)
  BY Zenon DEF TypeOK, LoopType, Cell
<1>4. ASSUME NEW i \in DOMAIN loops PROVE loops[i] \in LoopType
  BY <1>3
<1>5. ASSUME NEW i \in DOMAIN loops PROVE LoopOK(loops[i])
  <2>1. loops[i].slice \in SliceType
    BY <1>4 DEF LoopType
  <2> QED
    BY <1>4, <2>1 DEF LoopOK, TypeOK, Fits
<1>6. copy.slice.arr \in Address
  BY <1>2 DEF SliceType
<1>7. ASSUME NEW i \in DOMAIN loops PROVE loops[i].slice.arr \in Address
  BY <1>5 DEF LoopOK, Fits, SliceType
<1> QED
  BY <1>1, <1>2, <1>3, <1>5, <1>6, <1>7

LEMMA MovedCells ==
  ASSUME TypeOK, NEW cap \in Nat, order.len =< cap
  PROVE  /\ Moved(order, cap) \in Seq(Cell) /\ Len(Moved(order, cap)) = cap
         /\ \A j \in 1..order.len : Moved(order, cap)[j] = heap[order.arr][j]
BY NamedParts DEF Moved, HeapOK, Fits, SliceType, Cell

LEMMA ShiftedCells ==
  ASSUME NEW s \in Seq(Cell), NEW n \in 1..Len(s), NEW i \in 1..n
  PROVE  /\ Shifted(s, i, n) \in Seq(Cell) /\ Len(Shifted(s, i, n)) = Len(s)
         /\ \A j \in 1..Len(s) :
              Shifted(s, i, n)[j] = IF j \in i..(n - 1) THEN s[j + 1] ELSE s[j]
BY DEF Shifted

-----------------------------------------------------------------------------
(* What an append does to the heap.                                        *)

Others == {copy.slice.arr} \cup {loops[i].slice.arr : i \in DOMAIN loops}

Appended(k) ==
  /\ HeapOK' /\ Fits(order)'
  /\ order'.len = order.len + 1
  /\ order'.arr \in Array
  /\ \A j \in 1..order.len : heap'[order'.arr][j] = heap[order.arr][j]
  /\ heap'[order'.arr][order.len + 1] = k
  /\ order'.arr \in Others => order'.arr = order.arr
  /\ \A a \in Others :
       /\ Len(heap'[a]) = Len(heap[a])
       /\ \A j \in 1..Len(heap[a]) :
            a # order'.arr \/ j # order.len + 1 => heap'[a][j] = heap[a][j]

LEMMA InPlace ==
  ASSUME TypeOK, NEW k \in Key, AppendInPlace(k)
  PROVE  Appended(k)
<1>1. HeapOK /\ Fits(order) /\ order.len < Len(heap[order.arr])
  BY NamedParts DEF AppendInPlace
<1>2. order.arr \in Array
  BY <1>1 DEF HeapOK, Fits, SliceType
<1> DEFINE cells == ReplaceAt(heap[order.arr], order.len + 1, k)
<1>3. /\ cells \in Seq(Cell) /\ Len(cells) = Len(heap[order.arr])
      /\ cells[order.len + 1] = k
      /\ \A j \in 1..Len(heap[order.arr]) : j # order.len + 1 => cells[j] = heap[order.arr][j]
  <2>1. /\ heap[order.arr] \in Seq(Cell)
        /\ order.len + 1 \in 1..Len(heap[order.arr])
        /\ k \in Cell
    BY <1>1, <1>2 DEF HeapOK, Fits, SliceType, Cell
  <2> QED
    BY <2>1 DEF ReplaceAt
<1>4. /\ heap' = [heap EXCEPT ![order.arr] = cells]
      /\ order' = Slice(order.arr, order.len + 1)
  BY DEF AppendInPlace
<1>5. Others \subseteq Address
  BY NamedParts DEF Others
<1> HIDE DEF cells
<1>6. HeapOK' /\ Fits(order)'
  BY <1>1, <1>2, <1>3, <1>4 DEF HeapOK, Fits, SliceType
<1> QED
  BY <1>1, <1>2, <1>3, <1>4, <1>5, <1>6 DEF Appended, HeapOK, Fits, SliceType

LEMMA Moving ==
  ASSUME TypeOK, NEW k \in Key, AppendMoving(k), UNCHANGED <<loops, copy>>
  PROVE  Appended(k)
<1>1. HeapOK /\ Fits(order) /\ Others \subseteq Address
  BY NamedParts DEF Others
<1>2. PICK a \in Free, cap \in (order.len + 1)..MaxCap :
        /\ order' = Slice(a, order.len + 1)
        /\ heap'  = Collected([heap EXCEPT
                      ![a] = ReplaceAt(Moved(order, cap), order.len + 1, k)])
  BY DEF AppendMoving
<1>3. a \in Array /\ a \notin Others /\ a # order.arr
  BY DEF Free, InUse, Others
<1> DEFINE cells == ReplaceAt(Moved(order, cap), order.len + 1, k)
<1>4. /\ cells \in Seq(Cell) /\ Len(cells) = cap
      /\ cells[order.len + 1] = k
      /\ \A j \in 1..order.len : cells[j] = heap[order.arr][j]
  <2>1. /\ cap \in Nat /\ order.len + 1 \in 1..cap /\ order.len \in Nat
    BY <1>1 DEF Fits, SliceType
  <2>2. /\ Moved(order, cap) \in Seq(Cell) /\ Len(Moved(order, cap)) = cap
        /\ \A j \in 1..order.len : Moved(order, cap)[j] = heap[order.arr][j]
    BY <2>1, MovedCells
  <2> HIDE DEF cells
  <2>3. /\ cells \in Seq(Cell) /\ Len(cells) = cap /\ cells[order.len + 1] = k
        /\ \A j \in 1..cap : j # order.len + 1 => cells[j] = Moved(order, cap)[j]
    <3>1. /\ order.len + 1 \in 1..Len(Moved(order, cap)) /\ k \in Cell
      BY <2>1, <2>2 DEF Cell
    <3>2. /\ cells \in Seq(Cell) /\ Len(cells) = Len(Moved(order, cap))
          /\ cells[order.len + 1] = k
          /\ \A j \in 1..Len(Moved(order, cap)) :
               j # order.len + 1 => cells[j] = Moved(order, cap)[j]
      BY <2>2, <3>1 DEF cells, ReplaceAt
    <3> QED
      BY <2>2, <3>2
  <2> QED
    BY <2>1, <2>2, <2>3
<1> HIDE DEF cells
<1>5. InUse(order', copy', loops') = {a} \cup Others
  BY <1>2 DEF InUse, Others
<1>6. heap' = [b \in Address |-> IF b \in {a} \cup Others
                                 THEN [heap EXCEPT ![a] = cells][b] ELSE <<>>]
  BY <1>1, <1>2, <1>5 DEF Collected, HeapOK, cells
<1>7. heap'[a] = cells /\ \A b \in Others : heap'[b] = heap[b]
  BY <1>1, <1>3, <1>6 DEF HeapOK
<1>8. HeapOK'
  BY <1>1, <1>3, <1>4, <1>6 DEF HeapOK
<1>9. Fits(order)'
  BY <1>1, <1>2, <1>3, <1>4, <1>7 DEF Fits, SliceType
<1> QED
  BY <1>1, <1>2, <1>3, <1>4, <1>7, <1>8, <1>9 DEF Appended, HeapOK, Fits, SliceType

-----------------------------------------------------------------------------
(* What a delete does to it.                                               *)

Deleted(i) ==
  /\ HeapOK' /\ Fits(order)'
  /\ order'.arr = order.arr /\ order'.len = order.len - 1
  /\ \A j \in 1..(order.len - 1) :
       heap'[order.arr][j] = IF j < i THEN heap[order.arr][j] ELSE heap[order.arr][j + 1]
  /\ \A j \in 1..Len(heap[order.arr]) :
       heap'[order.arr][j] = IF j \in i..(order.len - 1)
                             THEN heap[order.arr][j + 1] ELSE heap[order.arr][j]
  /\ Len(heap'[order.arr]) = Len(heap[order.arr])
  /\ \A a \in Address : a # order.arr => heap'[a] = heap[a]

LEMMA Deleting ==
  ASSUME TypeOK, NEW k \in Key, Delete(k)
  PROVE  \E i \in 1..order.len : heap[order.arr][i] = k /\ Deleted(i)
<1>1. HeapOK /\ Fits(order) /\ order.arr \in Address /\ order.len \in Nat
  BY NamedParts DEF Fits, SliceType
<1>2. PICK i \in 1..order.len :
        /\ heap[order.arr][i] = k
        /\ heap' = [heap EXCEPT ![order.arr] = Shifted(@, i, order.len)]
  BY DEF Delete
<1>3. order' = Slice(order.arr, order.len - 1)
  BY DEF Delete
<1> DEFINE cells == Shifted(heap[order.arr], i, order.len)
<1>4. /\ cells \in Seq(Cell) /\ Len(cells) = Len(heap[order.arr])
      /\ \A j \in 1..Len(heap[order.arr]) :
           cells[j] = IF j \in i..(order.len - 1) THEN heap[order.arr][j + 1]
                      ELSE heap[order.arr][j]
  <2>1. heap[order.arr] \in Seq(Cell) /\ order.len \in 1..Len(heap[order.arr])
    BY <1>1, <1>2 DEF HeapOK, Fits
  <2>2. PICK s \in Seq(Cell) : s = heap[order.arr]
    BY <2>1
  <2>3. cells = Shifted(s, i, order.len) /\ order.len \in 1..Len(s)
    BY <2>1, <2>2
  <2> HIDE DEF cells
  <2> QED
    BY <2>2, <2>3, <1>2, ShiftedCells
<1>5. heap' = [heap EXCEPT ![order.arr] = cells]
  BY <1>2
<1>6. order.arr # NoArray
  BY <1>1, <1>2 DEF HeapOK, Fits
<1> HIDE DEF cells
<1>7. HeapOK' /\ Fits(order)'
  BY <1>1, <1>2, <1>3, <1>4, <1>5, <1>6 DEF HeapOK, Fits, SliceType
<1>8. heap'[order.arr] = cells /\ \A a \in Address : a # order.arr => heap'[a] = heap[a]
  BY <1>1, <1>5 DEF HeapOK
<1>9. ASSUME NEW j \in 1..(order.len - 1)
      PROVE  heap'[order.arr][j] = IF j < i THEN heap[order.arr][j] ELSE heap[order.arr][j + 1]
  <2>1. j \in 1..Len(heap[order.arr]) /\ (j \in i..(order.len - 1) <=> ~(j < i))
    BY <1>1, <1>2 DEF Fits, HeapOK
  <2> QED
    BY <1>4, <1>8, <2>1
<1>10. Deleted(i)
  BY <1>3, <1>4, <1>7, <1>8, <1>9 DEF Deleted
<1> QED
  BY <1>2, <1>10

-----------------------------------------------------------------------------
(* The invariant holds at first and is kept by every step.                 *)

LEMMA InitInv == Init => Inv
<1> SUFFICES ASSUME Init PROVE Inv
  OBVIOUS
<1>1. Keys = {} /\ order = Nil /\ copy = [slice |-> Nil, was |-> <<>>] /\ loops = <<>>
      /\ heap = [a \in Address |-> <<>>]
  BY DEF Init, Keys
<1>2. TypeOK
  BY <1>1 DEF TypeOK, SliceType, Nil
<1>3. Listed /\ LoopInv
  BY <1>1 DEF Listed, LoopInv, Nil
<1>4. Own
  BY <1>1 DEF Own, Elems, Nil
<1> QED
  BY <1>2, <1>3, <1>4 DEF Inv

LEMMA SetKnownInv ==
  ASSUME Inv, NEW k \in Key, NEW v \in Value, SetKnown(k, v)
  PROVE  Inv'
<1>1. Keys' = Keys /\ \A x \in Keys : dict'[x] \in Value
  BY DEF SetKnown, Assign, Keys, Inv, TypeOK
<1>2. UNCHANGED <<order, heap, loops, copy>>
  BY DEF SetKnown
<1>3. TypeOK'
  BY <1>1, <1>2 DEF Inv, TypeOK
<1>4. Listed'
  BY <1>1, <1>2 DEF Inv, Listed
<1>5. Own'
  BY <1>2 DEF Inv, Own, Elems
<1>6. LoopInv'
  BY <1>1, <1>2 DEF Inv, LoopInv, Sees, Steady
<1> QED
  BY <1>3, <1>4, <1>5, <1>6 DEF Inv

LEMMA SetNewInv ==
  ASSUME Inv, NEW k \in Key, NEW v \in Value, SetNew(k, v)
  PROVE  Inv'
<1>1. Keys' = Keys \cup {k} /\ \A x \in Keys \cup {k} : dict'[x] \in Value
  BY DEF SetNew, Assign, Keys, Inv, TypeOK
<1>2. UNCHANGED <<loops, copy>> /\ k \notin Keys
  BY DEF SetNew
<1>3. Appended(k)
  BY <1>2, InPlace, Moving DEF SetNew, Inv
<1>4. /\ Keys \subseteq Key /\ HeapOK /\ Fits(order) /\ Fits(copy.slice)
      /\ copy \in [slice : SliceType, was : Seq(Key)]
      /\ loops \in Seq(LoopType) /\ \A i \in DOMAIN loops : LoopOK(loops[i])
  BY NamedParts DEF Inv
<1>5. /\ copy.slice.arr \in Others
      /\ \A i \in DOMAIN loops : loops[i].slice.arr \in Others
  BY DEF Others
<1>6. TypeOK'
  <2>1. Fits(copy.slice)'
    BY <1>2, <1>3, <1>4, <1>5 DEF Fits, Appended
  <2>2. ASSUME NEW i \in DOMAIN loops PROVE Fits(loops[i].slice)'
    BY <1>2, <1>3, <1>4, <1>5 DEF Fits, Appended, LoopOK
  <2> QED
    BY <1>1, <1>2, <1>3, <1>4, <2>1, <2>2
    DEF TypeOK, Appended, Fits, HeapOK, Inv, Cell
<1>7. Listed'
  <2> order.len \in Nat /\ order'.len = order.len + 1
    BY <1>3, <1>4 DEF Appended, Fits, SliceType
  <2>1. \A j \in 1..order'.len :
          heap'[order'.arr][j] = IF j = order.len + 1 THEN k ELSE heap[order.arr][j]
    BY <1>3 DEF Appended
  <2>2. \A j \in 1..order'.len : j = order.len + 1 \/ j \in 1..order.len
    OBVIOUS
  <2>3. \A j \in 1..order.len : heap[order.arr][j] \in Keys
    BY DEF Inv, Listed
  <2>4. \A j \in 1..order'.len : heap'[order'.arr][j] \in Keys'
    BY <1>1, <2>1, <2>2, <2>3
  <2>5. ASSUME NEW x \in Keys'
        PROVE  \E j \in 1..order'.len : heap'[order'.arr][j] = x
    <3>1. CASE x = k
      BY <2>1, <3>1
    <3>2. CASE x \in Keys
      <4>1. PICK j \in 1..order.len : heap[order.arr][j] = x
        BY <3>2 DEF Inv, Listed
      <4>2. j \in 1..order'.len /\ j # order.len + 1
        OBVIOUS
      <4> QED
        BY <2>1, <4>1, <4>2
    <3> QED
      BY <1>1, <3>1, <3>2
  <2>6. ASSUME NEW i \in 1..order'.len, NEW j \in 1..order'.len,
               heap'[order'.arr][i] = heap'[order'.arr][j]
        PROVE  i = j
    BY <1>2, <2>1, <2>2, <2>3, <2>6 DEF Inv, Listed
  <2> QED
    BY <2>4, <2>5, <2>6 DEF Listed
<1>8. Own'
  <2>1. copy.slice.arr # order.arr \/ copy.slice.arr = NoArray
    BY DEF Inv, Own
  <2>2. order'.arr # copy.slice.arr
    BY <1>3, <1>5, <2>1 DEF Appended
  <2>3. \A j \in 1..copy.slice.len : heap'[copy.slice.arr][j] = heap[copy.slice.arr][j]
    BY <1>3, <1>4, <1>5, <2>2 DEF Appended, Fits, SliceType, HeapOK
  <2> QED
    BY <1>2, <2>2, <2>3 DEF Inv, Own, Elems
<1>9. ASSUME NEW i \in DOMAIN loops PROVE Sees(loops[i])' /\ Steady(loops[i])'
  <2> DEFINE l == loops[i]
  <2>1. /\ Sees(l) /\ Steady(l) /\ LoopOK(l) /\ l.slice.arr \in Others /\ l' = l
    BY <1>2, <1>4, <1>5 DEF Inv, LoopInv
  <2>2. /\ l.slice.len \in Nat /\ l.slice.len =< Len(heap[l.slice.arr])
        /\ order.len \in Nat /\ order'.len = order.len + 1
    BY <1>3, <1>4, <2>1 DEF LoopOK, Fits, SliceType, Appended
  <2>3. ASSUME NEW j \in 1..l.slice.len
        PROVE  \/ heap'[l.slice.arr][j] = heap[l.slice.arr][j]
               \/ /\ l.slice.arr = order'.arr /\ l.slice.arr = order.arr
                  /\ j = order.len + 1 /\ heap'[l.slice.arr][j] = k
    <3>1. PICK a \in Others : a = l.slice.arr
      BY <2>1
    <3>2. j \in 1..Len(heap[a])
      BY <1>4, <2>1, <2>2, <3>1 DEF HeapOK, LoopOK, Fits, SliceType
    <3>3. \/ heap'[a][j] = heap[a][j]
          \/ a = order'.arr /\ j = order.len + 1
      BY <1>3, <3>2 DEF Appended
    <3> QED
      BY <1>3, <3>1, <3>3 DEF Appended
  <2>4. Sees(l)'
    BY <2>1, <2>3 DEF Sees
  <2>5. Steady(l)'
    BY <1>1, <1>3, <2>1, <2>2, <2>3 DEF Steady, Appended
  <2> QED
    BY <2>4, <2>5
<1> QED
  BY <1>2, <1>6, <1>7, <1>8, <1>9 DEF Inv, LoopInv

LEMMA DeleteInv ==
  ASSUME Inv, NEW k \in Key, Delete(k)
  PROVE  Inv'
<1>1. /\ Keys' = Keys \ {k} /\ \A x \in Keys \ {k} : dict'[x] \in Value
      /\ k \in Keys
  BY DEF Delete, Keys, Inv, TypeOK
<1>2. copy' = copy /\ loops' = [i \in DOMAIN loops |-> Disturbed(loops[i])]
  BY DEF Delete
<1>3. PICK d \in 1..order.len : heap[order.arr][d] = k /\ Deleted(d)
  BY Deleting DEF Inv
<1>4. /\ Keys \subseteq Key /\ HeapOK /\ Fits(order) /\ Fits(copy.slice)
      /\ copy \in [slice : SliceType, was : Seq(Key)]
      /\ loops \in Seq(LoopType) /\ \A i \in DOMAIN loops : LoopOK(loops[i])
      /\ copy.slice.arr \in Address
      /\ \A i \in DOMAIN loops : loops[i].slice.arr \in Address
  BY NamedParts DEF Inv
<1>5. \A a \in Address : Len(heap'[a]) = Len(heap[a])
  BY <1>3 DEF Deleted
<1>6. /\ order.len \in Nat /\ order.arr \in Address /\ order.len =< Len(heap[order.arr])
      /\ order'.arr = order.arr /\ order'.len = order.len - 1
  BY <1>3, <1>4 DEF Fits, SliceType, Deleted
<1>7. ASSUME NEW i \in DOMAIN loops
      PROVE  /\ Disturbed(loops[i]) \in LoopType /\ Disturbed(loops[i]).disturbed
             /\ Disturbed(loops[i]).slice = loops[i].slice
             /\ Disturbed(loops[i]).at = loops[i].at
             /\ Disturbed(loops[i]).current = loops[i].current
  BY <1>4 DEF Disturbed, Loop, LoopOK, LoopType
<1>8. TypeOK'
  <2>1. Fits(copy.slice)'
    BY <1>2, <1>4, <1>5 DEF Fits
  <2>2. ASSUME NEW i \in DOMAIN loops' PROVE Fits(loops[i].slice)' /\ loops'[i].at =< loops'[i].slice.len
    BY <1>2, <1>4, <1>5, <1>7 DEF Fits, LoopOK
  <2>3. loops' \in Seq(LoopType)
    BY <1>2, <1>4, <1>7
  <2>4. HeapOK' /\ Fits(order)'
    BY <1>3 DEF Deleted
  <2> QED
    BY <1>1, <1>2, <1>4, <2>1, <2>2, <2>3, <2>4
    DEF TypeOK, Fits, HeapOK, Inv, Cell, LoopType
<1>9. Listed'
  <2> DEFINE at(j) == IF j < d THEN j ELSE j + 1
  <2>1. \A j \in 1..order'.len :
          /\ at(j) \in 1..order.len /\ at(j) # d
          /\ heap'[order'.arr][j] = heap[order.arr][at(j)]
    BY <1>3, <1>6 DEF Deleted
  <2>2. \A i, j \in 1..order'.len : at(i) = at(j) => i = j
    BY <1>6
  <2>3. \A j \in 1..order.len : j # d => \E i \in 1..order'.len : at(i) = j
    <3> SUFFICES ASSUME NEW j \in 1..order.len, j # d
                 PROVE  \E i \in 1..order'.len : at(i) = j
      OBVIOUS
    <3>1. CASE j < d
      <4>1. j \in 1..order'.len /\ at(j) = j
        BY <1>6, <3>1
      <4> QED
        BY <4>1
    <3>2. CASE j > d
      <4>1. j - 1 \in 1..order'.len /\ at(j - 1) = j
        BY <1>6, <3>2
      <4> QED
        BY <4>1
    <3> QED
      BY <3>1, <3>2
  <2> HIDE DEF at
  <2>4. ASSUME NEW j \in 1..order'.len PROVE heap'[order'.arr][j] \in Keys'
    <3>1. heap[order.arr][at(j)] \in Keys /\ heap[order.arr][at(j)] # k
      BY <1>3, <2>1 DEF Inv, Listed
    <3> QED
      BY <1>1, <2>1, <3>1
  <2>5. ASSUME NEW x \in Keys' PROVE \E j \in 1..order'.len : heap'[order'.arr][j] = x
    <3>1. PICK j \in 1..order.len : heap[order.arr][j] = x /\ j # d
      BY <1>1, <1>3 DEF Inv, Listed
    <3>2. PICK i \in 1..order'.len : at(i) = j
      BY <2>3, <3>1
    <3> QED
      BY <2>1, <3>1, <3>2
  <2>6. ASSUME NEW i \in 1..order'.len, NEW j \in 1..order'.len,
               heap'[order'.arr][i] = heap'[order'.arr][j]
        PROVE  i = j
    BY <2>1, <2>2, <2>6 DEF Inv, Listed
  <2> QED
    BY <2>4, <2>5, <2>6 DEF Listed
<1>10. Own'
  <2>1. CASE copy.slice.arr = order.arr
    <3>1. order.len = 0
      BY <1>4, <1>6, <2>1 DEF Inv, Own, HeapOK
    <3> QED
      BY <1>3, <3>1
  <2>2. CASE copy.slice.arr # order.arr
    BY <1>2, <1>3, <1>4, <1>6, <2>2 DEF Inv, Own, Elems, Deleted
  <2> QED
    BY <2>1, <2>2
<1>11. ASSUME NEW i \in DOMAIN loops PROVE Sees(loops[i])' /\ Steady(loops[i])'
  <2>1. /\ loops'[i].slice = loops[i].slice /\ loops'[i].at = loops[i].at
        /\ loops'[i].current = loops[i].current /\ loops'[i].disturbed
    BY <1>2, <1>7
  <2>2. Steady(loops[i])'
    BY <2>1 DEF Steady
  <2>3. ASSUME NEW j \in 1..loops[i].slice.len
        PROVE  heap'[loops[i].slice.arr][j] \in Key
    <3>1. heap[loops[i].slice.arr][j] \in Key
      BY DEF Inv, LoopInv, Sees
    <3>2. CASE loops[i].slice.arr # order.arr
      BY <1>3, <1>4, <3>1, <3>2 DEF Deleted
    <3>3. CASE loops[i].slice.arr = order.arr
      <4>1. j \in 1..Len(heap[order.arr])
        BY <1>4, <1>6, <3>3 DEF LoopOK, Fits, SliceType, HeapOK
      <4>2. j \in d..(order.len - 1) => heap[order.arr][j + 1] \in Key
        BY <1>4, <1>6 DEF Inv, Listed
      <4> QED
        BY <1>3, <3>1, <3>3, <4>1, <4>2 DEF Deleted
    <3> QED
      BY <3>2, <3>3
  <2>4. Sees(loops[i])'
    BY <2>1, <2>3 DEF Inv, LoopInv, Sees
  <2> QED
    BY <2>2, <2>4
<1> QED
  BY <1>2, <1>8, <1>9, <1>10, <1>11 DEF Inv, LoopInv

LEMMA OneMore ==
  ASSUME NEW S, NEW s \in Seq(S), NEW e \in S
  PROVE  /\ Append(s, e) \in Seq(S)
         /\ \A i \in DOMAIN Append(s, e) :
              Append(s, e)[i] = e \/ (i \in DOMAIN s /\ Append(s, e)[i] = s[i])
OBVIOUS

LEMMA OneChanged ==
  ASSUME NEW S, NEW s \in Seq(S), NEW n \in DOMAIN s, NEW e \in S
  PROVE  /\ [s EXCEPT ![n] = e] \in Seq(S)
         /\ DOMAIN [s EXCEPT ![n] = e] = DOMAIN s
         /\ \A i \in DOMAIN s : [s EXCEPT ![n] = e][i] = e \/ [s EXCEPT ![n] = e][i] = s[i]
OBVIOUS

LEMMA OneLess ==
  ASSUME NEW S, NEW s \in Seq(S), s # <<>>
  PROVE  /\ Front(s) \in Seq(S)
         /\ \A i \in DOMAIN Front(s) : i \in DOMAIN s /\ Front(s)[i] = s[i]
BY DEF Front

\* The collector spares whatever is in use after the step.
LEMMA Spared ==
  ASSUME NEW h \in [Address -> Seq(Cell)], h[NoArray] = <<>>, heap' = Collected(h)
  PROVE  /\ HeapOK'
         /\ \A a \in InUse(order', copy', loops') : a \in Address => heap'[a] = h[a]
BY DEF Collected, HeapOK, Cell

LEMMA GetKeysInv ==
  ASSUME Inv, GetKeys
  PROVE  Inv' /\ UNCHANGED <<dict, order>> /\ heap'[order.arr] = heap[order.arr]
<1>1. PICK a \in Free :
        /\ UNCHANGED <<dict, order, loops>>
        /\ copy' = [slice |-> Slice(a, order.len), was |-> Elems(order)]
        /\ heap' = Collected([heap EXCEPT ![a] = Elems(order)])
  BY DEF GetKeys
<1>2. /\ Keys \subseteq Key /\ HeapOK /\ Fits(order)
      /\ loops \in Seq(LoopType) /\ \A i \in DOMAIN loops : LoopOK(loops[i])
      /\ order.len \in Nat /\ order.arr \in Address
      /\ \A i \in DOMAIN loops : loops[i].slice.arr \in Address
  BY NamedParts DEF Inv, Fits, SliceType
<1>3. a \in Array /\ a # order.arr /\ \A i \in DOMAIN loops : a # loops[i].slice.arr
  BY DEF Free, InUse
<1>4. Elems(order) \in Seq(Key) /\ Len(Elems(order)) = order.len
  <2>1. \A j \in 1..order.len : heap[order.arr][j] \in Key
    BY <1>2 DEF Inv, Listed
  <2> QED
    BY <1>2, <2>1 DEF Elems
<1>5. Elems(order) \in Seq(Cell)
  BY <1>4 DEF Cell
<1> DEFINE h == [heap EXCEPT ![a] = Elems(order)]
<1>6. /\ h \in [Address -> Seq(Cell)] /\ h[NoArray] = <<>> /\ h[a] = Elems(order)
      /\ \A b \in Address : b # a => h[b] = heap[b]
  BY <1>2, <1>3, <1>5 DEF HeapOK
<1>7. heap' = Collected(h)
  BY <1>1
<1> HIDE DEF h
<1>8. /\ HeapOK'
      /\ \A b \in InUse(order', copy', loops') : b \in Address => heap'[b] = h[b]
  BY <1>6, <1>7, Spared
<1>9. /\ heap'[order.arr] = heap[order.arr]
      /\ heap'[a] = Elems(order)
      /\ \A i \in DOMAIN loops : heap'[loops[i].slice.arr] = heap[loops[i].slice.arr]
  <2>1. order.arr \in InUse(order', copy', loops') /\ a \in InUse(order', copy', loops')
    BY <1>1 DEF InUse
  <2>2. \A i \in DOMAIN loops : loops[i].slice.arr \in InUse(order', copy', loops')
    BY <1>1 DEF InUse
  <2> QED
    BY <1>2, <1>3, <1>6, <1>8, <2>1, <2>2
<1>10. TypeOK'
  <2>1. copy' \in [slice : SliceType, was : Seq(Key)] /\ Fits(copy.slice)'
    BY <1>1, <1>2, <1>3, <1>4, <1>9 DEF Fits, SliceType
  <2>2. Fits(order)'
    BY <1>1, <1>2, <1>9 DEF Fits
  <2>3. ASSUME NEW i \in DOMAIN loops PROVE Fits(loops[i].slice)'
    BY <1>1, <1>2, <1>9 DEF Fits, LoopOK
  <2> QED
    BY <1>1, <1>2, <1>8, <2>1, <2>2, <2>3
    DEF TypeOK, Inv, Fits, HeapOK, Cell, Keys
<1>11. /\ dict' = dict /\ order' = order /\ loops' = loops
       /\ copy'.slice = Slice(a, order.len) /\ copy'.was = Elems(order)
  BY <1>1
<1>12. /\ heap'[order'.arr] = heap[order.arr] /\ heap'[copy'.slice.arr] = Elems(order)
       /\ \A i \in DOMAIN loops' : heap'[loops'[i].slice.arr] = heap[loops[i].slice.arr]
  BY <1>9, <1>11
<1>13. Listed'
  BY <1>11, <1>12 DEF Inv, Listed, Keys
<1>14. Own'
  <2>1. copy'.slice.arr # order'.arr
    BY <1>3, <1>11
  <2>2. Elems(copy.slice)' = copy'.was
    BY <1>2, <1>11, <1>12 DEF Elems
  <2> QED
    BY <2>1, <2>2 DEF Own
<1>15. LoopInv'
  BY <1>11, <1>12 DEF Inv, LoopInv, Sees, Steady, Keys
<1> QED
  BY <1>9, <1>10, <1>11, <1>13, <1>14, <1>15 DEF Inv

LEMMA BeginInv ==
  ASSUME Inv, Begin
  PROVE  Inv'
<1> DEFINE new == Loop(order, 0, Elems(order), NoKey, FALSE)
<1>1. loops' = Append(loops, new) /\ UNCHANGED <<dict, order, heap, copy>>
  BY DEF Begin
<1>2. /\ Keys \subseteq Key /\ HeapOK /\ Fits(order)
      /\ loops \in Seq(LoopType) /\ \A i \in DOMAIN loops : LoopOK(loops[i])
      /\ order.len \in Nat /\ Fits(copy.slice)
  BY NamedParts DEF Inv, Fits, SliceType
<1>3. \A j \in 1..order.len : heap[order.arr][j] \in Keys
  BY DEF Inv, Listed
<1>4. /\ Elems(order) \in Seq(Key) /\ Len(Elems(order)) = order.len
      /\ \A j \in 1..order.len : Elems(order)[j] = heap[order.arr][j]
  BY <1>2, <1>3 DEF Elems
<1>5. new \in LoopType /\ LoopOK(new)
  BY <1>2, <1>4 DEF Loop, LoopType, LoopOK, Fits, Cell
<1>6. Sees(new) /\ Steady(new)
  BY <1>2, <1>3, <1>4 DEF Loop, Sees, Steady
<1> HIDE DEF new
<1>7. /\ loops' \in Seq(LoopType)
      /\ \A i \in DOMAIN loops' : loops'[i] = new \/ (i \in DOMAIN loops /\ loops'[i] = loops[i])
  BY <1>1, <1>2, <1>5, OneMore
<1>8. TypeOK'
  <2>1. \A i \in DOMAIN loops' : LoopOK(loops'[i])
    BY <1>2, <1>5, <1>7
  <2>2. \A i \in DOMAIN loops' : Fits(loops[i].slice)' /\ loops'[i].at =< loops'[i].slice.len
    BY <1>1, <2>1 DEF LoopOK, Fits
  <2>3. Fits(order)' /\ Fits(copy.slice)' /\ HeapOK'
    BY <1>1, <1>2 DEF Fits, HeapOK
  <2> QED
    BY <1>1, <1>7, <2>2, <2>3 DEF Inv, TypeOK, Fits, HeapOK, LoopType, Cell, Keys
<1>9. LoopInv'
  BY <1>1, <1>6, <1>7 DEF Inv, LoopInv, Sees, Steady, Keys
<1>10. Listed' /\ Own'
  BY <1>1 DEF Inv, Listed, Own, Elems, Keys
<1> QED
  BY <1>8, <1>9, <1>10 DEF Inv

LEMMA VisitInv ==
  ASSUME Inv, Visit
  PROVE  Inv'
<1> DEFINE n == Len(loops)
           turned == Loop(Inner.slice, Inner.at + 1, Inner.first,
                          heap[Inner.slice.arr][Inner.at + 1], Inner.disturbed)
<1>1. /\ loops # <<>> /\ Inner.at < Inner.slice.len
      /\ loops' = [loops EXCEPT ![n] = turned] /\ UNCHANGED <<dict, order, heap, copy>>
  BY DEF Visit, InnerWith, ReplaceAt
<1>2. /\ loops \in Seq(LoopType) /\ \A i \in DOMAIN loops : LoopOK(loops[i])
      /\ Fits(order) /\ Fits(copy.slice) /\ HeapOK
  BY NamedParts DEF Inv
<1>3. n \in DOMAIN loops /\ Inner = loops[n]
  BY <1>1, <1>2 DEF Inner, Last
<1>4. LoopOK(Inner) /\ Sees(Inner) /\ Steady(Inner)
  BY <1>2, <1>3 DEF Inv, LoopInv
<1>5. /\ Inner.at \in Nat /\ Inner.slice.len \in Nat /\ Inner.at + 1 \in 1..Inner.slice.len
  BY <1>1, <1>4 DEF LoopOK, LoopType, Fits, SliceType
<1>6. turned \in LoopType /\ LoopOK(turned)
  BY <1>4, <1>5 DEF Loop, LoopOK, LoopType, Sees, Fits, Cell
<1>7. Sees(turned) /\ Steady(turned)
  BY <1>4, <1>5 DEF Loop, Sees, Steady
<1> HIDE DEF turned, n
<1>8. /\ loops' \in Seq(LoopType) /\ DOMAIN loops' = DOMAIN loops
      /\ \A i \in DOMAIN loops' : loops'[i] = turned \/ loops'[i] = loops[i]
  BY <1>1, <1>2, <1>3, <1>6, OneChanged
<1>10. TypeOK'
  <2>1. \A i \in DOMAIN loops' : LoopOK(loops'[i])
    BY <1>2, <1>6, <1>8
  <2>2. \A i \in DOMAIN loops' : Fits(loops[i].slice)' /\ loops'[i].at =< loops'[i].slice.len
    BY <1>1, <2>1 DEF LoopOK, Fits
  <2>3. Fits(order)' /\ Fits(copy.slice)' /\ HeapOK'
    BY <1>1, <1>2 DEF Fits, HeapOK
  <2> QED
    BY <1>1, <1>8, <2>2, <2>3 DEF Inv, TypeOK, Fits, HeapOK, LoopType, Cell, Keys
<1>11. LoopInv'
  BY <1>1, <1>7, <1>8 DEF Inv, LoopInv, Sees, Steady, Keys
<1>12. Listed' /\ Own'
  BY <1>1 DEF Inv, Listed, Own, Elems, Keys
<1> QED
  BY <1>10, <1>11, <1>12 DEF Inv

LEMMA LeaveInv ==
  ASSUME Inv, Leave
  PROVE  Inv' /\ UNCHANGED <<dict, order>> /\ heap'[order.arr] = heap[order.arr]
<1>1. /\ loops # <<>> /\ loops' = Front(loops) /\ UNCHANGED <<dict, order, copy>>
      /\ heap' = Collected(heap)
  BY DEF Leave
<1>2. /\ HeapOK /\ Fits(order) /\ Fits(copy.slice)
      /\ loops \in Seq(LoopType) /\ \A i \in DOMAIN loops : LoopOK(loops[i])
      /\ copy.slice.arr \in Address /\ order.arr \in Address
      /\ \A i \in DOMAIN loops : loops[i].slice.arr \in Address
  BY NamedParts DEF Inv, Fits, SliceType
<1>3. /\ loops' \in Seq(LoopType)
      /\ \A i \in DOMAIN loops' : i \in DOMAIN loops /\ loops'[i] = loops[i]
  BY <1>1, <1>2, OneLess
<1>4. /\ HeapOK'
      /\ \A a \in InUse(order', copy', loops') : a \in Address => heap'[a] = heap[a]
  BY <1>1, <1>2, Spared DEF HeapOK
<1>5. /\ heap'[order.arr] = heap[order.arr] /\ heap'[copy.slice.arr] = heap[copy.slice.arr]
      /\ \A i \in DOMAIN loops' : heap'[loops'[i].slice.arr] = heap[loops'[i].slice.arr]
  BY <1>1, <1>2, <1>3, <1>4 DEF InUse
<1>6. TypeOK'
  <2>1. \A i \in DOMAIN loops' : Fits(loops[i].slice)' /\ loops'[i].at =< loops'[i].slice.len
    BY <1>2, <1>3, <1>5 DEF LoopOK, Fits
  <2>2. Fits(order)' /\ Fits(copy.slice)'
    BY <1>1, <1>2, <1>5 DEF Fits
  <2> QED
    BY <1>1, <1>3, <1>4, <2>1, <2>2 DEF Inv, TypeOK, Fits, HeapOK, LoopType, Cell, Keys
<1>7. LoopInv'
  BY <1>1, <1>3, <1>5 DEF Inv, LoopInv, Sees, Steady, Keys
<1>8. Listed' /\ Own'
  BY <1>1, <1>5 DEF Inv, Listed, Own, Elems, Keys
<1> QED
  BY <1>1, <1>5, <1>6, <1>7, <1>8 DEF Inv

-----------------------------------------------------------------------------
(* The theorems.                                                           *)

LEMMA NextInv == Inv /\ [Next]_vars => Inv'
<1> SUFFICES ASSUME Inv, [Next]_vars PROVE Inv'
  OBVIOUS
<1>1. ASSUME NEW k \in Key, NEW v \in Value, SetKnown(k, v) \/ SetNew(k, v) PROVE Inv'
  BY <1>1, SetKnownInv, SetNewInv
<1>2. ASSUME NEW k \in Key, Delete(k) PROVE Inv'
  BY <1>2, DeleteInv
<1>3. CASE GetKeys
  BY <1>3, GetKeysInv
<1>4. CASE Begin
  BY <1>4, BeginInv
<1>5. CASE Visit
  BY <1>5, VisitInv
<1>6. CASE Leave
  BY <1>6, LeaveInv
<1>7. CASE UNCHANGED vars
  <2>1. dict' = dict /\ order' = order /\ heap' = heap /\ loops' = loops /\ copy' = copy
    BY <1>7
  <2>2. TypeOK'
    BY <2>1 DEF Inv, TypeOK, Keys
  <2>3. Listed' /\ Own'
    BY <2>1 DEF Inv, Listed, Own, Elems, Keys
  <2>4. LoopInv'
    BY <2>1 DEF Inv, LoopInv, Sees, Steady, Keys
  <2> QED
    BY <2>2, <2>3, <2>4 DEF Inv
<1> QED
  BY <1>1, <1>2, <1>3, <1>4, <1>5, <1>6, <1>7 DEF Next

LEMMA AlwaysInv == Spec => []Inv
BY InitInv, NextInv, PTL DEF Spec

\* Every key is listed once in m.order and nothing else is: the slice and the
\* Go map that set and delete keep apart always agree.
THEOREM AlwaysInStep == Spec => []InStep
<1>1. Inv => InStep
  <2> SUFFICES ASSUME Inv PROVE InStep
    OBVIOUS
  <2>1. /\ DOMAIN Elems(order) = 1..order.len
        /\ \A i \in 1..order.len : Elems(order)[i] = heap[order.arr][i]
    BY DEF Elems
  <2>2. Range(Elems(order)) = Keys
    BY <2>1 DEF Inv, Listed, Range
  <2>3. IsInjective(Elems(order))
    BY <2>1 DEF Inv, Listed, IsInjective
  <2> QED
    BY <2>2, <2>3 DEF InStep
<1> QED
  BY <1>1, AlwaysInv, PTL

\* What keys() or toSlice() returned never changes under the program's hands.
THEOREM AlwaysCopyIsOwn == Spec => []CopyIsOwn
<1>1. Inv => CopyIsOwn
  BY DEF Inv, Own, CopyIsOwn
<1> QED
  BY <1>1, AlwaysInv, PTL

\* A loop over a map from which nothing is deleted meets exactly the keys it
\* began with, whatever is added meanwhile and wherever append puts it.
THEOREM AlwaysUndisturbedLoop == Spec => []UndisturbedLoop
<1>1. ASSUME Inv, NEW i \in DOMAIN loops, ~loops[i].disturbed
      PROVE  /\ Elems(loops[i].slice) = loops[i].first
             /\ Range(loops[i].first) \subseteq Keys
             /\ loops[i].at \in 1..Len(loops[i].first) =>
                  loops[i].current = loops[i].first[loops[i].at]
  <2>1. Steady(loops[i]) /\ loops[i].first \in Seq(Key)
    BY <1>1, NamedParts DEF Inv, LoopInv, LoopOK, LoopType
  <2> QED
    BY <1>1, <2>1 DEF Steady, Elems, Range
<1>2. Inv => UndisturbedLoop
  BY <1>1 DEF UndisturbedLoop
<1> QED
  BY <1>2, AlwaysInv, PTL

\* Even one from which something is deleted meets nothing but keys.
THEOREM AlwaysOnlyKeysVisited == Spec => []OnlyKeysVisited
<1>1. Inv => OnlyKeysVisited
  BY DEF Inv, LoopInv, Sees, OnlyKeysVisited, Elems, Range
<1> QED
  BY <1>1, AlwaysInv, PTL

\* Sharing arrays never shows, for any keys and any growth of arrays.
THEOREM AliasingAlwaysSafe == Spec => []AliasingIsSafe
<1>1. CopyIsOwn /\ UndisturbedLoop /\ OnlyKeysVisited => AliasingIsSafe
  BY DEF AliasingIsSafe
<1> QED
  BY <1>1, AlwaysCopyIsOwn, AlwaysUndisturbedLoop, AlwaysOnlyKeysVisited, PTL

-----------------------------------------------------------------------------
(* The map implements the ordered list of entries.                         *)

LEMMA WithoutOne ==
  ASSUME NEW S, NEW s \in Seq(S), NEW i \in 1..Len(s)
  PROVE  RemoveAt(s, i) = [j \in 1..(Len(s) - 1) |-> IF j < i THEN s[j] ELSE s[j + 1]]
<1> DEFINE a == SubSeq(s, 1, i - 1)
           b == SubSeq(s, i + 1, Len(s))
<1>1. Len(s) \in Nat /\ i \in Int
  BY LenProperties
<1>2. a \in Seq(S) /\ Len(a) = i - 1 /\ \A j \in 1..(i - 1) : a[j] = s[j]
  OBVIOUS
<1>3. b \in Seq(S) /\ Len(b) = Len(s) - i /\ \A j \in 1..(Len(s) - i) : b[j] = s[i + j]
  OBVIOUS
<1> HIDE DEF a, b
<1>4. /\ a \o b \in Seq(S) /\ Len(a \o b) = Len(a) + Len(b)
      /\ \A j \in 1..(Len(a) + Len(b)) :
           (a \o b)[j] = IF j =< Len(a) THEN a[j] ELSE b[j - Len(a)]
  BY <1>2, <1>3, ConcatProperties
<1>5. Len(a) + Len(b) = Len(s) - 1
  BY <1>1, <1>2, <1>3
<1>6. ASSUME NEW j \in 1..(Len(s) - 1)
      PROVE  (a \o b)[j] = IF j < i THEN s[j] ELSE s[j + 1]
  <2>1. (a \o b)[j] = IF j < i THEN a[j] ELSE b[j - (i - 1)]
    BY <1>1, <1>2, <1>4, <1>5
  <2>2. CASE j < i
    BY <1>1, <1>2, <2>1, <2>2
  <2>3. CASE ~(j < i)
    <3>1. j - (i - 1) \in 1..(Len(s) - i) /\ i + (j - (i - 1)) = j + 1
      BY <1>1, <2>3
    <3> QED
      BY <1>3, <2>1, <2>3, <3>1
  <2> QED
    BY <2>2, <2>3
<1>7. DOMAIN (a \o b) = 1..(Len(s) - 1)
  BY <1>4, <1>5, LenProperties
<1>8. a \o b = [j \in 1..(Len(s) - 1) |-> (a \o b)[j]]
  <2>1. a \o b \in [1..(Len(s) - 1) -> S]
    BY <1>4, <1>5, LenProperties
  <2> QED
    BY <2>1
<1> QED
  BY <1>6, <1>8 DEF RemoveAt, a, b

LEMMA WithOneMore ==
  ASSUME NEW S, NEW s \in Seq(S), NEW e \in S
  PROVE  Append(s, e) = [j \in 1..(Len(s) + 1) |-> IF j = Len(s) + 1 THEN e ELSE s[j]]
<1>1. /\ Append(s, e) \in Seq(S) /\ Len(Append(s, e)) = Len(s) + 1
      /\ \A j \in 1..(Len(s) + 1) : Append(s, e)[j] = IF j = Len(s) + 1 THEN e ELSE s[j]
  OBVIOUS
<1>2. Append(s, e) \in [1..(Len(s) + 1) -> S]
  BY <1>1, LenProperties
<1> QED
  BY <1>1, <1>2

EntrySet == [key : Key, value : Value]

\* What the mapping says, entry by entry.
LEMMA EntriesAre ==
  ASSUME Inv
  PROVE  /\ order.len \in Nat
         /\ Entries = [i \in 1..order.len |-> Dict!Entry(heap[order.arr][i], dict[heap[order.arr][i]])]
         /\ Entries \in Seq(EntrySet) /\ Len(Entries) = order.len
<1>1. order.len \in Nat /\ Keys \subseteq Key /\ \A k \in Keys : dict[k] \in Value
  BY NamedParts DEF Inv, Fits, SliceType
<1>2. \A i \in 1..order.len : heap[order.arr][i] \in Keys
  BY DEF Inv, Listed
<1>3. Entries = [i \in 1..order.len |-> Dict!Entry(heap[order.arr][i], dict[heap[order.arr][i]])]
  BY DEF Entries, Elems, Dict!Entry
<1>4. \A i \in 1..order.len :
        Dict!Entry(heap[order.arr][i], dict[heap[order.arr][i]]) \in EntrySet
  BY <1>1, <1>2 DEF Dict!Entry, EntrySet
<1>5. Entries \in [1..order.len -> EntrySet]
  BY <1>3, <1>4
<1>6. Entries \in Seq(EntrySet) /\ Len(Entries) = order.len
  <2> DEFINE e == Entries
             S == EntrySet
  <2>1. e \in [1..order.len -> S]
    BY <1>5
  <2> HIDE DEF e, S
  <2>2. e \in Seq(S) /\ Len(e) = order.len
    BY <1>1, <2>1
  <2> QED
    BY <2>2 DEF e, S
<1> QED
  BY <1>1, <1>3, <1>6

LEMMA SetKnownPuts ==
  ASSUME Inv, NEW k \in Key, NEW v \in Value, SetKnown(k, v)
  PROVE  Dict!Put(k, v)
<1>1. PICK i \in 1..order.len : heap[order.arr][i] = k
  BY DEF SetKnown, Inv, Listed
<1>2. \A j \in 1..order.len : heap[order.arr][j] \in Keys /\ (heap[order.arr][j] = k <=> j = i)
  BY <1>1 DEF Inv, Listed
<1>3. /\ dict'[k] = v /\ \A x \in Keys : x # k => dict'[x] = dict[x]
      /\ order' = order /\ heap' = heap
  BY DEF SetKnown, Assign
<1>4. i \in Dict!IndexesOf(k)
  BY <1>1, EntriesAre DEF Dict!IndexesOf, Dict!Entry
<1>5. Entries' = [Entries EXCEPT ![i] = Dict!Entry(k, v)]
  <2>1. Entries' = [j \in 1..order.len |-> Dict!Entry(heap[order.arr][j], dict'[heap[order.arr][j]])]
    BY <1>3 DEF Entries, Elems, Dict!Entry
  <2>2. ASSUME NEW j \in 1..order.len
        PROVE  Entries'[j] = IF j = i THEN Dict!Entry(k, v) ELSE Entries[j]
    BY <1>1, <1>2, <1>3, <2>1, EntriesAre
  <2> QED
    BY <2>1, <2>2, EntriesAre
<1> QED
  BY <1>4, <1>5 DEF Dict!Put

LEMMA SetNewPuts ==
  ASSUME Inv, NEW k \in Key, NEW v \in Value, SetNew(k, v)
  PROVE  Dict!Put(k, v)
<1>1. Appended(k) /\ k \notin Keys
  BY InPlace, Moving DEF SetNew, Inv
<1>2. dict'[k] = v /\ \A x \in Keys : dict'[x] = dict[x]
  BY <1>1 DEF SetNew, Assign
<1>3. \A j \in 1..order.len : heap[order.arr][j] \in Keys
  BY DEF Inv, Listed
<1>4. Dict!IndexesOf(k) = {}
  BY <1>1, <1>3, EntriesAre DEF Dict!IndexesOf, Dict!Entry
<1>5. Entries' = Append(Entries, Dict!Entry(k, v))
  <2>1. Entries' = [j \in 1..(order.len + 1) |->
                      Dict!Entry(heap'[order'.arr][j], dict'[heap'[order'.arr][j]])]
    BY <1>1 DEF Entries, Elems, Dict!Entry, Appended
  <2>2. ASSUME NEW j \in 1..order.len PROVE Entries'[j] = Entries[j]
    BY <1>1, <1>2, <1>3, <2>1, EntriesAre DEF Appended
  <2>3. Entries'[order.len + 1] = Dict!Entry(k, v)
    BY <1>1, <1>2, <2>1, EntriesAre DEF Appended
  <2> QED
    <3>1. Append(Entries, Dict!Entry(k, v)) =
            [j \in 1..(order.len + 1) |->
               IF j = order.len + 1 THEN Dict!Entry(k, v) ELSE Entries[j]]
      <4>1. Dict!Entry(k, v) \in EntrySet
        BY DEF Dict!Entry, EntrySet
      <4> QED
        <5>1. PICK s \in Seq(EntrySet) : s = Entries
          BY EntriesAre
        <5>2. Len(s) = order.len
          BY <5>1, EntriesAre
        <5>3. PICK e \in EntrySet : e = Dict!Entry(k, v)
          BY <4>1
        <5>4. Append(s, e) = [j \in 1..(Len(s) + 1) |-> IF j = Len(s) + 1 THEN e ELSE s[j]]
          BY WithOneMore
        <5> QED
          BY <5>1, <5>2, <5>3, <5>4
    <3>2. \A j \in 1..(order.len + 1) :
            Entries'[j] = IF j = order.len + 1 THEN Dict!Entry(k, v) ELSE Entries[j]
      BY <2>2, <2>3, EntriesAre
    <3>3. Entries' = [j \in 1..(order.len + 1) |-> Entries'[j]]
      BY <2>1
    <3> QED
      BY <3>1, <3>2, <3>3
<1> QED
  BY <1>4, <1>5 DEF Dict!Put

LEMMA DeleteDrops ==
  ASSUME Inv, NEW k \in Key, Delete(k)
  PROVE  Dict!Drop(k)
<1>1. PICK i \in 1..order.len : heap[order.arr][i] = k /\ Deleted(i)
  BY Deleting DEF Inv
<1>2. /\ order.len \in Nat /\ order'.arr = order.arr /\ order'.len = order.len - 1
  BY <1>1, EntriesAre DEF Deleted
<1>3. \A j \in 1..order.len :
        /\ heap[order.arr][j] \in Keys
        /\ j # i => heap[order.arr][j] # k
  BY <1>1 DEF Inv, Listed
<1>4. \A x \in Keys : x # k => dict'[x] = dict[x]
  BY DEF Delete
<1>5. i \in Dict!IndexesOf(k)
  BY <1>1, EntriesAre DEF Dict!IndexesOf, Dict!Entry
<1>6. RemoveAt(Entries, i) =
        [j \in 1..(order.len - 1) |-> IF j < i THEN Entries[j] ELSE Entries[j + 1]]
  BY EntriesAre, WithoutOne
<1>7. Entries' = [j \in 1..(order.len - 1) |->
                    Dict!Entry(heap'[order.arr][j], dict'[heap'[order.arr][j]])]
  BY <1>2 DEF Entries, Elems, Dict!Entry
<1>8. ASSUME NEW j \in 1..(order.len - 1)
      PROVE  Entries'[j] = IF j < i THEN Entries[j] ELSE Entries[j + 1]
  <2>1. heap'[order.arr][j] = IF j < i THEN heap[order.arr][j] ELSE heap[order.arr][j + 1]
    BY <1>1 DEF Deleted
  <2>2. j \in 1..order.len /\ j + 1 \in 1..order.len
    BY <1>2
  <2> QED
    <3>1. CASE j < i
      <4>1. heap'[order.arr][j] = heap[order.arr][j] /\ j # i
        BY <2>1, <3>1
      <4>2. heap[order.arr][j] \in Keys /\ heap[order.arr][j] # k
        BY <1>3, <2>2, <4>1
      <4>3. Entries'[j] = Dict!Entry(heap[order.arr][j], dict[heap[order.arr][j]])
        BY <1>4, <1>7, <4>1, <4>2
      <4> QED
        BY <2>2, <3>1, <4>3, EntriesAre
    <3>2. CASE ~(j < i)
      <4>1. heap'[order.arr][j] = heap[order.arr][j + 1] /\ j + 1 # i
        BY <1>2, <2>1, <3>2, <2>2
      <4>2. heap[order.arr][j + 1] \in Keys /\ heap[order.arr][j + 1] # k
        BY <1>3, <2>2, <4>1
      <4>3. Entries'[j] = Dict!Entry(heap[order.arr][j + 1], dict[heap[order.arr][j + 1]])
        BY <1>4, <1>7, <4>1, <4>2
      <4> QED
        BY <2>2, <3>2, <4>3, EntriesAre
    <3> QED
      BY <3>1, <3>2
<1>9. Entries' = RemoveAt(Entries, i)
  BY <1>6, <1>7, <1>8
<1> QED
  BY <1>5, <1>9 DEF Dict!Drop, Dict!RemoveAt, RemoveAt

\* Every step of the emitted containers is a step of the ordered list of
\* entries the documentation promises, or leaves that list alone.
THEOREM ImplementsTheDict == Spec => ImplementsDict
<1>1. Init => Dict!Init
  BY DEF Init, Dict!Init, Entries, Nil
<1>2. ASSUME Inv, Inv', [Next]_vars PROVE [Dict!Next]_Entries
  <2>1. ASSUME NEW k \in Key, NEW v \in Value, SetKnown(k, v) \/ SetNew(k, v)
        PROVE  Dict!Next
    BY <1>2, <2>1, SetKnownPuts, SetNewPuts DEF Dict!Next
  <2>2. ASSUME NEW k \in Key, Delete(k) PROVE Dict!Next
    BY <1>2, <2>2, DeleteDrops DEF Dict!Next
  <2>3. ASSUME dict' = dict, order' = order, heap'[order.arr] = heap[order.arr]
        PROVE  Entries' = Entries
    BY <2>3 DEF Entries, Elems
  <2>4. CASE Begin \/ Visit \/ UNCHANGED vars
    BY <2>3, <2>4 DEF Begin, Visit
  <2>5. CASE GetKeys
    BY <1>2, <2>3, <2>5, GetKeysInv
  <2>6. CASE Leave
    BY <1>2, <2>3, <2>6, LeaveInv
  <2> QED
    BY <1>2, <2>1, <2>2, <2>4, <2>5, <2>6 DEF Next
<1> QED
  BY <1>1, <1>2, AlwaysInv, PTL DEF Spec, ImplementsDict, Dict!Spec
=============================================================================
