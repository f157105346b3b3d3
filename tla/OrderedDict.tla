---------------------------- MODULE OrderedDict ----------------------------
(***************************************************************************)
(* What lang-spec/builtins.md promises of Map<K, V>: a list of entries in  *)
(* the order their keys were first set.  A Set<T> is one whose values say  *)
(* nothing.  OrderedMap implements this with a Go map and a slice.         *)
(***************************************************************************)
EXTENDS Sequences, SequencesExt

CONSTANTS Key, Value

VARIABLE entries

Entry(k, v) == [key |-> k, value |-> v]
IndexesOf(k) == {i \in DOMAIN entries : entries[i].key = k}

Init == entries = <<>>

\* A new key goes to the end, a known one keeps its place.
Put(k, v) ==
  \/ /\ IndexesOf(k) = {}
     /\ entries' = Append(entries, Entry(k, v))
  \/ \E i \in IndexesOf(k) : entries' = [entries EXCEPT ![i] = Entry(k, v)]

\* The others keep their order.
Drop(k) == \E i \in IndexesOf(k) : entries' = RemoveAt(entries, i)

Next == \E k \in Key : Drop(k) \/ \E v \in Value : Put(k, v)

Spec == Init /\ [][Next]_entries
=============================================================================
