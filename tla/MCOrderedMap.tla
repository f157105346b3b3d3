---------------------------- MODULE MCOrderedMap ----------------------------
(* Instances of OrderedMap for TLC.                                        *)
EXTENDS OrderedMap, TLC

\* Keys, values and addresses are interchangeable; there is no liveness.
Symmetry == Permutations(Key) \cup Permutations(Array) \cup Permutations(Value)
=============================================================================
