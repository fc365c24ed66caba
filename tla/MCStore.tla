------------------------------ MODULE MCStore ------------------------------
(* Store with interchangeable keys, fields and values. *)
EXTENDS Store, TLC

Symmetry == Permutations(Keys) \cup Permutations(Fields) \cup Permutations(Values)

MCTTLs == {-1, 0, 1}

MCIndices == -3 .. 2
=============================================================================
