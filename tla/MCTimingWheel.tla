--------------------------- MODULE MCTimingWheel ---------------------------
(* TimingWheel with the constants of its run. *)
EXTENDS TimingWheel

MCTTLs == {1, 3}

MCDelays == {-1, 0, 1, 3}

MCIndices == {0}
=============================================================================
