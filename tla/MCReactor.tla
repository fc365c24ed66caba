----------------------------- MODULE MCReactor -----------------------------
(* The reactor for TLC: sockets and workers are interchangeable. *)
EXTENDS Reactor, TLC

Symmetry == Permutations(Sockets) \cup Permutations(Workers)
=============================================================================
