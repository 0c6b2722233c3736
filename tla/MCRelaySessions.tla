-------------------------- MODULE MCRelaySessions --------------------------
(* RelaySessions on small instances. *)
EXTENDS RelaySessions, TLC

SessionSymmetry == Permutations(Conns) \cup Permutations(Keys)
=============================================================================
