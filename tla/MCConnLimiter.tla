--------------------------- MODULE MCConnLimiter ---------------------------
(***************************************************************************)
(* A small instance of ConnLimiter: keys and handlers are interchangeable. *)
(***************************************************************************)
EXTENDS ConnLimiter, TLC

Symmetry == Permutations(Keys) \cup Permutations(Conns)
=============================================================================
