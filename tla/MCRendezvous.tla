---------------------------- MODULE MCRendezvous ----------------------------
(* Rendezvous on small instances. *)
EXTENDS Rendezvous, TLC

RendezvousSymmetry == Permutations(Conns) \cup Permutations(Sids)
=============================================================================
