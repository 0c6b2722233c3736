--------------------------- MODULE MCTunnelBroker ---------------------------
(* TunnelBroker on small instances. *)
EXTENDS TunnelBroker, TLC

BrokerSymmetry == Permutations(Conns) \cup Permutations(Streams)
=============================================================================
