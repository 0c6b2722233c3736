---------------------------- MODULE MCProxyRelay ----------------------------
(* ProxyRelay on small instances. *)
EXTENDS ProxyRelay, TLC
=============================================================================
