------------------------- MODULE MCDiscoveryClient -------------------------
(* A small instance of DiscoveryClient: a call per connection. *)
EXTENDS DiscoveryClient, TLC

CONSTANTS a1, q1, d1, d2

OwnConnections == (a1 :> d1) @@ (q1 :> d2)
=============================================================================
