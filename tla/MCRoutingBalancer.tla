-------------------------- MODULE MCRoutingBalancer --------------------------
(* Two nodes, one call at a time, up to three lists. *)
EXTENDS RoutingBalancer, TLC

CONSTANTS n1, n2

Symmetry == Permutations({n1, n2})
=============================================================================
