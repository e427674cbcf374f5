--------------------------- MODULE MCLoadBalancer ---------------------------
(***************************************************************************)
(* LoadBalancer for TLC.                                                   *)
(***************************************************************************)
EXTENDS LoadBalancer, TLC

Symmetry == Permutations(Remotes)

=============================================================================
