--------------------------- MODULE MCConsulCluster ---------------------------
(***************************************************************************)
(* ConsulCluster instantiated for TLC.                                     *)
(***************************************************************************)
EXTENDS ConsulCluster, TLC

MCSymmetry == Permutations(Node)
=============================================================================
