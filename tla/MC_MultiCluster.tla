--------------------------- MODULE MC_MultiCluster ---------------------------
(* Instances of MultiCluster for TLC.                                      *)
EXTENDS MultiCluster, TLC
=============================================================================
