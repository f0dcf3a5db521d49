-------------------------- MODULE MC_HubLifecycle --------------------------
(* Instances of HubLifecycle for TLC.                                      *)
EXTENDS HubLifecycle, TLC

Symmetry == Permutations(Req)
=============================================================================
