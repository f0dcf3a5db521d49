----------------------------- MODULE MC_HubCreate -----------------------------
(* Instances of HubCreate for TLC.                                         *)
EXTENDS HubCreate, TLC
=============================================================================
