--------------------------- MODULE MC_HubUpdater ----------------------------
(* Instances of HubUpdater for TLC.                                        *)
EXTENDS HubUpdater, TLC
=============================================================================
