----------------------------- MODULE MC_HubPause ------------------------------
(* Instances of HubPause for TLC.                                          *)
EXTENDS HubPause, TLC
=============================================================================
