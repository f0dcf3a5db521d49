--------------------------- MODULE MC_BuildReport ---------------------------
(* Two webhooks, two goroutines and three tags, for TLC.                   *)
EXTENDS BuildReport
=============================================================================
