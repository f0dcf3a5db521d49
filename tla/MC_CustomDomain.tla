--------------------------- MODULE MC_CustomDomain ---------------------------
(* Instances of CustomDomain for TLC.                                      *)
EXTENDS CustomDomain, TLC

CONSTANTS d1, d2

\* d1 is a part of d2, as example.com is of hubs.example.com.
OneInTwo == {<<d1, d2>>}
=============================================================================
