----------------------------- MODULE MC_HubBackup -----------------------------
\* A small instance of HubBackup for TLC.
EXTENDS HubBackup, TLC

\* Names of snapshots and requests are alike to the code.
Perms == Permutations(Snaps) \cup Permutations(Reqs) \cup Permutations(Restores)
=============================================================================
