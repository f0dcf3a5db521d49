--------------------------- MODULE MC_ClusterDeploy ---------------------------
\* A small instance of ClusterDeploy for TLC.
EXTENDS ClusterDeploy, TLC

\* Requests and fresh names are alike to the code.
Perms == Permutations(Reqs) \cup Permutations(Names)
=============================================================================
