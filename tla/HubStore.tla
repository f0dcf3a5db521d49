------------------------------ MODULE HubStore ------------------------------
(***************************************************************************)
(* What turkeyorch promises the users of a hub: it is up or stored away,   *)
(* its data are what they have written, whichever of the two it is, and    *)
(* they are gone only once somebody has deleted the hub.  If the program   *)
(* that loads a dump may skip some of it, a restore may lose something;    *)
(* nothing else may.                                                       *)
(***************************************************************************)
EXTENDS Naturals

CONSTANT Lossy  \* loading a dump may skip a statement

VARIABLES
  status,  \* "up", "stored" or "gone"
  data,    \* number of writes the hub holds
  whole    \* nothing of them is missing

vars == <<status, data, whole>>

Init == status = "up" /\ data = 0 /\ whole = TRUE

Write   == status = "up" /\ data' = data + 1 /\ UNCHANGED <<status, whole>>
Collect == status = "up" /\ status' = "stored" /\ UNCHANGED <<data, whole>>
Restore == /\ status = "stored" /\ status' = "up" /\ UNCHANGED data
           /\ whole' \in {whole} \cup (IF Lossy THEN {FALSE} ELSE {})
Delete  == status # "gone" /\ status' = "gone" /\ data' = 0 /\ whole' = TRUE

Next == Write \/ Collect \/ Restore \/ Delete

Spec == Init /\ [][Next]_vars
=============================================================================
