---------------------------- MODULE MC_HubUpdate ----------------------------
(* Instances of HubUpdate for TLC.                                         *)
EXTENDS HubUpdate, TLC

CONSTANTS s1, s2, s3

\* As "room" is in "room-two".
Nested == {<<s1, s2>>} \cap (Subdomains \X Subdomains)

ToTier(t)      == [tier |-> t, sub |-> None]
ToSub(s)       == [tier |-> None, sub |-> s]
Downgrade(t, s) == [tier |-> t, sub |-> s]

SubJobs   == {ToSub(s) : s \in Subdomains}
TierJobs  == {ToTier(t) : t \in TierNames \cup {"free"}}
AllJobs   == SubJobs \cup TierJobs \cup {Downgrade("p0", s) : s \in Subdomains}
FewJobs   == SubJobs \cup {ToTier(t) : t \in {"p0", "b0", "free"}} \cup {Downgrade("p0", s) : s \in Subdomains}
=============================================================================
