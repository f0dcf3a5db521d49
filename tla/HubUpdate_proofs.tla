-------------------------- MODULE HubUpdate_proofs --------------------------
(* Proofs about HubUpdate, for any names, any updates and any faults.      *)
EXTENDS HubUpdate, TLAPS

TierSteps == {"tier_ita", "tier_reticulum", "tier_hpa", "tier_label"}
SubSteps  == {"sub_check", "sub_secret", "sub_hubs", "sub_spoke", "sub_ingress", "sub_label",
              "sub_pods"}
RenameSteps == SubSteps \ {"sub_check", "sub_secret"}
Undeploys   == {"undeploy_hubs", "undeploy_spoke", "unset_domain"}

\* An update is at a call only when it asks for what the call does.
JobFits ==
  /\ pc \in {"tier_check", "tier_start"} \cup Undeploys => job.tier # None
  /\ pc \in TierSteps => job.tier \in TierNames
  /\ pc \in SubSteps => job.sub # None
  /\ pc \in RenameSteps => old \in Subdomains

Typed == TypeOK /\ JobFits

\* How far a change of tier has come.
TierSoFar ==
  /\ pc \in {"tier_reticulum", "tier_hpa", "tier_label"} => tier["ita"] = job.tier
  /\ pc \in {"tier_hpa", "tier_label"} => tier["reticulum"] = job.tier
  /\ pc = "tier_label" => tier["hpa"] = job.tier

\* Until the label moves it is the one that the update has found.
LabelStands == pc # "idle" => tier["label"] = before.tier

TierDone ==
  well /\ pc = "idle" /\ job.tier \in TierNames \ {before.tier}
    => \A p \in TierParts : tier[p] = job.tier

\* Before a rename: the names searched for are the Secret's, or strays.
Waiting == {"tier_check", "sub_check", "sub_secret"} \cup Undeploys

SubBefore ==
  pc \in Waiting => \A p \in Searched : sub[p] = sub["secret"] \/ p \in before.strays

\* How far a rename has come.
Renaming(l, done) ==
  pc = l => /\ \A p \in done : sub[p] = job.sub \/ p \in before.strays
            /\ \A p \in Searched \ done : sub[p] = old \/ p \in before.strays
            /\ sub["secret"] = job.sub

SubSoFar ==
  /\ Renaming("sub_hubs", {})
  /\ Renaming("sub_spoke", {"hubs"})
  /\ Renaming("sub_ingress", {"hubs", "spoke"})
  /\ Renaming("sub_label", Searched)
  /\ Renaming("sub_pods", Searched \cup {"label"})

SubDone ==
  well /\ pc \in TierSteps \cup {"idle", "tier_start"} /\ IsRename
    => \A p \in SubParts : sub[p] = job.sub \/ p \in before.strays

SubAgrees == SubBefore /\ SubSoFar /\ SubDone

\* What a downgrade has taken away from the hub stays away until it is done.
Emptied ==
  /\ pc = "undeploy_spoke" => "hubs" \notin custom
  /\ pc = "unset_domain" => custom \subseteq {"domain"}
  /\ /\ pc \notin {"idle", "tier_check"} \cup Undeploys
     /\ job.tier # None /\ ~IsB(job.tier) /\ IsB(tier["label"])
     => custom = {} \/ (unheard /\ custom = {"domain"})

TierAgrees == TierSoFar /\ LabelStands /\ TierDone

IInv == Typed /\ TierAgrees /\ SubAgrees

Steps == TierSteps \cup SubSteps \cup Undeploys \cup {"idle", "tier_check", "tier_start"}

LEMMA StepFacts == Labels = Steps
BY DEF Steps, Labels, TierSteps, SubSteps, Undeploys

-----------------------------------------------------------------------------

\* The calls of an update, by what they write.
Undeploying == TierCheck \/ UndeployHubs \/ UndeploySpoke \/ UnsetDomain \/ TierStart
Renames     == SubCheck \/ SubSecret \/ SubHubs \/ SubSpoke \/ SubIngress \/ SubLabel \/ SubPods
Retiers     == TierIta \/ TierReticulum \/ TierHpa \/ TierLabel
ByAdmin     == DeployClient \/ SetDomain

LEMMA NextCases ==
  ASSUME [Next]_vars
  PROVE  \/ Receive \/ Undeploying \/ Renames \/ Retiers \/ ByAdmin \/ Crash \/ UNCHANGED vars
BY DEF Next, Work, Undeploying, Renames, Retiers, ByAdmin

LEMMA InitType == Init => Typed
<1>. SUFFICES ASSUME Init PROVE Typed
  OBVIOUS
<1>1. before \in [tier : TierNames, strays : SUBSET Searched]
  BY NameAssumption DEF Init, Found, TierParts
<1>2. sub \in [SubParts -> Subdomains \cup {None}] /\ sub["secret"] \in Subdomains
  BY NameAssumption DEF Init, SubParts
<1>. QED
  BY <1>1, <1>2, NameAssumption, NoneAssumption DEF Init, Typed, TypeOK, JobFits, Labels, Undeploys,
     TierSteps, SubSteps, RenameSteps, Customs

LEMMA ReceiveType == Typed /\ Receive => Typed'
<1>. SUFFICES ASSUME Typed, Receive PROVE Typed'
  OBVIOUS
<1>1. before' \in [tier : TierNames, strays : SUBSET Searched]
  BY DEF Receive, Found, Typed, TypeOK, TierParts
<1>. QED
  BY <1>1, JobsAssumption DEF Receive, Typed, TypeOK, JobFits, JobSet, admin, Labels, Undeploys,
     TierSteps, SubSteps, RenameSteps

LEMMA UndeployType == Typed /\ Undeploying => Typed'
<1>. SUFFICES ASSUME Typed, Undeploying PROVE Typed'
  OBVIOUS
<1>. USE DEF UndeployHubs, UndeploySpoke, Undeploy
<1>1. UNCHANGED <<sub, tier, job, old, before>>
  BY DEF Undeploying, TierCheck, UnsetDomain, TierStart, Goto, Return, Troubled, Fail, Refused
<1>2. custom' \subseteq custom /\ client' \in BOOLEAN
  BY DEF Undeploying, TierCheck, UnsetDomain, TierStart, admin, Typed, TypeOK
<1>3. well' \in BOOLEAN /\ unheard' \in BOOLEAN
  BY DEF Undeploying, TierCheck, UnsetDomain, TierStart, Goto, Return, Troubled, Fail, Refused,
         Typed, TypeOK
<1>4. pc' \in Labels /\ JobFits'
  <2>. USE <1>1 DEF Goto, Return, Troubled, Fail, Refused, Labels, Typed, JobFits, Undeploys,
           TierSteps, SubSteps, RenameSteps
  <2>1. CASE TierCheck
    BY <2>1 DEF TierCheck, Rework
  <2>2. CASE UndeployHubs \/ UndeploySpoke
    BY <2>2
  <2>3. CASE UnsetDomain
    BY <2>3 DEF UnsetDomain, Rework
  <2>4. CASE TierStart
    BY <2>4 DEF TierStart
  <2>. QED  BY <2>1, <2>2, <2>3, <2>4 DEF Undeploying
<1>. QED
  BY <1>1, <1>2, <1>3, <1>4 DEF Typed, TypeOK

LEMMA ReplacedType ==
  ASSUME Typed, pc \in SubSteps, NEW name \in Subdomains \cup {None}
  PROVE  Replaced(name) \subseteq Subdomains \cup {None}
BY DEF Replaced, Typed, TypeOK, JobFits, JobSet

LEMMA RenameType == Typed /\ Renames => Typed'
<1>. SUFFICES ASSUME Typed, Renames PROVE Typed'
  OBVIOUS
<1>. USE DEF SubHubs, SubSpoke, SubIngress
<1>1. UNCHANGED <<tier, custom, client, job, before, unheard>>
  BY DEF Renames, SubCheck, SubSecret, SubLabel, SubPods, Replace, Goto, Troubled, FailPatch, admin
<1>2. pc \in SubSteps /\ job.sub \in Subdomains
  BY DEF Renames, SubCheck, SubSecret, SubLabel, SubPods, Replace, SubSteps, Typed, TypeOK, JobFits,
         JobSet
<1>3. /\ sub' \in [SubParts -> Subdomains \cup {None}] /\ sub'["secret"] \in Subdomains
      /\ old' \in Subdomains \cup {None}
  <2>1. CASE SubHubs
    BY <2>1, <1>2, ReplacedType DEF Replace, Typed, TypeOK, SubParts
  <2>2. CASE SubSpoke
    BY <2>2, <1>2, ReplacedType DEF Replace, Typed, TypeOK, SubParts
  <2>3. CASE SubIngress
    BY <2>3, <1>2, ReplacedType DEF Replace, Typed, TypeOK, SubParts
  <2>4. CASE SubCheck \/ SubSecret \/ SubLabel \/ SubPods
    BY <2>4, <1>2 DEF SubCheck, SubSecret, SubLabel, SubPods, Typed, TypeOK, SubParts
  <2>. QED  BY <2>1, <2>2, <2>3, <2>4 DEF Renames
<1>4. well' \in BOOLEAN
  BY DEF Renames, SubCheck, SubSecret, SubLabel, SubPods, Replace, Goto, Troubled, FailPatch, Typed,
         TypeOK
<1>5. pc' \in Labels /\ JobFits'
  BY <1>1, <1>2 DEF Renames, SubCheck, SubSecret, SubLabel, SubPods, Replace, Goto, Troubled,
     FailPatch, AfterPatch, Labels, Typed, TypeOK, JobFits, Undeploys, TierSteps, SubSteps,
     RenameSteps, SubParts
<1>. QED
  BY <1>1, <1>3, <1>4, <1>5 DEF Typed, TypeOK

LEMMA RetierType == Typed /\ Retiers => Typed'
<1>. SUFFICES ASSUME Typed, Retiers PROVE Typed'
  OBVIOUS
<1>. USE DEF SetTier, TierIta, TierReticulum, TierHpa, TierLabel
<1>1. UNCHANGED <<sub, custom, client, job, old, before, unheard>>
  BY DEF Retiers, Goto, Troubled, Fail, admin
<1>2. job.tier \in TierNames
  BY DEF Retiers, TierSteps, Typed, JobFits
<1>3. tier' \in [TierParts -> TierNames]
  BY <1>2 DEF Retiers, Typed, TypeOK
<1>4. well' \in BOOLEAN
  BY DEF Retiers, Goto, Troubled, Fail, Typed, TypeOK
<1>5. pc' \in Labels /\ JobFits'
  BY <1>1, <1>2 DEF Retiers, Goto, Troubled, Fail, Labels, Typed, JobFits, Undeploys, TierSteps,
     SubSteps, RenameSteps
<1>. QED
  BY <1>1, <1>3, <1>4, <1>5 DEF Typed, TypeOK

LEMMA OtherType == Typed /\ (ByAdmin \/ Crash \/ UNCHANGED vars) => Typed'
<1>1. Typed /\ ByAdmin => Typed'
  BY DEF ByAdmin, DeployClient, SetDomain, Typed, TypeOK, JobFits, Customs
<1>2. Typed /\ Crash => Typed'
  BY DEF Crash, Troubled, admin, Typed, TypeOK, JobFits, Labels, Undeploys, TierSteps, SubSteps,
     RenameSteps
<1>3. Typed /\ UNCHANGED vars => Typed'
  BY DEF vars, Typed, TypeOK, JobFits
<1>. QED  BY <1>1, <1>2, <1>3

LEMMA TypeStep == Typed /\ [Next]_vars => Typed'
BY NextCases, ReceiveType, UndeployType, RenameType, RetierType, OtherType

-----------------------------------------------------------------------------
(* A change of tier reaches its parts in turn.                             *)

LEMMA TierFacts ==
  Typed => /\ DOMAIN tier = TierParts
           /\ {"ita", "reticulum", "hpa", "label"} = TierParts
BY DEF Typed, TypeOK, TierParts, Deployments

\* A step that writes no tier and stays out of its calls, or gives up.
LEMMA TierKept ==
  ASSUME TierAgrees, UNCHANGED <<tier, before>>,
         \/ UNCHANGED <<pc, job, well>>
         \/ /\ pc # "idle" /\ pc' \notin TierSteps \ {"tier_ita"}
            /\ pc' = "idle" => ~well' \/ job'.tier \notin TierNames \ {before.tier}
  PROVE  TierAgrees'
BY DEF TierAgrees, TierSoFar, LabelStands, TierDone, TierSteps

LEMMA TierStepInv == Typed /\ TierAgrees /\ [Next]_vars => TierAgrees'
<1>. SUFFICES ASSUME Typed, TierAgrees, [Next]_vars PROVE TierAgrees'
  OBVIOUS
<1>. USE DEF TierSteps
<1>1. CASE Receive
  BY <1>1 DEF Receive, Found, TierAgrees, TierSoFar, LabelStands, TierDone
<1>2. CASE Undeploying
  <2>. USE TierKept DEF Goto, Return, Troubled, Fail, Refused
  <2>1. CASE TierCheck
    BY <2>1 DEF TierCheck, Rework, TierAgrees, LabelStands
  <2>2. CASE UndeployHubs \/ UndeploySpoke
    BY <2>2 DEF UndeployHubs, UndeploySpoke, Undeploy
  <2>3. CASE UnsetDomain
    BY <2>3 DEF UnsetDomain, Rework
  <2>4. CASE TierStart
    BY <2>4 DEF TierStart
  <2>. QED  BY <1>2, <2>1, <2>2, <2>3, <2>4 DEF Undeploying
<1>3. CASE Renames
  <2>. USE DEF Renames, SubCheck, SubSecret, SubLabel, SubPods, SubHubs, SubSpoke, SubIngress,
           Replace, Goto, Troubled, FailPatch, SubSteps
  <2>1. UNCHANGED <<tier, job, before>> /\ pc \in SubSteps
    BY <1>3
  <2>2. pc' \in SubSteps \/ pc' = AfterPatch
    BY <1>3
  <2>. QED
    BY <2>1, <2>2, TierKept, NoneAssumption DEF AfterPatch
<1>4. CASE Retiers
  <2>1. ASSUME Fault("k8s"), Troubled("idle"), UNCHANGED tier PROVE TierAgrees'
    BY <2>1 DEF Troubled, TierAgrees, TierSoFar, LabelStands, TierDone
  <2>. USE <2>1, TierFacts DEF SetTier, Goto, Fail, TierAgrees, TierSoFar, LabelStands, TierDone
  <2>2. CASE TierIta
    BY <2>2 DEF TierIta
  <2>3. CASE TierReticulum
    BY <2>3 DEF TierReticulum
  <2>4. CASE TierHpa
    BY <2>4 DEF TierHpa
  <2>5. CASE TierLabel
    BY <2>5 DEF TierLabel
  <2>. QED  BY <1>4, <2>2, <2>3, <2>4, <2>5 DEF Retiers
<1>5. CASE ByAdmin
  BY <1>5, TierKept DEF ByAdmin, DeployClient, SetDomain
<1>6. CASE Crash
  BY <1>6, TierKept DEF Crash, Troubled
<1>7. CASE UNCHANGED vars
  BY <1>7, TierKept DEF vars
<1>. QED  BY <1>1, <1>2, <1>3, <1>4, <1>5, <1>6, <1>7, NextCases

-----------------------------------------------------------------------------
(* A rename reaches its parts in turn.                                     *)

\* A step that writes no name, starts no rename, and ends well only what has
\* renamed already or is not to.
LEMMA SubKept ==
  ASSUME SubAgrees, UNCHANGED <<sub, before>>,
         \/ UNCHANGED <<pc, job, old, well>>
         \/ /\ UNCHANGED job /\ pc' \notin RenameSteps /\ (pc' \in Waiting => pc \in Waiting)
            /\ \/ ~well'
               \/ pc' \in Waiting
               \/ ~IsRename
               \/ UNCHANGED well /\ pc \in TierSteps \cup {"tier_start"}
  PROVE  SubAgrees'
<1>1. CASE UNCHANGED <<pc, job, old, well>>
  BY <1>1 DEF SubAgrees, SubBefore, SubSoFar, SubDone, Renaming, IsRename
<1>2. CASE /\ UNCHANGED job /\ pc' \notin RenameSteps /\ (pc' \in Waiting => pc \in Waiting)
           /\ \/ ~well'
              \/ pc' \in Waiting
              \/ ~IsRename
              \/ UNCHANGED well /\ pc \in TierSteps \cup {"tier_start"}
  <2>1. SubBefore'
    BY <1>2 DEF SubAgrees, SubBefore
  <2>2. SubSoFar'
    BY <1>2 DEF SubSoFar, Renaming, RenameSteps, SubSteps
  <2>3. SubDone'
    BY <1>2 DEF SubAgrees, SubDone, IsRename, Waiting, Undeploys, TierSteps
  <2>. QED  BY <2>1, <2>2, <2>3 DEF SubAgrees
<1>. QED  BY <1>1, <1>2

LEMMA SubFacts ==
  Typed => /\ DOMAIN sub = SubParts
           /\ {"secret", "hubs", "spoke", "ingress", "label", "pods"} = SubParts
           /\ {"hubs", "spoke", "ingress"} = Searched
BY DEF Typed, TypeOK, SubParts, Searched

LEMMA RenameStepInv == Typed /\ SubAgrees /\ Renames => SubAgrees'
<1>. SUFFICES ASSUME Typed, SubAgrees, Renames PROVE SubAgrees'
  OBVIOUS
<1>. USE DEF RenameSteps, SubSteps, Waiting, Undeploys, TierSteps
<1>1. ASSUME ~well', pc' \in {"idle", "tier_start"} PROVE SubAgrees'
  BY <1>1 DEF SubAgrees, SubBefore, SubSoFar, SubDone, Renaming
<1>2. AfterPatch \in {"idle", "tier_start"}
  BY DEF AfterPatch
<1>. USE <1>1, <1>2, SubFacts
         DEF Goto, Troubled, FailPatch, SubAgrees, SubBefore, SubSoFar, SubDone, Renaming
<1>3. CASE SubCheck
  BY <1>3 DEF SubCheck
<1>4. CASE SubSecret
  BY <1>4 DEF SubSecret
<1>5. CASE SubHubs
  BY <1>5 DEF SubHubs, Replace, Replaced
<1>6. CASE SubSpoke
  BY <1>6 DEF SubSpoke, Replace, Replaced
<1>7. CASE SubIngress
  BY <1>7 DEF SubIngress, Replace, Replaced
<1>8. CASE SubLabel
  BY <1>8 DEF SubLabel
<1>9. CASE SubPods
  BY <1>9 DEF SubPods
<1>. QED  BY <1>3, <1>4, <1>5, <1>6, <1>7, <1>8, <1>9 DEF Renames

LEMMA SubStepInv == Typed /\ TierAgrees /\ SubAgrees /\ [Next]_vars => SubAgrees'
<1>. SUFFICES ASSUME Typed, TierAgrees, SubAgrees, [Next]_vars PROVE SubAgrees'
  OBVIOUS
<1>. USE DEF RenameSteps, SubSteps, Waiting, Undeploys, TierSteps
<1>1. CASE Receive
  <2>1. pc' \in {"tier_check", "sub_check"} /\ UNCHANGED sub /\ before'.strays = Found.strays
    BY <1>1 DEF Receive
  <2>. QED  BY <2>1 DEF Found, SubAgrees, SubBefore, SubSoFar, SubDone, Renaming
<1>2. CASE Undeploying
  <2>1. LabelStands
    BY DEF TierAgrees
  <2>. USE SubKept, NoneAssumption DEF Goto, Return, Troubled, Fail, Refused, Typed, JobFits, IsRename
  <2>2. CASE TierCheck
    BY <2>1, <2>2 DEF TierCheck, Rework, LabelStands
  <2>3. CASE UndeployHubs \/ UndeploySpoke
    BY <2>3 DEF UndeployHubs, UndeploySpoke, Undeploy
  <2>4. CASE UnsetDomain
    BY <2>4 DEF UnsetDomain, Rework
  <2>5. CASE TierStart
    BY <2>5 DEF TierStart
  <2>. QED  BY <1>2, <2>2, <2>3, <2>4, <2>5 DEF Undeploying
<1>3. CASE Renames
  BY <1>3, RenameStepInv
<1>4. CASE Retiers
  <2>1. UNCHANGED <<sub, job, before>> /\ pc \in TierSteps
    BY <1>4 DEF Retiers, SetTier, TierIta, TierReticulum, TierHpa, TierLabel, Goto, Troubled, Fail
  <2>2. pc' \in TierSteps \cup {"idle"} /\ (UNCHANGED well \/ ~well')
    BY <1>4 DEF Retiers, SetTier, TierIta, TierReticulum, TierHpa, TierLabel, Goto, Troubled, Fail
  <2>. QED  BY <2>1, <2>2, SubKept
<1>5. CASE ByAdmin
  BY <1>5, SubKept DEF ByAdmin, DeployClient, SetDomain
<1>6. CASE Crash
  BY <1>6, SubKept DEF Crash, Troubled
<1>7. CASE UNCHANGED vars
  BY <1>7, SubKept DEF vars
<1>. QED  BY <1>1, <1>2, <1>3, <1>4, <1>5, <1>6, <1>7, NextCases

-----------------------------------------------------------------------------
(* A downgrade takes away what a hub below b must not have.                *)

LEMMA EmptiedStep ==
  Typed /\ Emptied /\ Admin # "during" /\ [Next]_vars => Emptied'
<1>. SUFFICES ASSUME Typed, Emptied, Admin # "during", [Next]_vars PROVE Emptied'
  OBVIOUS
<1>. USE DEF Undeploys
<1>1. CASE Receive
  BY <1>1 DEF Receive, Emptied
<1>2. CASE Undeploying
  <2>1. UNCHANGED <<tier, job>>
    BY <1>2 DEF Undeploying, TierCheck, UndeployHubs, UndeploySpoke, Undeploy, UnsetDomain, TierStart,
                Goto, Return, Troubled, Fail, Refused
  <2>2. custom \subseteq {"hubs", "spoke", "domain"}
    BY DEF Typed, TypeOK, Customs
  <2>. USE <2>1, <2>2 DEF Goto, Return, Troubled, Fail, Refused, Emptied
  <2>3. CASE TierCheck
    BY <2>3 DEF TierCheck, Rework, admin
  <2>4. CASE UndeployHubs
    BY <2>4 DEF UndeployHubs, Undeploy, admin
  <2>5. CASE UndeploySpoke
    BY <2>5 DEF UndeploySpoke, Undeploy, admin
  <2>6. CASE UnsetDomain
    BY <2>6 DEF UnsetDomain, Rework
  <2>7. CASE TierStart
    BY <2>7 DEF TierStart, admin
  <2>. QED  BY <1>2, <2>3, <2>4, <2>5, <2>6, <2>7 DEF Undeploying
<1>3. CASE Renames
  <2>1. UNCHANGED <<tier, job, custom, unheard>> /\ pc \in SubSteps
    BY <1>3 DEF Renames, SubCheck, SubSecret, SubLabel, SubPods, SubHubs, SubSpoke, SubIngress, Replace,
                Goto, Troubled, FailPatch, SubSteps, admin
  <2>2. pc' \in SubSteps \cup {"idle", "tier_start"}
    BY <1>3 DEF Renames, SubCheck, SubSecret, SubLabel, SubPods, SubHubs, SubSpoke, SubIngress, Replace,
                Goto, Troubled, FailPatch, AfterPatch, SubSteps
  <2>. QED  BY <2>1, <2>2 DEF Emptied, SubSteps
<1>4. CASE Retiers
  <2>1. UNCHANGED <<job, custom, unheard>> /\ pc \in TierSteps /\ pc' \in TierSteps \cup {"idle"}
    BY <1>4 DEF Retiers, SetTier, TierIta, TierReticulum, TierHpa, TierLabel, Goto, Troubled, Fail,
                TierSteps, admin
  <2>2. tier'["label"] = tier["label"] \/ pc' = "idle"
    BY <1>4, TierFacts DEF Retiers, SetTier, TierIta, TierReticulum, TierHpa, TierLabel, Goto, Fail
  <2>. QED  BY <2>1, <2>2 DEF Emptied, TierSteps
<1>5. CASE ByAdmin
  <2>1. pc = "idle" /\ pc' = "idle"
    BY <1>5 DEF ByAdmin, DeployClient, SetDomain, Served
  <2>. QED  BY <2>1 DEF Emptied
<1>6. CASE Crash
  BY <1>6 DEF Crash, Troubled, Emptied
<1>7. CASE UNCHANGED vars
  BY <1>7 DEF vars, Emptied
<1>. QED  BY <1>1, <1>2, <1>3, <1>4, <1>5, <1>6, <1>7, NextCases

\* Only the last call of a change of tier writes the label.
LEMMA LabelStep ==
  ASSUME Typed, [Next]_vars, tier'["label"] # tier["label"]
  PROVE  TierLabel /\ tier' = [tier EXCEPT !["label"] = job.tier]
<1>. USE TierFacts
<1>1. CASE Renames
  BY <1>1 DEF Renames, SubCheck, SubSecret, SubLabel, SubPods, SubHubs, SubSpoke, SubIngress, Replace
<1>2. CASE Undeploying
  BY <1>2 DEF Undeploying, TierCheck, UndeployHubs, UndeploySpoke, Undeploy, UnsetDomain, TierStart
<1>3. CASE Retiers
  BY <1>3 DEF Retiers, SetTier, TierIta, TierReticulum, TierHpa, TierLabel
<1>4. CASE Receive \/ ByAdmin \/ Crash \/ UNCHANGED vars
  BY <1>4 DEF Receive, ByAdmin, DeployClient, SetDomain, Crash, vars
<1>. QED  BY <1>1, <1>2, <1>3, <1>4, NextCases

-----------------------------------------------------------------------------

LEMMA InvInit == Init => IInv /\ Emptied
<1>. SUFFICES ASSUME Init PROVE IInv /\ Emptied
  OBVIOUS
<1>1. TierAgrees /\ Emptied
  BY NoneAssumption DEF Init, TierAgrees, TierSoFar, LabelStands, TierDone, Emptied
<1>2. SubAgrees
  BY DEF Init, SubAgrees, SubBefore, SubSoFar, SubDone, Renaming, IsRename, Waiting, Undeploys
<1>. QED  BY <1>1, <1>2, InitType DEF IInv

LEMMA InvStep == IInv /\ [Next]_vars => IInv'
BY TypeStep, TierStepInv, SubStepInv DEF IInv

\* Whatever updates are asked for and wherever they fail, an update is at a
\* call of its own, and the objects carry only what was asked for.
THEOREM TypeCorrect == Spec => []TypeOK
<1>1. IInv => TypeOK
  BY DEF IInv, Typed
<1>. QED  BY <1>1, InvInit, InvStep, PTL DEF Spec

\* An update that runs through reaches every object that carries the tier,
\* and every one that carries the name but those that were left behind by an
\* update before it, for any sequence of updates, however they have failed.
THEOREM TakesHold == Spec => []UpdateTakesHold
<1>1. IInv => UpdateTakesHold
  BY DEF IInv, SubAgrees, SubDone, TierAgrees, TierDone, UpdateTakesHold
<1>. QED  BY <1>1, InvInit, InvStep, PTL DEF Spec

\* Wherever an update fails or crashes, the label moves last.
THEOREM LabelIsLast == Spec => LabelLast
<1>1. IInv /\ [Next]_vars
       => [tier'["label"] # tier["label"] => \A p \in TierParts : tier'[p] = tier'["label"]]_vars
  BY LabelStep, TierFacts DEF IInv, TierAgrees, TierSoFar, TierLabel, SetTier
<1>. QED  BY <1>1, InvInit, InvStep, PTL DEF Spec, LabelLast

\* Wherever a downgrade fails or crashes, a hub that has left the b tiers keeps
\* nothing custom but a domain that ita said it had unset, if its admin waits
\* for updates to end.
THEOREM NothingKept == Admin # "during" => (Spec => NothingCustomBelowB)
<1>. SUFFICES ASSUME Admin # "during" PROVE Spec => NothingCustomBelowB
  OBVIOUS
<1>1. Typed /\ Emptied /\ [Next]_vars
       => [IsB(tier["label"]) /\ ~IsB(tier'["label"])
             => custom = {} \/ (unheard /\ custom = {"domain"})]_vars
  <2>. SUFFICES ASSUME Typed, Emptied, [Next]_vars, IsB(tier["label"]), ~IsB(tier'["label"])
                PROVE  custom = {} \/ (unheard /\ custom = {"domain"})
    OBVIOUS
  <2>1. TierLabel /\ tier'["label"] = job.tier
    BY LabelStep, TierFacts
  <2>. QED
    BY <2>1, NoneAssumption DEF TierLabel, SetTier, Emptied, Typed, JobFits, TierSteps, Undeploys
<1>2. Typed /\ Emptied /\ [Next]_vars => Typed' /\ Emptied'
  BY TypeStep, EmptiedStep
<1>3. Init => Typed /\ Emptied
  BY InvInit DEF IInv
<1>. QED  BY <1>1, <1>2, <1>3, PTL DEF Spec, NothingCustomBelowB
=============================================================================
