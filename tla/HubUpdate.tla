----------------------------- MODULE HubUpdate -----------------------------
(***************************************************************************)
(* The hc_update task on one hub: a change of its tier, of its subdomain,  *)
(* or of both.  handle_hc_instance_req holds the hub's kubelocker around   *)
(* it, so that updates come one after the other; each is a sequence of     *)
(* writes to separate Kubernetes objects and of calls to the hub's ita,    *)
(* any of which may fail, and the hub's admin talks to ita meanwhile.      *)
(***************************************************************************)
EXTENDS Naturals, FiniteSets

CONSTANTS
  Subdomains,   \* names the hub may have
  FirstSub,     \* the one it is created with
  Within,       \* <<a, b>> if name a is a proper part of name b
  FirstTier,    \* the tier it is created with
  Jobs,         \* updates that are asked for, see JobSet
  None,         \* absent field of an update
  Admin,        \* when the hub's admin uses ita: "never", "between" or "during" updates
  Faults        \* which calls may fail, see FaultKinds

TierNames == {"p0", "p1", "b0"}

\* A request that asks for neither is refused as a bad one.
JobSet ==
  {j \in [tier : TierNames \cup {"free", None}, sub : Subdomains \cup {None}] :
     j.tier # None \/ j.sub # None}

\* k8s: a read or write of the API server errs; ita: a call to ita errs, or
\* its answer is lost; lock: ita does not get its kubelocker (an error, or
\* the lock is the one that orch holds, which src does not show); crash: the
\* orch pod dies.
FaultKinds == {"k8s", "ita", "lock", "crash"}

ASSUME NameAssumption   ==
  FirstSub \in Subdomains /\ FirstTier \in TierNames /\ Within \subseteq Subdomains \X Subdomains
ASSUME NoneAssumption   == None \notin TierNames \cup Subdomains \cup {"free"}
ASSUME JobsAssumption   == Jobs \subseteq JobSet
ASSUME SwitchAssumption ==
  Admin \in {"never", "between", "during"} /\ Faults \subseteq FaultKinds

VARIABLES
  sub,     \* subdomain found in each object that carries it
  tier,    \* tier found in each object that carries it
  custom,  \* clients and domain the admin has customised
  client,  \* ita's label custom-client is "yes"
  pc,      \* next call of the update
  job,     \* the update, or the last one when pc is "idle"
  old,     \* the local variable oldSubdomain
  well,    \* ghost: nothing has gone wrong in this update
  unheard, \* ghost: in this update ita has said yes to what it has not done
  before   \* ghost: how the update found the hub, see Found

vars  == <<sub, tier, custom, client, pc, job, old, well, unheard, before>>
admin == <<custom, client>>

SubParts    == {"secret", "hubs", "spoke", "ingress", "label", "pods"}
Searched    == {"hubs", "spoke", "ingress"}
Deployments == {"ita", "reticulum"}
TierParts   == Deployments \cup {"hpa", "label"}
Customs     == {"hubs", "spoke", "domain"}
Labels == {"idle", "tier_check", "undeploy_hubs", "undeploy_spoke", "unset_domain",
           "sub_check", "sub_secret", "sub_hubs", "sub_spoke", "sub_ingress", "sub_label",
           "sub_pods", "tier_start", "tier_ita", "tier_reticulum", "tier_hpa", "tier_label"}

IsB(t)   == t \in {"b0"}

\* ita has custom clients and domains only on a b tier, which it reads from
\* its own Deployment.
Features == IsB(tier["ita"])

Fault(k) == k \in Faults

-----------------------------------------------------------------------------

Goto(l) == pc' = l /\ UNCHANGED <<job, well, before>>
Return  == Goto("idle")

Troubled(l) == well' = FALSE /\ pc' = l /\ UNCHANGED <<job, before>>

\* A call errs, or is refused, and UpdateHubsCloudInstance returns; whatever
\* it returns, the writes before it stay.
Fail(k) == Fault(k) /\ Troubled("idle")
Refused == Troubled("idle")

\* hc_patch_subdomain is over, well or not: its error is only logged.
AfterPatch == IF job.tier # None THEN "tier_start" ELSE "idle"
FailPatch  == Fault("k8s") /\ Troubled(AfterPatch)

\* The tier in the label, and the objects whose name is not the Secret's.
Found == [tier |-> tier["label"], strays |-> {p \in Searched : sub[p] # sub["secret"]}]

Receive ==
  /\ pc = "idle"
  /\ \E j \in Jobs : /\ job' = j
                     /\ pc' = IF j.tier # None THEN "tier_check" ELSE "sub_check"
  /\ old' = None
  /\ well' = TRUE /\ unheard' = FALSE /\ before' = Found
  /\ UNCHANGED <<sub, tier, admin>>

-----------------------------------------------------------------------------
(* UpdateHubsCloudInstance: a change of tier.                              *)

\* A mistake: a downgrade to p0 always wants a subdomain.
ReworkAlways == IF job.tier = "p0" THEN "sub_check" ELSE "tier_start"

\* A tier upgrade, or a downgrade of a hub that has nothing to take away.
Rework == IF job.tier = "p0" /\ job.sub # None THEN "sub_check" ELSE "tier_start"

TierCheck ==
  /\ pc = "tier_check"
  /\ \/ tier["label"] = job.tier /\ Return
     \/ /\ tier["label"] # job.tier
        /\ Goto(IF IsB(tier["label"]) /\ ~IsB(job.tier) THEN "undeploy_hubs" ELSE Rework)
     \/ Fail("k8s")
  /\ UNCHANGED <<sub, tier, admin, old, unheard>>

\* A mistake: whichever client is asked for, it is hubs that goes.
UndeployOne(l, app, next) ==
  /\ pc = l /\ Features
  /\ custom' = custom \ {"hubs"} /\ client' = FALSE /\ Goto(next)
  /\ UNCHANGED <<sub, tier, old, unheard>>

\* ita's /undeploy takes no lock and clears the label whichever client it
\* undeploys.  Without the features it answers 404.
Undeploy(l, app, next) ==
  /\ pc = l
  /\ \/ /\ Features
        /\ custom' = custom \ {app} /\ client' = FALSE
        /\ Goto(next) \/ Fail("ita")
     \/ /\ (~Features /\ Refused) \/ Fail("ita")
        /\ UNCHANGED admin
  /\ UNCHANGED <<sub, tier, old, unheard>>

UndeployHubs  == Undeploy("undeploy_hubs", "hubs", "undeploy_spoke")
UndeploySpoke == Undeploy("undeploy_spoke", "spoke", "unset_domain")

\* ita's PATCH /custom-domain wants its own lock first; when it does not get
\* it, it returns without a status, which the client reads as 200.
UnsetDomain ==
  /\ pc = "unset_domain"
  /\ \/ "domain" \notin custom /\ Goto(Rework) /\ UNCHANGED <<custom, unheard>>
     \/ /\ "domain" \in custom /\ Features /\ Fault("lock")
        /\ unheard' = TRUE
        /\ Goto(Rework) /\ UNCHANGED custom
     \/ /\ "domain" \in custom /\ Features /\ ~client
        /\ custom' = custom \ {"domain"}
        /\ Goto(Rework) \/ Fail("ita")
        /\ UNCHANGED unheard
     \/ /\ \/ "domain" \in custom /\ (~Features \/ client) /\ Refused
           \/ Fail("ita")
        /\ UNCHANGED <<custom, unheard>>
  /\ UNCHANGED <<sub, tier, client, old>>

-----------------------------------------------------------------------------
(* hc_patch_subdomain.                                                     *)

SubCheck ==
  /\ pc = "sub_check"
  /\ \/ "domain" \notin custom /\ Goto("sub_secret")
     \/ "domain" \in custom /\ Troubled(AfterPatch)
     \/ FailPatch
  /\ UNCHANGED <<sub, tier, admin, old, unheard>>

\* A mistake: the old name is read once the Secret has the new one.
SubSecretFirst ==
  /\ pc = "sub_secret"
  /\ sub' = [sub EXCEPT !["secret"] = job.sub]
  /\ old' = job.sub
  /\ Goto("sub_hubs")
  /\ UNCHANGED <<tier, admin, unheard>>

\* The old name is read from the Secret that is overwritten next.
SubSecret ==
  /\ pc = "sub_secret"
  /\ \/ /\ old' = sub["secret"]
        /\ sub' = [sub EXCEPT !["secret"] = job.sub]
        /\ Goto("sub_hubs")
     \/ FailPatch /\ UNCHANGED <<sub, old>>
  /\ UNCHANGED <<tier, admin, unheard>>

\* In the other objects the old name is searched for, and replaced.  Of a name
\* that only contains it something is replaced as well; what comes out is any
\* name, or one that nobody has asked for (None).
Replaced(name) ==
  IF name = old THEN {job.sub}
  ELSE IF name = None \/ <<old, name>> \in Within THEN Subdomains \cup {None}
  ELSE {name}

Replace(l, part, next) ==
  /\ pc = l
  /\ \/ /\ \E name \in Replaced(sub[part]) : sub' = [sub EXCEPT ![part] = name]
        /\ Goto(next)
     \/ FailPatch /\ UNCHANGED sub
  /\ UNCHANGED <<tier, admin, old, unheard>>

SubHubs    == Replace("sub_hubs", "hubs", "sub_spoke")
SubSpoke   == Replace("sub_spoke", "spoke", "sub_ingress")
SubIngress == Replace("sub_ingress", "ingress", "sub_label")

SubLabel ==
  /\ pc = "sub_label"
  /\ \/ sub' = [sub EXCEPT !["label"] = job.sub] /\ Goto("sub_pods")
     \/ FailPatch /\ UNCHANGED sub
  /\ UNCHANGED <<tier, admin, old, unheard>>

\* Pods read the Secret when they are born again.
SubPods ==
  /\ pc = "sub_pods"
  /\ \/ sub' = [sub EXCEPT !["pods"] = sub["secret"]] /\ Goto(AfterPatch)
     \/ FailPatch /\ UNCHANGED sub
  /\ UNCHANGED <<tier, admin, old, unheard>>

-----------------------------------------------------------------------------
(* hc_updateTier.  Its error is only logged.                               *)

\* "free" becomes "p0" in the local variable, but it is cfg.Tier that must
\* be a key of map_tiers_retPodCnt.
TierStart ==
  /\ pc = "tier_start"
  /\ \/ job.tier \in TierNames /\ Goto("tier_ita")
     \/ job.tier \notin TierNames /\ Return
  /\ UNCHANGED <<sub, tier, admin, old, unheard>>

\* A mistake: an error is logged and passed over.
SetTierUnchecked(l, part, next) ==
  /\ pc = l
  /\ tier' \in {tier, [tier EXCEPT ![part] = job.tier]}
  /\ Goto(next)
  /\ UNCHANGED <<sub, admin, old, unheard>>

SetTier(l, part, next) ==
  /\ pc = l
  /\ \/ tier' = [tier EXCEPT ![part] = job.tier] /\ Goto(next)
     \/ Fail("k8s") /\ UNCHANGED tier
  /\ UNCHANGED <<sub, admin, old, unheard>>

TierIta       == SetTier("tier_ita", "ita", "tier_reticulum")
TierReticulum == SetTier("tier_reticulum", "reticulum", "tier_hpa")
TierHpa       == SetTier("tier_hpa", "hpa", "tier_label")
TierLabel     == SetTier("tier_label", "label", "idle")

-----------------------------------------------------------------------------
(* The hub's admin and its ita.                                            *)

\* ita serves the admin of a b-tier hub, under its own lock.
Served ==
  /\ Features
  /\ Admin = "during" \/ (Admin = "between" /\ pc = "idle")

\* ita's /deploy complains about a missing custom domain and goes on.
DeployClient ==
  /\ Served
  /\ \E app \in {"hubs", "spoke"} : custom' = custom \cup {app}
  /\ client' = TRUE
  /\ UNCHANGED <<sub, tier, pc, job, old, well, unheard, before>>

SetDomain ==
  /\ Served
  /\ custom' = custom \cup {"domain"}
  /\ UNCHANGED <<sub, tier, client, pc, job, old, well, unheard, before>>

\* The orch pod dies.
Crash ==
  /\ Fault("crash") /\ pc # "idle"
  /\ Troubled("idle")
  /\ UNCHANGED <<sub, tier, admin, old, unheard>>

Init ==
  /\ sub = [p \in SubParts |-> FirstSub]
  /\ tier = [p \in TierParts |-> FirstTier]
  /\ custom = {} /\ client = FALSE
  /\ pc = "idle" /\ job = [tier |-> None, sub |-> None] /\ old = None
  /\ well = TRUE /\ unheard = FALSE /\ before = Found

Work ==
  \/ TierCheck \/ UndeployHubs \/ UndeploySpoke \/ UnsetDomain
  \/ SubCheck \/ SubSecret \/ SubHubs \/ SubSpoke \/ SubIngress \/ SubLabel \/ SubPods
  \/ TierStart \/ TierIta \/ TierReticulum \/ TierHpa \/ TierLabel

Next == Receive \/ Work \/ DeployClient \/ SetDomain \/ Crash

Spec == Init /\ [][Next]_vars

-----------------------------------------------------------------------------
(* Properties.                                                             *)

\* Objects carry names and tiers that somebody asked for, and the update is at
\* a call of its own (hc_instance.go:495, 1216, hc_utils.go:526).
TypeOK ==
  /\ sub \in [SubParts -> Subdomains \cup {None}] /\ sub["secret"] \in Subdomains
  /\ tier \in [TierParts -> TierNames]
  /\ custom \subseteq Customs /\ client \in BOOLEAN
  /\ pc \in Labels
  /\ job \in JobSet \cup {[tier |-> None, sub |-> None]}
  /\ old \in Subdomains \cup {None}
  /\ well \in BOOLEAN /\ unheard \in BOOLEAN
  /\ before \in [tier : TierNames, strays : SUBSET Searched]

\* The update is one that renames: with the label's tier, "free", or another
\* tier than "p0", a new name is passed over (hc_instance.go:507, 563).
IsRename == job.sub # None /\ (job.tier = None \/ (job.tier = "p0" /\ before.tier # "p0"))

\* Whatever updates failed half way before it, one that runs through leaves
\* the new name in every object but those that had another than the Secret's
\* (a hub that was left between two names is mended by going to the one the
\* Secret has not), and a tier other than the label's in every object.
UpdateTakesHold ==
  well /\ pc = "idle" =>
    /\ IsRename => \A p \in SubParts : sub[p] = job.sub \/ p \in before.strays
    /\ job.tier \in TierNames \ {before.tier} => \A p \in TierParts : tier[p] = job.tier

\* The ingresses that are renamed have the name found in the Secret: anything
\* else is worth a warning (hc_instance.go:1287 "hostArr[0] != oldSubdomain").
\* A retry does otherwise, see HubUpdate_retry.cfg.
HostHasOldName ==
  [][pc = "sub_ingress" /\ sub'["ingress"] = job.sub /\ pc' = "sub_label" => sub["ingress"] = old]_vars

\* The label of the namespace, which decides whether there is anything to
\* update, moves only once everything else has.
LabelLast ==
  [][tier'["label"] # tier["label"]
       => \A p \in TierParts : tier'[p] = tier'["label"]]_vars

\* A hub that leaves the b tiers keeps no custom client, and its custom
\* domain only if ita answered that it was unset although it was not
\* (hc_instance.go:515 "downgrading from b tier to non-b tier").
NothingCustomBelowB ==
  [][IsB(tier["label"]) /\ ~IsB(tier'["label"])
       => custom = {} \/ (unheard /\ custom = {"domain"})]_vars

\* A hub that leaves the b tiers has no custom domain any more
\* (hc_instance.go:538 "undeploying custom domain").  It may have one still, see
\* HubUpdate_domain.cfg.
NoDomainBelowB ==
  [][IsB(tier["label"]) /\ ~IsB(tier'["label"]) => "domain" \notin custom]_vars
=============================================================================
