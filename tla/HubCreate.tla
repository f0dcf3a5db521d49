----------------------------- MODULE HubCreate -----------------------------
(***************************************************************************)
(* The creation of one hub: POST /hc_instance, sent again by an impatient  *)
(* client, and DELETE.  Neither takes the hub's lock (hc_instance.go:149), *)
(* so the requests race for the namespace, the directory and the database  *)
(* of the hub.  One action is one call of CreateHubsCloudInstance or       *)
(* DeleteHubsCloudInstance to the outside.  A new hub is then initialised  *)
(* through its reticulum: its theme, and the scenes and avatars of a pack. *)
(* Names differ from those of ClusterDeploy, so that one module can extend *)
(* both.                                                                   *)
(***************************************************************************)
EXTENDS Naturals, FiniteSets

CONSTANTS
  Req,        \* request goroutines of all orch replicas
  Nil,        \* no request
  Assets,     \* scenes and avatars in the pack of the hub's tier
  Faults,     \* which calls may fail, see FaultKinds
  MaxDbFails  \* bound on the failures of one request's CREATE DATABASE

\* api: the List of namespaces errs; chart: the server-side apply stops half
\* way; psql: CREATE DATABASE errs; drop: DROP DATABASE errs; tier: a call
\* of hc_updateTier errs; ret: reticulum errs, or says yes with another body
\* than expected; crash: the orch pod dies.
FaultKinds == {"api", "chart", "psql", "drop", "tier", "ret", "crash"}

ASSUME ReqAssumption    == Nil \notin Req \cup Assets
ASSUME FaultsAssumption == Faults \subseteq FaultKinds
ASSUME DbAssumption     == MaxDbFails \in Nat

VARIABLES
  ns,      \* the namespace hc-<hub_id>
  hubDir,  \* the directory /turkeyfs/hc-<hub_id> exists
  db,      \* the request whose CREATE DATABASE made ret_<hub_id>, or None
  content, \* what has been loaded into that database, and by which request
  tiered,  \* hc_updateTier has run on this hub
  pc,      \* next call of each request
  isNew,   \* the local variable of CreateHubsCloudInstance
  left,    \* assets of the pack that the request has still to load
  asset,   \* the one whose listing it is about to post, or None
  dbFails, \* how often the request's CREATE DATABASE has failed
  result,  \* what the request has last answered: see HubTypeOK
  deleted  \* ghost: somebody has asked for the deletion of the hub

hub     == <<ns, hubDir, db, content, tiered>>
local   == <<isNew, left, asset, dbFails>>
hubVars == <<hub, pc, local, result, deleted>>

CreateSteps == {"cr_check", "cr_stat", "cr_mkdir", "cr_apply", "cr_db"}
InitSteps   == {"hacks", "token", "theme", "pack", "import", "list", "tier"}
DeleteSteps == {"dl_ns", "dl_files", "dl_db"}
Labels      == {"idle"} \cup CreateSteps \cup InitSteps \cup DeleteSteps

Fault(k) == k \in Faults

-----------------------------------------------------------------------------

GoOn(r, l) == pc' = [pc EXCEPT ![r] = l] /\ UNCHANGED <<result, deleted>>

\* The request answers, and goes on in the background if l is not "idle".
Answer(r, a, l) ==
  /\ result' = [result EXCEPT ![r] = a]
  /\ pc' = [pc EXCEPT ![r] = l]
  /\ UNCHANGED deleted

Begin(r, l) ==
  /\ pc[r] = "idle"
  /\ pc' = [pc EXCEPT ![r] = l]
  /\ result' = [result EXCEPT ![r] = "none"]
  /\ isNew' = [isNew EXCEPT ![r] = FALSE]
  /\ dbFails' = [dbFails EXCEPT ![r] = 0]
  /\ UNCHANGED <<hub, left, asset>>

RecvCreate(r) == Begin(r, "cr_check") /\ UNCHANGED deleted
RecvDelete(r) == Begin(r, "dl_ns") /\ deleted' = TRUE

-----------------------------------------------------------------------------
(* CreateHubsCloudInstance.                                                *)

\* A namespace labelled with the hub id means that there is nothing to do.
CreateCheck(r) ==
  /\ pc[r] = "cr_check"
  /\ \/ ns # "absent" /\ Answer(r, "created", "idle")
     \/ (ns = "absent" \/ Fault("api")) /\ GoOn(r, "cr_stat")
  /\ UNCHANGED <<hub, local>>

CreateStat(r) ==
  /\ pc[r] = "cr_stat"
  /\ isNew' = [isNew EXCEPT ![r] = ~hubDir]
  /\ GoOn(r, IF hubDir THEN "cr_apply" ELSE "cr_mkdir")
  /\ UNCHANGED <<hub, left, asset, dbFails>>

CreateMkdir(r) ==
  /\ pc[r] = "cr_mkdir"
  /\ hubDir' = TRUE
  /\ GoOn(r, "cr_apply")
  /\ UNCHANGED <<ns, db, content, tiered, local>>

\* Nothing can be created in a namespace that is being deleted.
CreateApply(r) ==
  /\ pc[r] = "cr_apply"
  /\ \/ ns # "terminating" /\ ns' = "active" /\ GoOn(r, "cr_db")
     \/ /\ ns = "terminating" \/ Fault("chart")
        /\ ns' \in IF ns = "absent" THEN {"absent", "active"} ELSE {ns}
        /\ Answer(r, "err", "idle")
  /\ UNCHANGED <<hubDir, db, content, tiered, local>>

\* Mistakes: the tries are counted down past zero; a database that exists
\* counts as new; that it exists is an error like the others.
CreateDbCountsDown(r) ==
  /\ pc[r] = "cr_db"
  /\ dbFails' = [dbFails EXCEPT ![r] = @ - 1]
  /\ UNCHANGED <<hub, isNew, left, asset, pc, result, deleted>>

CreateDbStaysNew(r) ==
  /\ pc[r] = "cr_db"
  /\ db' = IF db = Nil THEN r ELSE db
  /\ Answer(r, "created", IF isNew[r] THEN "hacks" ELSE "idle")
  /\ UNCHANGED <<ns, hubDir, content, tiered, local>>

CreateDbRetries(r) ==
  /\ pc[r] = "cr_db"
  /\ IF db = Nil
       THEN db' = r /\ Answer(r, "created", "idle")
       ELSE UNCHANGED <<db, pc, result, deleted>>
  /\ UNCHANGED <<ns, hubDir, content, tiered, local>>

\* Only the request that finds both directory and database missing starts
\* the initialisation.  Any other error is tried again at once, for ever:
\* createDB_tries is never decremented.
CreateDb(r) ==
  /\ pc[r] = "cr_db"
  /\ \/ /\ db = Nil
        /\ db' = r
        /\ Answer(r, "created", IF isNew[r] THEN "hacks" ELSE "idle")
        /\ UNCHANGED <<isNew, dbFails>>
     \/ /\ db # Nil
        /\ isNew' = [isNew EXCEPT ![r] = FALSE]
        /\ Answer(r, "created", "idle")
        /\ UNCHANGED <<db, dbFails>>
     \/ /\ Fault("psql") /\ dbFails[r] < MaxDbFails
        /\ dbFails' = [dbFails EXCEPT ![r] = @ + 1]
        /\ UNCHANGED <<db, isNew, pc, result, deleted>>
  /\ UNCHANGED <<ns, hubDir, content, tiered, left, asset>>

-----------------------------------------------------------------------------
(* The goroutine that initialises a new hub: an error of                   *)
(* post_creation_hacks is logged, and one of hc_updateTier dropped.        *)

\* Reticulum answers in a namespace that is there, being deleted or not; one
\* without its database does not.
RetServes == ns # "absent" /\ db # Nil
RetErr == ns # "active" \/ db = Nil \/ Fault("ret")

\* A call that writes; if it errs it may have written all the same.
Post(r, what, a) == content' = content \cup {[what |-> what, of |-> a, by |-> r]}
Lost(r, what, a) == RetErr /\ (UNCHANGED content \/ (RetServes /\ Post(r, what, a)))

WaitForRet(r) ==
  /\ pc[r] = "hacks"
  /\ (RetServes /\ GoOn(r, "token")) \/ (RetErr /\ GoOn(r, "tier"))
  /\ UNCHANGED <<hub, local>>

GetAdminToken(r) ==
  /\ pc[r] = "token"
  /\ (RetServes /\ GoOn(r, "theme")) \/ (RetErr /\ GoOn(r, "tier"))
  /\ UNCHANGED <<hub, local>>

\* Logos and app_configs; an error is logged.
SetDefaultTheme(r) ==
  /\ pc[r] = "theme"
  /\ (RetServes /\ Post(r, "theme", Nil)) \/ Lost(r, "theme", Nil)
  /\ GoOn(r, "pack")
  /\ UNCHANGED <<ns, hubDir, db, tiered, local>>

\* The list of default assets is not the hub's own.
GetPack(r) ==
  /\ pc[r] = "pack"
  /\ \/ left' = [left EXCEPT ![r] = Assets] /\ GoOn(r, "import")
     \/ Fault("ret") /\ UNCHANGED left /\ GoOn(r, "tier")
  /\ UNCHANGED <<hub, isNew, asset, dbFails>>

\* One line of the pack after the other; an error is logged.  An answer without
\* the id of what was imported makes the goroutine panic, see Panic.
ImportAsset(r, a) ==
  /\ pc[r] = "import" /\ a \in left[r]
  /\ left' = [left EXCEPT ![r] = @ \ {a}]
  /\ \/ RetServes /\ Post(r, "import", a) /\ asset' = [asset EXCEPT ![r] = a] /\ GoOn(r, "list")
     \/ Lost(r, "import", a) /\ UNCHANGED <<asset, pc, result, deleted>>
  /\ UNCHANGED <<ns, hubDir, db, tiered, isNew, dbFails>>

\* What was imported is read back and listed; nobody looks at the status.
ListAsset(r) ==
  /\ pc[r] = "list"
  /\ (RetServes /\ Post(r, "listing", asset[r])) \/ Lost(r, "listing", asset[r])
  /\ asset' = [asset EXCEPT ![r] = Nil] /\ GoOn(r, "import")
  /\ UNCHANGED <<ns, hubDir, db, tiered, isNew, left, dbFails>>

PackLoaded(r) ==
  /\ pc[r] = "import" /\ left[r] = {}
  /\ GoOn(r, "tier")
  /\ UNCHANGED <<hub, local>>

UpdateTier(r) ==
  /\ pc[r] = "tier"
  /\ tiered' \in IF Fault("tier") \/ ns # "active" THEN {tiered} ELSE {TRUE}
  /\ GoOn(r, "idle")
  /\ UNCHANGED <<ns, hubDir, db, content, local>>

-----------------------------------------------------------------------------
(* DeleteHubsCloudInstance(hubId, FALSE, FALSE).                           *)

DeleteNs(r) ==
  /\ pc[r] = "dl_ns"
  /\ ns' = IF ns = "active" THEN "terminating" ELSE ns
  /\ GoOn(r, "dl_files")
  /\ UNCHANGED <<hubDir, db, content, tiered, local>>

DeleteFiles(r) ==
  /\ pc[r] = "dl_files"
  /\ hubDir' = FALSE
  /\ GoOn(r, "dl_db")
  /\ UNCHANGED <<ns, db, content, tiered, local>>

DeleteDb(r) ==
  /\ pc[r] = "dl_db"
  /\ db' = Nil \/ (Fault("drop") /\ UNCHANGED db)
  /\ Answer(r, "deleted", "idle")
  /\ content' = IF db' = Nil THEN {} ELSE content
  /\ UNCHANGED <<ns, hubDir, tiered, local>>

-----------------------------------------------------------------------------

\* The process ends, and with it the requests that it serves.
Down(S) ==
  /\ pc' = [r \in Req |-> IF r \in S THEN "idle" ELSE pc[r]]
  /\ left' = [r \in Req |-> IF r \in S THEN {} ELSE left[r]]
  /\ asset' = [r \in Req |-> IF r \in S THEN Nil ELSE asset[r]]
  /\ UNCHANGED <<hub, isNew, dbFails, result, deleted>>

PodDies(S) == Fault("crash") /\ (\E r \in S : pc[r] # "idle") /\ Down(S)

\* ret_load_asset takes an element of what reticulum has answered, there or not.
Panic(S) == Fault("ret") /\ (\E r \in S : pc[r] = "import" /\ left[r] # {}) /\ Down(S)

NsFinalised ==
  /\ ns = "terminating"
  /\ ns' = "absent" /\ tiered' = FALSE
  /\ UNCHANGED <<hubDir, db, content, pc, local, result, deleted>>

HubInit ==
  /\ ns = "absent" /\ hubDir = FALSE /\ db = Nil /\ content = {} /\ tiered = FALSE
  /\ pc = [r \in Req |-> "idle"]
  /\ isNew = [r \in Req |-> FALSE]
  /\ left = [r \in Req |-> {}]
  /\ asset = [r \in Req |-> Nil]
  /\ dbFails = [r \in Req |-> 0]
  /\ result = [r \in Req |-> "none"]
  /\ deleted = FALSE

Receive(r) == RecvCreate(r) \/ RecvDelete(r)

PostCreationHacks(r) ==
  \/ WaitForRet(r) \/ GetAdminToken(r) \/ SetDefaultTheme(r) \/ GetPack(r)
  \/ (\E a \in Assets : ImportAsset(r, a)) \/ ListAsset(r) \/ PackLoaded(r)

RequestStep(r) ==
  \/ CreateCheck(r) \/ CreateStat(r) \/ CreateMkdir(r) \/ CreateApply(r) \/ CreateDb(r)
  \/ PostCreationHacks(r) \/ UpdateTier(r)
  \/ DeleteNs(r) \/ DeleteFiles(r) \/ DeleteDb(r)

HubNext ==
  \/ NsFinalised
  \/ \E r \in Req : Receive(r) \/ RequestStep(r)
  \/ \E S \in SUBSET Req : PodDies(S) \/ Panic(S)

HubSpec == HubInit /\ [][HubNext]_hubVars

\* Goroutines run, and Kubernetes finalises what it was told to delete.
HubLiveSpec == HubSpec /\ WF_hubVars(NsFinalised) /\ \A r \in Req : WF_hubVars(RequestStep(r))

-----------------------------------------------------------------------------
(* Properties.                                                             *)

Content == [what : {"theme", "import", "listing"}, of : Assets \cup {Nil}, by : Req]

\* Requests are at a call of theirs, and what is loaded into the database was
\* loaded by one of them, out of the pack (hc_instance.go:594, 710).
HubTypeOK ==
  /\ ns \in {"absent", "active", "terminating"}
  /\ hubDir \in BOOLEAN /\ tiered \in BOOLEAN
  /\ db \in Req \cup {Nil} /\ content \subseteq Content
  /\ pc \in [Req -> Labels]
  /\ isNew \in [Req -> BOOLEAN]
  /\ left \in [Req -> SUBSET Assets] /\ asset \in [Req -> Assets \cup {Nil}]
  /\ dbFails \in [Req -> 0..MaxDbFails]
  /\ result \in [Req -> {"none", "created", "deleted", "err"}]
  /\ deleted \in BOOLEAN

\* However many creations race, at most one of them loads default assets and
\* theme into the hub, and only into a database it has made itself, so that
\* no hub with content is initialised again (hc_instance.go:682); and nothing
\* is loaded twice over by two of them.
InitsOwnDb ==
  ~deleted => /\ \A r \in Req : pc[r] \in InitSteps => db = r
              /\ \A c \in content : c.by = db

\* A request gives up on CREATE DATABASE once its three tries are used up
\* (hc_instance.go:674 "createDB_tries := 3", 690 "tries left").  It does not,
\* see HubCreate_tries.cfg.
FewTries == \A r \in Req : pc[r] = "cr_db" => dbFails[r] < 4

\* Every request is answered at last, however creations and deletions
\* interleave, once CREATE DATABASE stops failing.
Answered == \A r \in Req : pc[r] # "idle" ~> pc[r] = "idle"
=============================================================================
