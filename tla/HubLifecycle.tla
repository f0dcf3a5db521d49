--------------------------- MODULE HubLifecycle ---------------------------
(***************************************************************************)
(* The life of one hub under turkeyorch, from the end of its creation:     *)
(* collected to disk when idle, restored when somebody returns, switched   *)
(* up and down, deleted.  The requests of hc_instance.go and the return    *)
(* center's websocket run concurrently, on any number of orch replicas,    *)
(* over state that no transaction spans: a Kubernetes namespace, a         *)
(* PostgreSQL database, the files of /turkeyfs/hc-<hub_id> and a lookup    *)
(* ConfigMap.  One action is one call to one of them; anything may happen  *)
(* between two actions.  HubCreate models the creation.                    *)
(***************************************************************************)
EXTENDS Integers, FiniteSets

CONSTANTS
  Req,          \* request goroutines of all orch replicas
  Free,         \* the hub's kubelocker is not held
  Orphan,       \* ... is held by a request that died or failed to unlock
  MaxWrites,    \* bound on the writes of the hub's users
  Accepts,      \* which requests are made in this instance, see Tasks
  Faults,       \* which calls may fail in this instance, see FaultKinds
  QuietCollect  \* nobody writes between a collect's dump and its end

\* api: a read of the API server errs; chart: the server-side apply stops
\* half way; scale, delete_ns: the write is refused; drop, psql, dump: DROP
\* DATABASE, the creation and loading of a database, pg_dump err; sql: a
\* statement of a dump fails, and psql goes on; disk: a file write errs;
\* remove: the removal of a marker errs; lookup: the ConfigMap update errs
\* until RetryFunc gives up; lock, unlock: kubelocker errs; crash: the orch
\* pod dies.
FaultKinds == {"api", "chart", "scale", "delete_ns", "drop", "psql", "dump", "sql",
               "disk", "remove", "lookup", "lock", "unlock", "crash"}

\* The tasks of hc_task_translator, and the return center's websocket.
PatchTasks == {"hc_switch_up", "hc_switch_down", "hc_collect", "hc_restore"}
Tasks      == PatchTasks \cup {"hc_delete", "trc_ws"}

ASSUME ReqAssumption    == Free \notin Req /\ Orphan \notin Req /\ Free # Orphan
ASSUME BoundAssumption  == MaxWrites \in Nat
ASSUME FaultsAssumption == Faults \subseteq FaultKinds
ASSUME AcceptsAssumption == Accepts \subseteq Tasks
ASSUME QuietAssumption  == QuietCollect \in BOOLEAN

VARIABLES
  ns,       \* the namespace hc-<hub_id>
  pods,     \* the hub's deployments are scaled up
  nsLock,   \* the kubelocker kept in that namespace
  db,       \* the database ret_<hub_id>
  hubDir,   \* the directory /turkeyfs/hc-<hub_id> exists
  files,    \* which of its marker and configuration files exist
  dump,     \* its ret_<hub_id>.sql
  trc_ts,   \* its trc_ts, the time of the last restore
  lookup,   \* the turkey-return-center ConfigMap lists the subdomain
  pc,       \* next call of each request
  task,     \* what the request was asked, "none" when it is idle
  locked,   \* the request is past locker.Lock() in handle_hc_instance_req
  acked,    \* ghost: writes the hub's users have committed
  deleted   \* ghost: somebody asked for the deletion of the hub

cluster == <<ns, pods, nsLock>>
disk    == <<hubDir, files, dump, trc_ts>>
ghosts  == <<acked, deleted>>
request == <<pc, task, locked>>
locals  == <<task, locked>>
vars    == <<ns, pods, nsLock, db, hubDir, files, dump, trc_ts, lookup,
             pc, task, locked, acked, deleted>>

FileNames == {"collecting", "cfg.json", "cfg.json.wip"}

CollectSteps == {"co_flag", "co_cfg", "co_dump", "co_lookup"}
DeleteSteps  == {"dl_down", "dl_ns", "dl_files", "dl_db"}
RestoreSteps == {"rs_ns", "rs_blocked", "rs_cooldown", "rs_cfg", "rs_db",
                 "rs_wip", "rs_psql", "rs_ts", "rs_done"}
CreateSteps  == {"cr_check", "cr_apply", "cr_db"}
Labels == {"idle", "prelude", "lock", "switch", "co_done"}
            \cup CollectSteps \cup DeleteSteps \cup RestoreSteps \cup CreateSteps

\* A database or a dump: absent, being loaded or torn ("partial"), or the
\* hub's data up to write number ver, all of them or short of what a failed
\* statement was to load.
Content  == [st : {"absent", "partial", "short", "full"}, ver : Nat]
Absent   == [st |-> "absent", ver |-> 0]
Partial  == [st |-> "partial", ver |-> 0]
Short(v) == [st |-> "short", ver |-> v]
Full(v)  == [st |-> "full", ver |-> v]

Fault(k) == k \in Faults

\* What a complete copy of the hub's data is after v writes.
Copies(v) == {Full(v)} \cup (IF Fault("sql") THEN {Short(v)} ELSE {})

-----------------------------------------------------------------------------

\* Request r goes on to its call l.
Goto(r, l) ==
  /\ pc' = [pc EXCEPT ![r] = l]
  /\ UNCHANGED <<nsLock, locals>>

Exit(r) ==
  /\ pc' = [pc EXCEPT ![r] = "idle"]
  /\ task' = [task EXCEPT ![r] = "none"]
  /\ locked' = [locked EXCEPT ![r] = FALSE]

\* The handler returns; its deferred function unlocks the hub.  A failed
\* unlock is logged and leaves the lock held.
Return(r) ==
  /\ Exit(r)
  /\ \/ nsLock' = IF nsLock = r THEN Free ELSE nsLock
     \/ Fault("unlock") /\ nsLock' = IF nsLock = r THEN Orphan ELSE nsLock

\* hc_restore returned nil: handle_hc_instance_req goes on to lock the hub
\* when it was called to bring a collected hub back first.
Restored(r) ==
  IF task[r] # "trc_ws" /\ ~locked[r] THEN Goto(r, "lock") ELSE Return(r)

Collecting(r) == task[r] = "hc_collect" /\ pc[r] \in CollectSteps \cup DeleteSteps

\* Request r has created the database and not yet deployed the hub.
Loading(r) == pc[r] \in {"rs_wip", "rs_psql", "cr_check", "cr_apply"}

\* Request r is a collect whose dump is complete and whose drop is to come.
PastDump(r)   == task[r] = "hc_collect" /\ pc[r] \in {"co_lookup"} \cup DeleteSteps

-----------------------------------------------------------------------------
(* Requests arrive.                                                        *)

Begin(r, t, l) ==
  /\ t \in Accepts
  /\ pc[r] = "idle"
  /\ pc' = [pc EXCEPT ![r] = l]
  /\ task' = [task EXCEPT ![r] = t]
  /\ UNCHANGED <<cluster, db, disk, lookup, locked, acked>>

\* PATCH /hc_instance.
RecvPatch(r) ==
  /\ \E t \in PatchTasks : Begin(r, t, "prelude")
  /\ UNCHANGED deleted

\* DELETE /hc_instance.
RecvDelete(r) ==
  /\ Begin(r, "hc_delete", "dl_down")
  /\ deleted' = TRUE

\* A visitor of a listed subdomain has kept the return center's page open
\* for more than 9 seconds: trc_ws calls hc_restore, without the hub's lock.
RecvVisit(r) ==
  /\ lookup
  /\ Begin(r, "trc_ws", "rs_ns")
  /\ UNCHANGED deleted

-----------------------------------------------------------------------------
(* handle_hc_instance_req, for the tasks other than hc_create, hc_delete.  *)

\* A collected hub is restored first, whatever the task.
Prelude(r) ==
  /\ pc[r] = "prelude"
  /\ \/ ns = "absent" /\ Goto(r, "rs_ns")
     \/ (ns # "absent" \/ Fault("api")) /\ Goto(r, "lock")
  /\ UNCHANGED <<ns, pods, db, disk, lookup, ghosts>>

\* A mistake: the lock is taken over from whoever holds it.
LockStolen(r) ==
  /\ pc[r] = "lock" /\ ns = "active"
  /\ nsLock' = r
  /\ pc' = [pc EXCEPT ![r] = IF task[r] = "hc_collect" THEN "co_flag" ELSE "switch"]
  /\ locked' = [locked EXCEPT ![r] = TRUE]
  /\ UNCHANGED <<ns, pods, task, db, disk, lookup, ghosts>>

\* The lock object lives in the hub's namespace, so it can be taken only
\* while that namespace accepts objects; otherwise Lock() errs, as it may
\* when it has waited too long.
Lock(r) ==
  /\ pc[r] = "lock"
  /\ \/ /\ ns = "active" /\ nsLock = Free
        /\ nsLock' = r
        /\ pc' = [pc EXCEPT ![r] = CASE task[r] = "hc_collect" -> "co_flag"
                                     [] task[r] = "hc_restore" -> "rs_ns"
                                     [] OTHER                  -> "switch"]
        /\ locked' = [locked EXCEPT ![r] = TRUE]
        /\ UNCHANGED task
     \/ /\ ns # "active" \/ nsLock # Free \/ Fault("lock")
        /\ Return(r)
  /\ UNCHANGED <<ns, pods, db, disk, lookup, ghosts>>

\* hc_switch: a list or an update may err before every deployment is scaled.
Switch(r) ==
  /\ pc[r] = "switch"
  /\ \/ pods' = (ns = "active" /\ task[r] = "hc_switch_up")
     \/ Fault("scale") /\ UNCHANGED pods
  /\ Return(r)
  /\ UNCHANGED <<ns, db, disk, lookup, ghosts>>

-----------------------------------------------------------------------------
(* hc_collect, under the hub's lock.  Every error return leaves what the   *)
(* steps before it wrote.                                                  *)

\* A mistake: the flag has not the name that hc_restore looks for.
CollectFlagMisnamed(r) ==
  /\ pc[r] = "co_flag"
  /\ files' = files \cup {"collect"} /\ Goto(r, "co_cfg")
  /\ UNCHANGED <<ns, pods, db, hubDir, dump, trc_ts, lookup, ghosts>>

CollectFlag(r) ==
  /\ pc[r] = "co_flag"
  /\ \/ hubDir /\ files' = files \cup {"collecting"} /\ Goto(r, "co_cfg")
     \/ (~hubDir \/ Fault("disk")) /\ UNCHANGED files /\ Return(r)
  /\ UNCHANGED <<ns, pods, db, hubDir, dump, trc_ts, lookup, ghosts>>

CollectCfg(r) ==
  /\ pc[r] = "co_cfg"
  /\ \/ hubDir /\ files' = files \cup {"cfg.json"} /\ Goto(r, "co_dump")
     \/ (~hubDir \/ Fault("disk")) /\ UNCHANGED files /\ Return(r)
  /\ UNCHANGED <<ns, pods, db, hubDir, dump, trc_ts, lookup, ghosts>>

\* A mistake: an error of pg_dump does not end the collect.
CollectDumpUnchecked(r) ==
  /\ pc[r] = "co_dump"
  /\ dump' \in {db} \cup (IF Fault("dump") THEN {dump, Partial} ELSE {})
  /\ Goto(r, "co_lookup")
  /\ UNCHANGED <<ns, pods, db, hubDir, files, trc_ts, lookup, ghosts>>

\* pg_dump writes whatever the database holds; killed half way it leaves a
\* torn file.
CollectDump(r) ==
  /\ pc[r] = "co_dump"
  /\ \/ /\ hubDir /\ db # Absent
        /\ dump' = db
        /\ Goto(r, "co_lookup")
     \/ /\ ~hubDir \/ db = Absent \/ Fault("dump")
        /\ dump' \in IF hubDir /\ db # Absent THEN {dump, Partial} ELSE {dump}
        /\ Return(r)
  /\ UNCHANGED <<ns, pods, db, hubDir, files, trc_ts, lookup, ghosts>>

\* Under the trc-cm lock, subdomain |-> hub_id is added to the ConfigMap.
\* The result of RetryFunc is dropped: err still is that of locker.Lock().
CollectLookup(r) ==
  /\ pc[r] = "co_lookup"
  /\ \/ /\ lookup' \in IF Fault("lookup") THEN {lookup, TRUE} ELSE {TRUE}
        /\ \/ Goto(r, "dl_down")
           \/ Fault("unlock") /\ Return(r)
     \/ Fault("lock") /\ UNCHANGED lookup /\ Return(r)
  /\ UNCHANGED <<ns, pods, db, disk, ghosts>>

CollectDone(r) ==
  /\ pc[r] = "co_done"
  /\ files' \in {files \ {"collecting"}} \cup (IF Fault("remove") THEN {files} ELSE {})
  /\ Return(r)
  /\ UNCHANGED <<ns, pods, db, hubDir, dump, trc_ts, lookup, ghosts>>

-----------------------------------------------------------------------------
(* DeleteHubsCloudInstance(hubId, keepFiles, keepDB = FALSE), for          *)
(* hc_delete, which keeps nothing, and for hc_collect, which keeps the     *)
(* files.  Its goroutine logs every error and goes on.                     *)

DeleteDown(r) ==
  /\ pc[r] = "dl_down"
  /\ pods' \in IF Fault("scale") THEN {pods, FALSE} ELSE {FALSE}
  /\ Goto(r, "dl_ns")
  /\ UNCHANGED <<ns, nsLock, db, disk, lookup, ghosts>>

\* A mistake: keepFiles is ignored.
DeleteNsAndFiles(r) ==
  /\ pc[r] = "dl_ns"
  /\ ns' = IF ns = "active" THEN "terminating" ELSE ns
  /\ Goto(r, "dl_files")
  /\ UNCHANGED <<pods, nsLock, db, disk, lookup, ghosts>>

DeleteNs(r) ==
  /\ pc[r] = "dl_ns"
  /\ \/ ns' = IF ns = "active" THEN "terminating" ELSE ns
     \/ Fault("delete_ns") /\ UNCHANGED ns
  /\ Goto(r, IF task[r] = "hc_collect" THEN "dl_db" ELSE "dl_files")
  /\ UNCHANGED <<pods, nsLock, db, disk, lookup, ghosts>>

DeleteFiles(r) ==
  /\ pc[r] = "dl_files"
  /\ hubDir' = FALSE /\ files' = {} /\ dump' = Absent /\ trc_ts' = "none"
  /\ Goto(r, "dl_db")
  /\ UNCHANGED <<cluster, db, lookup, ghosts>>

\* A mistake: the collect ends when DROP DATABASE errs.
DeleteDbOrReturn(r) ==
  /\ pc[r] = "dl_db"
  /\ \/ db' = Absent /\ Goto(r, "co_done")
     \/ Fault("drop") /\ UNCHANGED db /\ Return(r)
  /\ UNCHANGED <<ns, pods, disk, lookup, ghosts>>

DeleteDb(r) ==
  /\ pc[r] = "dl_db"
  /\ db' = Absent \/ (Fault("drop") /\ UNCHANGED db)
  /\ IF task[r] = "hc_collect" THEN Goto(r, "co_done") ELSE Return(r)
  /\ UNCHANGED <<ns, pods, disk, lookup, ghosts>>

-----------------------------------------------------------------------------
(* hc_restore.                                                             *)

\* Refuses only if the Get succeeds: an error of any kind passes.
RestoreNs(r) ==
  /\ pc[r] = "rs_ns"
  /\ \/ (ns = "absent" \/ Fault("api")) /\ Goto(r, "rs_blocked")
     \/ ns # "absent" /\ Return(r)
  /\ UNCHANGED <<ns, pods, db, disk, lookup, ghosts>>

RestoreBlocked(r) ==
  /\ pc[r] = "rs_blocked"
  /\ IF "collecting" \in files THEN Return(r) ELSE Goto(r, "rs_cooldown")
  /\ UNCHANGED <<ns, pods, db, disk, lookup, ghosts>>

\* A mistake: the time in trc_ts does not matter.
RestoreCooldownOnce(r) ==
  /\ pc[r] = "rs_cooldown"
  /\ IF trc_ts # "none" THEN Return(r) ELSE Goto(r, "rs_cfg")
  /\ UNCHANGED <<ns, pods, db, disk, lookup, ghosts>>

\* A torn trc_ts does not parse, which is an error as well.
RestoreCooldown(r) ==
  /\ pc[r] = "rs_cooldown"
  /\ IF trc_ts \in {"recent", "torn"} THEN Return(r) ELSE Goto(r, "rs_cfg")
  /\ UNCHANGED <<ns, pods, db, disk, lookup, ghosts>>

\* GetHCcfgFromHubDir: "***working on it" or a plain error without cfg.json.
RestoreCfg(r) ==
  /\ pc[r] = "rs_cfg"
  /\ IF "cfg.json" \notin files THEN Return(r) ELSE Goto(r, "rs_db")
  /\ UNCHANGED <<ns, pods, db, disk, lookup, ghosts>>

\* A mistake: that the database exists already is not an error.
RestoreDbShared(r) ==
  /\ pc[r] = "rs_db"
  /\ db' = IF db = Absent THEN Partial ELSE db
  /\ Goto(r, "rs_wip")
  /\ UNCHANGED <<ns, pods, disk, lookup, ghosts>>

\* CREATE DATABASE elects the one request that restores.
RestoreDb(r) ==
  /\ pc[r] = "rs_db"
  /\ \/ db = Absent /\ db' = Partial /\ Goto(r, "rs_wip")
     \/ (db # Absent \/ Fault("psql")) /\ UNCHANGED db /\ Return(r)
  /\ UNCHANGED <<ns, pods, disk, lookup, ghosts>>

RestoreWip(r) ==
  /\ pc[r] = "rs_wip"
  /\ files' \in {IF "cfg.json" \in files
                   THEN (files \ {"cfg.json"}) \cup {"cfg.json.wip"} ELSE files}
                \cup (IF Fault("disk") THEN {files} ELSE {})
  /\ Goto(r, "rs_psql")
  /\ UNCHANGED <<cluster, db, hubDir, dump, trc_ts, lookup, ghosts>>

\* A mistake: an error of psql does not end the restore.
RestorePsqlUnchecked(r) ==
  /\ pc[r] = "rs_psql"
  /\ db' \in {dump} \cup (IF Fault("psql") THEN {db} ELSE {})
  /\ Goto(r, "cr_check")
  /\ UNCHANGED <<ns, pods, disk, lookup, ghosts>>

\* What "psql -f" leaves when it ends well: it runs without ON_ERROR_STOP, so
\* it goes on after a statement that fails, and its status is 0 all the same.
Loaded(c) ==
  {c} \cup (IF Fault("sql") /\ c.st = "full" THEN {Short(c.ver)} ELSE {})

\* psql errs without a file or a database, or when its connection breaks;
\* then, or when makeHcCfg errs, hc_restore returns and cleans nothing up.
RestorePsql(r) ==
  /\ pc[r] = "rs_psql"
  /\ \/ /\ db # Absent /\ dump # Absent
        /\ db' \in Loaded(dump)
        /\ Goto(r, "cr_check")
     \/ /\ db = Absent \/ dump = Absent \/ Fault("psql")
        /\ db' \in IF db # Absent /\ dump # Absent THEN {db, dump} ELSE {db}
        /\ Return(r)
  /\ UNCHANGED <<ns, pods, disk, lookup, ghosts>>

RestoreTs(r) ==
  /\ pc[r] = "rs_ts"
  /\ \/ hubDir /\ trc_ts' = "recent" /\ Goto(r, "rs_done")
     \/ ~hubDir /\ UNCHANGED trc_ts /\ Return(r)
     \/ hubDir /\ Fault("disk") /\ trc_ts' \in {trc_ts, "torn"} /\ Return(r)
  /\ UNCHANGED <<ns, pods, db, hubDir, files, dump, lookup, ghosts>>

RestoreDone(r) ==
  /\ pc[r] = "rs_done"
  /\ \/ /\ "cfg.json.wip" \in files
        /\ files' = files \ {"cfg.json.wip"}
        /\ Restored(r)
     \/ /\ "cfg.json.wip" \notin files \/ Fault("remove")
        /\ UNCHANGED files
        /\ Return(r)
  /\ UNCHANGED <<ns, pods, db, hubDir, dump, trc_ts, lookup, ghosts>>

-----------------------------------------------------------------------------
(* CreateHubsCloudInstance, called by hc_restore.                          *)

\* A namespace labelled with the hub id, even a terminating one, means that
\* there is nothing to do.  The error of the List is dropped, its result is
\* then empty.
CreateCheck(r) ==
  /\ pc[r] = "cr_check"
  /\ \/ ns # "absent" /\ Goto(r, "rs_ts") /\ UNCHANGED hubDir
     \/ (ns = "absent" \/ Fault("api")) /\ hubDir' = TRUE /\ Goto(r, "cr_apply")
  /\ UNCHANGED <<ns, pods, db, files, dump, trc_ts, lookup, ghosts>>

CreateApply(r) ==
  /\ pc[r] = "cr_apply"
  /\ \/ /\ ns # "terminating"
        /\ ns' = "active" /\ pods' = TRUE
        /\ Goto(r, "cr_db")
     \/ /\ ns = "terminating" \/ Fault("chart")
        /\ ns' \in IF ns = "absent" THEN {"absent", "active"} ELSE {ns}
        /\ UNCHANGED pods
        /\ Return(r)
  /\ UNCHANGED <<db, disk, lookup, ghosts>>

CreateDb(r) ==
  /\ pc[r] = "cr_db"
  /\ db' = IF db = Absent THEN Full(0) ELSE db
  /\ Goto(r, "rs_ts")
  /\ UNCHANGED <<ns, pods, disk, lookup, ghosts>>

-----------------------------------------------------------------------------
(* What happens around the requests.                                       *)

\* The orch pod serving r dies; nobody unlocks.
Crash(r) ==
  /\ Fault("crash")
  /\ pc[r] # "idle"
  /\ Exit(r)
  /\ nsLock' = IF nsLock = r THEN Orphan ELSE nsLock
  /\ UNCHANGED <<ns, pods, db, disk, lookup, ghosts>>

\* kubelocker gives up on a holder that is gone.
OrphanExpires ==
  /\ nsLock = Orphan
  /\ nsLock' = Free
  /\ UNCHANGED <<ns, pods, db, disk, lookup, request, ghosts>>

\* The namespace and what it contains, the lock included, are finalised.
NsFinalised ==
  /\ ns = "terminating"
  /\ ns' = "absent" /\ pods' = FALSE /\ nsLock' = Free
  /\ UNCHANGED <<db, disk, lookup, request, ghosts>>

\* hc_restore_cooldown elapses.
CooldownElapses ==
  /\ trc_ts = "recent"
  /\ trc_ts' = "old"
  /\ UNCHANGED <<cluster, db, hubDir, files, dump, lookup, request, ghosts>>

\* The hub's users change something.
HubWrite ==
  /\ ns = "active" /\ pods /\ db.st \in {"short", "full"} /\ acked < MaxWrites
  /\ QuietCollect => \A r \in Req : ~PastDump(r)
  /\ db' = [db EXCEPT !.ver = @ + 1]
  /\ acked' = acked + 1
  /\ UNCHANGED <<cluster, disk, lookup, request, deleted>>

-----------------------------------------------------------------------------

\* A hub that CreateHubsCloudInstance has deployed and that is in use.
Init ==
  /\ ns = "active" /\ pods = TRUE /\ nsLock = Free
  /\ db = Full(0)
  /\ hubDir = TRUE /\ files = {} /\ dump = Absent /\ trc_ts = "none"
  /\ lookup = FALSE
  /\ pc = [r \in Req |-> "idle"]
  /\ task = [r \in Req |-> "none"]
  /\ locked = [r \in Req |-> FALSE]
  /\ acked = 0 /\ deleted = FALSE

Receive(r) == RecvPatch(r) \/ RecvDelete(r) \/ RecvVisit(r)

\* What the goroutine of request r does.
Step(r) ==
  \/ Prelude(r) \/ Lock(r) \/ Switch(r)
  \/ CollectFlag(r) \/ CollectCfg(r) \/ CollectDump(r) \/ CollectLookup(r) \/ CollectDone(r)
  \/ DeleteDown(r) \/ DeleteNs(r) \/ DeleteFiles(r) \/ DeleteDb(r)
  \/ RestoreNs(r) \/ RestoreBlocked(r) \/ RestoreCooldown(r) \/ RestoreCfg(r)
  \/ RestoreDb(r) \/ RestoreWip(r) \/ RestorePsql(r) \/ RestoreTs(r) \/ RestoreDone(r)
  \/ CreateCheck(r) \/ CreateApply(r) \/ CreateDb(r)

Environment == OrphanExpires \/ NsFinalised \/ CooldownElapses \/ HubWrite

Next ==
  \/ \E r \in Req : Receive(r) \/ Step(r) \/ Crash(r)
  \/ Environment

Spec == Init /\ [][Next]_vars

-----------------------------------------------------------------------------
(* Properties.                                                             *)

\* Objects of the hub are what some request leaves, and each request is at a
\* call of its own task (hc_instance.go:144, 254, 381, 1052).
TypeOK ==
  /\ ns \in {"absent", "active", "terminating"}
  /\ pods \in BOOLEAN
  /\ nsLock \in Req \cup {Free, Orphan}
  /\ db \in Content /\ dump \in Content
  /\ hubDir \in BOOLEAN
  /\ files \subseteq FileNames
  /\ trc_ts \in {"none", "recent", "old", "torn"}
  /\ lookup \in BOOLEAN
  /\ pc \in [Req -> Labels]
  /\ task \in [Req -> Tasks \cup {"none"}]
  /\ locked \in [Req -> BOOLEAN]
  /\ acked \in Nat /\ deleted \in BOOLEAN

\* Whatever the interleaving of collects, restores and visits, and whatever
\* fails on the way, the hub's data stay in its database or in its dump
\* until somebody asks for its deletion (hc_instance.go:325 "delete,
\* keepData == true"); only what psql itself skipped may be missing.
DataKept ==
  ~deleted => db \in Copies(acked) \/ dump \in Copies(acked)

\* Between its CREATE DATABASE and its deployment a restore has the database
\* for itself: two restores never load the dump at once, and no collect
\* dumps or drops what a restore is loading.
LoadAlone ==
  ~deleted => \A r, q \in Req :
    Loading(r) => /\ Loading(q) => r = q
                  /\ ~Collecting(q)

\* A hub never comes back on a torn dump or a database half loaded, nor on
\* less than what its users left in it, but for statements psql skipped
\* (hc_instance.go:457-470).
ComesBackWhole ==
  [][ns # "active" /\ ns' = "active" /\ ~deleted => db \in Copies(acked)]_vars

\* What the error at hc_instance.go:462 is there for: when the database could
\* not be restored ("failed to restore db"), the hub does not come back.  The code does
\* otherwise, see HubLifecycle_psql.cfg.
FailedLoadStops ==
  [][ns # "active" /\ ns' = "active" /\ ~deleted => db = Full(acked)]_vars

\* What the hub's users are promised: see HubStore.
Held   == IF ns = "active" THEN db ELSE dump
Status == IF deleted THEN "gone" ELSE IF ns = "active" THEN "up" ELSE "stored"
Data   == IF deleted THEN 0 ELSE Held.ver
Whole  == deleted \/ Held.st = "full"
Store  == INSTANCE HubStore WITH status <- Status, data <- Data, whole <- Whole, Lossy <- Fault("sql")

\* The hub comes up with what its users left in it, and changes only by what
\* they write, however the requests on it interleave and fail; if anything
\* is ever missing, it got lost when the hub was restored.
KeepsPromise == Store!Spec

\* Orch's goroutines run, Kubernetes finalises what it was told to delete,
\* clocks advance and the visitors of a collected hub reload the page.
LiveSpec ==
  /\ Spec
  /\ \A r \in Req : WF_vars(Step(r)) /\ SF_vars(RecvVisit(r))
  /\ WF_vars(NsFinalised) /\ WF_vars(OrphanExpires) /\ WF_vars(CooldownElapses)

\* A hub that is down is blocked by the flag of a collect for a while only
\* (hc_instance.go:414 "try again later").  A collect that returns before it
\* deletes the namespace leaves its flag behind, but then the hub is up.
BlockEnds ==
  ("collecting" \in files /\ ns # "active")
    ~> ("collecting" \notin files \/ ns = "active" \/ deleted)

\* A hub that is stored away, with its configuration in place, no database
\* left and nobody at work on it, comes back to the visitors who ask for it,
\* whoever else turns up meanwhile.  A time stamp that could only be written
\* in part blocks every restore (hc_instance.go:419-423): excepted.
StoredComesBack ==
  (/\ ns = "absent" /\ lookup /\ "cfg.json" \in files /\ db = Absent /\ ~deleted
   /\ trc_ts # "torn"
   /\ \A r \in Req : pc[r] = "idle")
    ~> (ns = "active" \/ deleted)

-----------------------------------------------------------------------------
(* The inductive invariant behind DataKept and LoadAlone.  Everything but  *)
(* typing is claimed until somebody asks for the hub's deletion.           *)

\* Only a collect runs the collect's steps, and the delete's.
TaskInv ==
  \A r \in Req : /\ pc[r] \in CollectSteps \cup DeleteSteps => task[r] = "hc_collect"
                 /\ pc[r] # "dl_files"

\* A deployed hub runs on its data.
ServingInv == ns = "active" => db \in Copies(acked)

\* The dump of a hub that is down is complete.
StoredInv == ns # "active" => dump \in Copies(acked)

\* Up to the removal of the namespace a collect holds the hub's lock, in a
\* live namespace.
LockedInv ==
  \A r \in Req : pc[r] \in CollectSteps \cup {"dl_down", "dl_ns"}
                   => ns = "active" /\ nsLock = r

\* From pg_dump on, a collect has everything in the dump that the database
\* had when it went down.
DumpedInv ==
  \A r \in Req : PastDump(r) => /\ dump \in Copies(acked)
                                /\ pc[r] # "dl_db" => db = dump

\* The drop to come finds the hub's database, down, and is the only one.
DropInv ==
  \A r \in Req : pc[r] = "dl_db" =>
    /\ ns # "active" /\ db \in Copies(acked)
    /\ \A q \in Req : pc[q] = "dl_db" => q = r

\* A restore loads a complete dump, while the hub is down, alone.
LoadInv ==
  \A r \in Req : Loading(r) =>
    /\ ns # "active" /\ dump \in Copies(acked)
    /\ db \in IF pc[r] \in {"rs_wip", "rs_psql"} THEN {Partial} ELSE Loaded(dump)
    /\ \A q \in Req : /\ Loading(q) => q = r
                      /\ pc[q] # "dl_db"

Core == TaskInv /\ ServingInv /\ LockedInv /\ DumpedInv /\ DropInv /\ LoadInv /\ DataKept
IInv == TypeOK /\ (~deleted => Core /\ StoredInv)
=============================================================================
