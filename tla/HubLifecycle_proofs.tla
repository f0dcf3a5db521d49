------------------------ MODULE HubLifecycle_proofs ------------------------
(* Proofs about HubLifecycle, for any set of requests and any faults.      *)
EXTENDS HubLifecycle, TLAPS

\* What a request's own step may do to the bookkeeping of the requests.
LEMMA ReturnType ==
  ASSUME NEW r \in Req, TypeOK, Return(r)
  PROVE  /\ nsLock' \in Req \cup {Free, Orphan}
         /\ pc' \in [Req -> Labels] /\ task' \in [Req -> Tasks \cup {"none"}]
         /\ locked' \in [Req -> BOOLEAN]
BY DEF Return, Exit, TypeOK, Labels

LEMMA GotoType ==
  ASSUME NEW r \in Req, NEW l \in Labels, TypeOK, Goto(r, l)
  PROVE  /\ nsLock' \in Req \cup {Free, Orphan}
         /\ pc' \in [Req -> Labels] /\ task' \in [Req -> Tasks \cup {"none"}]
         /\ locked' \in [Req -> BOOLEAN]
BY DEF Goto, TypeOK, locals

LEMMA ContentFacts ==
  /\ Absent \in Content /\ Partial \in Content
  /\ \A v \in Nat : Full(v) \in Content /\ Full(v).ver = v /\ Full(v).st = "full"
  /\ Absent # Partial
  /\ \A v \in Nat : Full(v) # Absent /\ Full(v) # Partial
  /\ \A v \in Nat : Short(v) \in Content /\ Short(v).ver = v /\ Short(v).st = "short"
BY DEF Absent, Partial, Short, Full, Content

\* Copies of a hub's data, and what psql makes of one.
LEMMA CopyFacts ==
  ASSUME NEW v \in Nat
  PROVE  /\ Full(v) \in Copies(v) /\ Copies(v) \subseteq Content
         /\ Absent \notin Copies(v) /\ Partial \notin Copies(v)
BY DEF Copies, Absent, Partial, Short, Full, Content

LEMMA CopyVersion ==
  ASSUME NEW v \in Nat, NEW c \in Copies(v)
  PROVE  c.ver = v /\ c.st \in {"short", "full"} /\ (c.st = "short" => Fault("sql"))
BY DEF Copies, Short, Full

LEMMA CopyWritten ==
  ASSUME NEW v \in Nat, NEW c \in Copies(v)
  PROVE  [c EXCEPT !.ver = @ + 1] \in Copies(v + 1)
BY DEF Copies, Short, Full

LEMMA LoadedFacts ==
  ASSUME NEW v \in Nat, NEW c \in Copies(v), NEW d \in Loaded(c)
  PROVE  d \in Copies(v) /\ (d.st = "full" => c.st = "full")
BY DEF Copies, Loaded, Short, Full

LEMMA LoadedType ==
  ASSUME NEW c \in Content
  PROVE  Loaded(c) \subseteq Content
BY ContentFacts DEF Loaded, Content

LEMMA ReceiveType ==
  ASSUME NEW r \in Req, TypeOK, Receive(r)
  PROVE  TypeOK'
<1>1. PICK t \in Tasks, l \in Labels : Begin(r, t, l)
  BY DEF Receive, RecvPatch, RecvDelete, RecvVisit, Tasks, PatchTasks, Labels,
         RestoreSteps, DeleteSteps
<1>2. deleted' \in BOOLEAN
  BY DEF Receive, RecvPatch, RecvDelete, RecvVisit, TypeOK
<1>. QED  BY <1>1, <1>2 DEF Begin, TypeOK, cluster, disk

LEMMA HandleType ==
  ASSUME NEW r \in Req, TypeOK, Prelude(r) \/ Lock(r) \/ Switch(r)
  PROVE  TypeOK'
<1>1. CASE Prelude(r)
  <2>1. "rs_ns" \in Labels /\ "lock" \in Labels
    BY DEF Labels, RestoreSteps
  <2>2. PICK l \in Labels : Goto(r, l)
    BY <1>1, <2>1 DEF Prelude
  <2>. QED
    BY <1>1, <2>2, GotoType DEF Prelude, TypeOK, disk, ghosts
<1>2. CASE Lock(r)
  BY <1>2, ZenonT(30) DEF Lock, Return, Exit, TypeOK, Labels, CollectSteps, RestoreSteps, disk, ghosts
<1>3. CASE Switch(r)
  BY <1>3, ReturnType DEF Switch, TypeOK, disk, ghosts
<1>. QED  BY <1>1, <1>2, <1>3

LEMMA CollectType ==
  ASSUME NEW r \in Req, TypeOK,
         CollectFlag(r) \/ CollectCfg(r) \/ CollectDump(r) \/ CollectLookup(r) \/ CollectDone(r)
  PROVE  TypeOK'
<1>. "co_cfg" \in Labels /\ "co_dump" \in Labels /\ "co_lookup" \in Labels /\ "dl_down" \in Labels
  BY DEF Labels, CollectSteps, DeleteSteps
<1>1. CASE CollectFlag(r)
  BY <1>1, ReturnType, GotoType DEF CollectFlag, TypeOK, FileNames, ghosts
<1>2. CASE CollectCfg(r)
  BY <1>2, ReturnType, GotoType DEF CollectCfg, TypeOK, FileNames, ghosts
<1>3. CASE CollectDump(r)
  BY <1>3, ReturnType, GotoType, ContentFacts DEF CollectDump, TypeOK, ghosts
<1>4. CASE CollectLookup(r)
  BY <1>4, ReturnType, GotoType DEF CollectLookup, TypeOK, disk, ghosts
<1>5. CASE CollectDone(r)
  BY <1>5, ReturnType DEF CollectDone, TypeOK, ghosts
<1>. QED  BY <1>1, <1>2, <1>3, <1>4, <1>5

LEMMA DeleteType ==
  ASSUME NEW r \in Req, TypeOK,
         DeleteDown(r) \/ DeleteNs(r) \/ DeleteFiles(r) \/ DeleteDb(r)
  PROVE  TypeOK'
<1>. "dl_ns" \in Labels /\ "dl_db" \in Labels /\ "dl_files" \in Labels /\ "co_done" \in Labels
  BY DEF Labels, DeleteSteps
<1>1. CASE DeleteDown(r)
  BY <1>1, GotoType DEF DeleteDown, TypeOK, disk, ghosts
<1>2. CASE DeleteNs(r)
  BY <1>2, GotoType DEF DeleteNs, TypeOK, disk, ghosts
<1>3. CASE DeleteFiles(r)
  BY <1>3, GotoType, ContentFacts DEF DeleteFiles, TypeOK, cluster, ghosts
<1>4. CASE DeleteDb(r)
  BY <1>4, ReturnType, GotoType, ContentFacts DEF DeleteDb, TypeOK, disk, ghosts
<1>. QED  BY <1>1, <1>2, <1>3, <1>4

LEMMA RestoreType ==
  ASSUME NEW r \in Req, TypeOK,
         \/ RestoreNs(r) \/ RestoreBlocked(r) \/ RestoreCooldown(r) \/ RestoreCfg(r)
         \/ RestoreDb(r) \/ RestoreWip(r) \/ RestorePsql(r) \/ RestoreTs(r) \/ RestoreDone(r)
  PROVE  TypeOK'
<1>. RestoreSteps \subseteq Labels /\ "lock" \in Labels /\ "cr_check" \in Labels
  BY DEF Labels, CreateSteps
<1>. USE ReturnType, GotoType DEF RestoreSteps
<1>1. CASE RestoreNs(r)
  BY <1>1 DEF RestoreNs, TypeOK, disk, ghosts
<1>2. CASE RestoreBlocked(r)
  BY <1>2 DEF RestoreBlocked, TypeOK, disk, ghosts
<1>3. CASE RestoreCooldown(r)
  BY <1>3 DEF RestoreCooldown, TypeOK, disk, ghosts
<1>4. CASE RestoreCfg(r)
  BY <1>4 DEF RestoreCfg, TypeOK, disk, ghosts
<1>5. CASE RestoreDb(r)
  BY <1>5, ContentFacts DEF RestoreDb, TypeOK, disk, ghosts
<1>6. CASE RestoreWip(r)
  <2>1. files' \subseteq FileNames
    BY <1>6 DEF RestoreWip, TypeOK, FileNames
  <2>. QED
    BY <1>6, <2>1 DEF RestoreWip, TypeOK, cluster, ghosts
<1>7. CASE RestorePsql(r)
  BY <1>7, LoadedType DEF RestorePsql, TypeOK, disk, ghosts
<1>8. CASE RestoreTs(r)
  BY <1>8 DEF RestoreTs, TypeOK, ghosts
<1>9. CASE RestoreDone(r)
  BY <1>9 DEF RestoreDone, Restored, TypeOK, ghosts
<1>. QED  BY <1>1, <1>2, <1>3, <1>4, <1>5, <1>6, <1>7, <1>8, <1>9

LEMMA CreateType ==
  ASSUME NEW r \in Req, TypeOK, CreateCheck(r) \/ CreateApply(r) \/ CreateDb(r)
  PROVE  TypeOK'
<1>. "cr_apply" \in Labels /\ "cr_db" \in Labels /\ "rs_ts" \in Labels
  BY DEF Labels, CreateSteps, RestoreSteps
<1>. USE ReturnType, GotoType, ContentFacts
<1>1. CASE CreateCheck(r)
  BY <1>1 DEF CreateCheck, TypeOK, ghosts
<1>2. CASE CreateApply(r)
  BY <1>2 DEF CreateApply, TypeOK, disk, ghosts
<1>3. CASE CreateDb(r)
  BY <1>3 DEF CreateDb, TypeOK, disk, ghosts
<1>. QED  BY <1>1, <1>2, <1>3

LEMMA OtherType ==
  ASSUME TypeOK, Environment \/ (\E r \in Req : Crash(r))
  PROVE  TypeOK'
<1>1. ASSUME NEW r \in Req, Crash(r) PROVE TypeOK'
  BY <1>1 DEF Crash, Exit, TypeOK, Labels, disk, ghosts
<1>2. CASE OrphanExpires
  BY <1>2 DEF OrphanExpires, TypeOK, disk, request, ghosts
<1>3. CASE NsFinalised
  BY <1>3 DEF NsFinalised, TypeOK, disk, request, ghosts
<1>4. CASE CooldownElapses
  BY <1>4 DEF CooldownElapses, TypeOK, cluster, request, ghosts
<1>5. CASE HubWrite
  <2>1. db.ver + 1 \in Nat
    BY DEF TypeOK, Content
  <2>2. db' \in Content
    <3>1. db' = [st |-> db.st, ver |-> db.ver + 1]
      BY <1>5 DEF HubWrite, TypeOK, Content
    <3>. QED
      BY <1>5, <2>1, <3>1 DEF HubWrite, Content
  <2>. QED
    BY <1>5, <2>2 DEF HubWrite, TypeOK, cluster, disk, request
<1>. QED  BY <1>1, <1>2, <1>3, <1>4, <1>5 DEF Environment

LEMMA TypeStep == TypeOK /\ [Next]_vars => TypeOK'
<1>1. CASE UNCHANGED vars
  BY <1>1 DEF vars, TypeOK
<1>2. ASSUME TypeOK, NEW r \in Req, Step(r) PROVE TypeOK'
  BY <1>2, HandleType, CollectType, DeleteType, RestoreType, CreateType DEF Step
<1>. QED
  BY <1>1, <1>2, ReceiveType, OtherType DEF Next

\* The variables of HubLifecycle keep their types: every call of the modelled
\* handlers leaves the hub's state and the request's in one the next can read.
THEOREM TypeCorrect == Spec => []TypeOK
<1>1. Init => TypeOK
  <2>1. Full(0) \in Content /\ Absent \in Content
    BY ContentFacts
  <2>. SUFFICES ASSUME Init PROVE TypeOK
    OBVIOUS
  <2>2. /\ pc \in [Req -> Labels] /\ task \in [Req -> Tasks \cup {"none"}]
        /\ locked \in [Req -> BOOLEAN]
    BY DEF Init, Labels
  <2>. QED
    BY <2>1, <2>2 DEF Init, TypeOK
<1>. QED  BY <1>1, TypeStep, PTL DEF Spec

-----------------------------------------------------------------------------
(* DataKept.  The faults include everything but a refused deletion of the  *)
(* namespace, and nobody writes between a dump and the end of its collect. *)

Benign == QuietCollect /\ "delete_ns" \notin Faults

\* Labels at which a request neither guards nor is about to change the data.
Calm == Labels \ (CollectSteps \cup DeleteSteps \cup {"rs_wip", "rs_psql", "cr_check", "cr_apply"})

\* A request that turns calm, without touching namespace, database or dump,
\* and without taking another request's lock away, disturbs nothing.
LEMMA CalmStep ==
  ASSUME NEW r \in Req, TypeOK, TypeOK', Core, ~deleted,
         UNCHANGED <<ns, db, dump, acked, deleted>>,
         pc'[r] \in Calm,
         \A q \in Req \ {r} : pc'[q] = pc[q] /\ task'[q] = task[q],
         \A q \in Req \ {r} : nsLock = q => nsLock' = q
  PROVE  Core'
<1>. USE DEF Core, Calm
<1>1. TaskInv'
  BY DEF TaskInv, DeleteSteps
<1>2. ServingInv' /\ DataKept'
  BY DEF ServingInv, DataKept
<1>3. LockedInv'
  BY DEF LockedInv, DeleteSteps
<1>4. DumpedInv'
  BY DEF DumpedInv, PastDump, CollectSteps
<1>5. DropInv'
  BY DEF DropInv, DeleteSteps
<1>6. LoadInv'
  BY DEF LoadInv, Loading, DeleteSteps
<1>. QED  BY <1>1, <1>2, <1>3, <1>4, <1>5, <1>6

LEMMA ReturnCalm ==
  ASSUME NEW r \in Req, TypeOK, Return(r)
  PROVE  /\ pc'[r] \in Calm
         /\ \A q \in Req \ {r} : pc'[q] = pc[q] /\ task'[q] = task[q]
         /\ \A q \in Req \ {r} : nsLock = q => nsLock' = q
BY DEF Return, Exit, TypeOK, Calm, Labels, CollectSteps, DeleteSteps

LEMMA GotoCalm ==
  ASSUME NEW r \in Req, NEW l \in Calm, TypeOK, Goto(r, l)
  PROVE  /\ pc'[r] \in Calm
         /\ \A q \in Req \ {r} : pc'[q] = pc[q] /\ task'[q] = task[q]
         /\ \A q \in Req \ {r} : nsLock = q => nsLock' = q
BY DEF Goto, TypeOK, locals

LEMMA CalmLabels == {"prelude", "lock", "rs_ns", "rs_blocked", "rs_cooldown", "rs_cfg", "rs_db",
                     "rs_ts", "rs_done", "co_done", "switch", "idle", "cr_db"} \subseteq Calm
BY DEF Calm, Labels, CollectSteps, DeleteSteps, RestoreSteps, CreateSteps

LEMMA ReadOnlyCore ==
  ASSUME NEW r \in Req, TypeOK, TypeOK', Core, ~deleted, ~deleted',
         \/ Receive(r) \/ Crash(r) \/ Prelude(r) \/ Switch(r) \/ CollectDone(r)
         \/ RestoreNs(r) \/ RestoreBlocked(r) \/ RestoreCooldown(r) \/ RestoreCfg(r)
         \/ RestoreTs(r) \/ RestoreDone(r)
  PROVE  Core'
<1>. USE CalmStep, ReturnCalm, GotoCalm, CalmLabels DEF disk, ghosts
<1>1. CASE Receive(r)
  BY <1>1 DEF Receive, RecvPatch, RecvDelete, RecvVisit, Begin, TypeOK, cluster
<1>2. CASE Crash(r)
  BY <1>2 DEF Crash, Exit, TypeOK
<1>3. CASE Prelude(r)
  BY <1>3 DEF Prelude
<1>4. CASE Switch(r)
  BY <1>4 DEF Switch
<1>5. CASE CollectDone(r)
  BY <1>5 DEF CollectDone
<1>6. CASE RestoreNs(r)
  BY <1>6 DEF RestoreNs
<1>7. CASE RestoreBlocked(r)
  BY <1>7 DEF RestoreBlocked
<1>8. CASE RestoreCooldown(r)
  BY <1>8 DEF RestoreCooldown
<1>9. CASE RestoreCfg(r)
  BY <1>9 DEF RestoreCfg
<1>10. CASE RestoreTs(r)
  BY <1>10 DEF RestoreTs
<1>11. CASE RestoreDone(r)
  BY <1>11 DEF RestoreDone, Restored
<1>. QED
  BY <1>1, <1>2, <1>3, <1>4, <1>5, <1>6, <1>7, <1>8, <1>9, <1>10, <1>11

\* What the parts of Core read of the requests that do not move.
LEMMA Others ==
  ASSUME NEW r \in Req, NEW l \in Labels, TypeOK, Goto(r, l)
  PROVE  /\ pc'[r] = l /\ task'[r] = task[r] /\ nsLock' = nsLock
         /\ \A q \in Req \ {r} : pc'[q] = pc[q] /\ task'[q] = task[q]
BY DEF Goto, TypeOK, locals

LEMMA LockCore ==
  ASSUME NEW r \in Req, TypeOK, TypeOK', Core, ~deleted, ~deleted', Lock(r)
  PROVE  Core'
<1>1. CASE Return(r)
  BY <1>1, CalmStep, ReturnCalm DEF Lock, disk, ghosts
<1>2. CASE ~Return(r)
  <2>1. /\ ns = "active" /\ nsLock = Free /\ nsLock' = r
        /\ UNCHANGED <<ns, db, dump, acked, task>>
        /\ pc'[r] = (CASE task[r] = "hc_collect" -> "co_flag"
                       [] task[r] = "hc_restore" -> "rs_ns"
                       [] OTHER                  -> "switch")
        /\ \A q \in Req \ {r} : pc'[q] = pc[q]
    BY <1>2 DEF Lock, TypeOK, disk, ghosts
  <2>2. \A q \in Req : nsLock # q
    BY <2>1, ReqAssumption
  <2>. USE <2>1, <2>2 DEF Core
  <2>3. TaskInv'
    BY DEF TaskInv, CollectSteps, DeleteSteps
  <2>4. LockedInv'
    BY DEF LockedInv, CollectSteps
  <2>5. DumpedInv'
    BY DEF DumpedInv, PastDump, DeleteSteps
  <2>6. ServingInv' /\ DropInv' /\ LoadInv' /\ DataKept'
    BY DEF ServingInv, DropInv, LoadInv, Loading, DataKept
  <2>. QED  BY <2>3, <2>4, <2>5, <2>6
<1>. QED  BY <1>1, <1>2

\* The steps that only carry a collect one call further, under the lock.
LEMMA CollectCore ==
  ASSUME NEW r \in Req, TypeOK, TypeOK', Core, ~deleted, ~deleted',
         CollectFlag(r) \/ CollectCfg(r) \/ CollectLookup(r) \/ DeleteDown(r)
  PROVE  Core'
<1>. DEFINE Ends == {"co_cfg", "co_dump", "dl_down", "dl_ns"}
<1>1. UNCHANGED <<ns, db, dump, acked, deleted>>
  <2>2. CASE CollectFlag(r)
    BY <2>2 DEF CollectFlag, ghosts
  <2>3. CASE CollectCfg(r)
    BY <2>3 DEF CollectCfg, ghosts
  <2>4. CASE CollectLookup(r)
    BY <2>4 DEF CollectLookup, disk, ghosts
  <2>5. CASE DeleteDown(r)
    BY <2>5 DEF DeleteDown, disk, ghosts
  <2>. QED  BY <2>2, <2>3, <2>4, <2>5
<1>2. CASE Return(r)
  BY <1>1, <1>2, CalmStep, ReturnCalm
<1>3. \/ Return(r)
      \/ Goto(r, "co_cfg") \/ Goto(r, "co_dump") \/ Goto(r, "dl_down") \/ Goto(r, "dl_ns")
  BY DEF CollectFlag, CollectCfg, CollectLookup, DeleteDown
<1>4. ASSUME NEW l \in Ends, Goto(r, l) PROVE Core'
  <2>1. /\ l \in Labels
        /\ pc[r] \in CollectSteps \cup {"dl_down", "dl_ns"}
        /\ l \in {"dl_down", "dl_ns"} => pc[r] \in {"co_lookup", "dl_down"}
    BY <1>4 DEF Labels, CollectSteps, DeleteSteps, CollectFlag, CollectCfg, CollectLookup,
                DeleteDown, Goto, Return, Exit, TypeOK
  <2>2. /\ pc'[r] = l /\ task'[r] = task[r] /\ nsLock' = nsLock
        /\ \A q \in Req \ {r} : pc'[q] = pc[q] /\ task'[q] = task[q]
    BY <1>4, <2>1, Others
  <2>3. task[r] = "hc_collect" /\ ns = "active" /\ nsLock = r
    BY <2>1 DEF Core, TaskInv, LockedInv, DeleteSteps
  <2>. USE <1>1, <2>1, <2>2, <2>3 DEF Core
  <2>4. TaskInv' /\ LockedInv'
    BY DEF TaskInv, LockedInv, CollectSteps, DeleteSteps
  <2>5. DumpedInv'
    BY DEF DumpedInv, PastDump, DeleteSteps
  <2>6. ServingInv' /\ DropInv' /\ LoadInv' /\ DataKept'
    BY DEF ServingInv, DropInv, LoadInv, Loading, DataKept
  <2>. QED  BY <2>4, <2>5, <2>6
<1>. QED  BY <1>2, <1>3, <1>4

LEMMA CollectDumpCore ==
  ASSUME NEW r \in Req, TypeOK, TypeOK', Core, ~deleted, ~deleted', CollectDump(r)
  PROVE  Core'
<1>1. /\ UNCHANGED <<ns, db, acked>>
      /\ ns = "active" /\ nsLock = r /\ db \in Copies(acked)
      /\ task[r] = "hc_collect"
  BY DEF CollectDump, ghosts, Core, TaskInv, LockedInv, ServingInv, CollectSteps
<1>2. \A q \in Req : pc[q] \notin {"rs_wip", "rs_psql", "cr_check", "cr_apply", "dl_db"}
  BY <1>1 DEF Core, LoadInv, Loading, DropInv
<1>3. \A q \in Req \ {r} : pc[q] \notin CollectSteps \cup {"dl_down", "dl_ns"}
  BY <1>1 DEF Core, LockedInv
<1>4. \A q \in Req \ {r} : ~PastDump(q)
  BY <1>2, <1>3 DEF PastDump, CollectSteps, DeleteSteps, Core, TaskInv
<1>5. \A q \in Req \ {r} : pc'[q] = pc[q] /\ task'[q] = task[q] /\ (nsLock = q => nsLock' = q)
  BY ReturnCalm, Others DEF CollectDump, Labels, CollectSteps
<1>6. CASE Goto(r, "co_lookup") /\ dump' = db
  <2>1. pc'[r] = "co_lookup" /\ task'[r] = task[r] /\ nsLock' = nsLock
    BY <1>6, Others DEF Labels, CollectSteps
  <2>. QED
    BY <1>1, <1>2, <1>3, <1>4, <1>5, <1>6, <2>1
       DEF Core, TaskInv, ServingInv, LockedInv, DumpedInv, PastDump, DropInv, LoadInv, Loading,
           DataKept, CollectSteps, DeleteSteps
<1>7. CASE Return(r)
  <2>1. pc'[r] \in Calm
    BY <1>7, ReturnCalm
  <2>2. TaskInv' /\ LockedInv'
    BY <1>1, <1>5, <2>1 DEF Core, TaskInv, LockedInv, Calm, DeleteSteps
  <2>3. DumpedInv' /\ DropInv' /\ LoadInv'
    BY <1>2, <1>4, <1>5, <2>1
       DEF DumpedInv, PastDump, DropInv, LoadInv, Loading, Calm, CollectSteps, DeleteSteps
  <2>. QED
    BY <1>1, <2>2, <2>3 DEF Core, ServingInv, DataKept
<1>. QED  BY <1>6, <1>7 DEF CollectDump

LEMMA DeleteNsCore ==
  ASSUME NEW r \in Req, TypeOK, TypeOK', Core, ~deleted, ~deleted', Benign, DeleteNs(r)
  PROVE  Core'
<1>1. /\ ns = "active" /\ nsLock = r /\ db \in Copies(acked) /\ task[r] = "hc_collect"
      /\ dump \in Copies(acked)
  BY DEF DeleteNs, Core, TaskInv, LockedInv, ServingInv, DumpedInv, PastDump, DeleteSteps
<1>2. /\ ns' = "terminating" /\ UNCHANGED <<db, dump, acked, nsLock>>
      /\ Goto(r, "dl_db")
  BY <1>1 DEF DeleteNs, Benign, Fault, disk, ghosts
<1>3. /\ pc'[r] = "dl_db" /\ task'[r] = task[r]
      /\ \A q \in Req \ {r} : pc'[q] = pc[q] /\ task'[q] = task[q]
  BY <1>2, Others DEF Labels, DeleteSteps
<1>4. \A q \in Req : pc[q] \notin {"rs_wip", "rs_psql", "cr_check", "cr_apply", "dl_db"}
  BY <1>1 DEF Core, LoadInv, Loading, DropInv
<1>5. \A q \in Req \ {r} : pc[q] \notin CollectSteps \cup {"dl_down", "dl_ns"}
  BY <1>1 DEF Core, LockedInv
<1>. USE <1>1, <1>2, <1>3, <1>4, <1>5
<1>6. TaskInv' /\ LockedInv' /\ ServingInv' /\ DataKept'
  BY DEF Core, TaskInv, LockedInv, ServingInv, DataKept, CollectSteps, DeleteSteps
<1>7. DumpedInv'
  BY DEF Core, DumpedInv, PastDump
<1>8. DropInv' /\ LoadInv'
  BY DEF DropInv, LoadInv, Loading
<1>. QED  BY <1>6, <1>7, <1>8 DEF Core

LEMMA DeleteDbCore ==
  ASSUME NEW r \in Req, TypeOK, TypeOK', Core, ~deleted, ~deleted', DeleteDb(r)
  PROVE  Core'
<1>1. /\ task[r] = "hc_collect" /\ ns # "active" /\ dump \in Copies(acked)
      /\ \A q \in Req \ {r} : pc[q] # "dl_db"
      /\ \A q \in Req : ~Loading(q)
      /\ \A q \in Req \ {r} : ~PastDump(q)
  <2>1. /\ task[r] = "hc_collect" /\ ns # "active" /\ dump \in Copies(acked)
        /\ \A q \in Req \ {r} : pc[q] # "dl_db"
        /\ \A q \in Req : ~Loading(q)
    BY DEF DeleteDb, Core, TaskInv, DropInv, DumpedInv, PastDump, LoadInv, DeleteSteps
  <2>. QED
    BY <2>1 DEF Core, TaskInv, LockedInv, PastDump, CollectSteps, DeleteSteps
<1>2. UNCHANGED <<ns, dump, acked>> /\ Goto(r, "co_done")
  BY <1>1 DEF DeleteDb, disk, ghosts
<1>3. /\ pc'[r] = "co_done" /\ task'[r] = task[r] /\ nsLock' = nsLock
      /\ \A q \in Req \ {r} : pc'[q] = pc[q] /\ task'[q] = task[q]
  BY <1>2, Others DEF Labels
<1>. USE <1>1, <1>2, <1>3
<1>4. TaskInv' /\ LockedInv' /\ ServingInv' /\ DataKept'
  BY DEF Core, TaskInv, LockedInv, ServingInv, DataKept, CollectSteps, DeleteSteps
<1>5. DumpedInv'
  BY DEF DumpedInv, PastDump, DeleteSteps
<1>6. DropInv' /\ LoadInv'
  BY DEF DropInv, LoadInv, Loading
<1>. QED  BY <1>4, <1>5, <1>6 DEF Core

\* Without a database the hub is down, and nobody loads or drops one.
LEMMA NoDatabase ==
  ASSUME TypeOK, Core, ~deleted, db = Absent
  PROVE  /\ ns # "active" /\ dump \in Copies(acked)
         /\ \A q \in Req : pc[q] # "dl_db" /\ ~Loading(q) /\ ~PastDump(q)
<1>1. acked \in Nat
  BY DEF TypeOK
<1>2. Absent \notin Copies(acked) /\ Absent # Partial
  BY <1>1, CopyFacts, ContentFacts
<1>3. ns # "active" /\ dump \in Copies(acked) /\ \A q \in Req : pc[q] # "dl_db"
  BY <1>2 DEF Core, ServingInv, DataKept, DropInv
<1>4. Absent \notin Loaded(dump)
  BY <1>1, <1>2, <1>3, LoadedFacts
<1>5. \A q \in Req : ~Loading(q)
  BY <1>2, <1>4 DEF Core, LoadInv
<1>6. \A q \in Req : ~PastDump(q)
  BY <1>3 DEF Core, TaskInv, LockedInv, PastDump, CollectSteps, DeleteSteps
<1>. QED  BY <1>3, <1>5, <1>6

LEMMA RestoreDbCore ==
  ASSUME NEW r \in Req, TypeOK, TypeOK', Core, ~deleted, ~deleted', RestoreDb(r)
  PROVE  Core'
<1>1. CASE Return(r) /\ UNCHANGED db
  BY <1>1, CalmStep, ReturnCalm DEF RestoreDb, disk, ghosts
<1>2. CASE db = Absent /\ db' = Partial /\ Goto(r, "rs_wip")
  <2>1. UNCHANGED <<ns, dump, acked>> /\ db' = Partial /\ Goto(r, "rs_wip")
    BY <1>2 DEF RestoreDb, disk, ghosts
  <2>2. /\ pc'[r] = "rs_wip" /\ task'[r] = task[r] /\ nsLock' = nsLock
        /\ \A q \in Req \ {r} : pc'[q] = pc[q] /\ task'[q] = task[q]
    BY <2>1, Others DEF Labels, RestoreSteps
  <2>4. /\ ns # "active" /\ dump \in Copies(acked)
        /\ \A q \in Req : pc[q] # "dl_db" /\ ~Loading(q) /\ ~PastDump(q)
    BY <1>2, NoDatabase
  <2>. USE <2>1, <2>2, <2>4
  <2>5. TaskInv' /\ LockedInv' /\ ServingInv' /\ DataKept'
    BY DEF Core, TaskInv, LockedInv, ServingInv, DataKept, CollectSteps, DeleteSteps
  <2>6. DumpedInv'
    BY DEF DumpedInv, PastDump, DeleteSteps
  <2>7. DropInv' /\ LoadInv'
    BY DEF DropInv, LoadInv, Loading
  <2>. QED  BY <2>5, <2>6, <2>7 DEF Core
<1>. QED  BY <1>1, <1>2 DEF RestoreDb

LEMMA LoaderFacts ==
  ASSUME NEW r \in Req, TypeOK, Core, Loading(r)
  PROVE  /\ ns # "active" /\ dump \in Copies(acked) /\ acked \in Nat
         /\ \A q \in Req \ {r} : ~Loading(q)
         /\ \A q \in Req : pc[q] # "dl_db"
         /\ \A q \in Req : pc[q] \notin CollectSteps \cup {"dl_down", "dl_ns"}
         /\ \A q \in Req : ~PastDump(q)
BY DEF Core, LoadInv, LockedInv, TaskInv, PastDump, TypeOK, CollectSteps, DeleteSteps

\* rename, psql, and the check of the namespace.
LEMMA LoadCore ==
  ASSUME NEW r \in Req, TypeOK, TypeOK', Core, ~deleted, ~deleted',
         RestoreWip(r) \/ RestorePsql(r) \/ CreateCheck(r)
  PROVE  Core'
<1>1. Loading(r) /\ pc[r] \in {"rs_wip", "rs_psql", "cr_check"}
  BY DEF RestoreWip, RestorePsql, CreateCheck, Loading
<1>2. db \in IF pc[r] \in {"rs_wip", "rs_psql"} THEN {Partial} ELSE Loaded(dump)
  BY <1>1 DEF Core, LoadInv
<1>3. UNCHANGED <<ns, dump, acked>>
  BY DEF RestoreWip, RestorePsql, CreateCheck, cluster, disk, ghosts
<1>4. \A q \in Req \ {r} : pc'[q] = pc[q] /\ task'[q] = task[q] /\ (nsLock = q => nsLock' = q)
  BY ReturnCalm, Others DEF RestoreWip, RestorePsql, CreateCheck, Labels, RestoreSteps, CreateSteps
<1>5. \/ pc'[r] \in Calm
      \/ pc'[r] = "rs_psql" /\ db' = Partial
      \/ pc'[r] \in {"cr_check", "cr_apply"} /\ db' \in Loaded(dump)
  <2>1. CASE RestoreWip(r)
    BY <2>1, <1>2, Others DEF RestoreWip, Labels, RestoreSteps
  <2>2. CASE RestorePsql(r)
    BY <2>2, <1>1, LoaderFacts, Others, ReturnCalm DEF RestorePsql, Labels, CreateSteps
  <2>3. CASE CreateCheck(r)
    BY <2>3, <1>2, Others, CalmLabels DEF CreateCheck, Labels, CreateSteps, RestoreSteps
  <2>. QED  BY <2>1, <2>2, <2>3
<1>6. pc'[r] \notin CollectSteps \cup DeleteSteps
  BY <1>5 DEF Calm, CollectSteps, DeleteSteps
<1>. USE <1>1, <1>3, <1>4, <1>6, LoaderFacts
<1>7. TaskInv' /\ LockedInv' /\ ServingInv' /\ DataKept'
  BY DEF Core, TaskInv, LockedInv, ServingInv, DataKept, DeleteSteps
<1>8. DumpedInv' /\ DropInv'
  BY DEF DumpedInv, PastDump, DropInv, CollectSteps, DeleteSteps
<1>9. LoadInv'
  BY <1>5 DEF LoadInv, Loading, DeleteSteps, Calm
<1>. QED  BY <1>7, <1>8, <1>9 DEF Core

LEMMA CreateApplyCore ==
  ASSUME NEW r \in Req, TypeOK, TypeOK', Core, ~deleted, ~deleted', CreateApply(r)
  PROVE  Core'
<1>1. Loading(r) /\ db \in Copies(acked)
  <2>1. Loading(r) /\ db \in Loaded(dump)
    BY DEF CreateApply, Loading, Core, LoadInv
  <2>. QED
    BY <2>1, LoaderFacts, LoadedFacts
<1>2. UNCHANGED <<db, dump, acked>>
  BY DEF CreateApply, disk, ghosts
<1>3. /\ \A q \in Req \ {r} : pc'[q] = pc[q] /\ task'[q] = task[q] /\ (nsLock = q => nsLock' = q)
      /\ pc'[r] \in Calm
  BY ReturnCalm, GotoCalm, CalmLabels DEF CreateApply
<1>4. pc'[r] \notin CollectSteps \cup DeleteSteps /\ ~Loading(r)'
  BY <1>3 DEF Calm, Loading
<1>5. \A q \in Req : ~Loading(q)'
  BY <1>1, <1>3, <1>4, LoaderFacts DEF Loading
<1>. USE <1>1, <1>2, <1>3, <1>4, <1>5, LoaderFacts
<1>6. TaskInv' /\ LockedInv' /\ ServingInv' /\ DataKept'
  BY DEF Core, TaskInv, LockedInv, ServingInv, DataKept, DeleteSteps
<1>7. DumpedInv' /\ DropInv'
  BY DEF DumpedInv, PastDump, DropInv, CollectSteps, DeleteSteps
<1>8. LoadInv'
  BY DEF LoadInv
<1>. QED  BY <1>6, <1>7, <1>8 DEF Core

\* The fresh database a late restore creates is never a hub's only copy.
LEMMA CreateDbCore ==
  ASSUME NEW r \in Req, TypeOK, TypeOK', Core, ~deleted, ~deleted', CreateDb(r)
  PROVE  Core'
<1>1. UNCHANGED <<ns, dump, acked>> /\ Goto(r, "rs_ts")
  BY DEF CreateDb, disk, ghosts
<1>2. CASE db # Absent
  BY <1>1, <1>2, CalmStep, GotoCalm, CalmLabels DEF CreateDb, ghosts
<1>3. CASE db = Absent
  <2>1. acked \in Nat
    BY DEF TypeOK
  <2>2. /\ ns # "active" /\ dump \in Copies(acked)
        /\ \A q \in Req : pc[q] # "dl_db" /\ ~Loading(q) /\ ~PastDump(q)
    BY <1>3, NoDatabase
  <2>3. /\ pc'[r] = "rs_ts" /\ task'[r] = task[r] /\ nsLock' = nsLock
        /\ \A q \in Req \ {r} : pc'[q] = pc[q] /\ task'[q] = task[q]
    BY <1>1, Others DEF Labels, RestoreSteps
  <2>. USE <1>1, <2>2, <2>3
  <2>4. TaskInv' /\ LockedInv' /\ ServingInv' /\ DataKept'
    BY DEF Core, TaskInv, LockedInv, ServingInv, DataKept, CollectSteps, DeleteSteps
  <2>5. DumpedInv'
    BY DEF DumpedInv, PastDump, DeleteSteps
  <2>6. DropInv' /\ LoadInv'
    BY DEF DropInv, LoadInv, Loading
  <2>. QED  BY <2>4, <2>5, <2>6 DEF Core
<1>. QED  BY <1>2, <1>3
LEMMA EnvironmentCore ==
  ASSUME TypeOK, TypeOK', Core, ~deleted, ~deleted', Benign, Environment
  PROVE  Core'
<1>1. CASE OrphanExpires
  <2>1. /\ UNCHANGED <<ns, db, dump, acked, pc, task>>
        /\ \A q \in Req : nsLock # q
    BY <1>1, ReqAssumption DEF OrphanExpires, disk, request, ghosts
  <2>. QED
    BY <2>1 DEF Core, TaskInv, ServingInv, LockedInv, DumpedInv, PastDump, DropInv, LoadInv, Loading,
                DataKept
<1>2. CASE NsFinalised
  <2>1. /\ ns = "terminating" /\ ns' = "absent"
        /\ UNCHANGED <<db, dump, acked, pc, task>>
    BY <1>2 DEF NsFinalised, disk, request, ghosts
  <2>. QED
    BY <2>1 DEF Core, TaskInv, ServingInv, LockedInv, DumpedInv, PastDump, DropInv, LoadInv, Loading,
                DataKept
<1>3. CASE CooldownElapses
  <2>1. UNCHANGED <<ns, nsLock, db, dump, acked, pc, task>>
    BY <1>3 DEF CooldownElapses, cluster, request, ghosts
  <2>. QED
    BY <2>1 DEF Core, TaskInv, ServingInv, LockedInv, DumpedInv, PastDump, DropInv, LoadInv, Loading,
                DataKept
<1>4. CASE HubWrite
  <2>1. /\ ns = "active" /\ UNCHANGED <<ns, nsLock, dump, pc, task>>
        /\ acked' = acked + 1 /\ db \in Copies(acked) /\ acked \in Nat
        /\ \A q \in Req : ~PastDump(q)
    BY <1>4 DEF HubWrite, Benign, Core, ServingInv, TypeOK, cluster, disk, request
  <2>2. db' \in Copies(acked')
    <3>1. db' = [db EXCEPT !.ver = @ + 1]
      BY <1>4 DEF HubWrite
    <3>. QED  BY <2>1, <3>1, CopyWritten
  <2>3. \A q \in Req : pc[q] # "dl_db" /\ ~Loading(q)
    BY <2>1 DEF Core, DropInv, LoadInv
  <2>. USE <2>1, <2>2, <2>3
  <2>4. TaskInv' /\ ServingInv' /\ LockedInv' /\ DataKept'
    BY DEF Core, TaskInv, ServingInv, LockedInv, DataKept
  <2>5. DumpedInv' /\ DropInv' /\ LoadInv'
    BY DEF DumpedInv, PastDump, DropInv, LoadInv, Loading
  <2>. QED  BY <2>4, <2>5 DEF Core
<1>. QED  BY <1>1, <1>2, <1>3, <1>4 DEF Environment

\* Nothing takes back a request to delete the hub.
LEMMA DeletedStays == TypeOK /\ [Next]_vars /\ ~deleted' => ~deleted
<1>1. ASSUME NEW r \in Req, Receive(r) \/ Crash(r), ~deleted' PROVE deleted # TRUE
  BY <1>1 DEF Receive, RecvPatch, RecvDelete, RecvVisit, Crash, ghosts
<1>2. ASSUME NEW r \in Req, Step(r) PROVE deleted' = deleted
  BY <1>2 DEF Step, Prelude, Lock, Switch, CollectFlag, CollectCfg, CollectDump, CollectLookup,
              CollectDone, DeleteDown, DeleteNs, DeleteFiles, DeleteDb, RestoreNs, RestoreBlocked,
              RestoreCooldown, RestoreCfg, RestoreDb, RestoreWip, RestorePsql, RestoreTs,
              RestoreDone, CreateCheck, CreateApply, CreateDb, ghosts
<1>3. Environment => deleted' = deleted
  BY DEF Environment, OrphanExpires, NsFinalised, CooldownElapses, HubWrite, ghosts
<1>4. UNCHANGED vars => deleted' = deleted
  BY DEF vars
<1>. QED  BY <1>1, <1>2, <1>3, <1>4 DEF Next, TypeOK

LEMMA StepCore ==
  ASSUME NEW r \in Req, TypeOK, TypeOK', Core, ~deleted, ~deleted', Benign, Step(r)
  PROVE  Core'
<1>1. ~DeleteFiles(r)
  BY DEF DeleteFiles, Core, TaskInv
<1>. QED
  BY <1>1, ReadOnlyCore, LockCore, CollectCore, CollectDumpCore, DeleteNsCore, DeleteDbCore,
     RestoreDbCore, LoadCore, CreateApplyCore, CreateDbCore DEF Step

\* The dump of a hub that is down is not touched, and was complete when it
\* went down.
LEMMA StoredStep ==
  ASSUME TypeOK, Core, StoredInv, ~deleted, ~deleted', Benign, Next
  PROVE  StoredInv'
<1>1. CASE \E r \in Req : CollectDump(r)
  BY <1>1 DEF CollectDump, ghosts, Core, LockedInv, StoredInv, CollectSteps
<1>2. CASE \E r \in Req : DeleteNs(r)
  BY <1>2 DEF DeleteNs, disk, ghosts, Core, DumpedInv, PastDump, TaskInv, DeleteSteps, StoredInv
<1>3. CASE \E r \in Req : CreateApply(r)
  BY <1>3 DEF CreateApply, disk, ghosts, StoredInv
<1>4. CASE HubWrite
  BY <1>4 DEF HubWrite, cluster, StoredInv
<1>5. CASE NsFinalised
  BY <1>5 DEF NsFinalised, disk, ghosts, StoredInv
<1>6. CASE UNCHANGED <<ns, dump, acked>>
  BY <1>6 DEF StoredInv
<1>7. ASSUME NEW r \in Req, Receive(r) \/ Crash(r) PROVE UNCHANGED <<ns, dump, acked>>
  BY <1>7 DEF Receive, RecvPatch, RecvDelete, RecvVisit, Begin, Crash, cluster, disk, ghosts
<1>8. ASSUME NEW r \in Req, Step(r), ~CollectDump(r), ~DeleteNs(r), ~CreateApply(r)
      PROVE  UNCHANGED <<ns, dump, acked>>
  <2>1. ~DeleteFiles(r)
    BY DEF DeleteFiles, Core, TaskInv
  <2>2. UNCHANGED ns
    BY <1>8, <2>1 DEF Step, Prelude, Lock, Switch, CollectFlag, CollectCfg, CollectLookup,
      CollectDone, DeleteDown, DeleteDb, RestoreNs, RestoreBlocked, RestoreCooldown, RestoreCfg,
      RestoreDb, RestoreWip, RestorePsql, RestoreTs, RestoreDone, CreateCheck, CreateDb, cluster
  <2>3. UNCHANGED dump
    BY <1>8, <2>1 DEF Step, Prelude, Lock, Switch, CollectFlag, CollectCfg, CollectLookup,
      CollectDone, DeleteDown, DeleteDb, RestoreNs, RestoreBlocked, RestoreCooldown, RestoreCfg,
      RestoreDb, RestoreWip, RestorePsql, RestoreTs, RestoreDone, CreateCheck, CreateDb, disk
  <2>4. UNCHANGED acked
    BY <1>8, <2>1 DEF Step, Prelude, Lock, Switch, CollectFlag, CollectCfg, CollectLookup,
      CollectDone, DeleteDown, DeleteDb, RestoreNs, RestoreBlocked, RestoreCooldown, RestoreCfg,
      RestoreDb, RestoreWip, RestorePsql, RestoreTs, RestoreDone, CreateCheck, CreateDb, ghosts
  <2>. QED  BY <2>2, <2>3, <2>4
<1>9. OrphanExpires \/ CooldownElapses => UNCHANGED <<ns, dump, acked>>
  BY DEF OrphanExpires, CooldownElapses, cluster, disk, ghosts
<1>. QED
  BY <1>1, <1>2, <1>3, <1>4, <1>5, <1>6, <1>7, <1>8, <1>9 DEF Next, Environment

LEMMA InvInit == Init => IInv
<1>. SUFFICES ASSUME Init PROVE IInv
  OBVIOUS
<1>1. TypeOK
  BY ContentFacts DEF Init, TypeOK, Labels
<1>2. \A r \in Req : pc[r] = "idle"
  BY DEF Init
<1>3. TaskInv /\ LockedInv /\ DumpedInv /\ DropInv /\ LoadInv
  BY <1>2 DEF TaskInv, LockedInv, DumpedInv, PastDump, DropInv, LoadInv, Loading, CollectSteps,
              DeleteSteps
<1>4. ServingInv /\ DataKept /\ StoredInv
  BY CopyFacts DEF Init, ServingInv, DataKept, StoredInv
<1>. QED  BY <1>1, <1>3, <1>4 DEF IInv, Core

LEMMA InvStep == ASSUME Benign PROVE IInv /\ [Next]_vars => IInv'
<1>. SUFFICES ASSUME IInv, [Next]_vars PROVE IInv'
  OBVIOUS
<1>1. TypeOK /\ TypeOK'
  BY TypeStep DEF IInv
<1>. SUFFICES ASSUME ~deleted' PROVE Core' /\ StoredInv'
  BY <1>1 DEF IInv
<1>2. ~deleted /\ Core /\ StoredInv
  BY <1>1, DeletedStays DEF IInv
<1>3. CASE UNCHANGED vars
  BY <1>2, <1>3 DEF vars, Core, TaskInv, ServingInv, LockedInv, DumpedInv, PastDump, DropInv,
                    LoadInv, Loading, DataKept, StoredInv
<1>4. ASSUME NEW r \in Req, Receive(r) \/ Step(r) \/ Crash(r) PROVE Core'
  BY <1>1, <1>2, <1>4, ReadOnlyCore, StepCore
<1>. QED
  BY <1>1, <1>2, <1>3, <1>4, EnvironmentCore, StoredStep DEF Next

\* The inductive invariant, for every set of requests and every bound.
THEOREM InvHolds == ASSUME Benign PROVE Spec => []IInv
BY InvInit, InvStep, PTL DEF Spec

\* A hub's data survive every interleaving of collects, restores, visits and
\* switches, every crash of orch and every error but a refused deletion of
\* the namespace, until somebody deletes the hub, provided that its users
\* write nothing between the dump and the end of a collect.
THEOREM DataNeverLost == ASSUME Benign PROVE Spec => []DataKept
<1>1. IInv => DataKept
  BY DEF IInv, Core, DataKept
<1>. QED  BY <1>1, InvHolds, PTL

\* CREATE DATABASE elects one restore, and the removal of the namespace
\* keeps every collect away from what it loads.
THEOREM RestoresAlone == ASSUME Benign PROVE Spec => []LoadAlone
<1>1. IInv => LoadAlone
  <2>. SUFFICES ASSUME IInv, ~deleted, NEW r \in Req, NEW q \in Req, Loading(r)
                PROVE  (Loading(q) => r = q) /\ ~Collecting(q)
    BY DEF LoadAlone
  <2>1. TypeOK /\ Core
    BY DEF IInv
  <2>2. /\ \A x \in Req \ {r} : ~Loading(x)
        /\ \A x \in Req : pc[x] # "dl_db"
        /\ \A x \in Req : pc[x] \notin CollectSteps \cup {"dl_down", "dl_ns"}
    BY <2>1, LoaderFacts
  <2>3. pc[q] # "dl_files"
    BY <2>1 DEF Core, TaskInv
  <2>. QED
    BY <2>2, <2>3 DEF Collecting, DeleteSteps
<1>. QED  BY <1>1, InvHolds, PTL

\* Only CreateHubsCloudInstance brings a hub up.
LEMMA BackOnlyByApply ==
  ASSUME [Next]_vars, ns # "active", ns' = "active"
  PROVE  \E r \in Req : CreateApply(r)
<1>1. ~Environment
  BY DEF Environment, OrphanExpires, NsFinalised, CooldownElapses, HubWrite, cluster
<1>2. \A r \in Req : ~Receive(r) /\ ~Crash(r)
  BY DEF Receive, RecvPatch, RecvDelete, RecvVisit, Begin, Crash, cluster
<1>3. PICK r \in Req : Step(r)
  BY <1>1, <1>2 DEF Next, vars
<1>. QED
  BY <1>3 DEF Step, Prelude, Lock, Switch, CollectFlag, CollectCfg, CollectDump, CollectLookup,
              CollectDone, DeleteDown, DeleteNs, DeleteFiles, DeleteDb, RestoreNs,
              RestoreBlocked, RestoreCooldown, RestoreCfg, RestoreDb, RestoreWip, RestorePsql,
              RestoreTs, RestoreDone, CreateCheck, CreateDb, cluster

\* A hub comes up with what psql made of its dump.
LEMMA BackStep ==
  ASSUME IInv, ~deleted, [Next]_vars, ns # "active", ns' = "active"
  PROVE  db' = db /\ db \in Loaded(dump) /\ dump \in Copies(acked) /\ acked \in Nat
<1>1. PICK r \in Req : CreateApply(r)
  BY BackOnlyByApply
<1>2. Loading(r) /\ pc[r] = "cr_apply"
  BY <1>1 DEF CreateApply, Loading
<1>. QED
  BY <1>1, <1>2 DEF CreateApply, IInv, TypeOK, Core, LoadInv

\* The step that deploys a collected hub finds in its database all that its
\* users left, but for what psql skipped of the dump.
THEOREM ComesBack == ASSUME Benign PROVE Spec => ComesBackWhole
<1>. DEFINE Safe == ns # "active" /\ ns' = "active" /\ ~deleted => db \in Copies(acked)
<1>1. IInv /\ [Next]_vars => [Safe]_vars
  BY BackStep, LoadedFacts
<1>. QED  BY <1>1, InvHolds, PTL DEF Spec, ComesBackWhole

-----------------------------------------------------------------------------
(* HubLifecycle implements HubStore.                                       *)

\* Seen by its users, a hub that nobody has deleted holds all they wrote.
LEMMA DataIsAcked ==
  ASSUME IInv, ~deleted
  PROVE  /\ Data = acked /\ acked \in Nat /\ Held \in Copies(acked)
         /\ Status = IF ns = "active" THEN "up" ELSE "stored"
<1>1. acked \in Nat /\ ServingInv /\ StoredInv
  BY DEF IInv, TypeOK, Core
<1>2. Held \in Copies(acked)
  BY <1>1 DEF ServingInv, StoredInv, Held
<1>3. Held.ver = acked
  BY <1>1, <1>2, CopyVersion
<1>. QED  BY <1>1, <1>2, <1>3 DEF Data, Status

\* Only the hub's users change what they have written, while the hub is up;
\* and a request to delete the hub stands.
LEMMA AckedStep ==
  ASSUME TypeOK, [Next]_vars
  PROVE  /\ \/ acked' = acked
            \/ acked' = acked + 1 /\ HubWrite
         /\ deleted => deleted'
<1>1. ASSUME NEW r \in Req, Receive(r) \/ Crash(r) PROVE acked' = acked /\ (deleted => deleted')
  BY <1>1 DEF Receive, RecvPatch, RecvDelete, RecvVisit, Begin, Crash, ghosts
<1>2. ASSUME NEW r \in Req, Step(r) PROVE UNCHANGED ghosts
  BY <1>2 DEF Step, Prelude, Lock, Switch, CollectFlag, CollectCfg, CollectDump, CollectLookup,
              CollectDone, DeleteDown, DeleteNs, DeleteFiles, DeleteDb, RestoreNs, RestoreBlocked,
              RestoreCooldown, RestoreCfg, RestoreDb, RestoreWip, RestorePsql, RestoreTs,
              RestoreDone, CreateCheck, CreateApply, CreateDb
<1>3. HubWrite => acked' = acked + 1 /\ deleted' = deleted
  BY DEF HubWrite
<1>4. OrphanExpires \/ NsFinalised \/ CooldownElapses => UNCHANGED ghosts
  BY DEF OrphanExpires, NsFinalised, CooldownElapses
<1>5. UNCHANGED vars => UNCHANGED ghosts
  BY DEF vars, ghosts
<1>. QED  BY <1>1, <1>2, <1>3, <1>4, <1>5 DEF Next, Environment, ghosts

\* Nobody but its users changes the data of a hub while it stays up.
LEMMA UpStep ==
  ASSUME TypeOK, TypeOK', Core, ~deleted, ~deleted', Benign, [Next]_vars,
         ns = "active", ns' = "active", acked' = acked
  PROVE  db' = db
<1>1. \A r \in Req : pc[r] # "rs_psql" /\ pc[r] # "dl_db"
  BY DEF Core, LoadInv, Loading, DropInv
<1>2. db # Absent
  BY CopyFacts DEF Core, ServingInv, TypeOK
<1>3. ASSUME NEW r \in Req, Receive(r) \/ Crash(r) PROVE db' = db
  BY <1>3 DEF Receive, RecvPatch, RecvDelete, RecvVisit, Begin, Crash
<1>4. ASSUME NEW r \in Req, Step(r) PROVE db' = db
  <2>1. ~DeleteFiles(r) /\ ~DeleteDb(r) /\ ~RestorePsql(r)
    BY <1>1 DEF DeleteFiles, DeleteDb, RestorePsql, Core, TaskInv
  <2>2. RestoreDb(r) \/ CreateDb(r) => db' = db
    BY <1>2 DEF RestoreDb, CreateDb
  <2>. QED
    BY <1>4, <2>1, <2>2 DEF Step, Prelude, Lock, Switch, CollectFlag, CollectCfg, CollectDump,
       CollectLookup, CollectDone, DeleteDown, DeleteNs, RestoreNs, RestoreBlocked,
       RestoreCooldown, RestoreCfg, RestoreWip, RestoreTs, RestoreDone, CreateCheck, CreateApply
<1>5. HubWrite => db' = db
  BY DEF HubWrite, TypeOK
<1>6. OrphanExpires \/ NsFinalised \/ CooldownElapses => db' = db
  BY DEF OrphanExpires, NsFinalised, CooldownElapses
<1>7. UNCHANGED vars => db' = db
  BY DEF vars
<1>. QED  BY <1>3, <1>4, <1>5, <1>6, <1>7 DEF Next, Environment

\* A hub goes down with its dump made, of what it holds.
LEMMA DownStep ==
  ASSUME TypeOK, Core, ~deleted, ~deleted', [Next]_vars, ns = "active", ns' # "active"
  PROVE  dump' = db
<1>1. PICK r \in Req : DeleteNs(r)
  <2>1. ~Environment
    BY DEF Environment, OrphanExpires, NsFinalised, CooldownElapses, HubWrite, cluster
  <2>2. \A r \in Req : ~Receive(r) /\ ~Crash(r)
    BY DEF Receive, RecvPatch, RecvDelete, RecvVisit, Begin, Crash, cluster
  <2>3. PICK r \in Req : Step(r)
    BY <2>1, <2>2 DEF Next, vars
  <2>. QED
    BY <2>3 DEF Step, Prelude, Lock, Switch, CollectFlag, CollectCfg, CollectDump, CollectLookup,
                CollectDone, DeleteDown, DeleteFiles, DeleteDb, RestoreNs, RestoreBlocked,
                RestoreCooldown, RestoreCfg, RestoreDb, RestoreWip, RestorePsql, RestoreTs,
                RestoreDone, CreateCheck, CreateApply, CreateDb, cluster
<1>2. PastDump(r) /\ pc[r] # "dl_db"
  BY <1>1 DEF DeleteNs, PastDump, DeleteSteps, Core, TaskInv
<1>. QED
  BY <1>1, <1>2 DEF DeleteNs, Core, DumpedInv, disk

\* While the hub is stored away its dump is not touched.
LEMMA AwayStep ==
  ASSUME TypeOK, Core, StoredInv, ~deleted, ~deleted', [Next]_vars, ns # "active", ns' # "active"
  PROVE  dump' = dump
<1>1. ASSUME NEW r \in Req, Receive(r) \/ Crash(r) PROVE dump' = dump
  BY <1>1 DEF Receive, RecvPatch, RecvDelete, RecvVisit, Begin, Crash, disk
<1>2. ASSUME NEW r \in Req, Step(r) PROVE dump' = dump
  <2>1. ~DeleteFiles(r) /\ ~CollectDump(r)
    BY DEF DeleteFiles, CollectDump, Core, TaskInv, LockedInv, CollectSteps
  <2>. QED
    BY <1>2, <2>1 DEF Step, Prelude, Lock, Switch, CollectFlag, CollectCfg, CollectLookup,
       CollectDone, DeleteDown, DeleteNs, DeleteDb, RestoreNs, RestoreBlocked, RestoreCooldown,
       RestoreCfg, RestoreDb, RestoreWip, RestorePsql, RestoreTs, RestoreDone, CreateCheck,
       CreateApply, CreateDb, disk
<1>3. Environment => dump' = dump
  BY DEF Environment, OrphanExpires, NsFinalised, CooldownElapses, HubWrite, disk
<1>4. UNCHANGED vars => dump' = dump
  BY DEF vars
<1>. QED  BY <1>1, <1>2, <1>3, <1>4 DEF Next

\* To its users a hub is a store that is up or put away, changes only by what
\* they write and loses it only when it is deleted, or what psql skips when it
\* is restored, although the code builds it from four stores that fail and
\* are reached one call at a time.
THEOREM ImplementsStore == ASSUME Benign PROVE Spec => KeepsPromise
<1>1. Init => Store!Init
  BY ContentFacts DEF Init, Store!Init, Status, Data, Whole, Held
<1>2. IInv /\ IInv' /\ [Next]_vars => [Store!Next]_Store!vars
  <2>. SUFFICES ASSUME IInv, IInv', [Next]_vars
                PROVE  Store!Next \/ (Status' = Status /\ Data' = Data /\ Whole' = Whole)
    BY DEF Store!vars
  <2>. USE DEF Store!Next, Store!Write, Store!Collect, Store!Restore, Store!Delete
  <2>1. TypeOK /\ TypeOK'
    BY DEF IInv
  <2>2. CASE deleted
    <3>1. deleted'
      BY <2>1, <2>2, AckedStep
    <3>. QED  BY <2>2, <3>1 DEF Status, Data, Whole
  <2>3. CASE ~deleted /\ deleted'
    BY <2>3 DEF Status, Data, Whole
  <2>4. CASE ~deleted /\ ~deleted'
    <3>1. /\ Data = acked /\ acked \in Nat /\ Held \in Copies(acked)
          /\ Status = IF ns = "active" THEN "up" ELSE "stored"
      BY <2>4, DataIsAcked
    <3>2. /\ Data' = acked' /\ Status' = IF ns' = "active" THEN "up" ELSE "stored"
      <4>1. acked' \in Nat /\ ServingInv' /\ StoredInv'
        BY <2>4 DEF IInv, TypeOK, Core
      <4>2. Held' \in Copies(acked')
        BY <2>4, <4>1 DEF ServingInv, StoredInv, Held
      <4>3. Held'.ver = acked'
        BY <4>1, <4>2, CopyVersion
      <4>. QED  BY <2>4, <4>3 DEF Data, Status
    <3>3. Whole = (Held.st = "full") /\ Whole' = (Held'.st = "full")
      BY <2>4 DEF Whole
    <3>4. Core /\ StoredInv
      BY <2>4 DEF IInv
    <3>5. CASE acked' = acked + 1 /\ HubWrite
      <4>1. ns = "active" /\ ns' = "active" /\ db' = [db EXCEPT !.ver = @ + 1]
        BY <3>5 DEF HubWrite, cluster
      <4>2. db'.st = db.st
        BY <4>1, <2>1 DEF TypeOK, Content
      <4>. QED
        BY <3>1, <3>2, <3>3, <3>5, <4>1, <4>2 DEF Held
    <3>6. CASE acked' = acked /\ ns = "active" /\ ns' = "active"
      <4>1. Held' = Held
        BY <2>1, <2>4, <3>4, <3>6, UpStep DEF Held
      <4>. QED  BY <3>1, <3>2, <3>3, <3>6, <4>1
    <3>7. CASE acked' = acked /\ ns = "active" /\ ns' # "active"
      <4>1. Held' = Held
        BY <2>1, <2>4, <3>4, <3>7, DownStep DEF Held
      <4>. QED  BY <3>1, <3>2, <3>3, <3>7, <4>1
    <3>8. CASE acked' = acked /\ ns # "active" /\ ns' = "active"
      <4>1. Held' \in Loaded(Held)
        BY <2>4, <3>8, BackStep DEF Held
      <4>2. Whole' = Whole \/ (Whole' = FALSE /\ Fault("sql"))
        BY <3>1, <3>3, <4>1, CopyVersion, LoadedFacts DEF Loaded
      <4>. QED  BY <3>1, <3>2, <3>8, <4>2
    <3>9. CASE acked' = acked /\ ns # "active" /\ ns' # "active"
      <4>1. Held' = Held
        BY <2>1, <2>4, <3>4, <3>9, AwayStep DEF Held
      <4>. QED  BY <3>1, <3>2, <3>3, <3>9, <4>1
    <3>. QED  BY <2>1, <3>5, <3>6, <3>7, <3>8, <3>9, AckedStep
  <2>. QED  BY <2>1, <2>2, <2>3, <2>4 DEF TypeOK
<1>. QED
  BY <1>1, <1>2, InvHolds, PTL DEF Spec, KeepsPromise, Store!Spec
=============================================================================
