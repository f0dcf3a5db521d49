------------------------------- MODULE HubBackup -------------------------------
(***************************************************************************)
(* Backups of a hub.  The orchestrator makes snapshots of a hub's volume   *)
(* together with a dump of its database, and puts them back                *)
(* (hc_snapshot.go; orch/main.go:91 leaves the route out, so that nothing  *)
(* calls it yet).  The hub's own ita restores a backup that its admin has  *)
(* uploaded: it drops the database's schema, loads the dump and moves the  *)
(* files into place (handlers.go, Restore).  No request takes a lock.      *)
(***************************************************************************)
EXTENDS Naturals, FiniteSets

CONSTANTS
  Snaps,      \* names of snapshots: the client's, or by default the time
  Reqs,       \* bound: requests to the orchestrator
  Files,      \* directories in the storage of the uploaded backup, besides the dump
  Restores,   \* bound: requests to ita
  MaxCrashes, \* bound: restarts of ita
  MaxFails    \* bound: calls that fail

ASSUME BoundAssumption == {MaxCrashes, MaxFails} \subseteq Nat
ASSUME FileAssumption  == {"owned", "dump"} \cap Files = {}

VARIABLES
  hub,       \* the hub's deployments: "up", "down" or some of each, "part"
  listed,    \* VolumeSnapshots
  dumps,     \* dumps in the bucket
  exports,   \* exports that Cloud SQL has still to do
  claim,     \* the volume of the nfs StatefulSet
  req,       \* the requests to the orchestrator
  place,     \* of each file of the uploaded backup
  schema,    \* ret0: "old", "none", "part" or "new"
  restore,   \* the requests to ita
  keys,      \* secret_key and secret_key_base are the backup's
  crashes, fails,
  half,      \* history: snapshots whose creation or export failed half way
  crossed,   \* history: snapshots that were created and deleted at once
  again,     \* history: a restore has begun after another had
  slipped    \* history: an error that Restore does not see or does not mind

snapshots == <<hub, listed, dumps, exports, claim, req, half, crossed>>
uploaded  == <<place, schema, restore, keys, crashes, again, slipped>>
vars      == <<snapshots, uploaded, fails>>

Parts == Files \cup {"owned", "dump"}

Fail == fails < MaxFails /\ fails' = fails + 1
Fine == UNCHANGED fails

-----------------------------------------------------------------------------
(* HC_snapshot: what each kind of request does, in order.                  *)

After(kind, pc) ==
  CASE kind = "create"  -> [down |-> "snapshot", snapshot |-> "export", export |-> "up", up |-> "done"][pc]
    [] kind = "restore" -> [pvc |-> "down", down |-> "claim", claim |-> "import", import |-> "up", up |-> "done"][pc]
    [] kind = "delete"  -> [unlist |-> "undump", undump |-> "done"][pc]

First(kind) == [create |-> "down", restore |-> "pvc", delete |-> "unlist"][kind]

At(q, pc) == req[q].pc = pc

\* A request of that kind for snapshot s is at work.
Busy(q, kind, s) == req[q].pc \notin {"idle", "done"} /\ req[q].kind = kind /\ req[q].snap = s

GoOn(q)   == req' = [req EXCEPT ![q].pc = After(req[q].kind, @)] /\ Fine /\ UNCHANGED <<half, crossed>>
Stop(q)   == /\ Fail /\ req' = [req EXCEPT ![q].pc = "done"]
             /\ UNCHANGED crossed
             /\ half' = IF req[q].kind = "create" THEN half \cup {req[q].snap} ELSE half

\* A creation meets a deletion of the same snapshot.
Meets(kind, s) ==
  \E r \in Reqs : \/ kind = "create" /\ Busy(r, "delete", s)
                  \/ kind = "delete" /\ Busy(r, "create", s)

\* A mistake: a request without a name is taken as it is.
AskUnnamed(q, kind, s) ==
  /\ At(q, "idle")
  /\ req' = [req EXCEPT ![q] = [pc |-> First(kind), kind |-> kind, snap |-> "none"]]
  /\ UNCHANGED <<hub, listed, dumps, exports, claim, half, crossed, uploaded, fails>>

\* The name is the client's: it may be created twice, and again once it is deleted.
Ask(q, kind, s) ==
  /\ At(q, "idle")
  /\ req' = [req EXCEPT ![q] = [pc |-> First(kind), kind |-> kind, snap |-> s]]
  /\ crossed' = crossed \cup IF Meets(kind, s) THEN {s} ELSE {}
  /\ UNCHANGED <<hub, listed, dumps, exports, claim, half, uploaded, fails>>

\* A process of ita ends, in the middle of psql it may be.
ItaStops ==
  /\ restore' = [r \in Restores |-> IF restore[r] \in {"idle", "restored"} THEN restore[r] ELSE "done"]
  /\ schema' \in {schema} \cup (IF \E r \in Restores : restore[r] = "load" THEN {"part"} ELSE {})
  /\ UNCHANGED <<place, keys, again, slipped>>

\* hc_switch changes one deployment after the other, ita's too.
SwitchDown(q) ==
  /\ At(q, "down")
  /\ \/ hub' = "down" /\ GoOn(q)
     \/ hub' \in {hub, "part"} /\ Stop(q)
  /\ IF hub' = hub THEN UNCHANGED uploaded ELSE ItaStops /\ UNCHANGED crashes
  /\ UNCHANGED <<listed, dumps, exports, claim>>

SwitchUp(q) ==
  /\ At(q, "up")
  /\ \/ hub' = "up" /\ GoOn(q)
     \/ hub' \in {hub, "part"} /\ Stop(q)
  /\ UNCHANGED <<listed, dumps, exports, claim, uploaded>>

Snapshot(q) ==
  /\ At(q, "snapshot")
  /\ (listed' = listed \cup {req[q].snap} /\ GoOn(q)) \/ (UNCHANGED listed /\ Stop(q))
  /\ UNCHANGED <<hub, dumps, exports, claim, uploaded>>

\* createSqlDump: Cloud SQL takes the request and is done with it later.
Export(q) ==
  /\ At(q, "export")
  /\ (exports' = exports \cup {req[q].snap} /\ GoOn(q)) \/ (UNCHANGED exports /\ Stop(q))
  /\ UNCHANGED <<hub, listed, dumps, claim, uploaded>>

ExportEnds(s) ==
  /\ s \in exports /\ exports' = exports \ {s}
  /\ \/ dumps' = dumps \cup {s} /\ Fine /\ UNCHANGED half
     \/ Fail /\ half' = half \cup {s} /\ UNCHANGED dumps
  /\ UNCHANGED <<hub, listed, claim, req, crossed, uploaded>>

\* The size of the snapshot is read and a claim is made of it.
ClaimOf(q) ==
  /\ At(q, "pvc")
  /\ \/ req[q].snap \in listed /\ GoOn(q)
     \/ Stop(q)
     \/ /\ req[q].snap \notin listed /\ req' = [req EXCEPT ![q].pc = "done"]
        /\ UNCHANGED <<half, crossed, fails>>
  /\ UNCHANGED <<hub, listed, dumps, exports, claim, uploaded>>

Mount(q) ==
  /\ At(q, "claim")
  /\ (claim' = req[q].snap /\ GoOn(q)) \/ (UNCHANGED claim /\ Stop(q))
  /\ UNCHANGED <<hub, listed, dumps, exports, uploaded>>

\* importSqlDump, which Cloud SQL does later as well.
Import(q) ==
  /\ At(q, "import")
  /\ GoOn(q) \/ Stop(q)
  /\ UNCHANGED <<hub, listed, dumps, exports, claim, uploaded>>

\* A mistake: a snapshot that could not be deleted does not stop the request.
UnlistOrNot(q) ==
  /\ At(q, "unlist")
  /\ \/ req[q].snap \in listed /\ listed' = listed \ {req[q].snap} /\ Fine
     \/ UNCHANGED listed /\ Fail
     \/ req[q].snap \notin listed /\ UNCHANGED listed /\ Fine
  /\ req' = [req EXCEPT ![q].pc = After(req[q].kind, @)]
  /\ UNCHANGED <<hub, dumps, exports, claim, half, crossed, uploaded>>

\* What is not there cannot be deleted, and the request ends.
Unlist(q) ==
  /\ At(q, "unlist")
  /\ \/ req[q].snap \in listed /\ listed' = listed \ {req[q].snap} /\ GoOn(q)
     \/ UNCHANGED listed /\ Stop(q)
     \/ /\ req[q].snap \notin listed /\ req' = [req EXCEPT ![q].pc = "done"]
        /\ UNCHANGED <<listed, half, crossed, fails>>
  /\ UNCHANGED <<hub, dumps, exports, claim, uploaded>>

Undump(q) ==
  /\ At(q, "undump")
  /\ \/ req[q].snap \in dumps /\ dumps' = dumps \ {req[q].snap} /\ GoOn(q)
     \/ UNCHANGED dumps /\ Stop(q)
     \/ /\ req[q].snap \notin dumps /\ req' = [req EXCEPT ![q].pc = "done"]
        /\ UNCHANGED <<dumps, half, crossed, fails>>
  /\ UNCHANGED <<hub, listed, exports, claim, uploaded>>

-----------------------------------------------------------------------------
(* ita's Restore.  An error ends it, but for those that psql and os.Rename *)
(* report to nobody.                                                       *)
Go(r, pc)   == restore' = [restore EXCEPT ![r] = pc]
Refuse(r)   == Fail /\ Go(r, "done")

\* The keys of the backup are written whether they differ or not.
Keys(r) ==
  /\ restore[r] = "idle"
  /\ again' = (again \/ \E s \in Restores : restore[s] # "idle")
  /\ (keys' = TRUE /\ Go(r, "drop") /\ Fine) \/ (Refuse(r) /\ UNCHANGED keys)
  /\ UNCHANGED <<place, schema, crashes, slipped, snapshots>>

Drop(r) ==
  /\ restore[r] = "drop"
  /\ \/ schema # "none" /\ schema' = "none" /\ Go(r, "load") /\ Fine
     \/ schema = "none" /\ Go(r, "done") /\ Fine /\ UNCHANGED schema
     \/ Refuse(r) /\ UNCHANGED schema
  /\ UNCHANGED <<place, keys, crashes, again, slipped, snapshots>>

\* psql -f goes on after an error of a statement, and ends well.
Load(r) ==
  /\ restore[r] = "load"
  /\ \/ /\ place["dump"] = "backup" /\ schema = "none"
        /\ schema' = "new" /\ Go(r, "clear") /\ Fine /\ UNCHANGED slipped
     \/ /\ place["dump"] = "backup"
        /\ schema' = "part" /\ slipped' = TRUE
        /\ Go(r, "clear")
        /\ IF schema = "none" THEN Fail ELSE Fine
     \/ /\ place["dump"] # "backup" /\ Go(r, "done") /\ Fine
        /\ UNCHANGED <<schema, slipped>>
     \/ Refuse(r) /\ UNCHANGED <<schema, slipped>>
  /\ UNCHANGED <<place, keys, crashes, again, snapshots>>

\* A mistake: all of the storage is cleared, and with it what was uploaded.
ClearAll(r) ==
  /\ restore[r] = "clear"
  /\ \/ place' = [f \in Parts |-> "lost"] /\ Go(r, "move") /\ Fine
     \/ Refuse(r) /\ UNCHANGED place
  /\ UNCHANGED <<schema, keys, crashes, again, slipped, snapshots>>

\* rm -rf /storage/owned
Clear(r) ==
  /\ restore[r] = "clear"
  /\ \/ /\ place' = [place EXCEPT !["owned"] = IF @ = "storage" THEN "lost" ELSE @]
        /\ Go(r, "move") /\ Fine
     \/ Refuse(r) /\ UNCHANGED place
  /\ UNCHANGED <<schema, keys, crashes, again, slipped, snapshots>>

\* os.Rename, one after the other, whether it works or not; what is moved is
\* no longer in the backup.  A directory is not moved onto one that is there.
Move(r, f) ==
  /\ restore[r] = "move" /\ place[f] = "backup"
  /\ place' = [place EXCEPT ![f] = "storage"]
  /\ UNCHANGED <<schema, restore, keys, crashes, again, slipped, snapshots, fails>>

AllMoved(r) ==
  /\ restore[r] = "move"
  /\ \/ (\A f \in Parts : place[f] # "backup") /\ Fine /\ UNCHANGED slipped
     \/ (\E f \in Parts : place[f] = "backup") /\ Fail /\ slipped' = TRUE
  /\ Go(r, "kill")
  /\ UNCHANGED <<place, schema, keys, crashes, again, snapshots>>

KillRet(r) ==
  /\ restore[r] = "kill"
  /\ (Go(r, "restored") /\ Fine) \/ Refuse(r)
  /\ UNCHANGED <<place, schema, keys, crashes, again, slipped, snapshots>>

\* Bound: MaxCrashes.
Crash ==
  /\ crashes < MaxCrashes /\ crashes' = crashes + 1
  /\ ItaStops
  /\ UNCHANGED <<snapshots, fails>>

-----------------------------------------------------------------------------
Init ==
  /\ hub = "up" /\ listed = {} /\ dumps = {} /\ exports = {} /\ claim = "first"
  /\ req = [q \in Reqs |-> [pc |-> "idle", kind |-> "none", snap |-> "none"]]
  /\ place = [f \in Parts |-> "backup"] /\ schema = "old" /\ keys = FALSE
  /\ restore = [r \in Restores |-> "idle"]
  /\ crashes = 0 /\ fails = 0
  /\ half = {} /\ crossed = {} /\ again = FALSE /\ slipped = FALSE

SnapshotStep(q) ==
  \/ SwitchDown(q) \/ SwitchUp(q) \/ Snapshot(q) \/ Export(q) \/ ClaimOf(q) \/ Mount(q) \/ Import(q) \/ Unlist(q) \/ Undump(q)

RestoreStep(r) ==
  /\ hub # "down"
  /\ \/ Keys(r) \/ Drop(r) \/ Load(r) \/ Clear(r) \/ AllMoved(r) \/ KillRet(r)
     \/ \E f \in Parts : Move(r, f)

Next ==
  \/ \E q \in Reqs : \/ SnapshotStep(q)
                     \/ \E kind \in {"create", "restore", "delete"}, s \in Snaps : Ask(q, kind, s)
  \/ \E s \in Snaps : ExportEnds(s)
  \/ \E r \in Restores : RestoreStep(r)
  \/ Crash

Spec == Init /\ [][Next]_vars

-----------------------------------------------------------------------------
Kinds     == {"create", "restore", "delete"}
ReqPcs    == {"idle", "down", "snapshot", "export", "pvc", "claim", "import", "up", "unlist", "undump", "done"}
RestorePcs == {"idle", "drop", "load", "clear", "move", "kill", "restored", "done"}

\* Requests and restores are at a step of theirs; a snapshot is listed, dumped
\* or exported under a name that was asked for (hc_snapshot.go:28, handlers.go:230).
TypeOK ==
  /\ hub \in {"up", "down", "part"}
  /\ listed \subseteq Snaps /\ dumps \subseteq Snaps /\ exports \subseteq Snaps
  /\ half \subseteq Snaps /\ crossed \subseteq Snaps
  /\ claim \in Snaps \cup {"first"}
  /\ req \in [Reqs -> [pc : ReqPcs, kind : Kinds \cup {"none"}, snap : Snaps \cup {"none"}]]
  /\ \A q \in Reqs : req[q].pc # "idle" => req[q].kind \in Kinds /\ req[q].snap \in Snaps
  /\ place \in [Parts -> {"backup", "storage", "lost"}]
  /\ schema \in {"old", "none", "part", "new"}
  /\ restore \in [Restores -> RestorePcs]
  /\ keys \in BOOLEAN /\ again \in BOOLEAN /\ slipped \in BOOLEAN
  /\ crashes \in 0..MaxCrashes /\ fails \in 0..MaxFails

\* A snapshot that is listed has its dump: the dump is there, or Cloud SQL has
\* still to make it, or it is about to be asked for.  Names come again, and
\* requests overlap, but for two cases: a creation that failed, which is not
\* undone, and a creation that overlapped a deletion of the same name, whose
\* second step may take the new dump (hc_snapshot.go:242-302, 53-75).
ListedWithDump ==
  \A s \in listed \ (half \cup crossed \cup dumps \cup exports) :
    \E q \in Reqs : At(q, "export") /\ req[q].snap = s

\* Until a second restore begins, whether ita is restarted or a step fails:
\* nothing that was uploaded is lost, as while the database has no schema the
\* dump is in the backup, and what is not there is in the hub's storage; and a
\* restore that says so has restored all, but for the errors it overlooks
\* (handlers.go:268-321).
BackupKept ==
  ~again => /\ \A f \in Parts : place[f] # "lost"
            /\ schema = "none" => place["dump"] = "backup"
            /\ (~slipped /\ \E r \in Restores : restore[r] = "restored") =>
                 schema = "new" /\ keys /\ \A f \in Parts : place[f] = "storage"
=============================================================================
