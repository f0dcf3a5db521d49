-------------------------- MODULE HubBackup_proofs --------------------------
(* Proofs about HubBackup, for any requests, snapshots and files.          *)
EXTENDS HubBackup, TLAPS

\* A request is at a step of its kind.
Fits(q) ==
  /\ req[q].pc \in {"snapshot", "export"} => req[q].kind = "create"
  /\ req[q].pc \in {"pvc", "claim", "import"} => req[q].kind = "restore"
  /\ req[q].pc \in {"unlist", "undump"} => req[q].kind = "delete"
  /\ req[q].pc \in {"down", "up"} => req[q].kind \in {"create", "restore"}
  /\ req[q].pc = "idle" => req[q].kind = "none"

Typed == TypeOK /\ \A q \in Reqs : Fits(q)

SnapStep == \E q \in Reqs : SnapshotStep(q)
Asked    == \E q \in Reqs, kind \in Kinds, s \in Snaps : Ask(q, kind, s)
Exported == \E s \in Snaps : ExportEnds(s)
Restored == \E r \in Restores : RestoreStep(r)

LEMMA NextCases ==
  ASSUME [Next]_vars
  PROVE  SnapStep \/ Asked \/ Exported \/ Restored \/ Crash \/ UNCHANGED vars
BY DEF Next, SnapStep, Asked, Exported, Restored, Kinds

-----------------------------------------------------------------------------
(* Types.                                                                  *)

LEMMA InitType == Init => Typed
<1>. 0 \in 0..MaxCrashes /\ 0 \in 0..MaxFails
  BY BoundAssumption
<1>1. Init => /\ place \in [Parts -> {"backup", "storage", "lost"}]
              /\ restore \in [Restores -> RestorePcs]
  BY DEF Init, RestorePcs
<1>2. Init => req \in [Reqs -> [pc : ReqPcs, kind : Kinds \cup {"none"}, snap : Snaps \cup {"none"}]]
  BY DEF Init, ReqPcs
<1>3. Init => \A q \in Reqs : Fits(q) /\ req[q].pc = "idle"
  BY DEF Init, Fits
<1>. QED  BY <1>1, <1>2, <1>3 DEF Init, Typed, TypeOK

\* What a request does next, by its kind.
LEMMA AfterFacts ==
  /\ After("create", "down") = "snapshot" /\ After("create", "snapshot") = "export"
  /\ After("create", "export") = "up" /\ After("create", "up") = "done"
  /\ After("restore", "pvc") = "down" /\ After("restore", "down") = "claim"
  /\ After("restore", "claim") = "import" /\ After("restore", "import") = "up"
  /\ After("restore", "up") = "done"
  /\ After("delete", "unlist") = "undump" /\ After("delete", "undump") = "done"
BY DEF After

\* A step of a request goes on to the next one, or ends it.
LEMMA ReqStep ==
  ASSUME Typed, NEW q \in Reqs, SnapshotStep(q)
  PROVE  /\ \E l \in ReqPcs \ {"idle"} :
              /\ req' = [req EXCEPT ![q].pc = l]
              /\ l = After(req[q].kind, req[q].pc) \/ l = "done"
         /\ req[q].kind \in Kinds /\ req[q].snap \in Snaps /\ req[q].pc \in ReqPcs \ {"idle", "done"}
         /\ half' \subseteq Snaps /\ fails' \in 0..MaxFails
<1>1. req[q].pc \in ReqPcs \ {"idle", "done"}
  BY DEF SnapshotStep, SwitchDown, SwitchUp, Snapshot, Export, ClaimOf, Mount, Import, Unlist, Undump,
         At, ReqPcs
<1>2. req[q].kind \in Kinds /\ req[q].snap \in Snaps
  BY <1>1 DEF Typed, TypeOK
<1>3. GoOn(q) \/ Stop(q) \/ (req' = [req EXCEPT ![q].pc = "done"] /\ UNCHANGED <<half, crossed, fails>>)
  BY DEF SnapshotStep, SwitchDown, SwitchUp, Snapshot, Export, ClaimOf, Mount, Import, Unlist, Undump
<1>4. After(req[q].kind, req[q].pc) \in ReqPcs \ {"idle"}
  <2>. DEFINE pc == req[q].pc  kind == req[q].kind
  <2>1. \/ pc \in {"down", "snapshot", "export", "up"} /\ kind = "create"
        \/ pc \in {"pvc", "down", "claim", "import", "up"} /\ kind = "restore"
        \/ pc \in {"unlist", "undump"} /\ kind = "delete"
    BY <1>1, <1>2 DEF Typed, Fits, Kinds, ReqPcs
  <2>. HIDE DEF pc, kind
  <2>2. After(kind, pc) \in ReqPcs \ {"idle"}
    BY <2>1, AfterFacts DEF ReqPcs
  <2>. QED  BY <2>2 DEF pc, kind
<1>5. half' \subseteq Snaps /\ fails' \in 0..MaxFails
  <2>1. half' \subseteq Snaps
    BY <1>2, <1>3 DEF GoOn, Stop, Typed, TypeOK
  <2>3. MaxFails \in Nat /\ fails \in 0..MaxFails
    BY BoundAssumption DEF Typed, TypeOK
  <2>4. fails' = fails \/ (fails < MaxFails /\ fails' = fails + 1)
    BY <1>3 DEF GoOn, Stop, Fail, Fine
  <2>. QED  BY <2>1, <2>3, <2>4
<1>6. req' = [req EXCEPT ![q].pc = After(req[q].kind, req[q].pc)] \/ req' = [req EXCEPT ![q].pc = "done"]
  BY <1>3 DEF GoOn, Stop, Typed, TypeOK
<1>. QED  BY <1>1, <1>2, <1>4, <1>5, <1>6 DEF ReqPcs

\* A restart of ita ends its requests.
LEMMA StopsType ==
  ASSUME Typed, ItaStops
  PROVE  /\ restore' \in [Restores -> RestorePcs] /\ schema' \in {"old", "none", "part", "new"}
         /\ UNCHANGED <<place, keys, again, slipped>>
BY DEF ItaStops, Typed, TypeOK, RestorePcs

LEMMA SnapStepType == Typed /\ SnapStep => Typed'
<1>. SUFFICES ASSUME Typed, NEW q \in Reqs, SnapshotStep(q) PROVE Typed'
  BY DEF SnapStep
<1>1. PICK l \in ReqPcs \ {"idle"} :
        req' = [req EXCEPT ![q].pc = l] /\ (l = After(req[q].kind, req[q].pc) \/ l = "done")
  BY ReqStep
<1>2. req[q].kind \in Kinds /\ req[q].snap \in Snaps /\ req[q].pc \in ReqPcs \ {"idle", "done"}
  BY ReqStep
<1>3. half' \subseteq Snaps /\ fails' \in 0..MaxFails
  BY ReqStep
<1>4. req' \in [Reqs -> [pc : ReqPcs, kind : Kinds \cup {"none"}, snap : Snaps \cup {"none"}]]
  BY <1>1, <1>2 DEF Typed, TypeOK
<1>5. \A r \in Reqs : req'[r].pc # "idle" => req'[r].kind \in Kinds /\ req'[r].snap \in Snaps
  BY <1>1, <1>2 DEF Typed, TypeOK
<1>6. \A r \in Reqs : Fits(r)'
  <2>1. \A r \in Reqs \ {q} : req'[r] = req[r]
    BY <1>1 DEF Typed, TypeOK
  <2>2. req'[q].kind = req[q].kind /\ req'[q].pc = l
    BY <1>1 DEF Typed, TypeOK
  <2>3. Fits(q)'
    BY <1>1, <1>2, <2>2, AfterFacts DEF Typed, Fits, Kinds, ReqPcs
  <2>. QED  BY <2>1, <2>3 DEF Typed, Fits
<1>7. /\ hub' \in {"up", "down", "part"} /\ listed' \subseteq Snaps /\ dumps' \subseteq Snaps
      /\ exports' \subseteq Snaps /\ claim' \in Snaps \cup {"first"}
  BY <1>2 DEF SnapshotStep, SwitchDown, SwitchUp, Snapshot, Export, ClaimOf, Mount, Import, Unlist,
              Undump, Typed, TypeOK
<1>8. UNCHANGED uploaded \/ (ItaStops /\ UNCHANGED crashes)
  BY DEF SnapshotStep, SwitchDown, SwitchUp, Snapshot, Export, ClaimOf, Mount, Import, Unlist, Undump
<1>9. /\ place' \in [Parts -> {"backup", "storage", "lost"}]
      /\ schema' \in {"old", "none", "part", "new"} /\ restore' \in [Restores -> RestorePcs]
      /\ keys' \in BOOLEAN /\ again' \in BOOLEAN /\ slipped' \in BOOLEAN /\ crashes' \in 0..MaxCrashes
  BY <1>8, StopsType DEF uploaded, Typed, TypeOK
<1>10. crossed' \subseteq Snaps
  BY DEF SnapshotStep, SwitchDown, SwitchUp, Snapshot, Export, ClaimOf, Mount, Import, Unlist, Undump,
         GoOn, Stop, Typed, TypeOK
<1>. QED
  BY <1>3, <1>4, <1>5, <1>6, <1>7, <1>9, <1>10 DEF Typed, TypeOK

LEMMA AskType == Typed /\ Asked => Typed'
<1>. SUFFICES ASSUME Typed, NEW q \in Reqs, NEW kind \in Kinds, NEW s \in Snaps, Ask(q, kind, s)
              PROVE  Typed'
  BY DEF Asked
<1>1. First(kind) \in ReqPcs \ {"idle", "done"}
  BY DEF First, Kinds, ReqPcs
<1>2. req' = [req EXCEPT ![q] = [pc |-> First(kind), kind |-> kind, snap |-> s]]
  BY DEF Ask
<1>3. req' \in [Reqs -> [pc : ReqPcs, kind : Kinds \cup {"none"}, snap : Snaps \cup {"none"}]]
  BY <1>1, <1>2 DEF Typed, TypeOK
<1>4. \A r \in Reqs : req'[r].pc # "idle" => req'[r].kind \in Kinds /\ req'[r].snap \in Snaps
  BY <1>1, <1>2 DEF Typed, TypeOK
<1>5. \A r \in Reqs : Fits(r)'
  BY <1>2 DEF Typed, TypeOK, Fits, First, Kinds
<1>. QED
  BY <1>3, <1>4, <1>5 DEF Ask, uploaded, Typed, TypeOK

LEMMA ExportType == Typed /\ Exported => Typed'
BY BoundAssumption DEF Exported, ExportEnds, Fail, Fine, uploaded, Typed, TypeOK, Fits

LEMMA RestoreType == Typed /\ Restored => Typed'
<1>. SUFFICES ASSUME Typed, NEW r \in Restores, RestoreStep(r) PROVE Typed'
  BY DEF Restored
<1>. USE DEF RestoreStep, Keys, Drop, Load, Clear, Move, AllMoved, KillRet, Go, Refuse, Fail, Fine
<1>1. restore' \in [Restores -> RestorePcs]
  BY DEF Typed, TypeOK, RestorePcs
<1>2. place' \in [Parts -> {"backup", "storage", "lost"}]
  BY DEF Typed, TypeOK
<1>3. schema' \in {"old", "none", "part", "new"} /\ fails' \in 0..MaxFails
  BY BoundAssumption DEF Typed, TypeOK
<1>4. keys' \in BOOLEAN /\ slipped' \in BOOLEAN /\ crashes' = crashes /\ UNCHANGED snapshots
  BY DEF Typed, TypeOK
<1>5. again' \in BOOLEAN
  BY DEF Typed, TypeOK
<1>. QED
  BY <1>1, <1>2, <1>3, <1>4, <1>5 DEF snapshots, Typed, TypeOK, Fits

LEMMA TypeStep == Typed /\ [Next]_vars => Typed'
<1>. SUFFICES ASSUME Typed, [Next]_vars PROVE Typed'
  OBVIOUS
<1>1. CASE Crash
  <2>1. crashes' \in 0..MaxCrashes /\ UNCHANGED <<snapshots, fails>>
    BY <1>1, BoundAssumption DEF Crash, Typed, TypeOK
  <2>2. ItaStops
    BY <1>1 DEF Crash
  <2>. QED  BY <2>1, <2>2, StopsType DEF snapshots, Typed, TypeOK, Fits
<1>2. CASE UNCHANGED vars
  BY <1>2 DEF vars, snapshots, uploaded, Typed, TypeOK, Fits
<1>. QED
  BY <1>1, <1>2, NextCases, SnapStepType, AskType, ExportType, RestoreType

-----------------------------------------------------------------------------
(* A snapshot and its dump.                                                *)

\* A creation and a deletion of one snapshot do not meet unseen.
Apart == \A q, r \in Reqs, s \in Snaps : Busy(q, "create", s) /\ Busy(r, "delete", s) => s \in crossed

\* What a deletion has still to take the dump of is no longer listed.
Undumped == \A q \in Reqs : req[q].pc = "undump" => req[q].snap \notin listed \/ req[q].snap \in crossed

Dumps == Apart /\ Undumped /\ ListedWithDump

\* What a request does to its own record, and to nobody else's.
LEMMA OwnStep ==
  ASSUME Typed, NEW q \in Reqs, SnapshotStep(q)
  PROVE  /\ \A r \in Reqs : r # q => req'[r] = req[r]
         /\ req'[q].kind = req[q].kind /\ req'[q].snap = req[q].snap
         /\ req'[q].pc = After(req[q].kind, req[q].pc) \/ req'[q].pc = "done"
         /\ req[q].pc \notin {"idle", "done"} /\ UNCHANGED crossed
<1>1. PICK l \in ReqPcs \ {"idle"} :
        req' = [req EXCEPT ![q].pc = l] /\ (l = After(req[q].kind, req[q].pc) \/ l = "done")
  BY ReqStep
<1>2. UNCHANGED crossed
  BY DEF SnapshotStep, SwitchDown, SwitchUp, Snapshot, Export, ClaimOf, Mount, Import, Unlist, Undump,
         GoOn, Stop
<1>. QED  BY <1>1, <1>2, ReqStep DEF Typed, TypeOK

\* Only the step Snapshot lists, and it goes on to the export.
LEMMA Lists ==
  ASSUME Typed, NEW q \in Reqs, SnapshotStep(q), NEW s \in listed' \ listed
  PROVE  Busy(q, "create", s) /\ req'[q].pc = "export" /\ s = req[q].snap /\ s \in Snaps
<1>1. Snapshot(q)
  BY DEF SnapshotStep, SwitchDown, SwitchUp, Export, ClaimOf, Mount, Import, Unlist, Undump
<1>2. req[q].pc = "snapshot" /\ s = req[q].snap /\ GoOn(q)
  BY <1>1 DEF Snapshot, At
<1>3. req[q].kind = "create" /\ s \in Snaps
  BY <1>2 DEF Typed, TypeOK, Fits
<1>4. req'[q].pc = "export"
  BY <1>2, <1>3, AfterFacts DEF GoOn, Typed, TypeOK
<1>. QED  BY <1>2, <1>3, <1>4 DEF Busy

\* A request comes to the second step of a deletion by the first.
LEMMA Unlists ==
  ASSUME Typed, NEW q \in Reqs, SnapshotStep(q), req'[q].pc = "undump"
  PROVE  listed' = listed \ {req[q].snap}
<1>1. req[q].pc = "unlist"
  BY OwnStep, ReqStep, AfterFacts DEF Typed, Fits, Kinds, ReqPcs
<1>2. Unlist(q)
  BY <1>1 DEF SnapshotStep, SwitchDown, SwitchUp, Snapshot, Export, ClaimOf, Mount, Import, Undump, At
<1>. QED  BY <1>2 DEF Unlist, Stop, Typed, TypeOK

LEMMA DumpsRequest ==
  ASSUME Typed, Dumps, NEW q \in Reqs, SnapshotStep(q), Typed'
  PROVE  Dumps'
<1>1. Apart'
  <2>1. \A r \in Reqs, kind \in Kinds, s \in Snaps : Busy(r, kind, s)' => Busy(r, kind, s)
    BY OwnStep DEF Busy
  <2>. QED  BY <2>1, OwnStep DEF Dumps, Apart, Kinds
<1>2. Undumped'
  <2>. SUFFICES ASSUME NEW r \in Reqs, NEW s \in Snaps, req'[r].pc = "undump", req'[r].snap = s,
                       s \notin crossed', s \in listed'
                PROVE  FALSE
    BY DEF Undumped, Typed, TypeOK
  <2>1. r # q /\ req'[r] = req[r]
    BY Unlists, OwnStep
  <2>2. s \notin listed
    BY <2>1, OwnStep DEF Dumps, Undumped
  <2>3. Busy(r, "delete", s)
    BY <2>1 DEF Busy, Typed, Fits
  <2>. QED  BY <2>2, <2>3, Lists, OwnStep DEF Dumps, Apart
<1>3. ListedWithDump'
  <2>. SUFFICES ASSUME NEW s \in listed', s \notin half' \cup crossed' \cup dumps' \cup exports'
                PROVE  \E r \in Reqs : req'[r].pc = "export" /\ req'[r].snap = s
    BY DEF ListedWithDump, At
  <2>1. CASE s \notin listed
    BY <2>1, Lists, OwnStep
  <2>2. CASE s \in listed
    <3>1. s \notin half \cup exports \cup crossed
      <4>1. half \subseteq half'
        BY DEF SnapshotStep, SwitchDown, SwitchUp, Snapshot, Export, ClaimOf, Mount, Import, Unlist,
               Undump, GoOn, Stop
      <4>2. exports \subseteq exports'
        BY DEF SnapshotStep, SwitchDown, SwitchUp, Snapshot, Export, ClaimOf, Mount, Import, Unlist, Undump
      <4>. QED  BY <4>1, <4>2, OwnStep
    <3>2. s \notin dumps
      <4>1. CASE Undump(q)
        BY <2>2, <3>1, <4>1 DEF Undump, At, Dumps, Undumped
      <4>2. CASE ~Undump(q)
        BY <4>2 DEF SnapshotStep, SwitchDown, SwitchUp, Snapshot, Export, ClaimOf, Mount, Import, Unlist
      <4>. QED  BY <4>1, <4>2
    <3>3. PICK r \in Reqs : req[r].pc = "export" /\ req[r].snap = s
      BY <2>2, <3>1, <3>2 DEF Dumps, ListedWithDump, At
    <3>4. r # q
      <4>. SUFFICES ASSUME r = q PROVE FALSE
        OBVIOUS
      <4>1. Export(q) /\ req[q].kind = "create"
        BY <3>3 DEF SnapshotStep, SwitchDown, SwitchUp, Snapshot, ClaimOf, Mount, Import, Unlist,
                    Undump, At, Typed, Fits
      <4>. QED  BY <3>3, <4>1 DEF Export, Stop
    <3>. QED  BY <3>3, <3>4, OwnStep
  <2>. QED  BY <2>1, <2>2
<1>. QED  BY <1>1, <1>2, <1>3 DEF Dumps

LEMMA DumpsAsk ==
  ASSUME Typed, Dumps, NEW q \in Reqs, NEW kind \in Kinds, NEW t \in Snaps, Ask(q, kind, t), Typed'
  PROVE  Dumps'
<1>1. /\ req'[q] = [pc |-> First(kind), kind |-> kind, snap |-> t]
      /\ \A r \in Reqs : r # q => req'[r] = req[r]
      /\ req[q].pc = "idle"
  BY DEF Ask, At, Typed, TypeOK
<1>2. First(kind) \notin {"undump", "export"} /\ UNCHANGED <<listed, half, dumps, exports>>
  BY DEF Ask, First, Kinds
<1>3. crossed \subseteq crossed' /\ (Meets(kind, t) => t \in crossed')
  BY DEF Ask
<1>4. Apart'
  <2>. SUFFICES ASSUME NEW r \in Reqs, NEW p \in Reqs, NEW s \in Snaps,
                       Busy(r, "create", s)', Busy(p, "delete", s)'
                PROVE  s \in crossed'
    BY DEF Apart
  <2>1. r # p
    BY DEF Busy
  <2>2. CASE r # q /\ p # q
    BY <1>1, <1>3, <2>2 DEF Busy, Dumps, Apart
  <2>3. CASE r = q
    <3>1. kind = "create" /\ s = t /\ Busy(p, "delete", s)
      BY <1>1, <2>1, <2>3 DEF Busy
    <3>. QED  BY <1>3, <3>1 DEF Meets
  <2>4. CASE p = q
    <3>1. kind = "delete" /\ s = t /\ Busy(r, "create", s)
      BY <1>1, <2>1, <2>4 DEF Busy
    <3>. QED  BY <1>3, <3>1 DEF Meets
  <2>. QED  BY <2>2, <2>3, <2>4
<1>5. Undumped'
  BY <1>1, <1>2, <1>3 DEF Dumps, Undumped
<1>6. ListedWithDump'
  <2>. SUFFICES ASSUME NEW s \in listed, s \notin half \cup crossed \cup dumps \cup exports
                PROVE  \E r \in Reqs : req'[r].pc = "export" /\ req'[r].snap = s
    BY <1>2, <1>3 DEF ListedWithDump, At
  <2>1. PICK r \in Reqs : req[r].pc = "export" /\ req[r].snap = s
    BY DEF Dumps, ListedWithDump, At
  <2>. QED  BY <1>1, <2>1
<1>. QED  BY <1>4, <1>5, <1>6 DEF Dumps

LEMMA DumpsStep == Typed /\ Dumps /\ [Next]_vars => Dumps'
<1>. SUFFICES ASSUME Typed, Dumps, [Next]_vars PROVE Dumps'
  OBVIOUS
<1>1. CASE SnapStep
  BY <1>1, TypeStep, DumpsRequest DEF SnapStep
<1>2. CASE Asked
  BY <1>2, TypeStep, DumpsAsk DEF Asked
<1>3. CASE ~SnapStep /\ ~Asked
  <2>1. Restored => UNCHANGED snapshots
    BY DEF Restored, RestoreStep, Keys, Drop, Load, Clear, Move, AllMoved, KillRet
  <2>2. UNCHANGED <<req, listed, crossed>>
    BY <1>3, <2>1, NextCases DEF snapshots, Exported, ExportEnds, Crash, vars
  <2>3. half \cup dumps \cup exports \subseteq half' \cup dumps' \cup exports'
    BY <1>3, <2>1, NextCases DEF snapshots, Exported, ExportEnds, Crash, vars
  <2>. QED
    BY <2>2, <2>3 DEF Dumps, Apart, Busy, Undumped, ListedWithDump, At
<1>. QED  BY <1>1, <1>2, <1>3

-----------------------------------------------------------------------------
(* The uploaded backup, until a second restore begins.                     *)

Early == {"idle", "drop", "load", "clear"}
Late  == {"clear", "move", "kill", "restored"}

\* One restore has begun at most; files are moved once the dump is loaded.
OneRestore ==
  /\ \A r, s \in Restores : restore[r] # "idle" /\ restore[s] # "idle" => r = s
  /\ (\A r \in Restores : restore[r] \in Early) \/ schema = "none"
       => \A f \in Parts : place[f] = "backup"
  /\ \A f \in Parts : place[f] # "lost"
  /\ \A r \in Restores :
       /\ restore[r] = "load" => schema = "none"
       /\ restore[r] \in Late => schema # "none"
       /\ restore[r] \in Late /\ ~slipped => schema = "new"
       /\ restore[r] \in Late \cup {"drop", "load"} => keys
       /\ restore[r] \in {"kill", "restored"} /\ ~slipped => \A f \in Parts : place[f] = "storage"

Moved == ~again => OneRestore

LEMMA MovedInit == Init => Moved
BY DEF Init, Moved, OneRestore, Late

LEMMA KeysStep ==
  ASSUME Typed, Moved, NEW r \in Restores, Keys(r)
  PROVE  Moved'
<1>. SUFFICES ASSUME ~again' PROVE OneRestore'
  BY DEF Moved
<1>1. ~again /\ \A s \in Restores : restore[s] = "idle"
  BY DEF Keys, Typed, TypeOK
<1>2. \/ restore' = [restore EXCEPT ![r] = "drop"] /\ keys'
      \/ restore' = [restore EXCEPT ![r] = "done"]
  BY DEF Keys, Go, Refuse
<1>3. UNCHANGED <<place, schema, slipped>>
  BY DEF Keys
<1>. QED
  BY <1>1, <1>2, <1>3 DEF Moved, OneRestore, Early, Late, Typed, TypeOK

\* The steps of the only restore there is.
LEMMA OwnRestore ==
  ASSUME Typed, Moved, NEW r \in Restores,
         Drop(r) \/ Load(r) \/ Clear(r) \/ AllMoved(r) \/ KillRet(r) \/ \E f \in Parts : Move(r, f)
  PROVE  Moved'
<1>. SUFFICES ASSUME ~again' PROVE OneRestore'
  BY DEF Moved
<1>0. ~again /\ restore[r] # "idle"
  BY DEF Drop, Load, Clear, AllMoved, KillRet, Move
<1>1. \A s \in Restores : s # r => restore[s] = "idle"
  BY <1>0 DEF Moved, OneRestore
<1>. USE <1>0, <1>1 DEF Moved, OneRestore, Early, Late, Typed, TypeOK, Go, Refuse
<1>2. CASE Drop(r)
  BY <1>2 DEF Drop
<1>3. CASE Load(r)
  BY <1>3 DEF Load
<1>4. CASE Clear(r)
  <2>1. \A f \in Parts : place[f] = "backup"
    BY <1>4 DEF Clear
  <2>2. UNCHANGED <<place, schema, keys, slipped>>
    BY <1>4, <2>1 DEF Clear, Parts
  <2>. QED  BY <1>4, <2>1, <2>2 DEF Clear
<1>5. CASE AllMoved(r)
  BY <1>5 DEF AllMoved
<1>6. CASE KillRet(r)
  BY <1>6 DEF KillRet
<1>7. ASSUME NEW f \in Parts, Move(r, f) PROVE OneRestore'
  BY <1>7 DEF Move
<1>. QED  BY <1>2, <1>3, <1>4, <1>5, <1>6, <1>7

\* A restart leaves the files where they are.
LEMMA StopsStep == Typed /\ Moved /\ ItaStops => Moved'
<1>. SUFFICES ASSUME Typed, Moved, ItaStops, ~again' PROVE OneRestore'
  BY DEF Moved
<1>1. ~again /\ OneRestore /\ UNCHANGED <<place, keys, slipped>>
  BY DEF ItaStops, Moved
<1>2. \A r \in Restores : restore'[r] = IF restore[r] \in {"idle", "restored"} THEN restore[r] ELSE "done"
  BY DEF ItaStops
<1>3. schema' = schema \/ (schema' = "part" /\ \E r \in Restores : restore[r] = "load")
  BY DEF ItaStops
<1>. QED
  BY <1>1, <1>2, <1>3 DEF OneRestore, Early, Late

LEMMA MovedStep == Typed /\ Moved /\ [Next]_vars => Moved'
<1>. SUFFICES ASSUME Typed, Moved, [Next]_vars PROVE Moved'
  OBVIOUS
<1>1. UNCHANGED uploaded => Moved'
  BY DEF uploaded, Moved, OneRestore
<1>2. CASE SnapStep
  <2>1. UNCHANGED uploaded \/ ItaStops
    BY <1>2 DEF SnapStep, SnapshotStep, SwitchDown, SwitchUp, Snapshot, Export, ClaimOf, Mount, Import,
                Unlist, Undump
  <2>. QED  BY <1>1, <2>1, StopsStep
<1>3. CASE Asked \/ Exported \/ UNCHANGED vars
  BY <1>1, <1>3 DEF Asked, Ask, Exported, ExportEnds, vars, uploaded
<1>4. CASE Restored
  BY <1>4, KeysStep, OwnRestore DEF Restored, RestoreStep
<1>5. CASE Crash
  BY <1>5, StopsStep DEF Crash
<1>. QED  BY <1>2, <1>3, <1>4, <1>5, NextCases

-----------------------------------------------------------------------------

\* Whatever requests overlap and fail, each is at a step of its kind.
THEOREM TypeCorrect == Spec => []TypeOK
<1>1. Typed => TypeOK
  BY DEF Typed
<1>. QED  BY <1>1, InitType, TypeStep, PTL DEF Spec

\* For any number of requests, whatever names they give, a snapshot that is listed
\* has its dump, or will have it, unless a creation of it failed or overlapped a
\* deletion of it.
THEOREM DumpForEach == Spec => []ListedWithDump
<1>1. Init => Dumps
  BY DEF Init, Dumps, Apart, Busy, Undumped, ListedWithDump
<1>2. Dumps => ListedWithDump
  BY DEF Dumps
<1>. QED  BY <1>1, <1>2, InitType, TypeStep, DumpsStep, PTL DEF Spec

\* For any number of files, steps that fail and restarts, nothing uploaded is
\* lost before a second restore begins.
THEOREM NothingUploadedLost == Spec => []BackupKept
<1>1. Moved => BackupKept
  <2>. SUFFICES ASSUME OneRestore PROVE BackupKept
    BY DEF Moved, BackupKept
  <2>. QED
    BY DEF BackupKept, OneRestore, Late, Parts
<1>. QED  BY <1>1, MovedInit, InitType, TypeStep, MovedStep, PTL DEF Spec
=============================================================================
