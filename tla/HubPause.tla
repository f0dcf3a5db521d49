------------------------------ MODULE HubPause ------------------------------
(***************************************************************************)
(* Pausing and resuming a hub from within: ita's HC_Pause and HC_Resume.   *)
(* Pausing saves the hub's ingresses and services in two ConfigMaps,       *)
(* removes them, routes the hub's name to ita and scales everything down;  *)
(* resuming goes the other way and ends with a cooldown.  Requests run in  *)
(* goroutines of the one ita pod, share _resuming_status and the mutex     *)
(* reMu, and reach the API server one call at a time.                      *)
(***************************************************************************)
EXTENDS Integers, FiniteSets

CONSTANTS
  Req,       \* request goroutines
  Free,      \* reMu is not locked
  Cooldown,  \* how many ticks of 11 seconds the cooldown has
  Faults     \* which calls may fail, see FaultKinds

\* read: a Get or a List errs; save, remove, create: a write of a ConfigMap,
\* the removal or the creation of an ingress or a service errs; scale: a write
\* of a Deployment errs; crash: the ita pod is restarted.
FaultKinds == {"read", "save", "remove", "create", "scale", "crash"}

ASSUME ReqAssumption    == Free \notin Req
ASSUME BoundAssumption  == Cooldown \in Nat \ {0}
ASSUME FaultAssumption == Faults \subseteq FaultKinds

VARIABLES
  igs,      \* names of the ingresses in the hub's namespace
  igsbak,   \* what the ConfigMap igsbak holds, {} when there is none
  svcs,     \* names of the services, but for ita's
  svcsbak,  \* what the ConfigMap svcsbak holds, ita's among them
  up,       \* the hub's deployments are scaled up
  status,   \* _resuming_status, in ticks
  reMu,     \* the request that has locked reMu
  pc,       \* next call of each request
  seen,     \* what a request still has to remove or to create
  bg,       \* the goroutine that HC_Resume leaves behind
  orderly,  \* history: one request after the other, and no restart
  stranded, \* history: a resume gave up without taking its status back
  met       \* history: two requests were on their way to reMu at once

vars  == <<igs, igsbak, svcs, svcsbak, up, status, reMu, pc, seen, bg, orderly, stranded, met>>
ghosts == <<orderly, stranded, met>>
hub   == <<igs, igsbak, svcs, svcsbak, up>>
resuming == <<status, reMu, bg>>

HubIgs  == {"assets", "ret"}
HubSvcs == {"hubs", "ret"}

PauseSteps  == {"p_list", "p_bak", "p_del", "p_route", "p_svcs", "p_svcbak", "p_svcdel", "p_scale"}
ResumeSteps == {"r_scale", "r_bak", "r_igs", "r_svcbak", "r_svcs"}
Labels      == {"idle", "r_lock"} \cup PauseSteps \cup ResumeSteps

Fault(k) == k \in Faults

-----------------------------------------------------------------------------

Goto(r, l) == pc' = [pc EXCEPT ![r] = l]
Keep(r, s) == seen' = [seen EXCEPT ![r] = s]

Alone == bg = "none" /\ \A r \in Req : pc[r] = "idle"

\* GET /z/pause.
RecvPause(r) ==
  /\ pc[r] = "idle"
  /\ orderly' = (orderly /\ Alone)
  /\ Goto(r, "p_list")
  /\ UNCHANGED <<hub, resuming, seen, stranded, met>>

\* PUT /, "_r_:" on the page's websocket, /z/resume: all look at the status
\* first, without the mutex.
RecvResume(r) ==
  /\ pc[r] = "idle"
  /\ orderly' = (orderly /\ Alone)
  /\ status = 0
  /\ met' = (met \/ \E q \in Req : pc[q] = "r_lock")
  /\ Goto(r, "r_lock")
  /\ UNCHANGED <<hub, resuming, seen, stranded>>

-----------------------------------------------------------------------------
(* HC_Pause.                                                               *)

\* Ingresses are listed by name, so that "pausing" is first only when
\* "assets" is not there.
First == IF "assets" \in igs THEN "assets" ELSE IF "pausing" \in igs THEN "pausing" ELSE "ret"

\* A mistake: a paused hub is paused again.
PauseListAgain(r) ==
  /\ pc[r] = "p_list"
  /\ Goto(r, "p_bak") /\ Keep(r, igs)
  /\ UNCHANGED <<hub, resuming, ghosts>>

PauseList(r) ==
  /\ pc[r] = "p_list"
  /\ IF Cardinality(igs) < 2 \/ First = "pausing"
       THEN Goto(r, "idle") /\ UNCHANGED seen
       ELSE \/ Goto(r, "p_bak") /\ Keep(r, igs)
            \/ Fault("read") /\ Goto(r, "idle") /\ UNCHANGED seen
  /\ UNCHANGED <<hub, resuming, ghosts>>

\* An error of the backup is only logged.
PauseBackup(r) ==
  /\ pc[r] = "p_bak"
  /\ igsbak' \in {seen[r]} \cup (IF Fault("save") THEN {igsbak} ELSE {})
  /\ Goto(r, "p_del")
  /\ UNCHANGED <<igs, svcs, svcsbak, up, resuming, seen, ghosts>>

PauseRemove(r) ==
  /\ pc[r] = "p_del"
  /\ \/ \E i \in seen[r] :
          /\ igs' \in {igs \ {i}} \cup (IF Fault("remove") THEN {igs} ELSE {})
          /\ Keep(r, seen[r] \ {i})
          /\ UNCHANGED pc
     \/ seen[r] = {} /\ Goto(r, "p_route") /\ UNCHANGED <<igs, seen>>
  /\ UNCHANGED <<igsbak, svcs, svcsbak, up, resuming, ghosts>>

PauseRoute(r) ==
  /\ pc[r] = "p_route"
  /\ igs' \in {igs \cup {"pausing"}} \cup (IF Fault("create") THEN {igs} ELSE {})
  /\ Goto(r, "p_svcs")
  /\ UNCHANGED <<igsbak, svcs, svcsbak, up, resuming, seen, ghosts>>

PauseSvcList(r) ==
  /\ pc[r] = "p_svcs"
  /\ \/ Goto(r, "p_svcbak") /\ Keep(r, svcs)
     \/ Fault("read") /\ Goto(r, "idle") /\ UNCHANGED seen
  /\ UNCHANGED <<hub, resuming, ghosts>>

PauseSvcBackup(r) ==
  /\ pc[r] = "p_svcbak"
  /\ svcsbak' \in {seen[r] \cup {"ita"}} \cup (IF Fault("save") THEN {svcsbak} ELSE {})
  /\ Goto(r, "p_svcdel")
  /\ UNCHANGED <<igs, igsbak, svcs, up, resuming, seen, ghosts>>

\* A service that cannot be removed, because somebody else has done it for
\* instance, ends the pause.
PauseSvcRemove(r) ==
  /\ pc[r] = "p_svcdel"
  /\ \/ \E s \in seen[r] :
          \/ s \in svcs /\ svcs' = svcs \ {s} /\ Keep(r, seen[r] \ {s}) /\ UNCHANGED pc
          \/ (s \notin svcs \/ Fault("remove")) /\ Goto(r, "idle") /\ UNCHANGED <<svcs, seen>>
     \/ seen[r] = {} /\ Goto(r, "p_scale") /\ UNCHANGED <<svcs, seen>>
  /\ UNCHANGED <<igs, igsbak, svcsbak, up, resuming, ghosts>>

PauseScale(r) ==
  /\ pc[r] = "p_scale"
  /\ up' \in {FALSE} \cup (IF Fault("scale") THEN {up} ELSE {})
  /\ Goto(r, "idle")
  /\ UNCHANGED <<igs, igsbak, svcs, svcsbak, resuming, seen, ghosts>>

-----------------------------------------------------------------------------
(* HC_Resume.                                                              *)

\* A mistake: the status is not looked at again under the mutex.
ResumeLockUnchecked(r) ==
  /\ pc[r] = "r_lock" /\ reMu = Free
  /\ status' = -1 /\ Goto(r, "r_scale")
  /\ UNCHANGED <<hub, reMu, bg, seen, ghosts>>

\* The early return does not unlock.
ResumeLock(r) ==
  /\ pc[r] = "r_lock" /\ reMu = Free
  /\ IF status = 0
       THEN status' = -1 /\ Goto(r, "r_scale") /\ UNCHANGED reMu
       ELSE reMu' = r /\ Goto(r, "idle") /\ UNCHANGED status
  /\ UNCHANGED <<hub, bg, seen, ghosts>>

ResumeScale(r) ==
  /\ pc[r] = "r_scale"
  /\ \/ up' = TRUE /\ Goto(r, "r_bak")
     \/ Fault("scale") /\ UNCHANGED up /\ Goto(r, "idle")
  /\ stranded' = (pc'[r] = "idle")
  /\ UNCHANGED <<igs, igsbak, svcs, svcsbak, resuming, seen, orderly, met>>

\* A backup that cannot be read is like none, and the resume goes on.
ResumeBackup(r) ==
  /\ pc[r] = "r_bak"
  /\ Keep(r, igsbak) \/ (Fault("read") /\ Keep(r, {}))
  /\ Goto(r, "r_igs")
  /\ UNCHANGED <<hub, resuming, ghosts>>

\* One ingress after the other; that one exists already is an error, and
\* errors are only logged.
ResumeCreate(r) ==
  /\ pc[r] = "r_igs"
  /\ \/ \E i \in seen[r] :
          /\ igs' \in {igs \cup {i}} \cup (IF Fault("create") THEN {igs} ELSE {})
          /\ Keep(r, seen[r] \ {i})
          /\ UNCHANGED pc
     \/ seen[r] = {} /\ Goto(r, "r_svcbak") /\ UNCHANGED <<igs, seen>>
  /\ UNCHANGED <<igsbak, svcs, svcsbak, up, resuming, ghosts>>

\* Without a backup the services are created as they used to be.
ResumeSvcBackup(r) ==
  /\ pc[r] = "r_svcbak"
  /\ \/ svcsbak # {} /\ Keep(r, svcsbak \ {"ita"})
     \/ (svcsbak = {} \/ Fault("read")) /\ Keep(r, HubSvcs)
  /\ Goto(r, "r_svcs")
  /\ UNCHANGED <<hub, resuming, ghosts>>

ResumeSvcCreate(r) ==
  /\ pc[r] = "r_svcs"
  /\ \/ \E s \in seen[r] :
          /\ svcs' \in {svcs \cup {s}} \cup (IF Fault("create") THEN {svcs} ELSE {})
          /\ Keep(r, seen[r] \ {s})
          /\ UNCHANGED <<pc, bg>>
     \/ seen[r] = {} /\ Goto(r, "idle") /\ bg' = "wait" /\ UNCHANGED <<svcs, seen>>
  /\ UNCHANGED <<igs, igsbak, svcsbak, up, status, reMu, ghosts>>

\* A mistake: reticulum is waited for without a limit.
WaitedForever ==
  /\ bg = "wait" /\ up
  /\ igs' = igs \ {"pausing"} /\ bg' = "cool"
  /\ UNCHANGED <<igsbak, svcs, svcsbak, up, status, reMu, pc, seen, ghosts>>

\* The goroutine: reticulum is ready, or five minutes of answers have passed.
Waited ==
  /\ bg = "wait"
  /\ igs' \in {igs \ {"pausing"}} \cup (IF Fault("remove") THEN {igs} ELSE {})
  /\ bg' = "cool"
  /\ UNCHANGED <<igsbak, svcs, svcsbak, up, status, reMu, pc, seen, ghosts>>

\* A mistake: the countdown starts from the status of the resume.
TickFromResume ==
  /\ bg = "cool"
  /\ status' = status - 1 /\ bg' = IF status' = 0 THEN "none" ELSE "cool"
  /\ UNCHANGED <<hub, reMu, pc, seen, ghosts>>

Tick ==
  /\ bg = "cool"
  /\ status' = IF status = -1 THEN Cooldown ELSE status - 1
  /\ bg' = IF status' = 0 THEN "none" ELSE "cool"
  /\ UNCHANGED <<hub, reMu, pc, seen, ghosts>>

-----------------------------------------------------------------------------

Crash ==
  /\ Fault("crash")
  /\ status' = 0 /\ reMu' = Free /\ bg' = "none"
  /\ pc' = [r \in Req |-> "idle"] /\ seen' = [r \in Req |-> {}]
  /\ orderly' = FALSE /\ stranded' = FALSE /\ met' = FALSE
  /\ UNCHANGED hub

Init ==
  /\ igs = HubIgs /\ igsbak = {} /\ svcs = HubSvcs /\ svcsbak = {} /\ up = TRUE
  /\ status = 0 /\ reMu = Free /\ bg = "none"
  /\ pc = [r \in Req |-> "idle"] /\ seen = [r \in Req |-> {}]
  /\ orderly = TRUE /\ stranded = FALSE /\ met = FALSE

Step(r) ==
  \/ PauseList(r) \/ PauseBackup(r) \/ PauseRemove(r) \/ PauseRoute(r)
  \/ PauseSvcList(r) \/ PauseSvcBackup(r) \/ PauseSvcRemove(r) \/ PauseScale(r)
  \/ ResumeLock(r) \/ ResumeScale(r) \/ ResumeBackup(r) \/ ResumeCreate(r)
  \/ ResumeSvcBackup(r) \/ ResumeSvcCreate(r)

Next ==
  \/ \E r \in Req : RecvPause(r) \/ RecvResume(r) \/ Step(r)
  \/ Waited \/ Tick \/ Crash

Spec == Init /\ [][Next]_vars

\* The goroutines of ita run.
LiveSpec ==
  Spec /\ WF_vars(Waited) /\ WF_vars(Tick) /\ \A r \in Req : WF_vars(Step(r))

-----------------------------------------------------------------------------
(* Properties.                                                             *)

\* The backups hold what is the hub's, and the cooldown counts down from its
\* start to zero (handlers_pausing.go:166, 423).
TypeOK ==
  /\ igs \subseteq HubIgs \cup {"pausing"} /\ igsbak \subseteq HubIgs \cup {"pausing"}
  /\ svcs \subseteq HubSvcs /\ svcsbak \subseteq HubSvcs \cup {"ita"}
  /\ up \in BOOLEAN
  /\ status \in -1..Cooldown
  /\ reMu \in Req \cup {Free}
  /\ pc \in [Req -> Labels]
  /\ seen \in [Req -> SUBSET (HubIgs \cup HubSvcs \cup {"pausing"})]
  /\ bg \in {"none", "wait", "cool"}
  /\ orderly \in BOOLEAN /\ stranded \in BOOLEAN /\ met \in BOOLEAN

\* A resume is never under way twice: neither two requests, nor a request
\* and the goroutine of an earlier one.
ResumesAlone ==
  \A r \in Req : pc[r] \in ResumeSteps
    => bg = "none" /\ \A q \in Req : pc[q] \in ResumeSteps => q = r

\* What a pause removes can be found again, as long as pauses and resumes come
\* one after the other: each ingress and service of the hub exists or is in the
\* backup, and when no request is under way the hub's name leads to the hub, or
\* to the page that resumes it (handlers_pausing.go:166 "back up current
\* ingresses", 200 "create pausing ingress", 231 "backup and delete unused svcs").
NothingLost ==
  orderly => /\ HubIgs \subseteq igs \cup igsbak
             /\ HubSvcs \subseteq svcs \cup svcsbak
             /\ (\A r \in Req : pc[r] = "idle") => "pausing" \in igs \/ HubIgs \subseteq igs

CanResume == status = 0 /\ reMu = Free

\* After a resume and its cooldown the hub can be resumed again, whatever
\* pauses and resumes come in between, with two exceptions: the deployments
\* could not be scaled, for which the status is not taken back, or two
\* requests found the status at zero before either had the mutex; the second
\* of them finds it changed and returns without unlocking.
CooldownEnds == status # 0 ~> CanResume \/ stranded \/ met

\* What the page says of the cooldown, that one may try again after it
\* (handlers_pausing.go:58, 139).  Not always, see HubPause_again.cfg.
TryAgain == status # 0 ~> CanResume
=============================================================================
