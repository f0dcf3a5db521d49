-------------------------- MODULE HubPause_proofs --------------------------
(* Proofs about HubPause, for any number of requests and any faults.       *)
EXTENDS HubPause, FiniteSetTheorems, TLAPS

\* While a resume is under way the status says so, which keeps the others out
\* until its goroutine has counted down to zero.
StatusKept ==
  /\ \A r \in Req : pc[r] \in ResumeSteps => status = -1 /\ bg = "none"
  /\ bg = "wait" => status = -1
  /\ bg = "cool" => status # 0

\* What a request still has to remove or to create is of the kind that its step
\* is about.
SeenOK ==
  \A r \in Req :
    /\ pc[r] \in {"p_bak", "p_del", "r_igs"} => seen[r] \subseteq HubIgs \cup {"pausing"}
    /\ pc[r] \in {"p_svcbak", "p_svcdel", "r_svcs"} => seen[r] \subseteq HubSvcs

Typed == TypeOK /\ SeenOK

IInv == Typed /\ StatusKept /\ ResumesAlone

LEMMA LabelFacts ==
  /\ PauseSteps \subseteq Labels /\ ResumeSteps \subseteq Labels
  /\ PauseSteps \cap ResumeSteps = {}
  /\ {"idle", "r_lock"} \subseteq Labels /\ "idle" \notin ResumeSteps /\ "r_lock" \notin ResumeSteps
BY DEF Labels, PauseSteps, ResumeSteps

LEMMA InvInit == Init => IInv
<1>1. 0 \in -1..Cooldown
  BY BoundAssumption
<1>2. Init => /\ pc \in [Req -> Labels]
              /\ \A r \in Req : pc[r] \notin ResumeSteps
  BY LabelFacts DEF Init
<1>3. Init => seen \in [Req -> SUBSET (HubIgs \cup HubSvcs \cup {"pausing"})]
  BY DEF Init
<1>. QED
  BY <1>1, <1>2, <1>3 DEF Init, IInv, Typed, TypeOK, SeenOK, StatusKept, ResumesAlone

-----------------------------------------------------------------------------

\* A pause does not touch what the resumes share.
LEMMA PauseSteady ==
  ASSUME NEW r \in Req,
         \/ RecvPause(r) \/ RecvResume(r)
         \/ PauseList(r) \/ PauseBackup(r) \/ PauseRemove(r) \/ PauseRoute(r)
         \/ PauseSvcList(r) \/ PauseSvcBackup(r) \/ PauseSvcRemove(r) \/ PauseScale(r)
  PROVE  /\ UNCHANGED resuming
         /\ pc[r] \notin ResumeSteps
         /\ \E l \in Labels \ ResumeSteps : pc' = pc \/ pc' = [pc EXCEPT ![r] = l]
<1>. USE DEF Goto, Labels, PauseSteps, ResumeSteps
<1>1. CASE RecvPause(r) \/ RecvResume(r)
  BY <1>1 DEF RecvPause, RecvResume
<1>2. CASE PauseList(r) \/ PauseBackup(r) \/ PauseRemove(r) \/ PauseRoute(r)
  BY <1>2 DEF PauseList, PauseBackup, PauseRemove, PauseRoute, resuming
<1>3. CASE PauseSvcList(r) \/ PauseSvcBackup(r) \/ PauseSvcRemove(r) \/ PauseScale(r)
  BY <1>3 DEF PauseSvcList, PauseSvcBackup, PauseSvcRemove, PauseScale, resuming
<1>. QED  BY <1>1, <1>2, <1>3

\* A request's own step leaves the types of the others' alone.
LEMMA SeenStep ==
  ASSUME Typed, NEW r \in Req, NEW l \in Labels, NEW s \in SUBSET (HubIgs \cup HubSvcs \cup {"pausing"}),
         pc' = [pc EXCEPT ![r] = l], seen' = [seen EXCEPT ![r] = s],
         l \in {"p_bak", "p_del", "r_igs"} => s \subseteq HubIgs \cup {"pausing"},
         l \in {"p_svcbak", "p_svcdel", "r_svcs"} => s \subseteq HubSvcs
  PROVE  /\ pc' \in [Req -> Labels]
         /\ seen' \in [Req -> SUBSET (HubIgs \cup HubSvcs \cup {"pausing"})]
         /\ SeenOK'
BY DEF Typed, TypeOK, SeenOK

LEMMA PauseType ==
  ASSUME Typed, NEW r \in Req,
         \/ RecvPause(r) \/ RecvResume(r)
         \/ PauseList(r) \/ PauseBackup(r) \/ PauseRemove(r) \/ PauseRoute(r)
         \/ PauseSvcList(r) \/ PauseSvcBackup(r) \/ PauseSvcRemove(r) \/ PauseScale(r)
  PROVE  Typed'
<1>. USE DEF hub, resuming, ghosts, Keep, Goto, Labels, PauseSteps, ResumeSteps, Typed, TypeOK
<1>1. seen = [seen EXCEPT ![r] = seen[r]] /\ pc = [pc EXCEPT ![r] = pc[r]]
  OBVIOUS
<1>2. CASE RecvPause(r) \/ RecvResume(r)
  <2>1. orderly' \in BOOLEAN /\ met' \in BOOLEAN
    BY <1>2 DEF RecvPause, RecvResume
  <2>. QED
    BY <1>1, <1>2, <2>1, SeenStep DEF RecvPause, RecvResume
<1>3. CASE PauseList(r)
  BY <1>1, <1>3, SeenStep DEF PauseList
<1>4. CASE PauseBackup(r)
  BY <1>1, <1>4, SeenStep DEF PauseBackup, SeenOK
<1>5. CASE PauseRemove(r)
  BY <1>1, <1>5, SeenStep DEF PauseRemove, SeenOK
<1>6. CASE PauseRoute(r)
  BY <1>1, <1>6, SeenStep DEF PauseRoute
<1>7. CASE PauseSvcList(r)
  BY <1>1, <1>7, SeenStep DEF PauseSvcList
<1>8. CASE PauseSvcBackup(r)
  BY <1>1, <1>8, SeenStep DEF PauseSvcBackup, SeenOK
<1>9. CASE PauseSvcRemove(r)
  BY <1>1, <1>9, SeenStep DEF PauseSvcRemove, SeenOK
<1>10. CASE PauseScale(r)
  BY <1>1, <1>10, SeenStep DEF PauseScale
<1>. QED
  BY <1>2, <1>3, <1>4, <1>5, <1>6, <1>7, <1>8, <1>9, <1>10

LEMMA PauseStep ==
  ASSUME IInv, NEW r \in Req,
         \/ RecvPause(r) \/ RecvResume(r)
         \/ PauseList(r) \/ PauseBackup(r) \/ PauseRemove(r) \/ PauseRoute(r)
         \/ PauseSvcList(r) \/ PauseSvcBackup(r) \/ PauseSvcRemove(r) \/ PauseScale(r)
  PROVE  IInv'
<1>1. Typed'
  BY PauseType DEF IInv
<1>2. \A q \in Req : pc'[q] \in ResumeSteps => pc[q] \in ResumeSteps
  BY PauseSteady DEF IInv, Typed, TypeOK
<1>. QED
  BY <1>1, <1>2, PauseSteady DEF IInv, StatusKept, ResumesAlone, resuming

-----------------------------------------------------------------------------

LEMMA ResumeType ==
  ASSUME Typed, NEW r \in Req,
         \/ ResumeLock(r) \/ ResumeScale(r) \/ ResumeBackup(r) \/ ResumeCreate(r)
         \/ ResumeSvcBackup(r) \/ ResumeSvcCreate(r)
  PROVE  Typed'
<1>. USE DEF hub, resuming, ghosts, Keep, Goto, Labels, PauseSteps, ResumeSteps, Typed, TypeOK
<1>1. seen = [seen EXCEPT ![r] = seen[r]] /\ pc = [pc EXCEPT ![r] = pc[r]]
  OBVIOUS
<1>2. CASE ResumeLock(r)
  <2>. -1 \in -1..Cooldown
    BY BoundAssumption
  <2>. QED  BY <1>1, <1>2, SeenStep DEF ResumeLock
<1>3. CASE ResumeScale(r)
  <2>1. stranded' \in BOOLEAN
    BY <1>3 DEF ResumeScale
  <2>2. up' \in BOOLEAN
    BY <1>3 DEF ResumeScale
  <2>3. UNCHANGED <<igs, igsbak, svcs, svcsbak, status, reMu, bg, seen, orderly, met>>
    BY <1>3 DEF ResumeScale
  <2>4. PICK l \in {"r_bak", "idle"} : pc' = [pc EXCEPT ![r] = l]
    BY <1>3 DEF ResumeScale
  <2>5. SeenOK' /\ pc' \in [Req -> Labels] /\ seen' = seen
    BY <1>1, <2>3, <2>4, SeenStep
  <2>. QED  BY <2>1, <2>2, <2>3, <2>5
<1>4. CASE ResumeBackup(r)
  BY <1>1, <1>4, SeenStep DEF ResumeBackup
<1>5. CASE ResumeCreate(r)
  BY <1>1, <1>5, SeenStep DEF ResumeCreate, SeenOK
<1>6. CASE ResumeSvcBackup(r)
  BY <1>1, <1>6, SeenStep DEF ResumeSvcBackup
<1>7. CASE ResumeSvcCreate(r)
  BY <1>1, <1>7, SeenStep DEF ResumeSvcCreate, SeenOK
<1>. QED  BY <1>2, <1>3, <1>4, <1>5, <1>6, <1>7

\* A resume begins only when nobody resumes, and goes on alone.
LEMMA ResumeStep ==
  ASSUME IInv, NEW r \in Req,
         \/ ResumeLock(r) \/ ResumeScale(r) \/ ResumeBackup(r) \/ ResumeCreate(r)
         \/ ResumeSvcBackup(r) \/ ResumeSvcCreate(r)
  PROVE  IInv'
<1>1. Typed'
  BY ResumeType DEF IInv
<1>. USE DEF IInv, Typed, TypeOK, StatusKept, ResumesAlone, Goto
<1>2. CASE ResumeLock(r)
  <2>1. CASE status = 0
    <3>1. \A q \in Req : pc[q] \notin ResumeSteps
      BY <2>1
    <3>2. bg = "none"
      BY <2>1
    <3>3. status' = -1 /\ bg' = "none" /\ pc' = [pc EXCEPT ![r] = "r_scale"]
      BY <1>2, <2>1, <3>2 DEF ResumeLock
    <3>. QED  BY <1>1, <3>1, <3>3
  <2>2. CASE status # 0
    BY <1>1, <1>2, <2>2, LabelFacts DEF ResumeLock
  <2>. QED  BY <2>1, <2>2
<1>3. CASE ResumeScale(r) \/ ResumeBackup(r) \/ ResumeCreate(r) \/ ResumeSvcBackup(r)
  <2>1. pc[r] \in ResumeSteps /\ UNCHANGED <<status, bg>>
    BY <1>3 DEF ResumeScale, ResumeBackup, ResumeCreate, ResumeSvcBackup, ResumeSteps, resuming
  <2>2. \A q \in Req : pc'[q] \in ResumeSteps => q = r
    BY <1>3, <2>1, LabelFacts
       DEF ResumeScale, ResumeBackup, ResumeCreate, ResumeSvcBackup
  <2>. QED  BY <1>1, <2>1, <2>2
<1>4. CASE ResumeSvcCreate(r)
  <2>1. pc[r] \in ResumeSteps /\ UNCHANGED status
    BY <1>4 DEF ResumeSvcCreate, ResumeSteps
  <2>2. CASE UNCHANGED <<pc, bg>>
    BY <1>1, <2>1, <2>2
  <2>3. CASE pc' = [pc EXCEPT ![r] = "idle"] /\ bg' = "wait"
    BY <1>1, <2>1, <2>3, LabelFacts
  <2>. QED  BY <1>4, <2>2, <2>3 DEF ResumeSvcCreate
<1>. QED  BY <1>2, <1>3, <1>4

\* The goroutine of a resume keeps the status above or below zero until it is
\* done.
LEMMA BackgroundStep ==
  ASSUME IInv, Waited \/ Tick
  PROVE  IInv'
<1>. USE BoundAssumption DEF IInv, StatusKept, ResumesAlone
<1>1. \A r \in Req : pc[r] \notin ResumeSteps
  BY DEF Waited, Tick
<1>2. CASE Waited
  <2>1. igs' \subseteq igs /\ bg' = "cool"
    BY <1>2 DEF Waited
  <2>2. UNCHANGED <<igsbak, svcs, svcsbak, up, status, reMu, pc, seen, orderly, stranded, met>>
    BY <1>2 DEF Waited, ghosts
  <2>3. Typed'
    BY <2>1, <2>2 DEF Typed, TypeOK, SeenOK
  <2>. QED  BY <1>1, <1>2, <2>3 DEF Waited
<1>3. CASE Tick
  <2>1. status' \in -1..Cooldown /\ (status' # 0 => bg' = "cool") /\ (status' = 0 => bg' = "none")
    BY <1>3 DEF Tick, Typed, TypeOK
  <2>2. UNCHANGED <<igs, igsbak, svcs, svcsbak, up, reMu, pc, seen, orderly, stranded, met>>
    BY <1>3 DEF Tick, hub, ghosts
  <2>3. Typed'
    BY <2>1, <2>2 DEF Typed, TypeOK, SeenOK
  <2>. QED
    BY <1>1, <2>1, <2>2, <2>3
<1>. QED  BY <1>2, <1>3

LEMMA CrashStep == IInv /\ Crash => IInv'
<1>. SUFFICES ASSUME IInv, Crash PROVE IInv'
  OBVIOUS
<1>1. 0 \in -1..Cooldown
  BY BoundAssumption
<1>2. pc' \in [Req -> Labels] /\ \A r \in Req : pc'[r] \notin ResumeSteps
  BY LabelFacts DEF Crash
<1>3. seen' \in [Req -> SUBSET (HubIgs \cup HubSvcs \cup {"pausing"})]
  BY DEF Crash
<1>. QED
  BY <1>1, <1>2, <1>3 DEF Crash, IInv, Typed, TypeOK, SeenOK, StatusKept, ResumesAlone, hub

LEMMA InvStep == IInv /\ [Next]_vars => IInv'
<1>. SUFFICES ASSUME IInv, [Next]_vars PROVE IInv'
  OBVIOUS
<1>1. CASE UNCHANGED vars
  BY <1>1 DEF vars, IInv, Typed, TypeOK, SeenOK, StatusKept, ResumesAlone
<1>. QED
  BY <1>1, PauseStep, ResumeStep, BackgroundStep, CrashStep DEF Next, Step

\* Whatever requests come together, the backups hold what is the hub's, and
\* the cooldown never runs below zero.
THEOREM TypeCorrect == Spec => []TypeOK
<1>1. IInv => TypeOK
  BY DEF IInv, Typed
<1>. QED  BY <1>1, InvInit, InvStep, PTL DEF Spec

\* Whatever requests come together, and however often ita is restarted, at
\* most one resume is at work.
THEOREM OneResume == Spec => []ResumesAlone
<1>1. IInv => ResumesAlone
  BY DEF IInv
<1>. QED  BY <1>1, InvInit, InvStep, PTL DEF Spec

-----------------------------------------------------------------------------
(* Requests that take turns find the hub whole or paused, and leave it so, *)
(* as long as no call but a write of a Deployment fails.                   *)

Mild == Faults \subseteq {"scale", "crash"}

SvcsSaved == svcsbak = HubSvcs \cup {"ita"}

Whole  == igs = HubIgs /\ svcs = HubSvcs
Paused == igs = {"pausing"} /\ igsbak = HubIgs /\ SvcsSaved

BackupsWhole == igsbak \in {{}, HubIgs} /\ (svcsbak = {} \/ SvcsSaved)

\* Where the ingresses and services are at each step of a request that has s
\* left to remove or to create.
At(l, s) ==
  /\ l \in {"p_list", "r_lock", "r_scale", "r_bak"} => Whole \/ Paused
  /\ l = "p_bak" => Whole /\ s = HubIgs
  /\ l = "p_del" => igs = s /\ igsbak = HubIgs /\ svcs = HubSvcs
  /\ l = "p_route" => igs = {} /\ igsbak = HubIgs /\ svcs = HubSvcs
  /\ l \in {"p_svcs", "p_svcbak"} => igs = {"pausing"} /\ igsbak = HubIgs /\ svcs = HubSvcs
  /\ l = "p_svcbak" => s = HubSvcs
  /\ l = "p_svcdel" => Paused /\ svcs = s
  /\ l = "p_scale" => Paused
  /\ l = "r_igs" => HubIgs \subseteq igs \cup s /\ (HubIgs \subseteq igs \/ igsbak = HubIgs)
  /\ l \in {"r_svcbak", "r_svcs"} => HubIgs \subseteq igs
  /\ l \in {"r_igs", "r_svcbak"} => svcs = HubSvcs \/ SvcsSaved
  /\ l = "r_svcs" => HubSvcs \subseteq svcs \cup s /\ (svcs = HubSvcs \/ SvcsSaved)

\* And when no request is under way.
AtRest ==
  /\ bg = "none" => Whole \/ Paused
  /\ bg = "wait" => HubIgs \subseteq igs /\ svcs = HubSvcs
  /\ bg = "cool" => Whole

OneByOne ==
  \A r \in Req : pc[r] # "idle" => bg = "none" /\ \A q \in Req : pc[q] # "idle" => q = r

OrderInv ==
  orderly => /\ OneByOne /\ BackupsWhole
             /\ \A r \in Req : At(pc[r], seen[r])
             /\ (\A r \in Req : pc[r] = "idle") => AtRest

LEMMA Sizes == Cardinality(HubIgs) = 2 /\ Cardinality({"pausing"}) = 1
<1>1. Cardinality({"pausing"}) = 1 /\ Cardinality({"assets"}) = 1 /\ IsFiniteSet({"assets"})
  BY FS_Singleton
<1>2. HubIgs = {"assets"} \cup {"ret"} /\ "ret" \notin {"assets"}
  BY DEF HubIgs
<1>3. Cardinality({"assets"} \cup {"ret"}) = Cardinality({"assets"}) + 1
  BY <1>1, <1>2, FS_AddElement
<1>. QED  BY <1>1, <1>2, <1>3

\* What a step of a request that is alone has to establish.
LEMMA AloneStep ==
  ASSUME IInv, OrderInv, NEW r \in Req, NEW l \in Labels,
         orderly, bg = "none", \A q \in Req \ {r} : pc[q] = "idle",
         pc' = [pc EXCEPT ![r] = l], l = "idle" => AtRest',
         l # "idle" => bg' = "none", BackupsWhole', At(l, seen[r])'
  PROVE  OrderInv'
<1>1. pc'[r] = l /\ \A q \in Req : q # r => pc'[q] = "idle"
  BY DEF IInv, Typed, TypeOK
<1>2. \A q \in Req : At(pc[q], seen[q])'
  <2>1. \A q \in Req : q # r => At(pc[q], seen[q])'
    BY <1>1 DEF At
  <2>. QED  BY <1>1, <2>1 DEF At
<1>3. OneByOne'
  BY <1>1 DEF OneByOne
<1>. QED  BY <1>1, <1>2, <1>3 DEF OrderInv

LEMMA RecvOrder ==
  ASSUME IInv, OrderInv, NEW r \in Req, RecvPause(r) \/ RecvResume(r)
  PROVE  OrderInv'
<1>. SUFFICES ASSUME orderly' PROVE OrderInv'
  BY DEF OrderInv
<1>1. orderly /\ bg = "none" /\ (\A q \in Req : pc[q] = "idle") /\ UNCHANGED <<hub, bg, seen>>
  BY DEF RecvPause, RecvResume, Alone, resuming
<1>2. PICK l \in {"p_list", "r_lock"} : pc' = [pc EXCEPT ![r] = l]
  BY DEF RecvPause, RecvResume, Goto
<1>3. Whole \/ Paused
  BY <1>1 DEF OrderInv, AtRest
<1>4. BackupsWhole' /\ At(l, seen[r])'
  BY <1>1, <1>2, <1>3 DEF OrderInv, BackupsWhole, SvcsSaved, At, Whole, Paused, hub
<1>5. l \in Labels /\ l # "idle"
  BY <1>2 DEF Labels, PauseSteps
<1>. HIDE DEF Alone
<1>. QED  BY <1>1, <1>2, <1>4, <1>5, AloneStep

LEMMA StepAlone ==
  ASSUME IInv, OrderInv, NEW r \in Req, Step(r), orderly'
  PROVE  /\ orderly /\ bg = "none" /\ \A q \in Req \ {r} : pc[q] = "idle"
         /\ BackupsWhole /\ At(pc[r], seen[r]) /\ pc[r] # "idle"
<1>. USE DEF ghosts
<1>1. pc[r] # "idle"
  BY DEF Step, PauseList, PauseBackup, PauseRemove, PauseRoute, PauseSvcList, PauseSvcBackup,
         PauseSvcRemove, PauseScale, ResumeLock, ResumeScale, ResumeBackup, ResumeCreate,
         ResumeSvcBackup, ResumeSvcCreate
<1>2. orderly
  BY DEF Step, PauseList, PauseBackup, PauseRemove, PauseRoute, PauseSvcList, PauseSvcBackup,
         PauseSvcRemove, PauseScale, ResumeLock, ResumeScale, ResumeBackup, ResumeCreate,
         ResumeSvcBackup, ResumeSvcCreate
<1>. QED  BY <1>1, <1>2 DEF OrderInv, OneByOne

\* The pause up to the route of the hub's name to ita.
LEMMA PauseIgsOrder ==
  ASSUME Mild, IInv, OrderInv, NEW r \in Req, orderly', Step(r),
         PauseList(r) \/ PauseBackup(r) \/ PauseRemove(r) \/ PauseRoute(r)
  PROVE  OrderInv'
<1>1. /\ orderly /\ bg = "none" /\ \A q \in Req \ {r} : pc[q] = "idle"
      /\ BackupsWhole /\ At(pc[r], seen[r])
  BY StepAlone
<1>2. ~Fault("read") /\ ~Fault("save") /\ ~Fault("remove") /\ ~Fault("create")
  BY DEF Mild, Fault
<1>3. pc \in [Req -> Labels] /\ seen \in [Req -> SUBSET (HubIgs \cup HubSvcs \cup {"pausing"})]
  BY DEF IInv, Typed, TypeOK
<1>4. CASE PauseList(r)
  <2>1. (Whole \/ Paused) /\ UNCHANGED <<hub, bg>>
    BY <1>1, <1>4 DEF At, PauseList, resuming
  <2>2. CASE Paused
    <3>1. pc' = [pc EXCEPT ![r] = "idle"]
      BY <1>2, <1>4, <2>2, Sizes DEF PauseList, Paused, First, HubIgs, Goto
    <3>2. BackupsWhole' /\ AtRest' /\ At("idle", seen[r])'
      BY <1>1, <2>1, <2>2 DEF BackupsWhole, AtRest, At, Paused, SvcsSaved, hub
    <3>. QED  BY <1>1, <3>1, <3>2, AloneStep DEF Labels
  <2>3. CASE Whole
    <3>1. pc' = [pc EXCEPT ![r] = "p_bak"] /\ seen' = [seen EXCEPT ![r] = igs]
      BY <1>2, <1>4, <2>3, Sizes DEF PauseList, Whole, First, HubIgs, Goto, Keep
    <3>2. BackupsWhole' /\ At("p_bak", seen[r])'
      BY <1>1, <1>3, <2>1, <2>3, <3>1 DEF BackupsWhole, At, Whole, SvcsSaved, hub
    <3>. QED  BY <1>1, <2>1, <3>1, <3>2, AloneStep DEF Labels, PauseSteps
  <2>. QED  BY <2>1, <2>2, <2>3
<1>5. CASE PauseBackup(r)
  <2>1. igs = HubIgs /\ seen[r] = HubIgs /\ svcs = HubSvcs
    BY <1>1, <1>5 DEF At, Whole, PauseBackup
  <2>2. igsbak' = HubIgs /\ pc' = [pc EXCEPT ![r] = "p_del"] /\ UNCHANGED <<igs, svcs, svcsbak, bg, seen>>
    BY <1>2, <1>5, <2>1 DEF PauseBackup, Goto, resuming
  <2>3. BackupsWhole' /\ At("p_del", seen[r])'
    BY <1>1, <2>1, <2>2 DEF BackupsWhole, At, SvcsSaved
  <2>. QED  BY <1>1, <2>2, <2>3, AloneStep DEF Labels, PauseSteps
<1>6. CASE PauseRemove(r)
  <2>1. igs = seen[r] /\ igsbak = HubIgs /\ svcs = HubSvcs /\ UNCHANGED <<igsbak, svcs, svcsbak, bg>>
    BY <1>1, <1>6 DEF At, PauseRemove, resuming
  <2>2. CASE seen[r] = {} /\ pc' = [pc EXCEPT ![r] = "p_route"] /\ UNCHANGED <<igs, seen>>
    <3>1. BackupsWhole' /\ At("p_route", seen[r])'
      BY <1>1, <2>1, <2>2 DEF BackupsWhole, At, SvcsSaved
    <3>. QED  BY <1>1, <2>1, <2>2, <3>1, AloneStep DEF Labels, PauseSteps
  <2>3. CASE \E i \in seen[r] : igs' = igs \ {i} /\ seen' = [seen EXCEPT ![r] = @ \ {i}] /\ UNCHANGED pc
    <3>1. igs' = seen'[r]
      BY <1>3, <2>1, <2>3
    <3>2. BackupsWhole' /\ At("p_del", seen[r])' /\ pc[r] = "p_del"
      BY <1>1, <1>6, <2>1, <3>1 DEF BackupsWhole, At, SvcsSaved, PauseRemove
    <3>3. pc' = [pc EXCEPT ![r] = "p_del"]
      BY <1>3, <2>3, <3>2
    <3>. QED  BY <1>1, <2>1, <3>2, <3>3, AloneStep DEF Labels, PauseSteps
  <2>. QED  BY <1>2, <1>6, <2>2, <2>3 DEF PauseRemove, Goto, Keep
<1>7. CASE PauseRoute(r)
  <2>1. igs = {} /\ igsbak = HubIgs /\ svcs = HubSvcs
    BY <1>1, <1>7 DEF At, PauseRoute
  <2>2. igs' = {"pausing"} /\ pc' = [pc EXCEPT ![r] = "p_svcs"] /\ UNCHANGED <<igsbak, svcs, svcsbak, bg, seen>>
    BY <1>2, <1>7, <2>1 DEF PauseRoute, Goto, resuming
  <2>3. BackupsWhole' /\ At("p_svcs", seen[r])'
    BY <1>1, <2>1, <2>2 DEF BackupsWhole, At, SvcsSaved
  <2>. QED  BY <1>1, <2>2, <2>3, AloneStep DEF Labels, PauseSteps
<1>. QED  BY <1>4, <1>5, <1>6, <1>7

\* The rest of the pause.
LEMMA PauseSvcsOrder ==
  ASSUME Mild, IInv, OrderInv, NEW r \in Req, orderly', Step(r),
         PauseSvcList(r) \/ PauseSvcBackup(r) \/ PauseSvcRemove(r) \/ PauseScale(r)
  PROVE  OrderInv'
<1>1. /\ orderly /\ bg = "none" /\ \A q \in Req \ {r} : pc[q] = "idle"
      /\ BackupsWhole /\ At(pc[r], seen[r])
  BY StepAlone
<1>2. ~Fault("read") /\ ~Fault("save") /\ ~Fault("remove") /\ ~Fault("create")
  BY DEF Mild, Fault
<1>3. pc \in [Req -> Labels] /\ seen \in [Req -> SUBSET (HubIgs \cup HubSvcs \cup {"pausing"})]
  BY DEF IInv, Typed, TypeOK
<1>4. CASE PauseSvcList(r)
  <2>1. igs = {"pausing"} /\ igsbak = HubIgs /\ svcs = HubSvcs
    BY <1>1, <1>4 DEF At, PauseSvcList
  <2>2. /\ pc' = [pc EXCEPT ![r] = "p_svcbak"] /\ seen' = [seen EXCEPT ![r] = svcs]
        /\ UNCHANGED <<igs, igsbak, svcs, svcsbak, bg>>
    BY <1>2, <1>4 DEF PauseSvcList, Goto, Keep, hub, resuming
  <2>3. BackupsWhole' /\ At("p_svcbak", seen[r])'
    BY <1>1, <1>3, <2>1, <2>2 DEF BackupsWhole, At, SvcsSaved
  <2>. QED  BY <1>1, <2>2, <2>3, AloneStep DEF Labels, PauseSteps
<1>5. CASE PauseSvcBackup(r)
  <2>1. igs = {"pausing"} /\ igsbak = HubIgs /\ svcs = HubSvcs /\ seen[r] = HubSvcs
    BY <1>1, <1>5 DEF At, PauseSvcBackup
  <2>2. /\ pc' = [pc EXCEPT ![r] = "p_svcdel"] /\ svcsbak' = HubSvcs \cup {"ita"}
        /\ UNCHANGED <<igs, igsbak, svcs, bg, seen>>
    BY <1>2, <1>5, <2>1 DEF PauseSvcBackup, Goto, resuming
  <2>3. BackupsWhole' /\ At("p_svcdel", seen[r])'
    BY <1>1, <2>1, <2>2 DEF BackupsWhole, At, SvcsSaved, Paused
  <2>. QED  BY <1>1, <2>2, <2>3, AloneStep DEF Labels, PauseSteps
<1>6. CASE PauseSvcRemove(r)
  <2>1. Paused /\ svcs = seen[r] /\ UNCHANGED <<igs, igsbak, svcsbak, bg>>
    BY <1>1, <1>6 DEF At, PauseSvcRemove, resuming
  <2>2. BackupsWhole' /\ Paused'
    BY <1>1, <2>1 DEF BackupsWhole, SvcsSaved, Paused
  <2>3. CASE seen[r] = {} /\ pc' = [pc EXCEPT ![r] = "p_scale"] /\ UNCHANGED seen
    <3>1. At("p_scale", seen[r])'
      BY <2>2 DEF At
    <3>. QED  BY <1>1, <2>1, <2>2, <2>3, <3>1, AloneStep DEF Labels, PauseSteps
  <2>4. CASE \E s \in seen[r] : svcs' = svcs \ {s} /\ seen' = [seen EXCEPT ![r] = @ \ {s}] /\ UNCHANGED pc
    <3>1. svcs' = seen'[r]
      BY <1>3, <2>1, <2>4
    <3>2. At("p_svcdel", seen[r])' /\ pc[r] = "p_svcdel"
      BY <1>6, <2>2, <3>1 DEF At, PauseSvcRemove
    <3>3. pc' = [pc EXCEPT ![r] = "p_svcdel"]
      BY <1>3, <2>4, <3>2
    <3>. QED  BY <1>1, <2>1, <2>2, <3>2, <3>3, AloneStep DEF Labels, PauseSteps
  <2>. QED  BY <1>2, <1>6, <2>1, <2>3, <2>4 DEF PauseSvcRemove, Goto, Keep
<1>7. CASE PauseScale(r)
  <2>1. Paused /\ pc' = [pc EXCEPT ![r] = "idle"] /\ UNCHANGED <<igs, igsbak, svcsbak, bg, seen>>
    BY <1>1, <1>7 DEF At, PauseScale, Goto, resuming
  <2>2. BackupsWhole' /\ AtRest' /\ At("idle", seen[r])'
    BY <1>1, <2>1 DEF BackupsWhole, AtRest, At, Paused, SvcsSaved
  <2>. QED  BY <1>1, <2>1, <2>2, AloneStep DEF Labels
<1>. QED  BY <1>4, <1>5, <1>6, <1>7

LEMMA ResumeOrder ==
  ASSUME Mild, IInv, OrderInv, NEW r \in Req, orderly', Step(r),
         \/ ResumeLock(r) \/ ResumeScale(r) \/ ResumeBackup(r) \/ ResumeCreate(r)
         \/ ResumeSvcBackup(r) \/ ResumeSvcCreate(r)
  PROVE  OrderInv'
<1>1. /\ orderly /\ bg = "none" /\ \A q \in Req \ {r} : pc[q] = "idle"
      /\ BackupsWhole /\ At(pc[r], seen[r])
  BY StepAlone
<1>2. ~Fault("read") /\ ~Fault("save") /\ ~Fault("remove") /\ ~Fault("create")
  BY DEF Mild, Fault
<1>3. /\ pc \in [Req -> Labels] /\ seen \in [Req -> SUBSET (HubIgs \cup HubSvcs \cup {"pausing"})]
      /\ svcs \subseteq HubSvcs /\ SeenOK
  BY DEF IInv, Typed, TypeOK
<1>4. CASE ResumeLock(r) \/ ResumeScale(r)
  <2>1. (Whole \/ Paused) /\ UNCHANGED <<igs, igsbak, svcs, svcsbak, bg, seen>>
    BY <1>1, <1>4 DEF At, ResumeLock, ResumeScale, hub, resuming
  <2>2. PICK l \in {"idle", "r_scale", "r_bak"} : pc' = [pc EXCEPT ![r] = l]
    BY <1>4 DEF ResumeLock, ResumeScale, Goto
  <2>3. BackupsWhole' /\ AtRest' /\ At(l, seen[r])'
    BY <1>1, <2>1, <2>2 DEF BackupsWhole, AtRest, At, Paused, Whole, SvcsSaved
  <2>4. l \in Labels
    BY <2>2 DEF Labels, ResumeSteps
  <2>. QED  BY <1>1, <2>1, <2>2, <2>3, <2>4, AloneStep
<1>5. CASE ResumeBackup(r)
  <2>1. (Whole \/ Paused) /\ UNCHANGED <<igs, igsbak, svcs, svcsbak, bg>>
    BY <1>1, <1>5 DEF At, ResumeBackup, hub, resuming
  <2>2. pc' = [pc EXCEPT ![r] = "r_igs"] /\ seen'[r] = igsbak
    BY <1>2, <1>3, <1>5 DEF ResumeBackup, Goto, Keep
  <2>3. BackupsWhole' /\ At("r_igs", seen[r])'
    BY <1>1, <2>1, <2>2 DEF BackupsWhole, At, Paused, Whole, SvcsSaved
  <2>. QED  BY <1>1, <2>1, <2>2, <2>3, AloneStep DEF Labels, ResumeSteps
<1>6. CASE ResumeCreate(r)
  <2>1. /\ HubIgs \subseteq igs \cup seen[r] /\ (HubIgs \subseteq igs \/ igsbak = HubIgs)
        /\ svcs = HubSvcs \/ SvcsSaved
        /\ UNCHANGED <<igsbak, svcs, svcsbak, bg>> /\ pc[r] = "r_igs"
    BY <1>1, <1>6 DEF At, ResumeCreate, resuming
  <2>2. CASE seen[r] = {} /\ pc' = [pc EXCEPT ![r] = "r_svcbak"] /\ UNCHANGED <<igs, seen>>
    <3>1. BackupsWhole' /\ At("r_svcbak", seen[r])'
      BY <1>1, <2>1, <2>2 DEF BackupsWhole, At, SvcsSaved
    <3>. QED  BY <1>1, <2>1, <2>2, <3>1, AloneStep DEF Labels, ResumeSteps
  <2>3. CASE \E i \in seen[r] : igs' = igs \cup {i} /\ seen' = [seen EXCEPT ![r] = @ \ {i}] /\ UNCHANGED pc
    <3>1. HubIgs \subseteq igs' \cup seen'[r] /\ (HubIgs \subseteq igs' \/ igsbak = HubIgs)
      BY <1>3, <2>1, <2>3
    <3>2. BackupsWhole' /\ At("r_igs", seen[r])'
      BY <1>1, <2>1, <3>1 DEF BackupsWhole, At, SvcsSaved
    <3>3. pc' = [pc EXCEPT ![r] = "r_igs"]
      BY <1>3, <2>1, <2>3
    <3>. QED  BY <1>1, <2>1, <3>2, <3>3, AloneStep DEF Labels, ResumeSteps
  <2>. QED  BY <1>2, <1>6, <2>2, <2>3 DEF ResumeCreate, Goto, Keep
<1>7. CASE ResumeSvcBackup(r)
  <2>1. /\ HubIgs \subseteq igs /\ (svcs = HubSvcs \/ SvcsSaved)
        /\ UNCHANGED <<igs, igsbak, svcs, svcsbak, bg>>
    BY <1>1, <1>7 DEF At, ResumeSvcBackup, hub, resuming
  <2>2. pc' = [pc EXCEPT ![r] = "r_svcs"] /\ HubSvcs \subseteq seen'[r]
    <3>1. svcsbak # {} => HubSvcs \subseteq svcsbak \ {"ita"}
      BY <1>1 DEF BackupsWhole, SvcsSaved, HubSvcs
    <3>2. \/ svcsbak # {} /\ seen' = [seen EXCEPT ![r] = svcsbak \ {"ita"}]
          \/ seen' = [seen EXCEPT ![r] = HubSvcs]
      BY <1>7 DEF ResumeSvcBackup, Keep
    <3>3. \/ svcsbak # {} /\ seen'[r] = svcsbak \ {"ita"}
          \/ seen'[r] = HubSvcs
      BY <1>3, <3>2
    <3>. QED  BY <1>7, <3>1, <3>3 DEF ResumeSvcBackup, Goto
  <2>3. BackupsWhole' /\ At("r_svcs", seen[r])'
    BY <1>1, <2>1, <2>2 DEF BackupsWhole, At, SvcsSaved
  <2>. QED  BY <1>1, <2>1, <2>2, <2>3, AloneStep DEF Labels, ResumeSteps
<1>8. CASE ResumeSvcCreate(r)
  <2>1. /\ HubIgs \subseteq igs /\ HubSvcs \subseteq svcs \cup seen[r] /\ (svcs = HubSvcs \/ SvcsSaved)
        /\ UNCHANGED <<igs, igsbak, svcsbak>> /\ pc[r] = "r_svcs" /\ seen[r] \subseteq HubSvcs
    BY <1>1, <1>3, <1>8 DEF At, ResumeSvcCreate, SeenOK
  <2>2. CASE seen[r] = {} /\ pc' = [pc EXCEPT ![r] = "idle"] /\ bg' = "wait" /\ UNCHANGED <<svcs, seen>>
    <3>1. svcs = HubSvcs
      BY <1>3, <2>1, <2>2
    <3>2. BackupsWhole' /\ AtRest' /\ At("idle", seen[r])'
      BY <1>1, <2>1, <2>2, <3>1 DEF BackupsWhole, AtRest, At, SvcsSaved
    <3>. QED  BY <1>1, <2>2, <3>2, AloneStep DEF Labels
  <2>3. CASE \E s \in seen[r] : svcs' = svcs \cup {s} /\ seen' = [seen EXCEPT ![r] = @ \ {s}] /\ UNCHANGED <<pc, bg>>
    <3>1. HubSvcs \subseteq svcs' \cup seen'[r] /\ (svcs' = HubSvcs \/ SvcsSaved)
      BY <1>3, <2>1, <2>3
    <3>2. BackupsWhole' /\ At("r_svcs", seen[r])'
      BY <1>1, <2>1, <3>1 DEF BackupsWhole, At, SvcsSaved
    <3>3. pc' = [pc EXCEPT ![r] = "r_svcs"]
      BY <1>3, <2>1, <2>3
    <3>. QED  BY <1>1, <2>3, <3>2, <3>3, AloneStep DEF Labels, ResumeSteps
  <2>. QED  BY <1>2, <1>8, <2>2, <2>3 DEF ResumeSvcCreate, Goto, Keep
<1>. QED  BY <1>4, <1>5, <1>6, <1>7, <1>8

LEMMA BackgroundOrder ==
  ASSUME Mild, IInv, OrderInv, Waited \/ Tick
  PROVE  OrderInv'
<1>. SUFFICES ASSUME orderly' PROVE OrderInv'
  BY DEF OrderInv
<1>1. orderly /\ UNCHANGED <<pc, seen, igsbak, svcs, svcsbak>>
  BY DEF Waited, Tick, hub, ghosts
<1>2. \A r \in Req : pc[r] = "idle"
  BY <1>1 DEF OrderInv, OneByOne, Waited, Tick
<1>3. igs \subseteq HubIgs \cup {"pausing"} /\ AtRest
  BY <1>1, <1>2 DEF OrderInv, IInv, Typed, TypeOK
<1>4. AtRest'
  <2>1. CASE Waited
    <3>1. igs' = igs \ {"pausing"} /\ bg' = "cool" /\ HubIgs \subseteq igs /\ svcs = HubSvcs
      BY <1>3, <2>1 DEF Waited, Mild, Fault, AtRest
    <3>2. igs' = HubIgs
      BY <1>3, <3>1 DEF HubIgs
    <3>. QED  BY <1>1, <3>1, <3>2 DEF AtRest, Whole
  <2>2. CASE Tick
    BY <1>1, <1>3, <2>2 DEF Tick, hub, AtRest, Whole
  <2>. QED  BY <2>1, <2>2
<1>5. BackupsWhole'
  BY <1>1 DEF OrderInv, BackupsWhole, SvcsSaved
<1>. QED  BY <1>1, <1>2, <1>4, <1>5 DEF OrderInv, OneByOne, At

LEMMA OrderStep == Mild /\ IInv /\ OrderInv /\ [Next]_vars => OrderInv'
<1>. SUFFICES ASSUME Mild, IInv, OrderInv, [Next]_vars PROVE OrderInv'
  OBVIOUS
<1>1. CASE \E r \in Req : RecvPause(r) \/ RecvResume(r)
  BY <1>1, RecvOrder
<1>2. CASE \E r \in Req : Step(r)
  <2>. SUFFICES ASSUME orderly' PROVE OrderInv'
    BY DEF OrderInv
  <2>. QED  BY <1>2, PauseIgsOrder, PauseSvcsOrder, ResumeOrder DEF Step
<1>3. CASE Waited \/ Tick
  BY <1>3, BackgroundOrder
<1>4. CASE Crash
  BY <1>4 DEF Crash, OrderInv
<1>5. CASE UNCHANGED vars
  BY <1>5 DEF vars, OrderInv, OneByOne, BackupsWhole, SvcsSaved, At, AtRest, Whole, Paused
<1>. QED  BY <1>1, <1>2, <1>3, <1>4, <1>5 DEF Next

LEMMA OrderSafe ==
  ASSUME IInv, OrderInv
  PROVE  NothingLost
<1>. SUFFICES ASSUME orderly PROVE NothingLost
  BY DEF NothingLost
<1>1. CASE \A r \in Req : pc[r] = "idle"
  <2>1. bg \in {"none", "wait", "cool"} /\ AtRest
    BY <1>1 DEF OrderInv, IInv, Typed, TypeOK
  <2>. QED  BY <2>1 DEF AtRest, Whole, Paused, SvcsSaved, NothingLost
<1>2. CASE \E r \in Req : pc[r] # "idle"
  <2>1. PICK r \in Req : pc[r] # "idle"
    BY <1>2
  <2>2. pc[r] \in Labels /\ At(pc[r], seen[r])
    BY DEF OrderInv, IInv, Typed, TypeOK
  <2>3. HubIgs \subseteq igs \cup igsbak /\ HubSvcs \subseteq svcs \cup svcsbak
    BY <2>1, <2>2 DEF Labels, PauseSteps, ResumeSteps, At, Whole, Paused, SvcsSaved
  <2>. QED  BY <2>1, <2>3 DEF NothingLost
<1>. QED  BY <1>1, <1>2

\* Pauses and resumes that take turns, fail to scale or are cut off by a
\* restart lose no ingress and no service, and the hub's name always leads
\* somewhere (handlers_pausing.go:166, 200, 231).
THEOREM TurnsLoseNothing == Mild => (Spec => []NothingLost)
<1>. SUFFICES ASSUME Mild PROVE Spec => []NothingLost
  OBVIOUS
<1>1. Init => OrderInv
  BY DEF Init, OrderInv, OneByOne, BackupsWhole, At, AtRest, Whole
<1>2. IInv /\ OrderInv /\ [Next]_vars => OrderInv'
  BY OrderStep
<1>. QED  BY <1>1, <1>2, InvInit, InvStep, OrderSafe, PTL DEF Spec
=============================================================================
