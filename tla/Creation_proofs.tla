-------------------------- MODULE Creation_proofs --------------------------
(* Proofs about what the orchestrator makes: HubCreate, for any number of  *)
(* racing creations of a hub, and ClusterDeploy, for any number of         *)
(* requests and of stacks.                                                 *)
EXTENDS HubCreate, ClusterDeploy, WellFoundedInduction, TLAPS

-----------------------------------------------------------------------------
(* HubCreate.                                                              *)

NoDelete == ~deleted => \A r \in Req : pc[r] \notin DeleteSteps

HubInv == HubTypeOK /\ NoDelete /\ InitsOwnDb

LEMMA LabelFacts ==
  /\ CreateSteps \subseteq Labels /\ InitSteps \subseteq Labels /\ DeleteSteps \subseteq Labels
  /\ CreateSteps \cap InitSteps = {} /\ CreateSteps \cap DeleteSteps = {}
  /\ InitSteps \cap DeleteSteps = {}
  /\ "idle" \in Labels /\ "idle" \notin InitSteps \cup DeleteSteps
BY DEF Labels, CreateSteps, InitSteps, DeleteSteps

LEMMA HubTypeInit == HubInit => HubTypeOK
<1>1. 0 \in 0..MaxDbFails
  BY DbAssumption
<1>2. HubInit => left \in [Req -> SUBSET Assets] /\ asset \in [Req -> Assets \cup {Nil}]
  BY DEF HubInit
<1>3. HubInit => /\ pc \in [Req -> Labels] /\ isNew \in [Req -> BOOLEAN]
              /\ dbFails \in [Req -> 0..MaxDbFails]
              /\ result \in [Req -> {"none", "created", "deleted", "err"}]
  BY <1>1, LabelFacts DEF HubInit
<1>. QED
  BY <1>2, <1>3 DEF HubInit, HubTypeOK

\* Each step of the initialisation loads at most one thing, in the request's
\* own name.
LEMMA Loads ==
  ASSUME HubTypeOK, NEW r \in Req, PostCreationHacks(r)
  PROVE  content' \subseteq Content /\ \A c \in content' : c \in content \/ c.by = r
<1>1. ASSUME NEW w \in {"theme", "import", "listing"}, NEW a \in Assets \cup {Nil},
             Post(r, w, a) \/ Lost(r, w, a)
      PROVE  content' \subseteq Content /\ \A c \in content' : c \in content \/ c.by = r
  BY <1>1 DEF Post, Lost, Content, HubTypeOK
<1>2. CASE SetDefaultTheme(r)
  BY <1>1, <1>2 DEF SetDefaultTheme
<1>3. ASSUME NEW a \in Assets, ImportAsset(r, a)
      PROVE  content' \subseteq Content /\ \A c \in content' : c \in content \/ c.by = r
  BY <1>1, <1>3 DEF ImportAsset
<1>4. CASE ListAsset(r)
  <2>. asset[r] \in Assets \cup {Nil}
    BY DEF HubTypeOK
  <2>. QED  BY <1>1, <1>4 DEF ListAsset
<1>5. CASE WaitForRet(r) \/ GetAdminToken(r) \/ GetPack(r) \/ PackLoaded(r)
  BY <1>5 DEF WaitForRet, GetAdminToken, GetPack, PackLoaded, hub, HubTypeOK
<1>. QED  BY <1>2, <1>3, <1>4, <1>5 DEF PostCreationHacks

LEMMA HubTypeStep == HubTypeOK /\ [HubNext]_hubVars => HubTypeOK'
<1>. SUFFICES ASSUME HubTypeOK, [HubNext]_hubVars PROVE HubTypeOK'
  OBVIOUS
<1>. USE DbAssumption DEF hub, local
<1>1. CASE UNCHANGED hubVars
  BY <1>1 DEF hubVars, HubTypeOK
<1>2. CASE NsFinalised
  BY <1>2 DEF NsFinalised, HubTypeOK
<1>3. ASSUME NEW r \in Req, Receive(r) PROVE HubTypeOK'
  <2>1. 0 \in 0..MaxDbFails
    OBVIOUS
  <2>2. PICK l \in Labels : Begin(r, l)
    BY <1>3, LabelFacts DEF Receive, RecvCreate, RecvDelete, CreateSteps, DeleteSteps
  <2>3. deleted' \in BOOLEAN
    BY <1>3 DEF Receive, RecvCreate, RecvDelete, HubTypeOK
  <2>. QED
    BY <2>1, <2>2, <2>3 DEF Begin, HubTypeOK
<1>8. ASSUME NEW S \in SUBSET Req, PodDies(S) \/ Panic(S) PROVE HubTypeOK'
  BY <1>8, LabelFacts DEF PodDies, Panic, Down, HubTypeOK
<1>4. ASSUME NEW r \in Req, CreateCheck(r) \/ CreateStat(r) \/ CreateMkdir(r) \/ CreateApply(r)
      PROVE  HubTypeOK'
  BY <1>4 DEF CreateCheck, CreateStat, CreateMkdir, CreateApply, GoOn, Answer, HubTypeOK, Labels,
              CreateSteps
<1>5. ASSUME NEW r \in Req, CreateDb(r) PROVE HubTypeOK'
  <2>1. dbFails' \in [Req -> 0..MaxDbFails]
    BY <1>5 DEF CreateDb, HubTypeOK
  <2>. QED
    BY <1>5, <2>1 DEF CreateDb, Answer, HubTypeOK, Labels, InitSteps
<1>6. ASSUME NEW r \in Req, UpdateTier(r) \/ DeleteNs(r) \/ DeleteFiles(r) \/ DeleteDb(r)
      PROVE  HubTypeOK'
  BY <1>6 DEF UpdateTier, DeleteNs, DeleteFiles, DeleteDb, GoOn, Answer, HubTypeOK,
              Labels, InitSteps, DeleteSteps
<1>7. ASSUME NEW r \in Req, PostCreationHacks(r) PROVE HubTypeOK'
  <2>1. content' \in SUBSET Content
    BY <1>7, Loads DEF HubTypeOK
  <2>2. left' \in [Req -> SUBSET Assets] /\ asset' \in [Req -> Assets \cup {Nil}]
    BY <1>7 DEF PostCreationHacks, WaitForRet, GetAdminToken, SetDefaultTheme, GetPack, ImportAsset,
                ListAsset, PackLoaded, HubTypeOK
  <2>3. pc' \in [Req -> Labels]
    BY <1>7 DEF PostCreationHacks, WaitForRet, GetAdminToken, SetDefaultTheme, GetPack, ImportAsset,
                ListAsset, PackLoaded, GoOn, HubTypeOK, Labels, InitSteps
  <2>4. UNCHANGED <<ns, hubDir, db, tiered, isNew, dbFails, result, deleted>>
    BY <1>7 DEF PostCreationHacks, WaitForRet, GetAdminToken, SetDefaultTheme, GetPack, ImportAsset,
                ListAsset, PackLoaded, GoOn
  <2>. QED  BY <2>1, <2>2, <2>3, <2>4 DEF HubTypeOK
<1>. QED  BY <1>1, <1>2, <1>3, <1>4, <1>5, <1>6, <1>7, <1>8 DEF HubNext, RequestStep

\* A step that changes neither the database nor who initialises or deletes.
LEMMA Outside ==
  ASSUME HubInv, NEW r \in Req, NEW l \in Labels \ (InitSteps \cup DeleteSteps),
         pc' = [pc EXCEPT ![r] = l], UNCHANGED <<db, content>>, deleted' \/ ~deleted
  PROVE  NoDelete' /\ InitsOwnDb'
BY DEF HubInv, HubTypeOK, NoDelete, InitsOwnDb

LEMMA HubInvStep == HubInv /\ [HubNext]_hubVars => HubInv'
<1>. SUFFICES ASSUME HubInv, [HubNext]_hubVars PROVE NoDelete' /\ InitsOwnDb'
  BY HubTypeStep DEF HubInv
<1>. USE LabelFacts DEF hub, local
<1>1. CASE UNCHANGED hubVars
  BY <1>1 DEF hubVars, HubInv, NoDelete, InitsOwnDb
<1>2. CASE NsFinalised
  BY <1>2 DEF NsFinalised, HubInv, NoDelete, InitsOwnDb
<1>3. CASE deleted'
  BY <1>3 DEF NoDelete, InitsOwnDb
<1>4. ASSUME NEW r \in Req, ~deleted', Receive(r) PROVE NoDelete' /\ InitsOwnDb'
  BY <1>4, Outside DEF Receive, RecvCreate, RecvDelete, Begin, CreateSteps
<1>5. ASSUME NEW r \in Req, CreateCheck(r) \/ CreateStat(r) \/ CreateMkdir(r) \/ CreateApply(r)
      PROVE  NoDelete' /\ InitsOwnDb'
  BY <1>5, Outside DEF CreateCheck, CreateStat, CreateMkdir, CreateApply, GoOn, Answer, hub,
                       CreateSteps
<1>6. ASSUME NEW r \in Req, CreateDb(r) PROVE NoDelete' /\ InitsOwnDb'
  <2>. deleted' = deleted
    BY <1>6 DEF CreateDb, Answer
  <2>1. CASE db = Nil /\ db' = r
    <3>1. deleted \/ (content = {} /\ \A q \in Req : pc[q] \notin InitSteps)
      BY <2>1, ReqAssumption DEF HubInv, HubTypeOK, Content, InitsOwnDb
    <3>. QED
      BY <1>6, <2>1, <3>1 DEF CreateDb, Answer, HubInv, HubTypeOK, NoDelete, InitsOwnDb, DeleteSteps
  <2>2. CASE db # Nil /\ db' = db /\ pc' = [pc EXCEPT ![r] = "idle"]
    BY <1>6, <2>2, Outside DEF CreateDb
  <2>3. CASE UNCHANGED <<db, pc>>
    BY <1>6, <2>3 DEF CreateDb, HubInv, NoDelete, InitsOwnDb
  <2>. QED  BY <1>6, <2>1, <2>2, <2>3 DEF CreateDb, Answer
<1>7. ASSUME NEW r \in Req, PostCreationHacks(r) PROVE NoDelete' /\ InitsOwnDb'
  <2>1. pc[r] \in InitSteps /\ UNCHANGED <<db, deleted>>
    BY <1>7 DEF PostCreationHacks, WaitForRet, GetAdminToken, SetDefaultTheme, GetPack, ImportAsset,
                ListAsset, PackLoaded, GoOn, InitSteps
  <2>2. PICK l \in InitSteps : pc' = [pc EXCEPT ![r] = l]
    <3>1. CASE UNCHANGED pc
      BY <2>1, <3>1 DEF HubInv, HubTypeOK
    <3>. QED
      BY <1>7, <3>1 DEF PostCreationHacks, WaitForRet, GetAdminToken, SetDefaultTheme, GetPack,
                        ImportAsset, ListAsset, PackLoaded, GoOn, InitSteps
  <2>3. \A c \in content' : c \in content \/ c.by = r
    BY <1>7, Loads DEF HubInv
  <2>. QED
    BY <2>1, <2>2, <2>3 DEF HubInv, HubTypeOK, NoDelete, InitsOwnDb
<1>8. ASSUME NEW r \in Req, UpdateTier(r) PROVE NoDelete' /\ InitsOwnDb'
  BY <1>8, Outside DEF UpdateTier, GoOn
<1>9. ASSUME NEW r \in Req, ~deleted', DeleteNs(r) \/ DeleteFiles(r) \/ DeleteDb(r) PROVE FALSE
  BY <1>9 DEF DeleteNs, DeleteFiles, DeleteDb, GoOn, Answer, HubInv, NoDelete, DeleteSteps
<1>10. ASSUME NEW S \in SUBSET Req, PodDies(S) \/ Panic(S) PROVE NoDelete' /\ InitsOwnDb'
  BY <1>10 DEF PodDies, Panic, Down, HubInv, HubTypeOK, NoDelete, InitsOwnDb
<1>. QED
  BY <1>1, <1>2, <1>3, <1>4, <1>5, <1>6, <1>7, <1>8, <1>9, <1>10 DEF HubNext, RequestStep

\* Whatever requests race and fail, each is at a call of its own, and what is
\* loaded was loaded by one of them.
THEOREM HubTypeCorrect == HubSpec => []HubTypeOK
BY HubTypeInit, HubTypeStep, PTL DEF HubSpec

\* However many creations of one hub race, crash and are sent again, only
\* the request that has made the hub's database initialises it, and all that
\* is loaded into it is that request's.
THEOREM InitialisedByItsMaker == HubSpec => []InitsOwnDb
<1>1. HubInit => HubInv
  BY HubTypeInit, LabelFacts DEF HubInit, HubInv, NoDelete, InitsOwnDb
<1>2. HubInv => InitsOwnDb
  BY DEF HubInv
<1>. QED  BY <1>1, <1>2, HubInvStep, PTL DEF HubSpec
-----------------------------------------------------------------------------
(* ClusterDeploy.                                                          *)

ReqSet == [pc : Pcs, cloud : {"gcp", "aws", None}, vpc : BOOLEAN, name : Stacks \cup {None},
           stack : Stacks \cup {None}, pass : Stacks \cup Reqs \cup {None}, pub : Reqs \cup {None},
           ip : {"vpc", "own", "0.0.0.0", None}, host : BOOLEAN, tf : Reqs \cup {None},
           tries : 0..Tries, alone : BOOLEAN]

\* Requests that are still to draw their password, and those that have drawn it.
Drawing == {"seed", "draw"}
Drawn   == Pcs \ ({"idle", "done"} \cup Drawing)

\* Steps of a request for aws only.
OnAws == {"dns0", "create", "poll", "outputs"}

\* What the configuration of a request has in it at each of its steps.
Row(r) ==
  /\ req[r].pc \in {"idle"} \cup Drawing => req[r].pass = None
  /\ req[r].pc \in Drawing \cup Drawn => req[r].stack \in Stacks /\ req[r].name \in Stacks
  /\ req[r].pc \in Drawn => req[r].pass # None
  /\ req[r].pass # None => /\ req[r].name \in Stacks /\ req[r].stack \in Stacks
                           /\ req[r].pass = req[r].name \/ (req[r].pass = r /\ r \in garbled)
  /\ req[r].pc \in OnAws => req[r].cloud = "aws"

Rows == req \in [Reqs -> ReqSet] /\ \A r \in Reqs : Row(r)

\* What TypeOK says of the rest, and more of the passwords.
Shared ==
  /\ rng \in Reqs \cup {None}
  /\ file \in [Stacks -> Reqs \cup {None}] /\ lock \in [Stacks -> Reqs \cup {None}]
  /\ subnets \subseteq Octets
  /\ cf \in [Stacks -> {None, "IN_PROGRESS", "COMPLETE", "FAILED"}]
  /\ sql \in [Stacks -> Stacks \cup Reqs \cup {None}]
  /\ kube \in [Stacks -> [Charts -> Reqs \cup {None}]]
  /\ dns \in [Stacks -> {None, "deploying", "here"}]
  /\ saved \in [Stacks -> Reqs \cup {None}]
  /\ garbled \subseteq Reqs /\ torn \subseteq Stacks
  /\ crashes \in 0..MaxCrashes /\ fails \in 0..MaxFails

Typed == Rows /\ Shared

\* A request that has drawn its password, and is on the stack it stays on.
Settled(q) == req[q].pass # None /\ req[q].pc # "cidr"

\* The database of the stack s has the password of a request on s.
Based(s) == \E q \in Reqs : Settled(q) /\ req[q].stack = s /\ sql[s] = req[q].pass

\* The request r knows the host of the database of s, or has some excuse.
Hosted(r, s) == req[r].host \/ req[r].tries = 0 \/ cf[s] = "FAILED"

\* Steps of a request on a stack that has a database; and those with the charts.
Deploys == {"services", "stream", "lb", "dns", "save"}
Uses    == {"sql", "files", "gke"} \cup Deploys

Knows(r) ==
  /\ req[r].pc = "apply"    => file[On(r)] # None
  /\ req[r].pc = "applying" => req[r].tf \in Reqs /\ Settled(req[r].tf) /\ req[req[r].tf].stack = On(r)
  /\ req[r].pc \in Uses     => Based(On(r))
  /\ req[r].pc = "outputs"  => req[r].tries = 0 \/ cf[On(r)] \in {"COMPLETE", "FAILED"}
  /\ req[r].pc \in {"files", "gke"} => req[r].host
  /\ req[r].pc \in Deploys  => Hosted(r, On(r))

\* The services of the stack s are those of the request k.
Serves(k, s) ==
  /\ Settled(k) /\ req[k].stack = s /\ req[k].pc \in Deploys \cup {"done"}
  /\ Based(s) /\ Hosted(k, s)

Rendered(s) == file[s] # None => Settled(file[s]) /\ req[file[s]].stack = s
Served(s)   == kube[s]["services"] # None => Serves(kube[s]["services"], s)

Stack(s) == Rendered(s) /\ (cf[s] # None => Based(s)) /\ Served(s)

Books == (\A r \in Reqs : Knows(r)) /\ (\A s \in Stacks : Stack(s))

\* Who is alone on a stack is the only one at work there, and who works on a
\* stack that is not torn is alone.
Alone ==
  \A r \in Reqs : req[r].pc \in Building =>
    /\ req[r].alone => Working(On(r)) = {r}
    /\ On(r) \notin torn => req[r].alone

\* Who is alone has done what it has done so far, and nobody has changed it.
Advanced(r) ==
  /\ req[r].pc \in {"stream", "lb", "dns", "save"} => kube[On(r)]["services"] = r
  /\ req[r].pc \in {"lb", "dns", "save"} => kube[On(r)]["stream"] = r
  /\ req[r].pc = "save" => dns[On(r)] = "here"

Progress == \A r \in Reqs : req[r].alone => Advanced(r)

Whole(s) ==
  /\ kube[s]["stream"] = kube[s]["services"]
  /\ req[kube[s]["services"]].cloud = "gcp" => saved[s] = kube[s]["services"]
  /\ dns[s] = "here"

\* Until a request on gcp comes to the charts, the stack is as it was.
Before == {"apply", "applying", "sql", "files", "gke"}
Kept ==
  \A s \in Stacks \ torn :
    kube[s]["services"] # None /\ (\A r \in Working(s) : req[r].pc \in Before) => Whole(s)

Tear == Alone /\ Progress /\ Kept
IInv == Typed /\ Books /\ Tear

-----------------------------------------------------------------------------
(* Operators.                                                              *)

Less == {ss \in Nat \X Nat : ss[1] < ss[2]}

LEMMA Smallest ==
  ASSUME NEW S \in SUBSET Nat, S # {}
  PROVE  Min(S) \in S
<1>1. IsWellFoundedOn(Less, Nat)
  BY NatLessThanWellFounded DEF OpToRel, Less
<1>2. PICK x \in S : \A y \in S : <<y, x>> \notin Less
  BY <1>1, WFMin
<1>3. \A y \in S : ~(y < x)
  BY <1>2 DEF Less
<1>4. \E m \in S : \A y \in S : m <= y
  BY <1>3
<1>. QED  BY <1>4 DEF Min

LEMMA TypedOK == Typed => TypeOK
<1>. SUFFICES ASSUME Typed PROVE TypeOK
  OBVIOUS
<1>1. ASSUME NEW r \in Reqs
      PROVE  /\ req[r].pc \in Pcs /\ req[r].stack \in Stacks \cup {None}
             /\ req[r].pc \notin {"idle", "done"} => req[r].stack \in Stacks
             /\ req[r].pc \in Building => req[r].pass \in Stacks \cup {r}
             /\ req[r].tries \in 0..Tries
  <2>1. req[r] \in ReqSet /\ Row(r)
    BY DEF Typed, Rows
  <2>2. req[r].pc \in Pcs /\ req[r].stack \in Stacks \cup {None} /\ req[r].tries \in 0..Tries
    BY <2>1 DEF ReqSet
  <2>3. Building \subseteq Drawn /\ \A step \in Pcs : step \notin {"idle", "done"} => step \in Drawing \cup Drawn
    BY DEF Building, Drawn, Drawing, Pcs
  <2>. QED  BY <2>1, <2>2, <2>3 DEF Row
<1>. QED  BY <1>1 DEF Typed, Shared, TypeOK

LEMMA FailType ==
  ASSUME Typed, Fail \/ Fine
  PROVE  fails' \in 0..MaxFails
BY BoundAssumption DEF Typed, Shared, Fail, Fine

LEMMA IdleType ==
  /\ Idle \in ReqSet /\ Idle.pc = "idle" /\ Idle.pass = None
BY BoundAssumption DEF Idle, ReqSet, Pcs

-----------------------------------------------------------------------------
(* A step of a request.                                                    *)

\* What does not change any more.
Fixed(q) == /\ req'[q].pass = req[q].pass /\ req'[q].name = req[q].name
            /\ req'[q].stack = req[q].stack /\ req'[q].cloud = req[q].cloud

Others(r) == \A q \in Reqs : q # r => req'[q] = [req[q] EXCEPT !.alone = req'[q].alone]

Turn(r, t) == req' = [req EXCEPT ![r] = t]

LEMMA TurnRows ==
  ASSUME Typed, NEW r \in Reqs, req' \in [Reqs -> ReqSet], Others(r), Row(r)', garbled \subseteq garbled'
  PROVE  Rows'
<1>1. ASSUME NEW q \in Reqs, q # r PROVE Row(q)'
  <2>1. req[q] \in ReqSet /\ req'[q] = [req[q] EXCEPT !.alone = req'[q].alone] /\ Row(q)
    BY <1>1 DEF Typed, Rows, Others
  <2>2. req'[q].pc = req[q].pc /\ Fixed(q)
    BY <2>1 DEF ReqSet, Fixed
  <2>. QED  BY <2>1, <2>2 DEF Row, Fixed
<1>. QED  BY <1>1 DEF Rows

\* What a request does before it touches its stack, or its range in the VPC.
Early(r) ==
  /\ req' \in [Reqs -> ReqSet] /\ \A q \in Reqs : q # r => req'[q] = req[q]
  /\ req[r].pc \notin Building \cup {"done"} /\ req'[r].pc \notin Building
  /\ Settled(r) => Settled(r)' /\ Fixed(r)
  /\ UNCHANGED <<file, cf, sql, kube, dns, saved>> /\ torn \subseteq torn'

LEMMA NewEarly ==
  ASSUME Typed, NEW r \in Reqs, Asked(r)
  PROVE  Early(r) /\ Typed'
<1>1. UNCHANGED <<rng, infra, cluster, crashes, garbled, torn>> /\ (Fail \/ Fine) /\ At(r, "idle")
  BY DEF Asked, New, Again, bounds, Fine
<1>2. PICK t \in ReqSet : Turn(r, t) /\ t.pc = "seed" /\ t.pass = None /\ t.stack \in Stacks /\ t.name \in Stacks
  <2>1. ASSUME NEW cloud \in {"gcp", "aws"}, NEW vpc \in BOOLEAN, NEW n \in Names, New(r, cloud, vpc, n)
        PROVE  \E t \in ReqSet : Turn(r, t) /\ t.pc = "seed" /\ t.pass = None /\ t.stack \in Stacks /\ t.name \in Stacks
    <3>. DEFINE t == [Idle EXCEPT !.pc = "seed", !.cloud = cloud, !.vpc = vpc, !.name = n, !.stack = n]
    <3>1. Turn(r, t)
      BY <2>1 DEF New, Turn
    <3>2. n \in Stacks /\ "seed" \in Pcs
      BY DEF Pcs, Stacks
    <3>3. t \in ReqSet
      BY <3>2, IdleType, ZenonT(60) DEF ReqSet
    <3>4. t.pc = "seed" /\ t.pass = None /\ t.stack = n /\ t.name = n
      BY IdleType DEF ReqSet
    <3>. QED  BY <3>1, <3>2, <3>3, <3>4
  <2>2. ASSUME NEW q \in Reqs, Again(r, q)
        PROVE  \E t \in ReqSet : Turn(r, t) /\ t.pc = "seed" /\ t.pass = None /\ t.stack \in Stacks /\ t.name \in Stacks
    <3>1. PICK prev \in {saved[On(q)], None} : req' = [req EXCEPT ![r] =
            [Idle EXCEPT !.pc = "seed", !.cloud = req[q].cloud, !.vpc = req[q].vpc,
                         !.name = On(q), !.stack = On(q),
                         !.pub = IF prev = None THEN None ELSE req[prev].pub,
                         !.ip  = IF prev = None THEN None ELSE req[prev].ip]]
      BY <2>2 DEF Again
    <3>. DEFINE pub == IF prev = None THEN None ELSE req[prev].pub
                ip  == IF prev = None THEN None ELSE req[prev].ip
                t   == [Idle EXCEPT !.pc = "seed", !.cloud = req[q].cloud, !.vpc = req[q].vpc,
                                    !.name = On(q), !.stack = On(q), !.pub = pub, !.ip = ip]
    <3>2. On(q) \in Stacks /\ req[q] \in ReqSet
      BY <2>2 DEF Again, Typed, Rows
    <3>3. prev # None => req[prev] \in ReqSet
      BY <3>2 DEF Typed, Rows, Shared
    <3>4. pub \in Reqs \cup {None} /\ ip \in {"vpc", "own", "0.0.0.0", None}
      BY <3>3 DEF ReqSet
    <3>5. Turn(r, t)
      BY <3>1 DEF Turn
    <3>. HIDE DEF pub, ip
    <3>6. t \in ReqSet
      <4>1. req[q].cloud \in {"gcp", "aws", None} /\ req[q].vpc \in BOOLEAN /\ "seed" \in Pcs
        BY <3>2 DEF ReqSet, Pcs
      <4>2. On(q) \in Stacks \cup {None}
        BY <3>2
      <4>. QED  BY <3>4, <4>1, <4>2, IdleType, ZenonT(60) DEF ReqSet
    <3>7. t.pc = "seed" /\ t.pass = None /\ t.stack = On(q) /\ t.name = On(q)
      BY IdleType DEF ReqSet
    <3>. QED  BY <3>2, <3>5, <3>6, <3>7
  <2>. QED  BY <2>1, <2>2 DEF Asked
<1>3. req' \in [Reqs -> ReqSet] /\ (\A q \in Reqs : q # r => req'[q] = req[q]) /\ req'[r] = t
  BY <1>2 DEF Turn, Typed, Rows
<1>4. Row(r)'
  BY <1>2, <1>3 DEF Row, Drawing, Drawn, OnAws
<1>5. Others(r)
  BY <1>3 DEF Others, Typed, Rows, ReqSet
<1>6. Rows'
  BY <1>1, <1>3, <1>4, <1>5, TurnRows
<1>7. Shared'
  BY <1>1, FailType DEF Typed, Shared, infra, cluster
<1>8. ~Settled(r)
  BY <1>1 DEF Settled, Typed, Rows, Row, At
<1>. QED  BY <1>1, <1>2, <1>3, <1>6, <1>7, <1>8 DEF Early, Typed, infra, cluster, At, Building

LEMMA DrawEarly ==
  ASSUME Typed, NEW r \in Reqs, Seed(r) \/ Draw(r)
  PROVE  Early(r) /\ Typed'
<1>1. UNCHANGED <<infra, cluster, bounds, torn>> /\ req[r].pc \in {"seed", "draw"} /\ rng' \in Reqs \cup {None}
  BY DEF Seed, Draw, At
<1>2. req[r] \in ReqSet /\ req[r].pass = None /\ req[r].stack \in Stacks /\ req[r].name \in Stacks
  BY <1>1 DEF Typed, Rows, Row, Drawing
<1>3. PICK t \in ReqSet :
        /\ Turn(r, t) /\ t.pc \in {"draw", "dns0", "cidr", "render"}
        /\ t.stack = req[r].stack /\ t.name = req[r].name /\ (t.pc = "dns0" => t.cloud = "aws")
        /\ \/ t.pc = "draw" /\ t.pass = None /\ garbled' = garbled
           \/ t.pc # "draw" /\ t.pass = t.name /\ garbled' = garbled
           \/ t.pc # "draw" /\ t.pass = r /\ garbled' = garbled \cup {r}
  <2>1. CASE Seed(r)
    <3>. DEFINE t == [req[r] EXCEPT !.pc = "draw"]
    <3>1. t \in ReqSet /\ Turn(r, t) /\ garbled' = garbled
      BY <1>2, <2>1 DEF Seed, Goto, Turn, ReqSet, Pcs
    <3>2. t.pc = "draw" /\ t.pass = None /\ t.stack = req[r].stack /\ t.name = req[r].name
      BY <1>2 DEF ReqSet
    <3>. QED  BY <3>1, <3>2
  <2>2. ASSUME NEW pass \in {req[r].name, r}, Made(r, pass)
        PROVE  \E t \in ReqSet :
                 /\ Turn(r, t) /\ t.pc \in {"dns0", "cidr", "render"} /\ t.pass = pass
                 /\ t.stack = req[r].stack /\ t.name = req[r].name /\ (t.pc = "dns0" => t.cloud = "aws")
    <3>. DEFINE pub == IF req[r].pub = None THEN r ELSE req[r].pub
                t == [req[r] EXCEPT !.pc = AfterCfg(r), !.pass = pass, !.pub = pub]
    <3>1. AfterCfg(r) \in {"dns0", "cidr", "render"} /\ (AfterCfg(r) = "dns0" => req[r].cloud = "aws")
      BY DEF AfterCfg
    <3>2. pub \in Reqs \cup {None}
      BY <1>2 DEF ReqSet
    <3>3. Turn(r, t)
      BY <2>2 DEF Made, Turn
    <3>. HIDE DEF pub
    <3>4. t \in ReqSet
      <4>1. req[r] \in ReqSet
        BY <1>2
      <4>2. AfterCfg(r) \in Pcs /\ pass \in Stacks \cup Reqs \cup {None}
        BY <1>2, <3>1 DEF Pcs
      <4>. QED  BY <3>2, <4>1, <4>2, ZenonT(60) DEF ReqSet
    <3>5. /\ t.pc = AfterCfg(r) /\ t.pass = pass /\ t.stack = req[r].stack /\ t.name = req[r].name
          /\ t.cloud = req[r].cloud
      BY <1>2 DEF ReqSet
    <3>. QED  BY <3>1, <3>3, <3>4, <3>5
  <2>3. CASE Draw(r)
    <3>1. \/ Made(r, req[r].name) /\ garbled' = garbled
          \/ Made(r, r) /\ garbled' = garbled \cup {r}
      BY <2>3 DEF Draw
    <3>2. CASE Made(r, req[r].name) /\ garbled' = garbled
      BY <2>2, <3>2
    <3>3. CASE Made(r, r) /\ garbled' = garbled \cup {r}
      BY <2>2, <3>3
    <3>. QED  BY <3>1, <3>2, <3>3
  <2>. QED  BY <2>1, <2>3
<1>4. req' \in [Reqs -> ReqSet] /\ (\A q \in Reqs : q # r => req'[q] = req[q]) /\ req'[r] = t
  BY <1>3 DEF Turn, Typed, Rows
<1>5. Row(r)'
  <2>1. t.pass = r => r # None
    BY NoneAssumption
  <2>2. t.pass = t.name => t.pass # None
    BY <1>2, <1>3, NoneAssumption DEF Stacks, Octets
  <2>. QED  BY <1>2, <1>3, <1>4, <2>1, <2>2 DEF Row, Drawing, Drawn, OnAws
<1>6. Others(r)
  BY <1>4 DEF Others, Typed, Rows, ReqSet
<1>7. garbled \subseteq garbled' /\ garbled' \subseteq Reqs
  BY <1>3 DEF Typed, Shared
<1>8. Rows'
  BY <1>4, <1>5, <1>6, <1>7, TurnRows
<1>9. Shared'
  BY <1>1, <1>7 DEF Typed, Shared, infra, cluster, bounds
<1>10. ~Settled(r)
  BY <1>2 DEF Settled
<1>. QED  BY <1>1, <1>3, <1>4, <1>8, <1>9, <1>10 DEF Early, Typed, infra, cluster, Building

\* A request that has its password moves on; nobody else does.
Moves(r) ==
  /\ req' \in [Reqs -> ReqSet] /\ \A q \in Reqs : q # r => req'[q] = req[q]
  /\ Fixed(r)

\* It knows what it knew.
Same(r) == /\ req'[r].host = req[r].host /\ req'[r].tries = req[r].tries
           /\ req'[r].alone = req[r].alone

LEMMA GotoMoves ==
  ASSUME Typed, NEW r \in Reqs, NEW step \in Pcs, Goto(r, step)
  PROVE  Moves(r) /\ Same(r) /\ req'[r].pc = step
<1>1. req \in [Reqs -> ReqSet] /\ req' = [req EXCEPT ![r].pc = step]
  BY DEF Goto, Typed, Rows
<1>. QED  BY <1>1 DEF Moves, Same, Fixed, ReqSet

LEMMA MovesRows ==
  ASSUME Typed, NEW r \in Reqs, Moves(r), req[r].pc \in Drawn, req'[r].pc \in Drawn \cup {"done"},
         req'[r].pc \in OnAws => req[r].pc \in OnAws, garbled' = garbled
  PROVE  Rows'
<1>1. Row(r)'
  BY DEF Moves, Fixed, Typed, Rows, Row, Drawn, Drawing
<1>2. Others(r)
  BY DEF Moves, Others, ReqSet
<1>. QED  BY <1>1, <1>2, TurnRows DEF Moves

\* Who works is settled, on a stack.
LEMMA WorkTypes ==
  ASSUME Typed, NEW r \in Reqs, req[r].pc \in Building
  PROVE  /\ On(r) \in Stacks /\ Settled(r) /\ req[r].pc \in Drawn
         /\ req[r].pass \in Stacks \cup Reqs
<1>1. req[r].pc \in Drawn /\ req[r].pc # "cidr"
  BY DEF Building, Drawn, Drawing, Pcs
<1>2. Row(r)
  BY DEF Typed, Rows
<1>. QED  BY <1>1, <1>2 DEF Row, On, Settled

\* An error, which may leave the stack torn.
LEMMA StopMoves ==
  ASSUME Typed, NEW r \in Reqs, Stop(r)
  PROVE  /\ Moves(r) /\ Same(r) /\ req'[r].pc = "done" /\ fails' \in 0..MaxFails
         /\ torn' \in {torn, torn \cup {On(r)}}
         /\ req[r].pc \in {"services", "stream", "lb"} => torn' = torn \cup {On(r)}
<1>1. Goto(r, "done") /\ "done" \in Pcs /\ fails' \in 0..MaxFails
  BY FailType DEF Stop, Pcs
<1>. QED  BY <1>1, GotoMoves DEF Stop

LEMMA CidrEarly ==
  ASSUME Typed, NEW r \in Reqs, Cidr(r) \/ VpcFiles(r)
  PROVE  Early(r) /\ Typed'
<1>1. UNCHANGED <<rng, infra, cluster, crashes, garbled>> /\ req[r].pc \in {"cidr", "vpcfiles"}
  BY DEF Cidr, VpcFiles, At
<1>2. req[r] \in ReqSet /\ Row(r) /\ req[r].pc \in Drawn
  BY <1>1 DEF Typed, Rows, Drawn, Drawing, Pcs
<1>3. /\ req' \in [Reqs -> ReqSet] /\ \A q \in Reqs : q # r => req'[q] = req[q]
      /\ req'[r].pc \in {"vpcfiles", "render", "done"}
      /\ req'[r].pass = req[r].pass /\ req'[r].name = req[r].name /\ req'[r].stack \in Stacks
      /\ req[r].pc = "vpcfiles" => Fixed(r)
      /\ fails' \in 0..MaxFails /\ torn' \in {torn, torn \cup {On(r)}}
  <2>0. req[r].stack \in Stacks /\ "done" \in Pcs /\ "vpcfiles" \in Pcs /\ "render" \in Pcs
    BY <1>2 DEF Row, Pcs
  <2>1. CASE Stop(r)
    BY <2>0, <2>1, StopMoves DEF Moves, Fixed
  <2>2. CASE Goto(r, "done") /\ Fine /\ UNCHANGED torn
    BY <2>0, <2>2, GotoMoves, FailType DEF Moves, Fixed
  <2>3. CASE /\ Cidr(r) /\ ~(Octets \subseteq subnets) /\ Fine /\ UNCHANGED torn
             /\ req' = [req EXCEPT ![r].pc = "vpcfiles", ![r].stack = Min(Octets \ subnets)]
    <3>. DEFINE m == Min(Octets \ subnets)
    <3>1. m \in Octets
      <4>1. Octets \ subnets \in SUBSET Nat /\ Octets \ subnets # {}
        BY <2>3, BoundAssumption DEF Octets
      <4>. QED  BY <4>1, Smallest
    <3>. HIDE DEF m
    <3>2. m \in Stacks /\ req' = [req EXCEPT ![r].pc = "vpcfiles", ![r].stack = m]
      BY <2>3, <3>1 DEF Stacks, m
    <3>3. req \in [Reqs -> ReqSet] /\ req[r].pc = "cidr"
      BY <2>3 DEF Typed, Rows, Cidr, At
    <3>4. req' \in [Reqs -> ReqSet]
      <4>1. [req[r] EXCEPT !.pc = "vpcfiles", !.stack = m] \in ReqSet
        BY <1>2, <2>0, <3>2 DEF ReqSet
      <4>. QED  BY <3>2, <3>3, <4>1
    <3>5. /\ req'[r].pc = "vpcfiles" /\ req'[r].pass = req[r].pass /\ req'[r].name = req[r].name
          /\ req'[r].stack = m /\ \A q \in Reqs : q # r => req'[q] = req[q]
      BY <3>2, <3>3 DEF ReqSet
    <3>. QED  BY <2>3, <3>2, <3>3, <3>4, <3>5, FailType
  <2>4. CASE VpcFiles(r) /\ req' = [req EXCEPT ![r].pc = "render", ![r].ip = "vpc"] /\ Fine /\ UNCHANGED torn
    <3>1. req \in [Reqs -> ReqSet]
      BY DEF Typed, Rows
    <3>2. req' \in [Reqs -> ReqSet]
      <4>1. [req[r] EXCEPT !.pc = "render", !.ip = "vpc"] \in ReqSet
        BY <1>2, <2>0 DEF ReqSet
      <4>. QED  BY <2>4, <3>1, <4>1
    <3>3. Fixed(r) /\ req'[r].pc = "render" /\ \A q \in Reqs : q # r => req'[q] = req[q]
      BY <2>4, <3>1 DEF ReqSet, Fixed
    <3>. QED  BY <2>0, <2>4, <3>2, <3>3, FailType DEF Fixed
  <2>. QED  BY <2>1, <2>2, <2>3, <2>4 DEF Cidr, VpcFiles
<1>4. Row(r)'
  BY <1>1, <1>2, <1>3 DEF Row, Drawn, Drawing, OnAws
<1>5. Others(r)
  BY <1>3 DEF Others, Typed, Rows, ReqSet
<1>6. Rows'
  BY <1>1, <1>3, <1>4, <1>5, TurnRows
<1>7. On(r) \in Stacks
  BY <1>2 DEF Row, On
<1>8. Shared'
  BY <1>1, <1>3, <1>7 DEF Typed, Shared, infra, cluster
<1>9. Settled(r) => Settled(r)' /\ Fixed(r)
  BY <1>1, <1>3 DEF Settled
<1>. QED  BY <1>1, <1>3, <1>6, <1>8, <1>9 DEF Early, Typed, infra, cluster, Building

-----------------------------------------------------------------------------
(* Before a request works on its stack it changes nothing for the others.  *)

LEMMA EarlyKeeps ==
  ASSUME IInv, NEW r \in Reqs, Early(r), Typed'
  PROVE  IInv'
<1>1. \A q \in Reqs : Settled(q) => Settled(q)' /\ Fixed(q)
  BY DEF Early, Settled, Fixed
<1>2. \A q \in Reqs : req'[q].pc \in Building \/ req[q].pc \in Building => q # r /\ req'[q] = req[q]
  BY DEF Early
<1>3. \A s \in Stacks : Based(s) => Based(s)'
  BY <1>1 DEF Based, Early, Fixed
<1>4. Books'
  <2>1. ASSUME NEW q \in Reqs PROVE Knows(q)'
    <3>1. CASE q = r
      BY <3>1 DEF Early, Knows, Uses, Deploys, Building
    <3>2. CASE q # r
      <4>1. req'[q] = req[q] /\ Knows(q) /\ UNCHANGED <<file, cf>>
        BY <3>2 DEF Early, IInv, Books
      <4>2. req[q].pc \in Building => On(q) \in Stacks
        BY WorkTypes DEF IInv
      <4>3. On(q)' = On(q) /\ (req[q].tf \in Reqs /\ Settled(req[q].tf) => Settled(req[q].tf)' /\ Fixed(req[q].tf))
        BY <1>1, <4>1 DEF On
      <4>4. Uses \subseteq Building
        BY DEF Uses, Deploys, Building
      <4>. QED  BY <1>3, <4>1, <4>2, <4>3, <4>4 DEF Knows, Hosted, Fixed
    <3>. QED  BY <3>1, <3>2
  <2>2. ASSUME NEW s \in Stacks PROVE Stack(s)'
    <3>1. Stack(s) /\ UNCHANGED <<file, cf, kube>>
      BY DEF Early, IInv, Books
    <3>2. file[s] \in Reqs \cup {None} /\ kube[s]["services"] \in Reqs \cup {None}
      BY DEF IInv, Typed, Shared, Charts
    <3>3. Served(s)'
      <4>. SUFFICES ASSUME NEW k \in Reqs, Serves(k, s) PROVE Serves(k, s)'
        BY <3>1, <3>2 DEF Stack, Served, Serves, Settled, Hosted
      <4>1. k # r /\ req'[k] = req[k]
        BY DEF Serves, Early, Deploys, Building
      <4>. QED  BY <1>1, <1>3, <3>1, <4>1 DEF Serves, Hosted
    <3>. QED  BY <1>1, <1>3, <3>1, <3>2, <3>3 DEF Stack, Rendered, Settled, Fixed
  <2>. QED  BY <2>1, <2>2 DEF Books
<1>5. \A s : Working(s)' = Working(s)
  BY <1>2 DEF Working
<1>6. Alone' /\ Progress'
  <2>1. Alone'
    BY <1>2, <1>5 DEF IInv, Tear, Alone, Early, On
  <2>2. Progress'
    BY <1>2 DEF IInv, Tear, Progress, Advanced, Early, Building, On
  <2>. QED  BY <2>1, <2>2
<1>7. Kept'
  <2>. SUFFICES ASSUME NEW s \in Stacks \ torn', kube[s]["services"] # None,
                       \A q \in Working(s)' : req'[q].pc \in Before
                PROVE  Whole(s)'
    BY DEF Kept, Early
  <2>1. \A q \in Working(s) : req[q].pc \in Before
    BY <1>2, <1>5 DEF Working
  <2>2. Whole(s) /\ UNCHANGED <<kube, dns, saved>>
    BY <2>1 DEF IInv, Tear, Kept, Early
  <2>3. kube[s]["services"] \in Reqs /\ Settled(kube[s]["services"])
    BY DEF IInv, Typed, Shared, Charts, Books, Stack, Served, Serves
  <2>. QED  BY <1>1, <2>2, <2>3 DEF Whole, Fixed
<1>. QED  BY <1>4, <1>6, <1>7 DEF IInv, Tear

-----------------------------------------------------------------------------
(* A step of a request that works, or begins to.                           *)

\* What is known of a stack stays known.
Steady(r) ==
  /\ req' \in [Reqs -> ReqSet] /\ Others(r) /\ Fixed(r)
  /\ Settled(r) /\ req'[r].pc # "cidr"
  /\ \A s \in Stacks : sql'[s] = sql[s] \/ Based(s)'

LEMMA SteadyKeeps ==
  ASSUME Typed, NEW r \in Reqs, Steady(r)
  PROVE  /\ \A q \in Reqs : Settled(q) => Settled(q)' /\ Fixed(q)
         /\ \A s \in Stacks : Based(s) => Based(s)'
<1>1. ASSUME NEW q \in Reqs, Settled(q) PROVE Settled(q)' /\ Fixed(q)
  <2>1. CASE q = r
    BY <2>1 DEF Steady, Fixed, Settled
  <2>2. CASE q # r
    <3>1. req[q] \in ReqSet /\ req'[q] = [req[q] EXCEPT !.alone = req'[q].alone]
      BY <2>2 DEF Steady, Others, Typed, Rows
    <3>2. req'[q].pc = req[q].pc /\ Fixed(q)
      BY <3>1 DEF ReqSet, Fixed
    <3>. QED  BY <1>1, <3>2 DEF Settled, Fixed
  <2>. QED  BY <2>1, <2>2
<1>2. ASSUME NEW s \in Stacks, Based(s), sql'[s] = sql[s] PROVE Based(s)'
  BY <1>1, <1>2 DEF Based, Fixed
<1>. QED  BY <1>1, <1>2 DEF Steady

\* What the step of a request may do to the books of the stacks.
Records(r) ==
  /\ \A s \in Stacks : file'[s] = file[s] \/ (file'[s] = r /\ On(r) = s)
  /\ \A s \in Stacks : cf'[s] = cf[s] \/ (cf[s] = None /\ Based(s)')
  /\ \A s \in Stacks : \/ kube'[s]["services"] = kube[s]["services"]
                       \/ kube'[s]["services"] = r /\ On(r) = s /\ req[r].pc \in Deploys
  /\ req[r].pc # "done" /\ req'[r].pc \in Building \cup {"done"}
  /\ req[r].pc \in Deploys => /\ req'[r].host = req[r].host /\ req'[r].tries = req[r].tries
                              /\ req'[r].pc \in Deploys \cup {"done"}

LEMMA RecordsKeep ==
  ASSUME Typed, Books, NEW r \in Reqs, Steady(r), Records(r), Knows(r)'
  PROVE  Books'
<1>1. /\ \A q \in Reqs : Settled(q) => Settled(q)' /\ Fixed(q)
      /\ \A s \in Stacks : Based(s) => Based(s)'
  BY SteadyKeeps
<1>2. ASSUME NEW q \in Reqs, q # r
      PROVE  /\ req'[q].pc = req[q].pc /\ req'[q].host = req[q].host
             /\ req'[q].tries = req[q].tries /\ req'[q].tf = req[q].tf /\ On(q)' = On(q)
  <2>1. req[q] \in ReqSet /\ req'[q] = [req[q] EXCEPT !.alone = req'[q].alone]
    BY <1>2 DEF Steady, Others, Typed, Rows
  <2>. QED  BY <2>1 DEF ReqSet, On
<1>3. \A s \in Stacks : cf[s] # None => cf'[s] = cf[s]
  BY DEF Records
<1>4. ASSUME NEW q \in Reqs, q # r PROVE Knows(q)'
  <2>1. req[q].pc \in Building => On(q) \in Stacks
    BY WorkTypes
  <2>2. Uses \subseteq Building /\ "apply" \in Building /\ "outputs" \in Building
    BY DEF Uses, Deploys, Building
  <2>3. ASSUME On(q) \in Stacks
        PROVE  /\ file[On(q)] # None => file'[On(q)] # None
               /\ Based(On(q)) => Based(On(q))'
               /\ cf[On(q)] \in {"COMPLETE", "FAILED"} => cf'[On(q)] = cf[On(q)]
    <3>. PICK s \in Stacks : s = On(q) /\ s = On(q)'
      BY <1>2, <1>4, <2>3
    <3>1. file[s] # None => file'[s] # None
      BY NoneAssumption DEF Records
    <3>2. Based(s) => Based(On(q))'
      BY <1>1 DEF Based
    <3>. QED  BY <1>3, <3>1, <3>2, NoneAssumption
  <2>4. ASSUME req[q].pc = "applying"
        PROVE  req[q].tf \in Reqs /\ Settled(req[q].tf)' /\ req'[req[q].tf].stack = On(q)
    BY <1>1, <1>2, <1>4, <2>4 DEF Books, Knows, Settled, Fixed
  <2>5. Knows(q)
    BY DEF Books
  <2>6. req'[q].pc = "applying" => req'[q].tf \in Reqs /\ Settled(req[q].tf)' /\ req'[req'[q].tf].stack = On(q)'
    BY <1>2, <1>4, <2>4
  <2>7. req'[q].pc = "apply" => file'[On(q)'] # None
    BY <1>2, <1>4, <2>1, <2>2, <2>3, <2>5 DEF Knows
  <2>8. req'[q].pc \in Uses => Based(On(q))'
    BY <1>2, <1>4, <2>1, <2>2, <2>3, <2>5 DEF Knows
  <2>9. req'[q].pc = "outputs" => req'[q].tries = 0 \/ cf'[On(q)'] \in {"COMPLETE", "FAILED"}
    BY <1>2, <1>4, <2>1, <2>2, <2>3, <2>5 DEF Knows
  <2>10. /\ req'[q].pc \in {"files", "gke"} => req'[q].host
         /\ req'[q].pc \in Deploys => Hosted(q, On(q))'
    BY <1>2, <1>4, <2>1, <2>2, <2>3, <2>5 DEF Knows, Hosted, Uses
  <2>. QED  BY <2>6, <2>7, <2>8, <2>9, <2>10 DEF Knows
<1>5. ASSUME NEW s \in Stacks, NEW k \in Reqs, Serves(k, s) PROVE Serves(k, s)'
  <2>1. req'[k].pc \in Deploys \cup {"done"} /\ req'[k].host = req[k].host /\ req'[k].tries = req[k].tries
    BY <1>2, <1>5 DEF Serves, Records
  <2>2. cf[s] = "FAILED" => cf'[s] = "FAILED"
    BY <1>3, NoneAssumption
  <2>. QED  BY <1>1, <1>5, <2>1, <2>2 DEF Serves, Hosted, Fixed
<1>6. ASSUME NEW s \in Stacks PROVE Stack(s)'
  <2>1. Stack(s)
    BY DEF Books
  <2>2. file[s] \in Reqs \cup {None} /\ kube[s]["services"] \in Reqs \cup {None} /\ r # None
    BY NoneAssumption DEF Typed, Shared, Charts
  <2>3. Rendered(s)'
    <3>1. CASE file'[s] = file[s]
      BY <1>1, <2>1, <2>2, <3>1 DEF Stack, Rendered, Fixed, Settled
    <3>2. CASE file'[s] = r /\ On(r) = s
      BY <1>1, <3>2 DEF Steady, Rendered, Fixed, On, Settled
    <3>. QED  BY <3>1, <3>2 DEF Records
  <2>4. cf'[s] # None => Based(s)'
    BY <1>1, <2>1 DEF Records, Stack
  <2>5. Served(s)'
    <3>1. CASE kube'[s]["services"] = kube[s]["services"]
      <4>1. CASE kube[s]["services"] = None
        BY <3>1, <4>1 DEF Served
      <4>2. CASE kube[s]["services"] # None
        <5>. PICK k \in Reqs : k = kube[s]["services"] /\ k = kube'[s]["services"]
          BY <2>2, <3>1, <4>2
        <5>. QED  BY <1>5, <2>1, <4>2 DEF Stack, Served, Serves, Settled, Hosted, Fixed
      <4>. QED  BY <4>1, <4>2
    <3>2. CASE kube'[s]["services"] = r /\ On(r) = s /\ req[r].pc \in Deploys
      <4>1. Serves(r, s)
        BY <3>2 DEF Books, Knows, Serves, Steady, Uses, On
      <4>. QED  BY <1>5, <3>2, <4>1 DEF Served, Serves, Settled, Hosted
    <3>. QED  BY <3>1, <3>2 DEF Records
  <2>. QED  BY <2>3, <2>4, <2>5 DEF Stack
<1>. QED  BY <1>4, <1>6 DEF Books

\* What the step of a request at work may do to the stack, and to what is said
\* of it: a stack that is not torn stays whole, or is whole again.
Mends(r) ==
  /\ torn' \subseteq torn \cup {On(r)} /\ torn \subseteq torn' \cup {On(r)}
  /\ \A s \in Stacks : s # On(r) => kube'[s] = kube[s] /\ dns'[s] = dns[s] /\ saved'[s] = saved[s]
  /\ req'[r].alone => req[r].alone
  /\ req'[r].pc # "done" =>
       /\ On(r) \in torn => On(r) \in torn'
       /\ On(r) \notin torn' => req'[r].alone = req[r].alone
       /\ req'[r].pc \in Before => req[r].pc \in Before /\ UNCHANGED <<kube, dns, saved>>
  /\ req'[r].alone => Advanced(r)'
  /\ req'[r].pc = "done" /\ On(r) \notin torn' =>
       \/ On(r) \notin torn /\ req[r].pc \in Before /\ UNCHANGED <<kube, dns, saved>>
       \/ req[r].alone /\ Whole(On(r))'

LEMMA MendsTear ==
  ASSUME Typed, Books, Tear, NEW r \in Reqs, Moves(r), req[r].pc \in Building,
         req'[r].pc \in Building \cup {"done"}, Mends(r)
  PROVE  Tear'
<1>. DEFINE s0 == On(r)
<1>1. /\ \A q \in Reqs : q # r => req'[q] = req[q]
      /\ \A q \in Reqs : On(q)' = On(q) /\ req'[q].cloud = req[q].cloud
  BY DEF Moves, Fixed, On
<1>2. s0 \in Stacks /\ r \in Working(s0)
  BY WorkTypes DEF Working, On
<1>3. /\ \A s : s # s0 => Working(s)' = Working(s)
      /\ Working(s0)' = IF req'[r].pc = "done" THEN Working(s0) \ {r} ELSE Working(s0)
  BY <1>1 DEF Working, On, Building
<1>4. s0 \in torn /\ s0 \notin torn' => req[r].alone
  BY DEF Mends
<1>5. Alone'
  <2>. SUFFICES ASSUME NEW q \in Reqs, req'[q].pc \in Building
                PROVE  /\ req'[q].alone => Working(On(q))' = {q}
                       /\ On(q) \notin torn' => req'[q].alone
    BY <1>1 DEF Alone
  <2>1. CASE q = r
    <3>1. req'[r].pc # "done"
      BY <2>1 DEF Building
    <3>. QED  BY <1>1, <1>3, <2>1, <3>1 DEF Mends, Tear, Alone
  <2>2. CASE q # r
    <3>1. req'[q] = req[q] /\ req[q].pc \in Building /\ On(q) \in Stacks
      BY <1>1, <2>2, WorkTypes
    <3>2. CASE On(q) # s0
      <4>1. On(q) \notin torn' => On(q) \notin torn
        BY <3>2 DEF Mends
      <4>2. Working(On(q))' = Working(On(q))
        BY <1>1, <1>3, <3>2 DEF Working
      <4>. QED  BY <1>1, <3>1, <4>1, <4>2 DEF Tear, Alone
    <3>3. CASE On(q) = s0
      <4>1. q \in Working(s0) /\ r \in Working(s0)
        BY <1>2, <3>1, <3>3 DEF Working, On
      <4>2. ~req[q].alone /\ ~req[r].alone
        BY <2>2, <3>1, <3>3, <4>1 DEF Tear, Alone
      <4>. QED  BY <1>4, <3>1, <3>3, <4>2 DEF Tear, Alone
    <3>. QED  BY <3>2, <3>3
  <2>. QED  BY <2>1, <2>2
<1>6. Progress'
  <2>. SUFFICES ASSUME NEW q \in Reqs, req'[q].alone PROVE Advanced(q)'
    BY DEF Progress
  <2>1. CASE q = r
    BY <2>1 DEF Mends
  <2>2. CASE q # r
    <3>1. req'[q] = req[q] /\ Advanced(q)
      BY <1>1, <2>2 DEF Tear, Progress
    <3>2. CASE req[q].pc \in Building
      <4>1. On(q) # s0 /\ On(q) \in Stacks
        BY <1>2, <2>2, <3>1, <3>2, WorkTypes DEF Tear, Alone
      <4>2. kube'[On(q)] = kube[On(q)] /\ dns'[On(q)] = dns[On(q)]
        BY <4>1 DEF Mends
      <4>. QED  BY <1>1, <3>1, <4>2 DEF Advanced
    <3>3. CASE req[q].pc \notin Building
      BY <3>1, <3>3 DEF Advanced, Building
    <3>. QED  BY <3>2, <3>3
  <2>. QED  BY <2>1, <2>2
<1>7. Kept'
  <2>. SUFFICES ASSUME NEW s \in Stacks \ torn', kube'[s]["services"] # None,
                       \A q \in Working(s)' : req'[q].pc \in Before
                PROVE  Whole(s)'
    BY DEF Kept
  <2>1. ASSUME UNCHANGED <<kube[s], dns[s], saved[s]>>, s \notin torn,
               \A q \in Working(s) : req[q].pc \in Before
        PROVE  Whole(s)'
    <3>1. Whole(s) /\ kube[s]["services"] \in Reqs
      BY <2>1 DEF Tear, Kept, Typed, Shared, Charts
    <3>. QED  BY <1>1, <2>1, <3>1 DEF Whole
  <2>2. CASE s # s0
    <3>1. s \notin torn /\ UNCHANGED <<kube[s], dns[s], saved[s]>>
      BY <2>2 DEF Mends
    <3>2. \A q \in Working(s) : q \in Working(s)' /\ q # r
      BY <1>3, <2>2 DEF Working, On
    <3>3. \A q \in Working(s) : q \in Reqs
      BY DEF Working
    <3>. QED  BY <1>1, <2>1, <3>1, <3>2, <3>3
  <2>3. CASE s = s0 /\ req'[r].pc # "done"
    <3>0. req'[r].pc \in Before
      <4>1. req'[r].stack = s /\ req'[r].pc \in Building
        BY <1>1, <2>3 DEF On
      <4>. QED  BY <4>1 DEF Working
    <3>1. req[r].pc \in Before /\ UNCHANGED <<kube, dns, saved>> /\ s \notin torn
      BY <2>3, <3>0 DEF Mends
    <3>2. \A q \in Working(s) : q = r \/ (q \in Reqs /\ q # r /\ q \in Working(s)')
      BY <1>3, <2>3 DEF Working
    <3>. QED  BY <1>1, <2>1, <3>1, <3>2
  <2>4. CASE s = s0 /\ req'[r].pc = "done"
    <3>1. CASE s \notin torn /\ req[r].pc \in Before /\ UNCHANGED <<kube, dns, saved>>
      <4>1. ASSUME NEW q \in Working(s), q # r PROVE q \in Reqs /\ q \in Working(s)'
        BY <1>1, <4>1 DEF Working
      <4>. QED  BY <1>1, <2>1, <3>1, <4>1
    <3>2. CASE Whole(s0)'
      BY <1>1, <2>4, <3>2 DEF Whole
    <3>. QED  BY <2>4, <3>1, <3>2 DEF Mends
  <2>. QED  BY <2>2, <2>3, <2>4
<1>. QED  BY <1>5, <1>6, <1>7 DEF Tear

LEMMA WorkSteady ==
  ASSUME Typed, NEW r \in Reqs, Moves(r), req[r].pc \in Building, req'[r].pc \in Building \cup {"done"},
         \A s \in Stacks : sql'[s] = sql[s] \/ Based(s)'
  PROVE  Steady(r)
<1>1. Settled(r) /\ req'[r].pc # "cidr"
  BY WorkTypes DEF Building
<1>2. Others(r)
  BY DEF Moves, Others, ReqSet
<1>. QED  BY <1>1, <1>2 DEF Steady, Moves

\* What there is to show of a step of a request at work.
LEMMA WorkKeeps ==
  ASSUME IInv, NEW r \in Reqs, Moves(r), req[r].pc \in Building, req'[r].pc \in Building \cup {"done"},
         req'[r].pc \in OnAws => req[r].pc \in OnAws, garbled' = garbled, Shared',
         \A s \in Stacks : sql'[s] = sql[s] \/ Based(s)',
         Records(r), Knows(r)', Mends(r)
  PROVE  IInv'
<1>1. Rows'
  <2>1. Building \subseteq Drawn
    BY DEF Building, Drawn, Drawing, Pcs
  <2>. QED  BY <2>1, MovesRows DEF IInv
<1>2. Books'
  BY WorkSteady, RecordsKeep DEF IInv
<1>3. Tear'
  BY MendsTear DEF IInv
<1>. QED  BY <1>1, <1>2, <1>3 DEF IInv, Typed

\* Most steps leave the books alone.
Quiet == UNCHANGED <<file, cf, sql, kube, dns, saved, garbled>>

LEMMA QuietRecords ==
  ASSUME NEW r \in Reqs, Quiet, req[r].pc \in Building, req'[r].pc \in Building \cup {"done"},
         req[r].pc \in Deploys => Same(r) /\ req'[r].pc \in Deploys \cup {"done"}
  PROVE  Records(r)
BY DEF Quiet, Records, Same, Building

\* A request that ends, without more than that, before it comes to the charts or
\* with the stack torn.
LEMMA EndKeeps ==
  ASSUME IInv, NEW r \in Reqs, Moves(r), Same(r), req[r].pc \in Building, req'[r].pc = "done",
         UNCHANGED <<file, cf, kube, dns, saved, garbled>>, Shared',
         \A s \in Stacks : sql'[s] = sql[s] \/ Based(s)',
         (torn' = torn /\ req[r].pc \in Before) \/ torn' = torn \cup {On(r)}
  PROVE  IInv'
<1>1. Records(r)
  BY DEF Records, Same, Building
<1>2. Knows(r)'
  BY DEF Knows, Uses, Deploys
<1>3. Mends(r)
  BY DEF Mends, Same, Advanced, Before
<1>. QED  BY <1>1, <1>2, <1>3, WorkKeeps DEF OnAws

LEMMA StopKeeps ==
  ASSUME IInv, NEW r \in Reqs, Stop(r), UNCHANGED <<rng, file, cf, kube, dns, saved, crashes, garbled>>,
         req[r].pc \in {"apply", "applying", "sql", "gke", "services", "stream", "lb", "outputs"},
         lock' \in [Stacks -> Reqs \cup {None}], subnets' \subseteq Octets,
         sql' \in [Stacks -> Stacks \cup Reqs \cup {None}],
         \A s \in Stacks : sql'[s] = sql[s] \/ Based(s)'
  PROVE  IInv'
<1>1. /\ Moves(r) /\ Same(r) /\ req'[r].pc = "done" /\ fails' \in 0..MaxFails
      /\ torn' \in {torn, torn \cup {On(r)}}
  BY StopMoves DEF IInv
<1>2. req[r].pc \in Building
  BY DEF Building
<1>3. (torn' = torn /\ req[r].pc \in Before) \/ torn' = torn \cup {On(r)}
  <2>1. req[r].pc = "outputs" => req[r].cloud = "aws"
    BY DEF IInv, Typed, Rows, Row, OnAws
  <2>. QED  BY <1>1, <2>1 DEF Before, Stop
<1>4. Shared'
  BY <1>1, <1>2, WorkTypes DEF IInv, Typed, Shared
<1>. QED  BY <1>1, <1>2, <1>3, <1>4, EndKeeps

-----------------------------------------------------------------------------
(* Terraform.                                                              *)

LEMMA QuietSql ==
  ASSUME Quiet
  PROVE  \A s \in Stacks : sql'[s] = sql[s] \/ Based(s)'
BY DEF Quiet

\* What a quiet step that goes on has to show.
LEMMA OnKeeps ==
  ASSUME IInv, NEW r \in Reqs, Moves(r), Quiet, req[r].pc \in Building, req'[r].pc \in Building,
         req'[r].pc \in OnAws => req[r].pc \in OnAws,
         req[r].pc \in Deploys => Same(r) /\ req'[r].pc \in Deploys,
         req'[r].alone = req[r].alone, torn' = torn,
         req'[r].pc \in Before => req[r].pc \in Before,
         req'[r].pc \in Deploys /\ req'[r].alone => Advanced(r)',
         Shared', Knows(r)'
  PROVE  IInv'
<1>1. Mends(r)
  <2>1. req'[r].alone => Advanced(r)'
    BY DEF Advanced, Deploys
  <2>2. req'[r].pc # "done"
    BY DEF Building
  <2>. QED  BY <2>1, <2>2 DEF Mends, Quiet
<1>2. Records(r)
  BY QuietRecords
<1>3. garbled' = garbled
  BY DEF Quiet
<1>. QED  BY <1>1, <1>2, <1>3, QuietSql, WorkKeeps

LEMMA TfBeginKeeps ==
  ASSUME IInv, NEW r \in Reqs, TfBegin(r)
  PROVE  IInv'
<1>1. UNCHANGED <<rng, file, subnets, cf, sql, cluster, crashes, garbled>> /\ req[r].pc = "apply"
  BY DEF TfBegin, At
<1>2. req[r].pc \in Building /\ Quiet /\ req[r] \in ReqSet /\ req \in [Reqs -> ReqSet]
  BY <1>1 DEF Building, Quiet, cluster, IInv, Typed, Rows
<1>3. On(r) \in Stacks /\ Settled(r)
  BY <1>2, WorkTypes DEF IInv
<1>4. CASE Stop(r) /\ UNCHANGED lock
  <2>1. Shared
    BY DEF IInv, Typed
  <2>. QED  BY <1>1, <1>2, <1>4, <2>1, QuietSql, StopKeeps DEF Shared, cluster
<1>5. CASE Goto(r, "done") /\ Fine /\ UNCHANGED <<lock, torn>>
  <2>1. Moves(r) /\ Same(r) /\ req'[r].pc = "done"
    BY <1>5, GotoMoves DEF IInv, Pcs
  <2>2. Shared'
    BY <1>1, <1>5, FailType DEF IInv, Typed, Shared, cluster
  <2>3. UNCHANGED <<file, cf, kube, dns, saved, garbled>> /\ torn' = torn /\ req[r].pc \in Before
    BY <1>1, <1>5 DEF cluster, Before
  <2>. QED  BY <1>2, <2>1, <2>2, <2>3, QuietSql, EndKeeps
<1>6. CASE /\ lock' = [lock EXCEPT ![On(r)] = r]
           /\ req' = [req EXCEPT ![r].pc = "applying", ![r].tf = file[On(r)]]
           /\ Fine /\ UNCHANGED torn
  <2>1. PICK f \in Reqs : f = file[On(r)] /\ Settled(f) /\ req[f].stack = On(r)
    <3>1. file[On(r)] # None
      BY <1>1 DEF IInv, Books, Knows
    <3>. QED  BY <1>3, <3>1 DEF IInv, Books, Stack, Rendered, Typed, Shared
  <2>2. req' = [req EXCEPT ![r] = [req[r] EXCEPT !.pc = "applying", !.tf = f]]
    BY <1>2, <1>6, <2>1
  <2>3. [req[r] EXCEPT !.pc = "applying", !.tf = f] \in ReqSet
    BY <1>2, <2>1, ZenonT(60) DEF ReqSet, Pcs, Building
  <2>4. Moves(r) /\ Same(r) /\ req'[r].pc = "applying" /\ req'[r].tf = f
    BY <1>2, <2>2, <2>3 DEF Moves, Same, Fixed, ReqSet
  <2>5. Steady(r)
    BY <1>2, <2>4, QuietSql, WorkSteady DEF IInv, Building
  <2>6. Knows(r)'
    <3>1. Settled(f)' /\ req'[f].stack = On(r) /\ On(r)' = On(r)
      BY <2>1, <2>4, <2>5, SteadyKeeps DEF IInv, Fixed, Moves, On
    <3>. QED  BY <2>4, <3>1 DEF Knows, Settled, Uses, Deploys
  <2>7. Shared'
    BY <1>1, <1>3, <1>6, FailType DEF IInv, Typed, Shared, cluster
  <2>. QED  BY <1>1, <1>2, <1>6, <2>4, <2>6, <2>7, OnKeeps DEF Building, Deploys, Same, OnAws, Before
<1>. QED  BY <1>4, <1>5, <1>6 DEF TfBegin

LEMMA TfEndKeeps ==
  ASSUME IInv, NEW r \in Reqs, TfEnd(r)
  PROVE  IInv'
<1>1. /\ UNCHANGED <<rng, file, cf, cluster, crashes, garbled>> /\ req[r].pc = "applying"
      /\ lock' = [lock EXCEPT ![On(r)] = None]
  BY DEF TfEnd, At
<1>2. req[r].pc \in Building /\ Shared
  BY <1>1 DEF Building, IInv, Typed
<1>3. On(r) \in Stacks /\ Settled(r)
  BY <1>2, WorkTypes DEF IInv
<1>4. PICK f \in Reqs : f = req[r].tf /\ Settled(f) /\ req[f].stack = On(r)
  BY <1>1 DEF IInv, Books, Knows
<1>5. Goto(r, "sql") \/ Stop(r)
  BY DEF TfEnd
<1>6. Moves(r) /\ Same(r) /\ req'[r].pc \in {"sql", "done"} /\ fails' \in 0..MaxFails
  <2>1. "sql" \in Pcs
    BY DEF Pcs, Building
  <2>2. CASE Goto(r, "sql") /\ Fine
    BY <2>1, <2>2, GotoMoves, FailType DEF IInv
  <2>3. CASE Stop(r)
    BY <2>3, StopMoves DEF IInv
  <2>. QED  BY <2>2, <2>3 DEF TfEnd
<1>7. Built(r) => sql' = [sql EXCEPT ![On(r)] = req[f].pass]
  BY <1>4 DEF Built
<1>8. Settled(f)' /\ req'[f].stack = On(r) /\ req'[f].pass = req[f].pass
  <2>1. Fixed(f) /\ (req'[f] = req[f] \/ req'[f].pc \in {"sql", "done"})
    BY <1>6 DEF Moves, Fixed
  <2>. QED  BY <1>4, <2>1 DEF Settled, Fixed
<1>9. \A s \in Stacks : sql'[s] = sql[s] \/ Based(s)'
  <2>1. CASE UNCHANGED sql
    BY <2>1
  <2>2. CASE Built(r)
    <3>1. Built(r) => sql'[On(r)] = req[f].pass
      BY <1>2, <1>3, <1>7 DEF Shared
    <3>2. \A s \in Stacks : s # On(r) => sql'[s] = sql[s]
      BY <1>2, <1>7, <2>2 DEF Shared
    <3>3. Based(req[r].stack)'
      BY <1>8, <2>2, <3>1, <1>6 DEF Based, On, Moves, Fixed
    <3>4. ASSUME NEW s \in Stacks, s = On(r) PROVE Based(s)'
      BY <1>8, <2>2, <3>1, <3>4 DEF Based
    <3>. QED  BY <3>2, <3>4
  <2>. QED  BY <2>1, <2>2 DEF TfEnd
<1>10. /\ lock' \in [Stacks -> Reqs \cup {None}] /\ subnets' \subseteq Octets
       /\ sql' \in [Stacks -> Stacks \cup Reqs \cup {None}]
  <2>1. req[f].pass \in Stacks \cup Reqs \cup {None}
    BY DEF IInv, Typed, Rows, ReqSet
  <2>. QED  BY <1>1, <1>2, <1>3, <1>7, <2>1 DEF TfEnd, Built, Shared
<1>11. CASE Stop(r)
  BY <1>1, <1>9, <1>10, <1>11, StopKeeps DEF cluster
<1>12. CASE Built(r) /\ Goto(r, "sql") /\ UNCHANGED torn
  <2>1. req'[r].pc = "sql"
    BY <1>12, GotoMoves DEF IInv, Pcs, Building
  <2>2. Knows(r)'
    <3>1. sql'[On(r)] = req[f].pass /\ On(r)' = On(r)
      BY <1>2, <1>3, <1>6, <1>7, <1>12 DEF Shared, Moves, Fixed, On
    <3>2. Based(On(r))'
      BY <1>8, <3>1 DEF Based
    <3>. QED  BY <2>1, <3>2 DEF Knows, Deploys
  <2>3. Records(r)
    BY <1>1, <2>1 DEF Records, cluster, Building, Deploys
  <2>4. Mends(r)
    BY <1>1, <1>6, <1>12, <2>1 DEF Mends, Same, Before, Advanced, cluster
  <2>5. Shared'
    BY <1>1, <1>2, <1>6, <1>10, <1>12 DEF Shared, cluster
  <2>6. "sql" \in Building /\ "sql" \notin OnAws /\ garbled' = garbled
    BY <1>1 DEF Building, OnAws
  <2>. QED  BY <1>2, <1>6, <1>9, <2>1, <2>2, <2>3, <2>4, <2>5, <2>6, WorkKeeps
<1>. QED  BY <1>11, <1>12 DEF TfEnd

\* A quiet step to pc, at most with a host, an address or a try less.
LEMMA FieldMoves ==
  ASSUME Typed, NEW r \in Reqs, NEW t \in ReqSet, req' = [req EXCEPT ![r] = t],
         t.pass = req[r].pass, t.name = req[r].name, t.stack = req[r].stack, t.cloud = req[r].cloud
  PROVE  Moves(r) /\ req'[r] = t
<1>1. req \in [Reqs -> ReqSet]
  BY DEF Typed, Rows
<1>. QED  BY <1>1 DEF Moves, Fixed

LEMMA QuietShared ==
  ASSUME Typed, UNCHANGED <<rng, infra, cluster, crashes, garbled, torn>>, Fail \/ Fine
  PROVE  Shared' /\ Quiet
BY FailType DEF Typed, Shared, Quiet, infra, cluster

LEMMA InfraStop ==
  ASSUME IInv, NEW r \in Reqs, Stop(r), UNCHANGED <<rng, infra, cluster, crashes, garbled>>,
         req[r].pc \in {"apply", "applying", "sql", "gke", "services", "stream", "lb", "outputs"}
  PROVE  IInv'
<1>1. Shared
  BY DEF IInv, Typed
<1>. QED  BY <1>1, StopKeeps DEF Shared, infra, cluster

LEMMA StaysBased ==
  ASSUME Typed, NEW r \in Reqs, Moves(r), req[r].pc \in Building, req'[r].pc \in Building \cup {"done"},
         \A s \in Stacks : sql'[s] = sql[s] \/ Based(s)', Based(On(r))
  PROVE  Based(On(r))'
<1>1. PICK s \in Stacks : s = On(r) /\ s = On(r)'
  BY WorkTypes DEF Moves, Fixed, On
<1>2. Based(s) => Based(s)'
  BY WorkSteady, SteadyKeeps
<1>. QED  BY <1>1, <1>2 DEF Based

LEMMA PcFacts ==
  /\ Building \subseteq Pcs /\ "done" \in Pcs /\ Deploys \subseteq Uses /\ Uses \subseteq Building
  /\ OnAws \cap Uses = {} /\ Before \subseteq Building
BY DEF Building, Pcs, Deploys, Uses, OnAws, Before

LEMMA GkeKeeps ==
  ASSUME IInv, NEW r \in Reqs, SqlIps(r) \/ Filestore(r) \/ Gke(r)
  PROVE  IInv'
<1>1. UNCHANGED <<rng, infra, cluster, crashes, garbled>> /\ req[r].pc \in {"sql", "files", "gke"}
  BY DEF SqlIps, Filestore, Gke, At
<1>2. /\ req[r].pc \in Building /\ req[r].pc \in Uses /\ req[r].pc \in Before /\ req[r].pc \notin Deploys
      /\ req[r] \in ReqSet
  BY <1>1 DEF Building, Uses, Before, Deploys, IInv, Typed, Rows
<1>3. CASE Stop(r)
  <2>1. ~Filestore(r)
    <3>1. req'[r].pc = "done"
      BY <1>3, StopMoves DEF IInv
    <3>2. Filestore(r) => req'[r].pc = "gke"
      BY <1>2 DEF Filestore, Goto, IInv, Typed, Rows, ReqSet
    <3>. QED  BY <3>1, <3>2
  <2>2. req[r].pc \in {"sql", "gke"}
    BY <2>1 DEF SqlIps, Gke, At
  <2>. QED  BY <1>1, <1>3, <2>2, InfraStop
<1>4. CASE ~Stop(r)
  <2>1. PICK t \in ReqSet :
          /\ req' = [req EXCEPT ![r] = t] /\ t.pass = req[r].pass /\ t.name = req[r].name
          /\ t.stack = req[r].stack /\ t.cloud = req[r].cloud
          /\ t.alone = req[r].alone /\ t.tries = req[r].tries
          /\ t.pc \in {"files", "gke", "services"} /\ t.host
    <3>1. CASE SqlIps(r)
      <4>. DEFINE t == [req[r] EXCEPT !.pc = "files", !.host = TRUE]
      <4>1. req' = [req EXCEPT ![r] = t]
        BY <1>4, <3>1 DEF SqlIps, IInv, Typed, Rows
      <4>2. t \in ReqSet
        BY <1>2, PcFacts DEF ReqSet, Uses
      <4>3. /\ t.pass = req[r].pass /\ t.name = req[r].name /\ t.stack = req[r].stack
            /\ t.cloud = req[r].cloud /\ t.alone = req[r].alone /\ t.tries = req[r].tries
            /\ t.pc = "files" /\ t.host
        BY <1>2 DEF ReqSet
      <4>. QED  BY <4>1, <4>2, <4>3
    <3>2. ASSUME NEW ip \in {req[r].ip, "own", "0.0.0.0"}, Filestore(r),
                 req' = [req EXCEPT ![r] = [req[r] EXCEPT !.pc = "gke", !.ip = ip]]
          PROVE  \E t \in ReqSet :
                   /\ req' = [req EXCEPT ![r] = t] /\ t.pass = req[r].pass /\ t.name = req[r].name
                   /\ t.stack = req[r].stack /\ t.cloud = req[r].cloud
                   /\ t.alone = req[r].alone /\ t.tries = req[r].tries
                   /\ t.pc = "gke" /\ t.host
      <4>. DEFINE t == [req[r] EXCEPT !.pc = "gke", !.ip = ip]
      <4>1. req[r].host
        BY <3>2 DEF Filestore, At, IInv, Books, Knows
      <4>2. t \in ReqSet
        BY <1>2, PcFacts DEF ReqSet, Uses
      <4>3. /\ t.pass = req[r].pass /\ t.name = req[r].name /\ t.stack = req[r].stack
            /\ t.cloud = req[r].cloud /\ t.alone = req[r].alone /\ t.tries = req[r].tries
            /\ t.pc = "gke" /\ t.host
        BY <1>2, <4>1 DEF ReqSet
      <4>. QED  BY <3>2, <4>2, <4>3
    <3>3. CASE Filestore(r)
      <4>1. req \in [Reqs -> ReqSet] /\ [req[r] EXCEPT !.pc = "gke"] = [req[r] EXCEPT !.pc = "gke", !.ip = req[r].ip]
        BY DEF IInv, Typed, Rows, ReqSet
      <4>2. \E ip \in {req[r].ip, "own", "0.0.0.0"} :
              req' = [req EXCEPT ![r] = [req[r] EXCEPT !.pc = "gke", !.ip = ip]]
        BY <3>3, <4>1 DEF Filestore, Goto
      <4>. QED  BY <3>2, <3>3, <4>2
    <3>4. CASE Gke(r)
      <4>. DEFINE t == [req[r] EXCEPT !.pc = "services"]
      <4>1. req' = [req EXCEPT ![r] = t] /\ req[r].host
        BY <1>4, <3>4 DEF Gke, Goto, At, IInv, Books, Knows
      <4>2. t \in ReqSet
        BY <1>2, PcFacts DEF ReqSet, Uses, Deploys
      <4>3. /\ t.pass = req[r].pass /\ t.name = req[r].name /\ t.stack = req[r].stack
            /\ t.cloud = req[r].cloud /\ t.alone = req[r].alone /\ t.tries = req[r].tries
            /\ t.pc = "services" /\ t.host
        BY <1>2, <4>1 DEF ReqSet
      <4>. QED  BY <4>1, <4>2, <4>3
    <3>. QED  BY <3>1, <3>3, <3>4
  <2>2. Moves(r) /\ req'[r] = t
    BY <2>1, FieldMoves DEF IInv
  <2>3. UNCHANGED torn /\ (Fail \/ Fine)
    BY <1>4 DEF SqlIps, Filestore, Gke
  <2>4. Shared' /\ Quiet
    BY <1>1, <2>3, QuietShared DEF IInv
  <2>5. req'[r].pc \in Building
    BY <2>1, <2>2 DEF Building
  <2>6. Knows(r)'
    <3>1. Based(On(r))
      BY <1>2 DEF IInv, Books, Knows
    <3>2. Based(On(r))'
      BY <1>2, <2>2, <2>4, <2>5, <3>1, QuietSql, StaysBased DEF IInv
    <3>. QED  BY <2>1, <2>2, <3>2 DEF Knows, Hosted
  <2>7. /\ req'[r].pc \in Deploys /\ req'[r].alone => Advanced(r)'
        /\ req'[r].pc \notin OnAws /\ req'[r].alone = req[r].alone
    BY <2>1, <2>2 DEF Advanced, OnAws
  <2>. QED  BY <1>2, <2>2, <2>3, <2>4, <2>5, <2>6, <2>7, OnKeeps
<1>. QED  BY <1>3, <1>4

-----------------------------------------------------------------------------
(* CloudFormation.                                                         *)

LEMMA CfCreateKeeps ==
  ASSUME IInv, NEW r \in Reqs, CfCreate(r)
  PROVE  IInv'
<1>1. /\ UNCHANGED <<rng, file, lock, subnets, cluster, crashes, garbled, torn>>
      /\ req[r].pc = "create" /\ Goto(r, "poll") /\ Shared
  BY DEF CfCreate, At, IInv, Typed
<1>2. req[r].pc \in Building /\ "poll" \in Building /\ req[r].pc \notin Deploys
  BY <1>1 DEF Building, Deploys
<1>3. Moves(r) /\ Same(r) /\ req'[r].pc = "poll"
  BY <1>1, <1>2, PcFacts, GotoMoves DEF IInv
<1>4. On(r) \in Stacks /\ Settled(r) /\ req[r].pass \in Stacks \cup Reqs
  BY <1>2, WorkTypes DEF IInv
<1>5. Settled(r)' /\ req'[r].stack = On(r) /\ req'[r].pass = req[r].pass
  BY <1>3, <1>4 DEF Settled, Moves, Fixed, On
<1>6. \/ /\ cf[On(r)] = None /\ cf' = [cf EXCEPT ![On(r)] = "IN_PROGRESS"]
         /\ sql' = [sql EXCEPT ![On(r)] = req[r].pass]
      \/ UNCHANGED <<cf, sql>>
  BY DEF CfCreate
<1>7. \A s \in Stacks : /\ sql'[s] = sql[s] \/ Based(s)'
                        /\ cf'[s] = cf[s] \/ (cf[s] = None /\ Based(s)')
  <2>. SUFFICES ASSUME NEW s \in Stacks, s = On(r), sql'[s] = req[r].pass PROVE Based(s)'
    BY <1>1, <1>4, <1>6 DEF Shared
  <2>. QED  BY <1>5 DEF Based
<1>8. Records(r)
  BY <1>1, <1>2, <1>3, <1>7 DEF Records, cluster
<1>9. Knows(r)'
  BY <1>3 DEF Knows, Uses, Deploys
<1>10. Mends(r)
  BY <1>1, <1>3 DEF Mends, Same, Before, Advanced, cluster
<1>11. Shared'
  <2>1. fails' \in 0..MaxFails
    BY FailType DEF CfCreate, IInv
  <2>2. cf' \in [Stacks -> {None, "IN_PROGRESS", "COMPLETE", "FAILED"}]
        /\ sql' \in [Stacks -> Stacks \cup Reqs \cup {None}]
    BY <1>1, <1>4, <1>6 DEF Shared
  <2>. QED  BY <1>1, <2>1, <2>2 DEF Shared, cluster
<1>12. req[r].pc \in OnAws /\ garbled' = garbled
  BY <1>1 DEF OnAws
<1>. QED  BY <1>2, <1>3, <1>7, <1>8, <1>9, <1>10, <1>11, <1>12, WorkKeeps

LEMMA PollKeeps ==
  ASSUME IInv, NEW r \in Reqs, Poll(r)
  PROVE  IInv'
<1>1. UNCHANGED <<rng, infra, cluster, crashes, garbled, torn>> /\ req[r].pc = "poll" /\ (Fail \/ Fine)
  BY DEF Poll, At
<1>2. /\ req[r].pc \in Building /\ req[r].pc \notin Deploys /\ req[r].pc \in OnAws
      /\ req \in [Reqs -> ReqSet] /\ req[r] \in ReqSet /\ "outputs" \in Pcs /\ "outputs" \in Building
  BY <1>1 DEF Building, Deploys, OnAws, Pcs, IInv, Typed, Rows
<1>3. Shared' /\ Quiet
  BY <1>1, QuietShared DEF IInv
<1>4. /\ Moves(r) /\ req'[r].alone = req[r].alone /\ req'[r].pc \in {"poll", "outputs"}
      /\ req'[r].pc = "outputs" => req'[r].tries = 0 \/ cf[On(r)] \in {"COMPLETE", "FAILED"}
  <2>1. CASE Goto(r, "outputs")
    <3>1. Moves(r) /\ Same(r) /\ req'[r].pc = "outputs"
      BY <1>2, <2>1, GotoMoves DEF IInv
    <3>2. cf[On(r)] \in {"COMPLETE", "FAILED"} \/ req[r].tries = 0
      <4>1. req' # [req EXCEPT ![r].tries = @ - 1]
        BY <1>1, <1>2, <3>1 DEF ReqSet
      <4>. QED  BY <4>1 DEF Poll
    <3>. QED  BY <3>1, <3>2 DEF Same
  <2>2. CASE req[r].tries > 0 /\ req' = [req EXCEPT ![r].tries = @ - 1]
    <3>1. req[r].tries - 1 \in 0..Tries
      BY <1>2, <2>2, BoundAssumption DEF ReqSet
    <3>. DEFINE t == [req[r] EXCEPT !.tries = @ - 1]
    <3>2. t \in ReqSet /\ req' = [req EXCEPT ![r] = t]
      BY <1>2, <2>2, <3>1 DEF ReqSet
    <3>3. /\ t.pass = req[r].pass /\ t.name = req[r].name /\ t.stack = req[r].stack /\ t.cloud = req[r].cloud
          /\ t.alone = req[r].alone /\ t.pc = "poll"
      BY <1>1, <1>2 DEF ReqSet
    <3>. HIDE DEF t
    <3>. QED  BY <3>2, <3>3, FieldMoves DEF IInv
  <2>. QED  BY <2>1, <2>2 DEF Poll
<1>5. Knows(r)'
  <2>1. cf'[On(r)'] = cf[On(r)]
    BY <1>3, <1>4 DEF Quiet, Moves, Fixed, On
  <2>. QED  BY <1>4, <2>1 DEF Knows, Uses, Deploys
<1>6. req'[r].pc \in Building /\ req'[r].pc \notin Before /\ req'[r].pc \notin Deploys
  BY <1>4 DEF Building, Before, Deploys
<1>. QED  BY <1>1, <1>2, <1>3, <1>4, <1>5, <1>6, OnKeeps

LEMMA OutputsKeeps ==
  ASSUME IInv, NEW r \in Reqs, Outputs(r)
  PROVE  IInv'
<1>1. UNCHANGED <<rng, infra, cluster, crashes, garbled>> /\ req[r].pc = "outputs"
  BY DEF Outputs, At
<1>2. /\ req[r].pc \in Building /\ req[r].pc \notin Deploys /\ Shared
      /\ req \in [Reqs -> ReqSet] /\ req[r] \in ReqSet /\ "services" \in Pcs
  BY <1>1 DEF Building, Deploys, Pcs, IInv, Typed, Rows
<1>3. On(r) \in Stacks
  BY <1>2, WorkTypes DEF IInv
<1>4. CASE Stop(r)
  BY <1>1, <1>4, InfraStop
<1>5. CASE Goto(r, "done") /\ torn' = torn \cup {On(r)} /\ Fine
  <2>1. Moves(r) /\ Same(r) /\ req'[r].pc = "done"
    BY <1>5, PcFacts, GotoMoves DEF IInv
  <2>2. Shared'
    BY <1>1, <1>2, <1>3, <1>5, FailType DEF IInv, Shared, infra, cluster
  <2>. QED  BY <1>1, <1>2, <1>5, <2>1, <2>2, EndKeeps DEF infra, cluster
<1>6. CASE /\ cf[On(r)] # None
           /\ req' = [req EXCEPT ![r].pc = "services", ![r].host = cf[On(r)] = "COMPLETE"]
           /\ Fine /\ UNCHANGED torn
  <2>1. PICK host \in BOOLEAN : host <=> cf[On(r)] = "COMPLETE"
    OBVIOUS
  <2>. DEFINE t == [req[r] EXCEPT !.pc = "services", !.host = host]
  <2>2. (cf[On(r)] = "COMPLETE") = host
    BY <2>1
  <2>3. req' = [req EXCEPT ![r] = t]
    BY <1>2, <1>6, <2>2
  <2>4. t \in ReqSet
    BY <1>2 DEF ReqSet
  <2>5. /\ t.pass = req[r].pass /\ t.name = req[r].name /\ t.stack = req[r].stack /\ t.cloud = req[r].cloud
        /\ t.alone = req[r].alone /\ t.tries = req[r].tries /\ t.pc = "services" /\ t.host = host
    BY <1>2 DEF ReqSet
  <2>. HIDE DEF t
  <2>6. Moves(r) /\ req'[r] = t
    BY <2>3, <2>4, <2>5, FieldMoves DEF IInv
  <2>7. Shared' /\ Quiet
    BY <1>1, <1>6, QuietShared DEF IInv
  <2>8. req'[r].pc \in Building /\ req'[r].pc \notin OnAws /\ req'[r].pc \notin Before
    BY <2>5, <2>6 DEF Building, OnAws, Before
  <2>9. Knows(r)'
    <3>1. req[r].tries = 0 \/ cf[On(r)] \in {"COMPLETE", "FAILED"}
      BY <1>1 DEF IInv, Books, Knows
    <3>2. cf'[On(r)'] = cf[On(r)]
      BY <2>6, <2>7 DEF Quiet, Moves, Fixed, On
    <3>3. Hosted(r, On(r))'
      BY <2>1, <2>5, <2>6, <3>1, <3>2 DEF Hosted
    <3>4. Based(On(r))
      BY <1>3, <1>6 DEF IInv, Books, Stack
    <3>5. Based(On(r))'
      BY <1>2, <2>6, <2>7, <2>8, <3>4, QuietSql, StaysBased DEF IInv
    <3>. QED  BY <2>5, <2>6, <3>3, <3>5 DEF Knows
  <2>10. Advanced(r)'
    BY <2>5, <2>6 DEF Advanced
  <2>. QED  BY <1>2, <1>6, <2>5, <2>6, <2>7, <2>8, <2>9, <2>10, OnKeeps
<1>. QED  BY <1>4, <1>5, <1>6 DEF Outputs

-----------------------------------------------------------------------------
(* The charts, the domain and the configuration.                           *)

\* Who comes to the charts knows its stack for the rest of its way.
LEMMA DeploysKnow ==
  ASSUME IInv, NEW r \in Reqs, Moves(r), req[r].pc \in Deploys, req'[r].pc \in Deploys,
         req'[r].host = req[r].host, req'[r].tries = req[r].tries, UNCHANGED <<cf, sql>>
  PROVE  Knows(r)'
<1>1. req[r].pc \in Building /\ req'[r].pc \in Building
  BY PcFacts
<1>2. Based(On(r)) /\ Hosted(r, On(r))
  BY PcFacts DEF IInv, Books, Knows
<1>3. Based(On(r))'
  BY <1>1, <1>2, StaysBased DEF IInv
<1>4. Hosted(r, On(r))'
  BY <1>2 DEF Hosted, Moves, Fixed, On
<1>. QED  BY <1>3, <1>4 DEF Knows, Deploys

LEMMA ChartKeeps ==
  ASSUME IInv, NEW r \in Reqs, NEW c \in Charts, Chart(r, c)
  PROVE  IInv'
<1>1. /\ UNCHANGED <<rng, infra, dns, saved, crashes, garbled>>
      /\ req[r].pc = c /\ c \in {"services", "stream"} /\ Shared
  BY DEF Chart, At, Charts, IInv, Typed
<1>2. req[r].pc \in Deploys /\ req[r].pc \in Building
  BY <1>1, PcFacts DEF Deploys
<1>3. On(r) \in Stacks
  BY <1>2, WorkTypes DEF IInv
<1>4. CASE Stop(r) /\ UNCHANGED kube
  BY <1>1, <1>4, InfraStop DEF cluster
<1>5. CASE kube' = [kube EXCEPT ![On(r)][c] = r] /\ Goto(r, After(c)) /\ Fine /\ UNCHANGED torn
  <2>1. After(c) = (IF c = "services" THEN "stream" ELSE "lb") /\ After(c) \in Deploys
    BY <1>1 DEF After, Deploys
  <2>2. Moves(r) /\ Same(r) /\ req'[r].pc = After(c)
    BY <1>5, <2>1, PcFacts, GotoMoves DEF IInv
  <2>3. /\ kube'[On(r)][c] = r
        /\ \A d \in Charts : d # c => kube'[On(r)][d] = kube[On(r)][d]
        /\ \A s \in Stacks : s # On(r) => kube'[s] = kube[s]
        /\ kube' \in [Stacks -> [Charts -> Reqs \cup {None}]]
    BY <1>1, <1>3, <1>5 DEF Shared
  <2>4. Records(r)
    <3>1. \A s \in Stacks : \/ kube'[s]["services"] = kube[s]["services"]
                            \/ kube'[s]["services"] = r /\ On(r) = s
      BY <2>3 DEF Charts
    <3>. QED  BY <1>1, <1>2, <2>1, <2>2, <3>1, PcFacts DEF Records, Same, infra, Deploys
  <2>5. Knows(r)'
    BY <1>1, <1>2, <2>1, <2>2, DeploysKnow DEF Same, infra
  <2>6. Mends(r)
    <3>1. req'[r].alone => Advanced(r)'
      <4>1. On(r)' = On(r)
        BY <2>2 DEF Moves, Fixed, On
      <4>2. req[r].alone /\ c = "stream" => kube[On(r)]["services"] = r
        BY <1>1 DEF IInv, Tear, Progress, Advanced
      <4>. QED  BY <1>1, <2>1, <2>2, <2>3, <4>1, <4>2 DEF Advanced, Same, Charts
    <3>2. req'[r].pc # "done" /\ req'[r].pc \notin Before
      BY <2>1, <2>2 DEF Before
    <3>3. \A s : s # On(r) => kube'[s] = kube[s]
      BY <1>1, <1>5, <2>3 DEF Shared
    <3>. QED  BY <1>1, <1>5, <2>2, <3>1, <3>2, <3>3 DEF Mends, Same
  <2>7. Shared'
    BY <1>1, <1>5, <2>3, FailType DEF IInv, Shared, infra
  <2>. QED  BY <1>1, <1>2, <2>1, <2>2, <2>4, <2>5, <2>6, <2>7, PcFacts, WorkKeeps DEF infra
<1>. QED  BY <1>4, <1>5 DEF Chart

LEMMA LoadBalancerKeeps ==
  ASSUME IInv, NEW r \in Reqs, LoadBalancer(r)
  PROVE  IInv'
<1>1. UNCHANGED <<rng, infra, cluster, crashes, garbled>> /\ req[r].pc = "lb"
  BY DEF LoadBalancer, At
<1>2. req[r].pc \in Deploys /\ req[r].pc \in Building /\ "dns" \in Deploys
  BY <1>1, PcFacts DEF Deploys
<1>3. CASE Stop(r)
  BY <1>1, <1>3, InfraStop
<1>4. CASE Goto(r, "dns") /\ Fine /\ UNCHANGED torn
  <2>1. Moves(r) /\ Same(r) /\ req'[r].pc = "dns"
    BY <1>2, <1>4, PcFacts, GotoMoves DEF IInv
  <2>2. Shared' /\ Quiet
    BY <1>1, <1>4, QuietShared DEF IInv
  <2>3. Knows(r)'
    BY <1>2, <2>1, <2>2, DeploysKnow DEF Same, Quiet
  <2>4. req'[r].alone => Advanced(r)'
    <3>1. req[r].alone => kube[On(r)]["services"] = r /\ kube[On(r)]["stream"] = r
      BY <1>1 DEF IInv, Tear, Progress, Advanced
    <3>. QED  BY <2>1, <2>2, <3>1 DEF Advanced, Same, Quiet, Moves, Fixed, On
  <2>5. "dns" \in Building /\ "dns" \notin OnAws /\ "dns" \notin Before
    BY DEF Building, OnAws, Before
  <2>. QED  BY <1>2, <1>4, <2>1, <2>2, <2>3, <2>4, <2>5, OnKeeps DEF Same
<1>. QED  BY <1>3, <1>4 DEF LoadBalancer

\* The last step of a request: the stack is whole if the request was alone, and
\* torn already if it was not.
LEMMA EndsMends ==
  ASSUME IInv, NEW r \in Reqs, Ends(r), req[r].pc \in {"dns", "save"},
         \A s \in Stacks : s # On(r) => kube'[s] = kube[s] /\ dns'[s] = dns[s] /\ saved'[s] = saved[s],
         req[r].alone => Whole(On(r))'
  PROVE  Mends(r) /\ Moves(r) /\ Same(r) /\ req'[r].pc = "done"
<1>1. Moves(r) /\ Same(r) /\ req'[r].pc = "done"
  BY PcFacts, GotoMoves DEF Ends, IInv
<1>2. req[r].pc \in Building
  BY DEF Building
<1>3. ~req[r].alone => On(r) \in torn
  BY <1>2 DEF IInv, Tear, Alone
<1>4. torn' = IF req[r].alone THEN torn \ {On(r)} ELSE torn
  BY DEF Ends
<1>5. req'[r].alone => Advanced(r)'
  BY <1>1 DEF Advanced
<1>. QED  BY <1>1, <1>3, <1>4, <1>5 DEF Mends, Same

LEMMA DnsKeeps ==
  ASSUME IInv, NEW r \in Reqs, Dns(r)
  PROVE  IInv'
<1>1. UNCHANGED <<rng, infra, kube, saved, crashes, garbled>> /\ req[r].pc = "dns" /\ Shared
  BY DEF Dns, At, IInv, Typed
<1>2. req[r].pc \in Deploys /\ req[r].pc \in Building /\ "save" \in Deploys
  BY <1>1, PcFacts DEF Deploys
<1>3. On(r) \in Stacks
  BY <1>2, WorkTypes DEF IInv
<1>4. req[r].alone => kube[On(r)]["services"] = r /\ kube[On(r)]["stream"] = r
  BY <1>1 DEF IInv, Tear, Progress, Advanced
<1>5. UNCHANGED <<cf, sql, file>>
  BY <1>1 DEF infra
<1>6. \A s \in Stacks : sql'[s] = sql[s] \/ Based(s)'
  BY <1>5
<1>7. CASE /\ dns' = [dns EXCEPT ![On(r)] = "here"] /\ Fine
           /\ IF req[r].cloud = "aws" THEN Ends(r) ELSE Goto(r, "save") /\ UNCHANGED torn
  <2>1. /\ dns'[On(r)] = "here" /\ \A s \in Stacks : s # On(r) => dns'[s] = dns[s]
        /\ dns' \in [Stacks -> {None, "deploying", "here"}]
    BY <1>1, <1>3, <1>7 DEF Shared
  <2>2. CASE req[r].cloud = "aws" /\ Ends(r)
    <3>1. req[r].alone => Whole(On(r))'
      <4>1. Goto(r, "done") /\ Moves(r)
        BY <2>2, PcFacts, GotoMoves DEF Ends, IInv
      <4>2. On(r)' = On(r) /\ req'[r].cloud = "aws"
        BY <2>2, <4>1 DEF Moves, Fixed, On
      <4>. QED  BY <1>1, <1>4, <2>1, <4>2 DEF Whole
    <3>2. Mends(r) /\ Moves(r) /\ Same(r) /\ req'[r].pc = "done"
      BY <1>1, <2>1, <2>2, <3>1, EndsMends
    <3>3. Records(r)
      BY <1>1, <1>2, <1>5, <3>2 DEF Records, Same, Building
    <3>4. Knows(r)'
      BY <3>2 DEF Knows, Uses, Deploys
    <3>5. Shared'
      BY <1>1, <1>3, <1>7, <2>1, <2>2, FailType DEF IInv, Shared, infra, Ends
    <3>. QED  BY <1>1, <1>2, <1>6, <3>2, <3>3, <3>4, <3>5, WorkKeeps DEF OnAws
  <2>3. CASE Goto(r, "save") /\ UNCHANGED torn
    <3>1. Moves(r) /\ Same(r) /\ req'[r].pc = "save"
      BY <1>2, <2>3, PcFacts, GotoMoves DEF IInv
    <3>2. Knows(r)'
      BY <1>2, <1>5, <3>1, DeploysKnow DEF Same
    <3>3. Records(r)
      BY <1>1, <1>2, <1>5, <3>1, PcFacts DEF Records, Same
    <3>4. req'[r].alone => Advanced(r)'
      BY <1>1, <1>4, <2>1, <3>1 DEF Advanced, Same, Moves, Fixed, On
    <3>5. Mends(r)
      BY <1>1, <2>1, <2>3, <3>1, <3>4 DEF Mends, Same, Before
    <3>6. Shared'
      BY <1>1, <1>7, <2>1, <2>3, FailType DEF IInv, Shared, infra
    <3>. QED  BY <1>1, <1>2, <1>6, <3>1, <3>2, <3>3, <3>5, <3>6, PcFacts, WorkKeeps
  <2>. QED  BY <1>7, <2>2, <2>3
<1>8. CASE /\ Fail /\ torn' = torn \cup {On(r)} /\ UNCHANGED dns
           /\ req' = [req EXCEPT ![r].pc = IF req[r].cloud = "aws" THEN "done" ELSE "save", ![r].alone = FALSE]
  <2>. DEFINE step == IF req[r].cloud = "aws" THEN "done" ELSE "save"
              t == [req[r] EXCEPT !.pc = step, !.alone = FALSE]
  <2>1. req \in [Reqs -> ReqSet] /\ req[r] \in ReqSet /\ step \in {"done", "save"} /\ step \in Pcs
    BY <1>2, PcFacts DEF IInv, Typed, Rows
  <2>2. req' = [req EXCEPT ![r] = t]
    BY <1>8, <2>1
  <2>. HIDE DEF step
  <2>3. t \in ReqSet
    BY <2>1 DEF ReqSet
  <2>4. /\ t.pass = req[r].pass /\ t.name = req[r].name /\ t.stack = req[r].stack /\ t.cloud = req[r].cloud
        /\ t.host = req[r].host /\ t.tries = req[r].tries /\ t.pc = step /\ ~t.alone
    BY <2>1 DEF ReqSet
  <2>. HIDE DEF t
  <2>5. Moves(r) /\ req'[r] = t
    BY <2>2, <2>3, <2>4, FieldMoves DEF IInv
  <2>6. Knows(r)'
    <3>1. CASE req'[r].pc = "done"
      BY <3>1 DEF Knows, Uses, Deploys
    <3>2. CASE req'[r].pc = "save"
      BY <1>2, <1>5, <2>4, <2>5, <3>2, DeploysKnow
    <3>. QED  BY <2>1, <2>4, <2>5, <3>1, <3>2
  <2>7. Mends(r)
    BY <1>1, <1>8, <2>1, <2>4, <2>5 DEF Mends, Before
  <2>8. Shared'
    BY <1>1, <1>3, <1>8, FailType DEF IInv, Shared, infra
  <2>9. /\ \A s \in Stacks : sql'[s] = sql[s] \/ Based(s)'
        /\ req'[r].pc \in Building \cup {"done"} /\ req'[r].pc \notin OnAws /\ req'[r].pc \in Deploys \cup {"done"}
    BY <1>6, <2>1, <2>4, <2>5 DEF Building, OnAws, Deploys
  <2>10. Records(r)
    BY <1>1, <1>2, <1>5, <2>4, <2>5, <2>9 DEF Records, Building
  <2>. QED  BY <1>1, <1>2, <2>5, <2>6, <2>7, <2>8, <2>9, <2>10, WorkKeeps
<1>. QED  BY <1>7, <1>8 DEF Dns

LEMMA SaveKeeps ==
  ASSUME IInv, NEW r \in Reqs, Save(r)
  PROVE  IInv'
<1>1. UNCHANGED <<rng, infra, kube, dns, crashes, garbled>> /\ req[r].pc = "save" /\ Shared
  BY DEF Save, At, IInv, Typed
<1>2. req[r].pc \in Deploys /\ req[r].pc \in Building
  BY <1>1, PcFacts DEF Deploys
<1>3. On(r) \in Stacks
  BY <1>2, WorkTypes DEF IInv
<1>4. CASE saved' = [saved EXCEPT ![On(r)] = r] /\ Ends(r) /\ Fine
  <2>1. /\ saved'[On(r)] = r /\ \A s \in Stacks : s # On(r) => saved'[s] = saved[s]
        /\ saved' \in [Stacks -> Reqs \cup {None}]
    BY <1>1, <1>3, <1>4 DEF Shared
  <2>2. req[r].alone => Whole(On(r))'
    <3>1. Goto(r, "done") /\ Moves(r)
      BY <1>4, PcFacts, GotoMoves DEF Ends, IInv
    <3>2. On(r)' = On(r)
      BY <3>1 DEF Moves, Fixed, On
    <3>3. req[r].alone => kube[On(r)]["services"] = r /\ kube[On(r)]["stream"] = r /\ dns[On(r)] = "here"
      BY <1>1 DEF IInv, Tear, Progress, Advanced
    <3>. QED  BY <1>1, <2>1, <3>2, <3>3 DEF Whole
  <2>3. \A s : s # On(r) => saved'[s] = saved[s]
    BY <1>1, <1>4, <2>1 DEF Shared
  <2>4. Mends(r) /\ Moves(r) /\ Same(r) /\ req'[r].pc = "done"
    BY <1>1, <1>4, <2>1, <2>2, EndsMends
  <2>5. Records(r)
    BY <1>1, <1>2, <2>4 DEF Records, Same, Building, infra
  <2>6. Knows(r)'
    BY <2>4 DEF Knows, Uses, Deploys
  <2>7. Shared'
    BY <1>1, <1>3, <1>4, <2>1, FailType DEF IInv, Shared, infra, Ends
  <2>. QED  BY <1>1, <1>2, <2>4, <2>5, <2>6, <2>7, WorkKeeps DEF OnAws, infra
<1>5. CASE Fail /\ Goto(r, "done") /\ torn' = torn \cup {On(r)} /\ UNCHANGED saved
  <2>1. Moves(r) /\ Same(r) /\ req'[r].pc = "done"
    BY <1>5, PcFacts, GotoMoves DEF IInv
  <2>2. Shared'
    BY <1>1, <1>3, <1>5, FailType DEF IInv, Shared, infra
  <2>. QED  BY <1>1, <1>2, <1>5, <2>1, <2>2, EndKeeps DEF infra
<1>. QED  BY <1>4, <1>5 DEF Save

-----------------------------------------------------------------------------
(* A request begins to work on its stack, and may find others there.       *)

BeginPc == {"apply", "create"}

LEMMA BeginsTypes ==
  ASSUME Typed, NEW r \in Reqs, req[r].pc \in {"render", "dns0"}, NEW step \in BeginPc, Begins(r, step)
  PROVE  /\ On(r) \in Stacks /\ Settled(r) /\ r \notin Working(On(r))
         /\ req' \in [Reqs -> ReqSet] /\ Others(r) /\ Fixed(r) /\ req'[r].pc = step
         /\ req'[r].host = req[r].host /\ req'[r].tries = req[r].tries
         /\ req'[r].alone <=> Working(On(r)) = {}
         /\ \A q \in Reqs : q # r => (req'[q].alone <=> req[q].alone /\ q \notin Working(On(r)))
         /\ \A q \in Reqs : q # r => req'[q].pc = req[q].pc /\ Fixed(q)
         /\ torn' = IF Working(On(r)) = {} THEN torn ELSE torn \cup {On(r)}
<1>1. req \in [Reqs -> ReqSet] /\ Row(r) /\ step \in Pcs /\ req[r].pc \in Drawn
  BY PcFacts DEF Typed, Rows, BeginPc, Building, Drawn, Drawing, Pcs
<1>2. On(r) \in Stacks /\ Settled(r)
  BY <1>1 DEF Row, On, Settled
<1>3. r \notin Working(On(r))
  BY DEF Working, Building
<1>. DEFINE others == Working(On(r))
<1>4. PICK a \in BOOLEAN : a = (others = {})
  OBVIOUS
<1>5. \A q \in Reqs : (req[q].alone /\ q \notin others) \in BOOLEAN
  OBVIOUS
<1>6. req' = [q \in Reqs |-> IF q = r THEN [req[r] EXCEPT !.pc = step, !.alone = a]
                            ELSE [req[q] EXCEPT !.alone = req[q].alone /\ q \notin others]]
  BY <1>1, <1>4 DEF Begins
<1>7. torn' = IF others = {} THEN torn ELSE torn \cup {On(r)}
  BY DEF Begins
<1>. HIDE DEF others
<1>8. req'[r] = [req[r] EXCEPT !.pc = step, !.alone = a] /\ req'[r] \in ReqSet
  <2>1. req'[r] = [req[r] EXCEPT !.pc = step, !.alone = a] /\ req[r] \in ReqSet
    BY <1>1, <1>6
  <2>. QED  BY <1>1, <2>1 DEF ReqSet
<1>9. ASSUME NEW q \in Reqs, q # r
      PROVE  /\ req'[q] \in ReqSet /\ req'[q] = [req[q] EXCEPT !.alone = req'[q].alone]
             /\ req'[q].alone <=> req[q].alone /\ q \notin others
             /\ req'[q].pc = req[q].pc /\ Fixed(q)
  <2>1. PICK b \in BOOLEAN : b = (req[q].alone /\ q \notin others)
    BY <1>5
  <2>2. req'[q] = [req[q] EXCEPT !.alone = b] /\ req[q] \in ReqSet
    BY <1>1, <1>6, <1>9, <2>1
  <2>. QED  BY <2>1, <2>2 DEF ReqSet, Fixed
<1>10. req' \in [Reqs -> ReqSet]
  <2>1. \A q \in Reqs : req'[q] \in ReqSet
    BY <1>8, <1>9
  <2>. QED  BY <1>6, <2>1
<1>11. Fixed(r) /\ req'[r].pc = step /\ req'[r].alone = a /\ req'[r].host = req[r].host /\ req'[r].tries = req[r].tries
  BY <1>1, <1>8 DEF Fixed, ReqSet
<1>12. Others(r)
  BY <1>9 DEF Others
<1>. QED  BY <1>2, <1>3, <1>4, <1>7, <1>9, <1>10, <1>11, <1>12 DEF others

LEMMA BeginsTear ==
  ASSUME Typed, Books, Tear, NEW r \in Reqs, req[r].pc \in {"render", "dns0"},
         NEW step \in BeginPc, Begins(r, step), UNCHANGED <<kube, saved>>,
         \A s \in Stacks : dns'[s] = dns[s] \/ (s = On(r) /\ step = "create")
  PROVE  Tear'
<1>. DEFINE s0 == On(r)
<1>1. /\ s0 \in Stacks /\ r \notin Working(s0)
      /\ req'[r].pc = step /\ \A q \in Reqs : Fixed(q)
      /\ req'[r].alone <=> Working(s0) = {}
      /\ \A q \in Reqs : q # r => (req'[q].alone <=> req[q].alone /\ q \notin Working(s0))
      /\ \A q \in Reqs : q # r => req'[q].pc = req[q].pc
      /\ torn' = IF Working(s0) = {} THEN torn ELSE torn \cup {s0}
  BY BeginsTypes DEF Fixed
<1>2. \A q \in Reqs : On(q)' = On(q)
  BY <1>1 DEF Fixed, On
<1>3. /\ Working(s0)' = Working(s0) \cup {r}
      /\ \A s : s # s0 => Working(s)' = Working(s)
  <2>1. step \in Building /\ req[r].pc \notin Building
    BY DEF BeginPc, Building
  <2>. QED  BY <1>1, <1>2, <2>1 DEF Working, On
<1>4. Alone'
  <2>. SUFFICES ASSUME NEW q \in Reqs, req'[q].pc \in Building
                PROVE  /\ req'[q].alone => Working(On(q))' = {q}
                       /\ On(q) \notin torn' => req'[q].alone
    BY <1>2 DEF Alone
  <2>1. CASE q = r
    BY <1>1, <1>3, <2>1
  <2>2. CASE q # r
    <3>1. req[q].pc \in Building /\ q \in Working(On(q))
      BY <1>1, <2>2 DEF Working, On
    <3>2. CASE On(q) = s0
      BY <1>1, <2>2, <3>1, <3>2
    <3>3. CASE On(q) # s0
      <4>1. Working(On(q))' = Working(On(q)) /\ q \notin Working(s0)
        BY <1>2, <1>3, <3>3 DEF Working, On
      <4>. QED  BY <1>1, <2>2, <3>1, <3>3, <4>1 DEF Tear, Alone
    <3>. QED  BY <3>2, <3>3
  <2>. QED  BY <2>1, <2>2
<1>5. Progress'
  <2>. SUFFICES ASSUME NEW q \in Reqs, req'[q].alone PROVE Advanced(q)'
    BY DEF Progress
  <2>1. CASE q = r
    BY <1>1, <2>1 DEF Advanced, BeginPc
  <2>2. CASE q # r
    <3>1. Advanced(q) /\ q \notin Working(s0) /\ req'[q].pc = req[q].pc
      BY <1>1, <2>2 DEF Tear, Progress
    <3>2. req[q].pc = "save" => On(q) # s0 /\ On(q) \in Stacks
      BY <3>1, WorkTypes DEF Working, On, Building
    <3>3. req[q].pc = "save" => dns'[On(q)] = dns[On(q)]
      BY <3>2
    <3>. QED  BY <1>2, <3>1, <3>3 DEF Advanced
  <2>. QED  BY <2>1, <2>2
<1>6. Kept'
  <2>. SUFFICES ASSUME NEW s \in Stacks \ torn', kube[s]["services"] # None,
                       \A q \in Working(s)' : req'[q].pc \in Before
                PROVE  Whole(s)'
    BY DEF Kept
  <2>1. s \notin torn
    BY <1>1
  <2>2. dns'[s] = dns[s]
    <3>1. CASE s = s0
      <4>1. r \in Working(s)'
        BY <1>2, <1>3, <3>1 DEF Working, On
      <4>2. step \in Before
        BY <1>1, <4>1
      <4>. QED  BY <4>2 DEF Before
    <3>2. CASE s # s0
      BY <3>2
    <3>. QED  BY <3>1, <3>2
  <2>3. \A q \in Working(s) : req[q].pc \in Before
    <3>. SUFFICES ASSUME NEW q \in Working(s) PROVE req[q].pc \in Before
      OBVIOUS
    <3>1. q \in Working(s)' /\ q # r /\ q \in Reqs
      BY <1>1, <1>3, SMTT(20) DEF Working, On
    <3>. QED  BY <1>1, <3>1
  <2>4. Whole(s) /\ kube[s]["services"] \in Reqs
    BY <2>1, <2>3 DEF Tear, Kept, Typed, Shared, Charts
  <2>. QED  BY <1>1, <2>2, <2>4 DEF Whole, Fixed
<1>. QED  BY <1>4, <1>5, <1>6 DEF Tear

LEMMA BeginKeeps ==
  ASSUME IInv, NEW r \in Reqs, Render(r) \/ Deploying(r)
  PROVE  IInv'
<1>1. /\ UNCHANGED <<rng, lock, subnets, cf, sql, kube, saved, bounds, garbled>>
      /\ req[r].pc \in {"render", "dns0"} /\ Shared
  BY DEF Render, Deploying, At, infra, cluster, IInv, Typed
<1>2. PICK step \in BeginPc :
        /\ Begins(r, step)
        /\ \/ req[r].pc = "render" /\ step = "apply" /\ dns' = dns /\ file' = [file EXCEPT ![On(r)] = r]
           \/ req[r].pc = "dns0" /\ step = "create" /\ dns' = [dns EXCEPT ![On(r)] = "deploying"] /\ file' = file
  BY DEF Render, Deploying, At, BeginPc, infra, cluster
<1>3. /\ On(r) \in Stacks /\ Settled(r) /\ req' \in [Reqs -> ReqSet] /\ Others(r) /\ Fixed(r)
      /\ req'[r].pc = step /\ req'[r].host = req[r].host /\ req'[r].tries = req[r].tries
      /\ torn' \subseteq torn \cup {On(r)}
  BY <1>1, <1>2, BeginsTypes DEF IInv
<1>4. Rows'
  <2>1. Row(r)'
    <3>1. Row(r) /\ req[r].pc \in Drawn
      BY <1>1 DEF IInv, Typed, Rows, Drawn, Drawing, Pcs
    <3>2. req[r].pc = "dns0" => req[r].cloud = "aws"
      BY <3>1 DEF Row, OnAws
    <3>. QED  BY <1>1, <1>2, <1>3, <3>1, <3>2 DEF Row, Fixed, BeginPc, Drawn, Drawing, OnAws
  <2>. QED  BY <1>1, <1>3, <2>1, TurnRows DEF IInv
<1>5. /\ \A s \in Stacks : s # On(r) => dns'[s] = dns[s] /\ file'[s] = file[s]
      /\ \A s \in Stacks : dns'[s] = dns[s] \/ (s = On(r) /\ step = "create")
      /\ step = "apply" => file'[On(r)] = r
      /\ \A s \in Stacks : file'[s] = file[s] \/ (file'[s] = r /\ On(r) = s)
      /\ dns' \in [Stacks -> {None, "deploying", "here"}] /\ file' \in [Stacks -> Reqs \cup {None}]
  BY <1>1, <1>2, <1>3 DEF Shared
<1>6. Shared'
  BY <1>1, <1>3, <1>5 DEF Shared, bounds
<1>7. Steady(r)
  BY <1>1, <1>3 DEF Steady, BeginPc
<1>8. Records(r)
  BY <1>1, <1>3, <1>5 DEF Records, BeginPc, Building, Deploys
<1>9. Knows(r)'
  <2>1. step = "apply" => file'[On(r)'] # None
    BY <1>3, <1>5, NoneAssumption DEF Fixed, On
  <2>. QED  BY <1>3, <2>1 DEF Knows, BeginPc, Uses, Deploys
<1>10. Books'
  BY <1>7, <1>8, <1>9, RecordsKeep DEF IInv
<1>11. Tear'
  BY <1>1, <1>2, <1>5, BeginsTear DEF IInv
<1>. QED  BY <1>4, <1>6, <1>10, <1>11 DEF IInv, Typed

-----------------------------------------------------------------------------
(* What happens to the requests.                                           *)

LEMMA CfEndsKeeps ==
  ASSUME IInv, NEW s0 \in Stacks, CfEnds(s0)
  PROVE  IInv'
<1>1. /\ UNCHANGED <<req, rng, file, lock, subnets, sql, cluster, crashes, garbled, torn>>
      /\ cf[s0] = "IN_PROGRESS" /\ Typed
  BY DEF CfEnds, IInv
<1>2. /\ \A s \in Stacks : cf'[s] = cf[s] \/ (cf[s] = "IN_PROGRESS" /\ cf'[s] \in {"COMPLETE", "FAILED"})
      /\ cf' \in [Stacks -> {None, "IN_PROGRESS", "COMPLETE", "FAILED"}]
  BY <1>1 DEF CfEnds, Typed, Shared
<1>3. Typed'
  <2>1. Rows'
    BY <1>1 DEF Typed, Rows, Row
  <2>2. Shared'
    BY <1>1, <1>2, FailType DEF CfEnds, Typed, Shared, cluster
  <2>. QED  BY <2>1, <2>2 DEF Typed
<1>4. /\ \A s : Based(s)' <=> Based(s)
      /\ \A q : Settled(q)' <=> Settled(q)
  BY <1>1 DEF Based, Settled
<1>5. \A s \in Stacks : \A q \in Reqs : Hosted(q, s) => Hosted(q, s)'
  BY <1>1, <1>2 DEF Hosted
<1>6. Books'
  <2>1. ASSUME NEW q \in Reqs PROVE Knows(q)'
    <3>1. req[q].pc \in Uses \cup {"outputs"} => On(q) \in Stacks
      BY WorkTypes, PcFacts DEF IInv, Building
    <3>2. Knows(q) /\ On(q)' = On(q)
      BY <1>1 DEF IInv, Books, On
    <3>3. req[q].pc = "outputs" => req[q].tries = 0 \/ cf'[On(q)] \in {"COMPLETE", "FAILED"}
      BY <1>2, <3>1, <3>2 DEF Knows
    <3>4. req[q].pc \in Deploys => Hosted(q, On(q))'
      <4>. SUFFICES ASSUME req[q].pc \in Deploys PROVE Hosted(q, On(q))'
        OBVIOUS
      <4>1. PICK s \in Stacks : s = On(q) /\ s = On(q)'
        BY <3>1, <3>2, PcFacts
      <4>. QED  BY <1>5, <3>2, <4>1 DEF Knows, Hosted
    <3>5. req[q].pc \in Uses => Based(On(q))'
      <4>. SUFFICES ASSUME req[q].pc \in Uses PROVE Based(On(q))'
        OBVIOUS
      <4>1. PICK s \in Stacks : s = On(q) /\ s = On(q)'
        BY <3>1, <3>2
      <4>2. Based(s)'
        BY <1>4, <3>2, <4>1 DEF Knows
      <4>. QED  BY <4>1, <4>2 DEF Based
    <3>6. req[q].pc = "applying" => Settled(req[q].tf)' /\ req[q].tf \in Reqs /\ req[req[q].tf].stack = On(q)
      BY <1>1, <3>2 DEF Knows, Settled
    <3>. QED  BY <1>1, <3>2, <3>3, <3>4, <3>5, <3>6 DEF Knows
  <2>2. ASSUME NEW s \in Stacks PROVE Stack(s)'
    <3>1. Stack(s) /\ UNCHANGED <<file, kube>>
      BY <1>1 DEF IInv, Books, cluster
    <3>2. file[s] \in Reqs \cup {None} /\ kube[s]["services"] \in Reqs \cup {None}
      BY <1>1 DEF Typed, Shared, Charts
    <3>3. ASSUME NEW k \in Reqs, Serves(k, s) PROVE Serves(k, s)'
      BY <1>1, <1>4, <1>5, <3>3 DEF Serves
    <3>4. Served(s)'
      BY <1>1, <3>1, <3>2, <3>3 DEF Stack, Served, Serves, Settled, Hosted
    <3>5. Rendered(s)'
      BY <1>1, <3>1 DEF Stack, Rendered, Settled
    <3>6. cf'[s] # None => Based(s)'
      BY <1>2, <1>4, <3>1, NoneAssumption DEF Stack
    <3>. QED  BY <3>4, <3>5, <3>6 DEF Stack
  <2>. QED  BY <2>1, <2>2 DEF Books
<1>7. Tear'
  BY <1>1 DEF IInv, Tear, Alone, Progress, Kept, Advanced, Whole, Working, On, cluster
<1>. QED  BY <1>3, <1>6, <1>7 DEF IInv

LEMMA CrashKeeps ==
  ASSUME IInv, Crash
  PROVE  IInv'
<1>1. /\ UNCHANGED <<lock, subnets, cf, sql, kube, dns, saved, fails, garbled>>
      /\ req \in [Reqs -> ReqSet] /\ Typed
      /\ torn' = torn \cup {s \in Stacks : Working(s) # {}}
  BY DEF Crash, cluster, IInv, Typed, Rows
<1>2. /\ req' \in [Reqs -> ReqSet]
      /\ \A q \in Reqs : /\ req'[q].pc = IF req[q].pc = "idle" THEN "idle" ELSE "done"
                         /\ Fixed(q) /\ req'[q].host = req[q].host /\ req'[q].tries = req[q].tries
  <2>1. ASSUME NEW q \in Reqs
        PROVE  /\ req'[q] \in ReqSet /\ req'[q].pc = IF req[q].pc = "idle" THEN "idle" ELSE "done"
               /\ Fixed(q) /\ req'[q].host = req[q].host /\ req'[q].tries = req[q].tries
    <3>1. req[q] \in ReqSet /\ req'[q] = IF req[q].pc = "idle" THEN req[q] ELSE [req[q] EXCEPT !.pc = "done"]
      BY <1>1 DEF Crash
    <3>. QED  BY <3>1, PcFacts DEF ReqSet, Fixed
  <2>. QED  BY <2>1 DEF Crash
<1>3. Rows'
  <2>1. ASSUME NEW q \in Reqs PROVE Row(q)'
    <3>1. Row(q)
      BY <1>1 DEF Typed, Rows
    <3>. QED  BY <1>1, <1>2, <3>1 DEF Row, Fixed, Drawing, Drawn, OnAws
  <2>. QED  BY <1>2, <2>1 DEF Rows
<1>4. Shared'
  BY <1>1, BoundAssumption DEF Crash, Typed, Shared
<1>5. /\ \A q \in Reqs : Settled(q) => Settled(q)'
      /\ \A s : Based(s) => Based(s)'
  BY <1>1, <1>2 DEF Settled, Based, Fixed
<1>6. Books'
  <2>1. ASSUME NEW q \in Reqs PROVE Knows(q)'
    BY <1>2 DEF Knows, Uses, Deploys
  <2>2. ASSUME NEW s \in Stacks PROVE Stack(s)'
    <3>1. Stack(s) /\ kube[s]["services"] \in Reqs \cup {None}
      BY <1>1 DEF IInv, Books, Typed, Shared, Charts
    <3>2. ASSUME NEW k \in Reqs, Serves(k, s) PROVE Serves(k, s)'
      BY <1>1, <1>2, <1>5, <3>2 DEF Serves, Hosted, Fixed, Deploys
    <3>3. Served(s)'
      BY <1>1, <3>1, <3>2 DEF Stack, Served, Serves, Settled, Hosted
    <3>. QED  BY <1>1, <1>5, <3>1, <3>3 DEF Stack, Rendered, Crash
  <2>. QED  BY <2>1, <2>2 DEF Books
<1>7. Tear'
  <2>1. Alone' /\ Progress'
    BY <1>2 DEF Alone, Progress, Advanced, Building
  <2>2. Kept'
    <3>. SUFFICES ASSUME NEW s \in Stacks \ torn', kube[s]["services"] # None PROVE Whole(s)'
      BY <1>1 DEF Kept
    <3>1. s \notin torn /\ Working(s) = {}
      BY <1>1
    <3>2. Whole(s) /\ kube[s]["services"] \in Reqs
      BY <1>1, <3>1 DEF IInv, Tear, Kept, Typed, Shared, Charts
    <3>. QED  BY <1>1, <1>2, <3>2 DEF Whole, Fixed
  <2>. QED  BY <2>1, <2>2 DEF Tear
<1>. QED  BY <1>3, <1>4, <1>6, <1>7 DEF IInv, Typed

-----------------------------------------------------------------------------
(* The invariant.                                                          *)

LEMMA Start == Init => IInv
<1>. SUFFICES ASSUME Init PROVE IInv
  OBVIOUS
<1>1. req \in [Reqs -> ReqSet] /\ \A r \in Reqs : req[r] = Idle
  BY IdleType DEF Init
<1>2. \A r \in Reqs : /\ req[r].pc = "idle" /\ req[r].pass = None
  BY <1>1, IdleType
<1>3. Rows
  BY <1>1, <1>2 DEF Rows, Row, Drawing, Drawn, OnAws
<1>4. Shared
  BY BoundAssumption DEF Init, Shared
<1>5. Books
  BY <1>2 DEF Init, Books, Knows, Stack, Rendered, Served, Uses, Deploys, Charts
<1>6. Tear
  BY <1>2 DEF Init, Tear, Alone, Progress, Kept, Advanced, Building, Charts
<1>. QED  BY <1>3, <1>4, <1>5, <1>6 DEF IInv, Typed

LEMMA Step == IInv /\ [Next]_vars => IInv'
<1>. SUFFICES ASSUME IInv, [Next]_vars PROVE IInv'
  OBVIOUS
<1>1. ASSUME NEW r \in Reqs, Asked(r) \/ Seed(r) \/ Draw(r) PROVE IInv'
  <2>1. Early(r) /\ Typed'
    BY <1>1, NewEarly, DrawEarly DEF IInv
  <2>. QED  BY <2>1, EarlyKeeps
<1>2. ASSUME NEW r \in Reqs, Gcp(r) PROVE IInv'
  <2>1. CASE Cidr(r) \/ VpcFiles(r)
    <3>1. Early(r) /\ Typed'
      BY <2>1, CidrEarly DEF IInv
    <3>. QED  BY <3>1, EarlyKeeps
  <2>2. CASE Render(r)
    BY <2>2, BeginKeeps
  <2>3. CASE TfBegin(r) \/ TfEnd(r)
    BY <2>3, TfBeginKeeps, TfEndKeeps
  <2>4. CASE SqlIps(r) \/ Filestore(r) \/ Gke(r)
    BY <2>4, GkeKeeps
  <2>. QED  BY <1>2, <2>1, <2>2, <2>3, <2>4 DEF Gcp
<1>3. ASSUME NEW r \in Reqs, Aws(r) PROVE IInv'
  BY <1>3, BeginKeeps, CfCreateKeeps, PollKeeps, OutputsKeeps DEF Aws
<1>4. ASSUME NEW r \in Reqs, Deploy(r) PROVE IInv'
  BY <1>4, ChartKeeps, LoadBalancerKeeps, DnsKeeps, SaveKeeps DEF Deploy
<1>5. ASSUME NEW s \in Stacks, CfEnds(s) PROVE IInv'
  BY <1>5, CfEndsKeeps
<1>6. CASE Crash
  BY <1>6, CrashKeeps
<1>7. CASE UNCHANGED vars
  <2>1. UNCHANGED <<req, rng, file, lock, subnets, cf, sql, kube, dns, saved, crashes, fails, garbled, torn>>
    BY <1>7 DEF vars, infra, cluster, bounds
  <2>2. Rows' /\ Shared'
    BY <2>1 DEF IInv, Typed, Rows, Row, Shared
  <2>3. Books'
    BY <2>1 DEF IInv, Books, Knows, Stack, Rendered, Served, Serves, Hosted, Based, Settled, On
  <2>4. Tear'
    BY <2>1 DEF IInv, Tear, Alone, Progress, Kept, Advanced, Whole, Working, On
  <2>. QED  BY <2>2, <2>3, <2>4 DEF IInv, Typed
<1>. QED  BY <1>1, <1>2, <1>3, <1>4, <1>5, <1>6, <1>7 DEF Next

\* The configuration of a request, the database, the services and the domain of
\* its stack agree as IInv says, from the first request on and after a restart
\* (turkey_gcp.go:20-180, turkey_aws.go:20-171).
THEOREM Invariant == Spec => []IInv
BY Start, Step, PTL DEF Spec

\* A request is at one of its steps with a stack of its own or one in the VPC,
\* and what runs or is saved is some request's (turkey_gcp.go:52, turkey_aws.go:37).
THEOREM TypeCorrect == Spec => []TypeOK
<1>1. IInv => TypeOK
  BY TypedOK DEF IInv
<1>. QED  BY <1>1, Invariant, PTL

\* The services of a stack know the password of its database, whoever built the
\* one and deployed the other, unless two drew at once or chose one range; and
\* its host, unless the stack was given up or failed (turkey_gcp_utils.go:356-358,
\* turkey_aws.go:246-276).
THEOREM DbIsReached == Spec => []DbReached
<1>1. IInv => DbReached
  <2>. SUFFICES ASSUME IInv, NEW s \in Stacks, kube[s]["services"] # None
                PROVE  LET r == kube[s]["services"]
                           on == {q \in Reqs : req[q].stack = s} IN
                       /\ (on \cap garbled = {} /\ \A q \in on : req[q].name = req[r].name) => sql[s] = req[r].pass
                       /\ req[r].host \/ req[r].tries = 0 \/ cf[s] = "FAILED"
    BY DEF DbReached
  <2>1. PICK r \in Reqs : r = kube[s]["services"] /\ Serves(r, s)
    BY DEF IInv, Typed, Shared, Charts, Books, Stack, Served
  <2>2. PICK b \in Reqs : Settled(b) /\ req[b].stack = s /\ sql[s] = req[b].pass
    BY <2>1 DEF Serves, Based
  <2>3. \A q \in Reqs : Settled(q) => req[q].pass = req[q].name \/ q \in garbled
    BY DEF IInv, Typed, Rows, Row, Settled
  <2>. QED  BY <2>1, <2>2, <2>3 DEF Serves, Hosted
<1>. QED  BY <1>1, Invariant, PTL

\* A stack that nobody is at work on, and that was left whole by the last who
\* was, has charts of one configuration, the saved one, and its domain points
\* at it (turkey_gcp.go:144-180, turkey_aws.go:158-171).
THEOREM StackIsAllOfOne == Spec => []AllOfOne
<1>1. IInv => AllOfOne
  BY DEF IInv, Tear, Kept, Whole, AllOfOne
<1>. QED  BY <1>1, Invariant, PTL
=============================================================================
