----------------------------- MODULE ClusterDeploy -----------------------------
(***************************************************************************)
(* Installation of a cluster.  The orchestrator makes the configuration of *)
(* a stack, has Terraform (gcp) or CloudFormation (aws) build it, applies  *)
(* the charts to the new cluster, points the domain at it and, on gcp,     *)
(* saves the configuration (turkey_gcp.go, turkey_gcp_utils.go, gcpSvs.go, *)
(* turkey_aws.go, awsSvs.go).  A request that names its stack is for one   *)
(* that is there, or for a new attempt; a tandem cluster, in a VPC of      *)
(* another, is named after the first free range of addresses.  Requests    *)
(* run side by side and hold no lock but Terraform's.                      *)
(***************************************************************************)
EXTENDS Integers, FiniteSets, FiniteSetsExt

CONSTANTS
  Reqs,       \* bound: requests
  None,       \* no request, no stack, nothing known
  Names,      \* stack names made of the domain and the time
  LastOctet,  \* 10.<octet>.0.0/16; 255 in the code
  Tries,      \* polls of a stack that may fail; 3 in the code
  MaxCrashes, \* bound: restarts of the orchestrator
  MaxFails    \* bound: calls that fail

ASSUME NoneAssumption  == /\ None \notin Reqs \cup Names \cup 101..LastOctet
                          /\ None \notin {"IN_PROGRESS", "COMPLETE", "FAILED"}
ASSUME BoundAssumption == {LastOctet, Tries, MaxCrashes, MaxFails} \subseteq Nat

VARIABLES
  req,      \* the requests, with the configuration that each has made
  rng,      \* the request that has seeded math/rand last
  file,     \* rendered.tf of each stack: the request it is rendered for
  lock,     \* Terraform's lock on the state of each stack
  subnets,  \* octets in use in the VPC
  cf,       \* CloudFormation's stacks
  sql,      \* the password of each stack's database
  kube,     \* of each chart, the request whose configuration runs
  dns,      \* where the domain of each stack points
  saved,    \* cfg.json: the request that has saved it
  crashes, fails,
  garbled,  \* history: requests whose draws were mixed with another's
  torn      \* history: stacks that a request left half way, or that two worked on

infra   == <<file, lock, subnets, cf, sql>>
cluster == <<kube, dns, saved>>
bounds  == <<crashes, fails>>
vars    == <<req, rng, infra, cluster, bounds, garbled, torn>>

Octets  == 101..LastOctet
Stacks  == Names \cup Octets
Charts  == {"services", "stream"}   \* each has PERMS_KEY in it

Idle == [pc |-> "idle", cloud |-> None, vpc |-> FALSE, name |-> None, stack |-> None, pass |-> None,
         pub |-> None, ip |-> None, host |-> FALSE, tf |-> None, tries |-> Tries, alone |-> TRUE]

Fail == fails < MaxFails /\ fails' = fails + 1
Fine == UNCHANGED fails

At(r, pc)  == req[r].pc = pc
Goto(r, pc) == req' = [req EXCEPT ![r].pc = pc]
On(r)      == req[r].stack

\* Steps at which a request has begun to change the stack.
Building == {"create", "poll", "outputs", "apply", "applying", "sql", "files", "gke",
             "services", "stream", "lb", "dns", "save"}
Working(s) == {r \in Reqs : req[r].stack = s /\ req[r].pc \in Building}

\* An error is logged and the request is over.
Stop(r) ==
  /\ Fail /\ Goto(r, "done")
  /\ torn' = IF req[r].pc \in {"services", "stream", "lb"} \/ req[r].cloud = "aws" THEN torn \cup {On(r)} ELSE torn

-----------------------------------------------------------------------------
(* turkey_makeCfg                                                          *)

\* A new stack gets a name of its own, as it has the time in it.
New(r, cloud, vpc, n) ==
  /\ At(r, "idle") /\ (vpc => cloud = "gcp")
  /\ \A q \in Reqs : req[q].name # n
  /\ req' = [req EXCEPT ![r] = [Idle EXCEPT !.pc = "seed", !.cloud = cloud, !.vpc = vpc, !.name = n, !.stack = n]]
  /\ UNCHANGED <<rng, infra, cluster, bounds, garbled, torn>>

\* The request that made a stack is sent again, with the name of the stack.
\* What it leaves out is taken from the saved configuration, if that is read.
Again(r, q) ==
  /\ At(r, "idle") /\ At(q, "done") /\ On(q) \in Stacks
  /\ \E prev \in {saved[On(q)], None} :
       /\ IF prev = saved[On(q)] THEN Fine ELSE Fail
       /\ req' = [req EXCEPT ![r] =
            [Idle EXCEPT !.pc = "seed", !.cloud = req[q].cloud, !.vpc = req[q].vpc,
                         !.name = On(q), !.stack = On(q),
                         !.pub = IF prev = None THEN None ELSE req[prev].pub,
                         !.ip  = IF prev = None THEN None ELSE req[prev].ip]]
  /\ UNCHANGED <<rng, infra, cluster, crashes, garbled, torn>>

\* PwdGen seeds the generator that all of the process shares ...
Seed(r) ==
  /\ At(r, "seed") /\ rng' = r /\ Goto(r, "draw")
  /\ UNCHANGED <<infra, cluster, bounds, garbled, torn>>

AfterCfg(r) == CASE req[r].cloud = "aws" -> "dns0"
                 [] req[r].vpc           -> "cidr"
                 [] OTHER                -> "render"

\* The public key is the new private key's, unless one was loaded.
Made(r, pass) ==
  req' = [req EXCEPT ![r].pc = AfterCfg(r), ![r].pass = pass, ![r].pub = IF @ = None THEN r ELSE @]

\* A mistake: the password is not derived from the name of the stack.
DrawAnyhow(r) ==
  /\ At(r, "draw") /\ Made(r, r)
  /\ rng' = None
  /\ UNCHANGED <<infra, cluster, bounds, garbled, torn>>

\* ... and draws from it: the password is the stack name's, if nobody else
\* seeds or draws meanwhile.
Draw(r) ==
  /\ At(r, "draw")
  /\ \/ rng = r /\ Made(r, req[r].name) /\ UNCHANGED garbled
     \/ rng # r /\ Made(r, r) /\ garbled' = garbled \cup {r}
  /\ rng' = None
  /\ UNCHANGED <<infra, cluster, bounds, torn>>

-----------------------------------------------------------------------------
(* gcp                                                                     *)

\* A mistake: the ranges in use are counted.
CidrCounted(r) ==
  /\ At(r, "cidr")
  /\ req' = [req EXCEPT ![r].pc = "vpcfiles", ![r].stack = 101 + Cardinality(subnets)]
  /\ UNCHANGED <<rng, infra, cluster, bounds, garbled, torn>>

\* FindTandemCidr: the first range that no subnet has; nothing reserves it.
Cidr(r) ==
  /\ At(r, "cidr")
  /\ \/ /\ Octets \subseteq subnets /\ Goto(r, "done") /\ Fine /\ UNCHANGED torn
     \/ /\ ~(Octets \subseteq subnets)
        /\ req' = [req EXCEPT ![r].pc = "vpcfiles", ![r].stack = Min(Octets \ subnets)]
        /\ Fine /\ UNCHANGED torn
     \/ Stop(r)
  /\ UNCHANGED <<rng, infra, cluster, crashes, garbled>>

VpcFiles(r) ==
  /\ At(r, "vpcfiles")
  /\ \/ req' = [req EXCEPT ![r].pc = "render", ![r].ip = "vpc"] /\ Fine /\ UNCHANGED torn
     \/ Stop(r)
  /\ UNCHANGED <<rng, infra, cluster, crashes, garbled>>

\* A request that finds another at work on its stack spoils it for both.
Begins(r, pc) ==
  LET others == Working(On(r)) IN
  /\ req' = [q \in Reqs |-> IF q = r THEN [req[r] EXCEPT !.pc = pc, !.alone = others = {}]
                            ELSE [req[q] EXCEPT !.alone = @ /\ q \notin others]]
  /\ torn' = IF others = {} THEN torn ELSE torn \cup {On(r)}

\* The folder is named after the stack.
Render(r) ==
  /\ At(r, "render")
  /\ file' = [file EXCEPT ![On(r)] = r] /\ Begins(r, "apply")
  /\ UNCHANGED <<rng, lock, subnets, cf, sql, cluster, bounds, garbled>>

TfBegin(r) ==
  /\ At(r, "apply")
  /\ \/ /\ lock[On(r)] = None /\ lock' = [lock EXCEPT ![On(r)] = r]
        /\ req' = [req EXCEPT ![r].pc = "applying", ![r].tf = file[On(r)]]
        /\ Fine /\ UNCHANGED torn
     \/ lock[On(r)] # None /\ Goto(r, "done") /\ Fine /\ UNCHANGED <<lock, torn>>
     \/ Stop(r) /\ UNCHANGED lock
  /\ UNCHANGED <<rng, file, subnets, cf, sql, cluster, crashes, garbled>>

Built(r) == /\ sql' = [sql EXCEPT ![On(r)] = req[req[r].tf].pass]
            /\ subnets' = subnets \cup ({On(r)} \cap Octets)

TfEnd(r) ==
  /\ At(r, "applying") /\ lock' = [lock EXCEPT ![On(r)] = None]
  /\ \/ Built(r) /\ Goto(r, "sql") /\ Fine /\ UNCHANGED torn
     \/ Stop(r) /\ (Built(r) \/ UNCHANGED <<sql, subnets>>)
  /\ UNCHANGED <<rng, file, cf, cluster, crashes, garbled>>

SqlIps(r) ==
  /\ At(r, "sql")
  /\ \/ req' = [req EXCEPT ![r].pc = "files", ![r].host = TRUE] /\ Fine /\ UNCHANGED torn
     \/ Stop(r)
  /\ UNCHANGED <<rng, infra, cluster, crashes, garbled>>

\* A filestore that is not found has the address 0.0.0.0.
Filestore(r) ==
  /\ At(r, "files")
  /\ \/ req[r].ip # None /\ Goto(r, "gke") /\ Fine
     \/ req[r].ip = None /\ req' = [req EXCEPT ![r].pc = "gke", ![r].ip = "own"] /\ Fine
     \/ req[r].ip = None /\ req' = [req EXCEPT ![r].pc = "gke", ![r].ip = "0.0.0.0"] /\ Fail
  /\ UNCHANGED <<rng, infra, cluster, crashes, garbled, torn>>

Gke(r) ==
  /\ At(r, "gke")
  /\ \/ Goto(r, "services") /\ Fine /\ UNCHANGED torn
     \/ Stop(r)
  /\ UNCHANGED <<rng, infra, cluster, crashes, garbled>>

-----------------------------------------------------------------------------
(* aws                                                                     *)

\* The domain is sent to a page that says that the cluster is being deployed.
Deploying(r) ==
  /\ At(r, "dns0") /\ Begins(r, "create")
  /\ dns' = [dns EXCEPT ![On(r)] = "deploying"]
  /\ UNCHANGED <<rng, infra, kube, saved, bounds, garbled>>

\* CreateCFstack, which fails for a stack that is there; nobody waits for it.
CfCreate(r) ==
  /\ At(r, "create") /\ Goto(r, "poll")
  /\ \/ /\ cf[On(r)] = None /\ cf' = [cf EXCEPT ![On(r)] = "IN_PROGRESS"]
        /\ sql' = [sql EXCEPT ![On(r)] = req[r].pass] /\ Fine
     \/ cf[On(r)] # None /\ UNCHANGED <<cf, sql>> /\ Fine
     \/ UNCHANGED <<cf, sql>> /\ Fail
  /\ UNCHANGED <<rng, file, lock, subnets, cluster, crashes, garbled, torn>>

CfEnds(s) ==
  /\ cf[s] = "IN_PROGRESS"
  /\ \/ cf' = [cf EXCEPT ![s] = "COMPLETE"] /\ Fine
     \/ cf' = [cf EXCEPT ![s] = "FAILED"] /\ Fail
  /\ UNCHANGED <<req, rng, file, lock, subnets, sql, cluster, crashes, garbled, torn>>

\* A mistake: the stack is not waited for.
PollOnce(r) ==
  /\ At(r, "poll")
  /\ Goto(r, "outputs")
  /\ UNCHANGED <<rng, infra, cluster, bounds, garbled, torn>>

\* The status is polled while it is IN_PROGRESS; how it ends is not looked at,
\* nor whether it ends before the tries do.
Poll(r) ==
  /\ At(r, "poll")
  /\ \/ cf[On(r)] \in {"COMPLETE", "FAILED"} /\ Goto(r, "outputs") /\ Fine
     \/ req[r].tries = 0 /\ Goto(r, "outputs") /\ Fine
     \/ req[r].tries > 0 /\ cf[On(r)] = None /\ req' = [req EXCEPT ![r].tries = @ - 1] /\ Fine
     \/ req[r].tries > 0 /\ cf[On(r)] # None /\ req' = [req EXCEPT ![r].tries = @ - 1] /\ Fail
  /\ UNCHANGED <<rng, infra, cluster, crashes, garbled, torn>>

\* Without outputs DB_HOST is empty; EKS answers when its cluster is there.
Outputs(r) ==
  /\ At(r, "outputs")
  /\ \/ /\ cf[On(r)] # None
        /\ req' = [req EXCEPT ![r].pc = "services", ![r].host = cf[On(r)] = "COMPLETE"]
        /\ Fine /\ UNCHANGED torn
     \/ /\ cf[On(r)] # "COMPLETE" /\ Goto(r, "done") /\ torn' = torn \cup {On(r)} /\ Fine
     \/ Stop(r)
  /\ UNCHANGED <<rng, infra, cluster, crashes, garbled>>

-----------------------------------------------------------------------------
(* Both: the charts, the address of the load balancer, the domain.         *)
After(pc) == [services |-> "stream", stream |-> "lb"][pc]

Chart(r, c) ==
  /\ At(r, c)
  /\ \/ kube' = [kube EXCEPT ![On(r)][c] = r] /\ Goto(r, After(c)) /\ Fine /\ UNCHANGED torn
     \/ Stop(r) /\ UNCHANGED kube
  /\ UNCHANGED <<rng, infra, dns, saved, crashes, garbled>>

\* Fifteen tries, then an error.
LoadBalancer(r) ==
  /\ At(r, "lb")
  /\ \/ Goto(r, "dns") /\ Fine /\ UNCHANGED torn
     \/ Stop(r)
  /\ UNCHANGED <<rng, infra, cluster, crashes, garbled>>

\* One that was alone on its stack from end to end leaves it whole.
Ends(r) == /\ Goto(r, "done")
           /\ torn' = IF req[r].alone THEN torn \ {On(r)} ELSE torn

\* An error of Route 53 is nobody's.
Dns(r) ==
  /\ At(r, "dns")
  /\ \/ /\ dns' = [dns EXCEPT ![On(r)] = "here"] /\ Fine
        /\ IF req[r].cloud = "aws" THEN Ends(r) ELSE Goto(r, "save") /\ UNCHANGED torn
     \/ /\ Fail /\ torn' = torn \cup {On(r)} /\ UNCHANGED dns
        /\ req' = [req EXCEPT ![r].pc = IF req[r].cloud = "aws" THEN "done" ELSE "save", ![r].alone = FALSE]
  /\ UNCHANGED <<rng, infra, kube, saved, crashes, garbled>>

\* A mistake: a configuration that is there already is left as it is.
SaveOnce(r) ==
  /\ At(r, "save")
  /\ saved' = [saved EXCEPT ![On(r)] = IF @ = None THEN r ELSE @] /\ Ends(r)
  /\ UNCHANGED <<rng, infra, kube, dns, bounds, garbled>>

\* Nor is an error of the bucket; a mail goes out and the request is done.
Save(r) ==
  /\ At(r, "save")
  /\ \/ saved' = [saved EXCEPT ![On(r)] = r] /\ Ends(r) /\ Fine
     \/ Fail /\ Goto(r, "done") /\ torn' = torn \cup {On(r)} /\ UNCHANGED saved
  /\ UNCHANGED <<rng, infra, kube, dns, crashes, garbled>>

\* The requests end where they are, and Terraform's lock stays.  Nothing waits
\* for them before the process stops.  Bound: MaxCrashes.
Crash ==
  /\ crashes < MaxCrashes /\ crashes' = crashes + 1
  /\ req' = [r \in Reqs |-> IF req[r].pc = "idle" THEN req[r] ELSE [req[r] EXCEPT !.pc = "done"]]
  /\ torn' = torn \cup {s \in Stacks : Working(s) # {}}
  /\ file' = [s \in Stacks |-> None] /\ rng' = None
  /\ UNCHANGED <<lock, subnets, cf, sql, cluster, fails, garbled>>

-----------------------------------------------------------------------------
Init ==
  /\ req = [r \in Reqs |-> Idle] /\ rng = None
  /\ file = [s \in Stacks |-> None] /\ lock = [s \in Stacks |-> None]
  /\ subnets = {} /\ cf = [s \in Stacks |-> None] /\ sql = [s \in Stacks |-> None]
  /\ kube = [s \in Stacks |-> [c \in Charts |-> None]]
  /\ dns = [s \in Stacks |-> None] /\ saved = [s \in Stacks |-> None]
  /\ crashes = 0 /\ fails = 0 /\ garbled = {} /\ torn = {}

Asked(r) ==
  \/ \E cloud \in {"gcp", "aws"}, vpc \in BOOLEAN, n \in Names : New(r, cloud, vpc, n)
  \/ \E q \in Reqs : Again(r, q)

Gcp(r) == Cidr(r) \/ VpcFiles(r) \/ Render(r) \/ TfBegin(r) \/ TfEnd(r) \/ SqlIps(r) \/ Filestore(r) \/ Gke(r)

Aws(r) == Deploying(r) \/ CfCreate(r) \/ Poll(r) \/ Outputs(r)

Deploy(r) == (\E c \in Charts : Chart(r, c)) \/ LoadBalancer(r) \/ Dns(r) \/ Save(r)

Next ==
  \/ \E r \in Reqs : Asked(r) \/ Seed(r) \/ Draw(r) \/ Gcp(r) \/ Aws(r) \/ Deploy(r)
  \/ \E s \in Stacks : CfEnds(s)
  \/ Crash

Spec == Init /\ [][Next]_vars

-----------------------------------------------------------------------------
Pcs == {"idle", "seed", "draw", "cidr", "vpcfiles", "render", "dns0", "done"} \cup Building

\* A request is at one of its steps with a stack of its own or one in the VPC,
\* and what runs or is saved is some request's (turkey_gcp.go:52, turkey_aws.go:37).
TypeOK ==
  /\ \A r \in Reqs : /\ req[r].pc \in Pcs /\ req[r].stack \in Stacks \cup {None}
                     /\ req[r].pc \notin {"idle", "done"} => req[r].stack \in Stacks
                     /\ req[r].pc \in Building => req[r].pass \in Stacks \cup {r}
                     /\ req[r].tries \in 0..Tries
  /\ rng \in Reqs \cup {None}
  /\ file \in [Stacks -> Reqs \cup {None}] /\ lock \in [Stacks -> Reqs \cup {None}]
  /\ subnets \subseteq Octets
  /\ cf \in [Stacks -> {None, "IN_PROGRESS", "COMPLETE", "FAILED"}]
  /\ kube \in [Stacks -> [Charts -> Reqs \cup {None}]]
  /\ dns \in [Stacks -> {None, "deploying", "here"}]
  /\ saved \in [Stacks -> Reqs \cup {None}]
  /\ garbled \subseteq Reqs /\ torn \subseteq Stacks
  /\ crashes \in 0..MaxCrashes /\ fails \in 0..MaxFails

\* The services of a stack know the password of its database, whichever of the
\* requests has built the one and deployed the other, and whichever failed: it
\* comes from the stack's name (turkey_gcp_utils.go:356-358).  But two passwords
\* may be drawn from one generator at once, and two tandem clusters of different
\* names may choose one range.  They know its host as well, unless the stack was
\* given up while it was being created, or failed (turkey_aws.go:246-276).
DbReached ==
  \A s \in Stacks :
    LET r == kube[s]["services"]
        on == {q \in Reqs : req[q].stack = s} IN
    r # None => /\ (on \cap garbled = {} /\ \A q \in on : req[q].name = req[r].name) => sql[s] = req[r].pass
                /\ req[r].host \/ req[r].tries = 0 \/ cf[s] = "FAILED"

\* When no request is at work on a stack, and none has failed half way or met
\* another since one went through alone, its charts share one key and one
\* configuration, which is the one that is saved, and its domain points at it
\* (turkey_gcp.go:144-180, turkey_aws.go:158-171).
AllOfOne ==
  \A s \in Stacks \ torn :
    (Working(s) = {} /\ kube[s]["services"] # None) =>
      /\ kube[s]["stream"] = kube[s]["services"]
      /\ req[kube[s]["services"]].cloud = "gcp" => saved[s] = kube[s]["services"]
      /\ dns[s] = "here"
=============================================================================
