# TLA+ models of turkey-ops

turkey-ops runs *Hubs Cloud instances* ("hubs") for many customers on
Kubernetes. A hub is a namespace `hc-<hub_id>` with its deployments, a
PostgreSQL database `ret_<hub_id>` and a directory `/turkeyfs/hc-<hub_id>`.
No transaction spans the three, several replicas of the orchestrator work on
them at once, and every call may fail. This directory holds TLA+ models of the
protocols that keep a hub in one piece, the TLC instances that check them, and
the proofs about them.

## 1. Inventory

### Components, their state and what they do

| Component (source) | State it keeps | Operations | What makes it correct | Module |
|---|---|---|---|---|
| Life of a hub (`orch/.../hc_instance.go`, `turkeyReturnCenter.go`) | namespace, database, files `collecting`, `cfg.json`, `cfg.json.wip`, `ret_<id>.sql`, `trc_ts`; lookup ConfigMap; kubelocker in the namespace | `hc_collect`, `hc_restore`, `hc_switch`, `DeleteHubsCloudInstance`, the return center's websocket | the users' data survive; one restore at a time; a stored hub comes back, with all that psql did not skip | `HubLifecycle`, abstractly `HubStore` |
| Creation (`CreateHubsCloudInstance`, `post_creation_hacks`, `ret_load_asset`) | namespace, directory, database, local `isNew`, what was loaded | POST, DELETE, sent twice or raced | a hub is initialised by the request that made its database, and by no other; each request is answered | `HubCreate` |
| Update (`UpdateHubsCloudInstance`, `hc_patch_subdomain`, `hc_updateTier`) | name in six objects, tier in four, label of the namespace | `hc_update` | an update that runs through has reached every object; the label moves last; nothing custom below the b tiers | `HubUpdate` |
| Pause and resume (`ita/.../handlers_pausing.go`) | ingresses, services, two backups, `_resuming_status`, `reMu` | `HC_Pause`, `HC_Resume` and their three callers | nothing is lost, a name always leads somewhere, one resume at a time, the cooldown ends | `HubPause` |
| Custom domain and certificates (`ita/.../handlers_customDomain.go`, `cron_jobs.go`) | the domain in four places and in the ingress's rules, the label, `cfg.CustomDomain`, `cfg.CustomDomainCertExp` | PATCH `/custom-domain`, the certificate's cron job, the certbot pods, restarts | a change that says done has moved everything; a certificate that is watched does not expire | `CustomDomain` |
| Custom client, features (`handlers_customClient.go`, `featureMan.go`) | labels of ita's deployment, deployments of hubs and spoke | `/deploy`, `/undeploy` | as far as a tier change meets them | part of `HubUpdate` |
| ita's updater and work manager (`turkeyUpdater.go`, `k8Man.go`) | containers and tags, stop channel, informers, `_busy` | `Start`, `handleEvents`, `WorkBegin`/`WorkEnd`, POST `/updater` | one informer; no work undoes another; a published tag is deployed at last | `HubUpdater` |
| Builds and their publication (`webhooks_docker.go`, `Cronjob_publishTurkeyBuildReport`) | the report in a bucket, the labels of a ConfigMap | DockerHub's webhook, a tick each minute | the tag written last stands; labels show whole reports, in their order; what is reported is published at last | `BuildReport` |
| Backups (`hc_snapshot*.go`, to which `orch/main.go:91` leaves out the route; ita's `Restore`) | volume snapshots, dumps, the hub's volume and scale; an uploaded backup, the schema `ret0` | create, restore, delete a snapshot; restore an upload | a listed snapshot has its dump; an upload is not lost | `HubBackup` |
| Peers (`peerman.go`, `multi_cluster.go`, `webhooks_remote_hc_instance.go`) | a book in Redis, a copy in each replica | report, sync, cleanup, handing a request from peer to peer | a peer that reports is known, one that does not is forgotten; a request runs on one cluster | `MultiCluster` |
| Installation of a cluster (`turkey_gcp*.go`, `turkey_aws.go`, `gcpSvs.go`, `awsSvs.go`, `tfSvs.go`) | configuration, Terraform's files and lock, CloudFormation's stacks, charts, DNS, the saved `cfg.json` | create, create again, on two clouds, alone or in another's VPC | services know their database; a stack is of one configuration | `ClusterDeploy` |
| Return center's books (`TrcCmBook.go`, `TrcCacheBook.go`, `HcNsTable.go`, caches) | replicated copies of the lookup ConfigMap and of namespaces, a file on a shared disk | watch, survey, renew | a copy does not go stale for ever | -, see 8 |
| Orchestrator's database (`pg.go`, `client_be_api_utils.go`) | advisory locks, `migrations` table | `DbLock`, `MakeOrchDb`, the job that copies the dashboard | one holder; each migration runs once | -, see 8 |
| Turkey jobs (`TurkeyJobs.go`), shutdown (`server.go`) | a subscription, `RunningTask` | snooze, acknowledge, work, call back | a job is done once or given back | -, see 8 |
| auth, dip, has, console, log stream, tools | none worth a model | proxies, output to operators, a benchmark | - | -, see 8 |

### How they interact

* The dashboard, an operator or a peer cluster sends `POST`, `PATCH`, `DELETE
  /hc_instance` to any replica of turkeyorch; each request is a goroutine.
  `handle_hc_instance_req` restores a collected hub first, then takes the
  *kubelocker* of the hub, an object inside the hub's own namespace, except
  for create and delete, which take nothing. The return center's websocket
  calls `hc_restore` without any lock.
* A request for a hub of another cluster goes to that cluster's orchestrator,
  by the replica's copy of the peer book.
* Orch and ita (one pod in every hub) share the Kubernetes objects of the hub.
  Orch calls ita over HTTP while it holds the hub's lock; ita asks orch to
  collect the hub when it has been idle.
* A new image goes from DockerHub's webhook (orch) to the report in the
  bucket, from there by a cron job (the ita of turkey-services) to a ConfigMap
  per channel, and from there by an informer (the ita of each hub) to the
  hub's deployments. `BuildReport` and `HubUpdater` are the two halves, and
  meet at the labels of the ConfigMap.
* Within ita whoever writes to Kubernetes is to do so between `WorkBegin` and
  `WorkEnd`; the pages, the cron jobs and the informers are goroutines.
* A replica learns what another one did only from Kubernetes, the database
  (`CREATE DATABASE` is an election) and the files of the shared disk.

### What is hard

Interleavings of requests that hold different locks or none; the namespace
that stays *terminating* for minutes; each step of a row of writes failing or
the pod dying in front of it; retries that start from what the failed attempt
left; books read, edited and written back as a whole; an answer that does not
arrive; an unlock that never comes. `PROJECT.json` lists the places under
"hazards", each with the properties that cover it or the reason why none does.

## 2. Modules

One action is one call to the outside (Kubernetes, PostgreSQL, a file, the
other program), together with everything the code does up to the next one. A
request is a program counter, its labels named after the function and the
call; its local variables are kept only where a later step reads them.
Deferred functions belong to the action that returns. In the modules of the
hub's life `Faults` says which kinds of calls may fail; in the others `Fail`
is any failing call, and `MaxFails` bounds how many there are. A failing call
does what the code makes of it, early return, log line or nothing. Variables
called *history* (or ghost) are not read by any action: they say what has
happened, for the properties to except it by name. Operators under a comment
that begins with "A mistake" are wrong versions of an action, used to see that
the properties notice; no specification uses them.

**HubLifecycle** starts with a deployed hub in use. `Prelude`, `Lock` and
`Return` are the frame of `handle_hc_instance_req`; `Collect*`, `Delete*`,
`Restore*`, `Create*` follow `hc_collect`, `DeleteHubsCloudInstance`,
`hc_restore`, `CreateHubsCloudInstance` line by line, including the three ways
one function calls another. A database and a dump are *absent*, *partial*
(being loaded, or torn), or holds what was written up to a numbered write of
the hub's users: *full*, or *short* when psql has skipped a statement of a dump
and ended well all the same. `acked` counts the writes they committed. `NsFinalised`, `OrphanExpires`,
`CooldownElapses`, `HubWrite` and `Crash` are the surroundings.

**HubStore** is what a customer may expect: a hub is up or stored away, its
data are what was written, and they are gone only after a delete. If loading is
`Lossy`, as psql is, a restore may leave something out (`whole`), and nothing
else may. In `HubLifecycle`, `Status`, `Data` and `Whole` are the refinement
mapping, and `KeepsPromise` says that it implements `HubStore`.

**HubCreate** begins without a hub and lets any number of POSTs and DELETEs
race. `isNew` is the code's variable; `db` records whose `CREATE DATABASE`
made the database. The goroutine that initialises a new hub waits for
reticulum, asks it for a token, sets the theme and loads the pack of assets,
one import and one listing at a time; `content` records what was loaded, and
by whom. `Panic` is the end of a whole replica at an answer of reticulum that
is not what `ret_load_asset` expects.

**HubUpdate** is one hub under `hc_update`. The kubelocker admits one update
at a time, so there is one `pc`; the interleaving is with the hub's admin,
whom ita serves meanwhile, and with crashes. `sub` and `tier` map each object
to what it says. An update sent again is the retry; it may find any mixture of
names, and `before` is what it found. `Replaced` is `strings.Replace`: a text
that does not hold the old name stays, one that holds more than it becomes any
name or none. The fault "lock" is ita's answer without a status when it does
not get its kubelocker, whatever the reason; `unheard` says that it happened.

**HubPause** is ita from the inside: goroutines share `_resuming_status` and
`reMu`, and `bg` is the goroutine `HC_Resume` leaves behind. `met` says that a
resume found the status changed behind the mutex, and left that locked.

**HubUpdater** has the informers of `TurkeyUpdater`, each with an event queued
(`news`) and one in work; the works that `WorkBegin` was to keep apart; the
optimistic locking of the API server (`depFresh`: who has read the last
version of the deployment); POST `/updater`, which labels the deployment and
calls `Start`; and restarts. The ConfigMap may also change without the image's own
label, and informers are told of it.

**BuildReport** has the webhooks that edit the report without a lock and the
ticks that copy it to the ConfigMap, with the same two halves of `WorkBegin`. A
webhook is believed: it may come late, or again, with any tag, older ones
included. `past` are the reports there have been, `shown` is the one on the
labels, `wrote` the tag last written for each image.

**HubBackup** has two programs that know nothing of each other: snapshot
requests in orch, which go through the steps that `After` lists for each kind,
and restores of an upload in ita. `export` is asynchronous, as in Cloud SQL. The
name of a snapshot is the client's, so that it may be created twice, again, or
while it is being deleted. The handler of snapshots is complete, but
`orch/main.go:91` leaves its route out: nothing calls it at this commit.

**CustomDomain** has one PATCH at a time, as `patch` holds the hub's lock, the
cron job that compares the cached expiry, certbot pods that answer or do not,
restarts of ita that read the label anew, and months that pass for all. One
domain may be a part of another (`Within`, `Starts`): `strings.Replace` then
takes the one for the other, or makes a text that is neither. After the answer
`setupFeatures` may panic before it starts the cron job (`Finish`).

**MultiCluster** has the book in Redis, the copies in the replicas, and the
goroutines that download, edit and upload it; `live` says that a goroutine
still edits the very map of its replica. An entry is its age. `Ask` and
`Forward` hand a request to one peer after another.

**ClusterDeploy** has requests that install stacks: `Seed` and `Draw` are
`PwdGen` with the generator the process shares, `Cidr` is the search for a
free range, `TfBegin` and `TfEnd` Terraform with its lock, `CfCreate` and
`Poll` CloudFormation; then charts, load balancer, domain and configuration.

`MC_*` give the sets and symmetries for TLC; `*_proofs` hold theorems. Two of
these extend two modules each: `Creation_proofs` both creations, of a hub and of
a cluster, `Rollout_proofs` both halves of an image's way from its build to the
hubs. So that the modules can be extended together, the names of `HubCreate`
and `BuildReport` that others have too carry a prefix: `HubInit`, `HubNext`,
`HubSpec`, `ReportInit`, `ReportNext`, `ReportSpec` and so on.

## 3. Runs

| Run | Result | What it shows |
|---|---|---|
| `HubLifecycle_faults` | holds, 2.9 M states | Two requests of any kind but DELETE, all faults but a refused deletion of the namespace, two writes. `DataKept`: database or dump always is complete, but for what psql skipped. `LoadAlone`: who creates the database has it to himself up to the deployment. `ComesBackWhole`: a hub is deployed on everything written that psql did not skip, never on a torn dump or a load cut off. `KeepsPromise`: `HubStore` is implemented. |
| `HubLifecycle_live` | holds, 0.52 M | Two requests that collect, delete or visit; the writes of `cfg.json`, the dump, the ConfigMap, the lock, the deletion of the namespace and `DROP DATABASE` may err; no crash. `StoredComesBack`: a stored hub with nobody at work on it comes back, whoever turns up meanwhile. `BlockEnds`: a hub that is down is not blocked by the flag of a collect for ever; the early returns of `hc_collect` leave the flag on a hub that is up. |
| `HubLifecycle_window` | violated | What users write while a collect is past its dump is lost with the database. |
| `HubCreate_races` | holds, 0.28 M | Two requests sent again and again, one asset, all faults. `InitsOwnDb`: only the maker of the database initialises it, and what is loaded is his. `Answered`: all requests end once `CREATE DATABASE` stops failing. |
| `HubUpdate_faults` | holds, 3.8 M | Changes to p0, b0 and "free", and three names, one in another, all faults, an admin between updates. `UpdateTakesHold`: an update in which nothing goes wrong has reached every object, though others failed half way before it, and may have left the hub between names that this one does not ask for. `LabelLast`. `NothingCustomBelowB`. |
| `HubPause_turns` | holds, 1.65 M | Two requests, overlapping or not, restarts of ita and deployments that cannot be scaled. `ResumesAlone` although all callers check the status outside the mutex; `NothingLost` while the requests take turns; `CooldownEnds`: the hub can be resumed again, unless a scaling failed or two resumes met. |
| `HubUpdater_follow` | holds, 1.15 M | Two informers, two tags, two POSTs, three failures. `OneWatcher`: an informer nobody will stop does not exist. `NothingUndone`: no step changes image and label at once, so that no stale object is written. `Follows`: the last tag is deployed at last. `WorkEnds`: `_busy` goes down again and again. |
| `BuildReport_publish` | holds, 0.60 M | Two images, two webhooks with any tags, two ticks, two failures. `TagsStand`: the tag written last for an image stands, unless another image's webhook overlapped. `LabelForward`: labels show whole reports in their order, unless a goroutine was overtaken. `Published`: label and report agree in the end. |
| `MultiCluster_peers` | holds, 0.22 M | Two clusters, one with a clock two hours behind, overlapping jobs, an error of Redis. `OneCluster`, `Known`, `Forgotten`. |
| `CustomDomain_moves` | holds, 1.5 M | Two custom domains, one in the other, three changes, two restarts, two failures. `DomainTakesHold`: a change that says done has moved all, also from what a failed one left, unless that has the new domain already and the old one is a part of it. `CertKept`: a certificate whose cron job runs does not expire. |
| `HubBackup_restores` | holds, 1.3 M | Three snapshot requests under names that repeat, two restores, a restart, a failure. `ListedWithDump`, `BackupKept`. |
| `ClusterDeploy_stacks` | holds, 1.56 M | Three requests on both clouds, two names and two ranges, a crash, a failure. `DbReached`: the services of a stack know the password of its database. `AllOfOne`: a stack that one request left whole is of one configuration. |

The run that is violated has a finding in `PROJECT.json`, with the line of the
code that says otherwise; `HubLifecycle_faults` is the same model without it.

### What the same models show besides

Each of these is a behaviour of the code that a property excepts by name, or a
stronger property that fails. For some of them the modules state what a line of
the code promises, and a configuration, to be run by hand, shows how it fails;
`PROJECT.json` does not list these:

| Configuration | What fails | How |
|---|---|---|
| `HubLifecycle_psql` | `FailedLoadStops` | psql goes on after a statement that fails and ends well, and the hub is deployed on what was loaded (`hc_instance.go:457-462`). |
| `HubCreate_tries` | `FewTries` | `CREATE DATABASE` is tried more often than `createDB_tries` says, since nothing counts it down (`:674-693`). |
| `HubUpdate_retry` | `HostHasOldName` | A rename that failed half way and is sent again takes the new name, which the Secret has already, for the old one (`:1229`). |
| `HubUpdate_domain` | `NoDomainBelowB` | ita answers 200 whenever it does not get its lock, and the hub leaves the b tiers with its domain (`handlers_customDomain.go:33-42`). |
| `HubPause_again` | `TryAgain` | Two resumes pass the check of the status; the second returns with `reMu` locked, and nobody can resume the hub until ita is restarted (`handlers_pausing.go:288-291`). |
| `HubUpdater_record` | `SameTag` | Four attempts fail, the tag is recorded all the same, and the event that brings it again is passed over (`turkeyUpdater.go:176-184`). |
| `CustomDomain_retry` | `DoneIsDone` | A move to a domain that contains the old one fails half way; the retry replaces the old one inside the new one, and says done (`handlers_customDomain.go:213-237, 318`). |
| `CustomDomain_watch` | `CertMaintained` | `setupFeatures` panics after the answer and before it starts the certificate's cron job; ita knows a domain nobody renews (`featureMan.go:81-98`). |

The properties of the runs that hold name these cases (`Copies`, `strays`,
`unheard`, `met`, `nested` and so on) and say that nothing else goes wrong. The
others were each found once with a small instance.

*Life of a hub.* An orch pod that dies in a collect, or that cannot remove the
flag, blocks restores for ever, and so does a `psql` or a chart that errs. A collect that
returns early leaves the flag on a hub that is up, and nothing removes it until
the next collect. A restore that overlaps a collect takes the dying namespace
for a success (`hc_instance.go:470, 601`). A collect whose lookup update never
succeeds goes on. With deletions refused and a stalled restore a second collect
tears the dump.

*Creation.* A half-applied chart is an error, and the creation sent again says
done (`:600`): there is no database. Two creations without any fault leave a
hub without a tier. `ret_load_asset` takes `importResp[kind_s][0]` without
looking (`:794`), and an answer without it ends the process with all its
requests.

*Update.* A rename with the tier the hub has, with "free" or with another tier
than p0 is passed over (`:507, 563`). A downgrade that is interrupted after
ita's deployment is refused by the restarted ita for ever (`:517`). An admin
who deploys during a downgrade keeps a custom client.

*Pause.* A resume that cannot scale leaves the status at -1, so that the page
says "resuming" for ever. Two overlapping pauses overwrite the backup. A pausing
route that cannot be created leaves the hub's name without any.

*Updater.* Two works overlap, as `WorkBegin` looks and marks in two steps; the
last attempt insists on an object that somebody has written since, and never
ends (`turkeyUpdater.go:250`); a second `Start` on an unsupported channel
closes a closed channel (`:90`); `u.channel` is never assigned, so that the
delay for "stable" does not happen (`:154`). A custom-domain PATCH that
succeeds runs `setupFeatures` again, which starts a second updater.

*Builds.* A late or repeated webhook puts an older tag into the report, from
there on the labels and into the hubs: no part of the way compares tags, and
the models say so. Two webhooks at once lose one of their tags.

*Domains.* The update that drops the old rule of the ingress fails silently
(`handlers_customDomain.go:274`). After a restart whose read of the label
failed ita does not know its domain, and nobody renews the certificate. A
custom client together with the native domain is refused (`:67`).

*Backups.* A snapshot request that stops at an error leaves the hub down. A
`Restore` that is sent again drops the schema although the dump
was moved away. Snapshot requests overlap without a lock: a creation that meets
the deletion of its name may be listed without its dump. A snapshot is listed
whose export failed.

*Clusters.* Two tandem clusters that are created at once take the same range,
and with it the same stack; one that is created again takes the next range. A
stack created again gets the old public key with a new private one
(`turkey_gcp_utils.go:235`). `FilestoreIP` "0.0.0.0" is saved and not looked
up again. Terraform's lock stays after a crash. On aws a second creation
points a live domain to the deploying page. Errors of Route 53 and of the
bucket are ignored. `tfUpdate` can never plan or apply, its arguments being
shifted (`turkey_gcp.go:296`); `k8sUpdate` answers 501; `tco_gcp_get` and
`tco_gcp_delete` return at once. `RunningTask` is not raised for the creation
of a cluster.

*Peers.* A request whose connection breaks after it was sent may run on two
clusters.

### Bounds

* Two requests in `HubLifecycle`, `HubCreate` and `HubPause`: each hazard
  listed is a race of two; a third one that is idle adds nothing, since
  finished requests begin again. The theorems lift the number.
* `MaxWrites` 2: one write before and one after a restore tell a stale dump
  from a current one. In `HubCreate`, `MaxDbFails` bounds how often one `CREATE
  DATABASE` fails, so that `Answered` says nothing of one that fails for ever,
  which is tried for ever (`HubCreate_tries`), and one asset has an import and a listing that race.
* The tiers p0 and b0 and "free", of which "free" is passed over: p1 and the
  like behave as p0 does. The three names are one that is a part of another, and
  a third for a hub left between two. `Cooldown` 1: the loop's first and last step.
* In `HubLifecycle`, `HubCreate`, `HubUpdate` and `HubPause` every failing
  call can fail any number of times. Elsewhere `MaxFails` (in `BuildReport`
  `MaxFailed`) is the number of failures after which a property would be lost
  if it could be: two in `BuildReport` and `CustomDomain`, for a failure and the
  failure of its repair; one in the others, whose properties except what an
  error has cut off. `HubUpdater_follow` has three, because the code makes four
  attempts: `Follows` is false for a fourth, as `HubUpdater_record` shows.
* `MaxTag` 1 and one publication tell the new tag from the old. `BuildReport`
  has three tags, which two webhooks bring in any order. Two informers are the one running and
  the one told to stop. Two POSTs move the hub away and back.
* `HubLifecycle_live` leaves out faults to stay within minutes: scaling and an
  API that errs, which end a request as other faults do; an unlock that errs,
  after which the collect returns as it does when the ConfigMap errs; and what
  makes the two properties false, a crash and a flag that cannot be removed
  (the flag stays), and a `psql` or a chart that errs (the database stays, and
  blocks each later restore).
* `LastOctet` 102 gives two ranges to tandem clusters; 1 poll that fails tells
  "the tries are over" from "the stack has ended".
* In `MultiCluster` one replica and two goroutines: replicas share nothing but
  the book in Redis, which the second goroutine edits as another replica's
  would; the theorem is for any number.
* Deadlock is checked wherever the system cannot stop. The runs that say
  `CHECK_DEADLOCK FALSE` have a bound on requests or ticks, behind which
  nothing is left to do.

### Fairness

`LiveSpec` (`HubLiveSpec`, `ReportLiveSpec`) is weak fairness of each goroutine's next step (Go schedules them,
and each call has a timeout of its client or comes back with an error), of the
namespace controller, of the expiry of orphaned locks and of clocks. In
`HubLifecycle`, `RecvVisit` is strongly fair: the page of the return center
reloads itself, so visitors keep asking, though each time only while the
subdomain is listed and an orch goroutine is free. In `BuildReport` the cron
job's ticks, each minute, and in `MultiCluster` the reports, the sync jobs and
the hour are fair, because tickers drive them; there strongly, as the bound on
overlapping jobs delays them. Nothing makes an operator post, a user pause or
DockerHub build. No fault is assumed to stop, except through a bound.

## 4. Assumptions about what is not in this repository

* *kubelocker* (the two programs use different versions): the lock is an
  object in the hub's namespace, so it can be taken only while the namespace
  is active, and it vanishes with it; it is never taken from a holder that is
  alive; only the holder unlocks; one left by a dead holder expires at last.
  Any call may err. Whether ita and orch use the same lock object cannot be seen
  here: in `HubUpdate` ita may fail to get its lock for this or any other reason.
* *Kubernetes* finalises a namespace some time after its deletion and refuses
  objects in it until then. ita runs with its new tier once its Deployment has
  it; the time of the restart is left out.
* *PostgreSQL*: `CREATE DATABASE` is atomic and fails when the database
  exists; `DROP DATABASE` after the terminated connections succeeds or errs.
  `psql -f`, which runs without `ON_ERROR_STOP`, has read the file to its end
  when its exit code is 0, and may have skipped statements that failed;
  otherwise it has loaded any part of it.
* *reticulum* writes only while its pods are up and its database is complete.
* *The API server* refuses an update of an object whose version is not the
  last, and tells informers of each change at least once, of the last in the
  end. *Buckets* and *Redis* keep what was written last.
* *DockerHub* calls the webhook late, again, in another order or not at all.
* *Cloud SQL* exports when it gets to it; a *VolumeSnapshot* is listed once it
  is created. *certbot* answers with a certificate for 90 days, or not.
* *Terraform* locks the state of a stack; *CloudFormation* refuses a stack of a
  name that exists.

## 5. Proofs

The modules `*_proofs` are checked by TLAPS. What they say holds for any
requests, names, domains, clusters or goroutines, any number of
writes and failures; where faults are kinds, for any set of them unless the
table says otherwise.

| Module | Theorem | Says |
|---|---|---|
| `HubLifecycle_proofs` | `TypeCorrect` | `Spec => []TypeOK` |
| | `InvHolds` | the inductive invariant `IInv` always holds |
| | `DataNeverLost` | `Spec => []DataKept` |
| | `RestoresAlone` | `Spec => []LoadAlone` |
| | `ComesBack` | `Spec => ComesBackWhole` |
| | `ImplementsStore` | `Spec => KeepsPromise`, refinement of `HubStore` |
| `Creation_proofs` | `HubTypeCorrect`, `InitialisedByItsMaker` | `HubTypeOK`, `InitsOwnDb` of `HubCreate` |
| | `Invariant` | `ClusterDeploy`'s inductive invariant `IInv` always holds |
| | `TypeCorrect`, `DbIsReached`, `StackIsAllOfOne` | `TypeOK`, `DbReached`, `AllOfOne` of `ClusterDeploy` |
| `HubUpdate_proofs` | `TypeCorrect`, `TakesHold`, `LabelIsLast` | `TypeOK`, `UpdateTakesHold`, `LabelLast` |
| | `NothingKept` | `NothingCustomBelowB`, if the admin is not at work during an update |
| `HubPause_proofs` | `TypeCorrect`, `OneResume` | `TypeOK`, `ResumesAlone` |
| | `TurnsLoseNothing` | `NothingLost`, if no call fails but a write of a Deployment (`Mild`) |
| `Rollout_proofs` | `ReportTypeCorrect`, `LastTagStands`, `LabelsGoForward` | `ReportTypeOK`, `TagsStand`, `LabelForward` of `BuildReport` |
| | `Invariant` | `HubUpdater`'s inductive invariant `IInv` always holds |
| | `TypeCorrect`, `FollowsOne`, `NothingIsUndone` | `TypeOK`, `OneWatcher`, `NothingUndone` of `HubUpdater` |
| | `LabelIsPublished` | each change of a label that `BuildReport` makes is one `HubUpdater`'s `Publish` may make |
| `HubBackup_proofs` | `TypeCorrect`, `DumpForEach`, `NothingUploadedLost` | `TypeOK`, `ListedWithDump`, `BackupKept` |
| `CustomDomain_proofs` | `TypeCorrect`, `TakesHold`, `CertIsKept` | `TypeOK`, `DomainTakesHold`, `CertKept` |
| `MultiCluster_proofs` | `TypeCorrect`, `HandledOnce` | `TypeOK`, `OneCluster` |

All of `HubLifecycle`'s but the first assume `Benign`: users do not write
behind a complete dump (`QuietCollect`; without it `HubLifecycle_window`
refutes `DataKept`), and the deletion of a namespace is not refused (with it
the dump can be torn by a second collect). Every other fault is allowed, psql's
skipped statements among them: `Copies` is what a complete copy of the data may
then lack, and `Full` alone where psql skips nothing.

*HubLifecycle.* `DataKept` alone is not inductive: a collect that is about to
drop the database, or a restore that is about to overwrite it, would break it
in a state where it holds by luck. `IInv` adds who holds what. Before the
namespace is deleted a collect has the lock in a live namespace (`LockedInv`),
so collects exclude each other there; from its dump on, the dump is complete
(`DumpedInv`), because while it is past it the users are quiet and nobody
reloads the database of a hub that is up (`ServingInv`, `LoadInv`); the one
drop to come finds the hub down (`DropInv`). A restore loads only when
`CREATE DATABASE` succeeded, so that no drop and no other restore is pending
(`LoadInv`), and only a complete dump (`StoredInv`). Dumps change only under
the lock and in a live namespace, where the database is complete. The proof has
a lemma per action, or per group of actions that leave the data alone
(`ReadOnlyCore`); everything is claimed up to the deletion of the hub
(`DeletedStays`). For the refinement, `DataIsAcked` reads off `IInv` that the
mapped `data` is the number of writes in every state. That `whole` changes only
in a restore takes one lemma for each thing the hub may do: stay up, where its
users alone change the database (`UpStep`), go down with its dump just made of
what it holds (`DownStep`), stay away, with its dump untouched (`AwayStep`), and
come back (`BackStep`). Each step is then one of `HubStore`'s four or a stutter.

*HubCreate.* `InitsOwnDb` is inductive once it is known that without a
deletion nobody runs the steps of one (`NoDelete`).

*HubUpdate.* `TierSoFar` and `SubSoFar` say for each step which objects have
been moved so far, `LabelStands` that the label is the one the update found, and
`SubBefore` that until the Secret is written the other objects have its name or
are strays. No history of clean updates is needed: whatever was found,
`TierDone` and `SubDone` say what an update in which nothing went wrong has
reached at its end. The label's step finds all the others moved. `Emptied` says
what a downgrade has taken away by each of its steps; nobody but the admin
brings it back, who is not at work during an update.

*HubPause.* A request resumes only while `status` is -1 and no goroutine
counts (`StatusKept`), and the lock's step takes 0 to -1. For `NothingLost`,
`At` says for each step of a pause and of a resume where the ingresses and
services are, given what the request still has to do; at rest the hub is
`Whole` or `Paused`. Requests that take turns find it so (`OneByOne`).

*BuildReport.* A webhook at work knows the tag last written for each image that
it has not missed (`HooksKnow`), so that its write takes back those only. A
goroutine that nobody has overtaken has read a report that is not before the one
the labels show (`TicksAhead`), and its copy is a report of the past as it stood.

*HubUpdater.* Whoever has read the last version of the deployment and still
means to write holds a copy of it (`Fresh`). A write by anybody else is refused
by the API server, so that a write that succeeds changes one field of the
deployment as it is, and `NothingUndone` follows; each write makes all other
copies old (`PutFresh`). That `OneWatcher` is kept needs no more than the types:
`Start` closes the channel it holds and replaces it in one step. The types need
that the loop over the containers stays inside the pod; the first container
with a new image is a minimum, which exists as `<` is well-founded on the
naturals (`Smallest`).

*BuildReport and HubUpdater.* `HubUpdater` takes a label that may change to any
other tag at any time. `LabelIsPublished` shows that what `BuildReport` does to
the label is no more than that, however webhooks and ticks overlap and fail, if
the tags are among `HubUpdater`'s (`MaxBuilds <= MaxTag`).

*ClusterDeploy.* `IInv` is `Typed`, `Books` and `Tear`. `Typed` has a row for
each request (`Row`): a password is that of the name it was asked for, or it
was drawn while another request had the generator, and the request is
`garbled`. `Books` say what is so before each step: the database of a stack
has the password of a request on that stack (`Based`), since only `applying`
and `create` set it, from a file or a template that such a request rendered
(`Rendered`); a request that deploys knows the database's host, or its polls
are over, or the stack has failed (`Hosted`); and this is so for the charts
that stand (`Served`), which is `DbReached` without its excuses. `Tear` follows
a request that is alone on its stack: nobody else is at work there (`Alone`),
so that what it has deployed so far is still its own (`Progress`), and until a
request reaches the charts a stack that was whole is so (`Kept`). Every step is
one of a few sorts, each with one lemma: those before a stack is chosen
(`EarlyKeeps`); those that keep, or only add to, what the books say
(`RecordsKeep`) and what is deployed (`MendsTear`); the beginning of work on a
stack (`BeginKeeps`), the end of CloudFormation's (`CfEndsKeeps`) and a crash
(`CrashKeeps`).

*HubBackup.* A creation and a deletion of one name that are at work at once
have been noted (`Apart`); a dump is removed only of a snapshot that is not
listed, or of one so noted (`Undumped`), and a creation that lists a snapshot
goes on to ask for its dump. Of an upload, `OneRestore` follows
each part from the backup to the storage.

*CustomDomain.* `UnderWay` says for each step of a change what it has moved;
it starts from anything between the old domain and the new in which no place
has a new domain that contains the old one, so that each place still to come
has a text that one replacement turns into the new domain (`Before`, `PutFacts`).
`Watched` says
that the cached date is never later than the certificate of the domain ita
knows, and that a domain certbot has answered for gets its label with a fresh
certificate.

*MultiCluster.* `OneHandles` is `OneCluster` and that nobody has worked
before the first peer is tried; `PeersLeft` that there is a peer to try.

Only model-checked: liveness (`BlockEnds`, `StoredComesBack`, `Answered`,
`CooldownEnds`, `Follows`, `WorkEnds`, `Published`, `Known`, `Forgotten`),
since fairness is beyond the prover. Every invariant and every action property
of the runs that hold is proved, some under the assumptions the table and the
text name (`Benign`, `Mild`, that of `NothingKept`).

## 6. Where the models end

Liveness of `HubUpdate` is not stated, because it does not hold: an update
that failed half way may be refused for ever.

Several properties except by name what the code does not prevent, and are worth
only what they say beyond it: `Follows` and `WorkEnds` a hub whose channel was
set while an event was handled, an unsupported channel, and an opt-out;
`CooldownEnds` a failed scaling (`stranded`) and a race of two resumes (`met`);
`TagsStand` a tag that an overlapping webhook took back (`lost`); `OneCluster`
a broken connection (`broke`); `BackupKept` a second restore (`again`) and
errors that are overlooked (`slipped`); `ListedWithDump` a creation that failed (`half`) or met a
deletion (`crossed`); `DomainTakesHold` a nested domain that is there already
and a hub half way to a third one; `ClusterDeploy`'s a stack on which two
requests worked at once or one failed (`torn`), a password drawn from another's
seed (`garbled`), and polls used up. In each the hazard itself is what the code
does; where a line of the code says otherwise, a configuration of section 3
shows it.
Other writers of a Deployment than those of `HubUpdater`, such as Kubernetes's
own controllers, are left out: they would make its last attempt, which insists
on a stale object, loop more often.

## 7. What could come next

The return center's books, composed with `HubLifecycle`'s lookup; the second
updater that a custom-domain change starts, composed with `HubUpdater`; a run of
`BuildReport` with `HubUpdater`, from the webhook to the hub.

## 8. Not modelled

* *Orchestrator's database*: its migrations run one at a time at the start of
  a process, or not if the pool gives the unlock another session than the
  lock, which pgx decides; the job that copies the dashboard's database
  overwrites a copy nobody writes.
* *Turkey jobs* are a queue of the same requests that `HubCreate` and
  `HubLifecycle` take from HTTP, and acknowledge them before they handle them;
  the modules let requests come, be lost and be repeated at any time.
* *The return center's books* shorten a visitor's way to `trc_ws`, which asks
  the ConfigMap that `HubLifecycle` has; other caches shorten reads.
* *auth* keeps no state between requests; *dip* and *has* pass requests and
  files through; console, log stream and health checks are output; *tools* is
  a benchmark.
* In `ClusterDeploy`, `eksIpLimitationFix`, the process-wide environment that
  `NewAwsSvs` sets, and the mail that tells the operator what to do next.
* Inside the modelled parts: the contents of charts, secrets, ingresses and
  services; the checks of a request's fields; the label `paused` and the
  return center's ingress, which no other modelled step reads; the theme reset
  in `hc_updateTier`; `hc_restart`, which only deletes pods; Deployments other
  than ita's and reticulum's, which `hc_updateTier` treats in the same loop;
  NFS mounts; the unpacking of a custom client; stream nodes and failed pods,
  which ita's cron jobs report or delete.
