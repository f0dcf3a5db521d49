------------------------------ MODULE HubUpdater ------------------------------
(***************************************************************************)
(* The updater in the ita of a hub: it watches the ConfigMap of the hub's  *)
(* channel, whose labels name the newest tag of each image, and writes new *)
(* tags into the hub's deployments.  Whoever writes to Kubernetes in ita   *)
(* does so between WorkBegin and WorkEnd of k8Man.  An operator may move   *)
(* the hub to another channel meanwhile.                                   *)
(*                                                                         *)
(* The hub has one deployment that takes part, ita's own, which carries    *)
(* the label CHANNEL as well.  A tag is the number of a build.             *)
(***************************************************************************)
EXTENDS Integers, Sequences, FiniteSets

CONSTANTS
  Watchers,     \* informers of the updater; Start takes one that is over
  Nobody,       \* no informer
  MaxTag,       \* bound: tags are 0..MaxTag
  MaxPublishes, \* bound: how often the publisher changes a label
  MaxPosts,     \* bound: how often the operator sets the channel
  MaxFails      \* bound: how many calls fail, restarts of ita included

ASSUME WatcherAssumption == /\ Nobody \notin Watchers /\ "post" \notin Watchers
                            /\ IsFiniteSet(Watchers) /\ Watchers # {}
ASSUME BoundAssumption   == {MaxTag, MaxPublishes, MaxPosts, MaxFails} \subseteq Nat

VARIABLES
  cm, publishes,                \* the label of hubsbuilds-<channel>
  dep, depFresh, noUpdate,      \* the deployment, who read its last version, ita_noUpdate
  containers, stopCh, closed,   \* TurkeyUpdater
  watch, busy,                  \* its informers; _busy of k8Man
  post, posts,                  \* POST /updater
  fails,
  crossed                       \* history: the channel was set while an event was handled

updater  == <<containers, stopCh, closed>>
operator == <<post, posts>>
hub      == <<dep, depFresh, noUpdate, updater, busy, operator, crossed>>
vars     == <<cm, publishes, hub, watch, fails>>

Tag      == 0..MaxTag
None     == -1
Channels == {"dev", "off"}   \* one of SupportedChannels, and one that is not
Post     == "post"

\* deployNewContainer is called with 3, 3, 2 and 1 retries remaining.
Attempts == 1..4

\* A mistake: the retries that remain are counted one too far.
LastLater(a) == a = 5

Last(a) == a = 4

Over     == [pc |-> "idle", on |-> FALSE, news |-> None, tag |-> None, i |-> 0, n |-> 0,
             a |-> 1, d |-> [tag |-> None, channel |-> "off"]]
IdlePost == [pc |-> "idle", channel |-> "off", d |-> [tag |-> None, channel |-> "off"]]

Fail == fails < MaxFails /\ fails' = fails + 1
Fine == UNCHANGED fails

-----------------------------------------------------------------------------
(* The publisher writes a label, and open informers are told: a new tag of *)
(* the image, or, with the tag as it is, the label of another image.       *)

Publish(t) ==
  /\ publishes < MaxPublishes
  /\ cm' = t /\ publishes' = publishes + 1
  /\ watch' = [w \in Watchers |-> IF watch[w].on THEN [watch[w] EXCEPT !.news = t] ELSE watch[w]]
  /\ UNCHANGED <<hub, fails>>

-----------------------------------------------------------------------------
(* The hub's updater: handleEvents.                                        *)

SetPc(w, pc) == watch' = [watch EXCEPT ![w].pc = pc]

\* The loop over the containers that were there when it began, from the i-th
\* on: it stops at the first that does not have the tag, or is over.
Loop(s, c, i) ==
  LET rest == {j \in i..s.n : c[j] # s.tag} IN
  IF rest = {} THEN [Over EXCEPT !.on = s.on, !.news = s.news]
  ELSE [s EXCEPT !.pc = "want", !.a = 1, !.d = Over.d, !.i = CHOOSE j \in rest : \A k \in rest : j <= k]

Busy(w) == watch[w].pc # "idle" \/ watch[w].news # None

\* An event; one queued before the informer was stopped is still handled.
Deliver(w) ==
  LET s == [watch[w] EXCEPT !.tag = watch[w].news, !.news = None, !.n = Len(containers)] IN
  /\ watch[w].pc = "idle" /\ watch[w].news # None
  /\ watch' = [watch EXCEPT ![w] = Loop(s, containers, 1)]
  /\ crossed' = (crossed \/ post.pc # "idle" \/ \E v \in Watchers : watch[v].pc # "idle")
  /\ Fine /\ UNCHANGED <<cm, publishes, dep, depFresh, noUpdate, updater, busy, operator>>

Want(w) ==
  /\ watch[w].pc = "want" /\ ~busy
  /\ SetPc(w, "mark")
  /\ Fine /\ UNCHANGED <<cm, publishes, hub>>

Mark(w) ==
  /\ watch[w].pc = "mark"
  /\ busy' = TRUE /\ SetPc(w, "get")
  /\ Fine /\ UNCHANGED <<cm, publishes, dep, depFresh, noUpdate, updater, operator, crossed>>

\* A mistake: the work goes on.
RecordedBusy(w) ==
  /\ UNCHANGED busy
  /\ containers' = [containers EXCEPT ![watch[w].i] = watch[w].tag]
  /\ watch' = [watch EXCEPT ![w] = Loop(@, containers', @.i + 1)]

\* The container is recorded with the new tag, deployed or not.
Recorded(w) ==
  /\ busy' = FALSE
  /\ containers' = [containers EXCEPT ![watch[w].i] = watch[w].tag]
  /\ watch' = [watch EXCEPT ![w] = Loop(@, containers', @.i + 1)]

\* A mistake: only three attempts are made.
GivenUp(w) ==
  IF watch[w].a = 3
    THEN Recorded(w)
    ELSE /\ busy' = FALSE /\ UNCHANGED containers
         /\ watch' = [watch EXCEPT ![w].pc = "want", ![w].a = @ + 1, ![w].d = Over.d]

\* An attempt that failed ends its work, and another one follows, or none.
Failed(w) ==
  IF Last(watch[w].a)
    THEN Recorded(w)
    ELSE /\ busy' = FALSE /\ UNCHANGED containers
         /\ watch' = [watch EXCEPT ![w].pc = "want", ![w].a = @ + 1, ![w].d = Over.d]

Get(w) ==
  /\ watch[w].pc = "get"
  /\ \/ /\ ~noUpdate /\ Fine
        /\ watch' = [watch EXCEPT ![w].pc = IF Last(watch[w].a) THEN "force" ELSE "wait", ![w].d = dep]
        /\ depFresh' = depFresh \cup {w} /\ UNCHANGED <<busy, containers>>
     \/ noUpdate /\ Fine /\ Recorded(w) /\ UNCHANGED depFresh
     \/ Fail /\ Failed(w) /\ UNCHANGED depFresh
  /\ UNCHANGED <<cm, publishes, dep, noUpdate, stopCh, closed, operator, crossed>>

\* Pods and deployment settle and the deployment is read once more, or not.
Wait(w) ==
  /\ watch[w].pc = "wait"
  /\ \/ /\ watch' = [watch EXCEPT ![w].pc = "update", ![w].d = dep]
        /\ depFresh' = depFresh \cup {w} /\ Fine /\ UNCHANGED <<busy, containers>>
     \/ Fail /\ Failed(w) /\ UNCHANGED depFresh
  /\ UNCHANGED <<cm, publishes, dep, noUpdate, stopCh, closed, operator, crossed>>

\* A mistake: the version is not compared.
PutAnyway(p, d) ==
  /\ dep' = d
  /\ depFresh' = IF d = dep THEN depFresh ELSE {}

\* Update: the whole object is written, if its version is the last.
Put(p, d) ==
  /\ p \in depFresh
  /\ dep' = d
  /\ depFresh' = IF d = dep THEN depFresh ELSE {}

Update(w) ==
  /\ watch[w].pc = "update"
  /\ \/ Put(w, [watch[w].d EXCEPT !.tag = watch[w].tag]) /\ Recorded(w) /\ Fine
     \/ /\ (w \notin depFresh /\ Fine) \/ Fail
        /\ Failed(w) /\ UNCHANGED <<dep, depFresh>>
  /\ UNCHANGED <<cm, publishes, noUpdate, stopCh, closed, operator, crossed>>

\* The last attempt writes until it succeeds, which it never does with an
\* object that somebody else has written since.
ForceUpdate(w) ==
  /\ watch[w].pc = "force"
  /\ Put(w, [watch[w].d EXCEPT !.tag = watch[w].tag]) /\ Recorded(w) /\ Fine
  /\ UNCHANGED <<cm, publishes, noUpdate, stopCh, closed, operator, crossed>>

-----------------------------------------------------------------------------
(* POST /updater: Deployment_setLabel, then Start whatever came of it.     *)

PostAt(pc) == post' = [post EXCEPT !.pc = pc]

PostRecv(c) ==
  /\ post.pc = "idle" /\ posts < MaxPosts
  /\ posts' = posts + 1
  /\ post' = [IdlePost EXCEPT !.pc = "want", !.channel = c]
  /\ crossed' = (crossed \/ \E w \in Watchers : Busy(w))
  /\ Fine /\ UNCHANGED <<cm, publishes, dep, depFresh, noUpdate, updater, watch, busy>>

PostWant ==
  /\ post.pc = "want" /\ ~busy
  /\ PostAt("mark")
  /\ Fine /\ UNCHANGED <<cm, publishes, dep, depFresh, noUpdate, updater, watch, busy, posts, crossed>>

PostMark ==
  /\ post.pc = "mark"
  /\ busy' = TRUE /\ PostAt("get")
  /\ Fine /\ UNCHANGED <<cm, publishes, dep, depFresh, noUpdate, updater, watch, posts, crossed>>

PostGet ==
  /\ post.pc = "get"
  /\ \/ post' = [post EXCEPT !.pc = "update", !.d = dep] /\ depFresh' = depFresh \cup {Post}
        /\ Fine /\ UNCHANGED busy
     \/ Fail /\ busy' = FALSE /\ post' = [IdlePost EXCEPT !.pc = "start"] /\ UNCHANGED depFresh
  /\ UNCHANGED <<cm, publishes, dep, noUpdate, updater, watch, posts, crossed>>

PostUpdate ==
  /\ post.pc = "update"
  /\ busy' = FALSE /\ post' = [IdlePost EXCEPT !.pc = "start"]
  /\ \/ Put(Post, [post.d EXCEPT !.channel = post.channel]) /\ Fine
     \/ ((Post \notin depFresh /\ Fine) \/ Fail) /\ UNCHANGED <<dep, depFresh>>
  /\ UNCHANGED <<cm, publishes, noUpdate, updater, watch, posts, crossed>>

\* Start, under mu_updater: the label of the deployment ...
StartLabel ==
  /\ post.pc = "start"
  /\ \/ post' = [post EXCEPT !.pc = "load", !.channel = dep.channel] /\ Fine
     \/ Fail /\ post' = IdlePost
  /\ UNCHANGED <<cm, publishes, dep, depFresh, noUpdate, updater, watch, busy, posts, crossed>>

\* A mistake: the informer of the old channel is left running.
StopNot(w) == watch[w]

StopIf(w) == IF w = stopCh THEN [watch[w] EXCEPT !.on = FALSE] ELSE watch[w]

\* ... its containers, added to those loaded before; the old informer is told
\* to stop, which is a panic if it was told before; and a new one starts with
\* the event "add".
StartLoad ==
  /\ post.pc = "load"
  /\ post' = IdlePost
  /\ \/ /\ Fine /\ containers' = Append(containers, dep.tag)
        /\ IF stopCh # Nobody /\ closed
             THEN UNCHANGED <<stopCh, closed, watch>>
             ELSE IF post.channel = "off"
               THEN /\ watch' = [w \in Watchers |-> StopIf(w)]
                    /\ closed' = TRUE /\ UNCHANGED stopCh
               ELSE \E w \in Watchers :
                    /\ watch[w] = Over
                    /\ stopCh' = w /\ closed' = FALSE
                    /\ watch' = [v \in Watchers |->
                         IF v = w THEN [Over EXCEPT !.on = TRUE, !.news = cm] ELSE StopIf(v)]
        /\ crossed' = (crossed \/ \E w \in Watchers : Busy(w))
     \/ Fail /\ UNCHANGED <<updater, watch, crossed>>
  /\ UNCHANGED <<cm, publishes, dep, depFresh, noUpdate, busy, posts>>

-----------------------------------------------------------------------------

\* What MakeCfg sets up, by way of Start, for the channel of the label.
Boot ==
  /\ containers' = <<dep.tag>> /\ closed' = FALSE
  /\ LET w == CHOOSE w \in Watchers : TRUE IN
     IF dep.channel = "off"
       THEN stopCh' = Nobody /\ watch' = [v \in Watchers |-> Over]
       ELSE stopCh' = w /\ watch' = [v \in Watchers |->
              IF v = w THEN [Over EXCEPT !.on = TRUE, !.news = cm] ELSE Over]

\* The pod of the hub's ita is replaced, for instance because the updater has
\* updated ita itself.
Restart ==
  /\ Fail /\ Boot
  /\ busy' = FALSE /\ post' = IdlePost /\ depFresh' = {} /\ crossed' = FALSE
  /\ UNCHANGED <<cm, publishes, dep, noUpdate, posts>>

Init ==
  /\ cm = 0 /\ publishes = 0 /\ fails = 0 /\ crossed = FALSE
  /\ dep = [tag |-> 0, channel |-> "dev"] /\ depFresh = {} /\ noUpdate \in BOOLEAN
  /\ containers = <<0>> /\ closed = FALSE /\ stopCh \in Watchers
  /\ watch = [w \in Watchers |->
       IF w = stopCh THEN [Over EXCEPT !.on = TRUE, !.news = 0] ELSE Over]
  /\ busy = FALSE /\ post = IdlePost /\ posts = 0

WatchStep(w) ==
  \/ Deliver(w) \/ Want(w) \/ Mark(w)
  \/ Get(w) \/ Wait(w) \/ Update(w) \/ ForceUpdate(w)

PostStep == PostWant \/ PostMark \/ PostGet \/ PostUpdate \/ StartLabel \/ StartLoad

Next ==
  \/ \E t \in Tag : Publish(t)
  \/ \E w \in Watchers : WatchStep(w)
  \/ \E c \in Channels : PostRecv(c)
  \/ PostStep
  \/ Restart

Spec == Init /\ [][Next]_vars

\* Requests are served and informers deliver.
LiveSpec == Spec /\ WF_vars(PostStep) /\ \A w \in Watchers : WF_vars(WatchStep(w))

-----------------------------------------------------------------------------
(* Properties.                                                             *)

Deployment == [tag : Tag \cup {None}, channel : Channels]

\* Deployments and the updater's books carry tags that were published, and each
\* watcher is at a step of its own (turkeyUpdater.go:22, 142).
TypeOK ==
  /\ cm \in Tag /\ publishes \in 0..MaxPublishes /\ fails \in 0..MaxFails /\ posts \in 0..MaxPosts
  /\ busy \in BOOLEAN /\ noUpdate \in BOOLEAN /\ closed \in BOOLEAN /\ crossed \in BOOLEAN
  /\ dep \in Deployment /\ depFresh \subseteq Watchers \cup {Post}
  /\ containers \in Seq(Tag \cup {None})
  /\ stopCh \in Watchers \cup {Nobody}
  /\ watch \in [Watchers ->
       [pc : {"idle", "want", "mark", "get", "wait", "update", "force"},
        on : BOOLEAN, news : Tag \cup {None}, tag : Tag \cup {None},
        i : Nat, n : Nat, a : Attempts, d : Deployment]]
  /\ post \in [pc : {"idle", "want", "mark", "get", "update", "start", "load"},
               channel : Channels, d : Deployment]

\* Works overlap, because WorkBegin looks at _busy and sets it in two steps;
\* all the same nobody undoes what another one has written meanwhile: a step
\* that changes the image of the deployment leaves the label, and vice versa
\* (k8Man.go:63, turkeyUpdater.go:241, utils.go:83).
NothingUndone == [][dep'.tag = dep.tag \/ dep'.channel = dep.channel]_vars

\* The hub follows one channel: an informer that is not told to stop is the
\* one whose stop channel Start holds and will close (turkeyUpdater.go:90).
OneWatcher == \A w \in Watchers : watch[w].on => w = stopCh /\ ~closed

\* Reasons for which the hub need not follow: the channel was set while an
\* event was handled; it is an unsupported one, or was, so that Start panics;
\* the deployment opts out.
Excused == crossed \/ noUpdate \/ dep.channel = "off" \/ closed \/ stopCh = Nobody

\* Otherwise the tag published last is deployed in the end, although it is
\* recorded whether it was deployed or not, and up to three calls fail.
Follows == []<>Excused \/ <>[](dep.tag = cm)

\* What the log says of an event that is passed over, "NOT updating ... same
\* tag" (turkeyUpdater.go:168): the image that is deployed has the event's tag.
\* It need not have, see HubUpdater_record.cfg.
SameTag ==
  [][\A w \in Watchers : Deliver(w) /\ watch'[w].pc = "idle" => noUpdate \/ dep.tag = watch[w].news]_vars

\* _busy goes down again and again, so that nobody waits for ever, unless a
\* POST has come while an event was handled, and the last attempt to deploy
\* insists on an object that has changed (turkeyUpdater.go:250).
WorkEnds == []<>(~busy) \/ <>[]crossed
=============================================================================
