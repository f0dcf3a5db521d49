----------------------------- MODULE BuildReport ------------------------------
(***************************************************************************)
(* How the tag of a new image is published to the hubs of a channel.       *)
(* DockerHub calls a webhook of the orchestrator, which reads, edits and   *)
(* writes the channel's build report in a bucket; every minute a cron job  *)
(* of the ita in turkey-services starts a goroutine that copies the report *)
(* to the labels of the ConfigMap which the hubs watch (see HubUpdater).   *)
(* A webhook is believed: its tag may be older than the report's, or one   *)
(* that has been there before.  Names differ from those of HubUpdater, so  *)
(* that one module can extend both.                                        *)
(***************************************************************************)
EXTENDS Integers, FiniteSets, Sequences

CONSTANTS
  Repos,     \* image repositories
  Hooks,     \* webhook requests
  Ticks,     \* goroutines of the cron job
  MaxBuilds, \* bound: tags are 0..MaxBuilds
  MaxCalls,  \* bound: how many webhooks arrive
  MaxFailed  \* bound: how many calls fail

ASSUME RepoAssumption  == Repos # {}
ASSUME BuildAssumption == MaxBuilds \in Nat /\ MaxCalls \in Nat /\ MaxFailed \in Nat

VARIABLES
  calls,    \* webhooks so far
  report,   \* the file build-report-<channel>
  hook,     \* the webhook requests
  labels,   \* of the ConfigMap hubsbuilds-<channel>
  fresh,    \* goroutines that have read the ConfigMap's last version
  tick,     \* the goroutines
  copying,  \* _busy of the publisher's k8Man
  failed,
  past,     \* history: the report at first and after each write
  wrote,    \* history: of each image, the tag written last for it
  lost,     \* history: images whose tag another image's webhook took back
  shown,    \* history: which of the past reports the labels show
  late      \* history: goroutines that others have overtaken

told       == <<past, wrote, lost>>
files      == <<calls, report, hook, told>>
labelled   == <<labels, fresh, tick, copying, shown, late>>
reportVars == <<files, labelled, failed>>

BuildTag == 0..MaxBuilds
NoTag    == -1
NoReport == [r \in Repos |-> NoTag]

\* missed and at are history: the images written since the webhook has read
\* the report, and which of the past reports the goroutine has read.
IdleHook == [pc |-> "idle", repo |-> CHOOSE r \in Repos : TRUE, copy |-> NoReport, tag |-> NoTag, missed |-> {}]
IdleTick == [pc |-> "idle", copy |-> NoReport, at |-> 0]

CallFails == failed < MaxFailed /\ failed' = failed + 1
CallWorks == UNCHANGED failed

-----------------------------------------------------------------------------
(* updateGcsTurkeyBuildReportFile: without a lock, on any replica of orch. *)

HookRead(h) ==
  /\ hook[h].pc = "idle" /\ calls < MaxCalls
  /\ calls' = calls + 1
  /\ \/ /\ \E r \in Repos, t \in BuildTag : hook' = [hook EXCEPT ![h] =
                [pc |-> "write", repo |-> r, copy |-> report, tag |-> t, missed |-> {}]]
        /\ CallWorks
     \/ CallFails /\ UNCHANGED hook
  /\ UNCHANGED <<report, told, labelled>>

\* A mistake: only the new tag is written.
EditedAlone(k) == [r \in Repos |-> IF r = k.repo THEN k.tag ELSE 0]

Edited(k) == [k.copy EXCEPT ![k.repo] = k.tag]

\* Who has read the report before has missed this write, and what was written
\* since the copy was made is taken back by it.
Remember(k) ==
  /\ past' = Append(past, report')
  /\ wrote' = [wrote EXCEPT ![k.repo] = k.tag]
  /\ lost' = (lost \cup k.missed) \ {k.repo}

HookWrite(h) ==
  LET k == hook[h] IN
  /\ k.pc = "write"
  /\ \/ /\ report' = Edited(k) /\ CallWorks /\ Remember(k)
        /\ hook' = [g \in Hooks |-> IF g = h THEN IdleHook
                     ELSE IF hook[g].pc = "write" THEN [hook[g] EXCEPT !.missed = @ \cup {k.repo}] ELSE hook[g]]
     \/ CallFails /\ hook' = [hook EXCEPT ![h] = IdleHook] /\ UNCHANGED <<report, told>>
  /\ UNCHANGED <<calls, labelled>>

-----------------------------------------------------------------------------
(* Cronjob_publishTurkeyBuildReport and publishToConfigmap_label.          *)

SetTick(t, s) == tick' = [tick EXCEPT ![t] = s]

\* The next minute.  A report that cannot be read is an empty one.
TickRead(t) ==
  /\ tick[t].pc = "idle"
  /\ \/ SetTick(t, [pc |-> "want", copy |-> report, at |-> Len(past)]) /\ CallWorks
     \/ SetTick(t, [pc |-> "want", copy |-> NoReport, at |-> Len(past)]) /\ CallFails
  /\ late' = late \ {t}
  /\ UNCHANGED <<files, labels, fresh, copying, shown>>

\* WorkBegin sees that nobody is busy ...
TickWant(t) ==
  /\ tick[t].pc = "want" /\ ~copying
  /\ SetTick(t, [tick[t] EXCEPT !.pc = "mark"])
  /\ CallWorks /\ UNCHANGED <<files, labels, fresh, copying, shown, late>>

\* ... and says later that it is.
TickMark(t) ==
  /\ tick[t].pc = "mark"
  /\ copying' = TRUE /\ SetTick(t, [tick[t] EXCEPT !.pc = "get"])
  /\ CallWorks /\ UNCHANGED <<files, labels, fresh, shown, late>>

\* The error of Get is logged; the labels of an object that is not there are
\* a nil map, and to write to it ends the process, which starts anew.
TickGet(t) ==
  /\ tick[t].pc = "get"
  /\ \/ /\ SetTick(t, [tick[t] EXCEPT !.pc = "update"])
        /\ fresh' = fresh \cup {t} /\ CallWorks /\ UNCHANGED copying
     \/ /\ CallFails /\ copying' = FALSE
        /\ IF tick[t].copy = NoReport
             THEN SetTick(t, IdleTick) /\ fresh' = fresh \ {t}
             ELSE tick' = [u \in Ticks |-> IdleTick] /\ fresh' = {}
  /\ UNCHANGED <<files, labels, shown, late>>

\* A mistake: an empty report is copied as well.
MergedBlindly(t) == tick[t].copy

\* A mistake: a label goes forward only.
MergedForward(t) == [r \in Repos |-> IF tick[t].copy[r] > labels[r] THEN tick[t].copy[r] ELSE labels[r]]

\* A mistake: a label that is set is kept.
MergedOnce(t) == [r \in Repos |-> IF labels[r] # 0 \/ tick[t].copy[r] = NoTag THEN labels[r] ELSE tick[t].copy[r]]

Merged(t) == [r \in Repos |-> IF tick[t].copy[r] = NoTag THEN labels[r] ELSE tick[t].copy[r]]

\* The API server refuses a version that is not the last, and does not count
\* a write that says nothing new.
TickUpdate(t) ==
  /\ tick[t].pc = "update"
  /\ copying' = FALSE /\ SetTick(t, IdleTick)
  /\ \/ /\ t \in fresh /\ Merged(t) # labels /\ CallWorks
        /\ labels' = Merged(t) /\ fresh' = {}
        /\ shown' = tick[t].at /\ late' = Ticks \ {t}
     \/ /\ ((t \notin fresh \/ Merged(t) = labels) /\ CallWorks) \/ CallFails
        /\ fresh' = fresh \ {t} /\ UNCHANGED <<labels, shown, late>>
  /\ UNCHANGED files

-----------------------------------------------------------------------------

ReportInit ==
  /\ calls = 0 /\ report = [r \in Repos |-> 0] /\ hook = [h \in Hooks |-> IdleHook]
  /\ past = <<report>> /\ wrote = report /\ lost = {}
  /\ labels = report /\ fresh = {} /\ tick = [t \in Ticks |-> IdleTick] /\ copying = FALSE
  /\ shown = 1 /\ late = {} /\ failed = 0

TickStep(t) == TickRead(t) \/ TickWant(t) \/ TickMark(t) \/ TickGet(t) \/ TickUpdate(t)

ReportNext ==
  \/ \E h \in Hooks : HookRead(h) \/ HookWrite(h)
  \/ \E t \in Ticks : TickStep(t)

ReportSpec == ReportInit /\ [][ReportNext]_reportVars

\* Requests are served and the cron job ticks.
ReportLiveSpec ==
  ReportSpec /\ (\A h \in Hooks : WF_reportVars(HookWrite(h))) /\ (\A t \in Ticks : WF_reportVars(TickStep(t)))

-----------------------------------------------------------------------------
(* Properties.                                                             *)

\* The report and the ConfigMap carry tags of webhooks and nothing else, and
\* each webhook and each tick is at a step of its own
\* (webhooks_docker.go:95, cron_jobs.go:167).
ReportTypeOK ==
  /\ calls \in 0..MaxCalls /\ failed \in 0..MaxFailed
  /\ report \in [Repos -> BuildTag] /\ wrote \in [Repos -> BuildTag] /\ labels \in [Repos -> BuildTag]
  /\ hook \in [Hooks -> [pc : {"idle", "write"}, repo : Repos, copy : [Repos -> BuildTag \cup {NoTag}],
                         tag : BuildTag \cup {NoTag}, missed : SUBSET Repos]]
  /\ tick \in [Ticks -> [pc : {"idle", "want", "mark", "get", "update"},
                         copy : [Repos -> BuildTag] \cup {NoReport}, at : Nat]]
  /\ past \in Seq([Repos -> BuildTag]) /\ shown \in 1..Len(past)
  /\ fresh \subseteq Ticks /\ late \subseteq Ticks /\ lost \subseteq Repos
  /\ copying \in BOOLEAN

\* The report has, of each image, the tag that a webhook wrote last for it,
\* unless the webhook of another image had read the report before that write
\* and written it after: the file is edited without a lock
\* (webhooks_docker.go:95).  No other loss is excused, and the next webhook
\* of the image ends the excuse.
TagsStand == \A r \in Repos \ lost : report[r] = wrote[r]

\* Each change of the label shows the whole report as it stood after one of
\* its writes, and none that is before the one shown so far, unless another
\* goroutine changed the label after the one at work had read the report:
\* k8Man is asked only then (cron_jobs.go:167, k8Man.go:63).
LabelForward ==
  [][labels' # labels => /\ labels' = past[shown']
                         /\ shown' < shown => \E t \in late : tick[t].pc = "update" /\ tick'[t].pc = "idle"]_reportVars

\* Whatever overlaps in the publisher and fails there, the tags of the report
\* are on the label in the end.
Published == <>[](labels = report)
=============================================================================
