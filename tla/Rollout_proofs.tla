--------------------------- MODULE Rollout_proofs ---------------------------
(* Proofs about the way of a tag to the hubs: BuildReport, for any images, *)
(* webhooks and goroutines, and HubUpdater, for any number of informers    *)
(* and of tags.                                                            *)
EXTENDS BuildReport, HubUpdater, SequenceTheorems, WellFoundedInduction, TLAPS

-----------------------------------------------------------------------------
(* BuildReport.                                                            *)

Tags == [Repos -> BuildTag]

\* What a webhook holds, and a goroutine.
HookSet == [pc : {"idle", "write"}, repo : Repos, copy : [Repos -> BuildTag \cup {NoTag}],
            tag : BuildTag \cup {NoTag}, missed : SUBSET Repos]
TickSet == [pc : {"idle", "want", "mark", "get", "update"}, copy : Tags \cup {NoReport}, at : Nat]

-----------------------------------------------------------------------------
(* Types.  A webhook that is about to write holds tags and nothing else, a *)
(* goroutine has read a report that there has been.                        *)

HookTypes == \A h \in Hooks : hook[h].pc = "write" => hook[h].copy \in Tags /\ hook[h].tag \in BuildTag

TickTypes == \A t \in Ticks : tick[t].pc # "idle" => tick[t].at \in 1..Len(past)

ReportTyped == ReportTypeOK /\ HookTypes /\ TickTypes

LEMMA NumberTypes == 0 \in BuildTag /\ NoTag \notin BuildTag /\ BuildTag \subseteq Int
BY BuildAssumption DEF BuildTag, NoTag

LEMMA IdleTypes == IdleHook \in HookSet /\ IdleTick \in TickSet
<1>1. \E r \in Repos : TRUE
  BY RepoAssumption
<1>2. (CHOOSE r \in Repos : TRUE) \in Repos
  BY <1>1
<1>3. NoReport \in [Repos -> BuildTag \cup {NoTag}]
  BY DEF NoReport
<1>. QED  BY <1>2, <1>3 DEF IdleHook, IdleTick, HookSet, TickSet

LEMMA FailedType ==
  ASSUME ReportTypeOK, CallFails \/ CallWorks
  PROVE  failed' \in 0..MaxFailed
BY BuildAssumption DEF ReportTypeOK, CallFails, CallWorks

LEMMA MergedType ==
  ASSUME ReportTypeOK, NEW t \in Ticks
  PROVE  /\ Merged(t) \in Tags
         /\ tick[t].copy = NoReport => Merged(t) = labels
         /\ tick[t].copy # NoReport => Merged(t) = tick[t].copy
<1>1. labels \in Tags /\ tick[t].copy \in Tags \cup {NoReport}
  BY DEF ReportTypeOK, Tags
<1>2. CASE tick[t].copy = NoReport
  <2>1. \A r \in Repos : tick[t].copy[r] = NoTag
    BY <1>2 DEF NoReport
  <2>2. Merged(t) = labels
    BY <1>1, <2>1 DEF Merged, Tags
  <2>. QED  BY <1>1, <1>2, <2>2
<1>3. CASE tick[t].copy # NoReport
  <2>1. tick[t].copy \in Tags
    BY <1>1, <1>3
  <2>2. \A r \in Repos : tick[t].copy[r] # NoTag
    BY <2>1, NumberTypes DEF Tags
  <2>3. Merged(t) = tick[t].copy
    BY <2>1, <2>2 DEF Merged, Tags
  <2>. QED  BY <1>3, <2>1, <2>3
<1>. QED  BY <1>2, <1>3

\* What a read of the report leaves behind.
LEMMA ReadFacts ==
  ASSUME ReportTyped, NEW h \in Hooks, HookRead(h)
  PROVE  /\ hook' \in [Hooks -> HookSet]
         /\ \A g \in Hooks :
              \/ hook'[g] = hook[g]
              \/ /\ hook'[g].copy = report /\ hook'[g].tag \in BuildTag
                 /\ hook'[g].pc = "write" /\ hook'[g].missed = {}
<1>1. hook \in [Hooks -> HookSet] /\ report \in Tags
  BY DEF ReportTyped, ReportTypeOK, HookSet, Tags
<1>2. CASE UNCHANGED hook
  BY <1>1, <1>2
<1>3. CASE \E r \in Repos, t \in BuildTag : hook' = [hook EXCEPT ![h] =
             [pc |-> "write", repo |-> r, copy |-> report, tag |-> t, missed |-> {}]]
  <2>1. PICK r \in Repos, t \in BuildTag : hook' = [hook EXCEPT ![h] =
               [pc |-> "write", repo |-> r, copy |-> report, tag |-> t, missed |-> {}]]
    BY <1>3
  <2>2. [pc |-> "write", repo |-> r, copy |-> report, tag |-> t, missed |-> {}] \in HookSet
    BY <1>1 DEF HookSet, Tags
  <2>. QED  BY <1>1, <2>1, <2>2
<1>. QED  BY <1>2, <1>3 DEF HookRead

LEMMA ReadTyped ==
  ASSUME ReportTyped, NEW h \in Hooks, HookRead(h)
  PROVE  ReportTyped'
<1>1. calls' \in 0..MaxCalls /\ failed' \in 0..MaxFailed
  BY BuildAssumption, FailedType DEF ReportTyped, ReportTypeOK, HookRead
<1>2. HookTypes'
  <2>1. report \in Tags
    BY DEF ReportTyped, ReportTypeOK, Tags
  <2>. QED  BY <2>1, ReadFacts DEF ReportTyped, HookTypes
<1>3. UNCHANGED <<report, told, labelled>>
  BY DEF HookRead
<1>. QED  BY <1>1, <1>2, <1>3, ReadFacts DEF ReportTyped, ReportTypeOK, TickTypes, HookSet, told, labelled

\* What a write of the report leaves behind.
LEMMA WriteFacts ==
  ASSUME ReportTyped, NEW h \in Hooks, HookWrite(h)
  PROVE  /\ hook' \in [Hooks -> HookSet]
         /\ hook'[h].pc = "idle"
         /\ \A g \in Hooks : hook'[g].pc = "write" =>
              hook[g].pc = "write" /\ hook'[g].copy = hook[g].copy /\ hook'[g].tag = hook[g].tag
         /\ hook[h].copy \in Tags /\ hook[h].tag \in BuildTag /\ hook[h].repo \in Repos
         /\ hook[h].missed \subseteq Repos /\ Edited(hook[h]) \in Tags
<1>1. hook \in [Hooks -> HookSet] /\ hook[h].pc = "write"
  BY DEF ReportTyped, ReportTypeOK, HookSet, HookWrite
<1>2. hook[h].copy \in Tags /\ hook[h].tag \in BuildTag /\ hook[h].repo \in Repos /\ hook[h].missed \subseteq Repos
  BY <1>1 DEF ReportTyped, HookTypes, HookSet
<1>3. Edited(hook[h]) \in Tags
  BY <1>2 DEF Edited, Tags
<1>4. IdleHook \in HookSet /\ IdleHook.pc = "idle"
  BY IdleTypes DEF IdleHook
<1>5. CASE hook' = [hook EXCEPT ![h] = IdleHook]
  BY <1>1, <1>2, <1>3, <1>4, <1>5
<1>6. CASE hook' = [g \in Hooks |-> IF g = h THEN IdleHook
                    ELSE IF hook[g].pc = "write" THEN [hook[g] EXCEPT !.missed = @ \cup {hook[h].repo}] ELSE hook[g]]
  <2>1. ASSUME NEW g \in Hooks PROVE [hook[g] EXCEPT !.missed = @ \cup {hook[h].repo}] \in HookSet
    BY <1>1, <1>2 DEF HookSet
  <2>2. hook' \in [Hooks -> HookSet]
    BY <1>1, <1>4, <1>6, <2>1
  <2>3. ASSUME NEW g \in Hooks, hook'[g].pc = "write"
        PROVE  hook[g].pc = "write" /\ hook'[g].copy = hook[g].copy /\ hook'[g].tag = hook[g].tag
    BY <1>1, <1>4, <1>6, <2>3 DEF HookSet
  <2>. QED  BY <1>2, <1>3, <1>4, <1>6, <2>2, <2>3
<1>. QED  BY <1>5, <1>6 DEF HookWrite

LEMMA WriteTyped ==
  ASSUME ReportTyped, NEW h \in Hooks, HookWrite(h)
  PROVE  ReportTyped'
<1>1. failed' \in 0..MaxFailed
  BY FailedType DEF ReportTyped, HookWrite
<1>2. report \in Tags /\ wrote \in Tags /\ past \in Seq(Tags) /\ lost \subseteq Repos
  BY DEF ReportTyped, ReportTypeOK, Tags
<1>3. /\ report' \in Tags /\ wrote' \in Tags /\ past' \in Seq(Tags) /\ lost' \subseteq Repos
      /\ 1..Len(past) \subseteq 1..Len(past')
  <2>1. CASE UNCHANGED <<report, told>>
    BY <1>2, <2>1 DEF told
  <2>2. CASE report' = Edited(hook[h]) /\ Remember(hook[h])
    <3>1. report' \in Tags /\ wrote' \in Tags /\ lost' \subseteq Repos
      BY <1>2, <2>2, WriteFacts DEF Remember, Tags
    <3>2. past' \in Seq(Tags) /\ Len(past') = Len(past) + 1
      BY <1>2, <2>2, <3>1 DEF Remember
    <3>. QED  BY <1>2, <3>1, <3>2
  <2>. QED  BY <2>1, <2>2 DEF HookWrite
<1>4. HookTypes'
  BY WriteFacts DEF ReportTyped, HookTypes
<1>5. UNCHANGED <<calls, labelled>>
  BY DEF HookWrite
<1>. QED  BY <1>1, <1>3, <1>4, <1>5, WriteFacts DEF ReportTyped, ReportTypeOK, TickTypes, Tags, HookSet, labelled

\* Whoever is at work after such a step was before, with the same report.
KeepsReport ==
  \A u \in Ticks : tick'[u].pc # "idle" =>
    tick[u].pc # "idle" /\ tick'[u].at = tick[u].at /\ tick'[u].copy = tick[u].copy

LEMMA KeepsFacts ==
  ASSUME tick \in [Ticks -> TickSet], NEW t \in Ticks, TickWant(t) \/ TickMark(t) \/ TickGet(t)
  PROVE  KeepsReport
<1>1. IdleTick.pc = "idle" /\ tick[t].pc \in {"want", "mark", "get"}
  BY DEF IdleTick, TickWant, TickMark, TickGet
<1>2. CASE \E pc \in {"mark", "get", "update"} : tick' = [tick EXCEPT ![t] = [tick[t] EXCEPT !.pc = pc]]
  <2>1. \A u \in Ticks : u # t => tick'[u] = tick[u]
    BY <1>2
  <2>2. tick'[t].at = tick[t].at /\ tick'[t].copy = tick[t].copy
    BY <1>2 DEF TickSet
  <2>. QED  BY <1>1, <2>1, <2>2 DEF KeepsReport
<1>3. CASE tick' = [tick EXCEPT ![t] = IdleTick]
  BY <1>1, <1>3 DEF KeepsReport
<1>4. CASE tick' = [u \in Ticks |-> IdleTick]
  BY <1>1, <1>4 DEF KeepsReport
<1>. QED  BY <1>2, <1>3, <1>4 DEF TickWant, TickMark, TickGet, SetTick

LEMMA TickTyped ==
  ASSUME ReportTyped, NEW t \in Ticks, TickStep(t)
  PROVE  ReportTyped'
<1>1. failed' \in 0..MaxFailed /\ UNCHANGED files
  BY FailedType DEF ReportTyped, TickStep, TickRead, TickWant, TickMark, TickGet, TickUpdate
<1>2. /\ tick \in [Ticks -> TickSet] /\ report \in Tags /\ labels \in Tags
      /\ Len(past) \in Nat /\ Len(past) \in 1..Len(past)
  BY DEF ReportTyped, ReportTypeOK, TickSet, Tags
<1>3. tick' \in [Ticks -> TickSet]
  BY <1>2, IdleTypes
  DEF TickStep, TickRead, TickWant, TickMark, TickGet, TickUpdate, SetTick, TickSet
<1>4. labels' \in Tags
  BY <1>2, MergedType DEF ReportTyped, TickStep, TickRead, TickWant, TickMark, TickGet, TickUpdate
<1>5. fresh' \subseteq Ticks /\ late' \subseteq Ticks
  BY DEF ReportTyped, ReportTypeOK, TickStep, TickRead, TickWant, TickMark, TickGet, TickUpdate
<1>6. copying' \in BOOLEAN
  BY DEF ReportTyped, ReportTypeOK, TickStep, TickRead, TickWant, TickMark, TickGet, TickUpdate
<1>7. TickTypes' /\ shown' \in 1..Len(past)
  <2>1. past' = past
    BY <1>1 DEF files, told
  <2>2. CASE TickRead(t)
    <3>1. /\ tick'[t].at = Len(past) /\ UNCHANGED shown
          /\ \A u \in Ticks : u # t => tick'[u] = tick[u]
      BY <1>2, <2>2 DEF TickRead, SetTick
    <3>. QED  BY <1>2, <2>1, <3>1 DEF ReportTyped, ReportTypeOK, TickTypes
  <2>3. CASE TickWant(t) \/ TickMark(t) \/ TickGet(t)
    <3>1. KeepsReport
      BY <1>2, <2>3, KeepsFacts
    <3>2. UNCHANGED shown
      BY <2>3 DEF TickWant, TickMark, TickGet
    <3>. QED  BY <2>1, <3>1, <3>2 DEF KeepsReport, ReportTyped, ReportTypeOK, TickTypes
  <2>4. CASE TickUpdate(t)
    <3>1. IdleTick.pc = "idle" /\ tick[t].at \in 1..Len(past)
      BY <2>4 DEF IdleTick, ReportTyped, TickTypes, TickUpdate
    <3>. QED  BY <1>2, <2>1, <2>4, <3>1 DEF ReportTyped, ReportTypeOK, TickTypes, TickUpdate, SetTick
  <2>. QED  BY <2>2, <2>3, <2>4, <2>4 DEF TickStep
<1>. QED  BY <1>1, <1>3, <1>4, <1>5, <1>6, <1>7
          DEF ReportTyped, ReportTypeOK, HookTypes, Tags, TickSet, files, told

LEMMA ReportTypedInit == ReportInit => ReportTyped
<1>. SUFFICES ASSUME ReportInit PROVE ReportTyped
  OBVIOUS
<1>1. report \in Tags /\ wrote \in Tags /\ labels \in Tags
  BY NumberTypes DEF ReportInit, Tags
<1>2. hook \in [Hooks -> HookSet] /\ HookTypes
  BY IdleTypes DEF ReportInit, HookTypes, IdleHook
<1>3. tick \in [Ticks -> TickSet] /\ TickTypes
  BY IdleTypes DEF ReportInit, TickTypes, IdleTick
<1>4. calls \in 0..MaxCalls /\ failed \in 0..MaxFailed
  BY BuildAssumption DEF ReportInit
<1>5. fresh \subseteq Ticks /\ late \subseteq Ticks /\ lost \subseteq Repos /\ copying \in BOOLEAN
  BY DEF ReportInit
<1>6. past \in Seq(Tags) /\ shown \in 1..Len(past)
  BY <1>1 DEF ReportInit
<1>. QED  BY <1>1, <1>2, <1>3, <1>4, <1>5, <1>6 DEF ReportTyped, ReportTypeOK, Tags, HookSet, TickSet

LEMMA ReportTypedNext == ReportTyped /\ [ReportNext]_reportVars => ReportTyped'
<1>. SUFFICES ASSUME ReportTyped, [ReportNext]_reportVars PROVE ReportTyped'
  OBVIOUS
<1>1. CASE \E h \in Hooks : HookRead(h)
  BY <1>1, ReadTyped
<1>2. CASE \E h \in Hooks : HookWrite(h)
  BY <1>2, WriteTyped
<1>3. CASE \E t \in Ticks : TickStep(t)
  BY <1>3, TickTyped
<1>4. CASE UNCHANGED reportVars
  BY <1>4 DEF ReportTyped, ReportTypeOK, HookTypes, TickTypes, reportVars, files, labelled, told
<1>. QED  BY <1>1, <1>2, <1>3, <1>4 DEF ReportNext

\* Report, ConfigMap and whoever copies between them carry tags of webhooks
\* (webhooks_docker.go:95, cron_jobs.go:167).
THEOREM ReportTypeCorrect == ReportSpec => []ReportTypeOK
<1>1. ReportTyped => ReportTypeOK
  BY DEF ReportTyped
<1>. QED  BY ReportTypedInit, ReportTypedNext, <1>1, PTL DEF ReportSpec

-----------------------------------------------------------------------------
(* What the report keeps.  A webhook holds, of each image that nobody has  *)
(* written since, what was written last, or an excuse.                     *)

HooksKnow ==
  \A h \in Hooks : hook[h].pc = "write" =>
    \A r \in Repos \ (lost \cup hook[h].missed) : hook[h].copy[r] = wrote[r]

Stands == ReportTyped /\ TagsStand /\ HooksKnow

LEMMA ReadStands ==
  ASSUME Stands, NEW h \in Hooks, HookRead(h)
  PROVE  Stands'
<1>1. ReportTyped'
  BY ReadTyped DEF Stands
<1>2. UNCHANGED <<report, wrote, lost>>
  BY DEF HookRead, told
<1>3. HooksKnow'
  <2>1. ASSUME NEW g \in Hooks, hook'[g].pc = "write", NEW r \in Repos \ (lost \cup hook'[g].missed)
        PROVE  hook'[g].copy[r] = wrote[r]
    <3>1. CASE hook'[g] = hook[g]
      BY <2>1, <3>1 DEF Stands, HooksKnow
    <3>2. CASE hook'[g].copy = report
      BY <2>1, <3>2 DEF Stands, TagsStand
    <3>. QED  BY <3>1, <3>2, ReadFacts DEF Stands
  <2>. QED  BY <1>2, <2>1 DEF HooksKnow
<1>. QED  BY <1>1, <1>2, <1>3 DEF Stands, TagsStand

LEMMA WriteStands ==
  ASSUME Stands, NEW h \in Hooks, HookWrite(h)
  PROVE  Stands'
<1>. DEFINE k == hook[h]
<1>1. ReportTyped' /\ ReportTyped /\ hook \in [Hooks -> HookSet] /\ wrote \in Tags /\ k.pc = "write"
  BY WriteTyped DEF Stands, ReportTyped, ReportTypeOK, HookSet, Tags, HookWrite
<1>2. CASE UNCHANGED <<report, told>> /\ hook' = [hook EXCEPT ![h] = IdleHook]
  <2>1. \A g \in Hooks : hook'[g].pc = "write" => hook'[g] = hook[g]
    BY <1>1, <1>2 DEF IdleHook
  <2>2. UNCHANGED <<report, wrote, lost>>
    BY <1>2 DEF told
  <2>. QED  BY <1>1, <2>1, <2>2 DEF Stands, TagsStand, HooksKnow
<1>3. CASE /\ report' = Edited(k) /\ Remember(k)
           /\ hook' = [g \in Hooks |-> IF g = h THEN IdleHook
                       ELSE IF hook[g].pc = "write" THEN [hook[g] EXCEPT !.missed = @ \cup {k.repo}] ELSE hook[g]]
  <2>1. k.copy \in Tags /\ k.tag \in BuildTag /\ k.repo \in Repos
    BY <1>1, WriteFacts
  <2>2. /\ report'[k.repo] = k.tag /\ \A r \in Repos \ {k.repo} : report'[r] = k.copy[r]
        /\ wrote'[k.repo] = k.tag /\ \A r \in Repos \ {k.repo} : wrote'[r] = wrote[r]
        /\ lost' = (lost \cup k.missed) \ {k.repo}
    BY <1>1, <1>3, <2>1 DEF Edited, Remember, Tags
  <2>3. TagsStand'
    <3>1. ASSUME NEW r \in Repos \ lost', r # k.repo PROVE k.copy[r] = wrote[r]
      BY <1>1, <2>2, <3>1 DEF Stands, HooksKnow
    <3>. QED  BY <2>2, <3>1 DEF TagsStand
  <2>4. HooksKnow'
    <3>1. ASSUME NEW g \in Hooks, hook'[g].pc = "write", NEW r \in Repos \ (lost' \cup hook'[g].missed)
          PROVE  hook'[g].copy[r] = wrote'[r]
      <4>1. g # h /\ hook[g].pc = "write"
        BY <1>3, <3>1 DEF IdleHook
      <4>2. hook'[g] = [hook[g] EXCEPT !.missed = @ \cup {k.repo}]
        BY <1>3, <4>1
      <4>3. hook[g] \in HookSet
        BY <1>1
      <4>4. hook'[g].missed = hook[g].missed \cup {k.repo} /\ hook'[g].copy = hook[g].copy
        BY <4>2, <4>3 DEF HookSet
      <4>5. r # k.repo /\ r \notin lost /\ r \notin hook[g].missed
        BY <2>2, <3>1, <4>4
      <4>. QED  BY <2>2, <3>1, <4>1, <4>4, <4>5 DEF Stands, HooksKnow
    <3>. QED  BY <3>1 DEF HooksKnow
  <2>. QED  BY <1>1, <2>3, <2>4 DEF Stands
<1>. QED  BY <1>2, <1>3 DEF HookWrite

\* Of each image the report has the tag written last, in whatever order the
\* webhooks arrive and whatever tags they carry, unless another image's webhook
\* overlapped (webhooks_docker.go:95).
THEOREM LastTagStands == ReportSpec => []TagsStand
<1>1. ReportInit => Stands
  BY ReportTypedInit DEF ReportInit, Stands, TagsStand, HooksKnow, IdleHook
<1>2. Stands /\ [ReportNext]_reportVars => Stands'
  <2>. SUFFICES ASSUME Stands, [ReportNext]_reportVars PROVE Stands'
    OBVIOUS
  <2>1. CASE \E h \in Hooks : HookRead(h)
    BY <2>1, ReadStands
  <2>2. CASE \E h \in Hooks : HookWrite(h)
    BY <2>2, WriteStands
  <2>3. CASE (\E t \in Ticks : TickStep(t)) \/ UNCHANGED reportVars
    <3>1. UNCHANGED <<report, hook, wrote, lost>>
      BY <2>3 DEF TickStep, TickRead, TickWant, TickMark, TickGet, TickUpdate, files, told, reportVars
    <3>2. ReportTyped'
      BY ReportTypedNext DEF Stands
    <3>. QED  BY <3>1, <3>2 DEF Stands, TagsStand, HooksKnow
  <2>. QED  BY <2>1, <2>2, <2>3 DEF ReportNext
<1>3. Stands => TagsStand
  BY DEF Stands
<1>. QED  BY <1>1, <1>2, <1>3, PTL DEF ReportSpec

-----------------------------------------------------------------------------
(* What the label shows.  A goroutine that nobody has overtaken holds a    *)
(* report that is not before the one shown.                                *)

TicksAhead ==
  \A t \in Ticks : tick[t].pc # "idle" =>
    /\ t \notin late => shown <= tick[t].at
    /\ tick[t].copy # NoReport => tick[t].copy = past[tick[t].at]

Shows == ReportTyped /\ report = past[Len(past)] /\ labels = past[shown] /\ TicksAhead

\* What LabelForward says of a step.
Ahead == labels' # labels =>
  /\ labels' = past[shown']
  /\ shown' < shown => \E t \in late : tick[t].pc = "update" /\ tick'[t].pc = "idle"

LEMMA HookShows ==
  ASSUME Shows, NEW h \in Hooks, HookRead(h) \/ HookWrite(h)
  PROVE  Shows' /\ labels' = labels
<1>1. ReportTyped' /\ past \in Seq(Tags) /\ shown \in 1..Len(past)
  BY ReadTyped, WriteTyped DEF Shows, ReportTyped, ReportTypeOK, Tags
<1>2. UNCHANGED <<labels, tick, shown, late>>
  BY DEF HookRead, HookWrite, labelled
<1>3. /\ report' = past'[Len(past')]
      /\ \A n \in 1..Len(past) : past'[n] = past[n]
  <2>1. CASE UNCHANGED <<report, told>>
    BY <2>1 DEF Shows, told
  <2>2. CASE Remember(hook[h]) /\ HookWrite(h) /\ report' = Edited(hook[h])
    <3>1. past' = Append(past, report') /\ report' \in Tags
      BY <2>2, WriteFacts DEF Remember, Shows
    <3>. QED  BY <1>1, <3>1
  <2>. QED  BY <2>1, <2>2 DEF HookRead, HookWrite
<1>. QED  BY <1>1, <1>2, <1>3 DEF Shows, TicksAhead, ReportTyped, TickTypes

LEMMA TickShows ==
  ASSUME Shows, NEW t \in Ticks, TickStep(t)
  PROVE  Shows' /\ Ahead
<1>1. /\ ReportTyped' /\ tick \in [Ticks -> TickSet] /\ shown \in 1..Len(past) /\ Len(past) \in Nat
      /\ IdleTick.pc = "idle" /\ report # NoReport
  <2>1. report \in Tags
    BY DEF Shows, ReportTyped, ReportTypeOK, Tags
  <2>2. report # NoReport
    BY <2>1, RepoAssumption, NumberTypes DEF NoReport, Tags
  <2>. QED
    BY <2>2, TickTyped DEF Shows, ReportTyped, ReportTypeOK, TickSet, Tags, IdleTick
<1>2. UNCHANGED <<report, past>>
  BY DEF TickStep, TickRead, TickWant, TickMark, TickGet, TickUpdate, files, told
<1>3. CASE TickRead(t)
  <2>1. UNCHANGED <<labels, shown>> /\ late' = late \ {t}
    BY <1>3 DEF TickRead
  <2>2. \A u \in Ticks : u # t => tick'[u] = tick[u]
    BY <1>1, <1>3 DEF TickRead, SetTick
  <2>3. tick'[t].at = Len(past) /\ tick'[t].copy \in {report, NoReport}
    BY <1>1, <1>3 DEF TickRead, SetTick
  <2>4. TicksAhead'
    BY <1>1, <1>2, <2>1, <2>2, <2>3 DEF Shows, TicksAhead
  <2>. QED  BY <1>1, <1>2, <2>1, <2>4 DEF Shows, Ahead
<1>4. CASE TickWant(t) \/ TickMark(t) \/ TickGet(t)
  <2>1. UNCHANGED <<labels, shown, late>>
    BY <1>4 DEF TickWant, TickMark, TickGet
  <2>2. KeepsReport
    BY <1>1, <1>4, KeepsFacts
  <2>3. TicksAhead'
    BY <1>2, <2>1, <2>2 DEF Shows, TicksAhead, KeepsReport
  <2>. QED  BY <1>1, <1>2, <2>1, <2>3 DEF Shows, Ahead
<1>5. CASE TickUpdate(t)
  <2>1. tick[t].pc = "update" /\ tick'[t].pc = "idle" /\ \A u \in Ticks : u # t => tick'[u] = tick[u]
    BY <1>1, <1>5 DEF TickUpdate, SetTick
  <2>2. CASE UNCHANGED <<labels, shown, late>>
    <3>1. TicksAhead'
      BY <1>2, <2>1, <2>2 DEF Shows, TicksAhead
    <3>. QED  BY <1>1, <1>2, <2>2, <3>1 DEF Shows, Ahead
  <2>3. CASE labels' = Merged(t) /\ Merged(t) # labels /\ shown' = tick[t].at /\ late' = Ticks \ {t}
    <3>1. labels' = tick[t].copy /\ tick[t].copy # NoReport
      BY <2>3, MergedType DEF Shows, ReportTyped
    <3>2. labels' = past[shown']
      BY <2>1, <2>3, <3>1 DEF Shows, TicksAhead
    <3>3. TicksAhead'
      <4>1. \A u \in Ticks : tick'[u].pc # "idle" => u # t /\ u \in late'
        BY <2>1, <2>3
      <4>. QED  BY <1>2, <2>1, <4>1 DEF Shows, TicksAhead
    <3>4. t \notin late => ~(shown' < shown)
      <4>1. tick[t].at \in Nat /\ shown \in Nat
        BY <1>1 DEF TickSet
      <4>. QED  BY <2>1, <2>3, <4>1 DEF Shows, TicksAhead
    <3>. QED  BY <1>1, <1>2, <2>1, <3>2, <3>3, <3>4 DEF Shows, Ahead
  <2>. QED  BY <1>5, <2>2, <2>3 DEF TickUpdate
<1>. QED  BY <1>3, <1>4, <1>5 DEF TickStep

\* The label moves to what the report was and never back, unless a goroutine
\* writes what another one has overtaken (cron_jobs.go:167, k8Man.go:63).
THEOREM LabelsGoForward == ReportSpec => LabelForward
<1>1. ReportInit => Shows
  BY ReportTypedInit DEF ReportInit, Shows, TicksAhead, IdleTick
<1>2. Shows /\ [ReportNext]_reportVars => Shows' /\ (Ahead \/ UNCHANGED labels)
  <2>. SUFFICES ASSUME Shows, [ReportNext]_reportVars PROVE Shows' /\ (Ahead \/ UNCHANGED labels)
    OBVIOUS
  <2>1. CASE \E h \in Hooks : HookRead(h) \/ HookWrite(h)
    BY <2>1, HookShows
  <2>2. CASE \E t \in Ticks : TickStep(t)
    BY <2>2, TickShows
  <2>3. CASE UNCHANGED reportVars
    <3>1. ReportTyped'
      BY ReportTypedNext DEF Shows
    <3>. QED  BY <2>3, <3>1 DEF Shows, TicksAhead, reportVars, files, labelled, told
  <2>. QED  BY <2>1, <2>2, <2>3 DEF ReportNext
<1>3. (Ahead \/ UNCHANGED labels) =>
        [labels' # labels =>
           /\ labels' = past[shown']
           /\ shown' < shown => \E t \in late : tick[t].pc = "update" /\ tick'[t].pc = "idle"]_reportVars
  BY DEF Ahead
<1>. QED  BY <1>1, <1>2, <1>3, PTL DEF ReportSpec, LabelForward

-----------------------------------------------------------------------------
(* HubUpdater.                                                             *)

WatcherSet == [pc : {"idle", "want", "mark", "get", "wait", "update", "force"},
               on : BOOLEAN, news : Tag \cup {None}, tag : Tag \cup {None},
               i : Nat, n : Nat, a : Attempts, d : Deployment]
PostSet    == [pc : {"idle", "want", "mark", "get", "update", "start", "load"},
               channel : Channels, d : Deployment]

\* The steps at which a watcher, or the POST, holds a deployment to write.
Holds(w)  == watch[w].pc \in {"wait", "update", "force"}
PostHolds == post.pc = "update"

\* Who has read the last version of the deployment holds a copy of it.
Fresh ==
  /\ \A w \in Watchers : w \in depFresh /\ Holds(w) => watch[w].d = dep
  /\ Post \in depFresh /\ PostHolds => post.d = dep

-----------------------------------------------------------------------------
(* The loop over the containers.                                           *)

Less == {ss \in Nat \X Nat : ss[1] < ss[2]}

LEMMA Smallest ==
  ASSUME NEW S \in SUBSET Nat, S # {}
  PROVE  \E x \in S : \A y \in S : x <= y
<1>1. IsWellFoundedOn(Less, Nat)
  BY NatLessThanWellFounded DEF OpToRel, Less
<1>2. PICK x \in S : \A y \in S : <<y, x>> \notin Less
  BY <1>1, WFMin
<1>3. \A y \in S : ~(y < x)
  BY <1>2 DEF Less
<1>. QED  BY <1>3

LEMMA OverTypes ==
  /\ Over \in WatcherSet /\ IdlePost \in PostSet
  /\ Over.pc = "idle" /\ ~Over.on /\ IdlePost.pc = "idle"
BY DEF Over, IdlePost, WatcherSet, PostSet, Deployment, Channels, Attempts

\* The loop leaves a watcher at rest or before an attempt, and does not touch
\* its channel.
LEMMA LoopType ==
  ASSUME NEW s \in WatcherSet, NEW c, NEW i \in Nat
  PROVE  /\ Loop(s, c, i) \in WatcherSet
         /\ Loop(s, c, i).on = s.on
         /\ Loop(s, c, i).pc \in {"idle", "want"}
<1>. DEFINE rest == {j \in i..s.n : c[j] # s.tag}
            min  == CHOOSE j \in rest : \A k \in rest : j <= k
<1>1. CASE rest = {}
  <2>1. Loop(s, c, i) = [Over EXCEPT !.on = s.on, !.news = s.news]
    BY <1>1 DEF Loop
  <2>. QED  BY <2>1, OverTypes DEF WatcherSet
<1>2. CASE rest # {}
  <2>1. min \in Nat
    <3>1. s.n \in Nat
      BY DEF WatcherSet
    <3>2. rest \in SUBSET Nat
      BY <3>1
    <3>. HIDE DEF rest
    <3>3. \E j \in rest : \A k \in rest : j <= k
      BY <1>2, <3>2, Smallest
    <3>. QED  BY <3>2, <3>3
  <2>2. Loop(s, c, i) = [s EXCEPT !.pc = "want", !.a = 1, !.d = Over.d, !.i = min]
    BY <1>2 DEF Loop
  <2>3. Over.d \in Deployment /\ 1 \in Attempts
    BY OverTypes DEF WatcherSet, Attempts
  <2>. HIDE DEF min
  <2>. QED  BY <2>1, <2>2, <2>3 DEF WatcherSet
<1>. QED  BY <1>1, <1>2

-----------------------------------------------------------------------------
(* Types.                                                                  *)

\* A step of the watcher w takes it to s, which follows a channel or not as w did.
Turns(w, s) == s \in WatcherSet /\ s.on = watch[w].on /\ watch' = [watch EXCEPT ![w] = s]

LEMMA BookTypes ==
  ASSUME TypeOK
  PROVE  /\ watch \in [Watchers -> WatcherSet] /\ post \in PostSet
         /\ cm \in Tag \cup {None} /\ dep.tag \in Tag \cup {None} /\ dep.channel \in Channels
         /\ Len(containers) \in Nat
         /\ containers \in Seq(Tag \cup {None})
BY DEF TypeOK, WatcherSet, PostSet, Deployment

LEMMA FailType ==
  ASSUME TypeOK, Fail \/ Fine
  PROVE  fails' \in 0..MaxFails
BY BoundAssumption DEF TypeOK, Fail, Fine

LEMMA RecordedTurns ==
  ASSUME TypeOK, NEW w \in Watchers, Recorded(w)
  PROVE  /\ \E s : Turns(w, s) /\ s.pc \in {"idle", "want"}
         /\ containers' \in Seq(Tag \cup {None}) /\ busy' = FALSE
<1>. DEFINE s == Loop(watch[w], containers', watch[w].i + 1)
<1>1. watch[w] \in WatcherSet /\ watch[w].i + 1 \in Nat /\ watch[w].tag \in Tag \cup {None}
  BY BookTypes DEF WatcherSet
<1>2. watch' = [watch EXCEPT ![w] = s] /\ busy' = FALSE
  BY DEF Recorded
<1>3. s \in WatcherSet /\ s.on = watch[w].on /\ s.pc \in {"idle", "want"}
  BY <1>1, LoopType
<1>4. containers' \in Seq(Tag \cup {None})
  <2>1. containers \in Seq(Tag \cup {None}) /\ containers' = [containers EXCEPT ![watch[w].i] = watch[w].tag]
    BY BookTypes DEF Recorded
  <2>2. CASE watch[w].i \in 1..Len(containers)
    BY <1>1, <2>1, <2>2, ExceptSeq
  <2>3. CASE watch[w].i \notin 1..Len(containers)
    <3>1. containers' = containers
      BY <2>1, <2>3, LenProperties
    <3>. QED  BY <2>1, <3>1
  <2>. QED  BY <2>2, <2>3
<1>. HIDE DEF s
<1>. QED  BY <1>2, <1>3, <1>4 DEF Turns

LEMMA FailedTurns ==
  ASSUME TypeOK, NEW w \in Watchers, Failed(w)
  PROVE  /\ \E s : Turns(w, s) /\ s.pc \in {"idle", "want"}
         /\ containers' \in Seq(Tag \cup {None}) /\ busy' = FALSE
<1>1. CASE Last(watch[w].a)
  <2>1. Recorded(w)
    BY <1>1 DEF Failed
  <2>. QED  BY <2>1, RecordedTurns
<1>2. CASE ~Last(watch[w].a)
  <2>. DEFINE s == [watch[w] EXCEPT !.pc = "want", !.a = @ + 1, !.d = Over.d]
  <2>1. watch' = [watch EXCEPT ![w] = s] /\ busy' = FALSE /\ UNCHANGED containers
    BY <1>2 DEF Failed
  <2>2. watch[w] \in WatcherSet /\ containers \in Seq(Tag \cup {None})
    BY BookTypes
  <2>3. watch[w].a + 1 \in Attempts /\ Over.d \in Deployment
    BY <1>2, <2>2, OverTypes DEF WatcherSet, Attempts, Last
  <2>4. s \in WatcherSet /\ s.on = watch[w].on /\ s.pc = "want"
    BY <2>2, <2>3 DEF WatcherSet
  <2>. HIDE DEF s
  <2>. QED  BY <2>1, <2>2, <2>4 DEF Turns
<1>. QED  BY <1>1, <1>2

\* A write puts a deployment there.
LEMMA PutType ==
  ASSUME TypeOK, NEW p, NEW d \in Deployment, Put(p, d)
  PROVE  dep' \in Deployment /\ depFresh' \subseteq Watchers \cup {Post}
BY DEF TypeOK, Put

\* What a step of a watcher leaves in the shared state.
Left(w) ==
  /\ \E s : Turns(w, s)
  /\ containers' \in Seq(Tag \cup {None}) /\ busy' \in BOOLEAN /\ crossed' \in BOOLEAN
  /\ dep' \in Deployment /\ depFresh' \subseteq Watchers \cup {Post} /\ fails' \in 0..MaxFails
  /\ UNCHANGED <<cm, publishes, noUpdate, stopCh, closed, operator>>

LEMMA DeliverLeft ==
  ASSUME TypeOK, NEW w \in Watchers, Deliver(w)
  PROVE  Left(w) /\ UNCHANGED <<dep, depFresh>> /\ ~Holds(w)'
<1>. DEFINE s == [watch[w] EXCEPT !.tag = watch[w].news, !.news = None, !.n = Len(containers)]
            t == Loop(s, containers, 1)
<1>1. s \in WatcherSet /\ s.on = watch[w].on
  BY BookTypes DEF WatcherSet
<1>2. t \in WatcherSet /\ t.on = watch[w].on /\ t.pc \in {"idle", "want"}
  <2>. HIDE DEF s
  <2>. QED  BY <1>1, LoopType
<1>3. watch' = [watch EXCEPT ![w] = t]
  BY DEF Deliver
<1>. HIDE DEF t
<1>4. Turns(w, t)
  BY <1>2, <1>3 DEF Turns
<1>5. watch'[w].pc \in {"idle", "want"}
  BY <1>2, <1>3, BookTypes
<1>6. crossed' \in BOOLEAN
  BY DEF Deliver, TypeOK
<1>7. fails' \in 0..MaxFails
  BY FailType DEF Deliver
<1>8. UNCHANGED <<cm, publishes, noUpdate, stopCh, closed, operator, dep, depFresh, containers, busy>>
  BY DEF Deliver, updater
<1>. QED  BY <1>4, <1>5, <1>6, <1>7, <1>8 DEF Left, TypeOK, Holds

\* The steps between an event and a write, which keep the version that was read.
LEMMA WorkLeft ==
  ASSUME TypeOK, NEW w \in Watchers, Want(w) \/ Mark(w)
  PROVE  /\ Left(w) /\ UNCHANGED <<dep, depFresh>>
         /\ watch'[w].pc \in {"mark", "get"}
<1>. PICK pc \in {"mark", "get"} : watch' = [watch EXCEPT ![w].pc = pc]
  BY DEF Want, Mark, SetPc
<1>1. Turns(w, [watch[w] EXCEPT !.pc = pc]) /\ watch'[w].pc = pc
  BY BookTypes DEF Turns, WatcherSet
<1>2. busy' \in BOOLEAN /\ fails' \in 0..MaxFails
  <2>1. Fail \/ Fine
    BY DEF Want, Mark
  <2>2. busy' \in BOOLEAN
    BY DEF Want, Mark, TypeOK, hub
  <2>. QED  BY <2>1, <2>2, FailType
<1>3. UNCHANGED <<cm, publishes, dep, depFresh, noUpdate, updater, operator, crossed>>
  BY DEF Want, Mark, hub
<1>. QED  BY <1>1, <1>2, <1>3 DEF Left, TypeOK, updater

\* To read the deployment is to hold it and its version.
Reads(w, pc) ==
  /\ watch' = [watch EXCEPT ![w].pc = pc, ![w].d = dep]
  /\ depFresh' = depFresh \cup {w} /\ UNCHANGED <<busy, containers>>

LEMMA ReadTurns ==
  ASSUME TypeOK, NEW w \in Watchers, NEW pc \in {"wait", "update", "force"}, Reads(w, pc)
  PROVE  /\ \E s : Turns(w, s) /\ s.d = dep
         /\ depFresh' \subseteq Watchers \cup {Post} /\ UNCHANGED <<busy, containers>>
<1>1. dep \in Deployment /\ watch[w] \in WatcherSet
  BY BookTypes DEF TypeOK
<1>2. Turns(w, [watch[w] EXCEPT !.pc = pc, !.d = dep])
  BY <1>1 DEF Reads, Turns, WatcherSet
<1>3. depFresh' \subseteq Watchers \cup {Post} /\ UNCHANGED <<busy, containers>>
  BY DEF Reads, TypeOK
<1>4. [watch[w] EXCEPT !.pc = pc, !.d = dep].d = dep
  BY <1>1 DEF WatcherSet
<1>. QED  BY <1>2, <1>3, <1>4

LEMMA GetWaitCases ==
  ASSUME NEW w \in Watchers, Get(w) \/ Wait(w)
  PROVE  /\ \/ \E pc \in {"wait", "update", "force"} : Reads(w, pc)
            \/ (Recorded(w) \/ Failed(w)) /\ UNCHANGED depFresh
         /\ Fail \/ Fine
         /\ UNCHANGED <<cm, publishes, dep, noUpdate, stopCh, closed, operator, crossed>>
BY DEF Get, Wait, Reads

LEMMA GetWaitLeft ==
  ASSUME TypeOK, NEW w \in Watchers, Get(w) \/ Wait(w)
  PROVE  Left(w)
<1>1. UNCHANGED <<cm, publishes, dep, noUpdate, stopCh, closed, operator, crossed>>
  BY GetWaitCases
<1>2. dep' \in Deployment /\ crossed' \in BOOLEAN /\ fails' \in 0..MaxFails
  BY <1>1, GetWaitCases, FailType DEF TypeOK
<1>3. CASE \E pc \in {"wait", "update", "force"} : Reads(w, pc)
  BY <1>1, <1>2, <1>3, ReadTurns DEF Left, TypeOK
<1>4. CASE (Recorded(w) \/ Failed(w)) /\ UNCHANGED depFresh
  BY <1>1, <1>2, <1>4, RecordedTurns, FailedTurns DEF Left, TypeOK
<1>. QED  BY <1>3, <1>4, GetWaitCases

LEMMA WriteCases ==
  ASSUME NEW w \in Watchers, Update(w) \/ ForceUpdate(w)
  PROVE  /\ Holds(w)
         /\ \/ Put(w, [watch[w].d EXCEPT !.tag = watch[w].tag])
            \/ UNCHANGED <<dep, depFresh>>
         /\ Recorded(w) \/ Failed(w)
         /\ Fail \/ Fine
         /\ UNCHANGED <<cm, publishes, noUpdate, stopCh, closed, operator, crossed>>
BY DEF Update, ForceUpdate, Holds

LEMMA WriteLeft ==
  ASSUME TypeOK, NEW w \in Watchers, Update(w) \/ ForceUpdate(w)
  PROVE  Left(w) /\ watch'[w].pc \in {"idle", "want"}
<1>1. UNCHANGED <<cm, publishes, noUpdate, stopCh, closed, operator, crossed>>
  BY WriteCases
<1>2. crossed' \in BOOLEAN /\ fails' \in 0..MaxFails
  BY <1>1, WriteCases, FailType DEF TypeOK
<1>3. dep' \in Deployment /\ depFresh' \subseteq Watchers \cup {Post}
  <2>1. [watch[w].d EXCEPT !.tag = watch[w].tag] \in Deployment
    BY BookTypes, SMTT(30) DEF WatcherSet, Deployment
  <2>. QED  BY <2>1, WriteCases, PutType DEF TypeOK
<1>4. PICK s : Turns(w, s) /\ s.pc \in {"idle", "want"}
  BY WriteCases, RecordedTurns, FailedTurns
<1>5. containers' \in Seq(Tag \cup {None}) /\ busy' \in BOOLEAN
  BY WriteCases, RecordedTurns, FailedTurns
<1>6. watch'[w].pc \in {"idle", "want"}
  BY <1>4, BookTypes DEF Turns
<1>. QED  BY <1>1, <1>2, <1>3, <1>4, <1>5, <1>6 DEF Left

LEMMA WatchLeft ==
  ASSUME TypeOK, NEW w \in Watchers, WatchStep(w)
  PROVE  Left(w)
BY DeliverLeft, WorkLeft, GetWaitLeft, WriteLeft DEF WatchStep

LEMMA LeftTyped ==
  ASSUME TypeOK, NEW w \in Watchers, Left(w)
  PROVE  TypeOK'
<1>1. watch' \in [Watchers -> WatcherSet]
  BY BookTypes DEF Left, Turns
<1>. QED  BY <1>1 DEF TypeOK, Left, WatcherSet, operator

LEMMA PublishTyped ==
  ASSUME TypeOK, NEW t \in Tag, Publish(t)
  PROVE  TypeOK'
<1>1. cm' \in Tag /\ UNCHANGED <<hub, fails>>
  BY DEF Publish
<1>2. publishes' \in 0..MaxPublishes
  <2>. MaxPublishes \in Nat /\ publishes \in 0..MaxPublishes
    BY BoundAssumption DEF TypeOK
  <2>. QED  BY DEF Publish
<1>3. watch' \in [Watchers -> WatcherSet]
  <2>. watch \in [Watchers -> WatcherSet]
    BY BookTypes
  <2>1. \A w \in Watchers : [watch[w] EXCEPT !.news = t] \in WatcherSet
    BY DEF WatcherSet
  <2>. QED  BY <2>1 DEF Publish
<1>. QED  BY <1>1, <1>2, <1>3 DEF TypeOK, WatcherSet, hub, updater, operator

\* What a step of the POST leaves: itself, and what it did to the rest.
PostLeft ==
  /\ post' \in PostSet /\ posts' \in 0..MaxPosts /\ fails' \in 0..MaxFails
  /\ busy' \in BOOLEAN /\ crossed' \in BOOLEAN
  /\ dep' \in Deployment /\ depFresh' \subseteq Watchers \cup {Post}
  /\ UNCHANGED <<cm, publishes, noUpdate, updater, watch>>

LEMMA PostRecvLeft ==
  ASSUME TypeOK, NEW c \in Channels, PostRecv(c)
  PROVE  PostLeft /\ UNCHANGED <<dep, depFresh>> /\ ~PostHolds'
<1>1. post' = [IdlePost EXCEPT !.pc = "want", !.channel = c]
  BY DEF PostRecv
<1>2. post' \in PostSet /\ post'.pc = "want"
  BY <1>1, OverTypes DEF PostSet
<1>3. posts' \in 0..MaxPosts
  <2>. MaxPosts \in Nat /\ posts \in 0..MaxPosts
    BY BoundAssumption DEF TypeOK
  <2>. QED  BY DEF PostRecv
<1>4. fails' \in 0..MaxFails /\ crossed' \in BOOLEAN
  <2>1. Fine
    BY DEF PostRecv
  <2>2. crossed' \in BOOLEAN
    BY DEF PostRecv, TypeOK
  <2>. QED  BY <2>1, <2>2, FailType
<1>5. UNCHANGED <<cm, publishes, dep, depFresh, noUpdate, updater, watch, busy>>
  BY DEF PostRecv
<1>. QED  BY <1>2, <1>3, <1>4, <1>5 DEF PostLeft, PostHolds, TypeOK

LEMMA PostWorkLeft ==
  ASSUME TypeOK, PostWant \/ PostMark \/ StartLabel
  PROVE  PostLeft /\ UNCHANGED <<dep, depFresh>> /\ ~PostHolds'
<1>1. post \in PostSet /\ dep.channel \in Channels
  BY BookTypes
<1>2. \/ \E pc \in {"mark", "get"} : post' = [post EXCEPT !.pc = pc]
      \/ post' = [post EXCEPT !.pc = "load", !.channel = dep.channel]
      \/ post' = IdlePost
  BY DEF PostWant, PostMark, StartLabel, PostAt
<1>3. post' \in PostSet /\ post'.pc # "update"
  BY <1>1, <1>2, OverTypes DEF PostSet
<1>4. fails' \in 0..MaxFails
  <2>1. Fail \/ Fine
    BY DEF PostWant, PostMark, StartLabel
  <2>. QED  BY <2>1, FailType
<1>5. UNCHANGED <<cm, publishes, dep, depFresh, noUpdate, updater, watch, posts, crossed>> /\ busy' \in BOOLEAN
  BY DEF PostWant, PostMark, StartLabel, TypeOK
<1>. QED  BY <1>3, <1>4, <1>5 DEF PostLeft, PostHolds, TypeOK

\* To read the deployment ...
PostReads == /\ post' = [post EXCEPT !.pc = "update", !.d = dep]
             /\ depFresh' = depFresh \cup {Post}

LEMMA PostGetLeft ==
  ASSUME TypeOK, PostGet
  PROVE  /\ PostLeft /\ UNCHANGED dep
         /\ PostReads \/ (UNCHANGED depFresh /\ ~PostHolds')
<1>1. post \in PostSet /\ dep \in Deployment
  BY BookTypes DEF TypeOK
<1>2. \/ PostReads
      \/ post' = [IdlePost EXCEPT !.pc = "start"] /\ UNCHANGED depFresh
  BY DEF PostGet, PostReads
<1>3. post' \in PostSet /\ depFresh' \subseteq Watchers \cup {Post}
  BY <1>1, <1>2, OverTypes DEF PostSet, PostReads, TypeOK
<1>4. fails' \in 0..MaxFails /\ busy' \in BOOLEAN
  <2>1. Fail \/ Fine
    BY DEF PostGet
  <2>2. busy' \in BOOLEAN
    BY DEF PostGet, TypeOK
  <2>. QED  BY <2>1, <2>2, FailType
<1>5. UNCHANGED <<cm, publishes, dep, noUpdate, updater, watch, posts, crossed>>
  BY DEF PostGet
<1>6. PostReads \/ (UNCHANGED depFresh /\ ~PostHolds')
  BY <1>2, OverTypes DEF PostHolds, PostSet
<1>. QED  BY <1>3, <1>4, <1>5, <1>6 DEF PostLeft, TypeOK

\* ... and to write it.
LEMMA PostUpdateLeft ==
  ASSUME TypeOK, PostUpdate
  PROVE  /\ PostLeft /\ PostHolds /\ ~PostHolds'
         /\ \/ Put(Post, [post.d EXCEPT !.channel = post.channel])
            \/ UNCHANGED <<dep, depFresh>>
<1>1. post' \in PostSet /\ post'.pc = "start"
  BY OverTypes DEF PostUpdate, PostSet
<1>2. \/ Put(Post, [post.d EXCEPT !.channel = post.channel])
      \/ UNCHANGED <<dep, depFresh>>
  BY DEF PostUpdate
<1>3. dep' \in Deployment /\ depFresh' \subseteq Watchers \cup {Post}
  <2>1. [post.d EXCEPT !.channel = post.channel] \in Deployment
    BY BookTypes DEF PostSet, Deployment
  <2>. QED  BY <1>2, <2>1, PutType DEF TypeOK
<1>4. fails' \in 0..MaxFails
  <2>1. Fail \/ Fine
    BY DEF PostUpdate
  <2>. QED  BY <2>1, FailType
<1>5. busy' = FALSE /\ UNCHANGED <<cm, publishes, noUpdate, updater, watch, posts, crossed>>
  BY DEF PostUpdate
<1>6. PostHolds /\ ~PostHolds'
  BY <1>1 DEF PostHolds, PostUpdate
<1>. QED  BY <1>1, <1>2, <1>3, <1>4, <1>5, <1>6 DEF PostLeft, TypeOK

LEMMA PostLeftTyped ==
  ASSUME TypeOK, PostLeft
  PROVE  TypeOK'
BY DEF TypeOK, PostLeft, PostSet, updater

\* Start changes the updater and its informers, and ends the POST.
LEMMA StartLoadLeft ==
  ASSUME TypeOK, StartLoad
  PROVE  /\ TypeOK' /\ UNCHANGED <<dep, depFresh>> /\ ~PostHolds'
         /\ \A w \in Watchers : watch'[w].pc # "idle" => watch'[w] = [watch[w] EXCEPT !.on = watch'[w].on]
         /\ OneWatcher => OneWatcher'
<1>1. UNCHANGED <<cm, publishes, dep, depFresh, noUpdate, busy, posts>> /\ post' = IdlePost
  BY DEF StartLoad
<1>2. fails' \in 0..MaxFails /\ crossed' \in BOOLEAN
  <2>1. Fail \/ Fine
    BY DEF StartLoad
  <2>2. crossed' \in BOOLEAN
    BY DEF StartLoad, TypeOK
  <2>. QED  BY <2>1, <2>2, FailType
<1>3. watch \in [Watchers -> WatcherSet] /\ post' \in PostSet
  BY <1>1, BookTypes, OverTypes
<1>4. \A w \in Watchers : watch[w] = [watch[w] EXCEPT !.on = watch[w].on]
  BY <1>3 DEF WatcherSet
<1>5. ~PostHolds'
  BY <1>1, OverTypes DEF PostHolds
<1>6. CASE UNCHANGED updater /\ UNCHANGED watch
  BY <1>1, <1>2, <1>3, <1>4, <1>5, <1>6 DEF TypeOK, PostSet, updater, OneWatcher
<1>7. CASE containers' = Append(containers, dep.tag)
  <2>1. containers' \in Seq(Tag \cup {None})
    BY <1>7, BookTypes, AppendProperties
  <2>2. \A w \in Watchers : StopIf(w) \in WatcherSet /\ StopIf(w) = [watch[w] EXCEPT !.on = StopIf(w).on]
    BY <1>3, <1>4, ZenonT(30) DEF StopIf, WatcherSet
  <2>3. OneWatcher => \A w \in Watchers : ~StopIf(w).on
    BY <1>3 DEF OneWatcher, StopIf, WatcherSet
  <2>4. CASE UNCHANGED <<stopCh, closed, watch>>
    BY <1>1, <1>2, <1>3, <1>4, <1>5, <2>1, <2>4 DEF TypeOK, PostSet, OneWatcher
  <2>5. CASE watch' = [w \in Watchers |-> StopIf(w)] /\ closed' = TRUE /\ UNCHANGED stopCh
    <3>1. watch' \in [Watchers -> WatcherSet]
      BY <2>2, <2>5
    <3>2. OneWatcher => OneWatcher'
      BY <2>3, <2>5 DEF OneWatcher
    <3>3. \A w \in Watchers : watch'[w] = [watch[w] EXCEPT !.on = watch'[w].on]
      BY <2>2, <2>5
    <3>4. TypeOK'
      BY <1>1, <1>2, <1>3, <2>1, <2>5, <3>1 DEF TypeOK, PostSet, WatcherSet
    <3>. QED  BY <1>1, <1>5, <3>2, <3>3, <3>4
  <2>6. ASSUME NEW w \in Watchers, stopCh' = w, closed' = FALSE,
               watch' = [v \in Watchers |->
                 IF v = w THEN [Over EXCEPT !.on = TRUE, !.news = cm] ELSE StopIf(v)]
        PROVE  /\ TypeOK' /\ (OneWatcher => OneWatcher')
               /\ \A v \in Watchers : watch'[v].pc # "idle" => watch'[v] = [watch[v] EXCEPT !.on = watch'[v].on]
    <3>1. [Over EXCEPT !.on = TRUE, !.news = cm] \in WatcherSet /\ [Over EXCEPT !.on = TRUE, !.news = cm].pc = "idle"
      BY BookTypes, OverTypes DEF WatcherSet
    <3>2. watch' \in [Watchers -> WatcherSet]
      BY <2>2, <2>6, <3>1
    <3>3. OneWatcher => OneWatcher'
      BY <2>3, <2>6 DEF OneWatcher
    <3>4. \A v \in Watchers : watch'[v].pc # "idle" => watch'[v] = [watch[v] EXCEPT !.on = watch'[v].on]
      BY <2>2, <2>6, <3>1
    <3>5. TypeOK'
      BY <1>1, <1>2, <1>3, <2>1, <2>6, <3>2 DEF TypeOK, PostSet, WatcherSet
    <3>. QED  BY <3>3, <3>4, <3>5
  <2>. QED  BY <1>1, <1>5, <1>6, <2>4, <2>5, <2>6 DEF StartLoad
<1>. QED  BY <1>6, <1>7 DEF StartLoad

\* A restart makes one informer, or none.
LEMMA RestartTyped ==
  ASSUME TypeOK, Restart
  PROVE  TypeOK' /\ OneWatcher' /\ UNCHANGED dep /\ depFresh' = {}
<1>1. /\ busy' = FALSE /\ post' = IdlePost /\ depFresh' = {} /\ crossed' = FALSE /\ closed' = FALSE
      /\ UNCHANGED <<cm, publishes, dep, noUpdate, posts>>
  BY DEF Restart, Boot
<1>2. fails' \in 0..MaxFails
  BY FailType DEF Restart
<1>3. containers' \in Seq(Tag \cup {None})
  <2>1. containers' = <<dep.tag>> /\ dep.tag \in Tag \cup {None}
    BY BookTypes DEF Restart, Boot
  <2>. QED  BY <2>1
<1>4. stopCh' \in Watchers \cup {Nobody} /\ watch' \in [Watchers -> WatcherSet]
      /\ \A v \in Watchers : watch'[v].on => v = stopCh'
  <2>. DEFINE w == CHOOSE w \in Watchers : TRUE
  <2>1. w \in Watchers
    BY WatcherAssumption
  <2>2. \/ stopCh' = Nobody /\ watch' = [v \in Watchers |-> Over]
        \/ stopCh' = w /\ watch' = [v \in Watchers |->
             IF v = w THEN [Over EXCEPT !.on = TRUE, !.news = cm] ELSE Over]
    BY DEF Restart, Boot
  <2>3. [Over EXCEPT !.on = TRUE, !.news = cm] \in WatcherSet
    BY BookTypes, OverTypes DEF WatcherSet
  <2>. HIDE DEF w
  <2>. QED  BY <2>1, <2>2, <2>3, OverTypes
<1>5. TypeOK'
  BY <1>1, <1>2, <1>3, <1>4, OverTypes DEF TypeOK, WatcherSet, PostSet
<1>6. OneWatcher'
  BY <1>1, <1>4 DEF OneWatcher
<1>. QED  BY <1>1, <1>5, <1>6

LEMMA InitTyped == Init => TypeOK /\ OneWatcher /\ Fresh
<1>. SUFFICES ASSUME Init PROVE TypeOK /\ OneWatcher /\ Fresh
  OBVIOUS
<1>1. 0 \in Tag /\ 0 \in 0..MaxPublishes /\ 0 \in 0..MaxPosts /\ 0 \in 0..MaxFails
  BY BoundAssumption DEF Tag
<1>2. watch \in [Watchers -> WatcherSet] /\ post \in PostSet /\ dep \in Deployment
  <2>1. [Over EXCEPT !.on = TRUE, !.news = 0] \in WatcherSet
    BY <1>1, OverTypes DEF WatcherSet
  <2>. QED  BY <1>1, <2>1, OverTypes DEF Init, Deployment, Channels
<1>3. containers \in Seq(Tag \cup {None})
  BY <1>1 DEF Init
<1>4. OneWatcher
  BY OverTypes DEF Init, OneWatcher
<1>5. Fresh
  BY DEF Init, Fresh
<1>6. TypeOK
  BY <1>1, <1>2, <1>3 DEF Init, TypeOK, WatcherSet, PostSet
<1>. QED  BY <1>4, <1>5, <1>6

-----------------------------------------------------------------------------
(* Nothing is undone: whoever may write holds what is there, so that its   *)
(* write changes its own part of the deployment only.                      *)

\* What NothingUndone says of a step.
Undoes == dep'.tag # dep.tag /\ dep'.channel # dep.channel

LEMMA PutFresh ==
  ASSUME NEW p, NEW d, Put(p, d)
  PROVE  depFresh' = {} \/ UNCHANGED <<dep, depFresh>>
BY DEF Put

LEMMA WatchFresh ==
  ASSUME TypeOK, Fresh, NEW w \in Watchers, WatchStep(w)
  PROVE  Fresh' /\ ~Undoes
<1>1. /\ \A v \in Watchers : v # w => watch'[v] = watch[v]
      /\ w # Post /\ UNCHANGED post
  BY WatchLeft, BookTypes, WatcherAssumption DEF Left, Turns, operator, Post
<1>2. CASE UNCHANGED <<dep, depFresh>> /\ ~Holds(w)'
  <2>1. \A v \in Watchers : Holds(v)' => v # w /\ Holds(v)
    BY <1>1, <1>2 DEF Holds
  <2>. QED  BY <1>1, <1>2, <2>1 DEF Fresh, PostHolds, Undoes
<1>3. CASE \E pc \in {"wait", "update", "force"} : Reads(w, pc) /\ UNCHANGED dep
  <2>1. watch'[w].d = dep /\ depFresh' = depFresh \cup {w}
    <3>. PICK pc \in {"wait", "update", "force"} : Reads(w, pc)
      BY <1>3
    <3>1. PICK s : Turns(w, s) /\ s.d = dep
      BY ReadTurns
    <3>. QED  BY <3>1, BookTypes DEF Reads, Turns
  <2>. QED  BY <1>1, <1>3, <2>1 DEF Fresh, Holds, PostHolds, Undoes
<1>4. CASE Deliver(w)
  BY <1>2, <1>4, DeliverLeft
<1>5. CASE Want(w) \/ Mark(w)
  BY <1>2, <1>5, WorkLeft DEF Holds
<1>6. CASE Get(w) \/ Wait(w)
  <2>1. CASE (Recorded(w) \/ Failed(w)) /\ UNCHANGED depFresh
    <3>1. PICK s : Turns(w, s) /\ s.pc \in {"idle", "want"}
      BY <2>1, RecordedTurns, FailedTurns
    <3>2. ~Holds(w)'
      BY <3>1, BookTypes DEF Turns, Holds
    <3>. QED  BY <1>2, <1>6, <2>1, <3>2, GetWaitCases
  <2>. QED  BY <1>3, <1>6, <2>1, GetWaitCases
<1>7. CASE Update(w) \/ ForceUpdate(w)
  <2>1. watch[w] \in WatcherSet /\ Holds(w) /\ ~Holds(w)'
    BY <1>7, WriteCases, WriteLeft, BookTypes DEF Holds
  <2>2. CASE Put(w, [watch[w].d EXCEPT !.tag = watch[w].tag])
    <3>1. watch[w].d = dep /\ dep' = [dep EXCEPT !.tag = watch[w].tag]
      BY <2>1, <2>2 DEF Put, Fresh
    <3>2. ~Undoes
      BY <3>1 DEF Undoes, TypeOK, Deployment
    <3>. QED  BY <1>2, <2>1, <2>2, <3>2, PutFresh DEF Fresh
  <2>. QED  BY <1>2, <1>7, <2>1, <2>2, WriteCases
<1>. QED  BY <1>4, <1>5, <1>6, <1>7 DEF WatchStep

LEMMA PostFresh ==
  ASSUME TypeOK, Fresh, PostLeft,
         \/ UNCHANGED <<dep, depFresh>> /\ ~PostHolds'
         \/ PostReads /\ UNCHANGED dep
         \/ PostHolds /\ ~PostHolds' /\ Put(Post, [post.d EXCEPT !.channel = post.channel])
  PROVE  Fresh' /\ ~Undoes
<1>1. UNCHANGED watch /\ post \in PostSet /\ Post \notin Watchers
  BY BookTypes, WatcherAssumption DEF PostLeft, Post
<1>2. CASE UNCHANGED <<dep, depFresh>> /\ ~PostHolds'
  BY <1>1, <1>2 DEF Fresh, Holds, PostHolds, Undoes
<1>3. CASE PostReads /\ UNCHANGED dep
  BY <1>1, <1>3 DEF PostReads, Fresh, Holds, PostHolds, PostSet, Undoes
<1>4. CASE PostHolds /\ ~PostHolds' /\ Put(Post, [post.d EXCEPT !.channel = post.channel])
  <2>1. post.d = dep /\ dep' = [dep EXCEPT !.channel = post.channel]
    BY <1>4 DEF Put, Fresh
  <2>2. ~Undoes
    BY <2>1 DEF Undoes, TypeOK, Deployment
  <2>. QED  BY <1>2, <1>4, <2>2, PutFresh DEF Fresh
<1>. QED  BY <1>2, <1>3, <1>4

-----------------------------------------------------------------------------
(* The inductive invariant.                                                *)

IInv == TypeOK /\ OneWatcher /\ Fresh

LEMMA Step ==
  ASSUME IInv, [Next]_vars
  PROVE  IInv' /\ ~Undoes
<1>1. ASSUME NEW t \in Tag, Publish(t) PROVE IInv' /\ ~Undoes
  <2>1. TypeOK' /\ UNCHANGED <<hub, fails>>
    BY <1>1, PublishTyped DEF IInv, Publish
  <2>2. \A w \in Watchers : watch'[w] = [watch[w] EXCEPT !.news = watch'[w].news]
    BY <1>1, BookTypes DEF IInv, Publish, WatcherSet
  <2>3. \A w \in Watchers : /\ watch'[w].on = watch[w].on
                            /\ watch'[w].pc = watch[w].pc /\ watch'[w].d = watch[w].d
    BY <2>2, BookTypes, ZenonT(30) DEF IInv, WatcherSet
  <2>. QED  BY <2>1, <2>3 DEF IInv, OneWatcher, Fresh, Holds, PostHolds, Undoes, hub, updater, operator
<1>2. ASSUME NEW w \in Watchers, WatchStep(w) PROVE IInv' /\ ~Undoes
  <2>1. Left(w) /\ TypeOK' /\ Fresh' /\ ~Undoes
    BY <1>2, WatchLeft, LeftTyped, WatchFresh DEF IInv
  <2>2. \A v \in Watchers : watch'[v].on = watch[v].on
    BY <2>1, BookTypes DEF IInv, Left, Turns
  <2>. QED  BY <2>1, <2>2 DEF IInv, OneWatcher, Left
<1>3. ASSUME PostLeft, Fresh', ~Undoes PROVE IInv' /\ ~Undoes
  BY <1>3, PostLeftTyped DEF IInv, OneWatcher, PostLeft, updater
<1>4. ASSUME NEW c \in Channels, PostRecv(c) PROVE IInv' /\ ~Undoes
  BY <1>3, <1>4, PostRecvLeft, PostFresh DEF IInv
<1>5. CASE PostWant \/ PostMark \/ StartLabel
  BY <1>3, <1>5, PostWorkLeft, PostFresh DEF IInv
<1>6. CASE PostGet
  BY <1>3, <1>6, PostGetLeft, PostFresh DEF IInv
<1>7. CASE PostUpdate
  BY <1>3, <1>7, PostUpdateLeft, PostFresh DEF IInv
<1>8. CASE StartLoad
  <2>1. TypeOK' /\ OneWatcher' /\ UNCHANGED <<dep, depFresh>> /\ ~PostHolds'
    BY <1>8, StartLoadLeft DEF IInv
  <2>2. \A w \in Watchers : Holds(w)' => Holds(w) /\ watch'[w].d = watch[w].d
    <3>. TAKE w \in Watchers
    <3>1. CASE watch'[w].pc = "idle"
      BY <3>1 DEF Holds
    <3>2. CASE watch'[w].pc # "idle"
      <4>1. watch'[w] = [watch[w] EXCEPT !.on = watch'[w].on]
        BY <1>8, <3>2, StartLoadLeft DEF IInv
      <4>2. watch'[w].pc = watch[w].pc /\ watch'[w].d = watch[w].d
        BY <4>1, BookTypes DEF IInv, WatcherSet
      <4>. QED  BY <4>2 DEF Holds
    <3>. QED  BY <3>1, <3>2
  <2>. QED  BY <2>1, <2>2 DEF IInv, Fresh, Undoes
<1>9. CASE Restart
  BY <1>9, RestartTyped DEF IInv, Fresh, Undoes
<1>10. CASE UNCHANGED vars
  BY <1>10 DEF IInv, TypeOK, OneWatcher, Fresh, Holds, PostHolds, Undoes, vars, hub, updater, operator
<1>. QED  BY <1>1, <1>2, <1>4, <1>5, <1>6, <1>7, <1>8, <1>9, <1>10 DEF Next, PostStep

THEOREM Invariant == Spec => []IInv
<1>1. Init => IInv
  BY InitTyped DEF IInv
<1>2. IInv /\ [Next]_vars => IInv'
  BY Step
<1>. QED  BY <1>1, <1>2, PTL DEF Spec

\* Deployment, watchers and the POST are at steps of their own, with tags that
\* were published (turkeyUpdater.go:22, 142).
THEOREM TypeCorrect == Spec => []TypeOK
<1>1. IInv => TypeOK
  BY DEF IInv
<1>. QED  BY Invariant, <1>1, PTL

\* However often the channel is set, and whatever fails: an informer that is
\* not told to stop is the one that Start will stop next (turkeyUpdater.go:90).
THEOREM FollowsOne == Spec => []OneWatcher
<1>1. IInv => OneWatcher
  BY DEF IInv
<1>. QED  BY Invariant, <1>1, PTL

\* Works overlap in ita, for _busy does not keep them apart, and nobody undoes
\* what another one has written (k8Man.go:63, turkeyUpdater.go:241, utils.go:83).
THEOREM NothingIsUndone == Spec => NothingUndone
<1>1. IInv /\ [Next]_vars => [dep'.tag = dep.tag \/ dep'.channel = dep.channel]_vars
  BY Step DEF Undoes
<1>. QED  BY Invariant, <1>1, PTL DEF Spec, NothingUndone

-----------------------------------------------------------------------------
(* BuildReport feeds HubUpdater.                                           *)

\* The label cm that HubUpdater follows is one that BuildReport writes: it is 0
\* at first, and each change of it is one that Publish makes, to another tag,
\* whatever fails or overlaps in the webhooks and the cron job
\* (cron_jobs.go:167, turkeyUpdater.go:142).
THEOREM LabelIsPublished ==
  ASSUME NEW r \in Repos, MaxBuilds <= MaxTag
  PROVE  ReportSpec => labels[r] = 0 /\ [][\E t \in Tag : t # labels[r] /\ labels'[r] = t]_(labels[r])
<1>1. ReportInit => labels[r] = 0
  BY DEF ReportInit
<1>2. ReportTyped' => [\E t \in Tag : t # labels[r] /\ labels'[r] = t]_(labels[r])
  <2>1. BuildTag \subseteq Tag
    BY BuildAssumption, BoundAssumption DEF BuildTag, Tag
  <2>. QED  BY <2>1 DEF ReportTyped, ReportTypeOK
<1>. QED  BY <1>1, <1>2, ReportTypedInit, ReportTypedNext, PTL DEF ReportSpec
=============================================================================
