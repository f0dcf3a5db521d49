------------------------- MODULE CustomDomain_proofs -------------------------
(* Proofs about CustomDomain, for any domains, requests and failures.      *)
EXTENDS CustomDomain, TLAPS

Began  == \E from, to \in Domains : Begin(from, to)
Writes == Certbot \/ SetRet \/ SetHubs \/ SetSpoke \/ Clean \/ AddRule \/ SetCors \/ KillRet
Certs  == CertTick \/ UpdateCert \/ Month \/ \E d \in Customs : BotEnds(d)

LEMMA NextCases ==
  ASSUME [Next]_vars
  PROVE  Began \/ Writes \/ SetLabel \/ Finish \/ Crash \/ Certs \/ UNCHANGED vars
BY DEF Next, Work, Began, Writes, Certs

-----------------------------------------------------------------------------
(* Types.                                                                  *)

Typed == TypeOK /\ (patch.pc = "certbot" => patch.to # Native)

LEMMA FailType ==
  ASSUME TypeOK, Fail \/ Fine
  PROVE  fails' \in 0..MaxFails
BY BoundAssumption DEF Fail, Fine, TypeOK

LEMMA IdleType == Idle \in Patches
BY DEF Idle, Patches, PatchPcs, Domains

\* strings.Replace leaves a text.
LEMMA PutType ==
  ASSUME TypeOK, NEW p \in Places, Put(p)
  PROVE  at' \in [Places -> Texts]
<1>1. at \in [Places -> Texts] /\ patch.to \in Texts
  BY DEF TypeOK, Patches, Texts
<1>2. Replaced(p, at[p]) \subseteq Texts
  BY <1>1 DEF Replaced, Texts, Domains
<1>. QED  BY <1>1, <1>2 DEF Put

LEMMA InitType == Init => Typed
<1>. 0 \in 0..MaxPatches /\ 0 \in 0..MaxCrashes /\ 0 \in 0..MaxFails /\ None \in Months
  BY BoundAssumption DEF Months
<1>1. Init => patch \in Patches /\ patch.pc = "idle"
  BY IdleType DEF Init, Idle
<1>2. Init => at \in [Places -> Texts] /\ cert \in [Customs -> Months]
  BY DEF Init, Texts, Domains
<1>3. Init => /\ rules \subseteq Domains /\ label \in Domains /\ known \in Domains
              /\ cron \in BOOLEAN /\ uncleaned \in BOOLEAN
  BY DEF Init, Domains
<1>4. Init => /\ exp \in Months /\ bots \subseteq Customs /\ issued \subseteq Customs
              /\ patches \in 0..MaxPatches /\ crashes \in 0..MaxCrashes /\ fails \in 0..MaxFails
  BY DEF Init
<1>. QED  BY <1>1, <1>2, <1>3, <1>4 DEF Typed, TypeOK

LEMMA BeganType == Typed /\ Began => Typed'
<1>. SUFFICES ASSUME Typed, NEW from \in Domains, NEW to \in Domains, Begin(from, to) PROVE Typed'
  BY DEF Began
<1>1. patch' \in Patches /\ (patch'.pc = "certbot" => patch'.to # Native)
  BY IdleType DEF Begin, Patches, PatchPcs, Places, Sound, Nested
<1>2. fails' \in 0..MaxFails
  BY FailType DEF Begin, Typed
<1>3. patches' \in 0..MaxPatches
  <2>. MaxPatches \in Nat /\ patches \in 0..MaxPatches
    BY BoundAssumption DEF Typed, TypeOK
  <2>. QED  BY DEF Begin
<1>4. uncleaned' \in BOOLEAN
  BY DEF Begin
<1>. QED
  BY <1>1, <1>2, <1>3, <1>4 DEF Begin, certs, Typed, TypeOK

\* What the writes of a request leave alone.
LEMMA WritesKeep ==
  ASSUME Writes
  PROVE  UNCHANGED <<label, patches, cron, exp, cert, known, crashes>>
BY DEF Writes, Certbot, SetRet, SetHubs, SetSpoke, SetCors, Replace, Clean, AddRule, KillRet, certs

\* A write goes on with the same request, or gives it up.
LEMMA WritesGo ==
  ASSUME Typed, Writes
  PROVE  /\ patch' \in Patches /\ patch'.pc # "certbot"
         /\ patch' = Idle \/ (/\ patch'.from = patch.from /\ patch'.to = patch.to
                              /\ patch'.sound = patch.sound /\ patch'.nested = patch.nested)
<1>. USE DEF SetRet, SetHubs, SetSpoke, SetCors, Replace
<1>0. patch \in Patches /\ rules \subseteq Domains
  BY DEF Typed, TypeOK
<1>. USE <1>0, IdleType DEF Goto, GiveUp, Patches, PatchPcs, Places
<1>1. CASE SetRet \/ SetHubs \/ SetSpoke \/ SetCors
  BY <1>1 DEF Idle
<1>2. CASE Certbot \/ KillRet
  BY <1>2 DEF Certbot, KillRet, Idle
<1>3. CASE Clean
  <2>1. CASE GiveUp
    BY <2>1 DEF Idle
  <2>2. CASE ~GiveUp
    <3>1. PICK left \in SUBSET Domains : patch' = [patch EXCEPT !.pc = "rule", !.copy = left]
      BY <1>3, <2>2 DEF Clean
    <3>. QED  BY <3>1
  <2>. QED  BY <2>1, <2>2
<1>4. CASE AddRule
  BY <1>4 DEF AddRule, Idle
<1>. QED  BY <1>1, <1>2, <1>3, <1>4 DEF Writes

LEMMA WritesType == Typed /\ Writes => Typed'
<1>. SUFFICES ASSUME Typed, Writes PROVE Typed'
  OBVIOUS
<1>. USE DEF Writes, SetRet, SetHubs, SetSpoke, SetCors, Replace
<1>0. patch \in Patches
  BY DEF Typed, TypeOK
<1>2. fails' \in 0..MaxFails
  BY FailType DEF Certbot, Clean, AddRule, KillRet, GiveUp, Typed
<1>3. at' \in [Places -> Texts]
  <2>1. CASE UNCHANGED at
    BY <2>1 DEF Typed, TypeOK
  <2>2. CASE \E p \in Places : Put(p)
    BY <2>2, PutType DEF Typed
  <2>. QED  BY <2>1, <2>2 DEF Certbot, Clean, AddRule, KillRet, Places
<1>4. rules' \subseteq Domains
  BY <1>0 DEF Certbot, Clean, AddRule, KillRet, Typed, TypeOK, Patches
<1>5. uncleaned' \in BOOLEAN
  BY DEF Certbot, Clean, AddRule, KillRet, Typed, TypeOK
<1>6. bots' \subseteq Customs /\ issued' \subseteq Customs
  <2>1. CASE Certbot
    <3>1. patch.to \in Customs
      BY <1>0, <2>1 DEF Certbot, Typed, Patches, Domains
    <3>. QED  BY <2>1, <3>1 DEF Certbot, Typed, TypeOK
  <2>2. CASE ~Certbot
    BY <2>2 DEF Clean, AddRule, KillRet, certs, Typed, TypeOK
  <2>. QED  BY <2>1, <2>2
<1>7. patch' \in Patches /\ patch'.pc # "certbot"
  BY WritesGo
<1>. QED
  BY <1>2, <1>3, <1>4, <1>5, <1>6, <1>7, WritesKeep DEF Typed, TypeOK

LEMMA OthersType == Typed /\ (SetLabel \/ Finish \/ Crash \/ UNCHANGED vars) => Typed'
<1>. SUFFICES ASSUME Typed, SetLabel \/ Finish \/ Crash \/ UNCHANGED vars PROVE Typed'
  OBVIOUS
<1>0. patch \in Patches /\ patch.to \in Domains /\ Native \in Domains /\ label \in Domains
  BY DEF Typed, TypeOK, Patches, Domains
<1>1. CASE SetLabel
  <2>1. patch' \in Patches /\ patch'.pc # "certbot"
    <3>1. CASE patch' = Idle
      BY <3>1, IdleType DEF Idle
    <3>2. CASE Goto("finish")
      BY <1>0, <3>2 DEF Goto, Patches, PatchPcs
    <3>. QED  BY <1>1, <3>1, <3>2 DEF SetLabel, GiveUp
  <2>2. label' \in Domains /\ fails' \in 0..MaxFails
    BY <1>0, <1>1, FailType DEF SetLabel, GiveUp, Typed
  <2>. QED
    BY <1>1, <2>1, <2>2 DEF SetLabel, certs, Typed, TypeOK
<1>2. CASE Finish
  <2>1. /\ known' \in Domains /\ cron' \in BOOLEAN /\ patch' \in Patches /\ patch'.pc # "certbot"
        /\ fails' \in 0..MaxFails
    BY <1>0, <1>2, IdleType, FailType DEF Finish, Idle, Typed, TypeOK
  <2>. QED  BY <1>2, <2>1 DEF Finish, Typed, TypeOK
<1>3. CASE Crash
  <2>1. known' \in Domains /\ cron' \in BOOLEAN /\ patch' \in Patches /\ patch'.pc # "certbot"
    BY <1>0, <1>3, IdleType DEF Crash, Idle
  <2>2. crashes' \in 0..MaxCrashes /\ fails' \in 0..MaxFails /\ exp' \in Months
    BY <1>3, FailType, BoundAssumption DEF Crash, Months, Typed, TypeOK
  <2>. QED  BY <1>3, <2>1, <2>2 DEF Crash, Typed, TypeOK
<1>4. CASE UNCHANGED vars
  BY <1>4 DEF vars, hub, certs, Typed, TypeOK
<1>. QED  BY <1>1, <1>2, <1>3, <1>4

LEMMA CertsType == Typed /\ Certs => Typed'
<1>. SUFFICES ASSUME Typed, Certs PROVE Typed'
  OBVIOUS
<1>0. exp \in Months /\ cert \in [Customs -> Months] /\ Expiry \in Months
  BY DEF Typed, TypeOK, Expiry, Months, Domains
<1>1. UNCHANGED hub
  BY DEF Certs, CertTick, UpdateCert, Month, BotEnds, hub
<1>2. CASE CertTick
  <2>1. exp' \in Months /\ fails' \in 0..MaxFails
    BY <1>0, <1>2, FailType DEF CertTick, Months, Typed
  <2>2. bots' \subseteq Customs
    BY <1>2 DEF CertTick, Typed, TypeOK, Domains
  <2>. QED  BY <1>1, <1>2, <2>1, <2>2 DEF CertTick, hub, Typed, TypeOK
<1>3. CASE UpdateCert
  <2>1. bots' \subseteq Customs
    BY <1>3 DEF UpdateCert, Typed, TypeOK, Domains
  <2>. QED  BY <1>1, <1>3, <2>1 DEF UpdateCert, hub, Typed, TypeOK
<1>4. CASE Month
  <2>1. \A m \in Months : Later(m) \in Months
    BY DEF Later, Months, Issued, None
  <2>2. exp' \in Months /\ cert' \in [Customs -> Months]
    BY <1>0, <1>4, <2>1 DEF Month
  <2>3. issued' \subseteq Customs
    BY <1>4 DEF Month, Typed, TypeOK
  <2>. QED  BY <1>1, <1>4, <2>2, <2>3 DEF Month, hub, Typed, TypeOK
<1>5. ASSUME NEW d \in Customs, BotEnds(d) PROVE Typed'
  <2>1. cert' \in [Customs -> Months] /\ fails' \in 0..MaxFails
    BY <1>0, <1>5, FailType DEF BotEnds, Months, Issued, Typed
  <2>2. bots' \subseteq Customs /\ issued' \subseteq Customs
    BY <1>5 DEF BotEnds, Typed, TypeOK
  <2>. QED  BY <1>1, <1>5, <2>1, <2>2 DEF BotEnds, hub, Typed, TypeOK
<1>. QED  BY <1>2, <1>3, <1>4, <1>5 DEF Certs

LEMMA TypeStep == Typed /\ [Next]_vars => Typed'
BY NextCases, BeganType, WritesType, OthersType, CertsType

-----------------------------------------------------------------------------
(* A request leaves behind what it has come past, and none of the places   *)
(* before it has a new domain that contains the old one.                   *)

Past(pcs) == patch.pc \notin {"idle"} \cup pcs

Before(p) ==
  \/ patch.pc \in {"certbot", "ret-config"}
  \/ p # "ret-config" /\ patch.pc = "hubs"
  \/ p \in {"spoke", "cors"} /\ patch.pc = "spoke"
  \/ p = "cors" /\ patch.pc \in {"clean", "rule", "cors"}

UnderWay ==
  /\ \A p \in Places : at[p] \in {patch.from, patch.to}
  /\ \A p \in Places : Before(p) /\ at[p] = patch.to => <<patch.from, patch.to>> \notin Found(p)
  /\ Native \in rules /\ rules \subseteq {Native, patch.from, patch.to}
  /\ Past({"certbot", "ret-config"}) => at["ret-config"] = patch.to
  /\ Past({"certbot", "ret-config", "hubs"}) => at["hubs"] = patch.to
  /\ Past({"certbot", "ret-config", "hubs", "spoke"}) => at["spoke"] = patch.to
  /\ patch.pc \in {"kill", "label", "finish"} => at["cors"] = patch.to
  /\ patch.pc = "rule" => /\ Native \in patch.copy /\ patch.copy \subseteq {Native, patch.to}
                          /\ ~uncleaned => rules = patch.copy
  /\ patch.pc \in {"cors", "kill", "label", "finish"} /\ ~uncleaned => rules = {Native, patch.to}
  /\ patch.pc = "finish" => label = patch.to

Holds == patch.pc # "idle" /\ patch.sound /\ ~patch.nested => UnderWay

LEMMA BeganHolds == Typed /\ Began => Holds'
<1>. SUFFICES ASSUME Typed, NEW from \in Domains, NEW to \in Domains, Begin(from, to),
                     patch'.sound, ~patch'.nested
              PROVE  UnderWay'
  BY DEF Began, Holds
<1>1. /\ patch'.pc \in {"ret-config", "certbot"} /\ patch'.from = from /\ patch'.to = to
      /\ patch'.sound = Sound(from, to) /\ patch'.nested = Nested(from, to) /\ UNCHANGED <<at, rules>>
  BY DEF Begin, Idle
<1>2. Sound(from, to) /\ ~Nested(from, to)
  BY <1>1
<1>. QED  BY <1>1, <1>2 DEF Sound, Nested, Found, UnderWay, Past

\* strings.Replace, in a place that has the old domain or the new one.
LEMMA PutFacts ==
  ASSUME Typed, NEW p \in Places, Put(p), \A q \in Places : at[q] \in {patch.from, patch.to},
         at[p] = patch.to => <<patch.from, patch.to>> \notin Found(p)
  PROVE  /\ at'[p] = patch.to
         /\ \A q \in Places : at'[q] \in {patch.from, patch.to} /\ (q # p => at'[q] = at[q])
<1>1. at \in [Places -> Texts] /\ patch.to # Garbled
  BY NativeAssumption DEF Typed, TypeOK, Patches, Domains, Native, Garbled
<1>2. Replaced(p, at[p]) = {patch.to}
  BY <1>1 DEF Replaced
<1>. QED  BY <1>1, <1>2 DEF Put

LEMMA WritesHolds == Typed /\ Holds /\ Writes => Holds'
<1>. SUFFICES ASSUME Typed, Holds, Writes, patch'.pc # "idle", patch'.sound, ~patch'.nested
              PROVE  UnderWay'
  BY DEF Holds
<1>1. ~GiveUp
  BY DEF GiveUp, Idle
<1>2. patch'.from = patch.from /\ patch'.to = patch.to /\ patch.sound /\ ~patch.nested /\ label' = label
  <2>1. patch' # Idle
    BY DEF Idle
  <2>2. patch'.from = patch.from /\ patch'.to = patch.to /\ patch'.sound = patch.sound /\ patch'.nested = patch.nested
    BY <2>1, WritesGo
  <2>. QED  BY <2>2, WritesKeep
<1>3. patch.pc # "idle"
  BY DEF Writes, Certbot, SetRet, SetHubs, SetSpoke, SetCors, Replace, Clean, AddRule, KillRet
<1>4. UnderWay /\ patch \in Patches
  BY <1>2, <1>3 DEF Holds, Typed, TypeOK
<1>5. \A l : Goto(l) => patch'.pc = l /\ patch'.copy = patch.copy
  BY <1>4 DEF Goto, Patches
<1>. USE <1>1, <1>2, <1>4, <1>5 DEF UnderWay, Past, Before, Found
<1>6. ASSUME NEW p \in Places, NEW l \in {"hubs", "spoke", "clean", "kill"}, Replace(p, l)
      PROVE  /\ patch.pc = p /\ patch'.pc = l /\ at'[p] = patch.to
             /\ \A q \in Places : at'[q] \in {patch.from, patch.to} /\ (q # p => at'[q] = at[q])
             /\ UNCHANGED <<rules, uncleaned>>
  <2>1. Put(p) /\ Goto(l) /\ patch.pc = p
    BY <1>6 DEF Replace
  <2>2. at[p] = patch.to => <<patch.from, patch.to>> \notin Found(p)
    BY <2>1 DEF Places
  <2>3. /\ at'[p] = patch.to
        /\ \A q \in Places : at'[q] \in {patch.from, patch.to} /\ (q # p => at'[q] = at[q])
    BY <2>1, <2>2, PutFacts
  <2>. QED  BY <1>6, <2>1, <2>3 DEF Replace
<1>7. CASE SetRet \/ SetHubs
  BY <1>6, <1>7 DEF SetRet, SetHubs, Places
<1>8. CASE SetSpoke \/ SetCors
  BY <1>6, <1>8 DEF SetSpoke, SetCors, Places
<1>9. CASE Certbot \/ KillRet
  BY <1>9 DEF Certbot, KillRet
<1>10. CASE Clean
  <2>1. PICK left : /\ left = IF patch.from = Native THEN rules ELSE rules \ {patch.from}
                    /\ patch' = [patch EXCEPT !.pc = "rule", !.copy = left]
                    /\ (rules' = left /\ UNCHANGED uncleaned) \/ uncleaned' = TRUE
                    /\ rules' \in {left, rules}
    BY <1>10 DEF Clean
  <2>2. patch'.pc = "rule" /\ patch'.copy = left
    BY <2>1 DEF Patches
  <2>3. Native \in left /\ left \subseteq {Native, patch.to}
    BY <2>1
  <2>4. patch.pc = "clean" /\ UNCHANGED at
    BY <1>10 DEF Clean
  <2>. QED  BY <2>1, <2>2, <2>3, <2>4
<1>11. CASE AddRule
  <2>1. patch.pc = "rule" /\ patch'.pc = "cors" /\ UNCHANGED at
    BY <1>11 DEF AddRule
  <2>2. CASE patch.to \in patch.copy /\ UNCHANGED <<rules, uncleaned>>
    BY <2>1, <2>2
  <2>3. CASE rules' = patch.copy \cup {patch.to}
    BY <2>1, <2>3
  <2>. QED  BY <1>11, <2>2, <2>3 DEF AddRule
<1>. QED  BY <1>7, <1>8, <1>9, <1>10, <1>11 DEF Writes

LEMMA HoldsStep == Typed /\ Holds /\ [Next]_vars => Holds'
<1>. SUFFICES ASSUME Typed, Holds, [Next]_vars PROVE Holds'
  OBVIOUS
<1>1. CASE SetLabel
  <2>1. CASE patch' = Idle
    BY <2>1 DEF Holds, Idle
  <2>2. CASE label' = patch.to /\ Goto("finish")
    <3>1. /\ patch'.pc = "finish" /\ patch'.from = patch.from /\ patch'.to = patch.to
          /\ patch'.sound = patch.sound /\ patch'.nested = patch.nested /\ patch.pc = "label" /\ UNCHANGED <<at, rules, uncleaned>>
      BY <1>1, <2>2 DEF SetLabel, Goto, Typed, TypeOK, Patches
    <3>. QED  BY <2>2, <3>1 DEF Holds, UnderWay, Past, Before
  <2>. QED  BY <1>1, <2>1, <2>2 DEF SetLabel, GiveUp
<1>2. CASE Finish \/ Crash
  BY <1>2 DEF Finish, Crash, Holds, Idle
<1>3. CASE Certs \/ UNCHANGED vars
  <2>1. UNCHANGED hub
    BY <1>3 DEF Certs, CertTick, UpdateCert, Month, BotEnds, hub, vars
  <2>. QED  BY <2>1 DEF hub, Holds, UnderWay, Past, Before
<1>. QED  BY <1>1, <1>2, <1>3, BeganHolds, WritesHolds, NextCases

-----------------------------------------------------------------------------
(* The cached date is never later than the certificate ends.               *)

Watched ==
  /\ label \in issued => cert[label] > 0 /\ (known = label => exp <= cert[label])
  /\ patch.pc \notin {"idle", "certbot"} /\ patch.to \in issued => cert[patch.to] = Issued
  /\ patch.pc = "finish" => label = patch.to

LEMMA WritesWatched == Typed /\ Watched /\ Writes => Watched'
<1>. SUFFICES ASSUME Typed, Watched, Writes PROVE Watched'
  OBVIOUS
<1>1. UNCHANGED <<label, cron, exp, cert, known>>
  BY WritesKeep
<1>2. issued' \subseteq issued /\ (patch.pc = "certbot" => patch.to \notin issued')
  BY DEF Writes, Certbot, SetRet, SetHubs, SetSpoke, SetCors, Replace, Clean, AddRule, KillRet, certs
<1>3. patch'.pc # "finish" /\ patch.pc # "idle"
  <2>1. patch \in Patches
    BY DEF Typed, TypeOK
  <2>2. \A l : Goto(l) => patch'.pc = l
    BY <2>1 DEF Goto, Patches
  <2>3. GiveUp => patch'.pc = "idle"
    BY DEF GiveUp, Idle
  <2>4. CASE Clean
    BY <2>1, <2>3, <2>4 DEF Clean, Patches
  <2>5. CASE Certbot \/ SetRet \/ SetHubs \/ SetSpoke \/ SetCors \/ AddRule \/ KillRet
    BY <2>2, <2>3, <2>5 DEF Certbot, SetRet, SetHubs, SetSpoke, SetCors, Replace, AddRule, KillRet
  <2>. QED  BY <2>4, <2>5 DEF Writes
<1>4. patch'.pc = "idle" \/ patch'.to = patch.to
  BY WritesGo DEF Idle
<1>. QED  BY <1>1, <1>2, <1>3, <1>4 DEF Watched

LEMMA MonthWatched == Typed /\ Watched /\ Month => Watched'
<1>. SUFFICES ASSUME Typed, Watched, Month PROVE Watched'
  OBVIOUS
<1>1. patch.pc = "idle" /\ UNCHANGED <<label, patch, cron, known>>
  BY DEF Month, hub
<1>2. CASE label \in issued /\ label = known /\ cron
  <2>1. label \in Customs /\ label # Native /\ cron
    BY <1>2, NativeAssumption DEF Watched, Typed, TypeOK
  <2>2. exp \in Months /\ cert[label] \in Months /\ cert[label] > 0 /\ exp <= cert[label]
    BY <1>2, <2>1 DEF Watched, Typed, TypeOK
  <2>3. Expiry # None
    BY <1>2, <2>1, <2>2 DEF Expiry, None
  <2>4. exp # None /\ exp \notin 0..1
    BY <2>1, <2>3 DEF Month, Due
  <2>5. exp' = exp - 1 /\ cert'[label] = cert[label] - 1 /\ exp - 1 > 0
    BY <2>1, <2>2, <2>4 DEF Month, Later, Months, None, Issued
  <2>. QED
    BY <1>1, <2>2, <2>5 DEF Watched, Months, None, Issued
<1>3. CASE ~(label \in issued /\ label = known /\ cron)
  <2>1. label \notin issued'
    BY <1>3 DEF Month
  <2>. QED  BY <1>1, <2>1 DEF Watched
<1>. QED  BY <1>2, <1>3

LEMMA CertsWatched == Typed /\ Watched /\ (CertTick \/ UpdateCert \/ \E d \in Customs : BotEnds(d)) => Watched'
<1>. SUFFICES ASSUME Typed, Watched, CertTick \/ UpdateCert \/ \E d \in Customs : BotEnds(d)
              PROVE  Watched'
  OBVIOUS
<1>1. UNCHANGED <<label, patch, cron, known>>
  BY DEF CertTick, UpdateCert, BotEnds, hub
<1>2. CASE CertTick
  <2>1. UNCHANGED <<cert, issued>> /\ exp' \in {Expiry, None}
    BY <1>2 DEF CertTick
  <2>2. ASSUME label \in issued, known = label PROVE exp' <= cert[label]
    <3>1. label \in Customs /\ known # Native /\ cert[label] \in Months /\ cert[label] > 0
          /\ exp <= cert[label]
      BY <2>2, NativeAssumption DEF Watched, Typed, TypeOK
    <3>. QED  BY <2>1, <2>2, <3>1 DEF Expiry, Months, None, Issued
  <2>. QED  BY <1>1, <2>1, <2>2 DEF Watched
<1>3. CASE UpdateCert
  BY <1>1, <1>3 DEF UpdateCert, Watched
<1>4. ASSUME NEW d \in Customs, BotEnds(d) PROVE Watched'
  <2>1. CASE UNCHANGED <<cert, issued>>
    BY <1>1, <1>4, <2>1 DEF BotEnds, Watched
  <2>2. CASE cert' = [cert EXCEPT ![d] = Issued] /\ issued' = issued \cup {d}
    <3>1. exp' = exp /\ exp <= Issued
      BY <1>4 DEF BotEnds, Typed, TypeOK, Months, None, Issued
    <3>2. cert'[d] = Issued /\ \A e \in Customs : e # d => cert'[e] = cert[e]
      BY <2>2 DEF Typed, TypeOK
    <3>3. issued \subseteq Customs
      BY DEF Typed, TypeOK
    <3>. QED  BY <1>1, <2>2, <3>1, <3>2, <3>3 DEF Watched, Issued
  <2>. QED  BY <1>4, <2>1, <2>2 DEF BotEnds
<1>. QED  BY <1>2, <1>3, <1>4

LEMMA WatchedStep == Typed /\ Watched /\ [Next]_vars => Watched'
<1>. SUFFICES ASSUME Typed, Watched, [Next]_vars PROVE Watched'
  OBVIOUS
<1>0. patch \in Patches /\ exp <= Issued /\ issued \subseteq Customs
  BY DEF Typed, TypeOK, Months, None, Issued
<1>1. CASE Began
  <2>1. PICK from \in Domains, to \in Domains : Begin(from, to)
    BY <1>1 DEF Began
  <2>2. patch'.pc # "finish" /\ (patch'.pc \notin {"idle", "certbot"} => patch'.to = Native)
    BY <2>1 DEF Begin, Idle
  <2>3. UNCHANGED <<label, cron, exp, cert, known, issued>>
    BY <2>1 DEF Begin, certs
  <2>. QED  BY <1>0, <2>2, <2>3, NativeAssumption DEF Watched
<1>2. CASE SetLabel
  <2>1. UNCHANGED <<cron, exp, cert, known, issued>> /\ patch.pc = "label"
    BY <1>2 DEF SetLabel, certs
  <2>2. CASE label' = label /\ patch' = Idle
    BY <2>1, <2>2 DEF Watched, Idle
  <2>3. CASE label' = patch.to /\ Goto("finish")
    <3>1. patch'.to = patch.to /\ patch'.pc = "finish"
      BY <1>0, <2>3 DEF Goto, Patches
    <3>. QED  BY <1>0, <2>1, <2>3, <3>1 DEF Watched, Issued
  <2>. QED  BY <1>2, <2>2, <2>3 DEF SetLabel, GiveUp
<1>3. CASE Finish
  <2>1. UNCHANGED <<label, exp, cert, issued>> /\ patch' = Idle /\ label = patch.to /\ patch.pc = "finish"
    BY <1>3 DEF Finish, Watched
  <2>. QED  BY <1>0, <2>1 DEF Watched, Idle
<1>4. CASE Crash
  <2>1. UNCHANGED <<label, cert, issued>> /\ patch'.pc = "idle" /\ exp' = -1
    BY <1>4 DEF Crash, Idle, None
  <2>2. label \in issued => cert[label] \in Months /\ cert[label] > 0
    BY <1>0 DEF Watched, Typed, TypeOK
  <2>. QED  BY <2>1, <2>2 DEF Watched, Months, None, Issued
<1>5. CASE UNCHANGED vars
  BY <1>5 DEF vars, hub, certs, Watched
<1>. QED
  BY <1>1, <1>2, <1>3, <1>4, <1>5, WritesWatched, MonthWatched, CertsWatched, NextCases DEF Certs

-----------------------------------------------------------------------------

\* Whatever is asked for and fails, objects carry domains that were asked for.
THEOREM TypeCorrect == Spec => []TypeOK
<1>1. Typed => TypeOK
  BY DEF Typed
<1>. QED  BY <1>1, InitType, TypeStep, PTL DEF Spec

\* However many attempts have failed or were cut off before, a request that
\* says "done" has moved the hub from its old domain to the new one, but where
\* an earlier attempt has left a new domain that contains the old one.
THEOREM TakesHold == Spec => []DomainTakesHold
<1>1. Init => Holds
  BY DEF Init, Holds, Idle
<1>2. Typed /\ Holds => DomainTakesHold
  <2>. SUFFICES ASSUME UnderWay, patch.pc = "finish" PROVE DomainTakesHold
    BY DEF Holds, DomainTakesHold
  <2>. QED  BY DEF DomainTakesHold, UnderWay, Past, Places
<1>. QED  BY <1>1, <1>2, InitType, TypeStep, HoldsStep, PTL DEF Spec

\* However many domains, requests, failures and restarts there are, the
\* certificate of a domain that ita watches does not expire.
THEOREM CertIsKept == Spec => []CertKept
<1>1. Init => Watched
  BY DEF Init, Watched, Idle
<1>2. Watched => CertKept
  BY DEF Watched, CertKept
<1>. QED  BY <1>1, <1>2, InitType, TypeStep, WatchedStep, PTL DEF Spec
=============================================================================
