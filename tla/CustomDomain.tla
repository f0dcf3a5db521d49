----------------------------- MODULE CustomDomain -----------------------------
(***************************************************************************)
(* The domain of a hub.  A PATCH to the hub's ita moves the hub from one   *)
(* domain to another: reticulum's configuration, the environments of hubs  *)
(* and spoke, the ingress and its CORS header, and last the label on ita's *)
(* deployment that records the domain (handlers_customDomain.go).  A pod   *)
(* of certbot fetches the certificate, a cron job has it renewed           *)
(* (cron_jobs.go).  Time is counted in months of 30 days.                  *)
(***************************************************************************)
EXTENDS Integers, FiniteSets

CONSTANTS
  Customs,    \* custom domains
  Within,     \* pairs of them: the text of the first is a part of the second's
  Starts,     \* ... and stands at its beginning
  MaxPatches, \* bound: requests
  MaxCrashes, \* bound: restarts of ita
  MaxFails    \* bound: calls that fail

ASSUME NestAssumption  == /\ Starts \subseteq Within /\ Within \subseteq Customs \X Customs
                          /\ \A d \in Customs : <<d, d>> \notin Within
ASSUME BoundAssumption == {MaxPatches, MaxCrashes, MaxFails} \subseteq Nat

VARIABLES
  at,        \* the domain in each place where it is replaced, or a mixture of some
  rules,     \* hosts with a rule and a TLS entry in the ingress
  label,     \* custom-domain on ita's deployment
  patch,     \* the request that holds the lock
  known,     \* cfg.CustomDomain
  cron,      \* Cronjob_customDomainCert has been started
  exp,       \* cfg.CustomDomainCertExp: months left
  cert,      \* months left of the certificate of each domain
  bots,      \* domains for which a certbotbot pod runs
  patches, crashes, fails,
  issued,    \* history: domains certified since they were asked for, and watched since
  uncleaned  \* history: an ingress kept the rule of a domain given up

hub   == <<at, rules, label, patch, patches, uncleaned>>
certs == <<cron, exp, cert, bots, issued>>
vars  == <<hub, certs, known, crashes, fails>>

Native  == "native"  \* <SubDomain>.<HubDomain>; the label is then empty
Domains == Customs \cup {Native}
Places  == {"ret-config", "hubs", "spoke", "cors"}
Garbled == "garbled" \* a text that is no domain of the hub
Texts   == Domains \cup {Garbled}
None    == -1
ASSUME NativeAssumption == Native \notin Customs /\ Garbled \notin Customs

Issued  == 3         \* 90 days

Idle == [pc |-> "idle", from |-> Native, to |-> Native, sound |-> FALSE, nested |-> FALSE, copy |-> {Native}]

Fail == fails < MaxFails /\ fails' = fails + 1
Fine == UNCHANGED fails

-----------------------------------------------------------------------------
(* PATCH /custom-domain, under the hub's lock.                             *)
Goto(pc) == patch' = [patch EXCEPT !.pc = pc]
GiveUp   == Fail /\ patch' = Idle   \* "failed @ ...": the rest is not done

\* Everything is at the old domain or at the new one, where attempts to make
\* the same change leave it.
Sound(from, to) == /\ \A p \in Places : at[p] \in {from, to}
                   /\ Native \in rules /\ rules \subseteq {Native, from, to}

\* In ret-config the domain is looked for behind a quote, elsewhere anywhere.
Found(p) == IF p = "ret-config" THEN Starts ELSE Within

\* An earlier attempt has left a new domain that contains the old one.
Nested(from, to) == \E p \in Places : at[p] = to /\ <<from, to>> \in Found(p)

\* A read of the label that fails gives the native domain.
Begin(from, to) ==
  /\ patch.pc = "idle" /\ patches < MaxPatches /\ from # to
  /\ \/ from = label /\ Fine
     \/ from = Native /\ Fail
  /\ patch' = [Idle EXCEPT !.pc = IF to = Native THEN "ret-config" ELSE "certbot",
                           !.from = from, !.to = to, !.sound = Sound(from, to), !.nested = Nested(from, to)]
  /\ patches' = patches + 1
  /\ uncleaned' = FALSE
  /\ UNCHANGED <<at, rules, label, certs, known, crashes>>

Certbot ==
  /\ patch.pc = "certbot"
  /\ issued' = issued \ {patch.to}
  /\ \/ bots' = bots \cup {patch.to} /\ Goto("ret-config") /\ Fine
     \/ GiveUp /\ UNCHANGED bots
  /\ UNCHANGED <<at, rules, label, patches, uncleaned, cron, exp, cert, known, crashes>>

\* strings.Replace: a text that does not hold the old domain stays as it is,
\* one that holds it and more becomes one that holds the new domain and more.
Replaced(p, text) ==
  IF text = patch.from THEN {patch.to}
  ELSE IF text = Garbled \/ <<patch.from, text>> \in Found(p)
    THEN {d \in Customs : <<patch.to, d>> \in Found(p)} \cup {Garbled}
    ELSE {text}

Put(p) == \E text \in Replaced(p, at[p]) : at' = [at EXCEPT ![p] = text]

Replace(p, next) ==
  /\ patch.pc = p
  /\ \/ Put(p) /\ Goto(next) /\ Fine
     \/ GiveUp /\ UNCHANGED at
  /\ UNCHANGED <<rules, label, patches, uncleaned, certs, known, crashes>>

\* setCustomDomain, then the ingress, then its header.
SetRet == Replace("ret-config", "hubs")
SetHubs == Replace("hubs", "spoke")
SetSpoke == Replace("spoke", "clean")
SetCors == Replace("cors", "kill")

\* A mistake: whether the new rule is there is asked first.
CleanLater ==
  /\ patch.pc = "clean"
  /\ \/ /\ patch' = [patch EXCEPT !.pc = IF patch.to \in rules THEN "cors" ELSE "rule",
                                  !.copy = IF patch.from = Native THEN rules ELSE rules \ {patch.from}]
        /\ Fine
     \/ GiveUp
  /\ UNCHANGED <<at, rules, label, patches, uncleaned, certs, known, crashes>>

\* ingress_addCustomDomainRule: the old domain's rule goes; the error of this
\* update is dropped, and the copy goes on without the rule.
Clean ==
  /\ patch.pc = "clean"
  /\ \/ LET left == IF patch.from = Native THEN rules ELSE rules \ {patch.from} IN
        /\ patch' = [patch EXCEPT !.pc = "rule", !.copy = left]
        /\ \/ rules' = left /\ Fine /\ UNCHANGED uncleaned
           \/ left # rules /\ Fail /\ UNCHANGED rules /\ uncleaned' = TRUE
     \/ GiveUp /\ UNCHANGED <<rules, uncleaned>>
  /\ UNCHANGED <<at, label, patches, certs, known, crashes>>

\* The rule of the new domain may be there from an earlier attempt; the
\* native domain's always is.  The version is not checked.
AddRule ==
  /\ patch.pc = "rule"
  /\ \/ /\ patch.to \in patch.copy
        /\ Goto("cors") /\ UNCHANGED <<rules, uncleaned>> /\ Fine
     \/ /\ patch.to \notin patch.copy
        /\ \/ /\ rules' = patch.copy \cup {patch.to} /\ uncleaned' = FALSE
              /\ Goto("cors") /\ Fine
           \/ GiveUp /\ UNCHANGED <<rules, uncleaned>>
  /\ UNCHANGED <<at, label, patches, certs, known, crashes>>

KillRet ==
  /\ patch.pc = "kill"
  /\ (Goto("label") /\ Fine) \/ GiveUp
  /\ UNCHANGED <<at, rules, label, patches, uncleaned, certs, known, crashes>>

SetLabel ==
  /\ patch.pc = "label"
  /\ \/ label' = patch.to /\ Goto("finish") /\ Fine
     \/ GiveUp /\ UNCHANGED label
  /\ UNCHANGED <<at, rules, patches, uncleaned, certs, known, crashes>>

\* setupFeatures starts a cron job for a custom domain, and stops none; it
\* panics before, after the answer, if the updater or ita's rule in the ingress
\* cannot be set up.
Finish ==
  /\ patch.pc = "finish"
  /\ known' = patch.to
  /\ \/ cron' = (cron \/ patch.to # Native) /\ Fine
     \/ Fail /\ UNCHANGED cron
  /\ patch' = Idle
  /\ UNCHANGED <<at, rules, label, patches, uncleaned, exp, cert, bots, issued, crashes>>

\* Bound: MaxCrashes.  MakeCfg drops the error of reading the label.
Crash ==
  /\ crashes < MaxCrashes /\ crashes' = crashes + 1
  /\ patch' = Idle /\ exp' = None
  /\ \/ known' = label /\ Fine
     \/ known' = Native /\ Fail
  /\ cron' = (known' # Native)
  /\ UNCHANGED <<at, rules, label, patches, uncleaned, cert, bots, issued>>

-----------------------------------------------------------------------------
(* The certificate.  The cached expiry outlives a change of the domain.    *)
Expiry == IF exp # None THEN exp ELSE IF known = Native THEN None ELSE cert[known]

\* A mistake: a certificate is renewed once it has expired.
DueLate(left) == left = 0

Due(left) == left \in 0..1

\* Cronjob_customDomainCert, every twelve hours: the pod is for the domain of
\* the label, and none is started if the label cannot be read.
CertTick ==
  /\ cron /\ Expiry # None
  /\ \/ ~Due(Expiry) /\ exp' = Expiry /\ exp # exp' /\ Fine /\ UNCHANGED bots
     \/ /\ Due(Expiry) /\ exp' = None
        /\ \/ bots' = bots \cup ({label} \ {Native}) /\ Fine
           \/ Fail /\ UNCHANGED bots
  /\ UNCHANGED <<hub, cron, cert, issued, known, crashes>>

\* UpdateCert, by the hub's admin.
UpdateCert ==
  /\ label # Native /\ bots' = bots \cup {label} /\ bots' # bots
  /\ UNCHANGED <<hub, cron, exp, cert, issued, known, crashes, fails>>

\* A certbotbot pod ends; it is not restarted.
BotEnds(d) ==
  /\ d \in bots /\ bots' = bots \ {d}
  /\ \/ cert' = [cert EXCEPT ![d] = Issued] /\ issued' = issued \cup {d} /\ Fine
     \/ Fail /\ UNCHANGED <<cert, issued>>
  /\ UNCHANGED <<hub, cron, exp, known, crashes>>

\* A mistake: a date that is not known grows older too.
Aged(left) == IF left # 0 THEN left - 1 ELSE left

Later(left) == IF left > 0 THEN left - 1 ELSE left

\* The cron job has run some sixty times in a month, and pods and requests
\* take minutes.  A domain that ita does not know is not watched, and none is
\* without the cron job.
Month ==
  /\ patch.pc = "idle" /\ bots = {}
  /\ cron /\ Expiry # None => exp # None /\ ~Due(exp)
  /\ cert' = [d \in Customs |-> Later(cert[d])] /\ exp' = Later(exp)
  /\ issued' = IF cron THEN issued \cap {known} ELSE {}
  /\ UNCHANGED <<hub, cron, bots, known, crashes, fails>>

-----------------------------------------------------------------------------
Init ==
  /\ at = [p \in Places |-> Native] /\ rules = {Native} /\ label = Native
  /\ patch = Idle /\ known = Native /\ cron = FALSE
  /\ exp = None /\ cert = [d \in Customs |-> None] /\ bots = {}
  /\ patches = 0 /\ crashes = 0 /\ fails = 0
  /\ issued = {} /\ uncleaned = FALSE

Work == \/ Certbot \/ SetRet \/ SetHubs \/ SetSpoke \/ Clean \/ AddRule \/ SetCors
        \/ KillRet \/ SetLabel \/ Finish

Next ==
  \/ \E from, to \in Domains : Begin(from, to)
  \/ Work \/ Crash \/ CertTick \/ UpdateCert \/ Month
  \/ \E d \in Customs : BotEnds(d)

Spec == Init /\ [][Next]_vars

-----------------------------------------------------------------------------
Months   == 0..Issued \cup {None}
PatchPcs == {"idle", "certbot", "clean", "rule", "kill", "label", "finish"} \cup Places
Patches  == [pc : PatchPcs, from : Domains, to : Domains, sound : BOOLEAN, nested : BOOLEAN, copy : SUBSET Domains]

\* Objects carry domains that were asked for, a request is at a call of its own,
\* and a certificate ends as it ages (handlers_customDomain.go:191, cron_jobs.go:322).
TypeOK ==
  /\ at \in [Places -> Texts] /\ rules \subseteq Domains /\ label \in Domains
  /\ patch \in Patches
  /\ known \in Domains /\ cron \in BOOLEAN
  /\ exp \in Months /\ cert \in [Customs -> Months] /\ bots \subseteq Customs
  /\ patches \in 0..MaxPatches /\ crashes \in 0..MaxCrashes /\ fails \in 0..MaxFails
  /\ issued \subseteq Customs /\ uncleaned \in BOOLEAN

(* When a request says "done", every place has the new domain, the ingress *)
(* routes it, and it no longer routes the old one: also when it completes  *)
(* what earlier attempts, ended by an error or by a restart, have left     *)
(* half done (handlers_customDomain.go:78-111).  Not if the hub was half   *)
(* way to yet another domain, because a text that does not hold the old    *)
(* domain is left alone; not if a place has the new domain already and the *)
(* old one is a part of that, because it is replaced again (213-237, 318); *)
(* nor if the update that drops the old rule failed (274 ignores it).      *)
DomainTakesHold ==
  patch.pc = "finish" /\ patch.sound /\ ~patch.nested =>
    /\ label = patch.to /\ \A p \in Places : at[p] = label
    /\ ~uncleaned => rules = {Native, label}

\* What the answer says, "done: [from] -> [to]", of a hub that was between the
\* two domains (handlers_customDomain.go:117).  Not so of nested domains, see
\* CustomDomain_retry.cfg.
DoneIsDone == patch.pc = "finish" /\ patch.sound => \A p \in Places : at[p] = patch.to

(* The certificate of the hub's domain does not expire, once certbot has   *)
(* answered the request for that domain, as long as ita knows the domain   *)
(* and its cron job runs: although the cached date may be that of another  *)
(* domain's certificate, and although pods fail and ita is restarted       *)
(* (cron_jobs.go:322-363, cfg.CustomDomainCertExp).                        *)
CertKept == label \in issued => cert[label] > 0

\* What featureMan.go:94 says of a custom domain, "need to maintain cert": ita
\* has the cron job of the certificate for the domain it knows.  It may have
\* none, see CustomDomain_watch.cfg.
CertMaintained == known # Native => cron
=============================================================================
