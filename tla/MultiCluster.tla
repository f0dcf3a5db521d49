----------------------------- MODULE MultiCluster -----------------------------
(***************************************************************************)
(* The root cluster knows its peer clusters by a book in Redis, which each *)
(* replica of the root's orchestrator copies, edits and writes back        *)
(* (peerman.go).  A peer reports every 15 minutes; an entry of two hours   *)
(* is dropped.  By its copy of the book a replica hands a request for a    *)
(* hub of another cluster on to the orchestrator of that cluster           *)
(* (multi_cluster.go, webhooks_remote_hc_instance.go).  Time is the age of *)
(* the entries, in hours.                                                  *)
(***************************************************************************)
EXTENDS Integers, FiniteSets, Sequences

CONSTANTS
  Clusters,    \* peer clusters
  Skewed,      \* those whose clock is two hours behind the root's
  Replicas,    \* replicas of the root's orchestrator
  Jobs,        \* bound: goroutines at work on the book at once
  MaxFails,    \* bound: calls that fail
  MaxOverlaps  \* bound: jobs that start while another is at work

ASSUME ClusterAssumption == IsFiniteSet(Clusters) /\ Skewed \subseteq Clusters
ASSUME BoundAssumption   == MaxFails \in Nat /\ MaxOverlaps \in Nat

VARIABLES
  stored,    \* the book in Redis: the age of each entry
  peerMap,   \* the copy of each replica
  job,       \* the goroutines of report handlers, sync jobs and boots
  up,        \* replicas that serve
  alive,     \* clusters that report
  heard,     \* clusters whose report has come since the last hour began
  req,       \* a request for a hub of another cluster
  worked,    \* clusters that have handled the request
  fails, overlaps,
  broke      \* history: a connection broke after the request was sent

book    == <<stored, peerMap, job, heard, overlaps>>
request == <<req, worked, broke>>
vars    == <<book, request, up, alive, fails>>

Old   == 2                        \* 7200 s
None  == -1
Age   == 0..Old
Books == [Clusters -> Age \cup {None}]
Empty == [c \in Clusters |-> None]

Idle    == [pc |-> "idle", at |-> "nowhere", of |-> "nobody", copy |-> Empty, live |-> FALSE]
NoReq   == [pc |-> "idle", at |-> "nowhere", peers |-> <<>>]
Working == {j \in Jobs : job[j].pc # "idle"}
Free(j) == Working # Jobs /\ j = CHOOSE i \in Jobs : i \notin Working  \* goroutines have no names

Fail == fails < MaxFails /\ fails' = fails + 1
Fine == UNCHANGED fails

\* peerMap of a replica is replaced: whoever marshals the old map goes on with that.
Detached(jobs, r) ==
  [j \in Jobs |-> IF jobs[j].at = r THEN [jobs[j] EXCEPT !.live = FALSE] ELSE jobs[j]]

-----------------------------------------------------------------------------
(* download: an error of Redis, or of the JSON, leaves an empty map.       *)
Download(j, r, of) ==
  /\ Free(j)
  /\ overlaps' = IF Working = {} THEN overlaps ELSE overlaps + 1
  /\ overlaps' <= MaxOverlaps
  /\ job' = [Detached(job, r) EXCEPT ![j] =
               [pc |-> "edit", at |-> r, of |-> of, copy |-> Empty, live |-> FALSE]]
  /\ \/ peerMap' = [peerMap EXCEPT ![r] = stored] /\ Fine
     \/ peerMap' = [peerMap EXCEPT ![r] = Empty] /\ Fail

(* Webhook_peerReport, which any replica may get; the peer's report itself *)
(* may get lost on the way.                                                *)
Report(c, j) ==
  /\ alive[c]
  /\ \/ \E r \in up : Download(j, r, c) /\ heard' = heard \cup {c}
     \/ /\ Fail /\ c \notin heard
        /\ UNCHANGED <<peerMap, job, heard, overlaps>>
  /\ UNCHANGED <<stored, up, alive, request>>

Sync(r, j) ==
  /\ r \in up /\ Download(j, r, "sync")
  /\ UNCHANGED <<stored, up, alive, heard, request>>

(* NewPeerMan: the same three calls before the replica serves.             *)
Boot(r, j) ==
  /\ r \notin up /\ \A k \in Jobs : job[k].at # r
  /\ Download(j, r, "boot")
  /\ UNCHANGED <<stored, up, alive, heard, request>>

Crashed(r) ==
  /\ up' = up \ {r}
  /\ job' = [k \in Jobs |-> IF job[k].at = r THEN Idle ELSE job[k]]
  /\ peerMap' = [peerMap EXCEPT ![r] = Empty]

\* The request is answered, refused or lost with its replica.
Ended == req' = NoReq /\ worked' = {} /\ broke' = FALSE

\* Goroutines that marshal the map which is current, outside the mutex.
Marshalling(r) == {k \in Jobs : job[k].at = r /\ job[k].pc = "set" /\ job[k].live}

\* A mistake: the time is the peer's.
EntryTheirs(c) == IF c \in Skewed THEN Old ELSE 0

\* A mistake: so it is, and a peer may be ahead of the root.
EntryAhead(c) == IF c \in Skewed THEN -Old ELSE 0

\* handlePeerReport sets the time of the report to the root's.
Entry(c) == 0

(* UpdatePeerAndUpload writes into the map; a map that is written while it *)
(* is read ends the process, or the reader sees the entry, or does not.    *)
Edit(j) ==
  LET k == job[j]
      r == k.at
      c == k.of
      racing == Marshalling(r) \ {j}
  IN
  /\ k.pc = "edit" /\ c \in Clusters
  /\ \/ \E seen \in SUBSET racing :
          /\ peerMap' = [peerMap EXCEPT ![r][c] = Entry(c)]
          /\ job' = [i \in Jobs |-> IF i = j THEN [k EXCEPT !.pc = "upload"]
                                    ELSE IF i \in seen THEN [job[i] EXCEPT !.copy[c] = Entry(c)]
                                    ELSE job[i]]
          /\ UNCHANGED <<up, request, fails>>
     \/ /\ racing # {} /\ Fail
        /\ Crashed(r)
        /\ IF req.at = r THEN Ended ELSE UNCHANGED request
  /\ UNCHANGED <<stored, alive, heard, overlaps>>

\* A mistake: nothing is dropped.
CleanedNot(b) == b

Cleaned(b) == [c \in Clusters |-> IF b[c] = Old THEN None ELSE b[c]]

Cleanup(j) ==
  LET k == job[j] IN
  /\ k.pc = "edit" /\ k.of \notin Clusters
  /\ peerMap' = [peerMap EXCEPT ![k.at] = Cleaned(peerMap[k.at])]
  /\ job' = [Detached(job, k.at) EXCEPT ![j].pc = "upload"]
  /\ UNCHANGED <<stored, up, alive, heard, overlaps, request, fails>>

(* upload takes the map under the mutex and marshals it outside.           *)
Marshal(j) ==
  LET k == job[j] IN
  /\ k.pc = "upload"
  /\ job' = [job EXCEPT ![j] = [k EXCEPT !.pc = "set", !.copy = peerMap[k.at], !.live = TRUE]]
  /\ UNCHANGED <<stored, peerMap, up, alive, heard, overlaps, request, fails>>

SetBook(j) ==
  LET k == job[j] IN
  /\ k.pc = "set"
  /\ \/ stored' = k.copy /\ Fine
     \/ UNCHANGED stored /\ Fail
  /\ job' = [job EXCEPT ![j] = Idle]
  /\ up' = IF k.of = "boot" THEN up \cup {k.at} ELSE up
  /\ UNCHANGED <<peerMap, alive, heard, overlaps, request>>

-----------------------------------------------------------------------------
(* handleMultiClusterReq: the peers of a region, or those of one domain,   *)
(* in some order (the region's by their number of hubs); without any the   *)
(* request is refused.                                                     *)
Orders(S) == {s \in [1..Cardinality(S) -> S] : \A a, b \in DOMAIN s : s[a] = s[b] => a = b}

Ask(r, wanted) ==
  /\ req.pc = "idle" /\ r \in up
  /\ \/ /\ \E s \in Orders({c \in wanted : peerMap[r][c] # None}) :
             s # <<>> /\ req' = [pc |-> "try", at |-> r, peers |-> s]
        /\ UNCHANGED <<up, job, peerMap, fails>>
     \/ \* FindPeerDomain reads the map outside the mutex while a report writes it
        /\ \E j \in Jobs : job[j].at = r /\ job[j].pc = "edit" /\ job[j].of \in Clusters
        /\ Crashed(r) /\ Fail /\ UNCHANGED req
  /\ UNCHANGED <<stored, alive, heard, overlaps, worked, broke>>

\* RetryHttpReq has given the peer up: the loop takes the next one.
NextPeer ==
  IF Len(req.peers) = 1 THEN Ended
  ELSE req' = [req EXCEPT !.peers = Tail(@), !.pc = "try"] /\ UNCHANGED <<worked, broke>>

\* The peer cannot be reached, or answers 404 for a token or a body that is wrong:
\* then the retries of RetryHttpReq have no body left to send and fail as well.
GivenUp ==
  /\ req.pc = "try"
  /\ IF alive[Head(req.peers)] THEN Fail ELSE Fine
  /\ NextPeer
  /\ UNCHANGED <<book, up, alive>>

Handle ==
  /\ req.pc = "try" /\ alive[Head(req.peers)]
  /\ req' = [req EXCEPT !.pc = "answer"]
  /\ worked' = worked \cup {Head(req.peers)}
  /\ UNCHANGED <<book, broke, up, alive, fails>>

\* A mistake: a peer that has failed says so, and the next peer is asked.
AnswerHonest ==
  /\ req.pc = "answer"
  /\ (Ended /\ Fine) \/ (NextPeer /\ Fail)
  /\ UNCHANGED <<book, up, alive>>

\* The peer answers "[remote] done", whether its work has failed or not.
Answer ==
  /\ req.pc = "answer" /\ Ended
  /\ UNCHANGED <<book, up, alive, fails>>

\* The connection breaks before the answer, and what was sent cannot be sent again.
Broken ==
  /\ req.pc = "answer" /\ Fail
  /\ IF Len(req.peers) = 1 THEN Ended
     ELSE /\ req' = [req EXCEPT !.peers = Tail(@), !.pc = "try"]
          /\ broke' = TRUE /\ UNCHANGED worked
  /\ UNCHANGED <<book, up, alive>>

-----------------------------------------------------------------------------
(* A peer reports four times an hour, and a job takes seconds.             *)
Hour ==
  /\ Working = {} /\ \A c \in Clusters : alive[c] => c \in heard
  /\ stored' = [c \in Clusters |-> IF stored[c] \in 0..(Old - 1) THEN stored[c] + 1 ELSE stored[c]]
  /\ peerMap' = [r \in Replicas |-> [c \in Clusters |->
       IF peerMap[r][c] \in 0..(Old - 1) THEN peerMap[r][c] + 1 ELSE peerMap[r][c]]]
  /\ heard' = {}
  /\ UNCHANGED <<job, overlaps, up, alive, request, fails>>

\* Bound: one cluster goes away.
Die(c) ==
  /\ \A d \in Clusters : alive[d]
  /\ alive' = [alive EXCEPT ![c] = FALSE]
  /\ UNCHANGED <<book, request, up, fails>>

Init ==
  /\ stored = Empty /\ peerMap = [r \in Replicas |-> Empty]
  /\ job = [j \in Jobs |-> Idle] /\ up = Replicas
  /\ alive = [c \in Clusters |-> TRUE] /\ heard = {}
  /\ req = NoReq /\ worked = {} /\ broke = FALSE
  /\ fails = 0 /\ overlaps = 0

JobStep(j) == Edit(j) \/ Cleanup(j) \/ Marshal(j) \/ SetBook(j)
Forward    == GivenUp \/ Handle \/ Answer \/ Broken

Next ==
  \/ \E j \in Jobs :
       \/ JobStep(j)
       \/ \E c \in Clusters : Report(c, j)
       \/ \E r \in Replicas : Sync(r, j) \/ Boot(r, j)
  \/ \E r \in Replicas, w \in SUBSET Clusters : Ask(r, w)
  \/ Forward \/ Hour
  \/ \E c \in Clusters : Die(c)

Spec == Init /\ [][Next]_vars

(* Goroutines run, and the tickers of the cron jobs fire, whoever else is  *)
(* at work: the bound on the overlaps delays them, hence SF.               *)
Fairness ==
  /\ \A j \in Jobs : WF_vars(JobStep(j))
  /\ \A c \in Clusters : SF_vars(\E j \in Jobs : Report(c, j))
  /\ \A r \in Replicas : SF_vars(\E j \in Jobs : Sync(r, j) \/ Boot(r, j))
  /\ SF_vars(Hour)

LiveSpec == Spec /\ Fairness

-----------------------------------------------------------------------------
JobSet == [pc : {"idle", "edit", "upload", "set"}, at : Replicas \cup {"nowhere"},
           of : Clusters \cup {"nobody", "sync", "boot"}, copy : Books, live : BOOLEAN]
ReqSet == [pc : {"idle", "try", "answer"}, at : Replicas \cup {"nowhere"}, peers : Seq(Clusters)]

\* The books, stored or in memory, hold reports of the peers that were made, and no
\* report is from the future (peerman.go:10, 117).
TypeOK ==
  /\ stored \in Books /\ peerMap \in [Replicas -> Books]
  /\ job \in [Jobs -> JobSet]
  /\ up \subseteq Replicas /\ alive \in [Clusters -> BOOLEAN] /\ heard \subseteq Clusters
  /\ req \in ReqSet
  /\ worked \subseteq Clusters /\ broke \in BOOLEAN
  /\ fails \in 0..MaxFails /\ overlaps \in 0..MaxOverlaps

(* A request that is handed on is handled by one cluster and no more, the  *)
(* one that answers: when a peer is tried nobody has handled the request,  *)
(* so that it is refused only if nobody has.  A peer that was asked and    *)
(* has not worked is given up without a doubt (RetryHttpReq cannot send    *)
(* the body twice), and one that has worked ends the loop whatever became  *)
(* of its work (multi_cluster.go:69-108,                                   *)
(* webhooks_remote_hc_instance.go:28-39).  Only a connection that breaks   *)
(* after the request was sent makes two hubs of one request.               *)
OneCluster ==
  ~broke => /\ req.pc = "try"    => worked = {}
            /\ req.pc = "answer" => worked = {Head(req.peers)}

(* A cluster that keeps reporting stays in the book in the end: reports    *)
(* lost to another job's upload, and a book lost to an error of Redis      *)
(* (peerman.go:66-80, 117-131), are made good by the next report.          *)
Known == \A c \in Clusters : <>[](alive[c] => stored[c] # None)

(* A cluster that no longer reports leaves the book for good, although     *)
(* uploads of old copies may bring it back for a while (peerman.go:82-92). *)
Forgotten == \A c \in Clusters : ~alive[c] ~> [](stored[c] = None)
=============================================================================
