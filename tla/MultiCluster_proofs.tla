------------------------- MODULE MultiCluster_proofs -------------------------
(* Proofs about MultiCluster, for any peers, replicas and failures.        *)
EXTENDS MultiCluster, FiniteSetTheorems, TLAPS

Reports == \E c \in Clusters, j \in Jobs : Report(c, j)
Starts  == \E r \in Replicas, j \in Jobs : Sync(r, j) \/ Boot(r, j)
Works   == \E j \in Jobs : JobStep(j)
Asks    == \E r \in Replicas, w \in SUBSET Clusters : Ask(r, w)
Deaths  == \E c \in Clusters : Die(c)

LEMMA NextCases ==
  ASSUME [Next]_vars
  PROVE  Reports \/ Starts \/ Works \/ Asks \/ Forward \/ Hour \/ Deaths \/ UNCHANGED vars
BY DEF Next, Reports, Starts, Works, Asks, Deaths

-----------------------------------------------------------------------------
(* Types.  The books and the request are kept apart.                       *)

BookOK ==
  /\ stored \in Books /\ peerMap \in [Replicas -> Books] /\ job \in [Jobs -> JobSet]
  /\ up \subseteq Replicas /\ alive \in [Clusters -> BOOLEAN] /\ heard \subseteq Clusters
  /\ fails \in 0..MaxFails /\ overlaps \in 0..MaxOverlaps

RequestOK == req \in ReqSet /\ worked \subseteq Clusters /\ broke \in BOOLEAN

\* There is a peer to try as long as the request is not ended.
PeersLeft == req.pc # "idle" => req.peers # <<>>

\* A goroutine that works is of some replica.
JobsAt(jobs) == \A j \in Jobs : jobs[j].pc # "idle" => jobs[j].at \in Replicas

Typed == BookOK /\ JobsAt(job) /\ RequestOK /\ PeersLeft

LEMMA TypedIsTypeOK == Typed => TypeOK
BY DEF Typed, BookOK, RequestOK, TypeOK

LEMMA FailType ==
  ASSUME BookOK, Fail \/ Fine
  PROVE  fails' \in 0..MaxFails
BY BoundAssumption DEF Fail, Fine, BookOK

LEMMA BookFacts ==
  /\ Empty \in Books /\ Idle \in JobSet /\ NoReq \in ReqSet
  /\ \A c \in Clusters : Entry(c) \in Age
  /\ \A b \in Books : Cleaned(b) \in Books
<1>1. Empty \in Books
  BY DEF Empty, Books
<1>2. Idle \in JobSet
  BY <1>1 DEF Idle, JobSet
<1>3. NoReq \in ReqSet
  BY DEF NoReq, ReqSet
<1>4. \A c \in Clusters : Entry(c) \in Age
  BY DEF Entry, Age, Old
<1>5. \A b \in Books : Cleaned(b) \in Books
  BY DEF Cleaned, Books
<1>. QED  BY <1>1, <1>2, <1>3, <1>4, <1>5

LEMMA DetachedType ==
  ASSUME BookOK, NEW r
  PROVE  /\ Detached(job, r) \in [Jobs -> JobSet]
         /\ \A j \in Jobs : Detached(job, r)[j].pc = job[j].pc /\ Detached(job, r)[j].at = job[j].at
<1>1. \A k \in JobSet : LET d == [k EXCEPT !.live = FALSE]
                       IN  d \in JobSet /\ d.pc = k.pc /\ d.at = k.at
  BY DEF JobSet
<1>. QED  BY <1>1 DEF Detached, BookOK

LEMMA DownloadType ==
  ASSUME Typed, NEW j \in Jobs, NEW r \in Replicas, NEW of \in Clusters \cup {"sync", "boot"},
         Download(j, r, of)
  PROVE  /\ job' \in [Jobs -> JobSet] /\ JobsAt(job') /\ peerMap' \in [Replicas -> Books]
         /\ fails' \in 0..MaxFails /\ overlaps' \in 0..MaxOverlaps
<1>1. [pc |-> "edit", at |-> r, of |-> of, copy |-> Empty, live |-> FALSE] \in JobSet
  BY BookFacts DEF JobSet
<1>2. job' \in [Jobs -> JobSet] /\ JobsAt(job')
  BY <1>1, DetachedType DEF Download, Typed, JobsAt
<1>3. peerMap' \in [Replicas -> Books]
  BY BookFacts DEF Download, Typed, BookOK
<1>4. fails' \in 0..MaxFails
  BY FailType DEF Download, Typed
<1>5. overlaps' \in 0..MaxOverlaps
  BY BoundAssumption DEF Download, Typed, BookOK
<1>. QED  BY <1>2, <1>3, <1>4, <1>5

LEMMA CrashedType ==
  ASSUME Typed, NEW r \in Replicas, Crashed(r)
  PROVE  /\ up' \subseteq Replicas /\ job' \in [Jobs -> JobSet] /\ JobsAt(job')
         /\ peerMap' \in [Replicas -> Books]
<1>1. Idle.pc = "idle"
  BY DEF Idle
<1>. QED  BY <1>1, BookFacts DEF Crashed, Typed, BookOK, JobsAt

LEMMA EndedType == Ended => RequestOK' /\ PeersLeft'
<1>1. NoReq.pc = "idle" /\ FALSE \in BOOLEAN
  BY DEF NoReq
<1>. QED  BY <1>1, BookFacts DEF Ended, RequestOK, PeersLeft

LEMMA StartType == Typed /\ (Reports \/ Starts) => Typed'
<1>. SUFFICES ASSUME Typed, Reports \/ Starts PROVE Typed'
  OBVIOUS
<1>1. ASSUME NEW c \in Clusters, NEW j \in Jobs, Report(c, j) PROVE Typed'
  <2>1. heard' \subseteq Clusters /\ UNCHANGED <<stored, up, alive, req, worked, broke>>
    BY <1>1 DEF Report, request, Typed, BookOK
  <2>2. CASE \E r \in up : Download(j, r, c)
    BY <2>1, <2>2, DownloadType DEF Typed, BookOK, JobsAt, RequestOK, PeersLeft
  <2>3. CASE Fail /\ UNCHANGED <<peerMap, job, heard, overlaps>>
    BY <2>1, <2>3, FailType DEF Typed, BookOK, JobsAt, RequestOK, PeersLeft
  <2>. QED  BY <1>1, <2>2, <2>3 DEF Report
<1>2. ASSUME NEW r \in Replicas, NEW j \in Jobs, Sync(r, j) \/ Boot(r, j) PROVE Typed'
  BY <1>2, DownloadType DEF Sync, Boot, request, Typed, BookOK, JobsAt, RequestOK, PeersLeft
<1>. QED  BY <1>1, <1>2 DEF Reports, Starts

LEMMA EditType ==
  ASSUME Typed, NEW j \in Jobs, Edit(j)
  PROVE  Typed'
<1>. DEFINE k == job[j]  r == k.at  c == k.of
<1>1. k \in JobSet /\ r \in Replicas /\ k.pc = "edit" /\ c \in Clusters /\ UNCHANGED <<stored, alive, heard, overlaps>>
  BY DEF Edit, Typed, BookOK, JobsAt
<1>2. CASE \E seen \in SUBSET (Marshalling(r) \ {j}) :
             /\ peerMap' = [peerMap EXCEPT ![r][c] = Entry(c)]
             /\ job' = [i \in Jobs |-> IF i = j THEN [k EXCEPT !.pc = "upload"]
                                       ELSE IF i \in seen THEN [job[i] EXCEPT !.copy[c] = Entry(c)]
                                       ELSE job[i]]
             /\ UNCHANGED <<up, request, fails>>
  <2>1. \A b \in Books : [b EXCEPT ![c] = Entry(c)] \in Books
    BY <1>1, BookFacts DEF Books
  <2>2. \A i \in JobSet :
          /\ [i EXCEPT !.pc = "upload"] \in JobSet /\ [i EXCEPT !.pc = "upload"].at = i.at
          /\ [i EXCEPT !.copy[c] = Entry(c)] \in JobSet
          /\ [i EXCEPT !.copy[c] = Entry(c)].at = i.at /\ [i EXCEPT !.copy[c] = Entry(c)].pc = i.pc
    BY <2>1 DEF JobSet
  <2>3. PICK seen \in SUBSET (Marshalling(r) \ {j}) :
          job' = [i \in Jobs |-> IF i = j THEN [k EXCEPT !.pc = "upload"]
                                ELSE IF i \in seen THEN [job[i] EXCEPT !.copy[c] = Entry(c)]
                                ELSE job[i]]
    BY <1>2
  <2>. DEFINE raced(i) == [job[i] EXCEPT !.copy[c] = Entry(c)]
              started == [k EXCEPT !.pc = "upload"]
  <2>5. started \in JobSet /\ started.at \in Replicas
    BY <1>1, <2>2
  <2>6. \A i \in Jobs : /\ job[i] \in JobSet /\ raced(i) \in JobSet
                        /\ raced(i).at = job[i].at /\ raced(i).pc = job[i].pc
    BY <2>2 DEF Typed, BookOK
  <2>7. job' = [i \in Jobs |-> IF i = j THEN started ELSE IF i \in seen THEN raced(i) ELSE job[i]]
    BY <2>3
  <2>. HIDE DEF raced, started
  <2>8. job' \in [Jobs -> JobSet] /\ JobsAt(job')
    BY <2>5, <2>6, <2>7 DEF Typed, JobsAt
  <2>4. peerMap' \in [Replicas -> Books]
    BY <1>1, <1>2, <2>1 DEF Typed, BookOK
  <2>. QED
    BY <1>1, <1>2, <2>4, <2>8 DEF request, Typed, BookOK, JobsAt, RequestOK, PeersLeft
<1>3. CASE /\ Fail /\ Crashed(r)
           /\ IF req.at = r THEN Ended ELSE UNCHANGED request
  <2>1. RequestOK' /\ PeersLeft'
    BY <1>3, EndedType DEF request, Typed, RequestOK, PeersLeft
  <2>2. fails' \in 0..MaxFails
    BY <1>3, FailType DEF Typed
  <2>3. /\ up' \subseteq Replicas /\ job' \in [Jobs -> JobSet] /\ JobsAt(job')
        /\ peerMap' \in [Replicas -> Books]
    BY <1>1, <1>3, CrashedType
  <2>. QED  BY <1>1, <2>1, <2>2, <2>3 DEF Typed, BookOK
<1>. QED  BY <1>2, <1>3 DEF Edit

LEMMA WorkType == Typed /\ Works => Typed'
<1>. SUFFICES ASSUME Typed, NEW j \in Jobs, JobStep(j) PROVE Typed'
  BY DEF Works
<1>0. job[j] \in JobSet /\ job[j].at \in Replicas /\ \A r \in Replicas : peerMap[r] \in Books
  BY DEF JobStep, Edit, Cleanup, Marshal, SetBook, Typed, BookOK, JobsAt
<1>1. CASE Cleanup(j)
  <2>1. peerMap' \in [Replicas -> Books]
    BY <1>0, <1>1, BookFacts DEF Cleanup, Typed, BookOK
  <2>2. job' \in [Jobs -> JobSet] /\ JobsAt(job')
    <3>1. \A jobs \in [Jobs -> JobSet] :
            /\ [jobs EXCEPT ![j].pc = "upload"] \in [Jobs -> JobSet]
            /\ [jobs EXCEPT ![j].pc = "upload"][j].at = jobs[j].at
            /\ \A i \in Jobs : i # j => [jobs EXCEPT ![j].pc = "upload"][i] = jobs[i]
      BY DEF JobSet
    <3>. QED  BY <1>0, <1>1, <3>1, DetachedType DEF Cleanup, Typed, JobsAt
  <2>. QED
    BY <1>1, <2>1, <2>2 DEF Cleanup, request, Typed, BookOK, JobsAt, RequestOK, PeersLeft
<1>2. CASE Marshal(j)
  <2>1. LET k == [job[j] EXCEPT !.pc = "set", !.copy = peerMap[job[j].at], !.live = TRUE]
        IN  k \in JobSet /\ k.at \in Replicas
    BY <1>0 DEF JobSet
  <2>2. job' \in [Jobs -> JobSet] /\ JobsAt(job')
    BY <1>2, <2>1 DEF Marshal, Typed, BookOK, JobsAt
  <2>. QED
    BY <1>2, <2>2 DEF Marshal, request, Typed, BookOK, JobsAt, RequestOK, PeersLeft
<1>3. CASE SetBook(j)
  <2>1. stored' \in Books /\ fails' \in 0..MaxFails
    BY <1>0, <1>3, FailType DEF SetBook, JobSet, Typed, BookOK
  <2>2. job' \in [Jobs -> JobSet] /\ JobsAt(job')
    <3>1. Idle.pc = "idle"
      BY DEF Idle
    <3>. QED  BY <1>3, <3>1, BookFacts DEF SetBook, Typed, BookOK, JobsAt
  <2>3. up' \subseteq Replicas
    BY <1>0, <1>3 DEF SetBook, JobSet, Typed, BookOK
  <2>. QED
    BY <1>3, <2>1, <2>2, <2>3 DEF SetBook, request, Typed, BookOK, JobsAt, RequestOK, PeersLeft
<1>. QED  BY <1>1, <1>2, <1>3, EditType DEF JobStep

\* The peers are asked in some order.
LEMMA AskType == Typed /\ Asks => Typed'
<1>. SUFFICES ASSUME Typed, NEW r \in Replicas, NEW w \in SUBSET Clusters, Ask(r, w) PROVE Typed'
  BY DEF Asks
<1>0. UNCHANGED <<stored, alive, heard, overlaps, worked, broke>>
  BY DEF Ask
<1>1. CASE /\ \E s \in Orders({c \in w : peerMap[r][c] # None}) :
                s # <<>> /\ req' = [pc |-> "try", at |-> r, peers |-> s]
           /\ UNCHANGED <<up, job, peerMap, fails>>
  <2>. DEFINE S == {c \in w : peerMap[r][c] # None}
  <2>1. PICK s \in Orders(S) : s # <<>> /\ req' = [pc |-> "try", at |-> r, peers |-> s]
    BY <1>1
  <2>2. Cardinality(S) \in Nat
    BY ClusterAssumption, FS_Subset, FS_CardinalityType
  <2>3. s \in Seq(Clusters)
    BY <2>2 DEF Orders
  <2>4. RequestOK' /\ PeersLeft'
    BY <1>0, <2>1, <2>3 DEF Typed, RequestOK, PeersLeft, ReqSet
  <2>. QED
    BY <1>0, <1>1, <2>4 DEF Typed, BookOK, JobsAt
<1>2. CASE Crashed(r) /\ Fail /\ UNCHANGED req
  BY <1>0, <1>2, CrashedType, FailType DEF Typed, BookOK, RequestOK, PeersLeft
<1>. QED  BY <1>1, <1>2 DEF Ask

LEMMA TailFacts ==
  ASSUME NEW s \in Seq(Clusters), s # <<>>, Len(s) # 1
  PROVE  Tail(s) \in Seq(Clusters) /\ Tail(s) # <<>>
<1>1. Len(s) \in Nat /\ Len(s) # 0
  OBVIOUS
<1>2. Tail(s) \in Seq(Clusters) /\ Len(Tail(s)) = Len(s) - 1
  BY <1>1
<1>3. Len(Tail(s)) # 0
  BY <1>1, <1>2
<1>4. Tail(s) = <<>> => Len(Tail(s)) = 0
  BY Len(<<>>) = 0
<1>. QED  BY <1>2, <1>3, <1>4

LEMMA NextPeerType ==
  ASSUME Typed, req.pc # "idle", NextPeer \/ Broken, UNCHANGED broke \/ broke' = TRUE
  PROVE  RequestOK' /\ PeersLeft'
<1>1. req \in ReqSet /\ req.peers \in Seq(Clusters) /\ req.peers # <<>>
  BY DEF Typed, RequestOK, PeersLeft, ReqSet
<1>2. CASE Ended
  BY <1>2, EndedType
<1>3. CASE /\ Len(req.peers) # 1 /\ UNCHANGED worked
           /\ req' = [req EXCEPT !.peers = Tail(@), !.pc = "try"]
  <2>1. Tail(req.peers) \in Seq(Clusters) /\ Tail(req.peers) # <<>>
    BY <1>1, <1>3, TailFacts
  <2>2. req' \in ReqSet /\ req'.peers = Tail(req.peers)
    BY <1>1, <1>3, <2>1 DEF ReqSet
  <2>. QED  BY <1>3, <2>1, <2>2 DEF Typed, RequestOK, PeersLeft
<1>. QED  BY <1>2, <1>3 DEF NextPeer, Broken

LEMMA ForwardType == Typed /\ Forward => Typed'
<1>. SUFFICES ASSUME Typed, Forward PROVE Typed'
  OBVIOUS
<1>1. UNCHANGED <<book, up, alive>> /\ fails' \in 0..MaxFails /\ req.pc # "idle"
  BY FailType DEF Forward, GivenUp, Handle, Answer, Broken, Typed, BookOK
<1>2. RequestOK' /\ PeersLeft'
  <2>1. CASE GivenUp
    <3>1. UNCHANGED broke \/ Ended
      BY <2>1 DEF GivenUp, NextPeer
    <3>. QED  BY <1>1, <2>1, <3>1, NextPeerType, EndedType DEF GivenUp
  <2>2. CASE Handle
    <3>1. req \in ReqSet /\ req.peers \in Seq(Clusters) /\ req.peers # <<>>
      BY <1>1 DEF Typed, RequestOK, PeersLeft, ReqSet
    <3>2. req' \in ReqSet /\ req'.peers = req.peers
      BY <2>2, <3>1 DEF Handle, ReqSet
    <3>3. Head(req.peers) \in Clusters
      BY <3>1
    <3>. QED  BY <2>2, <3>1, <3>2, <3>3 DEF Handle, Typed, RequestOK, PeersLeft
  <2>3. CASE Answer
    BY <2>3, EndedType DEF Answer
  <2>4. CASE Broken
    <3>1. broke' = TRUE \/ Ended
      BY <2>4 DEF Broken
    <3>. QED  BY <1>1, <2>4, <3>1, NextPeerType, EndedType
  <2>. QED  BY <2>1, <2>2, <2>3, <2>4 DEF Forward
<1>. QED  BY <1>1, <1>2 DEF book, Typed, BookOK, JobsAt

LEMMA HourType == Typed /\ (Hour \/ Deaths \/ UNCHANGED vars) => Typed'
<1>. SUFFICES ASSUME Typed, Hour \/ Deaths \/ UNCHANGED vars PROVE Typed'
  OBVIOUS
<1>1. CASE Hour
  <2>1. \A b \in Books, c \in Clusters : b[c] \in 0..(Old - 1) => b[c] + 1 \in Age
    BY DEF Age, Old
  <2>2. stored' \in Books /\ peerMap' \in [Replicas -> Books]
    BY <1>1, <2>1 DEF Hour, Books, Typed, BookOK
  <2>. QED
    BY <1>1, <2>2 DEF Hour, request, Typed, BookOK, JobsAt, RequestOK, PeersLeft
<1>2. CASE Deaths
  BY <1>2 DEF Deaths, Die, book, request, Typed, BookOK, JobsAt, RequestOK, PeersLeft
<1>3. CASE UNCHANGED vars
  BY <1>3 DEF vars, book, request, Typed, BookOK, JobsAt, RequestOK, PeersLeft
<1>. QED  BY <1>1, <1>2, <1>3

LEMMA TypeStep == Typed /\ [Next]_vars => Typed'
BY NextCases, StartType, WorkType, AskType, ForwardType, HourType

LEMMA InitType == Init => Typed
<1>1. 0 \in 0..MaxFails /\ 0 \in 0..MaxOverlaps
  BY BoundAssumption
<1>2. Idle.pc = "idle" /\ NoReq.pc = "idle"
  BY DEF Idle, NoReq
<1>3. Init => alive \in [Clusters -> BOOLEAN]
  BY DEF Init
<1>4. Init => stored \in Books /\ peerMap \in [Replicas -> Books]
  BY BookFacts DEF Init
<1>5. Init => job \in [Jobs -> JobSet] /\ JobsAt(job)
  BY <1>2, BookFacts DEF Init, JobsAt
<1>6. Init => RequestOK /\ PeersLeft
  BY <1>2, BookFacts DEF Init, RequestOK, PeersLeft
<1>. QED
  BY <1>1, <1>3, <1>4, <1>5, <1>6 DEF Init, Typed, BookOK

-----------------------------------------------------------------------------
(* One cluster handles a request.                                          *)

OneHandles ==
  ~broke => /\ req.pc \in {"idle", "try"} => worked = {}
            /\ req.pc = "answer" => worked = {Head(req.peers)}

LEMMA OneHandlesStep == Typed /\ OneHandles /\ [Next]_vars => OneHandles'
<1>. SUFFICES ASSUME Typed, OneHandles, [Next]_vars PROVE OneHandles'
  OBVIOUS
<1>1. UNCHANGED request => OneHandles'
  BY DEF request, OneHandles
<1>2. Ended => OneHandles'
  BY DEF Ended, NoReq, OneHandles
<1>3. CASE Reports \/ Starts \/ Hour \/ Deaths \/ UNCHANGED vars
  BY <1>1, <1>3 DEF Reports, Report, Starts, Sync, Boot, Hour, Deaths, Die, vars
<1>4. CASE Works
  BY <1>1, <1>2, <1>4 DEF Works, JobStep, Edit, Cleanup, Marshal, SetBook, request
<1>5. ASSUME NEW r \in Replicas, NEW w \in SUBSET Clusters, Ask(r, w) PROVE OneHandles'
  <2>1. req.pc = "idle" /\ req'.pc \in {"idle", "try"} /\ UNCHANGED <<worked, broke>>
    <3>1. req.pc = "idle" /\ UNCHANGED <<worked, broke>>
      BY <1>5 DEF Ask
    <3>2. req' = req \/ \E s : req' = [pc |-> "try", at |-> r, peers |-> s]
      BY <1>5 DEF Ask
    <3>. QED  BY <3>1, <3>2
  <2>. QED  BY <2>1 DEF OneHandles
<1>6. CASE Forward
  <2>0. req \in ReqSet
    BY DEF Typed, RequestOK
  <2>1. CASE GivenUp
    <3>1. req.pc = "try" /\ (Ended \/ (req'.pc = "try" /\ UNCHANGED <<worked, broke>>))
      BY <2>0, <2>1 DEF GivenUp, NextPeer, ReqSet
    <3>. QED  BY <1>2, <3>1 DEF OneHandles
  <2>2. CASE Handle
    <3>1. /\ req.pc = "try" /\ req'.pc = "answer" /\ req'.peers = req.peers /\ broke' = broke
          /\ worked' = worked \cup {Head(req.peers)}
      BY <2>0, <2>2 DEF Handle, ReqSet
    <3>. QED  BY <3>1 DEF OneHandles
  <2>3. CASE Answer
    BY <1>2, <2>3 DEF Answer
  <2>4. CASE Broken
    BY <1>2, <2>4 DEF Broken, OneHandles
  <2>. QED  BY <1>6, <2>1, <2>2, <2>3, <2>4 DEF Forward
<1>. QED  BY <1>3, <1>4, <1>5, <1>6, NextCases DEF Asks

-----------------------------------------------------------------------------

\* However reports, syncs and crashes interleave, books hold the reports that
\* were made, and none is from the future.
THEOREM TypeCorrect == Spec => []TypeOK
BY InitType, TypeStep, TypedIsTypeOK, PTL DEF Spec

\* However many clusters are asked and whichever fail, one cluster handles a
\* request, unless a connection breaks after the request was sent.
THEOREM HandledOnce == Spec => []OneCluster
<1>1. Init => OneHandles
  BY DEF Init, OneHandles, NoReq
<1>2. OneHandles => OneCluster
  BY DEF OneHandles, OneCluster
<1>. QED  BY <1>1, <1>2, InitType, TypeStep, OneHandlesStep, PTL DEF Spec
=============================================================================
