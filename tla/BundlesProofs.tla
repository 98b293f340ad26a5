--------------------------- MODULE BundlesProofs ----------------------------
(***************************************************************************)
(* What holds of the bundle files of a Policy for any number of bundles,     *)
(* goroutines, sources and answers, in every order of their steps.           *)
(***************************************************************************)
EXTENDS Bundles, WellFoundedInduction, TLAPS

\* Zenon first, then SMT, each with its limit in seconds, for the leaves that name no prover.
USE ZenonT(20), SMTT(20)

-----------------------------------------------------------------------------
(* The inductive invariant.                                                  *)

Whole(c) == c \notin {NoFile, Partial}

\* What a fetch returns is a bundle.
GoodRequest(r) ==
  IF r.type = "PLM" THEN Whole(r.expected)
  ELSE /\ r.type \in {"HTTPS", "N1C", "NIM"} /\ r.kind \in {"policy", "log"}
       /\ r.server \in DOMAIN servers /\ r.retries \in Nat

\* The outside world is one of the workload.
WorldOK ==
  /\ workload \in Workloads
  /\ policy \in workload.policies \cup {workload.policy}
  /\ DOMAIN servers = DOMAIN workload.servers
  /\ \A u \in DOMAIN servers : servers[u] \in workload.answers[u] \cup {workload.servers[u]}
  /\ DOMAIN plm = DOMAIN workload.plm
  /\ \A r \in DOMAIN plm : plm[r] \in workload.bundles[r] \cup {workload.plm[r]}

DiskOK ==
  /\ Slots = 1..Len(workload.policy.sources)
  /\ \A s \in Slots : DOMAIN disk[s] = {"dst", "tmp"}

QueueOK == queue \in Seq({<<"policy">>} \cup {<<"ap", r>> : r \in DOMAIN plm})

TaskFields == {"kind", "slot", "req", "pc", "data", "etag", "target", "shared", "cancelled"}
TaskOK(t) ==
  /\ DOMAIN t = TaskFields
  /\ t.kind \in {"fetch", "poll"} /\ t.slot \in Slots /\ GoodRequest(t.req)
  /\ t.pc \in {"fetch", "open", "write", "rename", "report"}
  /\ t.shared \in BOOLEAN /\ t.cancelled \in BOOLEAN
  /\ t.kind = "fetch" => ~t.cancelled
  /\ t.pc \in {"open", "write", "rename"} => Whole(t.data)
  /\ IF t.pc = "write" THEN t.target \in {"tmp", "dst", "gone"} ELSE t.target = "none"
  /\ t.target = "dst" => disk[t.slot].dst # NoFile

TasksOK ==
  /\ DOMAIN tasks = 1..MaxTasks
  /\ \A i \in DOMAIN tasks : tasks[i] = NoTask \/ TaskOK(tasks[i])

\* A poll that was not cancelled belongs to a source of the poller.
PollOK(p) ==
  /\ DOMAIN p = {"kind", "req", "disabled"}
  /\ {"type", "kind", "server", "retries", "lastHash", "etag"} \subseteq DOMAIN p.req
  /\ GoodRequest(p.req) /\ p.req.type # "PLM"
PollerOK ==
  /\ DOMAIN poller = {"running", "sources"} /\ DOMAIN poller.sources = Slots
  /\ \A s \in Slots : poller.sources[s] = NoPoll \/ PollOK(poller.sources[s])
  /\ \A i \in InFlight : tasks[i].kind = "poll" /\ ~tasks[i].cancelled =>
       poller.sources[tasks[i].slot] # NoPoll

Types == WorldOK /\ DiskOK /\ QueueOK /\ TasksOK /\ PollerOK

\* One task at a time uses the temporary file, and renames what it has written.
Orderly ==
  "overlap" \notin races =>
    /\ \A s \in Slots : disk[s].dst # Partial
    /\ \A i, j \in InFlight :
         tasks[i].pc \in {"write", "rename"} /\ tasks[j].pc \in {"write", "rename"}
           /\ tasks[i].slot = tasks[j].slot => i = j
    /\ \A i \in InFlight :
         /\ tasks[i].pc = "write" => tasks[i].target = "tmp" /\ ~tasks[i].shared
         /\ tasks[i].pc = "rename" => disk[tasks[i].slot].tmp = tasks[i].data

\* The policy will be synced again: it is queued, or a task is about to enqueue it.
Queued == <<"policy">> \in Range(queue)
Reporting(i) == tasks[i].pc = "report" /\ (tasks[i].kind = "fetch" \/ ~tasks[i].cancelled)
Due == Queued \/ \E i \in InFlight : Reporting(i)

\* Otherwise status, files and config agree.
Named == \A s \in nginx.conf : s \in Slots /\ disk[s].dst # NoFile
ValidIsReady ==
  status = "Valid" /\ policy.exists /\ ~Queued =>
    /\ bundleFilesReady
    /\ policy.valid => nginx.conf = {s \in Slots : Expected(s)}
Owned ==
  "late" \notin races /\ ~Due => \A s \in Slots : disk[s].dst # NoFile => hasBundleSource
Loaded ==
  races \cap {"overlap", "late"} = {} /\ ~Due =>
    \A s \in nginx.conf : nginx.loaded[s] = disk[s].dst

\* A bundle that PLM has replaced is being fetched, or its resource is still to be synced.
Outdated(s) ==
  /\ IsPLM(s) /\ resolvePLMBundleStatus(s) /\ disk[s].dst # plm[Source(s).ref].sha
  /\ <<"ap", Source(s).ref>> \notin Range(queue)
Fetched ==
  races \cap {"overlap", "late"} = {} /\ status = "Valid" /\ policy.exists /\ ~Due =>
    \A s \in Slots : Outdated(s) => \E i \in InFlight : tasks[i].kind = "fetch"

BundleInv == Types /\ Orderly /\ Named /\ ValidIsReady /\ Owned /\ Loaded /\ Fetched
-----------------------------------------------------------------------------
(* The operators.                                                            *)

\* A set of numbers has a least one (the slots are visited in order, the attempts of a fetch
\* are made one after another).
LEMMA LeastExists ==
  ASSUME NEW S, S \subseteq Nat, S # {}
  PROVE  (CHOOSE i \in S : \A j \in S : i <= j) \in S /\ \E i \in S : \A j \in S : i <= j
<1> DEFINE R == {ss \in Nat \X Nat : ss[1] < ss[2]}
<1>1. IsWellFoundedOn(R, Nat)
  BY NatLessThanWellFounded DEF OpToRel
<1>2. PICK m \in S : \A n \in S : <<n, m>> \notin R
  <2> HIDE DEF R
  <2> QED BY <1>1, WFMin
<1>3. \A n \in S : m <= n
  <2>1. ASSUME NEW n \in S PROVE m <= n
    <3>1. m \in Nat /\ n \in Nat /\ ~(n < m)
      BY <1>2
    <3> HIDE DEF R
    <3> QED BY <3>1, SMTT(20)
  <2> QED BY <2>1
<1> QED BY <1>3

\* AddSyncQueue adds a task that is not queued yet.
LEMMA EnqueueRange ==
  ASSUME NEW X, NEW q \in Seq(X), NEW t \in X
  PROVE  Enqueue(q, t) \in Seq(X) /\ Range(Enqueue(q, t)) = Range(q) \cup {t}
<1>1. CASE t \in Range(q)
  BY <1>1 DEF Enqueue
<1>2. CASE t \notin Range(q)
  <2>1. Enqueue(q, t) = Append(q, t)
    BY <1>2 DEF Enqueue
  <2>2. /\ Append(q, t) \in Seq(X) /\ DOMAIN Append(q, t) = DOMAIN q \cup {Len(q) + 1}
        /\ Append(q, t)[Len(q) + 1] = t /\ \A i \in DOMAIN q : Append(q, t)[i] = q[i]
    BY SMTT(20)
  <2>3. Range(Append(q, t)) = Range(q) \cup {t}
    BY <2>2 DEF Range
  <2> QED BY <2>1, <2>2, <2>3
<1> QED BY <1>1, <1>2

\* The worker takes the first task.
LEMMA TailRange ==
  ASSUME NEW X, NEW q \in Seq(X), q # << >>
  PROVE  /\ Tail(q) \in Seq(X) /\ Head(q) \in X
         /\ Range(q) \subseteq Range(Tail(q)) \cup {Head(q)}
         /\ Range(Tail(q)) \subseteq Range(q)
<1>1. Tail(q) \in Seq(X) /\ Head(q) \in X
  BY SMTT(20)
<1>2. ASSUME NEW i \in DOMAIN q PROVE q[i] \in Range(Tail(q)) \cup {Head(q)}
  <2>1. CASE i = 1
    BY <2>1, SMTT(20)
  <2>2. CASE i # 1
    <3>1. i - 1 \in DOMAIN Tail(q) /\ Tail(q)[i - 1] = q[i]
      BY <2>2, SMTT(20)
    <3> QED BY <3>1 DEF Range
  <2> QED BY <2>1, <2>2
<1>3. ASSUME NEW i \in DOMAIN Tail(q) PROVE Tail(q)[i] \in Range(q)
  <2>1. i + 1 \in DOMAIN q /\ q[i + 1] = Tail(q)[i]
    BY SMTT(20)
  <2> QED BY <2>1 DEF Range
<1> QED BY <1>1, <1>2, <1>3 DEF Range

\* What an attempt can end in: an error, "unchanged", or the body that the server has.
Answers(v) ==
  {Outcome("transient"), Outcome("eof"), Outcome("permanent"), Outcome("unchanged"), Data(v)}

\* Each kind of source ends in one of them (fetchHTTPSBundle, the fetchers of NGINX One Console
\* and of NGINX Instance Manager).
LEMMA AttemptAnswers ==
  ASSUME NEW req, req.type \in {"HTTPS", "N1C", "NIM"}, req.kind \in {"policy", "log"}, NEW srv,
         NEW reply \in {"ok", "eof", "serverError", "redirect", "clientError"}
  PROVE  Attempt(req, srv, reply) \in Answers(srv.body)
<1>1. readBundleBody(srv.body) \in Answers(srv.body) /\ n1cDownload(srv.body) \in Answers(srv.body)
  BY DEF readBundleBody, n1cDownload, Answers
<1>2. fetchHTTPSBundle(req, srv) \in Answers(srv.body)
  BY <1>1 DEF fetchHTTPSBundle, doHTTPSFetch, Answers
<1>3. pollN1CCompileStatus(srv.statuses) \in {"ok", "permanent", "transient"}
  BY DEF pollN1CCompileStatus
<1>4. fetchN1CPolicyBundle(req, srv) \in Answers(srv.body)
  BY <1>1, <1>3 DEF fetchN1CPolicyBundle, Answers
<1>5. fetchN1CLogProfileBundle(req, srv) \in Answers(srv.body)
  BY <1>1 DEF fetchN1CLogProfileBundle, Answers
<1>6. resolveLatestNIMPolicy(srv) \in {"ok", "permanent", "transient"}
  BY DEF resolveLatestNIMPolicy
<1>7. /\ fetchNIMPolicyBundle(req, srv) \in Answers(srv.body)
      /\ fetchNIMLogProfileBundle(req, srv) \in Answers(srv.body)
  BY <1>6 DEF fetchNIMPolicyBundle, fetchNIMLogProfileBundle, Answers
<1>8. reply # "ok" => /\ checkHTTPSStatus(reply) \in Answers(srv.body)
                      /\ n1cGet(reply) \in Answers(srv.body)
  BY DEF checkHTTPSStatus, n1cGet, Answers
<1> QED BY <1>2, <1>4, <1>5, <1>7, <1>8 DEF Attempt

\* The retries end in what one of the attempts ended in, or in an error (withRetry).
LEMMA RetryAnswers ==
  ASSUME NEW n \in Nat, NEW v, NEW o \in [1..n -> Answers(v)]
  PROVE  withRetry(o) \in Answers(v)
<1> DEFINE final == {i \in DOMAIN o : ~IsError(o[i]) \/ isNonTransient(o[i])}
           first == CHOOSE i \in final : \A j \in final : i <= j
<1>1. final # {} => o[first] \in Answers(v)
  <2> SUFFICES ASSUME final # {} PROVE first \in DOMAIN o
    OBVIOUS
  <2>1. final \subseteq DOMAIN o /\ final \subseteq Nat
    BY SMTT(20)
  <2> HIDE DEF final
  <2> QED BY <2>1, LeastExists
<1> QED BY <1>1 DEF withRetry, Answers

\* A fetch that succeeds brings a bundle, neither nothing nor a part of one (performInitialFetch,
\* pollSource, fetchS3Object).
LEMMA FetchBringsBundle ==
  ASSUME WorldOK, NEW t, TaskOK(t), NEW o \in Outcomes(t)
  PROVE  /\ o.kind \in {"transient", "eof", "permanent", "unchanged", "data"}
         /\ ~IsError(o) /\ o.kind # "unchanged" => Whole(o.data)
<1>1. CASE t.cancelled
  BY <1>1, SMTT(20) DEF Outcomes, Outcome, IsError
<1>2. CASE ~t.cancelled /\ t.req.type = "PLM"
  <2>1. o \in {Outcome("permanent"), Outcome("transient"), Data(t.req.expected)}
    BY <1>2 DEF Outcomes, fetchS3Object
  <2>2. Whole(t.req.expected)
    BY <1>2 DEF TaskOK, GoodRequest
  <2> QED BY <2>1, <2>2, SMTT(20) DEF Outcome, Data, IsError
<1>3. CASE ~t.cancelled /\ t.req.type # "PLM"
  <2> DEFINE srv == servers[t.req.server]
  <2>1. /\ t.req.type \in {"HTTPS", "N1C", "NIM"} /\ t.req.kind \in {"policy", "log"}
        /\ t.req.server \in DOMAIN servers /\ t.req.retries \in Nat
    BY <1>3 DEF TaskOK, GoodRequest
  <2>2. /\ Whole(srv.body)
        /\ srv.replies \subseteq {"ok", "eof", "serverError", "redirect", "clientError"}
    BY <2>1, WorkloadsAssumption, SMTT(20) DEF WorldOK, Whole, NoFile, NoHash
  <2>3. o \in HTTPFetch(t.req, srv)
    BY <1>3 DEF Outcomes
  <2> HIDE DEF srv
  <2>4. o \in Answers(srv.body)
    <3>1. CASE t.req.badClient
      BY <2>3, <3>1 DEF HTTPFetch, Answers
    <3>2. CASE ~t.req.badClient
      <4>1. PICK a \in [1..t.req.retries -> {Attempt(t.req, srv, r) : r \in srv.replies}] :
              o = withRetry(a)
        BY <2>3, <3>2 DEF HTTPFetch
      <4>2. a \in [1..t.req.retries -> Answers(srv.body)]
        BY <2>1, <2>2, <4>1, AttemptAnswers, SMTT(20)
      <4> QED BY <2>1, <4>1, <4>2, RetryAnswers
    <3> QED BY <3>1, <3>2
  <2> QED BY <2>2, <2>4, SMTT(20) DEF Answers, Outcome, Data, IsError
<1> QED BY <1>1, <1>2, <1>3

-----------------------------------------------------------------------------
(* What one task leaves alone.                                               *)

\* The other tasks are as they were, and task i has ended or is sound.
Others(i) ==
  /\ DOMAIN tasks' = DOMAIN tasks
  /\ \A j \in DOMAIN tasks : j # i => tasks'[j] = tasks[j]
  /\ tasks'[i] = NoTask \/ TaskOK(tasks[i])'

\* A task that runs is told from the place of one that does not.
LEMMA TaskNotNone ==
  ASSUME NEW t, DOMAIN t = TaskFields
  PROVE  t # NoTask
<1>1. DOMAIN NoTask = {"kind"} /\ "slot" \in DOMAIN t /\ "slot" \notin {"kind"}
  BY DEF NoTask, TaskFields
<1> QED BY <1>1

\* What a task needs stays there as long as no file goes away.
LEMMA TaskSound ==
  ASSUME DOMAIN servers' = DOMAIN servers, DOMAIN disk' = DOMAIN disk,
         \A s \in Slots : disk'[s].dst = NoFile => disk[s].dst = NoFile
  PROVE  \A x : TaskOK(x) => TaskOK(x)'
BY DEF TaskOK, GoodRequest, Slots

\* The tasks stay sound as long as no file goes away (Fetch, OpenTemp, WriteTemp, Report, Tick).
LEMMA TasksFrame ==
  ASSUME TasksOK, NEW i \in DOMAIN tasks, Others(i), DOMAIN servers' = DOMAIN servers,
         DOMAIN disk' = DOMAIN disk,
         \A s \in Slots : disk'[s].dst = NoFile => disk[s].dst = NoFile
  PROVE  TasksOK'
<1>1. ASSUME NEW j \in DOMAIN tasks', j # i PROVE tasks'[j] = NoTask \/ TaskOK(tasks[j])'
  <2>1. tasks'[j] = tasks[j] /\ (tasks[j] = NoTask \/ TaskOK(tasks[j]))
    BY <1>1 DEF Others, TasksOK
  <2>2. TaskOK(tasks[j]) /\ tasks'[j] = tasks[j] => TaskOK(tasks[j])'
    BY DEF TaskOK, GoodRequest, Slots
  <2> QED BY <2>1, <2>2
<1> QED BY <1>1 DEF Others, TasksOK

\* So does the use of the temporary files, when task i does not use one (Fetch, Report, Tick).
LEMMA OrderlyFrame ==
  ASSUME TasksOK, Orderly, NEW i \in DOMAIN tasks, Others(i), UNCHANGED <<disk, races>>,
         tasks'[i] = NoTask \/ tasks'[i].pc \notin {"write", "rename"}
  PROVE  Orderly'
BY DEF Orderly, Others, InFlight, Slots

\* Status, files and config agree as before when the bundles are the same, nothing that is due
\* is forgotten, no bundle is out of date that was not, and a fetch that ends enqueues the policy
\* or leaves a warning.
LEMMA AgreeKept ==
  ASSUME Named, ValidIsReady, Owned, Loaded, Fetched,
         UNCHANGED <<policy, nginx>>, DOMAIN disk' = DOMAIN disk, races \subseteq races',
         \A s \in Slots : disk'[s].dst = NoFile <=> disk[s].dst = NoFile,
         "overlap" \in races' \/ \A s \in Slots : disk'[s].dst = disk[s].dst,
         Queued => Queued', Due => Due',
         policy.exists /\ status' = "Valid" /\ ~Queued' => status = "Valid",
         \/ Queued' \/ ~(policy.exists /\ status' = "Valid")
         \/ (\E i \in InFlight : tasks[i].kind = "fetch")
              => (\E i \in InFlight' : tasks'[i].kind = "fetch"),
         \A s \in Slots :
           policy.exists /\ "overlap" \notin races' /\ ~Queued' /\ Outdated(s)' => Outdated(s)
  PROVE  Named' /\ ValidIsReady' /\ Owned' /\ Loaded' /\ Fetched'
<1>1. Named'
  BY DEF Named, Slots
<1>2. (\A s \in Slots : Expected(s)' <=> Expected(s)) /\ (hasBundleSource' <=> hasBundleSource)
  BY DEF Expected, IsPLM, IsRemote, Source, hasBundleSource, Slots
<1>3. bundleFilesReady => bundleFilesReady'
  BY <1>2 DEF bundleFilesReady, Slots
<1>4. ValidIsReady'
  BY <1>2, <1>3 DEF ValidIsReady, Slots
<1>5. Owned'
  BY <1>2 DEF Owned, Slots
<1>6. Loaded'
  BY DEF Loaded, Named
<1>7. Fetched'
  <2> SUFFICES ASSUME (races \cap {"overlap", "late"} = {})', status' = "Valid", policy.exists, ~Due',
                      NEW s \in Slots, Outdated(s)'
               PROVE  \E i \in InFlight' : tasks'[i].kind = "fetch"
    BY DEF Fetched, Slots
  <2>1. ~Queued' /\ ~Due /\ status = "Valid" /\ races \cap {"overlap", "late"} = {}
    BY DEF Due
  <2>2. Outdated(s)
    BY <2>1
  <2> QED BY <2>1, <2>2 DEF Fetched
<1> QED BY <1>1, <1>4, <1>5, <1>6, <1>7

\* The same, when PLM has published nothing and no task has left the queue.
LEMMA AgreeFrame ==
  ASSUME Named, ValidIsReady, Owned, Loaded, Fetched,
         UNCHANGED <<policy, plm, nginx>>, DOMAIN disk' = DOMAIN disk, races \subseteq races',
         \A s \in Slots : disk'[s].dst = NoFile <=> disk[s].dst = NoFile,
         "overlap" \in races' \/ \A s \in Slots : disk'[s].dst = disk[s].dst,
         Range(queue) \subseteq Range(queue'), Due => Due',
         policy.exists /\ status' = "Valid" /\ ~Queued' => status = "Valid",
         \/ Queued' \/ ~(policy.exists /\ status' = "Valid")
         \/ (\E i \in InFlight : tasks[i].kind = "fetch")
              => (\E i \in InFlight' : tasks'[i].kind = "fetch")
  PROVE  Named' /\ ValidIsReady' /\ Owned' /\ Loaded' /\ Fetched'
<1>1. Queued => Queued'
  BY DEF Queued
<1>2. \A s \in Slots : "overlap" \notin races' /\ Outdated(s)' => Outdated(s)
  BY DEF Outdated, IsPLM, Source, resolvePLMBundleStatus
<1> QED BY <1>1, <1>2, AgreeKept

\* What a poll writes down about its source keeps the sources of the poller.
SourcesKept(p) ==
  /\ DOMAIN p = {"running", "sources"} /\ DOMAIN p.sources = Slots
  /\ \A s \in Slots : p.sources[s] = NoPoll \/ PollOK(p.sources[s])
  /\ \A s \in Slots : poller.sources[s] # NoPoll => p.sources[s] # NoPoll

\* A source is disabled, or the checksum of its bundle remembered (pollSource).
LEMMA PollerUpdate ==
  ASSUME PollerOK, NEW i \in InFlight, TaskOK(tasks[i]), NEW o
  PROVE  SourcesKept(poller) /\ SourcesKept(DisableSource(tasks[i], o)) /\ SourcesKept(Remember(tasks[i]))
<1> DEFINE t == tasks[i]
<1>1. SourcesKept(poller)
  BY DEF SourcesKept, PollerOK
<1>2. t.slot \in Slots
  BY DEF TaskOK
<1>3. CASE ~(t.kind = "poll" /\ ~t.cancelled)
  BY <1>1, <1>3 DEF DisableSource, Remember
<1>4. CASE t.kind = "poll" /\ ~t.cancelled
  <2>1. poller.sources[t.slot] # NoPoll /\ PollOK(poller.sources[t.slot])
    BY <1>2, <1>4 DEF PollerOK
  <2> DEFINE old == poller.sources[t.slot]
             d == [poller EXCEPT !.sources[t.slot].disabled = TRUE]
             r == Remember(t)
  <2>2. /\ DOMAIN d = {"running", "sources"} /\ DOMAIN d.sources = Slots
        /\ \A s \in Slots : s # t.slot => d.sources[s] = poller.sources[s]
        /\ d.sources[t.slot] = [old EXCEPT !.disabled = TRUE]
    BY <1>2 DEF PollerOK
  <2>3. PollOK(d.sources[t.slot]) /\ d.sources[t.slot] # NoPoll
    <3> DEFINE new == [old EXCEPT !.disabled = TRUE]
    <3>1. DOMAIN new = DOMAIN old /\ new.req = old.req
      BY <2>1 DEF PollOK
    <3>2. DOMAIN NoPoll = {"kind"}
      BY DEF NoPoll
    <3>3. "req" \in DOMAIN new /\ "req" \notin {"kind"}
      BY <2>1, <3>1 DEF PollOK
    <3> HIDE DEF new
    <3> QED BY <2>1, <2>2, <3>1, <3>2, <3>3 DEF PollOK, new
  <2>4. SourcesKept(d)
    BY <2>2, <2>3, <1>2 DEF PollerOK, SourcesKept
  <2> DEFINE req == [old.req EXCEPT !.lastHash = t.data,
                                   !.etag = IF t.etag # NoHash THEN t.etag ELSE old.req.etag]
  <2>5. /\ DOMAIN r = {"running", "sources"} /\ DOMAIN r.sources = Slots
        /\ \A s \in Slots : s # t.slot => r.sources[s] = poller.sources[s]
        /\ r.sources[t.slot] = [old EXCEPT !.req = req]
    <3>1. r = [poller EXCEPT !.sources = [poller.sources EXCEPT ![t.slot] = [old EXCEPT !.req = req]]]
      BY <1>4 DEF Remember
    <3> HIDE DEF r, req
    <3> QED BY <1>2, <3>1 DEF PollerOK
  <2>6. /\ DOMAIN req = DOMAIN old.req
        /\ \A f \in DOMAIN old.req : f \notin {"lastHash", "etag"} => req[f] = old.req[f]
    OBVIOUS
  <2>7. PollOK(r.sources[t.slot]) /\ r.sources[t.slot] # NoPoll
    <3> DEFINE new == [old EXCEPT !.req = req]
    <3>1. DOMAIN new = DOMAIN old /\ new.req = req /\ "req" \in DOMAIN new
      BY <2>1 DEF PollOK
    <3>2. new # NoPoll
      <4>1. DOMAIN NoPoll = {"kind"} /\ "req" \notin {"kind"}
        BY DEF NoPoll
      <4> QED BY <3>1, <4>1
    <3>3. /\ req.type = old.req.type /\ req.kind = old.req.kind
          /\ req.server = old.req.server /\ req.retries = old.req.retries
      BY <2>1, <2>6 DEF PollOK
    <3> HIDE DEF new, req
    <3>4. GoodRequest(req)
      BY <2>1, <3>3 DEF PollOK, GoodRequest
    <3> QED BY <2>1, <2>5, <2>6, <3>1, <3>2, <3>3, <3>4 DEF PollOK, new
  <2>8. SourcesKept(r)
    <3> HIDE DEF r
    <3> QED BY <2>5, <2>7, <1>2 DEF PollerOK, SourcesKept
  <2> QED BY <1>1, <2>4, <2>8 DEF DisableSource
<1> QED BY <1>3, <1>4

\* The poller stays sound when task i goes on as what it is, or ends.
LEMMA PollerFrame ==
  ASSUME TasksOK, PollerOK, NEW i \in DOMAIN tasks, Others(i), SourcesKept(poller'),
         DOMAIN servers' = DOMAIN servers, DOMAIN disk' = DOMAIN disk,
         \/ tasks'[i] = NoTask
         \/ /\ tasks[i] # NoTask
            /\ \A f \in {"kind", "slot", "cancelled"} : tasks'[i][f] = tasks[i][f]
  PROVE  PollerOK'
<1>1. Slots' = Slots /\ \A p : PollOK(p)' <=> PollOK(p)
  BY DEF Slots, PollOK, GoodRequest
<1>2. ASSUME NEW j \in InFlight', tasks'[j].kind = "poll", ~tasks'[j].cancelled
      PROVE  poller'.sources[tasks'[j].slot] # NoPoll
  <2>1. j \in InFlight /\ tasks[j].kind = "poll" /\ ~tasks[j].cancelled /\ tasks'[j].slot = tasks[j].slot
    BY <1>2 DEF Others, InFlight
  <2>2. poller.sources[tasks[j].slot] # NoPoll
    BY <2>1 DEF PollerOK
  <2>3. tasks[j].slot \in Slots
    BY <2>1 DEF TasksOK, TaskOK, InFlight
  <2> QED BY <2>1, <2>2, <2>3 DEF SourcesKept
<1> QED BY <1>1, <1>2 DEF PollerOK, SourcesKept

\* The policy is enqueued: it is due (AddSyncQueue).
LEMMA PolicyEnqueued ==
  ASSUME QueueOK
  PROVE  /\ Enqueue(queue, <<"policy">>) \in Seq({<<"policy">>} \cup {<<"ap", r>> : r \in DOMAIN plm})
         /\ Range(Enqueue(queue, <<"policy">>)) = Range(queue) \cup {<<"policy">>}
BY EnqueueRange, SMTT(20) DEF QueueOK

-----------------------------------------------------------------------------
(* The steps of a goroutine.                                                 *)

\* A fetch that fails leaves a warning, one that finds nothing new enqueues the policy, and one
\* that brings a bundle goes on with it (performInitialFetch, pollSource).
LEMMA FetchStep ==
  ASSUME BundleInv, NEW i \in DOMAIN tasks, Fetch(i)
  PROVE  BundleInv'
<1> USE DEF BundleInv, Types
<1> DEFINE t == tasks[i]
<1>1. /\ t # NoTask /\ t.pc = "fetch" /\ TaskOK(t) /\ i \in InFlight
      /\ UNCHANGED <<workload, policy, servers, plm, disk, nginx, races>>
  BY DEF Fetch, TasksOK, InFlight, external
<1>2. PICK o \in Outcomes(t) :
        \/ /\ IsError(o) /\ WithStatus("Warning") /\ poller' = DisableSource(t, o) /\ Done(i)
           /\ queue' = queue
        \/ /\ ~IsError(o) /\ o.kind = "unchanged" /\ Done(i) /\ status' = status /\ poller' = poller
           /\ queue' = IF t.kind = "fetch" THEN Enqueue(queue, <<"policy">>) ELSE queue
        \/ /\ ~IsError(o) /\ o.kind # "unchanged" /\ status' = status /\ poller' = poller
           /\ queue' = queue
           /\ tasks' = [tasks EXCEPT ![i].pc = "open", ![i].data = o.data, ![i].etag = ETagOf(tasks[i])]
  BY DEF Fetch
<1>3. SourcesKept(poller')
  BY <1>1, <1>2, PollerUpdate
<1>4. ASSUME ~IsError(o), o.kind # "unchanged"
      PROVE  /\ TaskOK(tasks[i])' /\ tasks'[i].pc = "open"
             /\ \A f \in {"kind", "slot", "cancelled"} : tasks'[i][f] = t[f]
  <2> DEFINE new == [t EXCEPT !.pc = "open", !.data = o.data, !.etag = ETagOf(t)]
  <2>1. tasks'[i] = new
    BY <1>2, <1>4
  <2>2. DOMAIN new = TaskFields
    BY <1>1 DEF TaskOK
  <2>3. /\ new.pc = "open" /\ new.data = o.data
        /\ \A f \in TaskFields : f \notin {"pc", "data", "etag"} => new[f] = t[f]
    BY <1>1 DEF TaskOK, TaskFields
  <2>4. Whole(o.data)
    BY <1>1, <1>4, FetchBringsBundle
  <2> HIDE DEF new
  <2>5. /\ new.kind = t.kind /\ new.slot = t.slot /\ new.req = t.req /\ new.shared = t.shared
        /\ new.cancelled = t.cancelled /\ new.target = t.target
    BY <2>3 DEF TaskFields
  <2>6. TaskOK(new)
    BY <1>1, <2>2, <2>3, <2>4, <2>5 DEF TaskOK
  <2>7. \A x : TaskOK(x) => TaskOK(x)'
    BY <1>1, TaskSound
  <2>8. TaskOK(tasks[i])'
    BY <2>1, <2>6, <2>7 DEF TaskOK, GoodRequest
  <2> QED BY <2>1, <2>3, <2>5, <2>8
<1>5. tasks'[i] = NoTask \/ (~IsError(o) /\ o.kind # "unchanged")
  BY <1>2 DEF Done
<1>6. Others(i)
  BY <1>2, <1>4, <1>5 DEF Others, Done
<1>7. TasksOK'
  BY <1>1, <1>6, TasksFrame
<1>8. Orderly'
  BY <1>1, <1>4, <1>5, <1>6, OrderlyFrame
<1>9. PollerOK'
  BY <1>1, <1>3, <1>4, <1>5, <1>6, PollerFrame
<1>10. WorldOK' /\ DiskOK'
  BY <1>1 DEF WorldOK, DiskOK, Slots
<1>11. QueueOK' /\ Range(queue) \subseteq Range(queue')
  BY <1>1, <1>2, PolicyEnqueued DEF QueueOK
<1>12. \A j \in InFlight : j # i => j \in InFlight' /\ tasks'[j] = tasks[j]
  BY <1>6 DEF Others, InFlight
<1>13. Due => Due'
  BY <1>1, <1>11, <1>12 DEF Due, Queued, Reporting
<1>14. policy.exists /\ status' = "Valid" => status = "Valid"
  BY <1>2 DEF WithStatus
<1>15. \/ Queued' \/ ~(policy.exists /\ status' = "Valid")
       \/ (\E j \in InFlight : tasks[j].kind = "fetch")
            => (\E j \in InFlight' : tasks'[j].kind = "fetch")
  <2>1. CASE IsError(o)
    BY <1>2, <2>1 DEF WithStatus
  <2>2. CASE o.kind = "unchanged" /\ ~IsError(o)
    BY <1>2, <1>12, <2>2, PolicyEnqueued DEF Queued
  <2>3. CASE o.kind # "unchanged" /\ ~IsError(o)
    <3>1. i \in InFlight' /\ tasks'[i].kind = t.kind
      BY <1>4, <2>3, <1>6, TaskNotNone DEF InFlight, Others, TaskOK
    <3> QED BY <1>12, <3>1
  <2> QED BY <2>1, <2>2, <2>3
<1>16. Named' /\ ValidIsReady' /\ Owned' /\ Loaded' /\ Fetched'
  BY <1>1, <1>11, <1>13, <1>14, <1>15, AgreeFrame
<1> QED BY <1>7, <1>8, <1>9, <1>10, <1>11, <1>16

\* A task that reports has the policy enqueued, a poll that was cancelled does not (syncCb).
LEMMA ReportStep ==
  ASSUME BundleInv, NEW i \in DOMAIN tasks, Report(i)
  PROVE  BundleInv'
<1> USE DEF BundleInv, Types
<1> DEFINE t == tasks[i]
<1>1. /\ t # NoTask /\ t.pc = "report" /\ i \in InFlight /\ Done(i)
      /\ UNCHANGED <<workload, policy, servers, plm, disk, poller, nginx, races>>
  BY DEF Report, InFlight, external
<1>2. queue' = IF Reporting(i) THEN Enqueue(queue, <<"policy">>) ELSE queue
  BY <1>1 DEF Report, Reporting
<1>3. Others(i) /\ tasks'[i] = NoTask
  BY <1>1 DEF Others, Done
<1>4. TasksOK' /\ Orderly'
  BY <1>1, <1>3, TasksFrame, OrderlyFrame
<1>5. PollerOK'
  <2>1. SourcesKept(poller')
    BY <1>1 DEF PollerOK, SourcesKept
  <2> QED BY <1>1, <1>3, <2>1, PollerFrame
<1>6. WorldOK' /\ DiskOK'
  BY <1>1 DEF WorldOK, DiskOK, Slots
<1>7. /\ QueueOK' /\ Range(queue) \subseteq Range(queue')
      /\ Reporting(i) => Queued'
  BY <1>1, <1>2, PolicyEnqueued DEF QueueOK, Queued
<1>8. \A j \in InFlight : j # i => j \in InFlight' /\ tasks'[j] = tasks[j]
  BY <1>3 DEF Others, InFlight
<1>9. Due => Due'
  BY <1>7, <1>8 DEF Due, Queued, Reporting
<1>10. t.kind = "fetch" => Queued'
  BY <1>1, <1>7 DEF Reporting
<1>11. policy.exists /\ status' = "Valid" /\ ~Queued' => status = "Valid"
  BY <1>10 DEF Report
<1>12. Queued' \/ ((\E j \in InFlight : tasks[j].kind = "fetch")
                     => (\E j \in InFlight' : tasks'[j].kind = "fetch"))
  BY <1>8, <1>10
<1>13. Named' /\ ValidIsReady' /\ Owned' /\ Loaded' /\ Fetched'
  BY <1>1, <1>7, <1>9, <1>11, <1>12, AgreeFrame
<1> QED BY <1>4, <1>5, <1>6, <1>7, <1>13

\* The bytes of a bundle go to the temporary file, or to where its name is by now (os.WriteFile).
LEMMA WriteTempStep ==
  ASSUME BundleInv, NEW i \in DOMAIN tasks, WriteTemp(i)
  PROVE  BundleInv'
<1> USE DEF BundleInv, Types
<1> DEFINE t == tasks[i]
           s == t.slot
<1>1. /\ t # NoTask /\ t.pc = "write" /\ TaskOK(t) /\ i \in InFlight
      /\ UNCHANGED <<workload, policy, servers, plm, queue, poller, status, nginx, races>>
      /\ tasks' = [tasks EXCEPT ![i].pc = "rename", ![i].target = "none"]
  BY DEF WriteTemp, TasksOK, InFlight, external
<1>2. PICK c \in {t.data} \cup (IF t.shared THEN {Partial} ELSE {}) :
        disk' = CASE t.target = "tmp" -> [disk EXCEPT ![s].tmp = c]
                  [] t.target = "dst" -> [disk EXCEPT ![s].dst = c]
                  [] t.target = "gone" -> disk
  BY DEF WriteTemp
<1>3. /\ s \in Slots /\ t.target \in {"tmp", "dst", "gone"} /\ c # NoFile
      /\ t.target = "dst" => disk[s].dst # NoFile
  BY <1>1, <1>2 DEF TaskOK, Whole, NoFile, Partial
<1>4. /\ DOMAIN disk' = DOMAIN disk /\ \A r \in Slots : DOMAIN disk'[r] = {"dst", "tmp"}
      /\ \A r \in Slots : r # s => disk'[r] = disk[r]
      /\ t.target = "tmp" => disk'[s].tmp = c /\ disk'[s].dst = disk[s].dst
      /\ t.target = "dst" => disk'[s].dst = c
      /\ t.target = "gone" => disk' = disk
  <2>1. CASE t.target = "tmp"
    BY <1>2, <1>3, <2>1 DEF DiskOK, Slots
  <2>2. CASE t.target = "dst"
    BY <1>2, <1>3, <2>2 DEF DiskOK, Slots
  <2>3. CASE t.target = "gone"
    BY <1>2, <1>3, <2>3 DEF DiskOK, Slots
  <2> QED BY <1>3, <2>1, <2>2, <2>3
<1>5. \A r \in Slots : disk'[r].dst = NoFile <=> disk[r].dst = NoFile
  BY <1>3, <1>4
<1>6. /\ TaskOK(tasks[i])' /\ tasks'[i].pc = "rename" /\ tasks'[i].data = t.data
      /\ \A f \in {"kind", "slot", "cancelled"} : tasks'[i][f] = t[f]
  <2> DEFINE new == [t EXCEPT !.pc = "rename", !.target = "none"]
  <2>1. tasks'[i] = new
    BY <1>1
  <2>2. DOMAIN new = TaskFields
    BY <1>1 DEF TaskOK
  <2>3. /\ new.pc = "rename" /\ new.target = "none"
        /\ \A f \in TaskFields : f \notin {"pc", "target"} => new[f] = t[f]
    BY <1>1 DEF TaskOK, TaskFields
  <2> HIDE DEF new
  <2>4. /\ new.kind = t.kind /\ new.slot = t.slot /\ new.req = t.req /\ new.shared = t.shared
        /\ new.cancelled = t.cancelled /\ new.data = t.data
    BY <2>3 DEF TaskFields
  <2>5. TaskOK(new)
    BY <1>1, <2>2, <2>3, <2>4 DEF TaskOK
  <2>6. \A x : TaskOK(x) => TaskOK(x)'
    BY <1>1, <1>4, <1>5, TaskSound
  <2>7. TaskOK(tasks[i])'
    BY <2>1, <2>5, <2>6 DEF TaskOK, GoodRequest
  <2> QED BY <2>1, <2>3, <2>4, <2>7
<1>7. Others(i)
  BY <1>1, <1>6 DEF Others
<1>8. TasksOK'
  BY <1>1, <1>4, <1>5, <1>7, TasksFrame
<1>9. /\ InFlight' = InFlight /\ tasks'[i].kind = t.kind
      /\ \A j \in InFlight : j # i => tasks'[j] = tasks[j]
  BY <1>1, <1>6, <1>7, TaskNotNone DEF Others, InFlight, TaskOK
<1>10. Orderly'
  <2> SUFFICES ASSUME "overlap" \notin races'
               PROVE  /\ \A r \in Slots' : disk'[r].dst # Partial
                      /\ \A j, k \in InFlight' :
                           tasks'[j].pc \in {"write", "rename"} /\ tasks'[k].pc \in {"write", "rename"}
                             /\ tasks'[j].slot = tasks'[k].slot => j = k
                      /\ \A j \in InFlight' :
                           /\ tasks'[j].pc = "write" => tasks'[j].target = "tmp" /\ ~tasks'[j].shared
                           /\ tasks'[j].pc = "rename" => disk'[tasks'[j].slot].tmp = tasks'[j].data
    BY DEF Orderly
  <2>1. /\ t.target = "tmp" /\ ~t.shared /\ c = t.data
        /\ \A j \in InFlight : tasks[j].pc \in {"write", "rename"} /\ tasks[j].slot = s => j = i
    BY <1>1, <1>2 DEF Orderly
  <2>2. \A r \in Slots' : disk'[r].dst # Partial
    BY <1>1, <1>4, <2>1 DEF Orderly, Slots
  <2>3. \A j \in InFlight : j # i => tasks[j].slot \in Slots
    BY DEF TasksOK, TaskOK, InFlight
  <2>4. \A j \in InFlight' :
          /\ tasks'[j].pc = "write" => tasks'[j].target = "tmp" /\ ~tasks'[j].shared
          /\ tasks'[j].pc = "rename" => disk'[tasks'[j].slot].tmp = tasks'[j].data
    <3> SUFFICES ASSUME NEW j \in InFlight'
                 PROVE  /\ tasks'[j].pc = "write" => tasks'[j].target = "tmp" /\ ~tasks'[j].shared
                        /\ tasks'[j].pc = "rename" => disk'[tasks'[j].slot].tmp = tasks'[j].data
      OBVIOUS
    <3>1. CASE j = i
      BY <1>4, <1>6, <2>1, <3>1
    <3>2. CASE j # i
      <4>1. j \in InFlight /\ tasks'[j] = tasks[j]
        BY <1>9, <3>2
      <4>2. tasks[j].pc = "rename" => disk'[tasks[j].slot] = disk[tasks[j].slot]
        BY <1>4, <2>1, <2>3, <3>2, <4>1
      <4> QED BY <1>1, <4>1, <4>2 DEF Orderly
    <3> QED BY <3>1, <3>2
  <2>5. \A j, k \in InFlight' :
          tasks'[j].pc \in {"write", "rename"} /\ tasks'[k].pc \in {"write", "rename"}
            /\ tasks'[j].slot = tasks'[k].slot => j = k
    BY <1>1, <1>6, <1>9, <2>1, SMTT(20) DEF Orderly
  <2> QED BY <2>2, <2>4, <2>5
<1>11. PollerOK'
  <2>1. SourcesKept(poller')
    BY <1>1 DEF PollerOK, SourcesKept
  <2> QED BY <1>1, <1>4, <1>6, <1>7, <2>1, PollerFrame
<1>12. WorldOK' /\ DiskOK' /\ QueueOK'
  BY <1>1, <1>4 DEF WorldOK, DiskOK, QueueOK, Slots
<1>13. Due => Due'
  BY <1>1, <1>9 DEF Due, Queued, Reporting
<1>14. "overlap" \in races' \/ \A r \in Slots : disk'[r].dst = disk[r].dst
  BY <1>1, <1>4 DEF Orderly
<1>15. (\E j \in InFlight : tasks[j].kind = "fetch")
         => (\E j \in InFlight' : tasks'[j].kind = "fetch")
  BY <1>9
<1>16. Named' /\ ValidIsReady' /\ Owned' /\ Loaded' /\ Fetched'
  BY <1>1, <1>4, <1>5, <1>13, <1>14, <1>15, AgreeFrame
<1> QED BY <1>8, <1>10, <1>11, <1>12, <1>16

\* A task keeps what it is when it only moves on in its writing.
Identity == {"kind", "slot", "req", "data", "cancelled"}

\* A task opens the temporary file: no other one has it, or the race is on record (writeAtomic).
LEMMA OpenTempStep ==
  ASSUME BundleInv, NEW i \in DOMAIN tasks, OpenTemp(i)
  PROVE  BundleInv'
<1> USE DEF BundleInv, Types
<1> DEFINE t == tasks[i]
           s == t.slot
           others == {j \in Writers(s) : tasks[j].target = "tmp"}
           renaming == {j \in InFlight : tasks[j].slot = s /\ tasks[j].pc = "rename"}
           new == [t EXCEPT !.pc = "write", !.target = "tmp", !.shared = others # {}]
<1>1. /\ t # NoTask /\ t.pc = "open" /\ TaskOK(t) /\ i \in InFlight /\ s \in Slots
      /\ UNCHANGED <<workload, policy, servers, plm, queue, poller, status, nginx>>
      /\ disk' = [disk EXCEPT ![s].tmp = Partial]
      /\ tasks' = [j \in DOMAIN tasks |-> IF j = i THEN new
                                          ELSE IF j \in others THEN [tasks[j] EXCEPT !.shared = TRUE]
                                          ELSE tasks[j]]
      /\ races' = IF others \cup renaming # {} THEN races \cup {"overlap"} ELSE races
  BY DEF OpenTemp, TasksOK, TaskOK, InFlight, external
<1>2. /\ DOMAIN disk' = DOMAIN disk /\ \A r \in Slots : DOMAIN disk'[r] = {"dst", "tmp"}
      /\ \A r \in Slots : disk'[r].dst = disk[r].dst
      /\ \A r \in Slots : r # s => disk'[r] = disk[r]
  BY <1>1 DEF DiskOK, Slots
<1>3. /\ DOMAIN new = TaskFields /\ new.pc = "write" /\ new.target = "tmp"
      /\ new.shared = (others # {})
      /\ \A f \in Identity : new[f] = t[f]
  BY <1>1 DEF TaskOK, TaskFields, Identity
<1>4. ASSUME NEW j \in InFlight, NEW x, x = [tasks[j] EXCEPT !.shared = TRUE]
      PROVE  /\ DOMAIN x = TaskFields /\ x.shared = TRUE
             /\ \A f \in Identity : x[f] = tasks[j][f]
             /\ x.pc = tasks[j].pc /\ x.target = tasks[j].target
  BY <1>4 DEF TasksOK, TaskOK, TaskFields, Identity, InFlight
<1> HIDE DEF new
<1>5. TaskOK(new)
  <2>1. /\ new.kind = t.kind /\ new.slot = t.slot /\ new.req = t.req /\ new.data = t.data
        /\ new.cancelled = t.cancelled
    BY <1>3 DEF Identity
  <2> HIDE DEF others
  <2> QED BY <1>1, <1>3, <2>1 DEF TaskOK
<1>6. others \subseteq InFlight /\ i \notin others
  BY <1>1 DEF Writers
<1>7. ASSUME NEW j \in InFlight
      PROVE  /\ TaskOK(tasks'[j]) /\ \A f \in Identity : tasks'[j][f] = tasks[j][f]
             /\ tasks'[j].pc = IF j = i THEN "write" ELSE tasks[j].pc
             /\ j # i => tasks'[j].target = tasks[j].target
             /\ j # i /\ j \notin others => tasks'[j] = tasks[j]
  <2>1. CASE j = i
    BY <1>1, <1>3, <1>5, <2>1
  <2>2. CASE j # i /\ j \notin others
    BY <1>1, <2>2 DEF TasksOK, InFlight
  <2>3. CASE j # i /\ j \in others
    <3>1. tasks'[j] = [tasks[j] EXCEPT !.shared = TRUE] /\ TaskOK(tasks[j])
      BY <1>1, <2>3 DEF TasksOK, InFlight
    <3>2. /\ DOMAIN tasks'[j] = TaskFields /\ tasks'[j].shared = TRUE
          /\ \A f \in Identity : tasks'[j][f] = tasks[j][f]
          /\ tasks'[j].pc = tasks[j].pc /\ tasks'[j].target = tasks[j].target
      BY <1>4, <3>1
    <3>3. /\ tasks'[j].kind = tasks[j].kind /\ tasks'[j].slot = tasks[j].slot
          /\ tasks'[j].req = tasks[j].req /\ tasks'[j].data = tasks[j].data
          /\ tasks'[j].cancelled = tasks[j].cancelled
      BY <3>2 DEF Identity
    <3>4. TaskOK(tasks'[j])
      BY <3>1, <3>2, <3>3 DEF TaskOK
    <3> QED BY <2>3, <3>2, <3>4
  <2> QED BY <2>1, <2>2, <2>3
<1>8. InFlight' = InFlight /\ DOMAIN tasks' = DOMAIN tasks
  <2>1. \A j \in DOMAIN tasks \ InFlight : tasks'[j] = NoTask
    BY <1>1, <1>6 DEF InFlight
  <2>2. \A j \in InFlight : tasks'[j] # NoTask
    BY <1>7, TaskNotNone DEF TaskOK
  <2> QED BY <1>1, <2>1, <2>2 DEF InFlight
<1>9. TasksOK'
  <2>1. \A x : TaskOK(x) => TaskOK(x)'
    BY <1>1, <1>2, TaskSound
  <2>2. ASSUME NEW j \in InFlight PROVE TaskOK(tasks[j])'
    BY <1>7, <2>1 DEF TaskOK, GoodRequest
  <2> QED BY <1>8, <2>2 DEF TasksOK, InFlight
<1>10. \A j \in InFlight : /\ tasks'[j].kind = tasks[j].kind /\ tasks'[j].slot = tasks[j].slot
                           /\ tasks'[j].data = tasks[j].data
                           /\ tasks'[j].cancelled = tasks[j].cancelled
  BY <1>7 DEF Identity
<1>11. Orderly'
  <2> SUFFICES ASSUME "overlap" \notin races'
               PROVE  /\ \A r \in Slots' : disk'[r].dst # Partial
                      /\ \A j, k \in InFlight' :
                           tasks'[j].pc \in {"write", "rename"} /\ tasks'[k].pc \in {"write", "rename"}
                             /\ tasks'[j].slot = tasks'[k].slot => j = k
                      /\ \A j \in InFlight' :
                           /\ tasks'[j].pc = "write" => tasks'[j].target = "tmp" /\ ~tasks'[j].shared
                           /\ tasks'[j].pc = "rename" => disk'[tasks'[j].slot].tmp = tasks'[j].data
    BY DEF Orderly
  <2>1. others = {} /\ renaming = {} /\ "overlap" \notin races
    BY <1>1
  <2>2. \A j \in InFlight : tasks[j].slot = s => tasks[j].pc \notin {"write", "rename"}
    BY <2>1 DEF Orderly, Writers
  <2>3. \A j \in InFlight : j # i => tasks'[j] = tasks[j] /\ tasks[j].slot \in Slots
    BY <1>7, <2>1 DEF TasksOK, TaskOK, InFlight
  <2>4. \A r \in Slots' : disk'[r].dst # Partial
    BY <1>2, <2>1 DEF Orderly, Slots
  <2>5. tasks'[i].pc = "write" /\ tasks'[i].target = "tmp" /\ ~tasks'[i].shared /\ tasks'[i].slot = s
    BY <1>1, <1>3, <1>10, <2>1
  <2> HIDE DEF others, renaming
  <2>6. ASSUME NEW j \in InFlight'
        PROVE  /\ tasks'[j].pc = "write" => tasks'[j].target = "tmp" /\ ~tasks'[j].shared
               /\ tasks'[j].pc = "rename" => disk'[tasks'[j].slot].tmp = tasks'[j].data
    <3>1. CASE j = i
      BY <2>5, <3>1
    <3>2. CASE j # i
      <4>1. j \in InFlight /\ tasks'[j] = tasks[j]
        BY <1>8, <2>3, <3>2
      <4>2. tasks[j].pc = "rename" => disk'[tasks[j].slot] = disk[tasks[j].slot]
        BY <1>2, <2>2, <2>3, <3>2, <4>1
      <4> QED BY <2>1, <4>1, <4>2 DEF Orderly
    <3> QED BY <3>1, <3>2
  <2>7. \A j, k \in InFlight' :
          tasks'[j].pc \in {"write", "rename"} /\ tasks'[k].pc \in {"write", "rename"}
            /\ tasks'[j].slot = tasks'[k].slot => j = k
    BY <1>8, <2>1, <2>2, <2>3, <2>5, SMTT(20) DEF Orderly
  <2> QED BY <2>4, <2>6, <2>7
<1>12. PollerOK'
  <2>1. Slots' = Slots /\ \A p : PollOK(p)' <=> PollOK(p)
    BY <1>1, <1>2 DEF Slots, PollOK, GoodRequest
  <2>2. ASSUME NEW j \in InFlight, tasks'[j].kind = "poll", ~tasks'[j].cancelled
        PROVE  poller'.sources[tasks'[j].slot] # NoPoll
    <3>1. tasks[j].kind = "poll" /\ ~tasks[j].cancelled /\ tasks'[j].slot = tasks[j].slot
      BY <1>10, <2>2
    <3>2. poller.sources[tasks[j].slot] # NoPoll
      BY <3>1 DEF PollerOK
    <3> QED BY <1>1, <3>1, <3>2
  <2> QED BY <1>1, <1>8, <2>1, <2>2 DEF PollerOK
<1>13. WorldOK' /\ DiskOK' /\ QueueOK'
  BY <1>1, <1>2 DEF WorldOK, DiskOK, QueueOK, Slots
<1>14. Due => Due'
  <2>1. \A j \in InFlight : Reporting(j) => j # i /\ tasks'[j].pc = "report"
    BY <1>1, <1>7 DEF Reporting
  <2>2. \A j \in InFlight : Reporting(j) => j \in InFlight' /\ Reporting(j)'
    BY <1>8, <1>10, <2>1 DEF Reporting
  <2>3. Queued => Queued'
    BY <1>1 DEF Queued
  <2> QED BY <2>2, <2>3 DEF Due
<1>15. (\E j \in InFlight : tasks[j].kind = "fetch")
         => (\E j \in InFlight' : tasks'[j].kind = "fetch")
  BY <1>8, <1>10
<1>16. races \subseteq races'
  BY <1>1
<1>17. Named' /\ ValidIsReady' /\ Owned' /\ Loaded' /\ Fetched'
  BY <1>1, <1>2, <1>14, <1>15, <1>16, AgreeFrame
<1> QED BY <1>9, <1>11, <1>12, <1>13, <1>17

\* A bundle gets its name; the policy will be synced, unless a poll was cancelled before (os.Rename).
LEMMA RenameTempStep ==
  ASSUME BundleInv, NEW i \in DOMAIN tasks, RenameTemp(i)
  PROVE  BundleInv'
<1> USE DEF BundleInv, Types
<1> DEFINE t == tasks[i]
           s == t.slot
<1>1. /\ t # NoTask /\ t.pc = "rename" /\ TaskOK(t) /\ i \in InFlight /\ s \in Slots
      /\ t.target = "none" /\ Whole(t.data)
      /\ UNCHANGED <<workload, policy, servers, plm, queue, nginx>>
  BY DEF RenameTemp, TasksOK, TaskOK, InFlight, external
<1>2. WorldOK' /\ QueueOK'
  BY <1>1 DEF WorldOK, QueueOK
<1>3. CASE disk[s].tmp = NoFile
  <2>1. /\ Done(i) /\ UNCHANGED <<disk, poller, races>>
        /\ IF t.kind = "fetch" THEN WithStatus("Warning") ELSE UNCHANGED status
    BY <1>3 DEF RenameTemp
  <2>2. Others(i) /\ tasks'[i] = NoTask
    BY <2>1 DEF Others, Done
  <2>3. TasksOK' /\ Orderly'
    BY <1>1, <2>1, <2>2, TasksFrame, OrderlyFrame
  <2>4. PollerOK'
    <3>1. SourcesKept(poller')
      BY <2>1 DEF PollerOK, SourcesKept
    <3> QED BY <1>1, <2>1, <2>2, <3>1, PollerFrame
  <2>5. DiskOK'
    BY <1>1, <2>1 DEF DiskOK, Slots
  <2>6. \A j \in InFlight : j # i => j \in InFlight' /\ tasks'[j] = tasks[j]
    BY <2>2 DEF Others, InFlight
  <2>7. Due => Due'
    BY <1>1, <2>6 DEF Due, Queued, Reporting
  <2>8. policy.exists /\ status' = "Valid" => status = "Valid" /\ t.kind # "fetch"
    BY <2>1 DEF WithStatus
  <2>9. \/ ~(policy.exists /\ status' = "Valid")
        \/ (\E j \in InFlight : tasks[j].kind = "fetch")
             => (\E j \in InFlight' : tasks'[j].kind = "fetch")
    BY <2>6, <2>8
  <2>10. Named' /\ ValidIsReady' /\ Owned' /\ Loaded' /\ Fetched'
    BY <1>1, <2>1, <2>7, <2>8, <2>9, AgreeFrame
  <2> QED BY <1>2, <2>3, <2>4, <2>5, <2>10
<1>4. CASE disk[s].tmp # NoFile
  <2> DEFINE new == [t EXCEPT !.pc = "report"]
             Moved(j) == [tasks[j] EXCEPT !.target = CASE @ = "tmp" -> "dst" [] @ = "dst" -> "gone"
                                                       [] OTHER -> @]
  <2>1. /\ disk' = [disk EXCEPT ![s] = [dst |-> disk[s].tmp, tmp |-> NoFile]]
        /\ tasks' = [Renamed(s, tasks) EXCEPT ![i] = new]
        /\ poller' = Remember(t)
        /\ races' = races \cup RaceOf(t)
        /\ UNCHANGED status
    BY <1>4 DEF RenameTemp
  <2>2. /\ DOMAIN disk' = DOMAIN disk /\ disk'[s] = [dst |-> disk[s].tmp, tmp |-> NoFile]
        /\ \A r \in Slots : r # s => disk'[r] = disk[r]
    BY <1>1, <2>1 DEF Slots
  <2>3. /\ disk'[s].dst = disk[s].tmp /\ DiskOK'
        /\ \A r \in Slots : disk'[r].dst = NoFile => disk[r].dst = NoFile
    BY <1>1, <1>4, <2>2, SMTT(20) DEF DiskOK, Slots
  <2>4. /\ DOMAIN new = TaskFields /\ new.pc = "report" /\ new.target = "none" /\ new.shared = t.shared
        /\ \A f \in Identity : new[f] = t[f]
    BY <1>1 DEF TaskOK, TaskFields, Identity
  <2>5. /\ DOMAIN tasks' = DOMAIN tasks /\ tasks'[i] = new
        /\ \A j \in DOMAIN tasks : j # i =>
             tasks'[j] = IF tasks[j] = NoTask \/ tasks[j].slot # s THEN tasks[j] ELSE Moved(j)
    BY <2>1 DEF Renamed
  <2>6. ASSUME NEW j \in InFlight
        PROVE  /\ DOMAIN Moved(j) = TaskFields
               /\ Moved(j).target = CASE tasks[j].target = "tmp" -> "dst"
                                      [] tasks[j].target = "dst" -> "gone"
                                      [] OTHER -> tasks[j].target
               /\ Moved(j).pc = tasks[j].pc /\ Moved(j).shared = tasks[j].shared
               /\ \A f \in Identity : Moved(j)[f] = tasks[j][f]
    BY <2>6 DEF TasksOK, TaskOK, TaskFields, Identity, InFlight
  <2> HIDE DEF new, Moved
  <2>7. ASSUME NEW j \in InFlight
        PROVE  /\ TaskOK(tasks[j])' /\ \A f \in Identity : tasks'[j][f] = tasks[j][f]
               /\ tasks'[j].pc = IF j = i THEN "report" ELSE tasks[j].pc
               /\ j # i /\ tasks[j].slot # s => tasks'[j] = tasks[j]
    <3>1. CASE j # i /\ tasks[j].slot # s
      <4>1. TaskOK(tasks[j]) /\ tasks'[j] = tasks[j]
        BY <2>5, <3>1 DEF TasksOK, InFlight
      <4>2. \A x : TaskOK(x) => TaskOK(x)'
        BY <1>1, <2>2, <2>3, TaskSound
      <4>3. TaskOK(tasks[j])'
        BY <4>1, <4>2 DEF TaskOK, GoodRequest
      <4> QED BY <3>1, <4>1, <4>3
    <3>2. CASE j # i /\ tasks[j].slot = s
      <4>1. tasks'[j] = Moved(j) /\ TaskOK(tasks[j])
        BY <2>5, <3>2 DEF TasksOK, InFlight
      <4>2. /\ Moved(j).kind = tasks[j].kind /\ Moved(j).slot = tasks[j].slot
            /\ Moved(j).req = tasks[j].req /\ Moved(j).data = tasks[j].data
            /\ Moved(j).cancelled = tasks[j].cancelled
        BY <2>6 DEF Identity
      <4>3. /\ IF tasks[j].pc = "write" THEN Moved(j).target \in {"dst", "gone"}
               ELSE Moved(j).target = "none"
            /\ Slots' = Slots /\ disk'[s].dst # NoFile
        BY <1>4, <2>2, <2>3, <2>6, <4>1 DEF TaskOK, Slots
      <4>4. TaskOK(tasks[j])'
        BY <1>1, <2>6, <3>2, <4>1, <4>2, <4>3, SMTT(20) DEF TaskOK, GoodRequest
      <4> QED BY <2>6, <3>2, <4>1, <4>4
    <3>3. CASE j = i
      <4>1. /\ new.kind = t.kind /\ new.slot = t.slot /\ new.req = t.req /\ new.data = t.data
            /\ new.cancelled = t.cancelled /\ Slots' = Slots
        BY <2>2, <2>4 DEF Identity, Slots
      <4>2. TaskOK(tasks[i])'
        BY <1>1, <2>4, <2>5, <4>1 DEF TaskOK, GoodRequest
      <4> QED BY <2>4, <2>5, <3>3, <4>2
    <3> QED BY <3>1, <3>2, <3>3
  <2>8. InFlight' = InFlight
    <3>1. \A j \in DOMAIN tasks \ InFlight : tasks'[j] = NoTask
      BY <1>1, <2>5 DEF InFlight
    <3>2. \A j \in InFlight : tasks'[j] # NoTask
      BY <2>7, TaskNotNone DEF TaskOK
    <3> QED BY <2>5, <3>1, <3>2 DEF InFlight
  <2>9. TasksOK'
    BY <2>5, <2>7, <2>8 DEF TasksOK, InFlight
  <2>10. \A j \in InFlight : /\ tasks'[j].kind = tasks[j].kind /\ tasks'[j].slot = tasks[j].slot
                             /\ tasks'[j].data = tasks[j].data
                             /\ tasks'[j].cancelled = tasks[j].cancelled
    BY <2>7 DEF Identity
  <2>11. Orderly'
    <3> SUFFICES ASSUME "overlap" \notin races'
                 PROVE  /\ \A r \in Slots' : disk'[r].dst # Partial
                        /\ \A j, k \in InFlight' :
                             tasks'[j].pc \in {"write", "rename"} /\ tasks'[k].pc \in {"write", "rename"}
                               /\ tasks'[j].slot = tasks'[k].slot => j = k
                        /\ \A j \in InFlight' :
                             /\ tasks'[j].pc = "write" => tasks'[j].target = "tmp" /\ ~tasks'[j].shared
                             /\ tasks'[j].pc = "rename" => disk'[tasks'[j].slot].tmp = tasks'[j].data
      BY DEF Orderly
    <3>1. "overlap" \notin races
      BY <2>1
    <3>2. \A j \in InFlight : tasks[j].pc \in {"write", "rename"} /\ tasks[j].slot = s => j = i
      BY <1>1, <3>1 DEF Orderly
    <3>3. disk[s].tmp = t.data
      BY <1>1, <3>1 DEF Orderly
    <3>4. \A r \in Slots' : disk'[r].dst # Partial
      BY <1>1, <2>2, <2>3, <3>1, <3>3 DEF Orderly, Slots, Whole
    <3>5. ASSUME NEW j \in InFlight, tasks'[j].pc \in {"write", "rename"}
          PROVE  /\ j # i /\ tasks[j].slot # s /\ tasks'[j] = tasks[j]
                 /\ tasks[j].slot \in Slots /\ disk'[tasks[j].slot] = disk[tasks[j].slot]
      <4>1. j # i /\ tasks[j].slot # s /\ tasks'[j] = tasks[j]
        BY <2>7, <3>2, <3>5
      <4>2. tasks[j].slot \in Slots
        BY DEF TasksOK, TaskOK, InFlight
      <4> QED BY <2>2, <4>1, <4>2
    <3>6. \A j \in InFlight' :
            /\ tasks'[j].pc = "write" => tasks'[j].target = "tmp" /\ ~tasks'[j].shared
            /\ tasks'[j].pc = "rename" => disk'[tasks'[j].slot].tmp = tasks'[j].data
      BY <2>8, <3>1, <3>5, SMTT(20) DEF Orderly
    <3>7. \A j, k \in InFlight' :
            tasks'[j].pc \in {"write", "rename"} /\ tasks'[k].pc \in {"write", "rename"}
              /\ tasks'[j].slot = tasks'[k].slot => j = k
      BY <2>8, <3>1, <3>5, SMTT(20) DEF Orderly
    <3> QED BY <3>4, <3>6, <3>7
  <2>12. PollerOK'
    <3>1. Slots' = Slots /\ \A p : PollOK(p)' <=> PollOK(p)
      BY <1>1, <2>2 DEF Slots, PollOK, GoodRequest
    <3>2. SourcesKept(poller')
      BY <1>1, <2>1, PollerUpdate
    <3>3. ASSUME NEW j \in InFlight, tasks'[j].kind = "poll", ~tasks'[j].cancelled
          PROVE  poller'.sources[tasks'[j].slot] # NoPoll
      <4>1. /\ tasks[j].kind = "poll" /\ ~tasks[j].cancelled /\ tasks'[j].slot = tasks[j].slot
            /\ tasks[j].slot \in Slots
        BY <2>10, <3>3 DEF TasksOK, TaskOK, InFlight
      <4>2. poller.sources[tasks[j].slot] # NoPoll
        BY <4>1 DEF PollerOK
      <4> QED BY <3>2, <4>1, <4>2 DEF SourcesKept
    <3> QED BY <2>8, <3>1, <3>2, <3>3 DEF PollerOK, SourcesKept
  <2>13. Due' \/ "late" \in races'
    <3>1. CASE t.cancelled
      BY <2>1, <3>1 DEF RaceOf
    <3>2. CASE ~t.cancelled
      <4>1. i \in InFlight' /\ tasks'[i].pc = "report" /\ ~tasks'[i].cancelled
        BY <1>1, <2>7, <2>8, <2>10, <3>2
      <4> QED BY <4>1 DEF Due, Reporting
    <3> QED BY <3>1, <3>2
  <2>14. Named'
    BY <1>1, <2>2, <2>3 DEF Named, Slots
  <2>15. ValidIsReady'
    <3>1. Slots' = Slots /\ \A r \in Slots : Expected(r)' <=> Expected(r)
      BY <1>1, <2>2 DEF Slots, Expected, IsPLM, IsRemote, Source
    <3>2. bundleFilesReady => bundleFilesReady'
      BY <2>3, <3>1 DEF bundleFilesReady
    <3> QED BY <1>1, <2>1, <3>1, <3>2 DEF ValidIsReady, Queued
  <2>16. Owned' /\ Loaded' /\ Fetched'
    BY <2>13 DEF Owned, Loaded, Fetched
  <2> QED BY <1>2, <2>3, <2>9, <2>11, <2>12, <2>14, <2>15, <2>16
<1> QED BY <1>3, <1>4

\* A ticker starts a poll of its source (runPoller).
LEMMA TickStep ==
  ASSUME BundleInv, NEW s \in Slots, Tick(s)
  PROVE  BundleInv'
<1> USE DEF BundleInv, Types
<1> DEFINE free == {i \in DOMAIN tasks : tasks[i] = NoTask}
           least == CHOOSE i \in free : \A j \in free : i <= j
           new == NewTask("poll", s, poller.sources[s].req)
<1>1. /\ free # {} /\ poller.sources[s] # NoPoll
      /\ tasks' = [tasks EXCEPT ![least] = new]
      /\ UNCHANGED <<workload, policy, servers, plm, queue, disk, poller, status, nginx, races>>
  BY DEF Tick, external
<1>2. least \in free
  <2>1. free \subseteq Nat
    BY TasksAssumption, SMTT(20) DEF TasksOK
  <2> HIDE DEF free
  <2> QED BY <1>1, <2>1, LeastExists
<1>3. PICK id \in DOMAIN tasks : tasks[id] = NoTask /\ tasks' = [tasks EXCEPT ![id] = new]
  BY <1>1, <1>2
<1> HIDE DEF free, least
<1>4. /\ DOMAIN new = TaskFields /\ new.kind = "poll" /\ new.slot = s /\ new.pc = "fetch"
      /\ new.req = poller.sources[s].req /\ new.target = "none" /\ new.shared = FALSE
      /\ new.cancelled = FALSE
  BY DEF NewTask, TaskFields
<1> HIDE DEF new
<1>5. GoodRequest(poller.sources[s].req)
  BY <1>1 DEF PollerOK, PollOK
<1>6. TaskOK(tasks[id])' /\ tasks'[id] = new
  <2>1. TaskOK(new)
    BY <1>4, <1>5 DEF TaskOK
  <2>2. \A x : TaskOK(x) => TaskOK(x)'
    BY <1>1, TaskSound
  <2>3. tasks'[id] = new
    BY <1>3
  <2> QED BY <2>1, <2>2, <2>3 DEF TaskOK, GoodRequest
<1>7. Others(id)
  BY <1>3, <1>6 DEF Others
<1>8. TasksOK' /\ Orderly'
  <2>1. tasks'[id].pc \notin {"write", "rename"}
    BY <1>4, <1>6
  <2> QED BY <1>1, <1>3, <1>7, <2>1, TasksFrame, OrderlyFrame
<1>9. \A j \in InFlight : j \in InFlight' /\ tasks'[j] = tasks[j]
  BY <1>3, <1>7 DEF Others, InFlight
<1>10. PollerOK'
  <2>1. Slots' = Slots /\ \A p : PollOK(p)' <=> PollOK(p)
    BY <1>1 DEF Slots, PollOK, GoodRequest
  <2>2. ASSUME NEW j \in InFlight', tasks'[j].kind = "poll", ~tasks'[j].cancelled
        PROVE  poller'.sources[tasks'[j].slot] # NoPoll
    <3>1. CASE j = id
      BY <1>1, <1>4, <1>6, <3>1
    <3>2. CASE j # id
      BY <1>1, <1>7, <2>2, <3>2 DEF Others, InFlight, PollerOK
    <3> QED BY <3>1, <3>2
  <2> QED BY <1>1, <2>1, <2>2 DEF PollerOK
<1>11. WorldOK' /\ DiskOK' /\ QueueOK'
  BY <1>1 DEF WorldOK, DiskOK, QueueOK, Slots
<1>12. Due => Due'
  BY <1>1, <1>9 DEF Due, Queued, Reporting
<1>13. (\E j \in InFlight : tasks[j].kind = "fetch")
         => (\E j \in InFlight' : tasks'[j].kind = "fetch")
  BY <1>9
<1>14. Named' /\ ValidIsReady' /\ Owned' /\ Loaded' /\ Fetched'
  BY <1>1, <1>12, <1>13, AgreeFrame
<1> QED BY <1>8, <1>10, <1>11, <1>14

-----------------------------------------------------------------------------
(* The outside world, and the sync of a resource of PLM.                     *)

\* What only the tasks, the files and the poller say stays true while they are as they were.
LEMMA TaskSideUnchanged ==
  ASSUME TasksOK, PollerOK, Orderly, DiskOK, UNCHANGED <<workload, disk, tasks, poller, races>>,
         DOMAIN servers' = DOMAIN servers
  PROVE  TasksOK' /\ PollerOK' /\ Orderly' /\ DiskOK' /\ InFlight' = InFlight
<1>1. InFlight' = InFlight /\ Slots' = Slots
  BY DEF InFlight, Slots
<1>2. \A x : (TaskOK(x) => TaskOK(x)') /\ (PollOK(x)' <=> PollOK(x))
  BY TaskSound DEF PollOK, GoodRequest
<1>3. TasksOK'
  <2>1. ASSUME NEW i \in DOMAIN tasks PROVE tasks'[i] = NoTask \/ TaskOK(tasks[i])'
    BY <1>2 DEF TasksOK, TaskOK, GoodRequest
  <2> QED BY <2>1 DEF TasksOK
<1>4. PollerOK'
  BY <1>1, <1>2 DEF PollerOK
<1> QED BY <1>1, <1>3, <1>4 DEF Orderly, DiskOK

\* What is due is due as long as the tasks are as they were and the policy stays queued.
LEMMA DueStays ==
  ASSUME UNCHANGED tasks, Queued => Queued'
  PROVE  Due => Due'
BY DEF Due, InFlight, Reporting

\* An update of the Policy enqueues it.
LEMMA ChangePolicyStep ==
  ASSUME BundleInv, ChangePolicy
  PROVE  BundleInv'
<1> USE DEF BundleInv, Types
<1>1. /\ UNCHANGED <<workload, servers, plm, disk, tasks, poller, status, nginx, races>>
      /\ policy' \in workload.policies /\ queue' = Enqueue(queue, <<"policy">>)
  BY DEF ChangePolicy
<1>2. TasksOK' /\ PollerOK' /\ Orderly' /\ DiskOK'
  BY <1>1, TaskSideUnchanged
<1>3. WorldOK'
  BY <1>1 DEF WorldOK
<1>4. QueueOK' /\ Queued' /\ Due'
  BY <1>1, PolicyEnqueued DEF QueueOK, Queued, Due
<1>5. Named' /\ ValidIsReady' /\ Owned' /\ Loaded' /\ Fetched'
  BY <1>1, <1>4 DEF Named, ValidIsReady, Owned, Loaded, Fetched, Slots
<1> QED BY <1>2, <1>3, <1>4, <1>5

\* A new answer of a server and a new Secret are seen by the fetches to come only.
LEMMA ChangeServerStep ==
  ASSUME BundleInv, ChangeServer \/ ChangeSecret
  PROVE  BundleInv'
<1> USE DEF BundleInv, Types
<1>1. UNCHANGED <<workload, policy, plm, queue, disk, tasks, poller, status, nginx, races>>
  BY DEF ChangeServer, ChangeSecret
<1>2. \/ servers' = servers
      \/ \E u \in DOMAIN servers : \E a \in workload.answers[u] : servers' = [servers EXCEPT ![u] = a]
  BY DEF ChangeServer, ChangeSecret
<1>3. WorldOK' /\ DOMAIN servers' = DOMAIN servers
  BY <1>1, <1>2 DEF WorldOK
<1>4. TasksOK' /\ PollerOK' /\ Orderly' /\ DiskOK' /\ InFlight' = InFlight
  BY <1>1, <1>3, TaskSideUnchanged
<1>5. QueueOK' /\ (Due => Due')
  BY <1>1, DueStays DEF QueueOK, Queued
<1>6. Named' /\ ValidIsReady' /\ Owned' /\ Loaded' /\ Fetched'
  BY <1>1, <1>4, <1>5, AgreeFrame
<1> QED BY <1>3, <1>4, <1>5, <1>6

\* A bundle that PLM publishes is out of date on disk, and its resource is queued.
LEMMA ChangePLMStep ==
  ASSUME BundleInv, ChangePLM
  PROVE  BundleInv'
<1> USE DEF BundleInv, Types
<1>1. UNCHANGED <<workload, policy, servers, disk, tasks, poller, status, nginx, races>>
  BY DEF ChangePLM
<1>2. PICK r \in DOMAIN plm : \E b \in workload.bundles[r] :
        plm' = [plm EXCEPT ![r] = b] /\ queue' = Enqueue(queue, <<"ap", r>>)
  BY DEF ChangePLM
<1>3. /\ WorldOK' /\ DOMAIN plm' = DOMAIN plm
      /\ \A q \in DOMAIN plm : q # r => plm'[q] = plm[q]
  BY <1>1, <1>2 DEF WorldOK
<1>4. QueueOK' /\ Range(queue') = Range(queue) \cup {<<"ap", r>>}
  <2> DEFINE T == {<<"policy">>} \cup {<<"ap", q>> : q \in DOMAIN plm}
             t == <<"ap", r>>
  <2>1. queue \in Seq(T) /\ t \in T
    BY DEF QueueOK
  <2>2. queue' \in Seq(T) /\ Range(queue') = Range(queue) \cup {t}
    <3>1. queue' = Enqueue(queue, t)
      BY <1>2
    <3> HIDE DEF T, t
    <3> QED BY <2>1, <3>1, EnqueueRange, SMTT(20)
  <2> QED BY <1>3, <2>2 DEF QueueOK
<1>5. TasksOK' /\ PollerOK' /\ Orderly' /\ DiskOK' /\ InFlight' = InFlight
  BY <1>1, TaskSideUnchanged
<1>6. (Queued => Queued') /\ (Due => Due')
  BY <1>1, <1>4, DueStays DEF Queued
<1>7. ASSUME NEW s \in Slots, Outdated(s)' PROVE Outdated(s)
  <2>1. /\ IsPLM(s) /\ <<"ap", Source(s).ref>> \notin Range(queue') /\ Source(s)' = Source(s)
        /\ resolvePLMBundleStatus(s)' /\ disk[s].dst # plm'[Source(s).ref].sha
    BY <1>1, <1>7 DEF Outdated, IsPLM, Source
  <2>2. Source(s).ref \in DOMAIN plm
    BY <2>1, WorkloadsAssumption DEF WorldOK, DiskOK, IsPLM, Source
  <2>3. Source(s).ref # r
    BY <1>4, <2>1
  <2>4. plm'[Source(s).ref] = plm[Source(s).ref]
    BY <1>3, <2>2, <2>3
  <2> QED BY <1>1, <1>4, <2>1, <2>4 DEF Outdated, resolvePLMBundleStatus, Source
<1>8. Named' /\ ValidIsReady' /\ Owned' /\ Loaded' /\ Fetched'
  BY <1>1, <1>5, <1>6, <1>7, AgreeKept
<1> QED BY <1>3, <1>4, <1>5, <1>8

\* The storage of PLM is back: the policies that wait for a bundle are enqueued
\* (enqueuePoliciesUsingPLMStorage).
LEMMA ChangeStorageStep ==
  ASSUME BundleInv, ChangeStorage
  PROVE  BundleInv'
<1> USE DEF BundleInv, Types
<1>1. /\ UNCHANGED <<workload, policy, servers, plm, disk, tasks, poller, nginx, races>>
      /\ queue' \in {queue, Enqueue(queue, <<"policy">>)} /\ status' \in {status, "Warning"}
  BY DEF ChangeStorage
<1>2. WorldOK'
  BY <1>1 DEF WorldOK
<1>3. TasksOK' /\ PollerOK' /\ Orderly' /\ DiskOK' /\ InFlight' = InFlight
  BY <1>1, TaskSideUnchanged
<1>4. QueueOK' /\ Range(queue) \subseteq Range(queue')
  BY <1>1, PolicyEnqueued DEF QueueOK
<1>5. Due => Due'
  BY <1>1, <1>4, DueStays DEF Queued
<1>6. status' = "Valid" => status = "Valid"
  BY <1>1
<1>7. Named' /\ ValidIsReady' /\ Owned' /\ Loaded' /\ Fetched'
  BY <1>1, <1>3, <1>4, <1>5, <1>6, AgreeFrame
<1> QED BY <1>2, <1>3, <1>4, <1>7

\* The sync of a resource enqueues the policy that refers to it (syncAppProtectPolicy).
LEMMA SyncAppProtectStep ==
  ASSUME BundleInv, syncAppProtect
  PROVE  BundleInv'
<1> USE DEF BundleInv, Types
<1> DEFINE refers == policy.exists /\ \E s \in Slots : IsPLM(s) /\ Source(s).ref = Head(queue)[2]
           T == {<<"policy">>} \cup {<<"ap", r>> : r \in DOMAIN plm}
<1>1. /\ UNCHANGED <<workload, policy, servers, plm, disk, tasks, poller, status, nginx, races>>
      /\ queue # << >> /\ Head(queue)[1] = "ap"
      /\ queue' = IF refers THEN Enqueue(Tail(queue), <<"policy">>) ELSE Tail(queue)
  BY DEF syncAppProtect, external
<1>2. WorldOK'
  BY <1>1 DEF WorldOK
<1>3. TasksOK' /\ PollerOK' /\ Orderly' /\ DiskOK' /\ InFlight' = InFlight
  BY <1>1, TaskSideUnchanged
<1>4. /\ Tail(queue) \in Seq(T) /\ Head(queue) \in T
      /\ Range(queue) \subseteq Range(Tail(queue)) \cup {Head(queue)}
      /\ Range(Tail(queue)) \subseteq Range(queue)
  <2> HIDE DEF T
  <2> QED BY <1>1, TailRange DEF QueueOK, T
<1>5. Enqueue(Tail(queue), <<"policy">>) \in Seq(T)
      /\ Range(Enqueue(Tail(queue), <<"policy">>)) = Range(Tail(queue)) \cup {<<"policy">>}
  <2> DEFINE t == <<"policy">>
             q == Tail(queue)
  <2>1. t \in T /\ q \in Seq(T)
    BY <1>4
  <2>2. Enqueue(q, t) \in Seq(T) /\ Range(Enqueue(q, t)) = Range(q) \cup {t}
    <3> HIDE DEF T, t, q
    <3> QED BY <2>1, EnqueueRange, SMTT(20)
  <2> QED BY <2>2
<1>6. QueueOK' /\ Range(Tail(queue)) \subseteq Range(queue') /\ (refers => Queued')
  BY <1>1, <1>4, <1>5 DEF QueueOK, Queued
<1>7. PICK r \in DOMAIN plm : Head(queue) = <<"ap", r>>
  <2>1. <<"policy">>[1] # "ap"
    OBVIOUS
  <2> QED BY <1>1, <1>4, <2>1
<1>8. (Queued => Queued') /\ (Due => Due')
  <2>1. <<"ap", r>> # <<"policy">>
    BY SMTT(20)
  <2> QED BY <1>1, <1>4, <1>6, <1>7, <2>1, DueStays DEF Queued
<1>9. ASSUME NEW s \in Slots, policy.exists, ~Queued', Outdated(s)' PROVE Outdated(s)
  <2>1. /\ IsPLM(s) /\ resolvePLMBundleStatus(s) /\ disk[s].dst # plm[Source(s).ref].sha
        /\ <<"ap", Source(s).ref>> \notin Range(queue')
    BY <1>1, <1>9 DEF Outdated, IsPLM, Source, resolvePLMBundleStatus
  <2>2. Source(s).ref # r
    <3>1. Head(queue)[2] = r
      BY <1>7, SMTT(20)
    <3> QED BY <1>6, <1>9, <2>1, <3>1
  <2>3. <<"ap", Source(s).ref>> # <<"ap", r>>
    BY <2>2, SMTT(20)
  <2>4. <<"ap", Source(s).ref>> \notin Range(queue)
    BY <1>4, <1>6, <1>7, <2>1, <2>3
  <2> QED BY <2>1, <2>4 DEF Outdated
<1>10. Named' /\ ValidIsReady' /\ Owned' /\ Loaded' /\ Fetched'
  BY <1>1, <1>3, <1>8, <1>9, AgreeKept
<1> QED BY <1>2, <1>3, <1>6, <1>10

-----------------------------------------------------------------------------
(* The sync of the policy.                                                   *)

\* Another state of the same write of the same goroutine.
Alike(x, y) ==
  /\ DOMAIN y = TaskFields /\ y.kind = x.kind /\ y.slot = x.slot /\ y.req = x.req
  /\ y.pc = x.pc /\ y.data = x.data /\ y.shared = x.shared

\* Cancelling a poller reaches its polls and nothing else (StopPoller, ReconcilePoller).
LEMMA CancelledTask ==
  ASSUME NEW ts, NEW i \in DOMAIN ts, ts[i] = NoTask \/ TaskOK(ts[i])
  PROVE  /\ DOMAIN Cancelled(ts) = DOMAIN ts
         /\ ts[i] = NoTask => Cancelled(ts)[i] = NoTask
         /\ ts[i] # NoTask =>
              /\ TaskOK(Cancelled(ts)[i]) /\ Alike(ts[i], Cancelled(ts)[i])
              /\ Cancelled(ts)[i].target = ts[i].target
              /\ ts[i].kind = "poll" => Cancelled(ts)[i].cancelled
<1>1. /\ DOMAIN Cancelled(ts) = DOMAIN ts
      /\ Cancelled(ts)[i] = IF ts[i].kind = "poll" THEN [ts[i] EXCEPT !.cancelled = TRUE] ELSE ts[i]
  BY DEF Cancelled
<1>2. CASE ts[i] = NoTask
  <2>1. NoTask.kind = "none"
    BY DEF NoTask
  <2> QED BY <1>1, <1>2, <2>1
<1>3. CASE ts[i] # NoTask /\ ts[i].kind # "poll"
  BY <1>1, <1>3 DEF Alike, TaskOK
<1>4. CASE ts[i] # NoTask /\ ts[i].kind = "poll"
  <2> DEFINE y == [ts[i] EXCEPT !.cancelled = TRUE]
  <2>1. TaskOK(ts[i]) /\ Cancelled(ts)[i] = y
    BY <1>1, <1>4
  <2>2. Alike(ts[i], y) /\ y.target = ts[i].target /\ y.cancelled = TRUE
    BY <2>1 DEF TaskOK, TaskFields, Alike
  <2> HIDE DEF y
  <2>3. TaskOK(y)
    BY <1>4, <2>1, <2>2 DEF TaskOK, Alike
  <2> QED BY <1>1, <1>4, <2>1, <2>2, <2>3
<1> QED BY <1>2, <1>3, <1>4

\* The writers of the removed files go on, without a name for what they write.
LEMMA DetachedTask ==
  ASSUME NEW ts, NEW i \in DOMAIN ts, ts[i] = NoTask \/ TaskOK(ts[i])
  PROVE  /\ DOMAIN Detached(ts) = DOMAIN ts
         /\ ts[i] = NoTask => Detached(ts)[i] = NoTask
         /\ ts[i] # NoTask =>
              /\ Alike(ts[i], Detached(ts)[i]) /\ Detached(ts)[i].cancelled = ts[i].cancelled
              /\ Detached(ts)[i].target = IF ts[i].target = "dst" THEN "gone" ELSE ts[i].target
<1>1. /\ DOMAIN Detached(ts) = DOMAIN ts
      /\ Detached(ts)[i] = IF ts[i] # NoTask /\ ts[i].target = "dst"
                           THEN [ts[i] EXCEPT !.target = "gone"] ELSE ts[i]
  BY DEF Detached
<1>2. CASE ts[i] = NoTask
  BY <1>1, <1>2
<1>3. CASE ts[i] # NoTask /\ ts[i].target # "dst"
  BY <1>1, <1>3 DEF Alike, TaskOK
<1>4. CASE ts[i] # NoTask /\ ts[i].target = "dst"
  BY <1>1, <1>4 DEF TaskOK, TaskFields, Alike
<1> QED BY <1>2, <1>3, <1>4

\* A fetch is started for a bundle that resolves and is not there; when no slot is left with a
\* warning, it is started if any slot needs one (syncWAFBundleSource).
LEMMA SyncLaunches ==
  ASSUME DiskOK, Slots \subseteq Nat \ {0}
  PROVE  /\ \A s \in syncWAFBundleSource.launched :
              s \in Slots /\ Expected(s) /\ ~Unresolved(s) /\ bundleNeedsFetch(s)
         /\ ~syncWAFBundleSource.warning =>
              \A s \in Slots : Expected(s) /\ ~Unresolved(s) /\ bundleNeedsFetch(s) =>
                syncWAFBundleSource.launched # {}
<1> DEFINE Launches(s) == Expected(s) /\ ~Unresolved(s) /\ bundleNeedsFetch(s)
           visited == {s \in Slots : \A t \in 1..(s - 1) : ~Launches(t) /\ ~(t = 1 /\ Unresolved(t))}
           launching == {s \in Slots : Launches(s)}
<1>1. /\ syncWAFBundleSource.launched = {s \in visited : Launches(s)}
      /\ syncWAFBundleSource.warning = (\E s \in visited : Unresolved(s))
  BY DEF syncWAFBundleSource
<1>2. ASSUME ~syncWAFBundleSource.warning, launching # {}
      PROVE  syncWAFBundleSource.launched # {}
  <2>1. PICK l \in launching : \A s \in launching : l <= s
    <3> HIDE DEF Launches
    <3>1. launching \subseteq Nat
      OBVIOUS
    <3> HIDE DEF launching
    <3> QED BY <1>2, <3>1, LeastExists
  <2>2. \A t \in 1..(l - 1) : t \in Slots /\ ~Launches(t)
    <3> HIDE DEF Launches
    <3>1. l \in Slots /\ Slots = 1..Len(workload.policy.sources)
      BY <2>1 DEF DiskOK
    <3>2. \A t \in 1..(l - 1) : t \in Slots /\ ~(l <= t)
      BY <3>1, SMTT(20)
    <3> QED BY <2>1, <3>2
  <2>3. 1 \in Slots => ~Unresolved(1)
    <3> HIDE DEF Launches
    <3>1. 1..(1 - 1) = {}
      BY SMTT(20)
    <3> QED BY <1>1, <1>2, <3>1
  <2>4. l \in visited /\ Launches(l)
    BY <2>1, <2>2, <2>3
  <2> QED BY <1>1, <2>4
<1>3. \A s \in syncWAFBundleSource.launched : s \in Slots /\ Launches(s)
  BY <1>1
<1> QED BY <1>2, <1>3

\* The requests that a policy leads to can be made (buildFetchRequest, plmFetchRequest).
LEMMA RequestsGood ==
  ASSUME WorldOK, DiskOK, NEW s \in Slots
  PROVE  /\ IsRemote(s) => GoodRequest(buildFetchRequest(s)) /\ buildFetchRequest(s).type # "PLM"
         /\ Expected(s) /\ ~Unresolved(s) => GoodRequest(FetchRequest(s))
<1>1. /\ IsRemote(s) => /\ Source(s).type \in {"HTTPS", "N1C", "NIM"}
                        /\ Source(s).server \in DOMAIN servers /\ Source(s).retries \in Nat
      /\ IsPLM(s) => Source(s).ref \in DOMAIN plm
  BY WorkloadsAssumption, SMTT(20) DEF WorldOK, DiskOK, IsRemote, IsPLM, Source
<1>2. IsRemote(s) => GoodRequest(buildFetchRequest(s)) /\ buildFetchRequest(s).type # "PLM"
  <2> SUFFICES ASSUME IsRemote(s)
               PROVE  GoodRequest(buildFetchRequest(s)) /\ buildFetchRequest(s).type # "PLM"
    OBVIOUS
  <2> DEFINE r == buildFetchRequest(s)
  <2>1. /\ r.type = Source(s).type /\ r.kind = KindOf(s) /\ r.server = Source(s).server
        /\ r.retries = Source(s).retries
    BY DEF buildFetchRequest
  <2>2. KindOf(s) \in {"policy", "log"}
    BY DEF KindOf
  <2> HIDE DEF r
  <2> QED BY <1>1, <2>1, <2>2 DEF GoodRequest, r
<1>3. ASSUME IsPLM(s), resolvePLMBundleStatus(s)
      PROVE  GoodRequest(plmFetchRequest(s))
  <2> DEFINE r == plmFetchRequest(s)
  <2>1. r.type = "PLM" /\ r.expected = plm[Source(s).ref].sha
    BY DEF plmFetchRequest
  <2>2. Whole(plm[Source(s).ref].sha)
    BY <1>1, <1>3, WorkloadsAssumption DEF WorldOK, resolvePLMBundleStatus, Whole, NoFile, NoHash
  <2> HIDE DEF r
  <2> QED BY <2>1, <2>2 DEF GoodRequest, r
<1> QED BY <1>2, <1>3 DEF Expected, Unresolved, FetchRequest

\* syncPolicy brings everything in line: the files without a policy are removed, the config
\* names the bundles that are there, and a bundle that is missing or out of date is fetched.
LEMMA SyncPolicyStep ==
  ASSUME BundleInv, syncPolicy
  PROVE  BundleInv'
<1> USE DEF BundleInv, Types
<1> DEFINE sync == syncWAFBundleSource
           free == {i \in DOMAIN tasks : tasks[i] = NoTask}
           least == CHOOSE i \in free : \A j \in free : i <= j
           slot == CHOOSE t \in sync.launched : TRUE
           launched == [i \in DOMAIN tasks |-> IF sync.launched # {} /\ i = least
                                               THEN NewTask("fetch", slot, FetchRequest(slot))
                                               ELSE tasks[i]]
           rec == IF hasBundleSource THEN reconcileBundlePoller(launched)
                  ELSE [poller |-> NoPoller, tasks |-> Detached(Cancelled(tasks))]
           files == IF hasBundleSource THEN disk ELSE cleanupFetchedBundles(disk)
<1>1. /\ UNCHANGED <<workload, policy, servers, plm, races>>
      /\ queue # << >> /\ queue' = Tail(queue)
      /\ sync.launched # {} => free # {}
      /\ poller' = rec.poller /\ tasks' = rec.tasks /\ disk' = files
      /\ nginx' = [conf |-> ConfFor(files), loaded |-> Reloaded(ConfFor(files), files)]
      /\ status' = PolicyState(hasBundleSource /\ sync.warning)
  BY DEF syncPolicy, external
<1>2. WorldOK' /\ QueueOK'
  <2> DEFINE T == {<<"policy">>} \cup {<<"ap", r>> : r \in DOMAIN plm}
  <2>1. Tail(queue) \in Seq(T)
    <3> HIDE DEF T
    <3> QED BY <1>1, TailRange DEF QueueOK, T
  <2> QED BY <1>1, <2>1 DEF WorldOK, QueueOK
<1>3. /\ nginx'.conf = ConfFor(files) /\ nginx'.loaded = Reloaded(ConfFor(files), files)
  BY <1>1
<1>4. \A s : Expected(s)' <=> Expected(s)
  BY <1>1 DEF Expected, IsPLM, IsRemote, Source
<1>5. Slots \subseteq Nat \ {0}
  <2>1. Slots = 1..Len(workload.policy.sources) /\ Len(workload.policy.sources) \in Nat
    BY WorkloadsAssumption DEF DiskOK, WorldOK
  <2> QED BY <2>1, SMTT(20)
<1>6. CASE ~hasBundleSource
  <2>1. /\ poller' = NoPoller /\ tasks' = Detached(Cancelled(tasks))
        /\ disk' = [s \in Slots |-> [disk[s] EXCEPT !.dst = NoFile]]
    BY <1>1, <1>6 DEF cleanupFetchedBundles
  <2>2. /\ Slots' = Slots /\ \A s \in Slots : /\ DOMAIN disk'[s] = {"dst", "tmp"}
                                              /\ disk'[s].dst = NoFile /\ disk'[s].tmp = disk[s].tmp
    BY <2>1 DEF DiskOK, Slots
  <2>3. DiskOK'
    BY <1>1, <2>2 DEF DiskOK
  <2>4. \A s \in Slots : ~Expected(s)
    BY <1>6 DEF hasBundleSource
  <2>5. nginx'.conf = {}
    BY <1>3, <2>4 DEF ConfFor
  <2>6. ASSUME NEW i \in DOMAIN tasks
        PROVE  /\ DOMAIN tasks' = DOMAIN tasks
               /\ tasks[i] = NoTask => tasks'[i] = NoTask
               /\ tasks[i] # NoTask =>
                    /\ Alike(tasks[i], tasks'[i]) /\ tasks'[i].cancelled \in BOOLEAN
                    /\ tasks'[i].cancelled <=> tasks'[i].kind = "poll"
                    /\ tasks'[i].target = IF tasks[i].target = "dst" THEN "gone" ELSE tasks[i].target
    <3> DEFINE c == Cancelled(tasks)
    <3>1. tasks[i] = NoTask \/ TaskOK(tasks[i])
      BY DEF TasksOK
    <3>2. /\ DOMAIN c = DOMAIN tasks
          /\ tasks[i] = NoTask => c[i] = NoTask
          /\ tasks[i] # NoTask =>
               /\ TaskOK(c[i]) /\ Alike(tasks[i], c[i]) /\ c[i].target = tasks[i].target
               /\ tasks[i].kind = "poll" => c[i].cancelled
      BY <3>1, CancelledTask
    <3> HIDE DEF c
    <3>3. tasks' = Detached(c)
      BY <2>1 DEF c
    <3>4. /\ DOMAIN tasks' = DOMAIN c
          /\ c[i] = NoTask => tasks'[i] = NoTask
          /\ c[i] # NoTask =>
               /\ Alike(c[i], tasks'[i]) /\ tasks'[i].cancelled = c[i].cancelled
               /\ tasks'[i].target = IF c[i].target = "dst" THEN "gone" ELSE c[i].target
      BY <3>1, <3>2, <3>3, DetachedTask
    <3>5. TaskOK(c[i]) => c[i] # NoTask
      BY TaskNotNone DEF TaskOK
    <3>6. tasks[i] # NoTask => /\ Alike(tasks[i], tasks'[i]) /\ c[i].cancelled \in BOOLEAN
                               /\ c[i].cancelled <=> tasks'[i].kind = "poll"
      BY <3>2, <3>4, <3>5 DEF Alike, TaskOK
    <3> QED BY <3>2, <3>4, <3>5, <3>6
  <2>7. /\ InFlight' = InFlight
        /\ \A i \in InFlight :
             /\ Alike(tasks[i], tasks'[i]) /\ tasks[i].slot \in Slots
             /\ tasks'[i].cancelled <=> tasks'[i].kind = "poll"
             /\ tasks'[i].target = IF tasks[i].target = "dst" THEN "gone" ELSE tasks[i].target
    <3>1. DOMAIN tasks' = DOMAIN tasks
      BY <2>1 DEF Detached, Cancelled
    <3>2. \A i \in InFlight : tasks'[i] # NoTask /\ tasks[i].slot \in Slots
      BY <2>6, TaskNotNone DEF InFlight, Alike, TasksOK, TaskOK
    <3> QED BY <2>6, <3>1, <3>2 DEF InFlight
  <2>8. TasksOK'
    <3>1. ASSUME NEW i \in InFlight PROVE TaskOK(tasks[i])'
      <4>1. TaskOK(tasks[i])
        BY DEF TasksOK, InFlight
      <4>2. tasks'[i].cancelled \in BOOLEAN
        BY <2>6 DEF InFlight
      <4>3. /\ DOMAIN tasks'[i] = TaskFields /\ tasks'[i].kind = tasks[i].kind
            /\ tasks'[i].slot = tasks[i].slot /\ tasks'[i].req = tasks[i].req
            /\ tasks'[i].pc = tasks[i].pc /\ tasks'[i].data = tasks[i].data
            /\ tasks'[i].shared = tasks[i].shared
            /\ tasks'[i].kind = "fetch" => ~tasks'[i].cancelled
        BY <2>7 DEF Alike
      <4>4. /\ tasks'[i].target # "dst"
            /\ IF tasks[i].pc = "write" THEN tasks'[i].target \in {"tmp", "gone"}
               ELSE tasks'[i].target = "none"
        BY <2>7, <4>1 DEF TaskOK
      <4>5. GoodRequest(tasks[i].req) => GoodRequest(tasks[i].req)'
        BY <1>1, <4>3 DEF GoodRequest
      <4> QED BY <2>2, <4>1, <4>2, <4>3, <4>4, <4>5 DEF TaskOK
    <3>2. DOMAIN tasks' = DOMAIN tasks
      BY <2>1 DEF Detached, Cancelled
    <3> QED BY <2>7, <3>1, <3>2 DEF TasksOK, InFlight
  <2>9. Orderly'
    <3> SUFFICES ASSUME "overlap" \notin races
                 PROVE  /\ \A r \in Slots : disk'[r].dst # Partial
                        /\ \A j, k \in InFlight :
                             tasks'[j].pc \in {"write", "rename"} /\ tasks'[k].pc \in {"write", "rename"}
                               /\ tasks'[j].slot = tasks'[k].slot => j = k
                        /\ \A j \in InFlight :
                             /\ tasks'[j].pc = "write" => tasks'[j].target = "tmp" /\ ~tasks'[j].shared
                             /\ tasks'[j].pc = "rename" => disk'[tasks'[j].slot].tmp = tasks'[j].data
      BY <1>1, <2>2, <2>7 DEF Orderly
    <3>1. \A j \in InFlight :
             /\ tasks'[j].pc = tasks[j].pc /\ tasks'[j].slot = tasks[j].slot
             /\ tasks'[j].data = tasks[j].data /\ tasks'[j].shared = tasks[j].shared
      BY <2>7 DEF Alike
    <3>2. \A r \in Slots : disk'[r].dst # Partial
      BY <2>2 DEF NoFile, Partial
    <3>3. \A j \in InFlight : tasks'[j].pc = "write" => tasks'[j].target = "tmp" /\ ~tasks'[j].shared
      BY <2>7, <3>1 DEF Orderly
    <3>4. \A j \in InFlight : tasks'[j].pc = "rename" => disk'[tasks'[j].slot].tmp = tasks'[j].data
      BY <2>2, <2>7, <3>1 DEF Orderly
    <3> QED BY <3>1, <3>2, <3>3, <3>4 DEF Orderly
  <2>10. PollerOK'
    <3>1. /\ DOMAIN NoPoller = {"running", "sources"} /\ DOMAIN NoPoller.sources = Slots
          /\ \A s \in Slots : NoPoller.sources[s] = NoPoll
      BY DEF NoPoller
    <3> QED BY <2>1, <2>2, <2>7, <3>1 DEF PollerOK
  <2>11. Named' /\ Owned' /\ Loaded'
    BY <2>2, <2>5 DEF Named, Owned, Loaded
  <2>12. ValidIsReady'
    BY <1>4, <2>2, <2>4, <2>5 DEF ValidIsReady, bundleFilesReady
  <2>13. Fetched'
    <3>1. policy.exists => \A s \in Slots : ~IsPLM(s)
      BY <2>4 DEF Expected
    <3>2. policy.exists => \A s \in Slots : ~Outdated(s)'
      BY <1>1, <3>1 DEF Outdated, IsPLM, Source
    <3> QED BY <1>1, <2>2, <3>2 DEF Fetched
  <2> QED BY <1>2, <2>3, <2>8, <2>9, <2>10, <2>11, <2>12, <2>13
<1>7. CASE hasBundleSource
  <2>1. /\ poller' = reconcileBundlePoller(launched).poller
        /\ tasks' = reconcileBundlePoller(launched).tasks /\ disk' = disk
    BY <1>1, <1>7
  <2>2. DiskOK' /\ Slots' = Slots
    BY <1>1, <2>1 DEF DiskOK, Slots
  \* The fetch that is started.
  <2>3. DOMAIN launched = DOMAIN tasks
    OBVIOUS
  <2>4. sync.launched # {} =>
          /\ least \in DOMAIN tasks /\ tasks[least] = NoTask
          /\ launched[least] = NewTask("fetch", slot, FetchRequest(slot))
          /\ TaskOK(launched[least]) /\ launched[least].kind = "fetch"
          /\ launched[least].pc = "fetch"
    <3> SUFFICES ASSUME sync.launched # {}
                 PROVE  /\ least \in DOMAIN tasks /\ tasks[least] = NoTask
                        /\ launched[least] = NewTask("fetch", slot, FetchRequest(slot))
                        /\ TaskOK(launched[least]) /\ launched[least].kind = "fetch"
                        /\ launched[least].pc = "fetch"
      OBVIOUS
    <3>1. free \subseteq Nat /\ free # {}
      <4>1. DOMAIN tasks \subseteq Nat
        BY TasksAssumption, SMTT(20) DEF TasksOK
      <4> QED BY <1>1, <4>1
    <3>2. least \in free
      <4> HIDE DEF free
      <4> QED BY <3>1, LeastExists
    <3>3. slot \in sync.launched
      OBVIOUS
    <3>4. slot \in Slots /\ GoodRequest(FetchRequest(slot))
      <4> HIDE DEF slot
      <4> QED BY <1>5, <3>3, SyncLaunches, RequestsGood
    <3> HIDE DEF least, slot
    <3> DEFINE new == NewTask("fetch", slot, FetchRequest(slot))
    <3>5. launched[least] = new
      BY <3>2
    <3>6. /\ DOMAIN new = TaskFields /\ new.kind = "fetch" /\ new.slot = slot /\ new.pc = "fetch"
          /\ new.req = FetchRequest(slot) /\ new.target = "none" /\ new.shared = FALSE
          /\ new.cancelled = FALSE
      BY DEF NewTask, TaskFields
    <3>7. TaskOK(new)
      <4> HIDE DEF new
      <4> QED BY <3>4, <3>6 DEF TaskOK
    <3> QED BY <3>2, <3>5, <3>6, <3>7
  <2>5. \A i \in DOMAIN tasks : (i = least /\ sync.launched # {}) \/ launched[i] = tasks[i]
    OBVIOUS
  <2>6. \A i \in DOMAIN tasks : launched[i] = NoTask \/ TaskOK(launched[i])
    BY <2>4, <2>5 DEF TasksOK
  <2> HIDE DEF least, slot, free, launched
  \* The poller.
  <2>7. \/ poller' = poller /\ tasks' = launched
        \/ /\ tasks' = Cancelled(launched)
           /\ poller' \in {NoPoller, [running |-> TRUE, sources |-> buildPollSources]}
    BY <2>1 DEF reconcileBundlePoller
  <2>8. ASSUME NEW i \in DOMAIN tasks
        PROVE  /\ DOMAIN tasks' = DOMAIN tasks
               /\ launched[i] = NoTask => tasks'[i] = NoTask
               /\ launched[i] # NoTask =>
                    TaskOK(tasks'[i]) /\ Alike(launched[i], tasks'[i])
                      /\ tasks'[i].target = launched[i].target
    <3>1. CASE tasks' = launched
      BY <2>3, <2>6, <3>1 DEF Alike, TaskOK
    <3>2. CASE tasks' = Cancelled(launched)
      BY <2>3, <2>6, <3>2, CancelledTask
    <3> QED BY <2>7, <3>1, <3>2
  <2>9. DOMAIN tasks' = DOMAIN tasks
    BY <2>3, <2>7 DEF Cancelled
  <2>10. TasksOK'
    <3>1. \A x : TaskOK(x) => TaskOK(x)'
      BY <1>1, <2>1, TaskSound
    <3>2. ASSUME NEW i \in DOMAIN tasks PROVE tasks'[i] = NoTask \/ TaskOK(tasks[i])'
      BY <2>8, <3>1 DEF TaskOK, GoodRequest
    <3> QED BY <2>9, <3>2 DEF TasksOK
  <2>11. ASSUME NEW i \in InFlight'
         PROVE  \/ /\ i \in InFlight /\ Alike(tasks[i], tasks'[i]) /\ tasks'[i].target = tasks[i].target
                   /\ launched[i] = tasks[i]
                \/ tasks'[i].pc = "fetch" /\ tasks'[i].kind = "fetch"
    <3>1. i \in DOMAIN tasks /\ launched[i] # NoTask
      BY <2>8, <2>9 DEF InFlight
    <3>2. CASE launched[i] = tasks[i]
      BY <2>8, <3>1, <3>2 DEF InFlight
    <3>3. CASE launched[i] # tasks[i]
      <4>1. launched[i].pc = "fetch" /\ launched[i].kind = "fetch"
        BY <2>4, <2>5, <3>1, <3>3
      <4> QED BY <2>8, <3>1, <4>1 DEF Alike
    <3> QED BY <3>2, <3>3
  <2>12. Orderly'
    <3> SUFFICES ASSUME "overlap" \notin races
                 PROVE  /\ \A r \in Slots : disk[r].dst # Partial
                        /\ \A j, k \in InFlight' :
                             tasks'[j].pc \in {"write", "rename"} /\ tasks'[k].pc \in {"write", "rename"}
                               /\ tasks'[j].slot = tasks'[k].slot => j = k
                        /\ \A j \in InFlight' :
                             /\ tasks'[j].pc = "write" => tasks'[j].target = "tmp" /\ ~tasks'[j].shared
                             /\ tasks'[j].pc = "rename" => disk[tasks'[j].slot].tmp = tasks'[j].data
      BY <1>1, <2>1, <2>2 DEF Orderly
    <3>1. ASSUME NEW j \in InFlight', tasks'[j].pc \in {"write", "rename"}
          PROVE  /\ j \in InFlight /\ tasks'[j].pc = tasks[j].pc /\ tasks'[j].slot = tasks[j].slot
                 /\ tasks'[j].data = tasks[j].data /\ tasks'[j].shared = tasks[j].shared
                 /\ tasks'[j].target = tasks[j].target
      BY <2>11, <3>1 DEF Alike
    <3> QED BY <3>1, SMTT(20) DEF Orderly
  <2>13. PollerOK'
    <3>1. \A p : PollOK(p)' <=> PollOK(p)
      BY <1>1 DEF PollOK, GoodRequest
    <3>2. CASE poller' = poller /\ tasks' = launched
      <4>1. ASSUME NEW j \in InFlight', tasks'[j].kind = "poll", ~tasks'[j].cancelled
            PROVE  poller.sources[tasks'[j].slot] # NoPoll
        BY <2>11, <3>2, <4>1 DEF PollerOK
      <4> QED BY <2>2, <3>1, <3>2, <4>1 DEF PollerOK
    <3>3. CASE /\ tasks' = Cancelled(launched)
               /\ poller' \in {NoPoller, [running |-> TRUE, sources |-> buildPollSources]}
      <4>1. ASSUME NEW j \in InFlight', tasks'[j].kind = "poll" PROVE tasks'[j].cancelled
        <5>1. j \in DOMAIN launched /\ launched[j] # NoTask /\ launched[j].kind = "poll"
          BY <2>3, <2>8, <2>9, <4>1 DEF InFlight, Alike
        <5> QED BY <2>3, <2>6, <3>3, <5>1, CancelledTask
      <4>2. /\ DOMAIN poller' = {"running", "sources"} /\ DOMAIN poller'.sources = Slots
            /\ (\A s \in Slots : poller'.sources[s] = NoPoll) \/ poller'.sources = buildPollSources
        <5>1. CASE poller' = NoPoller
          BY <5>1 DEF NoPoller
        <5>2. CASE poller' = [running |-> TRUE, sources |-> buildPollSources]
          <6>1. DOMAIN buildPollSources = Slots
            BY DEF buildPollSources
          <6> QED BY <5>2, <6>1
        <5> QED BY <3>3, <5>1, <5>2
      <4>3. ASSUME NEW s \in Slots PROVE poller'.sources[s] = NoPoll \/ PollOK(poller'.sources[s])
        <5>1. \/ poller'.sources[s] = NoPoll
              \/ /\ IsRemote(s)
                 /\ poller'.sources[s] = [kind |-> "poll", req |-> buildFetchRequest(s), disabled |-> FALSE]
          BY <4>2 DEF buildPollSources
        <5> DEFINE r == buildFetchRequest(s)
                   p == [kind |-> "poll", req |-> r, disabled |-> FALSE]
        <5>2. {"type", "kind", "server", "retries", "lastHash", "etag"} \subseteq DOMAIN r
          BY DEF buildFetchRequest
        <5>3. IsRemote(s) => GoodRequest(r) /\ r.type # "PLM"
          BY RequestsGood
        <5> HIDE DEF r
        <5>4. DOMAIN p = {"kind", "req", "disabled"} /\ p.req = r
          OBVIOUS
        <5>5. IsRemote(s) => PollOK(p)
          <6> HIDE DEF p
          <6> QED BY <5>2, <5>3, <5>4 DEF PollOK
        <5> QED BY <5>1, <5>5 DEF r
      <4> QED BY <2>2, <3>1, <4>1, <4>2, <4>3 DEF PollerOK
    <3> QED BY <2>7, <3>2, <3>3
  \* The config.
  <2>14. nginx'.conf = ConfFor(disk) /\ nginx'.loaded = Reloaded(ConfFor(disk), disk)
    BY <1>3, <1>7
  <2>15. \A s \in ConfFor(disk) : s \in Slots /\ disk[s].dst # NoFile
    BY DEF ConfFor
  <2>16. Named' /\ Owned'
    <3>1. hasBundleSource'
      BY <1>4, <1>7, <2>2 DEF hasBundleSource
    <3> QED BY <2>1, <2>2, <2>14, <2>15, <3>1 DEF Named, Owned
  <2>17. ASSUME status' = "Valid"
         PROVE  policy.exists /\ policy.valid /\ ~sync.warning /\ bundleFilesReady
    BY <1>1, <1>7, <2>17 DEF PolicyState
  <2>18. ValidIsReady'
    <3>1. bundleFilesReady => bundleFilesReady'
      BY <1>4, <2>1, <2>2 DEF bundleFilesReady
    <3>2. bundleFilesReady /\ policy.exists /\ policy.valid =>
            ConfFor(disk) = {s \in Slots : Expected(s)}
      BY DEF ConfFor, bundleFilesReady
    <3> QED BY <1>1, <1>4, <2>2, <2>14, <2>17, <3>1, <3>2 DEF ValidIsReady
  <2>19. Loaded'
    <3> SUFFICES ASSUME "overlap" \notin races
                 PROVE  \A s \in ConfFor(disk) : Reloaded(ConfFor(disk), disk)[s] = disk[s].dst
      BY <1>1, <2>1, <2>14 DEF Loaded
    <3>1. \A s \in ConfFor(disk) : s \in Slots /\ disk[s].dst # Partial
      BY <2>15 DEF Orderly
    <3> QED BY <3>1 DEF Reloaded
  <2>20. Fetched'
    <3> SUFFICES ASSUME status' = "Valid", NEW s \in Slots, Outdated(s)'
                 PROVE  \E i \in InFlight' : tasks'[i].kind = "fetch"
      BY <2>2 DEF Fetched
    <3>1. Expected(s) /\ ~Unresolved(s) /\ bundleNeedsFetch(s)
      BY <1>1, <2>1, <2>17
         DEF Outdated, Expected, Unresolved, bundleNeedsFetch, IsPLM, Source, resolvePLMBundleStatus
    <3>2. sync.launched # {}
      BY <1>5, <2>17, <3>1, SyncLaunches
    <3>3. /\ least \in DOMAIN tasks /\ launched[least] # NoTask /\ launched[least].kind = "fetch"
      BY <2>4, <3>2, TaskNotNone DEF TaskOK
    <3>4. TaskOK(tasks'[least]) /\ tasks'[least].kind = "fetch"
      BY <2>8, <3>3 DEF Alike
    <3>5. least \in InFlight'
      BY <2>9, <3>3, <3>4, TaskNotNone DEF InFlight, TaskOK
    <3> QED BY <3>4, <3>5
  <2> QED BY <1>2, <2>2, <2>10, <2>12, <2>13, <2>16, <2>18, <2>19, <2>20
<1> QED BY <1>6, <1>7

-----------------------------------------------------------------------------
(* The theorems.                                                             *)

\* The first state: no file, no task, and a policy that exists is queued.
LEMMA BundleInvInit == Init => BundleInv
<1> SUFFICES ASSUME Init PROVE BundleInv
  OBVIOUS
<1> USE DEF Init
<1> DEFINE n == Len(workload.policy.sources)
<1>1. n \in Nat /\ DOMAIN workload.policy.sources = 1..n
  BY WorkloadsAssumption
<1>2. /\ Slots = 1..n /\ DOMAIN disk = Slots
      /\ \A s \in Slots : disk[s] = [dst |-> NoFile, tmp |-> NoFile]
  BY <1>1 DEF Slots
<1> HIDE DEF n
<1>3. \A s \in Slots : DOMAIN disk[s] = {"dst", "tmp"} /\ disk[s].dst = NoFile
  BY <1>2
<1>4. WorldOK /\ DiskOK
  BY <1>2, <1>3 DEF WorldOK, DiskOK, n
<1>5. QueueOK /\ (policy.exists => Queued)
  <2>1. CASE ~workload.policy.exists
    BY <2>1, SMTT(20) DEF QueueOK
  <2>2. CASE workload.policy.exists
    <3> DEFINE t == <<"policy">>
               T == {t} \cup {<<"ap", r>> : r \in DOMAIN plm}
    <3>1. queue = <<t>> /\ t \in T
      BY <2>2
    <3>2. queue \in Seq(T) /\ t \in Range(queue)
      <4> HIDE DEF t, T
      <4> QED BY <3>1, SMTT(20) DEF Range
    <3> QED BY <3>2 DEF QueueOK, Queued
  <2> QED BY <2>1, <2>2
<1>6. TasksOK /\ InFlight = {}
  BY DEF TasksOK, InFlight
<1>7. PollerOK
  <2>1. DOMAIN poller = {"running", "sources"} /\ DOMAIN poller.sources = Slots
    BY <1>1, <1>2 DEF n
  <2>2. \A s \in Slots : poller.sources[s] = NoPoll
    BY <1>1, <1>2 DEF n
  <2> QED BY <1>6, <2>1, <2>2 DEF PollerOK
<1>8. Orderly
  BY <1>3, <1>6 DEF Orderly, NoFile, Partial
<1>9. nginx.conf = {} /\ status # "Valid"
  OBVIOUS
<1>10. Named /\ ValidIsReady /\ Owned /\ Loaded /\ Fetched
  BY <1>3, <1>9 DEF Named, ValidIsReady, Owned, Loaded, Fetched
<1> QED BY <1>4, <1>5, <1>6, <1>7, <1>8, <1>10 DEF BundleInv, Types

\* Every step of the worker, of a goroutine, of a ticker and of the world keeps the invariant.
LEMMA BundleInvStep == BundleInv /\ [Next]_vars => BundleInv'
<1> SUFFICES ASSUME BundleInv, [Next]_vars PROVE BundleInv'
  OBVIOUS
<1>1. CASE syncPolicy
  BY <1>1, SyncPolicyStep
<1>2. CASE syncAppProtect
  BY <1>2, SyncAppProtectStep
<1>3. CASE \E i \in DOMAIN tasks : Step(i)
  <2>1. PICK i \in DOMAIN tasks : Step(i)
    BY <1>3
  <2> QED BY <2>1, FetchStep, OpenTempStep, WriteTempStep, RenameTempStep, ReportStep DEF Step
<1>4. CASE \E s \in Slots : Tick(s)
  BY <1>4, TickStep
<1>5. CASE World
  BY <1>5, ChangePolicyStep, ChangeServerStep, ChangePLMStep, ChangeStorageStep DEF World
<1>6. CASE UNCHANGED vars
  <2>1. UNCHANGED <<workload, policy, servers, plm, queue, disk, tasks, poller, status, nginx, races>>
    BY <1>6 DEF vars
  <2>2. TasksOK' /\ PollerOK' /\ Orderly' /\ DiskOK' /\ InFlight' = InFlight
    BY <2>1, TaskSideUnchanged DEF BundleInv, Types
  <2>3. WorldOK' /\ QueueOK' /\ (Due => Due')
    BY <2>1, DueStays DEF BundleInv, Types, WorldOK, QueueOK, Queued
  <2>4. Named' /\ ValidIsReady' /\ Owned' /\ Loaded' /\ Fetched'
    BY <2>1, <2>2, <2>3, AgreeFrame DEF BundleInv
  <2> QED BY <2>2, <2>3, <2>4 DEF BundleInv, Types
<1> QED BY <1>1, <1>2, <1>3, <1>4, <1>5, <1>6 DEF Next

\* The invariant holds in every state.
LEMMA BundleInvAlways == Spec => []BundleInv
BY BundleInvInit, BundleInvStep, PTL DEF Spec

\* A config never names a bundle that is not there, and without an overlap of two writers no
\* bundle is seen half-written, however many goroutines fetch and poll (writeAtomic, syncPolicy,
\* cleanupFetchedBundles).
THEOREM NamedBundlesAreWhole == Spec => []NamedBundlesWhole
<1>1. BundleInv => NamedBundlesWhole
  BY DEF BundleInv, Named, Orderly, NamedBundlesWhole
<1> QED BY <1>1, BundleInvAlways, PTL

\* When the queue is empty and no goroutine runs, status, policy, files and NGINX agree, whatever
\* the order in which fetches, polls, syncs and changes went (syncPolicy, performInitialFetch,
\* pollSource, syncCb).
THEOREM BundlesAgreeAtRest == Spec => []AgreeAtRest
<1>1. BundleInv => AgreeAtRest
  <2> SUFFICES ASSUME BundleInv, Idle PROVE AgreeAtRest
    BY DEF AgreeAtRest
  <2>1. InFlight = {} /\ Range(queue) = {}
    BY SMTT(20) DEF Idle, Range
  <2>2. ~Queued /\ ~Due
    BY <2>1 DEF Queued, Due
  <2>3. status = "Valid" /\ policy.exists => bundleFilesReady
    BY <2>2 DEF BundleInv, ValidIsReady
  <2>4. "late" \notin races => \A s \in Slots : disk[s].dst # NoFile => hasBundleSource
    BY <2>2 DEF BundleInv, Owned
  <2>5. ASSUME races \cap {"overlap", "late"} = {}
        PROVE  \A s \in nginx.conf : nginx.loaded[s] = disk[s].dst
    BY <2>2, <2>5 DEF BundleInv, Loaded
  <2>6. ASSUME races \cap {"overlap", "late"} = {}, policy.exists, policy.valid, status = "Valid",
               NEW s \in Slots, IsPLM(s), resolvePLMBundleStatus(s)
        PROVE  disk[s].dst = plm[Source(s).ref].sha /\ nginx.loaded[s] = disk[s].dst
    <3>1. ~Outdated(s)
      BY <2>1, <2>2, <2>6 DEF BundleInv, Fetched
    <3>2. s \in nginx.conf
      BY <2>2, <2>6 DEF BundleInv, ValidIsReady, Expected
    <3> QED BY <2>1, <2>5, <2>6, <3>1, <3>2 DEF Outdated
  <2> QED BY <2>3, <2>4, <2>5, <2>6 DEF AgreeAtRest
<1> QED BY <1>1, BundleInvAlways, PTL
=============================================================================
