------------------------------- MODULE Bundles ------------------------------
(***************************************************************************)
(* The fetched WAF bundles of one Policy: syncPolicy with the bundle sources *)
(* of the policy (internal/k8s/policy.go), the goroutines of the initial     *)
(* fetches, the background poller (wafbundle/poller.go), and the writes they *)
(* make to the same files.  Slot 1 is the policy bundle, the others are the  *)
(* log profiles, in the order of securityLogs.                               *)
(*                                                                           *)
(* A goroutine is a task: it fetches, opens the temporary file, writes it,   *)
(* renames it and reports back, one step each, between the steps of others.  *)
(***************************************************************************)
EXTENDS BundleFetch

CONSTANTS
  Workloads,  \* clusters: the policies, servers and faults of a run
  MaxTasks    \* goroutines in flight

VARIABLES
  workload,
  policy,   \* [exists, valid, sources]: the Policy in the lister
  secret,   \* the Secret with the credentials of the remote sources, "bad" if unusable
  servers,  \* what each remote source answers
  plm,      \* .status.bundle of the resources compiled by PLM: [state, sha]
  store,    \* the object store of PLM
  queue,    \* tasks of the work queue
  disk,     \* [dst, tmp] for each slot
  tasks,    \* the goroutines
  poller,   \* [running, sources] of the pollerManager
  status,   \* state in the status of the Policy
  nginx,    \* [conf, loaded]: the slots the config names, what NGINX read of them
  races,    \* "overlap": two tasks had the same temporary file open; "late": a cancelled
            \* poll replaced a file; "overtaken": an initial fetch replaced what a poll wrote
  changes   \* made from outside, at most workload.maxChanges

vars == <<workload, policy, secret, servers, plm, store, queue, disk, tasks, poller,
          status, nginx, races, changes>>

external == <<policy, secret, servers, plm, store, changes>>

NoFile == "none"
Partial == "partial"
NoTask == [kind |-> "none"]
NoPoll == [kind |-> "none"]

\* A policy has one source per slot.  A bundle, and the checksum that PLM publishes for one
\* that is ready, is none of the two marks above; a server answers in one of five ways.
ASSUME WorkloadsAssumption ==
  \A w \in Workloads :
    /\ Len(w.policy.sources) \in Nat
    /\ \A p \in w.policies \cup {w.policy} : DOMAIN p.sources = 1..Len(w.policy.sources)
    /\ \A p \in w.policies \cup {w.policy} :
         /\ p.exists \in BOOLEAN /\ p.valid \in BOOLEAN
         /\ \A s \in DOMAIN p.sources :
              /\ p.sources[s].kind = "plm" => p.sources[s].ref \in DOMAIN w.plm
              /\ p.sources[s].kind = "remote" =>
                   /\ p.sources[s].type \in {"HTTPS", "N1C", "NIM"}
                   /\ p.sources[s].server \in DOMAIN w.servers /\ p.sources[s].retries \in Nat
    /\ \A u \in DOMAIN w.servers : \A a \in w.answers[u] \cup {w.servers[u]} :
         /\ a.body \notin {NoHash, Partial}
         /\ a.replies \subseteq {"ok", "eof", "serverError", "redirect", "clientError"}
    /\ \A r \in DOMAIN w.plm : \A b \in w.bundles[r] \cup {w.plm[r]} :
         b.state = "ready" => b.sha \notin {NoHash, Partial}
ASSUME TasksAssumption == MaxTasks \in Nat

Slots == DOMAIN disk
KindOf(s) == IF s = 1 THEN "policy" ELSE "log"

Enqueue(q, t) == IF t \in Range(q) THEN q ELSE Append(q, t)
InFlight == {i \in DOMAIN tasks : tasks[i] # NoTask}

-----------------------------------------------------------------------------
(* What a policy asks for.                                                   *)

Source(s) == policy.sources[s]
IsPLM(s) == Source(s).kind = "plm"
IsRemote(s) == Source(s).kind = "remote"

\* policyBundleExpected and logBundleExpected.
Expected(s) == policy.exists /\ (IsPLM(s) \/ IsRemote(s))

hasBundleSource == \E s \in Slots : Expected(s)
bundleFilesReady == \A s \in Slots : Expected(s) => disk[s].dst # NoFile

\* resolveWAFBundleAuth: an error when the Secret is missing or of the wrong shape.
AuthError(s) == Source(s).secret /\ secret = "bad"
Auth(s) == IF Source(s).secret /\ secret # "bad" THEN secret ELSE "none"

\* resolvePLMBundleStatus returns nil unless the bundle is ready.
resolvePLMBundleStatus(s) == plm[Source(s).ref].state = "ready"

Unresolved(s) == Expected(s) /\ (IF IsPLM(s) THEN ~resolvePLMBundleStatus(s) ELSE AuthError(s))

\* A file that is there is current for a remote source; PLM publishes the checksum.
bundleNeedsFetch(s) ==
  IF IsPLM(s) THEN disk[s].dst # plm[Source(s).ref].sha ELSE disk[s].dst = NoFile

buildFetchRequest(s) ==
  [type |-> Source(s).type, kind |-> KindOf(s), server |-> Source(s).server,
   auth |-> Auth(s), name |-> Source(s).name, badClient |-> FALSE,
   retries |-> Source(s).retries, verify |-> Source(s).verify, expected |-> NoHash,
   lastHash |-> NoHash, etag |-> NoHash, url |-> TRUE]

plmFetchRequest(s) ==
  [type |-> "PLM", kind |-> KindOf(s), expected |-> plm[Source(s).ref].sha,
   url |-> plm[Source(s).ref].location]

FetchRequest(s) == IF IsPLM(s) THEN plmFetchRequest(s) ELSE buildFetchRequest(s)

-----------------------------------------------------------------------------
(* The poller.                                                               *)

\* The policy bundle is polled without credentials when they do not resolve, a log
\* profile is not polled then.
buildPollSources ==
  [s \in Slots |->
     IF Expected(s) /\ IsRemote(s) /\ Source(s).polling /\ (s = 1 \/ ~AuthError(s))
     THEN [kind |-> "poll", req |-> buildFetchRequest(s), disabled |-> FALSE]
     ELSE NoPoll]

\* The state that polls keep is not compared; a disabled source differs from a new one.
pollSourcesEqual(old, new) ==
  \A s \in Slots :
    \/ old[s] = NoPoll /\ new[s] = NoPoll
    \/ /\ old[s] # NoPoll /\ new[s] # NoPoll
       /\ ~old[s].disabled
       /\ [old[s].req EXCEPT !.lastHash = NoHash, !.etag = NoHash] = new[s].req

Cancelled(ts) ==
  [i \in DOMAIN ts |-> IF ts[i].kind = "poll" THEN [ts[i] EXCEPT !.cancelled = TRUE] ELSE ts[i]]

NoPoller == [running |-> FALSE, sources |-> [s \in Slots |-> NoPoll]]

\* ReconcilePoller, or StopPoller when there is nothing to poll: [poller, tasks].
reconcileBundlePoller(ts) ==
  LET sources == buildPollSources
  IN IF \A s \in Slots : sources[s] = NoPoll
     THEN [poller |-> NoPoller, tasks |-> Cancelled(ts)]
     ELSE IF poller.running /\ pollSourcesEqual(poller.sources, sources)
     THEN [poller |-> poller, tasks |-> ts]
     ELSE [poller |-> [running |-> TRUE, sources |-> sources], tasks |-> Cancelled(ts)]

-----------------------------------------------------------------------------
(* syncPolicy.                                                               *)

NewTask(kind, s, req) ==
  [kind |-> kind, slot |-> s, req |-> req, pc |-> "fetch", data |-> NoFile, etag |-> NoHash,
   target |-> "none", shared |-> FALSE, cancelled |-> FALSE]

\* The slots are visited in order, up to the first whose fetch is started; nothing else is
\* looked at while the policy bundle cannot be resolved.
syncWAFBundleSource ==
  LET Launches(s) == Expected(s) /\ ~Unresolved(s) /\ bundleNeedsFetch(s)
      visited == {s \in Slots : \A t \in 1..(s - 1) :
                    ~Launches(t) /\ ~(t = 1 /\ Unresolved(t))}
  IN [launched |-> {s \in visited : Launches(s)},
      warning |-> \E s \in visited : Unresolved(s)]

\* addWAFConfig: a bundle that is not there makes the policy an error, and the requests
\* are answered with 500.
ConfFor(files) ==
  IF policy.exists /\ policy.valid /\ \A s \in Slots : Expected(s) => files[s].dst # NoFile
  THEN {s \in Slots : Expected(s)} ELSE {}

\* NGINX keeps what it runs when it cannot load a bundle.
Reloaded(conf, files) ==
  IF \E s \in conf : files[s].dst = Partial THEN nginx.loaded
  ELSE [s \in Slots |-> IF s \in conf THEN files[s].dst ELSE NoFile]

\* The writers of a removed file write to an inode without a name.
Detached(ts) ==
  [i \in DOMAIN ts |-> IF ts[i] # NoTask /\ ts[i].target = "dst"
                       THEN [ts[i] EXCEPT !.target = "gone"] ELSE ts[i]]

cleanupFetchedBundles(d) == [s \in Slots |-> [d[s] EXCEPT !.dst = NoFile]]

\* State, reason and the bundle warnings of syncPolicyBundle and syncLogBundle.
PolicyState(warning) ==
  IF ~policy.exists THEN "none"
  ELSE IF warning THEN "Warning"
  ELSE IF ~policy.valid THEN "Invalid"
  ELSE IF hasBundleSource /\ ~bundleFilesReady THEN "Warning"
  ELSE "Valid"

\* A policy with bundles: fetches and poller; any other: StopPoller and cleanup.  Then the
\* resources that use the policy are generated, and NGINX is reloaded.
syncPolicy ==
  /\ queue # << >> /\ Head(queue) = <<"policy">>
  /\ LET sync == syncWAFBundleSource
         free == {i \in DOMAIN tasks : tasks[i] = NoTask}
         id == CHOOSE i \in free : \A j \in free : i <= j
         launched == [i \in DOMAIN tasks |->
                        IF sync.launched # {} /\ i = id
                        THEN LET s == CHOOSE t \in sync.launched : TRUE
                             IN NewTask("fetch", s, FetchRequest(s))
                        ELSE tasks[i]]
         rec == IF hasBundleSource THEN reconcileBundlePoller(launched)
                ELSE [poller |-> NoPoller, tasks |-> Detached(Cancelled(tasks))]
         files == IF hasBundleSource THEN disk ELSE cleanupFetchedBundles(disk)
         conf == ConfFor(files)
     IN /\ sync.launched # {} => free # {}   \* bound: MaxTasks
        /\ poller' = rec.poller
        /\ tasks' = rec.tasks
        /\ disk' = files
        /\ nginx' = [conf |-> conf, loaded |-> Reloaded(conf, files)]
        /\ status' = PolicyState(hasBundleSource /\ sync.warning)
  /\ queue' = Tail(queue)
  /\ UNCHANGED <<workload, external, races>>

\* Under PLM, syncAppProtectPolicy and syncAppProtectLogConf enqueue the policies that
\* refer to the resource.
syncAppProtect ==
  /\ queue # << >> /\ Head(queue)[1] = "ap"
  /\ queue' = IF policy.exists /\ \E s \in Slots : IsPLM(s) /\ Source(s).ref = Head(queue)[2]
              THEN Enqueue(Tail(queue), <<"policy">>) ELSE Tail(queue)
  /\ UNCHANGED <<workload, external, disk, tasks, poller, status, nginx, races>>

-----------------------------------------------------------------------------
(* The goroutines.                                                           *)

WithStatus(st) == status' = IF policy.exists THEN st ELSE status

Done(i) == tasks' = [tasks EXCEPT ![i] = NoTask]

Outcomes(t) ==
  IF t.cancelled THEN {Outcome("transient")}
  ELSE IF t.req.type = "PLM" THEN fetchS3Object(t.req, store)
  ELSE HTTPFetch(t.req, servers[t.req.server])

\* A permanent error ends the polls of the source, until the poller is replaced.
DisableSource(t, o) ==
  IF t.kind = "poll" /\ ~t.cancelled /\ isNonTransient(o)
  THEN [poller EXCEPT !.sources[t.slot].disabled = TRUE] ELSE poller

ETagOf(t) ==
  IF t.req.type # "PLM" /\ servers[t.req.server].etags THEN servers[t.req.server].body
  ELSE NoHash

\* performInitialFetch and pollSource, up to the answer.
Fetch(i) ==
  /\ tasks[i] # NoTask /\ tasks[i].pc = "fetch"
  /\ \E o \in Outcomes(tasks[i]) :
       IF IsError(o)
       THEN /\ WithStatus("Warning")
            /\ poller' = DisableSource(tasks[i], o)
            /\ Done(i)
            /\ UNCHANGED queue
       ELSE IF o.kind = "unchanged"
       THEN /\ queue' = IF tasks[i].kind = "fetch" THEN Enqueue(queue, <<"policy">>) ELSE queue
            /\ Done(i)
            /\ UNCHANGED <<status, poller>>
       ELSE /\ tasks' = [tasks EXCEPT ![i].pc = "open", ![i].data = o.data,
                                      ![i].etag = ETagOf(tasks[i])]
            /\ UNCHANGED <<status, poller, queue>>
  /\ UNCHANGED <<workload, external, disk, nginx, races>>

Writers(s) == {j \in InFlight : tasks[j].slot = s /\ tasks[j].pc = "write"}

\* The bundle is written in place.
OpenTemp_bug(i) ==
  /\ tasks[i] # NoTask /\ tasks[i].pc = "open"
  /\ disk' = [disk EXCEPT ![tasks[i].slot].dst = Partial]
  /\ tasks' = [tasks EXCEPT ![i].pc = "write", ![i].target = "dst"]
  /\ UNCHANGED <<workload, external, queue, poller, status, nginx, races>>

\* os.WriteFile opens and truncates the temporary file, which another task may be writing.
OpenTemp(i) ==
  /\ tasks[i] # NoTask /\ tasks[i].pc = "open"
  /\ LET s == tasks[i].slot
         others == {j \in Writers(s) : tasks[j].target = "tmp"}
         renaming == {j \in InFlight : tasks[j].slot = s /\ tasks[j].pc = "rename"}
     IN /\ disk' = [disk EXCEPT ![s].tmp = Partial]
        /\ tasks' = [j \in DOMAIN tasks |->
                       IF j = i THEN [tasks[i] EXCEPT !.pc = "write", !.target = "tmp",
                                                      !.shared = others # {}]
                       ELSE IF j \in others THEN [tasks[j] EXCEPT !.shared = TRUE]
                       ELSE tasks[j]]
        /\ races' = IF others \cup renaming # {} THEN races \cup {"overlap"} ELSE races
  /\ UNCHANGED <<workload, external, queue, poller, status, nginx>>

\* The bytes go to the inode that was opened, wherever its name is by now.
WriteTemp(i) ==
  /\ tasks[i] # NoTask /\ tasks[i].pc = "write"
  /\ \E c \in {tasks[i].data} \cup (IF tasks[i].shared THEN {Partial} ELSE {}) :
       disk' = CASE tasks[i].target = "tmp" -> [disk EXCEPT ![tasks[i].slot].tmp = c]
                 [] tasks[i].target = "dst" -> [disk EXCEPT ![tasks[i].slot].dst = c]
                 [] tasks[i].target = "gone" -> disk
  /\ tasks' = [tasks EXCEPT ![i].pc = "rename", ![i].target = "none"]
  /\ UNCHANGED <<workload, external, queue, poller, status, nginx, races>>

\* os.Rename; the open files of the other writers move with the names.
Renamed(s, ts) ==
  [j \in DOMAIN ts |->
     IF ts[j] = NoTask \/ ts[j].slot # s THEN ts[j]
     ELSE [ts[j] EXCEPT !.target = CASE @ = "tmp" -> "dst" [] @ = "dst" -> "gone" [] OTHER -> @]]

\* A poll keeps the checksum and the ETag for the next request.
Remember(t) ==
  IF t.kind = "poll" /\ ~t.cancelled
  THEN LET req == poller.sources[t.slot].req
       IN [poller EXCEPT !.sources[t.slot].req =
             [req EXCEPT !.lastHash = t.data, !.etag = IF t.etag # NoHash THEN t.etag ELSE req.etag]]
  ELSE poller

RaceOf(t) ==
  IF t.cancelled THEN {"late"}
  ELSE IF t.kind = "fetch" /\ poller.sources[t.slot] # NoPoll
            /\ poller.sources[t.slot].req.lastHash \notin {NoHash, t.data}
  THEN {"overtaken"} ELSE {}

RenameTemp(i) ==
  /\ tasks[i] # NoTask /\ tasks[i].pc = "rename"
  /\ LET t == tasks[i]
         s == t.slot
     IN IF disk[s].tmp = NoFile
        THEN /\ Done(i)
             /\ IF t.kind = "fetch" THEN WithStatus("Warning") ELSE UNCHANGED status
             /\ UNCHANGED <<disk, poller, races>>
        ELSE /\ disk' = [disk EXCEPT ![s] = [dst |-> disk[s].tmp, tmp |-> NoFile]]
             /\ tasks' = [Renamed(s, tasks) EXCEPT ![i] = [t EXCEPT !.pc = "report"]]
             /\ poller' = Remember(t)
             /\ races' = races \cup RaceOf(t)
             /\ UNCHANGED status
  /\ UNCHANGED <<workload, external, queue, nginx>>

\* The policy is enqueued by polls only.
Report_bug(i) ==
  /\ tasks[i] # NoTask /\ tasks[i].pc = "report"
  /\ IF tasks[i].kind = "fetch" THEN WithStatus("Valid") ELSE UNCHANGED status
  /\ queue' = IF tasks[i].kind = "poll" /\ ~tasks[i].cancelled
              THEN Enqueue(queue, <<"policy">>) ELSE queue
  /\ Done(i)
  /\ UNCHANGED <<workload, external, disk, poller, nginx, races>>

\* The policy is not enqueued after a poll.
Report_poll_bug(i) ==
  /\ tasks[i] # NoTask /\ tasks[i].pc = "report"
  /\ IF tasks[i].kind = "fetch" THEN WithStatus("Valid") ELSE UNCHANGED status
  /\ queue' = IF tasks[i].kind = "fetch" THEN Enqueue(queue, <<"policy">>) ELSE queue
  /\ Done(i)
  /\ UNCHANGED <<workload, external, disk, poller, nginx, races>>

\* The initial fetch sets the status to Valid and enqueues the policy; a poll enqueues it
\* after the reload delay, unless it was cancelled in the meantime.
Report(i) ==
  /\ tasks[i] # NoTask /\ tasks[i].pc = "report"
  /\ IF tasks[i].kind = "fetch" THEN WithStatus("Valid") ELSE UNCHANGED status
  /\ queue' = IF tasks[i].kind = "fetch" \/ ~tasks[i].cancelled
              THEN Enqueue(queue, <<"policy">>) ELSE queue
  /\ Done(i)
  /\ UNCHANGED <<workload, external, disk, poller, nginx, races>>

\* A ticker of the poller; one poll at a time.
Tick(s) ==
  /\ poller.running /\ poller.sources[s] # NoPoll /\ ~poller.sources[s].disabled
  /\ \A i \in InFlight : tasks[i].kind = "poll" => tasks[i].cancelled
  /\ LET free == {i \in DOMAIN tasks : tasks[i] = NoTask}
         id == CHOOSE i \in free : \A j \in free : i <= j
     IN /\ free # {}   \* bound: MaxTasks
        /\ tasks' = [tasks EXCEPT ![id] = NewTask("poll", s, poller.sources[s].req)]
  /\ UNCHANGED <<workload, external, queue, disk, poller, status, nginx, races>>

-----------------------------------------------------------------------------
(* The outside world.                                                        *)

Change(v) == changes < workload.maxChanges /\ changes' = changes + 1

ChangePolicy ==
  /\ Change(policy)
  /\ \E p \in workload.policies \ {policy} : policy' = p
  /\ queue' = Enqueue(queue, <<"policy">>)
  /\ UNCHANGED <<workload, secret, servers, plm, store, disk, tasks, poller, status, nginx, races>>

ChangeServer ==
  /\ Change(servers)
  /\ \E u \in DOMAIN servers : \E a \in workload.answers[u] \ {servers[u]} :
       servers' = [servers EXCEPT ![u] = a]
  /\ UNCHANGED <<workload, policy, secret, plm, store, queue, disk, tasks, poller, status,
                 nginx, races>>

\* The update handlers compare .status.bundle.
ChangePLM ==
  /\ Change(plm)
  /\ \E r \in DOMAIN plm : \E b \in workload.bundles[r] \ {plm[r]} :
       /\ plm' = [plm EXCEPT ![r] = b]
       /\ queue' = Enqueue(queue, <<"ap", r>>)
  /\ UNCHANGED <<workload, policy, secret, servers, store, disk, tasks, poller, status,
                 nginx, races>>

\* A Secret of the sources is not followed by a sync of the policy.
ChangeSecret ==
  /\ Change(secret)
  /\ \E c \in workload.secrets \ {secret} : secret' = c
  /\ UNCHANGED <<workload, policy, servers, plm, store, queue, disk, tasks, poller, status,
                 nginx, races>>

policyNeedsPLMBundleFetch ==
  \E s \in Slots : IsPLM(s) /\ resolvePLMBundleStatus(s) /\ bundleNeedsFetch(s)

\* enqueuePoliciesUsingPLMStorage, in the handler of the storage Secrets.
ChangeStorage ==
  /\ Change(store)
  /\ \E c \in workload.stores \ {store} : store' = c
  /\ queue' = IF policy.exists /\ policyNeedsPLMBundleFetch
              THEN Enqueue(queue, <<"policy">>) ELSE queue
  /\ status' = IF policy.exists /\ \E s \in Slots : IsPLM(s) /\ ~resolvePLMBundleStatus(s)
               THEN "Warning" ELSE status
  /\ UNCHANGED <<workload, policy, secret, servers, plm, disk, tasks, poller, nginx, races>>

-----------------------------------------------------------------------------
Init ==
  /\ workload \in Workloads
  /\ policy = workload.policy
  /\ secret = workload.secret
  /\ servers = workload.servers
  /\ plm = workload.plm
  /\ store = workload.store
  /\ queue = IF workload.policy.exists THEN << <<"policy">> >> ELSE << >>
  /\ disk = [s \in DOMAIN workload.policy.sources |-> [dst |-> NoFile, tmp |-> NoFile]]
  /\ tasks = [i \in 1..MaxTasks |-> NoTask]
  /\ poller = [running |-> FALSE, sources |-> [s \in DOMAIN workload.policy.sources |-> NoPoll]]
  /\ status = "none"
  /\ nginx = [conf |-> {}, loaded |-> [s \in DOMAIN workload.policy.sources |-> NoFile]]
  /\ races = {}
  /\ changes = 0

Step(i) == Fetch(i) \/ OpenTemp(i) \/ WriteTemp(i) \/ RenameTemp(i) \/ Report(i)

World == ChangePolicy \/ ChangeServer \/ ChangePLM \/ ChangeSecret \/ ChangeStorage

Next ==
  \/ syncPolicy
  \/ syncAppProtect
  \/ \E i \in DOMAIN tasks : Step(i)
  \/ \E s \in Slots : Tick(s)
  \/ World

\* The worker of the queue and every goroutine go on, and so do the tickers.
Fairness ==
  /\ WF_vars(syncPolicy) /\ WF_vars(syncAppProtect)
  /\ \A i \in 1..MaxTasks : WF_vars(Step(i))
  /\ \A s \in 1..2 : WF_vars(s \in Slots /\ Tick(s))

Spec == Init /\ [][Next]_vars /\ Fairness

-----------------------------------------------------------------------------
(* Properties.                                                               *)

Idle == queue = << >> /\ InFlight = {}

\* A config that names a fetched bundle finds it on disk: cleanupFetchedBundles never takes a
\* file away from under a config that stays (syncPolicy).  A bundle file is never seen
\* half-written, as the comment of writeAtomic says, unless two tasks had the temporary file
\* open.
NamedBundlesWhole ==
  /\ \A s \in nginx.conf : disk[s].dst # NoFile
  /\ "overlap" \notin races => \A s \in Slots : disk[s].dst # Partial

\* At rest the policy, the disk and NGINX agree: a policy that is reported Valid has all its
\* bundles (bundleFilesReady); no bundle outlives its policy, as a fetch that ends after the
\* policy was deleted enqueues it once more (cleanupFetchedBundles); NGINX runs the bundles that
\* are on disk, as every write is followed by a sync but that of a poll which was cancelled
\* (syncCb, AddSyncQueue); and the bundles that PLM published last are loaded, in whatever order
\* the fetches of earlier versions came back (bundleNeedsFetch, performInitialFetch).
AgreeAtRest ==
  Idle =>
    /\ status = "Valid" /\ policy.exists => bundleFilesReady
    /\ "late" \notin races => \A s \in Slots : disk[s].dst # NoFile => hasBundleSource
    /\ races \cap {"overlap", "late"} = {} =>
         /\ \A s \in nginx.conf : nginx.loaded[s] = disk[s].dst
         /\ policy.exists /\ policy.valid /\ status = "Valid" =>
              \A s \in Slots : IsPLM(s) /\ resolvePLMBundleStatus(s) =>
                disk[s].dst = plm[Source(s).ref].sha /\ nginx.loaded[s] = disk[s].dst

\* Polling catches up: when in the end the policy polls a source that answers, and no
\* permanent error ended the polls, NGINX runs the bundle of the source (pollSource).
Polled(s) == /\ Expected(s) /\ IsRemote(s) /\ Source(s).polling /\ policy.valid
             /\ servers[Source(s).server].replies = {"ok"}
             /\ \A t \in Slots : poller.sources[t] # NoPoll => ~poller.sources[t].disabled

PollingCatchesUp ==
  (<>[](\A s \in Slots : Polled(s)) /\ [](races = {}))
    => <>[](\A s \in Slots : Polled(s) /\ nginx.loaded[s] = servers[Source(s).server].body)

-----------------------------------------------------------------------------
(* What the documentation says.                                              *)

\* "When false, the bundle is fetched once on policy creation or update": after an update
\* of the policy the bundle on disk is one of the source that it names.
FetchedOnUpdate ==
  Idle /\ policy.exists /\ policy.valid /\ status = "Valid" =>
    \A s \in Slots : Expected(s) /\ IsRemote(s) => disk[s].dst \in workload.contents[Source(s).server]

\* "EnablePolling enables background polling to automatically detect and fetch updated
\* bundles": a well-formed update does not end the polls of its source.
UpdatesArePolled ==
  \A s \in Slots : poller.sources[s] # NoPoll => ~poller.sources[s].disabled

\* "This prevents partial writes or reads of incomplete bundle files": no exception.
NeverPartial == \A s \in Slots : disk[s].dst # Partial
=============================================================================
