# A formal model of the NGINX Ingress Controller

The NGINX Ingress Controller watches Ingress, VirtualServer, VirtualServerRoute,
TransportServer, Policy and other objects, decides which of them serve which hosts and
listeners, writes NGINX config files, reloads NGINX, and reports to the owners of the
objects. This directory holds TLA+ modules that model that path, TLC runs that check
them on small clusters, and proofs checked by TLAPS. Source paths are relative to `src/`.

## 1. The system

| Part | State | Operations | Where |
|---|---|---|---|
| Informers and work queue | a set of keys, deduplicated | enqueue on each event; one worker takes a key | `internal/k8s/handlers.go`, `task_queue.go` |
| Controller | readiness, batch sync, deferred statuses | `sync` and one handler per kind | `internal/k8s/controller.go` |
| Configuration | valid objects; owners of hosts and listeners; problems | AddOrUpdate / Delete per kind, `CompleteStartup` | `internal/k8s/configuration.go` |
| Validation | none | accept or refuse a resource or an annotation | `pkg/apis/configuration/validation`, `internal/k8s/validation.go` |
| Generators | none | from a resource to upstreams, locations, policies | `internal/configs/{virtualserver,ingress,policy,annotations,configmaps}.go` |
| Configurator | what was generated per resource, ConfigMap parameters | AddOrUpdate / Delete, `UpdateConfig`, endpoints and weights over the Plus API | `internal/configs/configurator.go` |
| Managers | config files, backups, the startup batch | create, delete, test, reload, isolate | `internal/nginx/manager.go`, `rollback_manager.go` |
| Status updater, leader election | addresses, last statuses, leadership | update one, flush the deferred ones, the leader's callback | `internal/k8s/status.go`, `leader.go` |
| Namespace watcher | informers per namespace | watch, unwatch and clean up | `internal/k8s/namespace.go` |
| Secret store | secrets, their files, their validity | add, delete, get (writes lazily) | `internal/k8s/secrets` |
| App Protect WAF and DoS | objects with verdicts that depend on each other | sync; regenerate the resources that refer to them | `internal/k8s/appprotect*` |
| WAF bundle poller | fetched files, tickers, goroutines | fetch, poll, replace a file | `internal/configs/wafbundle` |
| cert-manager, ExternalDNS | caches and queues of their own | keep a Certificate, a DNSEndpoint | `internal/certmanager`, `internal/externaldns` |

One event goes this way: informer -> queue -> `sync` -> the Configuration, which
returns *changes* and *problems* -> the Configurator writes a file per change -> the
manager tests it and reloads NGINX -> a status is written. `PROJECT.json` lists every
part, modelled or not, and the hazards with the line where each one bites.

What is hard here:

- Ownership of a host is global. One event can change the files of many objects, and
  the changes are applied one at a time while NGINX runs.
- Startup is special. Host decisions, files and statuses are deferred until the queue
  drains once; then everything is built, tested as a batch, and the statuses are
  flushed by another goroutine.
- With config safety NGINX may refuse any single file. The manager rolls back or
  isolates, the readiness gate holds the pod back when nothing works, and a later
  success must let it through.
- When events pile up, reloads are off until the queue drains, and ConfigMap changes
  are put off to the same moment.
- Stored state is compared with new state by a few fields only.
- A change of a Secret, a Policy, an EndpointSlice or an App Protect object reaches a
  resource only if the controller finds that the resource depends on it.
- Several writers share something: fetches and polls a bundle file, handlers and the
  worker the weights in NGINX, replicas with caches that lag the objects of the API.

What makes the system correct: a host is served by the oldest object that claims it;
each file is generated from the current objects; each object is active or has a
problem, and its status says which; a working set of files is never broken; what is
reported as applied is what NGINX runs; a Ready pod serves something; what validation
accepts does what it says; after the last change the system gets to the state the
objects ask for.

## 2. Modules

| Module | Models |
|---|---|
| `Configuration` | the Configuration and its operations, as actions on 13 variables |
| `Controller` | extends it with cluster, queue, worker, files, statuses, namespaces and the flush; NGINX accepts everything |
| `RollbackManager` | `ConfigRollbackManager` over files that NGINX may refuse, and its own specification with an arbitrary client |
| `ConfigSafety` | extends it with the Configurator, `UpdateConfig`, the readiness gate, batch sync and the worker; every resource is active |
| `Secrets`, `SecretStore`, `SecretService` | the secret store: its operations, the store with any caller, and the abstract specification it implements |
| `Policies`, `Contexts` | what policies do to a context; from a resource to the policies, secrets and locations of its config file (functions) |
| `References` | Secrets and Policies change under the resources: `syncSecret`, `syncPolicy`, the sync of a resource, reloads |
| `BundleFetch`, `Bundles` | how a WAF bundle is fetched from four kinds of sources; `syncPolicy` with fetches, pollers and files, one step per file operation |
| `AppProtectConfiguration`, `AppProtectDosConfiguration`, `AppProtect` | the two in-memory configurations; the syncs around them with files, configs and reloads |
| `StatusUpdater`, `ExternalDNS`, `CertManager`, `Operations` | statuses and their addresses; the two other controllers; replicas of all three with caches that lag, lost writes and a lease |
| `Endpoints`, `ParsingHelpers`, `IngressAnnotations`, `ConfigMapParams`, `EndpointSync` | upstream servers; texts and how they are read; annotations and the ConfigMap; the syncs that bring them to NGINX by a reload or the Plus API |
| `ProxyBuffers`, `VirtualServerValidation`, `VirtualServerRoutes`, `VirtualServerGeneration`, `VirtualServerRouting`, `VirtualServerSync` | VirtualServers: validation, the balancing of proxy buffers, which routes are collected, the generated routing, what NGINX does with it, and the syncs and handlers |
| `MCController`, `MCRollbackManager`, `MCConfigSafety`, `MCReferences`, `MCBundles`, `MCAppProtect`, `MCOperations`, `MCEndpoints`, `MCVirtualServers` | small instances for TLC |
| `ControllerProofs`, `VersionProofs`, `CollisionProofs` | theorems about `Configuration` and `Controller`; the last two extend the first |
| `ConfigSafetyProofs`, `AppliedProofs`, `SecretStoreProofs`, `BundlesProofs` | theorems about `RollbackManager` and `ConfigSafety` (the first two), `SecretStore`, `Bundles`; those about `ProxyBuffers` are in the module itself |

The system is cut at the places where one part uses only a little of another.
`Controller` answers *which* resource gets which file; `ConfigSafety` answers what
happens to a file on its way to NGINX; the others answer what is *in* the file, and
whether it is kept current when something it depends on changes. All have the queue and
the one worker.

### Configuration and Controller

An object is a record of the fields the code compares: key, creation time, UID,
generation, the verdict of the validator (`check`), the hosts, roles, routes and
listeners, and a `body` for the rest. A config file is what it was generated from, so
a file made from an old version differs from one made from the current version.

The operations of the Configuration (`AddOrUpdateIngress`, `DeleteVirtualServer`, ...)
change the stores and end, as in the code, in a rebuild: `rebuildHosts`,
`rebuildListenerHosts` or both. The rebuild compares old and new maps with the code's
`IsEqual` (namespace, name, generation, and what each kind adds), squashes the changes
per resource, and returns only the problems that are new. `sync` is several steps: take
a key, apply it, then one step per change, then the problems, then the end of the sync
with the startup block, so the states between two changes of one event are visible.
`FlushStatus` is the goroutine that writes the deferred statuses.

### RollbackManager and ConfigSafety

A set of files is a function from paths to contents. `Accepts(tree)` stands for
`nginx -t`, `Errors(tree)` for the paths its message may name; both are constants, so
the proofs hold for any verdicts that meet the assumption below. The operations of the
manager are functions from its state to a new state and an error flag, because the
Configurator makes several calls in one step. `isolateBadConfigs` is one step per
iteration: exclude the file the message names, or else one a binary search finds; when
a file cannot be removed, or nothing of the batch is left to blame, remove the batch, as
far as it can be removed. `RollbackFails` is a write whose rollback fails: the backup cannot
be written, or NGINX refuses the files with the backup as well. `manager.diskFault` notes
that this happened, or that a file of the batch could not be removed.

`ConfigSafety` names a resource by its file. A file is rendered from the spec, the
ConfigMap's parameters and the port of the listener. An Ingress with the empty host
writes the default server instead. `pc` says where `sync` is; `UpdateConfig` has a step
for the main config, the resources, the isolation and the end. With
`isRollbackManager = FALSE` the same module runs over the plain `LocalManager`. The history
variable `unloaded` holds the resources that were told that they are applied by an update
that gave up, or before a reload that failed (section 4).

### Secrets, Policies and References

The secret store validates what the informers deliver, hands out references (path,
error, secret) and writes a file when a reference is first asked for. `SecretService`
says what callers may rely on; `SecretStore` implements it (`ServiceProvided`, checked
and proved). `Policies` and `Contexts` are the generator: which secrets are loaded for
it, what each policy adds to a server or a location, when a context answers 500 instead,
what routes and minions inherit. `References` puts the two under one worker, with the
special secrets of the command line and what NGINX has read at the last reload.

### Bundles

A fetch is a goroutine of five steps (fetch, open the temporary file, write, rename,
report) between the steps of the worker and of other fetches of the same file. A server
is the set of its possible answers. `races` is a history variable: two tasks had the
temporary file open ("overlap"), a cancelled poll replaced a file ("late"), an initial
fetch replaced what a poll wrote ("overtaken").

### AppProtect

`AppProtectConfiguration` keeps policies, log configurations and user signatures with
their verdicts: two signatures of one tag exclude each other, the older one is valid, and
a policy is valid when its required signatures are there in the required revision.
`AppProtect` adds the files, the configs that name them, reloads, batches and namespaces
that are unwatched. The history variable `stray` notes that the deletion of a signature
was synced which the controller had never seen.

### Operations

A replica has a controller with its lister caches, queue and lease, and the ExternalDNS
and cert-manager controllers with theirs. Every cache is filled one version at a time.
A status update of an outdated copy is refused and repeated on a fresh one. Users change
objects and sources of addresses, remove the `external-status-address` key, and create and
delete Certificates and DNSEndpoints of their own under the names the controllers use. The
history variable `lapsed` holds the objects whose status was last written (or not) from an
outdated copy or event, by a former leader that had not seen a change of the cluster, or by
a write that failed; `api.past` holds the addresses the key has had, `api.vacated` the names
that an object of somebody else has left.

### Endpoints, annotations and the ConfigMap

The validators and the readers of annotations are two tables in the model because they
are two tables in the code. A text is one of a small vocabulary of classes.
`EndpointSync` has the cluster, the informers' caches and the queue, and starts with the
zone-sync Service that `main` creates; `missed` holds the resources whose endpoints changed
without a task, or with the task of a deleted EndpointSlice, which does nothing; `miscounted`
says that the replicas were counted from a part of the controller's Service, `late` that
zone-sync was switched at the end of a batch, `panicked` that a nil ConfigMap was
dereferenced.

### VirtualServers

`VirtualServerValidation` to `VirtualServerGeneration` are functions from resources to
a verdict, to the collected routes, and to the generated upstreams, locations, maps and
split clients with the indices of the code. `VirtualServerRouting` states what NGINX
does with the result and what the resource asks for. `VirtualServerSync` adds users,
handlers that change weights through the API beside the worker, and the worker; `lost`
notes that a change of weights met a gap of their handling (section 4).

### Mutants

A definition whose name ends in `_bug` is a plausible mistake in the definition it is
named after. Nothing uses them. Put in place of the correct definition, each makes the
property it is listed with in `PROJECT.json` fail.

## 3. Runs that pass

| Run | Distinct states | Properties | What it shows |
|---|---|---|---|
| `Conflicts` | 524k | `ActiveXorProblem`, `HostServedByOldest`, `StatusAccurate`, `FilesReflectConfiguration`, `NoListenerCollision`, `UnwatchedLeavesNothing`, `HostTakenOnlyByOlder` | Five clusters in every order of events: objects that compete for hosts, through startup; a master and its minions; TCP and HTTP listeners that the GlobalConfiguration moves; a namespace that loses its watch label, or is deleted. The oldest serves, files, statuses and problems keep up, and an unwatched namespace leaves nothing behind. |
| `Convergence` | 98k | `RebuiltAfterStartup`, `NoHostCollision`, `Converges` | A VirtualServer with a route and cert-manager's solver Ingress, and TLS passthrough through startup, with a flush that overlaps the worker: no two files claim a host, every event is eventually synced and every deferred status written. |
| `Rollback` | 34k | `OnlyCulpritsExcluded`, `WorkingTreeKept`, `IsolationTerminates` | Any client writes good and bad contents in any order, through the startup batch, with rollbacks and removals that fail: only a delete takes a file of a working tree away, a rollback that fails costs its own file at most, isolation excludes only files at fault, and it ends. |
| `Safety` | 557k | `AppliedIsLoaded`, `ReadyFilesAreValid`, `ServedStaysServed`, `ReadyServesSomething` | An Ingress that may take the empty host and a VirtualServer that NGINX may refuse, created, changed and deleted at any time, ConfigMaps that break files, batches, startup and its gate, over both managers: what is reported as applied is what NGINX runs, a pod gets Ready with valid files, keeps them and serves something, and what is served stays served. |
| `Recovery` | 94k | `Recovers` | TransportServers that follow their listeners, ConfigMaps that break every server or do not parse, removals that fail in isolation and the replay after them: NGINX runs the final state of the cluster once that is acceptable. |
| `References` | 76k | `ConfigsCurrent`, `LoadedCurrent`, `PoliciesInForce`, `ServiceProvided` | Secrets and Policies of every kind change under Ingresses, minions, VirtualServers, routes and TransportServers, before and after startup: no config file and no file NGINX has read stays outdated, no location is open that a policy should guard. |
| `Bundles` | 207k | `AgreeAtRest`, `NamedBundlesWhole`, `PollingCatchesUp` | A Policy whose bundles come from HTTPS, NGINX One Console, Instance Manager or PLM, with sources that fail, change and are replaced during fetches and polls: NGINX never loads part of a bundle, statuses, files and polls agree at rest, and a poll catches up with its source. |
| `AppProtect` | 35k | `VerdictsCanonical`, `NamedFilesExist`, `CurrentWhenIdle` | Objects come, change, turn invalid and go: verdicts do not depend on the order of events, no config names a missing file, an idle controller is current. |
| `Operations` | 203k | `StatusCurrent`, `DependentsCurrent`, `OthersUntouched`, `Settles` | One or two replicas with caches that lag, lost writes and a lease that changes hands, and others who use the same names: statuses, DNSEndpoints and Certificates follow the objects, objects of others are left alone (but for one delete, section 4), and the replicas come to rest. |
| `Endpoints` | 264k | `EndpointsCurrent`, `RunningIsWritten`, `AnnotationsHonoured`, `ConfigMapInForce`, `ZoneSyncServed` | Services, EndpointSlices, Pods, Ingresses and the ConfigMap change, one by one or in batches, with NGINX and NGINX Plus; every annotation and key with every class of text, with and without auto-adjust: an idle controller runs what it has written, and that is what the cluster asks for, with rate limits divided by the active replicas. |
| `VirtualServers` | 64k | `RoutesFollowSpec`, `AcceptedLoads`, `WeightsInForce` | VirtualServers and routes of many shapes, with and without the auto-adjust of proxy buffers, and edits of them while handlers change weights beside the worker: what validation accepts loads, requests are answered as the routes say, and the weights are in force. |

### Bounds

A run holds several clusters: `workload`, chosen in the initial state from the constant
`Workloads`, says which objects exist and what users may do to them. Within a workload
users act in any order and at any step of the worker.

- `Controller`: two hosts, because a host is taken from one object and given to another;
  three objects that compete, so that the loser of one conflict can be the winner of the
  next; two listeners. Two versions of an object, because the code compares a version
  with the one before it. A UID is used once, so the UIDs of a key bound how often it is
  created. Two Ingresses have the same creation second, so the UID decides; the
  passthrough TransportServer has two UIDs, so it can be recreated younger than its rival.
- `RollbackManager`: three resource files, so that a binary search has uneven halves.
  `ConfigSafety`: two resources; `sharedInputFailureThreshold` is 2 as in the code, so two
  failing resources reach it (a third one that is skipped is in the proofs, and in section
  4). `MaxChanges` bounds what users change (3 in `Safety`, 2 in
  `Recovery`): break, fix, and one change of something else. `DiskFaults` lets the removal
  of a file fail during isolation, and one rollback fail; `MaxStuck` is how many files stay
  when the whole batch is removed (1 in `Rollback`; 0 in `Recovery`, see section 4).
- `References`: one or two secrets, one policy of each kind that refers to secrets, and
  the resource that uses them, with and without dynamic SSL reload.
- `Bundles`: one policy with one or two bundles, two contents per source, `MaxTasks` = 2
  goroutines, because two writers of a file suffice for every race between writers;
  `PageSize` and `MaxN1CCompilePolls` are 2, so a list has a second page and a wait ends.
- `AppProtect`: two signatures of one tag, a policy that requires it, a third object;
  three changes. `Operations`: two replicas; each workload bounds changes, failed writes,
  lost leases and how many versions a cache is behind (`lag`, 2, and 3 where a name changes hands).
- `Endpoints`: four changes (three without Plus, where fewer actions differ), two
  endpoints per Service, and for texts one representative per class the readers tell
  apart. `VirtualServers`: two edits; routes with none, one or two splits and matches;
  proxy buffer sizes from 0 to 1024m, with and without a unit, each against the defaults.
- Constants and workloads leave out what is known to break a property, so that the run
  still says something about the rest (section 4): `ReplacedUnseen` (an object deleted
  and created again between two syncs), `FlushOverlaps` (the worker takes a task during
  the startup flush). Where the gap is one moment in a history, a history variable notes
  it (`races`, `stray`, `lapsed`, `missed`, `miscounted`, `late`, `lost`, `unloaded`) and the
  property speaks of all histories without it.
- Deadlock is not checked: an idle controller in a cluster nobody changes may stop.
- No symmetry is used; objects are told apart by their age and role.

### Fairness

`Converges` and `Recovers` assume weak fairness of the worker (one goroutine in
`taskQueue.worker`, which loops until shutdown, and whose handlers do not block on each
other) and of the flush goroutine; `IsolationTerminates` of the isolation loop.
`PollingCatchesUp` assumes it of the syncs, of each started goroutine and of the
tickers. `Settles` assumes that a controller, an informer or a shim worker that can step
again and again does so, and that the garbage collector of the API server runs. Users
are never fair: they may stop or go on, within the bounds. `Converges` is checked where
users run out of moves: a GlobalConfiguration or a label that changes for ever puts off
the end of startup, which waits for an empty queue. `Recovers` is conditional: if from
some moment on the state of the cluster is one NGINX accepts, and no file is stuck, then
from some moment on the pod is Ready and NGINX runs exactly that state.

## 4. Where code and intent differ

`TwoSplits` is a run in which the code does something else than the comments and docs
quoted under `findings` say: a VirtualServer is synced and running, and one update changes
the weights of two of its splits. `processVSWeightChangesDynamicReload` advances
`splitClientsIndex` twice for the first (`internal/k8s/controller.go:4450` and `:4452`), so
the second change is written under a key that its split does not read, and NGINX keeps the
old weights (`WeightsAlwaysInForce`, which excepts the other gaps of `lost`).

Other instances of the same modules show where the limits of the passing runs are. Each
is reached by changing a constant of the `.cfg` file to another definition of the `MC`
module; where a run is named instead, the property, which is one of the run's without its
exception, is violated with the constants the run has.

| Instance | Breaks | What happens |
|---|---|---|
| `SwapWorkload` | `NoHostCollision` | Two Ingresses that swap a host have it in both files between the two changes of one sync: a squashed delete becomes an update in its place. |
| `RecreationWorkload`, `ReplacedUnseen` | `FilesReflectConfiguration`, `StatusAccurate` | An object recreated between two syncs keeps the file of the old one and gets no status: `IsEqual` compares namespace, name and generation, not the UID. |
| `SwitchWorkload` | `FilesReflectConfiguration` | A TransportServer that goes from TLS passthrough to a TCP listener loses its file: the update of the listener list is followed by the delete of the host list. |
| `HandoverWorkload` | `FilesReflectConfiguration`, `StatusAccurate` | A host that an unwatched namespace gives up goes to an object of another namespace in memory, and its file is never written: the cleanup drops the changes. |
| `FlushOverlaps` | `StatusAccurate` | The startup flush can write "Applied" over a newer status of the worker (`internal/k8s/controller.go:2175`). |
| `EarlyWorkload` | `StatusAccurate` | A TransportServer gets its listener before the pod is ready, which defers its "Applied", and loses it, which is written at once: the flush writes "Applied" last (`internal/k8s/transport_server.go:166`). |
| a TCP listener with another address and the same port | `FilesReflectConfiguration` | `IsEqual` of a TransportServer compares the port (`internal/k8s/configuration.go:365`). |
| `"port"` in `Contents` | `OnlyCulpritsExcluded` | Files that fail only together: the bisection ends at some file (`internal/nginx/rollback_manager.go:401`). |
| run `Safety` | `ReadyAlwaysServes` | A resource created while the pod is held back makes the exclusion count of the startup batch, which is not refreshed, smaller than the number of resources (`internal/k8s/controller.go:1387`): the pod gets Ready and serves nothing. `ReadyServesSomething` and `ReadyFilesAreValid` except exactly this way past the gate (`heldForConfigSafety` is still set). |
| `DiskFaults` in `Safety` | `ReadyServesSomething` | The replay does not update the exclusion count. |
| `MaxStuck = 1` in `Recovery`, `Recovers` without `~manager.diskFault` | `Recovers` | A refused file that can be removed neither alone nor with the batch makes NGINX refuse every later nginx.conf, and the update ends before the files that did go with the batch are written again. |
| `Unparsable` templates at startup | `ReadyFilesAreValid` | The manager stays in batch mode with the pod Ready. |
| TransportServers that swap ports | `Recovers` | Each is tested against the other's old file. |
| `SharedCertWorkloads` | `LoadedCurrent`, `ConfigsCurrent` | A certificate that two resources use is deleted: the file goes first, and each new config is tested while the other still names the missing file, so the first is refused and removed. |
| `AuthServiceWorkloads`, `MinionAuthWorkloads` | `AuthServiceOfPolicy`, `AuthLocationsDistinct` | The service of an external-auth policy is not looked up in the policy's namespace; two minions with one such policy give two locations with the same path. |
| `OnceWorkloads`, `VerifyWorkloads` | `FetchedOnUpdate`, `UpdatesArePolled` | The source of a policy that does not poll is replaced and not fetched; a source that is polled and verified publishes a new bundle, and its polls end. |
| `StrayWorkloads` | `AllSignaturesWritten` | The deletion of a signature the controller never stored. |
| `StateWorkloads` | `StatesKnown` | A status whose state no kind documents. |
| run `Operations` | `RemovedAddressForgotten` | The comment at `internal/k8s/status.go:296` says "if external-status-address was removed from configMap", but `syncConfigMap` (`configmap.go:100`) only passes on a key that is there: the removed address stays in the statuses. `StatusCurrent` admits a value the key has had. |
| run `Operations` | `OthersNeverDeleted` | A Certificate is deleted by name, without its uid (`internal/certmanager/sync.go:112`): one that somebody else made under a name which a lagging cache has as a VirtualServer's goes too. `OthersUntouched` excepts exactly that. |
| run `Operations` | `NeverWithout` | The handlers queue a VirtualServer for the objects it controls. When an object of somebody else leaves the name, nothing creates the VirtualServer's own (`api.vacated` in `DependentsCurrent`). |
| run `Endpoints` | `ReplicasCounted` | The replicas are compared by the ready endpoints of one EndpointSlice, and stored as all endpoints of it (`internal/k8s/controller.go:927-932`): not "the number of currently active endpoints for the service" (`:924`) when there are several slices or endpoints that are not ready (`miscounted` in `EndpointsCurrent`). |
| run `Endpoints` | `DeletedSlicesForgotten` | The task of a deleted EndpointSlice returns at once (`internal/k8s/endpoint_slice.go:76`): its addresses stay in the file until the resource is written for another reason (`missed`). |
| run `VirtualServers` | `BalancedLoads` | With auto-adjust, an upstream with sizes and no buffers is not balanced, and balanced sizes are written in gigabytes or as zero, which NGINX does not read. |
| `BackupWorkloads`, `RewriteWorkloads`, `LabelWorkloads` | `BackupsLoad`, `RewritesHonoured`, `InForce` | Accepted VirtualServers whose config does not load, does not rewrite, or keeps old weights. |
| `StartingWorkloads`, `SettingWorkloads` | `WarningsClear`, `NeverPanics` | A warning that outlives its cause; the Service of zone-sync is created when the ConfigMap that would own it is gone. |

The exceptions that a passing property makes, beside those of the table:

- `AcceptedLoads`: a backup with a default load balancing method that does not allow one, a
  path both in a VirtualServer and in one of its routes, and proxy buffers that do not fit
  and that nothing balances: auto-adjust is off, the default (`leave it broken!`,
  `internal/validation/data_types.go:328`), or the upstream has no buffers.
- `WeightsInForce`: a change of weights while the worker is busy, while other routes are
  configured than run, or together with labels, and a resource created again before its
  deletion was synced (`lost`).
- `StatusCurrent`: what `lapsed` holds. `Settles`: targets of two address families, whose
  records are compared in the order of a Go map.
- `EndpointsCurrent`: changes of Pods and of most of a Service, which no handler looks at.
  `ZoneSyncServed`: a switch at the end of a batch. `AnnotationsHonoured`: annotations that
  depend on another one, and numbers of 2^63 and more. `ConfigMapInForce`: keys whose errors
  are not reported.
- `ReadyFilesAreValid`: a pod without resources gets Ready whatever its files are.
- `NamedBundlesWhole`: two tasks that had the temporary file open. `PollingCatchesUp`: polls
  that a permanent error ended, and the three races.
- `WorkingTreeKept`: a rollback that fails (once) leaves its own file deleted or, if it is
  protected, with any content, and nothing else changed. It is modelled with any client of
  the manager; in `ConfigSafety`, where `Accepts` is a function of the files and writes
  succeed, it does not happen.

`AppliedIsLoaded` is about the resources outside `unloaded`, which notes two reports that are
not true when they are made; both need a third resource (`Order_v1_t1_t2` with `PlainSpecs`
and `PlainContents`). When two resources in a row are refused in an update of all files, the
rest and the reload are skipped, and a resource without an error of its own is told that it
is applied (`internal/configs/configurator.go:1733`, `:2016`). Without config safety a batch
ends in a reload whose error is only logged (`internal/k8s/controller.go:1419`), after the
resources of the batch were told. The second half of the property also leaves out templates
that do not parse: they end an update before the reload that the batch has waited for.

## 5. Proofs

TLAPS checks every theorem below for every value of the constants that meets the
assumptions of the modules: any number of objects, hosts, files, keys and replies, not the
small sets of the runs. Each `...Proofs` module extends
the module it is about. A hypothesis of a theorem names what breaks the property otherwise;
section 4 has the instance that shows it.

| Theorem | Module | States |
|---|---|---|
| `Invariance`, `TypeCorrect`, `MinionIndex` | `ControllerProofs` | the inductive invariant, the types, the index of the minions |
| `AlwaysRebuilt` | `ControllerProofs` | `RebuiltAfterStartup`: hosts, listeners and problems in memory are those a rebuild from the stores gives |
| `NobodyUnanswered` | `ControllerProofs` | `ActiveXorProblem`: each stored object is active or has a problem, never both |
| `HostsGoToOlder` | `ControllerProofs` | `HostTakenOnlyByOlder`: a host changes hands between live objects only to an older one |
| `MemoryCurrent` | `ControllerProofs` | `StoresCurrent`: a key that is not queued is stored as the API holds it |
| `ChangesSuffice` | `ControllerProofs` | if `IsEqual` only equates resources with the same config, an idle worker has exactly the files of the active resources (`FilesReflectConfiguration`) |
| `OldestIsServed` | `ControllerProofs` | whenever the files are those of the Configuration, each host is served by the oldest valid object that wants it (`HostServedByOldest`) |
| `GenerationsSuffice` | `VersionProofs` | generations, annotations and roles are enough for `IsEqual`, unless an object is replaced unseen |
| `FilesFollowConfiguration`, `OldestServed` | `VersionProofs` | the two together: files and owners are exact, in every workload that keeps what `IsEqual` does not look at |
| `NothingLeft` | `ControllerProofs` | `UnwatchedLeavesNothing`: nothing of an unwatched namespace stays in memory or on disk, unless it has a task |
| `StatusesTold` | `VersionProofs` | `StatusAccurate`: once all is synced and flushed, the status of each object says what became of it |
| `ListenersApart` | `CollisionProofs` | `NoListenerCollision`: no two files listen for the same listener and host, between the changes of one sync included |
| `HostsApart` | `CollisionProofs` | `NoHostCollision`: the same for hosts, where no valid Ingress has two |
| `ManagerTypeCorrect`, `ConfigSafetyHolds` | `ConfigSafetyProofs` | `WorkingTreeKept`: no call breaks a working set of files, only a delete takes one away, and a rollback that fails costs its own file |
| `ServedKept` | `ConfigSafetyProofs` | `ServedStaysServed`: what NGINX serves it serves until it is deleted |
| `ReadyIsValid` | `ConfigSafetyProofs` | `ReadyFilesAreValid`: a pod gets Ready, and stays so, with files that NGINX accepts, whatever is created meanwhile |
| `ReadyIsUseful` | `ConfigSafetyProofs` | `ReadyServesSomething`: a pod that becomes Ready serves one of its resources |
| `AppliedResourcesAreLoaded` | `AppliedProofs` | `AppliedIsLoaded`: what a resource is told to be applied is what NGINX runs, under both managers |
| `PathsHold`, `StoreImplementsService` | `SecretStoreProofs` | a path holds the secret it was handed out for; `ServiceProvided`: the store implements `SecretService` |
| `NamedBundlesAreWhole` | `BundlesProofs` | `NamedBundlesWhole`: a bundle that a config names exists and is never half-written |
| `BundlesAgreeAtRest` | `BundlesProofs` | `AgreeAtRest`: once the queue is empty and no goroutine runs, status, files and NGINX agree |
| `RulesHold`, `WrittenIsRead` | `ProxyBuffers` | balanced proxy buffers meet NGINX's four rules, also when the product wraps; what is written is read back |

**The Configuration.** The inductive invariant is `IInv == TypeOK /\ ConfInv`; `ConfInv` is
the types of the Configuration, the consistency of the minion index and
`RebuiltAfterStartup`. "Each object is active or has a problem" is not inductive, since a
step changes an index, a store and the maps together; but every operation ends in a rebuild,
so a step is proved by showing that nothing after the rebuild changes what a rebuild would
give (the `...Unchanged` lemmas), and the rest (`ActiveOrRefused`) is about one state. The
index needs `RemoveFromIndex`: the code removes a key from the first host it finds it under,
which is all of them only because a minion has one host. `WinnerWins` says that the
resolution by age and then UID has one winner; it gives `HostsGoToOlder`, an action property.

**Stores and files.** `StoresCurrent` is inductive with `IInv`: every event enqueues, and the
sync of a key stores what the API holds. `FollowInv` says that the files are behind the
Configuration by exactly the pending changes; `StartInv` that nothing is in the host map
before startup is complete. A rebuild keeps `FollowInv` only if whatever `IsEqual` takes for
the same has the same config (`ComparisonSuffices`), so `ChangesSuffice` has that as an
explicit hypothesis about steps, and `GenerationsSuffice` discharges it: by `VersionInv` the
stores hold versions of the workload, never newer than the cluster, hence the same generation
is the same version. That needs `~ReplacedUnseen` (an object is not deleted and recreated
between two syncs) and `Comparable(workload)`, which spells out what `IsEqual` does not look
at: the address of a listener whose port stays, the spec of a solver Ingress, and the move of
a TransportServer between passthrough and a listener.

**Namespaces.** `KeysFollow`: each file belongs to an active resource or has a pending delete,
and a pending delete of an unwatched namespace has a task. It is inductive without solver
Ingresses of cert-manager (`NoSolvers`). With them the cleanup of a VirtualServer gives its
host back to an older Ingress of another namespace, and the changes are dropped; TLC then has
a 38-state behaviour in which a file outlives the namespace. It takes keys from the queue in
another order than they were added, so it is not reported as a flaw of the code.

**Statuses.** Only new problems and changed resources are written, so `StatusInv` says for
each object that its status is right or that the write which makes it so is ahead: in the
pending changes, the pending problems or the flush (`Told`); and that no write is ahead which
makes it wrong: a pending problem is of an object that is refused, or that validation has just
removed, and the flush holds active objects only (`Truthful`). The steps need that an object
is never both active and refused (`OneAnswer`, from `ActiveXorProblem`), that what is
stored and not queued is valid (from `StoresCurrent`), and that `IsEqual` compares the children
(`SameChildren`): a route or a minion that joins a resource is reported with it.
The hypotheses are one instance of section 4 each: the flush overlaps the worker
(`FlushOverlaps`), a cleanup drops changes (`HandoverWorkload`), a listener is claimed before
startup (`NoEarlyListeners`, `EarlyWorkload`), an object is recreated unseen and keeps the
status of a new object (`RecreationWorkload`, `ReplacedUnseen`).

**Collisions.** `PlacesInv`: every file is generated from a resource that owns its hosts and
listeners, except those that the pending deletes and moves are about to change. The code puts
deletes first and updates last; the proof shows that a resource which loses a host to another
is deleted or moved before the winner is written (`LosersBehind`, `MoversLose`), and that at
most one resource moves in a sync (`OneMover`), since one event changes the claims of one
object. An Ingress with several hosts breaks that: two of them can exchange hosts in one sync
(`SwapWorkload`), hence `SingleHosts` in `HostsApart`. `OwnersStay` (unwatching never takes
a host from an object that keeps its claim) carries the argument through namespace cleanups,
again without solvers.

Assumptions of these (in `Configuration` and `Controller`): keys name the kind of their
object, UIDs are not shared between keys, a valid minion, master or solver Ingress has one
host, ports are not zero, and a valid TransportServer has both the name and the protocol of
the passthrough listener or neither. The API server and the validators enforce them.

**The rollback manager and config safety.** `ConfigSafetyHolds` rests on
`ManagerTypeCorrect` and on `MainConfThere`: nginx.conf always exists, so there is a backup to
go back to. The one assumption on NGINX is `SelfContained`: resource files taken away from an
accepted tree leave an accepted tree. `Working` also asks for the default server, which is
never deleted, so a bad first write of it would stay. Over the manager, `SafetyInv` ties the
program counter of the worker to the modes of the manager (batch, isolating) and keeps the
files, backups and what NGINX runs sound; `GateInv` adds that an update without a failure
ends in working files, so that a pod which the gate lets through with its flag cleared has
them (`GetsReady`), and that a Ready pod keeps them (`ReadyKeeps`); resources may be created
at any time. `ProgressInv` says that in an update each resource is to do, has an error, or has
its file. The hypotheses: with `DiskFaults` the isolation may remove the default server, and
files may stay; `Unparsable` templates leave the batch mode on with the pod Ready; an Ingress
that takes or leaves the empty host (`EmptyHostSpecs`, only for `ServedKept` and
`ReadyIsUseful`) shares the default server's file with a record that is not refreshed when the
write is refused. `ConfigSafetyHolds` has none of them: a failed rollback and files that stay
are steps of it.

**What is applied.** `AppliedInv` follows a resource to the moment it is told. Between updates
(`Answered`) a resource that was told it is applied has its file, rendered from what was synced
last, and NGINX runs it or will at the end of the batch. During an update (`Handled`) a resource
that is not to do and has no error is written; during the isolation, unless its file is
excluded; and when the update is over without an error NGINX runs what is on the disk. `Course`
ties both to the program counter, the batch and the parameters, `PlainLoaded` is the plain
manager's part. The proof needs no assumption on NGINX: each operation of the manager, also one
that is refused and rolled back, leaves every file but its own alone (the `...Spares` lemmas), and
an excluded file has an owner that is told. The hypothesis `OneEmptyHost` is that one Ingress at
most may take the empty host: two would share the default server's file. The Configuration gives
a host to one resource (`HostServedByOldest`).

**Secrets and proxy buffers.** `StoreInv`: a reference without an error has the stored secret,
and a path it holds has that secret in its file. With it each operation of the store is a step
of `SecretService` or a stutter. `RulesHold` and `WrittenIsRead` are about functions; `KMod`
is the width of the integers. The limit of the sizes is the product of number and size minus
one size, modulo `KMod`; it never exceeds the limit without overflow (`LimitIsSafe`), so the
rules hold there as well.

**Bundles.** `BundleInv` has, beside the types: one task at a time uses the temporary file
unless two overlapped (`Orderly`); a bundle that the config names is on disk, because only a
sync that rewrites the config removes files (`Named`); status "Valid" means that the files
are ready or that the policy will be synced again (`ValidIsReady`, where *due* means queued or
about to be enqueued by a fetch that ends); a file left behind has such a sync ahead
(`Owned`); and NGINX has read the files, or a sync is due (`Loaded`, `Fetched`). The
exception is a cancelled poll that still renames its file ("late"): it enqueues nothing. The
number of slots, goroutines, sources, contents and attempts is arbitrary.

**Only model-checked.** Liveness (`Converges`, `Recovers`, `IsolationTerminates`,
`PollingCatchesUp`, `Settles`) is beyond the prover. `OnlyCulpritsExcluded` is about a
recursive search, and `VerdictsCanonical`, `EndpointsCurrent`, `AnnotationsHonoured`,
`ConfigMapInForce`, `RoutesFollowSpec`, `AcceptedLoads`, `OthersUntouched` and the three
invariants of `References` about what folds and recursive definitions compute, which takes an
induction over data. `NamedFilesExist`, `CurrentWhenIdle`,
`StatusCurrent`, `DependentsCurrent`, `RunningIsWritten`, `ZoneSyncServed` and
`WeightsInForce` are not proved yet. `FilesReflectConfiguration`, `HostServedByOldest` and
the properties with a hypothesis in the table are checked by TLC on instances inside it.

## 6. What is not modelled

- Texts: lexical checks of one text, templates and the scanners of NGINX syntax. A
  resource or a field is well formed or not, a template parses or not, a file is what it
  is rendered from.
- Validation of TransportServers, Policies and GlobalConfigurations, and what the
  parameters of a TransportServer turn into.
- In `ConfigSafety`: EndpointSlice tasks, which may end a batch without a reload, two
  Ingresses with the empty host at once, and TransportServers that the
  GlobalConfiguration deletes (these are in `Controller`). In the Configurator the TLS
  passthrough hosts file.
- In the manager: a first write that fails (the process ends), more than one rollback that
  fails, and the iteration cap of the isolation (not reached, each iteration shrinks the
  batch).
- In the namespace watcher: a namespace that loses its label while it is being deleted and
  still has objects.
- Reload verification and its timeout; a reload of accepted files succeeds.
- The MGMT ConfigMap, events, metrics, telemetry, license reporting, health checks: no
  decision of the modelled parts reads them. Generated clients.
