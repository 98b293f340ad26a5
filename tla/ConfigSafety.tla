----------------------------- MODULE ConfigSafety -----------------------------
(***************************************************************************)
(* The way from a synced key to NGINX: sync and updateAllConfigs of the      *)
(* controller, the writes and UpdateConfig of the Configurator, and the      *)
(* manager below them (RollbackManager, or the plain LocalManager).  Here    *)
(* NGINX may refuse a file.  Controller models which resources are active;   *)
(* here every resource is, and has one config file, by which it is named     *)
(* (or the default server, which an Ingress with the empty host takes over). *)
(*                                                                           *)
(* A config file is rendered from the spec of its resource, the parameters   *)
(* that the ConfigMap sets, and, for a TransportServer, the port of its       *)
(* listener.                                                                 *)
(***************************************************************************)
EXTENDS RollbackManager

CONSTANTS
  Ingresses, TransportServers,  \* the resources that are not VirtualServers
  ResourceOrder,                \* the resources in the order UpdateConfig writes them
  Specs(_),                     \* the specs of a resource
  EmptyHostSpecs,               \* the ones with the empty host
  MainSpec, DefaultSpec,        \* what nginx.conf and the synthetic server render
  ConfigMaps,
  Unparsable,                   \* the ConfigMaps with a template that does not parse
  GlobalConfigurations,         \* functions from TransportServers to ports
  Clusters,                     \* the objects at startup
  Absent, NoTask,
  ConfigMapKey, GlobalConfigurationKey,
  Managers,                     \* which of -enable-config-safety=false and =true
  MaxChanges                    \* bound on what they change

VARIABLES
  isRollbackManager,                                    \* -enable-config-safety
  objects, configMapObject, globalConfigurationObject,  \* the cluster
  changesLeft,
  queue, task,                                          \* syncQueue
  resources, globalConfiguration, startupComplete,      \* Configuration
  configMap, isNginxReady, heldForConfigSafety,         \* LoadBalancerController
  batchSyncEnabled, updateAllConfigsOnBatch,
  cfgParams, recorded, isReloadsEnabled,                \* Configurator
  effectiveBatchExclusionCount,
  pc, update,                                           \* sync and UpdateConfig
  status,                                               \* what the resources are told
  unloaded                                              \* history: see FinishUpdate

cluster == <<isRollbackManager, objects, configMapObject, globalConfigurationObject, changesLeft>>
configuration == <<resources, globalConfiguration, startupComplete>>
readiness == <<isNginxReady, heldForConfigSafety>>
batching == <<batchSyncEnabled, updateAllConfigsOnBatch, isReloadsEnabled>>
reports == <<status, unloaded>>
safetyVars == <<cluster, queue, task, configuration, configMap, readiness, batching,
                cfgParams, recorded, effectiveBatchExclusionCount, pc, update, reports,
                manager>>

\* The resources are finitely many, and each has a place in the order; the other keys are
\* not their names.
ASSUME ResourcesAssumption ==
  /\ IsFiniteSet(ResourceFiles)
  /\ ResourceOrder \in Seq(ResourceFiles)
  /\ \A r \in ResourceFiles : \E i \in DOMAIN ResourceOrder : ResourceOrder[i] = r
  /\ Ingresses \cup TransportServers \subseteq ResourceFiles
  /\ {ConfigMapKey, GlobalConfigurationKey, NoTask} \cap ResourceFiles = {}
  /\ ConfigMapKey # GlobalConfigurationKey

sharedInputFailureThreshold == 2

Keys == ResourceFiles \cup {ConfigMapKey, GlobalConfigurationKey}
Existing(r) == resources[r] # Absent

\* The resources of buildResourceUpdateTasks, and the one that is handled first.
Tasks == {r \in ResourceFiles : Existing(r)}
First(S) ==
  LET places == {i \in DOMAIN ResourceOrder : ResourceOrder[i] \in S}
  IN ResourceOrder[CHOOSE i \in places : \A j \in places : i <= j]

Rendered(spec, params, port) == [spec |-> spec, params |-> params, port |-> port]
Port(gc, r) == IF r \in TransportServers THEN gc[r] ELSE 0
FileName(r, spec) == IF spec \in EmptyHostSpecs THEN DefaultServer ELSE r

\* What is rendered is what a file can hold.
ASSUME RenderedAssumption ==
  \A params \in ConfigMaps :
    /\ {Rendered(MainSpec, params, 0), Rendered(DefaultSpec, params, 0)} \subseteq Contents
    /\ \A gc \in GlobalConfigurations, r \in ResourceFiles : \A spec \in Specs(r) :
         Rendered(spec, params, Port(gc, r)) \in Contents

\* The objects at startup are of the kinds that users may change them to.
ASSUME ClustersAssumption ==
  \A c \in Clusters :
    /\ c.configMap \in ConfigMaps /\ c.globalConfiguration \in GlobalConfigurations
    /\ DOMAIN c.objects = ResourceFiles
    /\ \A r \in ResourceFiles : c.objects[r] \in Specs(r) \cup {Absent}
ASSUME FlagsAssumption == Managers \subseteq BOOLEAN

\* Only Ingresses can have the empty host; no object is no spec and no status.
ASSUME SpecsAssumption ==
  /\ Absent \notin EmptyHostSpecs \cup {"applied", "failed"}
  /\ \A r \in ResourceFiles \ Ingresses : Specs(r) \cap EmptyHostSpecs = {}

-----------------------------------------------------------------------------
(* The Configurator's writes.                                                *)

\* CreateConfig of either manager.  LocalManager writes, and leaves it to the reload
\* to find out.
Create(m, p, c) ==
  IF isRollbackManager
  THEN CreateConfig(m, p, c)
  ELSE Outcome(WithFiles(m, written(m.files, p, c)), TRUE)

\* nginx.conf written without the test.
CreateMain_bug(m, c) == Outcome(WithFiles(m, written(m.files, MainConf, c)), TRUE)

CreateMain(m, c) ==
  IF isRollbackManager
  THEN CreateMainConfig(m, c)
  ELSE Outcome(WithFiles(m, written(m.files, MainConf, c)), TRUE)

hasActiveEmptyHostIngress(rec) == \E r \in Ingresses : rec[r] \in EmptyHostSpecs

syncDefaultServerConfig(m, rec, params) ==
  IF hasActiveEmptyHostIngress(rec)
  THEN Outcome(m, TRUE)
  ELSE Create(m, DefaultServer, Rendered(DefaultSpec, params, 0))

\* A write of the Configurator: the manager, the resources it has recorded
\* (cnf.ingresses, cnf.virtualServers, cnf.transportServers), and no error.
Wrote(m, rec, ok) == [manager |-> m, recorded |-> rec, ok |-> ok]

withDefaultServer(m, rec, params, r) ==
  LET default == syncDefaultServerConfig(m, rec, params)
  IN IF r \in Ingresses
     THEN Wrote(default.manager, rec, default.ok)
     ELSE Wrote(m, rec, TRUE)

\* addOrUpdateIngress, addOrUpdateMergeableIngress, addOrUpdateVirtualServer and
\* addOrUpdateTransportServer.
addOrUpdate(m, rec, params, gc, r, spec) ==
  LET p == FileName(r, spec)
      file == Create(m, p, Rendered(spec, params, Port(gc, r)))
      moved == p # r /\ rec[r] \notin EmptyHostSpecs \cup {Absent}
  IN IF file.ok
     THEN withDefaultServer(IF moved THEN DeleteConfig(file.manager, r) ELSE file.manager,
                            [rec EXCEPT ![r] = spec], params, r)
     ELSE Wrote(file.manager, rec, FALSE)

\* DeleteIngress, DeleteVirtualServer and DeleteTransportServer, but for the reload.
delete(m, rec, params, r) ==
  withDefaultServer(IF rec[r] \in EmptyHostSpecs THEN m ELSE DeleteConfig(m, r),
                    [rec EXCEPT ![r] = Absent], params, r)

\* The reload that ends a successful write, unless reloads are disabled.
reloaded(w, enabled) ==
  IF w.ok /\ enabled
  THEN Wrote(Reload(w.manager), w.recorded, Accepts(w.manager.files))
  ELSE w

-----------------------------------------------------------------------------
(* The users.                                                                *)

Changed(key) ==
  /\ changesLeft > 0
  /\ changesLeft' = changesLeft - 1
  /\ queue' = queue \cup {key}
  /\ UNCHANGED <<isRollbackManager, task, configuration, configMap, readiness, batching, cfgParams,
                 recorded, effectiveBatchExclusionCount, pc, update, reports, manager>>

ChangeResource(r) ==
  /\ \E spec \in Specs(r) \cup {Absent} :
       /\ spec # objects[r]
       /\ objects' = [objects EXCEPT ![r] = spec]
  /\ Changed(r)
  /\ UNCHANGED <<configMapObject, globalConfigurationObject>>

ChangeConfigMap ==
  /\ \E c \in ConfigMaps \ {configMapObject} : configMapObject' = c
  /\ Changed(ConfigMapKey)
  /\ UNCHANGED <<objects, globalConfigurationObject>>

ChangeGlobalConfiguration ==
  /\ \E gc \in GlobalConfigurations \ {globalConfigurationObject} :
       globalConfigurationObject' = gc
  /\ Changed(GlobalConfigurationKey)
  /\ UNCHANGED <<objects, configMapObject>>

-----------------------------------------------------------------------------
(* sync.                                                                     *)

\* A key that is added again while it is being synced does not count.
Len_syncQueue == Cardinality(queue \ {task})

\* The head of sync: more than one key is waiting, so reloads are put off.
Dequeue(key) ==
  /\ pc = "idle" /\ key \in queue
  /\ task' = key /\ queue' = queue \ {key}
  /\ batchSyncEnabled' = (batchSyncEnabled \/ (isNginxReady /\ Cardinality(queue') > 1))
  /\ isReloadsEnabled' = (isReloadsEnabled /\ ~batchSyncEnabled')

Told(ok) == IF ok THEN "applied" ELSE "failed"

\* The locals of UpdateConfig, and of processChangesFromGlobalConfiguration.
NoUpdate == [todo |-> {}, resourceErrors |-> {}, updateErr |-> FALSE,
             consecutiveFailures |-> 0, enableEarlyExit |-> FALSE,
             updatedResources |-> {}]

\* updateAllConfigs takes the parameters from the ConfigMap and calls UpdateConfig.
updateAllConfigs(c) ==
  /\ cfgParams' = c
  /\ pc' = "update" /\ update' = NoUpdate

\* syncIngress, syncVirtualServer and syncTransportServer, with processChanges.
\* During startup the Configuration is filled and produces no changes.
SyncResource(r) ==
  /\ Dequeue(r)
  /\ resources' = [resources EXCEPT ![r] = objects[r]]
  /\ IF startupComplete /\ objects[r] # resources[r]
     THEN \E w \in {reloaded(IF objects[r] = Absent
                             THEN delete(manager, recorded, cfgParams, r)
                             ELSE addOrUpdate(manager, recorded, cfgParams,
                                              globalConfiguration, r, objects[r]),
                             isReloadsEnabled')} :
            /\ manager' = w.manager /\ recorded' = w.recorded
            /\ status' = [status EXCEPT ![r] = IF objects[r] = Absent THEN Absent
                                               ELSE Told(w.ok)]
            /\ unloaded' = unloaded \ {r}
     ELSE UNCHANGED <<manager, recorded, reports>>
  /\ pc' = "synced"
  /\ UNCHANGED <<cluster, globalConfiguration, startupComplete, configMap, readiness,
                 updateAllConfigsOnBatch, cfgParams, effectiveBatchExclusionCount, update>>

SyncConfigMap ==
  /\ Dequeue(ConfigMapKey)
  /\ configMap' = configMapObject
  /\ updateAllConfigsOnBatch' = (updateAllConfigsOnBatch \/ batchSyncEnabled')
  /\ IF isNginxReady /\ ~batchSyncEnabled'
     THEN updateAllConfigs(configMapObject)
     ELSE pc' = "synced" /\ UNCHANGED <<cfgParams, update>>
  /\ UNCHANGED <<cluster, configuration, readiness, recorded, effectiveBatchExclusionCount,
                 reports, manager>>

\* syncGlobalConfiguration, with processChangesFromGlobalConfiguration, which updates
\* all TransportServers that a changed listener serves.
SyncGlobalConfiguration ==
  /\ Dequeue(GlobalConfigurationKey)
  /\ globalConfiguration' = globalConfigurationObject
  /\ LET moved == {r \in Tasks \cap TransportServers :
                      globalConfigurationObject[r] # globalConfiguration[r]}
     IN IF startupComplete /\ moved # {}
        THEN pc' = "listeners" /\ update' = [NoUpdate EXCEPT !.todo = moved]
        ELSE pc' = "synced" /\ UNCHANGED update
  /\ UNCHANGED <<cluster, resources, startupComplete, configMap, readiness, recorded, manager,
                 updateAllConfigsOnBatch, cfgParams, effectiveBatchExclusionCount, reports>>

\* UpdateTransportServers: the writes one after another, and one reload whatever they
\* return.  All of them are told the same.
UpdateTransportServers ==
  /\ pc = "listeners"
  /\ LET r == First(update.todo)
         w == addOrUpdate(manager, recorded, cfgParams, globalConfiguration, r, resources[r])
         ok == ~update.updateErr /\ w.ok
         updated == update.updatedResources \cup {r}
         last == reloaded(Wrote(w.manager, w.recorded, TRUE), isReloadsEnabled)
     IN /\ recorded' = w.recorded
        /\ IF update.todo # {r}
           THEN /\ manager' = w.manager
                /\ update' = [update EXCEPT !.todo = @ \ {r}, !.updateErr = ~ok,
                                            !.updatedResources = updated]
                /\ UNCHANGED <<pc, reports>>
           ELSE /\ manager' = last.manager
                /\ status' = [q \in ResourceFiles |-> IF q \in updated
                                                      THEN Told(ok /\ last.ok)
                                                      ELSE status[q]]
                /\ unloaded' = unloaded \ updated
                /\ update' = NoUpdate /\ pc' = "synced"
  /\ UNCHANGED <<cluster, queue, task, configuration, configMap, readiness, batching,
                 cfgParams, effectiveBatchExclusionCount>>

\* The tail of sync, three ways: startup is over and everything is written; a batch
\* is over and reloads once; or the worker takes the next key.
CompleteStartup ==
  /\ pc = "synced" /\ ~isNginxReady /\ Len_syncQueue = 0
  /\ startupComplete' = TRUE
  /\ isReloadsEnabled' = TRUE
  /\ updateAllConfigs(configMap)
  /\ UNCHANGED <<cluster, queue, task, resources, globalConfiguration, configMap, readiness,
                 batchSyncEnabled, updateAllConfigsOnBatch, recorded,
                 effectiveBatchExclusionCount, reports, manager>>

\* The resources whose file is not what NGINX runs.
Outdated ==
  {r \in Tasks : LET p == FileName(r, resources[r])
                 IN ~(/\ p \in DOMAIN manager.files \cap DOMAIN manager.loaded
                      /\ manager.files[p] = manager.loaded[p])}

\* A batch without the ConfigMap ends in a reload whose error is only logged: what the
\* resources were told during the batch stands.
EndBatchSync ==
  /\ pc = "synced" /\ batchSyncEnabled /\ Len_syncQueue = 0
  /\ batchSyncEnabled' = FALSE /\ isReloadsEnabled' = TRUE
  /\ updateAllConfigsOnBatch' = FALSE
  /\ IF updateAllConfigsOnBatch
     THEN updateAllConfigs(configMap) /\ UNCHANGED <<manager, task, unloaded>>
     ELSE /\ manager' = Reload(manager)
          /\ unloaded' = IF Accepts(manager.files) THEN unloaded ELSE unloaded \cup Outdated
          /\ pc' = "idle" /\ task' = NoTask
          /\ UNCHANGED <<cfgParams, update>>
  /\ UNCHANGED <<cluster, queue, configuration, configMap, readiness, recorded,
                 effectiveBatchExclusionCount, status>>

EndSync ==
  /\ pc = "synced"
  /\ Len_syncQueue > 0 \/ (isNginxReady /\ ~batchSyncEnabled)
  /\ pc' = "idle" /\ task' = NoTask
  /\ UNCHANGED <<cluster, queue, configuration, configMap, readiness, batching, cfgParams,
                 recorded, effectiveBatchExclusionCount, update, reports, manager>>

-----------------------------------------------------------------------------
(* UpdateConfig.                                                             *)

Updating ==
  UNCHANGED <<cluster, queue, task, configuration, configMap, readiness, batching,
              cfgParams, reports>>

ParseTemplates ==
  /\ pc = "update" /\ cfgParams \in Unparsable
  /\ update' = [update EXCEPT !.updateErr = TRUE]
  /\ pc' = "finish"
  /\ UNCHANGED <<recorded, effectiveBatchExclusionCount, manager>>
  /\ Updating

\* nginx.conf, whose rejection is only logged, and the default server, whose
\* rejection is an error.
WriteMainConfig ==
  /\ pc = "update" /\ cfgParams \notin Unparsable
  /\ \E main \in {CreateMain(manager, Rendered(MainSpec, cfgParams, 0))} :
     \E default \in {syncDefaultServerConfig(main.manager, recorded, cfgParams)} :
       /\ manager' = default.manager
       /\ update' = [update EXCEPT
            !.updateErr = ~default.ok,
            !.todo = Tasks,
            !.enableEarlyExit = isRollbackManager /\ ~manager.batchMode]
       /\ pc' = IF default.ok THEN "apply" ELSE "finish"
  /\ UNCHANGED <<recorded, effectiveBatchExclusionCount>>
  /\ Updating

\* One iteration of applyResourceUpdates.
ApplyTask ==
  /\ pc = "apply" /\ update.todo # {}
  /\ \E r \in {First(update.todo)} :
     \E w \in {addOrUpdate(manager, recorded, cfgParams, globalConfiguration, r,
                           resources[r])} :
       LET failures == IF w.ok THEN 0
                       ELSE IF update.enableEarlyExit THEN update.consecutiveFailures + 1
                       ELSE update.consecutiveFailures
       IN /\ manager' = w.manager /\ recorded' = w.recorded
          /\ update' = [update EXCEPT
               !.resourceErrors = IF w.ok THEN @ ELSE @ \cup {r},
               !.consecutiveFailures = failures,
               !.todo = IF failures >= sharedInputFailureThreshold THEN {} ELSE @ \ {r}]
  /\ UNCHANGED <<pc, effectiveBatchExclusionCount>>
  /\ Updating

StartIsolation ==
  /\ pc = "apply" /\ update.todo = {} /\ manager.batchMode
  /\ manager' = CompleteBatch(manager)
  /\ effectiveBatchExclusionCount' = 0
  /\ pc' = "isolate"
  /\ UNCHANGED <<recorded, update>>
  /\ Updating

\* buildFilenameToErrorKey: whose content a file holds.  A file of nobody stands for
\* itself.
owners(p) ==
  LET of == {r \in Tasks : FileName(r, resources[r]) = p}
  IN IF of = {} THEN {p} ELSE of

\* completeBatchAndIsolate.  When isolation fails the files written are gone; if the
\* rest works, every resource is written again, one by one.
Isolate ==
  /\ pc = "isolate"
  /\ \E o \in isolateBadConfigs(manager) :
       LET m == o.manager
           excluded == UNION {owners(p) : p \in m.batchExcluded}
       IN /\ manager' = m
          /\ IF m.isolating
             THEN UNCHANGED <<pc, update, effectiveBatchExclusionCount>>
             ELSE IF o.ok
             THEN /\ update' = [update EXCEPT !.resourceErrors = excluded]
                  /\ effectiveBatchExclusionCount' = Cardinality(excluded)
                  /\ pc' = "apply"
             ELSE IF ~Accepts(m.files)
             THEN /\ update' = [update EXCEPT !.resourceErrors = Tasks, !.updateErr = TRUE]
                  /\ effectiveBatchExclusionCount' = Cardinality(Tasks)
                  /\ pc' = "finish"
             ELSE /\ update' = [update EXCEPT !.resourceErrors = {},
                                              !.todo = Tasks]
                  /\ effectiveBatchExclusionCount' = Cardinality(excluded)
                  /\ pc' = "apply"
  /\ UNCHANGED recorded
  /\ Updating

\* Two resources in a row were refused: the others and the reload are skipped.
sharedInputFailure == update.consecutiveFailures >= sharedInputFailureThreshold

\* The reload at the end, skipped after a shared-input failure.
ReloadAll ==
  /\ pc = "apply" /\ update.todo = {} /\ ~manager.batchMode
  /\ IF sharedInputFailure
     THEN UNCHANGED <<manager, update>>
     ELSE /\ manager' = Reload(manager)
          /\ update' = [update EXCEPT !.updateErr = ~Accepts(manager.files)]
  /\ pc' = "finish"
  /\ UNCHANGED <<recorded, effectiveBatchExclusionCount>>
  /\ Updating

\* The pod that never heals.
selfHeals_bug == FALSE

selfHeals == heldForConfigSafety /\ update.resourceErrors = {} /\ ~update.updateErr

\* The gate that is off by one.
holdsBack_bug ==
  /\ ~isNginxReady /\ ~selfHeals
  /\ effectiveBatchExclusionCount > 0
  /\ effectiveBatchExclusionCount > Cardinality(Tasks)

\* The readiness gate, which only the update at startup passes.
holdsBack ==
  /\ ~isNginxReady /\ ~selfHeals
  /\ effectiveBatchExclusionCount > 0
  /\ effectiveBatchExclusionCount >= Cardinality(Tasks)

\* The report that leaves out the errors of single resources.
updateError_bug(r) == update.updateErr

updateError(r) == update.updateErr \/ r \in update.resourceErrors

\* The rest of updateAllConfigs, self-healing and the statuses, and of the startup
\* block of sync.  After a shared-input failure a resource without an error of its own
\* is told that it is applied, though it was skipped, or written and not loaded:
\* `unloaded` notes it.
FinishUpdate ==
  /\ pc = "finish"
  /\ isNginxReady' = ~holdsBack
  /\ heldForConfigSafety' = ((heldForConfigSafety /\ ~selfHeals) \/ holdsBack)
  /\ status' = [r \in ResourceFiles |->
                  IF r \in Tasks THEN Told(~updateError(r)) ELSE status[r]]
  /\ unloaded' = IF sharedInputFailure THEN Tasks \ update.resourceErrors ELSE {}
  /\ update' = NoUpdate
  /\ pc' = "idle" /\ task' = NoTask
  /\ UNCHANGED <<cluster, queue, configuration, configMap, batching, cfgParams, recorded,
                 effectiveBatchExclusionCount, manager>>

-----------------------------------------------------------------------------
(* The system.                                                               *)

\* main.go has started NGINX with a ConfigMap that works, and may have changed since;
\* the informers have queued a key for every object.
Init ==
  \E c \in Clusters, bootstrap \in ConfigMaps \ Unparsable :
    /\ isRollbackManager \in Managers
    /\ objects = c.objects
    /\ configMapObject = c.configMap
    /\ globalConfigurationObject = c.globalConfiguration
    /\ changesLeft = MaxChanges
    /\ queue = {r \in ResourceFiles : objects[r] # Absent}
               \cup {ConfigMapKey, GlobalConfigurationKey}
    /\ task = NoTask
    /\ resources = [r \in ResourceFiles |-> Absent]
    /\ globalConfiguration = c.globalConfiguration
    /\ startupComplete = FALSE
    /\ configMap = bootstrap /\ cfgParams = bootstrap
    /\ isNginxReady = FALSE /\ heldForConfigSafety = FALSE
    /\ batchSyncEnabled = FALSE /\ updateAllConfigsOnBatch = FALSE
    /\ recorded = [r \in ResourceFiles |-> Absent]
    /\ isReloadsEnabled = FALSE
    /\ effectiveBatchExclusionCount = 0
    /\ pc = "idle" /\ update = NoUpdate
    /\ status = [r \in ResourceFiles |-> Absent] /\ unloaded = {}
    /\ manager = [EnableBatchMode(Rendered(MainSpec, bootstrap, 0),
                                  Rendered(DefaultSpec, bootstrap, 0))
                  EXCEPT !.batchMode = isRollbackManager]
    /\ Accepts(manager.files)

Worker ==
  \/ \E r \in ResourceFiles : SyncResource(r)
  \/ SyncConfigMap \/ SyncGlobalConfiguration \/ UpdateTransportServers
  \/ CompleteStartup \/ EndBatchSync \/ EndSync
  \/ ParseTemplates \/ WriteMainConfig \/ ApplyTask \/ StartIsolation \/ Isolate
  \/ ReloadAll \/ FinishUpdate

Users ==
  \/ \E r \in ResourceFiles : ChangeResource(r)
  \/ ChangeConfigMap \/ ChangeGlobalConfiguration

Next == Worker \/ Users

Spec == Init /\ [][Next]_safetyVars
FairSpec == Spec /\ WF_safetyVars(Worker)

-----------------------------------------------------------------------------
(* Properties.                                                               *)

\* The configuration that NGINX runs serves the resource, in some version.
Serves(tree, r) ==
  \/ r \in DOMAIN tree
  \/ /\ r \in Ingresses /\ DefaultServer \in DOMAIN tree
     /\ tree[DefaultServer].spec \in EmptyHostSpecs

\* The worker has nothing left to do.
Quiet == pc = "idle" /\ queue = {}

\* Config safety keeps what works: once NGINX serves a resource, and would serve it after a
\* reload, no change of it, of another one or of the ConfigMap ends that, unless it is
\* deleted.
Served(r) == Serves(manager.loaded, r) /\ Serves(manager.files, r)
ServedStaysServed ==
  [][isRollbackManager => \A r \in ResourceFiles :
       Served(r) /\ Existing(r)' => Served(r)']_safetyVars

\* NGINX has been reloaded since it was started, and accepts the files.
Validated == manager.configVersion # 0 /\ Accepts(manager.files)

\* "All configs are validated with a single nginx -t ... after the queue drains", and
\* one by one from then on: under config safety a pod that gets Ready has files on its
\* disk that NGINX accepts, and no step of a Ready pod leaves it with files that NGINX
\* refuses.  There are two ways past the gate without them: with no resources there is nothing
\* to exclude, and a resource that is created while the pod is held back makes the
\* count of the batch, which is not taken again, too small for the gate
\* (heldForConfigSafety is then still set); see CompleteStartup and holdsBack.
ReadyFilesAreValid ==
  [][/\ isRollbackManager /\ isNginxReady'
     /\ IF isNginxReady THEN Validated ELSE Tasks # {} /\ ~heldForConfigSafety'
     => Validated']_safetyVars

\* "If config safety batch validation excluded ALL resources, do NOT mark the pod
\* Ready - it serves zero useful traffic": a pod that becomes Ready serves
\* something, or has nothing to serve, unless a resource created while it was held
\* back gets it past the gate (heldForConfigSafety is then still set).
ReadyServesSomething ==
  [][isRollbackManager /\ ~isNginxReady /\ isNginxReady' /\ ~heldForConfigSafety' /\ Tasks # {} =>
       \E r \in Tasks : Serves(manager.loaded, r)]_safetyVars

\* The gate as its comment has it, whatever is created while the pod is held back.
ReadyAlwaysServes ==
  [][isRollbackManager /\ ~isNginxReady /\ isNginxReady' /\ Tasks # {} =>
       \E r \in Tasks : Serves(manager.loaded, r)]_safetyVars

\* "the resource has been validated and accepted and is working as expected": a
\* resource that is told so is served, with the spec, the ConfigMap and the listener that
\* were synced last, unless it was told so by a shared-input failure or before a reload
\* that failed (`unloaded`).  Without config safety NGINX runs with the files that are on
\* the disk, unless it refuses them or the templates do not parse.
AppliedIsLoaded ==
  Quiet /\ isNginxReady =>
    /\ \A r \in Tasks \ unloaded :
         LET p == FileName(r, resources[r])
         IN status[r] = "applied" =>
              /\ p \in DOMAIN manager.loaded
              /\ manager.loaded[p] = Rendered(resources[r], configMap,
                                              Port(globalConfiguration, r))
    /\ ~isRollbackManager /\ configMap \notin Unparsable /\ Accepts(manager.files)
         => manager.loaded = manager.files

\* The files that the objects of the cluster stand for.
DesiredTree ==
  LET live == {r \in ResourceFiles : objects[r] # Absent}
      open == {r \in live : objects[r] \in EmptyHostSpecs}
      File(r) == Rendered(objects[r], configMapObject, Port(globalConfigurationObject, r))
  IN [p \in {MainConf, DefaultServer} \cup (live \ open) |->
        IF p = MainConf THEN Rendered(MainSpec, configMapObject, 0)
        ELSE IF p # DefaultServer THEN File(p)
        ELSE IF open = {} THEN Rendered(DefaultSpec, configMapObject, 0)
        ELSE File(CHOOSE r \in open : TRUE)]

\* Whatever was refused, held back or put off on the way: when the users leave the
\* cluster in a state that NGINX accepts, the pod gets Ready and NGINX runs it.  (A
\* default server that goes with the whole batch is written again only with the next
\* Ingress or ConfigMap.  A refused file that could be removed in neither attempt is
\* excepted: it stays in the way of nginx.conf, and nobody writes the others again.)
Recovers ==
  <>[](configMapObject \notin Unparsable /\ Accepts(DesiredTree) /\ ~manager.diskFault)
    => <>[](/\ isNginxReady
            /\ \/ manager.loaded = DesiredTree
               \/ DiskFaults /\ manager.loaded = removed(DesiredTree, {DefaultServer}))

=============================================================================
