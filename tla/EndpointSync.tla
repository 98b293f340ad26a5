---------------------------- MODULE EndpointSync ----------------------------
(***************************************************************************)
(* How changes of Services, EndpointSlices, Pods, Ingresses and of the       *)
(* ConfigMap reach the running NGINX (internal/k8s/endpoint_slice.go,        *)
(* service.go, configmap.go, controller.go and the updates of                *)
(* internal/configs/configurator.go).                                        *)
(*                                                                           *)
(* The cluster (api) changes; informers bring it into the caches (cache),    *)
(* each object on its own, and their handlers queue tasks; one worker        *)
(* handles the queue, in a batch when there are many.  A task regenerates    *)
(* files from the caches, and NGINX takes them with a reload or, in NGINX    *)
(* Plus, the servers alone through its API.                                  *)
(*                                                                           *)
(* The resources are fixed, but the annotations of the Ingresses change: an  *)
(* Ingress resource has in "ings" the names of the Ingress, or of the master *)
(* and its minions, it is made of.                                           *)
(***************************************************************************)
EXTENDS Endpoints, ConfigMapParams

CONSTANT Workloads  \* the clusters to check, see MCEndpoints

VARIABLES
  workload,   \* [flags, resources, own, objects, initially, touched, maxChanges]
  api,        \* the objects of the cluster
  cache,      \* the caches of the informers
  changes,    \* how often the cluster has changed
  queue,      \* the tasks, <<kind, name>>
  batch,      \* batchSyncEnabled, and so reloads disabled
  batchReload,\* enableBatchReload
  allOnBatch, \* updateAllConfigsOnBatch
  state,      \* the rest of the controller, and NGINX, see Now
  panicked,   \* the controller has dereferenced a nil ConfigMap
  missed,     \* resources whose endpoints changed in the caches and no task was queued for it, or
              \* one for an EndpointSlice that is gone, and that were not written since
  miscounted, \* the replicas were last counted in a part of the controller's Service, or with
              \* endpoints that are not ready, or one of its EndpointSlices is gone
  late        \* zone-sync was switched at the end of a batch, and its Service not yet synced

vars == <<workload, api, cache, changes, queue, batch, batchReload, allOnBatch, state, panicked,
          missed, miscounted, late>>

\* state is [files, running, warned, status, replicas, stored, configMap, params, reported]: the
\* file of each resource and of NGINX itself, the same in the running NGINX, the
\* endpointSliceWarnings, the state last reported for each resource, the
\* ingressControllerReplicas, the Ingresses that were accepted, the ConfigMap last seen, the
\* CfgParams, and how the ConfigMap was reported.
flags == workload.flags
Resources == DOMAIN workload.resources
Main == 0  \* nginx.conf
R(id) == workload.resources[id]
Kinds == {"svcs", "slices", "pods", "ings", "maps"}
NoObject(kind) ==
  CASE kind = "svcs" -> NoService [] kind = "slices" -> NoSlice [] kind = "pods" -> NoPod
    [] kind = "ings" -> NoIngress [] OTHER -> NoConfigMap

-----------------------------------------------------------------------------
(* Files.  s is a state, or as much of one as they depend on.                *)

\* The Ingresses a resource is made of; nothing without the first, an orphaned minion is not
\* part of it.
Members(s, id) ==
  LET names == R(id).ings
      minions == {names[i] : i \in {j \in 2..Len(names) : s.stored[names[j]] # NoIngress}}
  IN IF names = << >> \/ s.stored[names[1]] = NoIngress THEN {}
     ELSE {names[1]} \cup (IF TypeOf(s.stored[names[1]]) = "master" THEN minions ELSE {})
Exists(s, id) == R(id).ings = << >> \/ Members(s, id) # {}

\* The resource as it is in the Configuration.
Current(s, id) ==
  LET of == Members(s, id) \cup {""}
  IN [R(id) EXCEPT !.backends = RestrictDomain(@, LAMBDA i : R(id).backends[i].of \in of),
                   !.auths = IF Exists(s, id) THEN @ ELSE {}]

ZoneSync(s) == Has(s.params, "zone-sync") /\ s.params["zone-sync"] = "true"
Nginx(s) == [plus |-> flags.plus, resolver |-> Has(s.params, "resolver-addresses")]

\* [server, locations].
SettingsOf(s, id) ==
  LET base == BaseCfgParams(s.params)
      ann(n) == s.stored[n].annotations
      first == R(id).ings[1]
      regular(f, n) == [server |-> f.server, locations |-> n :> f.location]
  IN CASE R(id).kind = "ts" -> [server |-> << >>, locations |-> << >>]
       [] R(id).kind = "vs" -> [server |-> base, locations |-> << >>]
       [] R(id).kind = "ing" /\ R(id).ings = << >> -> regular(generateNginxCfg(<< >>, base, flags), "")
       [] R(id).kind = "ing" /\ R(id).ings # << >> /\ TypeOf(s.stored[first]) = "regular" ->
            regular(generateNginxCfg(ann(first), base, flags), first)
       [] OTHER -> generateNginxCfgForMergeableIngresses(ann(first),
                     [n \in Members(s, id) \ {first} |-> ann(n)], base, flags)

\* A rate limit is divided by the replicas, unless they share its zone.
LimitScaled(f) ==
  \E n \in DOMAIN f.locations : ValueOf(f.locations[n].settings, "limit-req-scale") = {"true"}

NoFile == [upstreams |-> << >>, scale |-> 0, server |-> << >>, locations |-> << >>]

\* The whole file of a resource, and that of NGINX.
Generate(c, id, s) ==
  LET file(f) == [upstreams |-> GenerateUpstreams(c, Nginx(s), Current(s, id)),
                  scale |-> IF (R(id).scale \/ LimitScaled(f)) /\ ~ZoneSync(s) THEN s.replicas ELSE 0,
                  server |-> f.server, locations |-> f.locations]
  IN IF id = Main THEN [NoFile EXCEPT !.server = s.params]
     ELSE IF ~Exists(s, id) THEN NoFile
     ELSE file(SettingsOf(s, id))

Verdict(c, id, s) == IF HasWarnings(c, Nginx(s), Current(s, id)) THEN "Warning" ELSE "Valid"

-----------------------------------------------------------------------------
(* The cluster and the informers.                                            *)

\* Changes in quick succession reach the caches as one, but for the Service that the controller
\* makes itself.
Change(kind, name, object) ==
  /\ changes < workload.maxChanges
  /\ name = "hl" => cache[kind][name] = api[kind][name]
  /\ api[kind][name] # object
  /\ api' = [api EXCEPT ![kind][name] = object]
  /\ changes' = changes + 1
  /\ UNCHANGED <<workload, cache, queue, batch, batchReload, allOnBatch, state, panicked, missed, miscounted, late>>

\* AddSyncQueue: a task that is queued already is not queued again.
AddSyncQueue(q, task) == IF Contains(q, task) THEN q ELSE Append(q, task)

TaskOf(kind, name) ==
  CASE kind = "slices" -> <<"endpointslice", name>> [] kind = "svcs" -> <<"service", name>>
    [] kind = "ings" -> <<"ingress", name>> [] kind = "maps" -> <<"configmap", name>>

\* The handlers: a Pod has none, an update of a Service only counts when it changes a port, an
\* external name or a headless Service.
Handled(kind, old, cur) ==
  /\ kind # "pods"
  /\ kind = "svcs" /\ old # NoService /\ cur # NoService => hasServicedChanged(old, cur)

Deliver(kind, name) ==
  LET old == cache[kind][name]
      cur == api[kind][name]
      seen == [cache EXCEPT ![kind][name] = cur]
  IN /\ old # cur
     /\ cache' = seen
     /\ queue' = IF Handled(kind, old, cur) THEN AddSyncQueue(queue, TaskOf(kind, name)) ELSE queue
     /\ missed' = IF Handled(kind, old, cur) THEN missed
                  ELSE missed \cup {id \in Resources :
                         Generate(seen, id, state) # Generate(cache, id, state)}
     /\ UNCHANGED <<workload, api, changes, batch, batchReload, allOnBatch, state, panicked, miscounted, late>>

-----------------------------------------------------------------------------
(* The configurator.  s is a state with, in wrote, the files it wrote.       *)

Now == state @@ [wrote |-> {}]

Write(s, ids) ==
  [s EXCEPT !.wrote = @ \cup ids,
            !.files = [id \in DOMAIN @ |-> IF id \in ids THEN Generate(cache, id, s) ELSE @[id]]]

Reload(s, enabled) == IF enabled THEN [s EXCEPT !.running = s.files] ELSE s

\* AddOrUpdateResources, and the updates of a single resource: files, then a reload.
AddOrUpdateResources(s, ids, enabled) == Reload(Write(s, ids), enabled)

ApiUpdates(s, id) ==
  PlusUpdates(cache, Current(s, id)) \cup updatePlusExternalAuthEndpoints(cache, Current(s, id))

\* NGINX answers a request for an upstream it does not have with an error.
Known(s, updates) ==
  \A id \in DOMAIN updates : \A u \in updates[id] : u.name \in DOMAIN s.running[id].upstreams

WithServers(up, sent) == IF sent = {} THEN up ELSE [up EXCEPT !.servers = (CHOOSE u \in sent : TRUE).servers]

ServersInPlus(s, updates) ==
  [s EXCEPT !.running = [id \in DOMAIN s.running |->
     IF id \notin DOMAIN updates THEN s.running[id]
     ELSE [s.running[id] EXCEPT !.upstreams = [n \in DOMAIN s.running[id].upstreams |->
             WithServers(s.running[id].upstreams[n], {u \in updates[id] : u.name = n})]]]]

\* Mutant: a failed request to the API is not followed by a reload.
Apply_bug(s, updates, enabled, apiFails) ==
  IF ~enabled THEN s
  ELSE IF ~flags.plus THEN Reload(s, TRUE)
  ELSE IF apiFails \/ ~Known(s, updates) THEN s ELSE ServersInPlus(s, updates)

\* NGINX Plus takes the servers through its API or, when a request fails, with a reload;
\* neither happens while reloads are disabled.
Apply(s, updates, enabled, apiFails) ==
  IF enabled /\ flags.plus /\ ~apiFails /\ Known(s, updates) THEN ServersInPlus(s, updates)
  ELSE Reload(s, enabled)

\* The UpdateEndpoints functions.
UpdateEndpoints(s, ids, enabled, apiFails) ==
  Apply(Write(s, ids), [id \in ids |-> ApiUpdates(s, id)], enabled, apiFails)

-----------------------------------------------------------------------------
(* The tasks.                                                                *)

FindResourcesForService(svc) == {id \in Resources : IsReferencedBy(svc, Current(state, id))}

\* updateResourcesStatusAndEvents: only the resources in "with" have warnings.
Report(s, ids, with) ==
  [s EXCEPT !.status = [id \in Resources |->
      IF id \notin ids THEN s.status[id] ELSE IF id \in with THEN "Warning" ELSE "Valid"]]

TrackWarnings(s, found, with) ==
  IF with = {} /\ found \cap s.warned = {} THEN s
  ELSE [Report(s, found, with) EXCEPT !.warned =
          IF with # {} THEN s.warned \cup found ELSE s.warned \ found]

\* The warnings are those of the resources just updated; every resource of the Service is
\* reported with them.
updateEndpointSliceWarningState(s, found, updated) ==
  TrackWarnings(s, found, {id \in updated : Verdict(cache, id, s) = "Warning"})

\* The resources of one kind, when one of them needs it.
UpdateKind(s, kind, found, svc, enabled, apiFails) ==
  LET ids == {id \in found : R(id).kind = kind}
  IN IF ~\E id \in ids : RequiresEndpointsUpdate(svc, Current(s, id)) THEN s
     ELSE updateEndpointSliceWarningState(UpdateEndpoints(s, ids, enabled, apiFails),
            IF kind = "ts" THEN {} ELSE found, IF kind = "ts" THEN {} ELSE ids)

\* FindIngressesWithRatelimitScaling and findVirtualServersUsingRatelimitScaling; the
\* annotation has to be "true", not only a text that is read as true.
FindResourcesWithRatelimitScaling(s) ==
  {id \in Resources : R(id).scale \/ \E n \in Members(s, id) :
     ValueOf(s.stored[n].annotations, "limit-req-scale") = {"true"}}

\* The ready endpoints are compared with the count, which is then set to all of them, of this
\* slice.
Counted(replicas, slice) ==
  IF countReadyEndpoints(slice) = replicas THEN replicas ELSE Cardinality(slice.endpoints)

updateNumberOfIngressControllerReplicas(s, slice, enabled) ==
  IF countReadyEndpoints(slice) = s.replicas THEN s
  ELSE AddOrUpdateResources([s EXCEPT !.replicas = Counted(@, slice)],
                            FindResourcesWithRatelimitScaling(s), enabled)

syncEndpointSlices(slice, enabled, apiFails) ==
  LET update(s, kind) == UpdateKind(s, kind, FindResourcesForService(slice.svc), slice.svc,
                                     enabled, apiFails)
  IN IF slice = NoSlice THEN Now
     ELSE IF slice.svc = workload.own
     THEN updateNumberOfIngressControllerReplicas(Now, slice, enabled)
     ELSE FoldLeft(update, Now, << "ing", "vs", "ts" >>)

\* syncService and the sync of a resource.
Regenerated(s, ids, enabled) ==
  Report(AddOrUpdateResources(s, ids, enabled), ids,
         {id \in ids : Verdict(cache, id, s) = "Warning"})

\* An Ingress that is not valid is as one that is not there.
AcceptedOf(ing) == IF ing # NoIngress /\ validateIngress(ing, flags) THEN ing ELSE NoIngress

syncIngress(name, enabled) ==
  LET s == [Now EXCEPT !.stored[name] = AcceptedOf(cache.ings[name])]
      ids == {id \in Resources : name \in Members(state, id) \cup Members(s, id)}
  IN IF s.stored = state.stored THEN Now
     ELSE IF ids = {} THEN s ELSE Regenerated(s, ids, enabled)

\* The parameters, the main file and every other file, a reload, and the reports.
updateAllConfigs(s) ==
  LET apply(p) == [s EXCEPT !.params = p.set,
                    !.reported = IF s.configMap = NoConfigMap THEN @ ELSE IF p.ok THEN "updated" ELSE "errors"]
  IN Reload(Write(Regenerated(apply(ParseConfigMap(s.configMap, flags)), Resources, FALSE), {Main}), TRUE)

\* In a batch the configuration is only updated at its end.
syncConfigMap(name, enabled) ==
  LET s == [Now EXCEPT !.configMap = cache.maps[name]]
  IN IF enabled THEN updateAllConfigs(s) ELSE s

Synced(task, enabled, apiFails) ==
  CASE task[1] = "endpointslice" -> syncEndpointSlices(cache.slices[task[2]], enabled, apiFails)
    [] task[1] = "service" -> Regenerated(Now, FindResourcesForService(task[2]), enabled)
    [] task[1] = "resource" -> Regenerated(Now, {task[2]}, enabled)
    [] task[1] = "ingress" -> syncIngress(task[2], enabled)
    [] task[1] = "configmap" -> syncConfigMap(task[2], enabled)

\* The headless Service of zone-sync, owned by the ConfigMap; "panic" when there is none.
HeadlessService ==
  [type |-> "ClusterIP", ports |-> << >>, clusterIP |-> "None", selector |-> {"own"}, external |-> ""]
syncZoneSyncHeadlessService(s) ==
  CASE ZoneSync(s) /\ api.svcs["hl"] # NoService -> api.svcs["hl"]
    [] ZoneSync(s) /\ api.svcs["hl"] = NoService ->
         IF s.configMap = NoConfigMap THEN [type |-> "panic"] ELSE HeadlessService
    [] ~ZoneSync(s) -> NoService

\* Mutant: the Service is only synced after the ConfigMap.
SyncsZoneSync_bug(task) == flags.plus /\ task[1] = "configmap"

SyncsZoneSync(task) == flags.plus /\ task[1] \in {"configmap", "service"}

\* The end of a batch; a new ConfigMap makes the reload part of the update of everything.
EndBatch(s, all, reload) == IF all THEN updateAllConfigs(s) ELSE Reload(s, reload)

\* The active endpoints of the controller's Service.
Replicas(c) == Cardinality(filterReadyEndpointsFrom(GetServiceEndpointSlices(c, workload.own)))

\* Whether the count is still taken from a part of the Service, once a task is done.
Miscounted(task, s) ==
  LET slice == cache.slices[task[2]]
  IN CASE task[1] # "endpointslice" -> miscounted
       [] task[1] = "endpointslice" /\ slice = NoSlice -> miscounted \/ s.replicas # Replicas(cache)
       [] task[1] = "endpointslice" /\ slice # NoSlice /\ slice.svc # workload.own -> miscounted
       [] OTHER -> \/ GetServiceEndpointSlices(cache, slice.svc) # {slice}
                   \/ \E ep \in slice.endpoints : ep.ready # "true"

\* An EndpointSlice that is gone changes nothing.
Stale(task, s) ==
  IF task[1] = "endpointslice" /\ cache.slices[task[2]] = NoSlice
  THEN {id \in Resources : s.files[id] # Generate(cache, id, s)} ELSE {}

sync(apiFails) ==
  LET task == Head(queue)
      inBatch == batch \/ Len(Tail(queue)) > 1
      done == Tail(queue) = << >>
      all == allOnBatch \/ (inBatch /\ task[1] = "configmap")
      reload(s) == inBatch /\ (batchReload \/ task[1] # "endpointslice" \/ s.wrote # {})
  IN /\ queue # << >> /\ ~panicked
     /\ apiFails => flags.plus
     /\ queue' = Tail(queue)
     /\ batch' = (inBatch /\ ~done)
     /\ allOnBatch' = (all /\ ~done)
     /\ \E s \in {Synced(task, ~inBatch, apiFails)} :
        \E hl \in {IF SyncsZoneSync(task) THEN syncZoneSyncHeadlessService(s) ELSE api.svcs["hl"]} :
        \E e \in {IF inBatch /\ done /\ hl.type # "panic" THEN EndBatch(s, all, reload(s)) ELSE s} :
          /\ batchReload' = (reload(s) /\ ~done)
          /\ panicked' = (hl.type = "panic")
          /\ api' = IF hl.type = "panic" THEN api ELSE [api EXCEPT !.svcs["hl"] = hl]
          /\ state' = Restrict(e, DOMAIN state)
          /\ missed' = (missed \cup Stale(task, s)) \ e.wrote
          /\ miscounted' = Miscounted(task, s)
          /\ late' = ((late /\ ~SyncsZoneSync(task)) \/ ZoneSync(e) # ZoneSync(s))
     /\ UNCHANGED <<workload, cache, changes>>

\* Something else about a resource changes, and it is synced.
Touch(id) ==
  /\ changes < workload.maxChanges
  /\ changes' = changes + 1
  /\ queue' = AddSyncQueue(queue, <<"resource", id>>)
  /\ UNCHANGED <<workload, api, cache, batch, batchReload, allOnBatch, state, panicked, missed, miscounted, late>>

-----------------------------------------------------------------------------
\* What a cluster comes to, with n replicas: [replicas, stored, configMap, params, reported].
Settled(c, n) ==
  LET parsed == ParseConfigMap(c.maps["nginx"], flags)
  IN [replicas |-> n, configMap |-> c.maps["nginx"], params |-> parsed.set,
      reported |-> IF c.maps["nginx"] = NoConfigMap THEN "none" ELSE IF parsed.ok THEN "updated" ELSE "errors",
      stored |-> [name \in DOMAIN c.ings |-> AcceptedOf(c.ings[name])]]

Started(s) ==
  LET written == [id \in {Main} \cup Resources |-> Generate(cache, id, s)]
  IN s @@ [files |-> written, running |-> written, warned |-> {},
           status |-> [id \in Resources |-> Verdict(cache, id, s)]]

\* At the start the EndpointSlices are counted, at most one of them the controller's own, and
\* main makes the Service of zone-sync.
CountedAtStart(c) ==
  FoldSet(LAMBDA slice, n : Counted(n, slice), 0, GetServiceEndpointSlices(c, workload.own))

createAndValidateHeadlessService(c, s) ==
  IF flags.plus /\ ZoneSync(s) THEN [c EXCEPT !.svcs["hl"] = HeadlessService] ELSE c

Init ==
  /\ workload \in Workloads
  /\ \E s \in {Settled(workload.initially, CountedAtStart(workload.initially))} :
       /\ api = createAndValidateHeadlessService(workload.initially, s)
       /\ cache = api
       /\ state = Started(s)
  /\ changes = 0
  /\ queue = << >>
  /\ batch = FALSE /\ batchReload = FALSE /\ allOnBatch = FALSE
  /\ panicked = FALSE
  /\ missed = {}
  /\ miscounted = FALSE
  /\ late = FALSE

Next ==
  \/ \E kind \in Kinds : \E name \in DOMAIN workload.objects[kind] :
       \E object \in workload.objects[kind][name] \cup {NoObject(kind)} : Change(kind, name, object)
  \/ \E kind \in Kinds : \E name \in DOMAIN cache[kind] : Deliver(kind, name)
  \/ \E id \in workload.touched : Touch(id)
  \/ \E apiFails \in BOOLEAN : sync(apiFails)

Spec == Init /\ [][Next]_vars

-----------------------------------------------------------------------------
Idle == queue = << >> /\ cache = api /\ ~panicked

VirtualServers == {id \in Resources \ missed : R(id).kind = "vs"}

\* Whatever the order in which the Services, EndpointSlices, Pods, Ingresses and the ConfigMap of
\* the cluster reach the controller, alone or in batches, once it is idle every file is the one
\* that the cluster calls for, with the rate limits divided by the active endpoints of the
\* controller's Service: the handlers and the checks of which resources an event concerns
\* (FindResourcesForService, *RequiresEndpointsUpdate) let none slip.  Three gaps of the code
\* are left out: a change no handler looks at (Pods, most of a Service), an EndpointSlice that
\* was deleted, whose task returns at once, both until the resource is written again, and a
\* count of replicas taken from one of several EndpointSlices, or from one with endpoints that
\* are not ready, until one that is the whole Service is counted
\* (updateNumberOfIngressControllerReplicas).  A VirtualServer with a warning is reported with
\* it, and one that an EndpointSlice gave a warning is reported Valid again once it has none,
\* although the state is only reported when endpointSliceWarnings says it changed
\* (updateEndpointSliceWarningState).
EndpointsCurrent ==
  Idle =>
    /\ \E s \in {Settled(api, IF miscounted THEN state.replicas ELSE Replicas(api))} :
         \A id \in ({Main} \cup Resources) \ missed : state.files[id] = Generate(api, id, s)
    /\ \A id \in VirtualServers :
         /\ Verdict(api, id, state) = "Warning" => state.status[id] = "Warning"
         /\ id \in state.warned => state.status[id] = Verdict(api, id, state)

Served(f) == [n \in DOMAIN f.upstreams |-> f.upstreams[n].servers \ {Default}]

\* When the queue is empty NGINX runs with the servers and the settings that are in the files,
\* through the API of NGINX Plus, through a reload after a failed request, or through the reload
\* or the update of everything at the end of a batch (updateServersInPlus and Reload do nothing
\* in between).
RunningIsWritten ==
  queue = << >> /\ ~panicked => \A id \in DOMAIN state.files : \E f \in {state.files[id]}, r \in {state.running[id]} :
    /\ Served(r) = Served(f)
    /\ r.scale = f.scale /\ r.server = f.server /\ r.locations = f.locations

\* "resets to Valid when they don't, ensuring resources recover from Warning state when the
\* underlying issue (e.g. missing endpoints) resolves": no VirtualServer keeps a warning
\* about endpoints that are there.
WarningsClear ==
  Idle => \A id \in VirtualServers :
    state.status[id] = "Warning" => Verdict(api, id, state) = "Warning"

\* "finds the number of currently active endpoints for the service pointing at the
\* ingresscontroller" (controller.go:924).
ReplicasCounted == Idle => state.replicas = Replicas(api)

Addresses(slices) == {ep.ip : ep \in UNION {e.endpoints : e \in slices \ {NoSlice}}}

\* No file names an address of an EndpointSlice that was deleted.
DeletedSlicesForgotten ==
  LET ever == UNION {workload.objects.slices[n] \cup {workload.initially.slices[n]} : n \in DOMAIN api.slices}
      gone == Addresses(ever) \ Addresses(Range(api.slices))
  IN Idle => \A id \in Resources : \A n \in DOMAIN state.files[id].upstreams :
       \A server \in state.files[id].upstreams[n].servers : server[1] \notin gone

\* The headless Service that zone-sync needs is there exactly when zone-sync is on, also after
\* somebody else deleted it, but for a switch at the end of a batch, after which it waits for the
\* next event (syncZoneSyncHeadlessService).
ZoneSyncServed ==
  Idle /\ flags.plus /\ ~late => (api.svcs["hl"] # NoService <=> ZoneSync(state))

-----------------------------------------------------------------------------
\* The annotations whose effect depends on another one, that have an older name, or that are put
\* into another form, like the sizes of proxy buffers that are balanced.
Dependent ==
  {"health-checks", "health-checks-mandatory", "health-checks-mandatory-queue", "grpc-services",
   "rewrite-target", "limit-req-key", "app-protect-enable", "app-protect-security-log-enable",
   "ssl-redirect", "sticky-cookie-services", "jwt-realm", "jwt-token", "jwt-login-url"}
Independent ==
  DOMAIN annotationValidations \ (Dependent \cup IF flags.autoadjust THEN BufferKeys ELSE {})

\* What the validation of an annotation took it for; numbers above 2^63 are left out.
Meant(ann, k) == Read(annotationValidations[k], ann[k], flags.plus)
Given(ann, keys) == {k \in DOMAIN ann \cap Independent \cap keys : ann[k] # "2^63"}

Follow(settings, ann, keys) == \A k \in Given(ann, keys) : ValueOf(settings, k) = {Meant(ann, k)}
Same(settings, base, keys) == \A k \in keys : ValueOf(settings, k) = ValueOf(base, k)

\* In the locations of a minion its own annotations count, then those of the master it may
\* inherit, then the ConfigMap.
MinionHonoured(location, minion, master, base) ==
  LET keys == (LocationKeys \cup ServerOrMinionKeys) \cap Independent
      inherited == keys \cap minionInheritanceList
  IN /\ Follow(location, minion, keys)
     /\ Follow(location, master, inherited \ DOMAIN minion)
     /\ Same(location, base, (keys \ DOMAIN minion) \ (inherited \cap DOMAIN master))

\* Once the controller is idle, every annotation of an Ingress that validation accepted is in the
\* running NGINX as validation read it, although validation and generation parse it on their own
\* (annotationValidations, parseAnnotations); what an Ingress does not set is as the ConfigMap has
\* it, whichever of the two came last, and a minion changes nothing of its master's server.
AnnotationsHonoured ==
  Idle => \A id \in {i \in Resources : Members(state, i) # {}} :
    \E ann \in {[n \in Members(state, id) |-> api.ings[n].annotations]},
       base \in {BaseCfgParams(state.params)}, f \in {state.running[id]} :
      LET first == R(id).ings[1]
          server == ServerKeys \cap Independent
      IN /\ Follow(f.server, ann[first], server)
         /\ Same(f.server, base, server \ DOMAIN ann[first])
         /\ first \in DOMAIN f.locations => Follow(f.locations[first].settings, ann[first], LocationKeys)
         /\ \A n \in DOMAIN f.locations \ {first} :
              MinionHonoured(f.locations[n].settings, ann[n], ann[first], base)

\* The keys whose texts ParseConfigMap reads, and reports when it cannot.
ReportedKeys ==
  DOMAIN ProxyKeys \cup DOMAIN AddressAndLogKeys \cup DOMAIN BufferAndWorkerKeys
  \cup DOMAIN TemplateAndHashKeys \cup DOMAIN ResolverKeys \cup DOMAIN WallarmKeys
  \cup Range(OIDCOrder) \cup Range(ZoneSyncOrder) \cup {"disable-forwarded-headers"}

\* A ConfigMap that was reported with "updated without error" is in force: every key that is
\* parsed has its value in the running nginx.conf, none was dropped on the way (updateAllConfigs,
\* ParseConfigMap and its early returns).
ConfigMapInForce ==
  Idle /\ state.configMap # NoConfigMap /\ state.reported = "updated" =>
    DOMAIN api.maps["nginx"] \cap ReportedKeys \subseteq DOMAIN state.running[Main].server

\* The controller never creates the Service of zone-sync without the ConfigMap that owns it.
NeverPanics == ~panicked
=============================================================================
