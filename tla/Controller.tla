----------------------------- MODULE Controller -----------------------------
(***************************************************************************)
(* The LoadBalancerController around the Configuration                     *)
(* (internal/k8s/controller.go): users change objects of the cluster, the  *)
(* informers put their keys into the sync queue, and the one worker takes  *)
(* a key, applies the object to the Configuration, turns the returned      *)
(* changes into config files one at a time, and reports the state of the   *)
(* objects in their status.  When the queue drains for the first time the  *)
(* startup sequence writes every config and hands the deferred status      *)
(* updates to a background goroutine.                                      *)
(*                                                                         *)
(* NGINX accepts every config file here; RollbackManager models what       *)
(* happens when it does not.                                               *)
(***************************************************************************)
EXTENDS Configuration

CONSTANTS
  ReplacedUnseen,  \* may an object be deleted and created again between two syncs of its key?
  FlushOverlaps,   \* may the worker take a task while the startup flush is still running?
  NamespaceKeys,   \* the keys of the namespace that may lose its watch label
  Workloads        \* what the users of a cluster may do to it, each a record of
                   \*   objects               the objects they create and update
                   \*   globalConfigurations  and the GlobalConfigurations
                   \*   relabels              whether the namespace may lose its label
                   \*   startedUp             whether startup was over before they began

VARIABLES
  workload,
  cluster,       \* key -> object: the API server, as the informers' stores show it
  clusterGC,     \* {} or {the GlobalConfiguration}
  uids,          \* the UIDs used so far
  labelled,      \* does the namespace of NamespaceKeys have the watch label?
  watched,       \* are there informers for that namespace?
  queue,         \* the keys waiting in the sync queue
  phase,         \* where the worker is in sync()
  files,         \* key -> what its config file was generated from
  status,        \* key -> the state last written to the status of the object
  isNginxReady,
  pendingStatus, \* the status updates deferred until startup is complete
  flushing       \* the deferred updates that the flush goroutine still has to write

clusterVars == <<workload, cluster, clusterGC, uids, labelled, watched>>
statusVars == <<status, pendingStatus, flushing>>
vars == <<confVars, clusterVars, queue, phase, files, isNginxReady, statusVars>>

ObjectKeys == Keys(AllObjects)
GlobalConfigurationKey == "globalconfiguration"
NamespaceKey == "namespace"

\* A task has a kind, so no key of an object is one of the other two.
ASSUME TasksAssumption == {GlobalConfigurationKey, NamespaceKey} \cap ObjectKeys = {}

-----------------------------------------------------------------------------
(* The cluster.                                                            *)

\* The objects that the informers show.
Watched(key) == watched \/ key \notin NamespaceKeys
Visible == {k \in DOMAIN cluster : Watched(k)}

\* Every event adds the key of its object to the queue, which keeps one copy.
AddSyncQueue(key) == queue' = IF Watched(key) THEN queue \cup {key} ELSE queue

Create(o) ==
  /\ o \in workload.objects
  /\ o.key \notin DOMAIN cluster /\ o.uid \notin uids /\ o.gen = 1
  /\ ReplacedUnseen \/ o.key \notin queue
  /\ cluster' = Put(cluster, o.key, o)
  /\ uids' = uids \cup {o.uid}
  /\ status' = [status EXCEPT ![o.key] = "none"]
  /\ AddSyncQueue(o.key)
  /\ UNCHANGED <<confVars, workload, clusterGC, labelled, watched, phase, files,
                 isNginxReady, pendingStatus, flushing>>

\* A change of the spec increments the generation; a change of the annotations,
\* which the role of an Ingress is one of, does not.
NextVersion(old, o) ==
  /\ o # old /\ o.uid = old.uid /\ o.created = old.created
  /\ \/ o.gen = old.gen + 1
     \/ o.key \in Keys(Ingresses) /\ [o EXCEPT !.role = old.role] = old

Update(o) ==
  /\ o \in workload.objects
  /\ o.key \in DOMAIN cluster /\ NextVersion(cluster[o.key], o)
  /\ cluster' = Put(cluster, o.key, o)
  /\ AddSyncQueue(o.key)
  /\ UNCHANGED <<confVars, workload, clusterGC, uids, labelled, watched, phase, files,
                 isNginxReady, statusVars>>

Remove(key) ==
  /\ key \in DOMAIN cluster
  /\ cluster' = Without(cluster, key)
  /\ AddSyncQueue(key)
  /\ UNCHANGED <<confVars, workload, clusterGC, uids, labelled, watched, phase, files,
                 isNginxReady, statusVars>>

ChangeGlobalConfiguration(gcs) ==
  /\ gcs # clusterGC /\ gcs \subseteq workload.globalConfigurations
  /\ clusterGC' = gcs
  /\ AddSyncQueue(GlobalConfigurationKey)
  /\ UNCHANGED <<confVars, workload, cluster, uids, labelled, watched, phase, files,
                 isNginxReady, statusVars>>

ChangeNamespaceLabel ==
  /\ workload.relabels
  /\ labelled' = ~labelled
  /\ queue' = queue \cup {NamespaceKey}
  /\ UNCHANGED <<confVars, workload, cluster, clusterGC, uids, watched, phase, files,
                 isNginxReady, statusVars>>

-----------------------------------------------------------------------------
(* The worker.                                                             *)

\* The state of an object is written to the object of that key, if there is one.
WriteStatus(keys, state) ==
  status' = [k \in ObjectKeys |-> IF k \in keys \cap Visible THEN state ELSE status[k]]

\* The worker takes a task that is in the queue; the sync itself may add tasks.
Get(key, added) ==
  /\ phase = "idle" /\ key \in queue
  /\ FlushOverlaps \/ flushing = {}
  /\ queue' = (queue \ {key}) \cup added

Sync(key, addOrUpdate, delete) ==
  /\ Get(key, {}) /\ Watched(key)
  /\ phase' = "changes"
  /\ IF key \in DOMAIN cluster THEN addOrUpdate ELSE delete
  /\ UNCHANGED <<clusterVars, files, isNginxReady, statusVars>>

syncIngress(key) ==
  Sync(key, AddOrUpdateIngress(cluster[key]), DeleteIngress(key))

syncVirtualServer(key) ==
  Sync(key, AddOrUpdateVirtualServer(cluster[key]), DeleteVirtualServer(key))

syncVirtualServerRoute(key) ==
  Sync(key, AddOrUpdateVirtualServerRoute(cluster[key]), DeleteVirtualServerRoute(key))

syncTransportServer(key) ==
  Sync(key, AddOrUpdateTransportServer(cluster[key]), DeleteTransportServer(key))

syncGlobalConfiguration ==
  /\ Get(GlobalConfigurationKey, {})
  /\ phase' = "globalChanges"
  /\ IF clusterGC = {}
     THEN DeleteGlobalConfiguration
     ELSE \E gc \in clusterGC : AddOrUpdateGlobalConfiguration(gc)
  /\ UNCHANGED <<clusterVars, files, isNginxReady, statusVars>>

\* A task whose namespace has no informers any more: getNamespacedInformer returns
\* nil, and the lister is read through it.
syncUnwatched(key) ==
  /\ Get(key, {}) /\ ~Watched(key)
  /\ phase' = "crashed"
  /\ UNCHANGED <<confVars, clusterVars, files, isNginxReady, statusVars>>

\* updateVirtualServerStatusAndEvents and its siblings: the resource and its
\* children were applied.  Before NGINX is ready the write is deferred.
ReportApplied(resources) ==
  LET applied == WithChildren(resources) \cap ObjectKeys
  IN IF isNginxReady
     THEN WriteStatus(applied, "Applied") /\ UNCHANGED <<pendingStatus, flushing>>
     ELSE pendingStatus' = pendingStatus \cup applied /\ UNCHANGED <<status, flushing>>

\* The deletes of a change list come before its updates.
processDelete(key) ==
  /\ phase = "changes" /\ changes # <<>> /\ key \in Head(changes).deletes
  /\ files' = Without(files, key)
  \* the latest version of the resource carries a warning exactly when it lost its hosts
  /\ WriteStatus({key} \cap DOMAIN hostProblems, "Rejected")
  /\ changes' = [changes EXCEPT ![1].deletes = @ \ {key}]
  /\ UNCHANGED <<stores, built, startupComplete, problems, clusterVars, queue, phase,
                 isNginxReady, pendingStatus, flushing>>

\* Then the resources that lose one host or listener and keep or gain another,
\* then the others.
NextUpdates == IF Head(changes).moves # {} THEN Head(changes).moves ELSE Head(changes).updates

Processed(c, r) ==
  [deletes |-> c.deletes, moves |-> c.moves \ {r}, updates |-> c.updates \ {r}]

processAddOrUpdate(r) ==
  /\ phase = "changes" /\ changes # <<>> /\ Head(changes).deletes = {}
  /\ r \in NextUpdates
  /\ files' = Put(files, r.key, r.conf)
  /\ ReportApplied({r})
  /\ changes' = [changes EXCEPT ![1] = Processed(@, r)]
  /\ UNCHANGED <<stores, built, startupComplete, problems, clusterVars, queue, phase,
                 isNginxReady>>

NextChangeList ==
  /\ phase = "changes" /\ changes # <<>>
  /\ Head(changes).deletes = {} /\ NextUpdates = {}
  /\ changes' = Tail(changes)
  /\ UNCHANGED <<stores, built, startupComplete, problems, clusterVars, queue, phase, files,
                 isNginxReady, statusVars>>

\* What some change lists update and delete.
Updated(lists) == UNION {lists[i].moves \cup lists[i].updates : i \in DOMAIN lists}
Deleted(lists) == UNION {lists[i].deletes : i \in DOMAIN lists}

\* Every updated config is written, then every deleted one is removed, and NGINX
\* is reloaded once.
processChangesFromGlobalConfiguration ==
  /\ phase = "globalChanges"
  /\ files' = [k \in (DOMAIN files \cup Keys(Updated(changes))) \ Deleted(changes) |->
                 IF k \in Keys(Updated(changes))
                 THEN (CHOOSE r \in Updated(changes) : r.key = k).conf
                 ELSE files[k]]
  /\ ReportApplied(Updated(changes))
  /\ changes' = <<>>
  /\ phase' = "changes"
  /\ UNCHANGED <<stores, built, startupComplete, problems, clusterVars, queue, isNginxReady>>

ProblemStatus ==
  [k \in ObjectKeys |->
     IF k \in DOMAIN problems \cap Visible
     THEN IF problems[k] = "Invalid" THEN "Invalid" ELSE "Rejected"
     ELSE status[k]]

processProblems ==
  /\ phase = "changes" /\ changes = <<>>
  /\ status' = ProblemStatus
  /\ problems' = EmptyMap
  /\ phase' = "tail"
  /\ UNCHANGED <<stores, built, startupComplete, changes, clusterVars, queue, files,
                 isNginxReady, pendingStatus, flushing>>

-----------------------------------------------------------------------------
(* syncNamespace, for a namespace that gains or loses the watch label, or is *)
(* deleted.                                                                  *)

\* New informers report every object of the namespace.
WatchNamespace ==
  /\ labelled
  /\ Get(NamespaceKey, IF watched THEN {} ELSE NamespaceKeys \cap DOMAIN cluster)
  /\ watched' = TRUE
  /\ phase' = "tail"
  /\ UNCHANGED <<confVars, workload, cluster, clusterGC, uids, labelled, files, isNginxReady,
                 statusVars>>

\* The namespace has lost the label; or it was deleted, after its objects: then the informers
\* are stopped, and the Configuration is left to the events of the objects.
UnwatchNamespace ==
  /\ ~labelled
  /\ Get(NamespaceKey, {})
  /\ \/ /\ phase' = IF watched THEN "unwatchIngresses" ELSE "tail"
        /\ UNCHANGED watched
     \/ /\ NamespaceKeys \cap DOMAIN cluster = {}
        /\ watched' = FALSE
        /\ phase' = "tail"
  /\ UNCHANGED <<confVars, workload, cluster, clusterGC, uids, labelled, files, isNginxReady,
                 statusVars>>

WithoutKeys(f, keys) == [k \in DOMAIN f \ keys |-> f[k]]

\* the config files not deleted
cleanupListed_bug(listed) ==
  /\ ingresses' = WithoutKeys(ingresses, listed)
  /\ virtualServers' = WithoutKeys(virtualServers, listed)
  /\ transportServers' = WithoutKeys(transportServers, listed)
  /\ virtualServerRoutes' = WithoutKeys(virtualServerRoutes, listed)
  /\ UNCHANGED <<globalConfiguration, startupComplete, changes, problems, minionsByHost>>
  /\ rebuildListenerHosts
  /\ IF startupComplete THEN rebuildHosts ELSE UNCHANGED <<hosts, hostProblems>>
  /\ UNCHANGED files

\* One loop of cleanupUnwatchedNamespacedResources: the objects of a kind that the
\* lister shows leave the Configuration, one by one, and their config files go.
\* What the calls return is dropped, and the last rebuild is the one that stays.
cleanupListed(listed) ==
  /\ ingresses' = WithoutKeys(ingresses, listed)
  /\ virtualServers' = WithoutKeys(virtualServers, listed)
  /\ transportServers' = WithoutKeys(transportServers, listed)
  /\ virtualServerRoutes' = WithoutKeys(virtualServerRoutes, listed)
  /\ minionsByHost' =
       [h \in {g \in DOMAIN minionsByHost : ~(minionsByHost[g] \subseteq listed)} |->
          minionsByHost[h] \ listed]
  /\ UNCHANGED <<globalConfiguration, startupComplete, changes, problems>>
  /\ rebuildListenerHosts
  /\ IF startupComplete THEN rebuildHosts ELSE UNCHANGED <<hosts, hostProblems>>
  /\ files' = WithoutKeys(files, listed)

cleanupKind(this, objects, next) ==
  /\ phase = this
  /\ cleanupListed(NamespaceKeys \cap DOMAIN cluster \cap Keys(objects))
  /\ phase' = next
  /\ UNCHANGED <<clusterVars, queue, isNginxReady, statusVars>>

\* Then the informers are stopped and forgotten.
stopInformers ==
  /\ phase = "unwatched"
  /\ watched' = FALSE
  /\ phase' = "tail"
  /\ UNCHANGED <<confVars, workload, cluster, clusterGC, uids, labelled, queue, files,
                 isNginxReady, statusVars>>

cleanupUnwatchedNamespacedResources ==
  \/ cleanupKind("unwatchIngresses", Ingresses, "unwatchVirtualServers")
  \/ cleanupKind("unwatchVirtualServers", VirtualServers, "unwatchTransportServers")
  \/ cleanupKind("unwatchTransportServers", TransportServers, "unwatchRoutes")
  \/ cleanupKind("unwatchRoutes", VirtualServerRoutes, "unwatched")
  \/ stopInformers

-----------------------------------------------------------------------------
(* The end of sync(), and the startup sequence when the queue has drained.  *)

\* the worker held until NGINX is ready
EndSync_bug ==
  /\ phase = "tail" /\ isNginxReady
  /\ phase' = "idle"
  /\ UNCHANGED <<confVars, clusterVars, queue, files, isNginxReady, statusVars>>

EndSync ==
  /\ phase = "tail" /\ (isNginxReady \/ queue # {})
  /\ phase' = "idle"
  /\ UNCHANGED <<confVars, clusterVars, queue, files, isNginxReady, statusVars>>

StartupRebuild ==
  /\ phase = "tail" /\ ~isNginxReady /\ queue = {}
  /\ CompleteStartup
  /\ phase' = "startup"
  /\ UNCHANGED <<clusterVars, queue, files, isNginxReady, statusVars>>

GetResources == Values(hosts) \cup Values(listenerHosts)

\* processProblems, then updateAllConfigs, whose status updates are still
\* deferred; then the pod is ready and the deferred updates are handed over.
\* The changes that CompleteStartup returned are not looked at.
StartupConfigs ==
  /\ phase = "startup"
  /\ status' = ProblemStatus
  /\ files' = [k \in DOMAIN files \cup Keys(GetResources) |->
                 IF k \in Keys(GetResources)
                 THEN (CHOOSE r \in GetResources : r.key = k).conf
                 ELSE files[k]]
  /\ flushing' = pendingStatus
                   \cup (WithChildren(GetResources) \cap ObjectKeys)
  /\ pendingStatus' = {}
  /\ isNginxReady' = TRUE
  /\ changes' = <<>> /\ problems' = EmptyMap
  /\ phase' = "idle"
  /\ UNCHANGED <<stores, built, startupComplete, clusterVars, queue>>

\* One worker of the flush pool writes one deferred update.
runStatusFlush(key) ==
  /\ key \in flushing
  /\ flushing' = flushing \ {key}
  /\ WriteStatus({key}, "Applied")
  /\ UNCHANGED <<confVars, clusterVars, queue, phase, files, isNginxReady, pendingStatus>>

-----------------------------------------------------------------------------
Init ==
  /\ ConfInit
  /\ workload \in Workloads /\ startupComplete = workload.startedUp
  /\ cluster = EmptyMap /\ clusterGC = {} /\ uids = {}
  /\ labelled = TRUE /\ watched = TRUE
  /\ queue = {} /\ phase = "idle" /\ files = EmptyMap
  /\ isNginxReady = startupComplete
  /\ status = [k \in ObjectKeys |-> "none"]
  /\ pendingStatus = {} /\ flushing = {}

ClusterNext ==
  \/ \E o \in AllObjects : Create(o) \/ Update(o)
  \/ \E k \in ObjectKeys : Remove(k)
  \/ \E gcs \in {{}} \cup {{gc} : gc \in GlobalConfigurations} : ChangeGlobalConfiguration(gcs)
  \/ ChangeNamespaceLabel

WorkerNext ==
  \/ \E k \in Keys(Ingresses) : syncIngress(k)
  \/ \E k \in Keys(VirtualServers) : syncVirtualServer(k)
  \/ \E k \in Keys(VirtualServerRoutes) : syncVirtualServerRoute(k)
  \/ \E k \in Keys(TransportServers) : syncTransportServer(k)
  \/ syncGlobalConfiguration
  \/ \E k \in NamespaceKeys : syncUnwatched(k)
  \/ WatchNamespace
  \/ UnwatchNamespace
  \/ cleanupUnwatchedNamespacedResources
  \/ \E k \in ObjectKeys : processDelete(k)
  \/ changes # <<>> /\ \E r \in NextUpdates : processAddOrUpdate(r)
  \/ NextChangeList
  \/ processChangesFromGlobalConfiguration
  \/ processProblems
  \/ EndSync
  \/ StartupRebuild
  \/ StartupConfigs

FlushNext == \E k \in flushing : runStatusFlush(k)

Next == ClusterNext \/ WorkerNext \/ FlushNext

Spec == Init /\ [][Next]_vars

\* One goroutine runs the worker loop and another the flush; neither stops.
FairSpec == Spec /\ WF_vars(WorkerNext) /\ WF_vars(FlushNext)
-----------------------------------------------------------------------------
(* Properties.                                                             *)

\* Every variable has its type: the configuration is well formed, files and
\* statuses belong to known objects, and sync() is at one of its steps.
TypeOK ==
  /\ ConfTypeOK
  /\ DOMAIN cluster \subseteq ObjectKeys
  /\ \A k \in DOMAIN cluster : cluster[k] \in AllObjects /\ cluster[k].key = k
  /\ clusterGC \subseteq GlobalConfigurations
  /\ queue \subseteq ObjectKeys \cup {GlobalConfigurationKey, NamespaceKey}
  /\ phase \in {"idle", "changes", "globalChanges", "unwatchIngresses", "unwatchVirtualServers",
                "unwatchTransportServers", "unwatchRoutes", "unwatched", "tail", "startup",
                "crashed"}
  /\ DOMAIN files \subseteq ObjectKeys
  /\ status \in [ObjectKeys -> {"none", "Applied", "Rejected", "Invalid"}]
  /\ pendingStatus \subseteq ObjectKeys /\ flushing \subseteq ObjectKeys

\* A store agrees with the cluster on a key: it holds the object if that is valid, and
\* nothing when the controller is not to see the key.
Agrees(store, key, visible) ==
  IF visible
  THEN /\ key \in DOMAIN store <=> key \in DOMAIN cluster /\ cluster[key].check = "ok"
       /\ key \in DOMAIN store => store[key] = cluster[key]
  ELSE key \notin DOMAIN store

\* It does on every key that is not in the queue; "cleaned" are the phases in which the
\* cleanup of a namespace is past the kind.
Current(store, objects, cleaned) ==
  \A k \in Keys(objects) \ queue :
    Agrees(store, k, Watched(k) /\ ~(k \in NamespaceKeys /\ phase \in cleaned))

\* The Configuration never lags behind the cluster by more than the keys in the queue: a key
\* that is not queued has been synced after the last change of its object, through relabelled
\* namespaces as well (AddSyncQueue, sync, cleanupUnwatchedNamespacedResources).
StoresCurrent ==
  phase # "crashed" =>
    /\ Current(ingresses, Ingresses, {"unwatchVirtualServers", "unwatchTransportServers",
                                      "unwatchRoutes", "unwatched"})
    /\ Current(virtualServers, VirtualServers,
               {"unwatchTransportServers", "unwatchRoutes", "unwatched"})
    /\ Current(transportServers, TransportServers, {"unwatchRoutes", "unwatched"})
    /\ Current(virtualServerRoutes, VirtualServerRoutes, {"unwatched"})

\* The worker has nothing to do: every event so far has been synced.
Quiescent == phase = "idle" /\ queue = {} /\ isNginxReady

\* Once the queue has drained, the config files are exactly those of the active
\* resources, each generated from the resource as it is in memory ("the NGINX
\* config on the filesystem reflects the state of the objects in the
\* Configuration", configuration.go).
FilesReflectConfiguration ==
  Quiescent =>
    files = [k \in Keys(GetResources) |-> (CHOOSE r \in GetResources : r.key = k).conf]

\* The contract of IsEqual: resources that it takes for the same have the same config, and a
\* TransportServer stays on the side of the host map or of the listener map.  The code relies
\* on it when it drops a resource from the changes, and when it processes the changes of the
\* two maps one after the other.
ComparisonSuffices ==
  /\ \A h \in DOMAIN hosts \cap DOMAIN hosts' :
       IsEqual(hosts[h], hosts'[h]) => hosts[h].conf = hosts'[h].conf
  /\ \A lh \in DOMAIN listenerHosts \cap DOMAIN listenerHosts' :
       IsEqual(listenerHosts[lh], listenerHosts'[lh]) =>
         listenerHosts[lh].conf = listenerHosts'[lh].conf
  /\ \A k \in DOMAIN transportServers \cap DOMAIN transportServers' :
       isTLSPassthrough(transportServers[k]) <=> isTLSPassthrough(transportServers'[k])

\* What IsEqual does not look at stays as it is: the address of a listener whose port stays,
\* the spec of a solver Ingress, the side of a TransportServer.
Comparable(w) ==
  /\ \A g1, g2 \in w.globalConfigurations : \A l \in DOMAIN g1 \cap DOMAIN g2 :
       g1[l].port = g2[l].port => g1[l].ip = g2[l].ip
  /\ \A o, p \in w.objects :
       o.key = p.key =>
         /\ o.key \in Keys(Ingresses) /\ o.challenge /\ p.challenge => o.body = p.body
         /\ o.key \in Keys(TransportServers) => (isTLSPassthrough(o) <=> isTLSPassthrough(p))

\* The files are those of the active resources, but for the changes that the worker still
\* has to process.
FilesFollow ==
  /\ Updated(changes) \subseteq GetResources
  /\ Deleted(changes) \cap Keys(GetResources) = {}
  /\ DOMAIN files \subseteq Keys(GetResources) \cup Deleted(changes)
  /\ \A r \in GetResources \ Updated(changes) : r.key \in DOMAIN files /\ files[r.key] = r.conf
  /\ phase \in {"idle", "tail"} => changes = <<>>
  /\ phase = "startup" => Deleted(changes) = {}

Accepted == {cluster[k] : k \in {j \in Visible : cluster[j].check = "ok"}}

OfKind(objects) == {o \in Accepted : o.key \in Keys(objects)}

\* The valid objects of the cluster that want a host, read off the cluster alone.
Wanting(h) ==
  LET solved == isCertManagerEnabled /\ \E vs \in OfKind(VirtualServers) : vs.host = h
  IN {ing \in OfKind(Ingresses) :
        h \in ing.hosts /\ ing.role # "minion" /\ ~(ing.challenge /\ solved)}
       \cup {vs \in OfKind(VirtualServers) : vs.host = h}
       \cup {ts \in OfKind(TransportServers) :
               isTLSPassthroughEnabled /\ ts.protocol = "TLS_PASSTHROUGH" /\ ts.host = h}

Older(o, p) == o.created < p.created \/ (o.created = p.created /\ o.uid > p.uid)

\* The config files with a server for the host (a TCP or UDP TransportServer
\* serves a listener).
Serving(h) ==
  {k \in DOMAIN files :
     \/ k \in Keys(Ingresses) /\ h \in files[k].hosts
     \/ k \in Keys(VirtualServers) /\ h = files[k].host
     \/ k \in Keys(TransportServers) /\ h = files[k].host /\ files[k].listener = "tls-passthrough"}

\* Once the queue has drained, a host is served by the config of the oldest valid
\* object of the cluster that wants it, and by no other: what the conflict
\* resolution of buildHostsAndResources promises, whatever the order of events.
HostServedByOldest ==
  Quiescent =>
    \A h \in Hosts :
      Serving(h) = {o.key : o \in {w \in Wanting(h) : \A v \in Wanting(h) \ {w} : Older(w, v)}}

\* At no time, not even between two changes of one sync, do two config files have
\* a server for the same host ("That will prevent any host collisions in the
\* NGINX config in the state between the changes", createResourceChangesForHosts).
NoHostCollision == \A h \in Hosts : Cardinality(Serving(h)) <= 1

\* At no time do two TransportServer configs listen for the same listener and host
\* (the same promise in createResourceChangesForListeners).
NoListenerCollision ==
  \A k1, k2 \in DOMAIN files \cap Keys(TransportServers) :
    /\ files[k1].listener = files[k2].listener
    /\ files[k1].host = files[k2].host
    => k1 = k2

\* Once the queue has drained and the startup flush is over, the status of every
\* object tells what became of it: Invalid when the validator rejected it, Applied
\* when it is part of the NGINX config, Rejected when it lost its host, listener,
\* master or VirtualServer.  (A solver Ingress that became a route has no status.)
StatusAccurate ==
  Quiescent /\ flushing = {} =>
    \A k \in Visible :
      /\ cluster[k].check = "invalid" => status[k] = "Invalid"
      /\ cluster[k].check = "ok" /\ ~(k \in Keys(Ingresses) /\ cluster[k].challenge) =>
           status[k] = (IF k \in WithChildren(GetResources) THEN "Applied" ELSE "Rejected")

\* Once the users run out of moves the controller catches up: every queued event
\* leads to a state with an empty queue, every config written and every status
\* reported (sync and the startup block, flushPendingStatusesAsync).
Converges == queue # {} ~> Quiescent /\ flushing = {}

StoredKeys ==
  DOMAIN ingresses \cup DOMAIN virtualServers \cup DOMAIN transportServers
    \cup DOMAIN virtualServerRoutes

\* When a namespace is no longer watched, nothing of it is left in the
\* Configuration or on disk ("we need to remove any configuration for resources
\* deployed in that namespace and still maintained by us",
\* cleanupUnwatchedNamespacedResources).
UnwatchedLeavesNothing ==
  ~watched /\ phase # "crashed" =>
    NamespaceKeys \cap (DOMAIN files \cup StoredKeys \cup Keys(GetResources)) \subseteq queue
=============================================================================
