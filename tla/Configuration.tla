--------------------------- MODULE Configuration ---------------------------
(***************************************************************************)
(* The in-memory Configuration of the Ingress Controller                   *)
(* (internal/k8s/configuration.go): the valid objects of the watched       *)
(* kinds, the map from each host to the one resource that owns it, the map *)
(* from each (listener, host) pair to the one TransportServer that owns    *)
(* it, and the changes and problems that every operation returns to the    *)
(* controller.                                                             *)
(*                                                                         *)
(* An object is a record.  Every object has                                *)
(*   key      its kind, namespace and name (keys of two kinds differ);     *)
(*   created  its creation timestamp, in seconds;                          *)
(*   uid      its UID, compared as the code compares the strings;          *)
(*   gen      its metadata.generation;                                     *)
(*   check    "ok", "invalid" (the validator rejects it) or "other" (its   *)
(*            ingress class belongs to another controller);                *)
(*   body     everything else in its spec that reaches the NGINX config.   *)
(* An Ingress adds role, hosts, paths and challenge; a VirtualServer adds  *)
(* host, routes, http and https; a VirtualServerRoute adds host; a         *)
(* TransportServer adds host, listener and protocol.                       *)
(*                                                                         *)
(* A definition whose name ends in _bug is a plausible mistake in the      *)
(* definition after it.  No specification uses one; they show that a       *)
(* property would notice the mistake.                                      *)
(***************************************************************************)
EXTENDS Naturals, FiniteSets, Sequences

CONSTANTS
  Hosts,                    \* host names
  MaxUID,                   \* the largest UID
  Ingresses,                \* the Ingress objects that can be passed in
  VirtualServers,           \* the VirtualServer objects
  VirtualServerRoutes,      \* the VirtualServerRoute objects
  TransportServers,         \* the TransportServer objects
  GlobalConfigurations,     \* the GlobalConfigurations, after validation:
                            \* functions from listener names to listeners
  isTLSPassthroughEnabled,  \* -enable-tls-passthrough
  isCertManagerEnabled      \* -enable-cert-manager

VARIABLES
  ingresses, virtualServers, virtualServerRoutes, transportServers,
                            \* the valid objects: functions from keys to objects
  globalConfiguration,      \* the listeners of the GlobalConfiguration
  minionsByHost,            \* the index of the minions: host -> keys
  hosts,                    \* host -> the resource that owns it
  listenerHosts,            \* <<listener, host>> -> the TransportServer
  hostProblems,             \* key -> problem, of the last rebuildHosts
  listenerProblems,         \* key -> problem, of the last rebuildListenerHosts
  startupComplete,
  changes,                  \* returned: a sequence of squashed change lists
  problems                  \* returned: key -> "Warning" or "Invalid"

stores == <<ingresses, virtualServers, virtualServerRoutes, transportServers,
            globalConfiguration, minionsByHost>>
built == <<hosts, listenerHosts, hostProblems, listenerProblems>>
confVars == <<stores, built, startupComplete, changes, problems>>

-----------------------------------------------------------------------------
(* Functions as Go maps.                                                   *)

EmptyMap == [x \in {} |-> x]
Values(f) == {f[x] : x \in DOMAIN f}
Put(f, k, v) == [x \in DOMAIN f \cup {k} |-> IF x = k THEN v ELSE f[x]]
Without(f, k) == [x \in DOMAIN f \ {k} |-> f[x]]

Keys(objects) == {o.key : o \in objects}

AllObjects == Ingresses \cup VirtualServers \cup VirtualServerRoutes \cup TransportServers

-----------------------------------------------------------------------------
(* What the API server and the validators guarantee about the objects.     *)

ASSUME FlagsAssumption == isTLSPassthroughEnabled \in BOOLEAN /\ isCertManagerEnabled \in BOOLEAN

\* A key names the kind of its object.
ASSUME KindsAssumption ==
  /\ Keys(Ingresses) \cap Keys(VirtualServers) = {}
  /\ Keys(Ingresses) \cap Keys(VirtualServerRoutes) = {}
  /\ Keys(Ingresses) \cap Keys(TransportServers) = {}
  /\ Keys(VirtualServers) \cap Keys(VirtualServerRoutes) = {}
  /\ Keys(VirtualServers) \cap Keys(TransportServers) = {}
  /\ Keys(VirtualServerRoutes) \cap Keys(TransportServers) = {}

\* UIDs are strings of a fixed length, so there is a largest one, and the objects
\* of two keys never share one.
ASSUME MetadataAssumption ==
  /\ MaxUID \in Nat
  /\ \A o \in AllObjects : o.created \in Nat /\ o.gen \in Nat /\ o.uid \in 0..MaxUID
  /\ \A o, p \in AllObjects : o.uid = p.uid => o.key = p.key

\* An Ingress is the record described above, and nothing else.
ASSUME FieldsAssumption ==
  \A ing \in Ingresses :
    ing = [key |-> ing.key, created |-> ing.created, uid |-> ing.uid, gen |-> ing.gen,
           check |-> ing.check, body |-> ing.body, role |-> ing.role, hosts |-> ing.hosts,
           paths |-> ing.paths, challenge |-> ing.challenge]

\* The port of a listener is a port number.
ASSUME ListenersAssumption ==
  \A gc \in GlobalConfigurations : \A l \in DOMAIN gc : gc[l].port \in Nat \ {0}

ASSUME RolesAssumption == \A ing \in Ingresses : ing.role \in {"regular", "master", "minion"}

\* A minion or master that passes validation has exactly one host, and so has a
\* solver Ingress of cert-manager.
ASSUME HostsAssumption ==
  /\ \A ing \in Ingresses :
       /\ ing.hosts \subseteq Hosts
       /\ (ing.role \in {"minion", "master"} \/ ing.challenge) /\ ing.check = "ok" =>
            \E h \in Hosts : ing.hosts = {h}
  /\ \A o \in VirtualServers \cup VirtualServerRoutes \cup TransportServers : o.host \in Hosts

-----------------------------------------------------------------------------
(* Who wins a host, a listener or a path.                                  *)

\* the smaller UID wins
chooseObjectMetaWinner_bug(meta1, meta2) ==
  IF meta1.created = meta2.created THEN meta1.uid < meta2.uid
                                   ELSE meta1.created < meta2.created

\* The older object wins; two objects of the same second are told apart by UID.
chooseObjectMetaWinner(meta1, meta2) ==
  IF meta1.created = meta2.created THEN meta1.uid > meta2.uid
                                   ELSE meta1.created < meta2.created

\* the comparison the wrong way round
Winner_bug(claimants) ==
  CHOOSE o \in claimants :
    \A p \in claimants \ {o} : chooseObjectMetaWinner(p, o)

\* The claimant that every comparison of the build loop leaves in place.
Winner(claimants) ==
  CHOOSE o \in claimants :
    \A p \in claimants \ {o} : chooseObjectMetaWinner(o, p)

-----------------------------------------------------------------------------
(* Step 1-3 of buildHostsAndResources: who claims which host.              *)

isMinion(ing) == ing.role = "minion"
isMaster(ing) == ing.role = "master"

\* A solver Ingress of cert-manager becomes a route of the VirtualServers of its
\* host, when there is one, and claims nothing itself.
convertedToVSR(ing) ==
  /\ isCertManagerEnabled
  /\ ing.challenge
  /\ ~isMinion(ing)
  /\ \E vs \in Values(virtualServers) : vs.host \in ing.hosts

TLSPassthroughListenerName == "tls-passthrough"
TLSPassthroughListenerProtocol == "TLS_PASSTHROUGH"

isTLSPassthrough(ts) ==
  \/ ts.listener = TLSPassthroughListenerName
  \/ ts.protocol = TLSPassthroughListenerProtocol

\* A TransportServer that passes validation has both the name and the protocol of
\* the built-in listener, and only when TLS passthrough is enabled, or neither.
ASSUME TransportServersAssumption ==
  \A ts \in TransportServers :
    ts.check = "ok" /\ isTLSPassthrough(ts) =>
      /\ isTLSPassthroughEnabled
      /\ ts.listener = TLSPassthroughListenerName
      /\ ts.protocol = TLSPassthroughListenerProtocol

HostIngresses ==
  {ing \in Values(ingresses) : ~isMinion(ing) /\ ~convertedToVSR(ing)}

HostTransportServers ==
  IF isTLSPassthroughEnabled
  THEN {ts \in Values(transportServers) : isTLSPassthrough(ts)}
  ELSE {}

Claimants(h) ==
  {ing \in HostIngresses : h \in ing.hosts}
    \cup {vs \in Values(virtualServers) : vs.host = h}
    \cup {ts \in HostTransportServers : ts.host = h}

ClaimedHosts == {h \in Hosts : Claimants(h) # {}}

-----------------------------------------------------------------------------
(* The resources: what IngressConfiguration, VirtualServerConfiguration and *)
(* TransportServerConfiguration hold.  A resource is a record:              *)
(*   key, kind   GetKeyWithKind, and the Go type (masters set apart);       *)
(*   holds       the hosts, or (listener, host) pairs, it is active on;     *)
(*   children    the keys of its minions or VirtualServerRoutes;            *)
(*   compared    what IsEqual and detectChangesInHosts look at;             *)
(*   conf        what the NGINX config of the resource is generated from.   *)

MinionsOf(h) ==
  IF h \in DOMAIN minionsByHost
  THEN {ingresses[k] : k \in minionsByHost[h] \cap DOMAIN ingresses}
  ELSE {}

\* A path that two minions of a host define goes to the winner.
ValidPaths(minion, minions) ==
  {p \in minion.paths :
     \A m \in minions \ {minion} :
       p \in m.paths => chooseObjectMetaWinner(minion, m)}

buildMinionConfigs(ing) ==
  IF isMaster(ing) THEN UNION {MinionsOf(h) : h \in ing.hosts} ELSE {}

\* The hosts that an object wants and holds.
validHosts(o, wanted) == {h \in wanted : Winner(Claimants(h)) = o}

NewIngressConfiguration(ing, minions, held) ==
  [key |-> ing.key, kind |-> ing.role, holds |-> held,
   children |-> {m.key : m \in minions},
   compared |-> [gen |-> ing.gen, role |-> ing.role, hosts |-> ing.hosts,
                 minions |-> {<<m.key, m.gen>> : m \in minions}],
   conf |-> [role |-> ing.role, body |-> ing.body, hosts |-> held,
             minions |-> {<<m.key, m.body, ValidPaths(m, minions)>> : m \in minions}]]

IngressConfiguration(ing) ==
  NewIngressConfiguration(ing, buildMinionConfigs(ing), validHosts(ing, ing.hosts))

\* The routes of a VirtualServer name VirtualServerRoutes; one that does not
\* exist, or has another host, is left out with a warning.
buildVirtualServerRoutes(vs) ==
  {virtualServerRoutes[k] :
     k \in {r \in vs.routes \cap DOMAIN virtualServerRoutes :
              virtualServerRoutes[r].host = vs.host}}

challengesVSR(vs) ==
  {ing \in Values(ingresses) : convertedToVSR(ing) /\ vs.host \in ing.hosts}

\* The port and address a VirtualServer listens on; a listener that is missing,
\* not HTTP or of the wrong ssl setting leaves the defaults.
assignListener(name, isSSL) ==
  IF /\ name \in DOMAIN globalConfiguration
     /\ globalConfiguration[name].protocol = "HTTP"
     /\ globalConfiguration[name].ssl = isSSL
  THEN [port |-> globalConfiguration[name].port, ip |-> globalConfiguration[name].ip]
  ELSE [port |-> 0, ip |-> "default"]

VirtualServerConfiguration(vs) ==
  LET vsrs == buildVirtualServerRoutes(vs)
      solvers == challengesVSR(vs)
      http == assignListener(vs.http, FALSE)
      https == assignListener(vs.https, TRUE)
  IN [key |-> vs.key, kind |-> "VirtualServer",
      holds |-> validHosts(vs, {vs.host}),
      children |-> {r.key : r \in vsrs},
      compared |-> [gen |-> vs.gen, http |-> http, httpsPort |-> https.port,
                    \* the VirtualServerRoute made from a solver Ingress has no generation
                    vsrs |-> {<<r.key, r.gen>> : r \in vsrs} \cup {<<i.key, 0>> : i \in solvers}],
      conf |-> [body |-> vs.body, host |-> vs.host, http |-> http, https |-> https,
                vsrs |-> {<<r.key, r.body>> : r \in vsrs} \cup {<<i.key, i.body>> : i \in solvers}]]

TransportServerConfiguration(ts, holds, port, ip) ==
  [key |-> ts.key, kind |-> "TransportServer", holds |-> holds, children |-> {},
   compared |-> [gen |-> ts.gen, port |-> port],
   conf |-> [body |-> ts.body, host |-> ts.host, listener |-> ts.listener,
             port |-> port, ip |-> ip]]

\* NewTransportServerConfiguration leaves the listener's port and address unset.
PassthroughConfiguration(ts) ==
  TransportServerConfiguration(ts, validHosts(ts, {ts.host}), 0, "default")

HostResource(o) ==
  IF o \in Values(ingresses) THEN IngressConfiguration(o)
  ELSE IF o \in Values(virtualServers) THEN VirtualServerConfiguration(o)
  ELSE PassthroughConfiguration(o)

\* The objects that some resources were made of.
WithChildren(resources) == UNION {{r.key} \cup r.children : r \in resources}

newHosts == [h \in ClaimedHosts |-> HostResource(Winner(Claimants(h)))]

-----------------------------------------------------------------------------
(* buildListenerHostsAndTSConfigurations.                                  *)

ListenerTransportServers ==
  {ts \in Values(transportServers) : ts.protocol # TLSPassthroughListenerProtocol}

hasListener(ts) ==
  /\ ts.listener \in DOMAIN globalConfiguration
  /\ globalConfiguration[ts.listener].protocol = ts.protocol

listenerHostKey(ts) == <<ts.listener, ts.host>>

ListenerClaimants(lh) ==
  {ts \in ListenerTransportServers : hasListener(ts) /\ listenerHostKey(ts) = lh}

newListenerHosts ==
  [lh \in {listenerHostKey(ts) : ts \in {t \in ListenerTransportServers : hasListener(t)}} |->
     LET ts == Winner(ListenerClaimants(lh))
         listener == globalConfiguration[ts.listener]
     IN TransportServerConfiguration(ts, {lh}, listener.port, listener.ip)]

-----------------------------------------------------------------------------
(* Detecting, ordering and squashing changes; the code has one copy for    *)
(* hosts and one for listener hosts.                                       *)

\* nothing but the generation: the minions, routes and listeners forgotten
IsEqualGeneration_bug(r1, r2) ==
  r1.key = r2.key /\ r1.holds = r2.holds /\ r1.compared.gen = r2.compared.gen

IsEqual(r1, r2) ==
  r1.key = r2.key /\ r1.holds = r2.holds /\ r1.compared = r2.compared

removedHosts(old, new) == DOMAIN old \ DOMAIN new
addedHosts(old, new) == DOMAIN new \ DOMAIN old
updatedHosts(old, new) ==
  {h \in DOMAIN old \cap DOMAIN new : ~IsEqual(old[h], new[h])}

DeleteChanges(old, new) ==
  {old[h].key : h \in removedHosts(old, new)}
    \cup {old[h].key : h \in {g \in updatedHosts(old, new) : old[g].key # new[g].key}}

AddOrUpdateChanges(old, new) ==
  {new[h] : h \in updatedHosts(old, new) \cup addedHosts(old, new)}

\* an update does not take the place of the delete
squashResourceChanges_bug(old, new) ==
  [deletes |-> DeleteChanges(old, new) \ Keys(AddOrUpdateChanges(old, new)),
   moves |-> {}, updates |-> AddOrUpdateChanges(old, new)]

\* A delete and an update of one resource become an update, in the place of the
\* delete; the remaining deletes come first.  (Within each of the three parts the
\* code goes by the names of the hosts; here hosts have no order.)
squashResourceChanges(old, new) ==
  LET deletes == DeleteChanges(old, new)
      updates == AddOrUpdateChanges(old, new)
  IN [deletes |-> deletes \ Keys(updates),
      moves |-> {r \in updates : r.key \in deletes},
      updates |-> {r \in updates : r.key \notin deletes}]

-----------------------------------------------------------------------------
(* Problems: why a valid object is not part of the configuration.          *)

Problem(reason) == [reason |-> reason, by |-> {}]

WithoutActiveHost ==
  {ing \in HostIngresses : \A h \in ing.hosts : hosts[h].key # ing.key}
    \cup {vs \in Values(virtualServers) : hosts[vs.host].key # vs.key}
    \cup {ts \in HostTransportServers : hosts[ts.host].key # ts.key}

hasMaster(h) == h \in DOMAIN hosts /\ hosts[h].kind = "master"

OrphanMinions ==
  UNION {MinionsOf(h) : h \in {g \in DOMAIN minionsByHost : ~hasMaster(g)}}

hasVirtualServer(vsr) ==
  vsr.host \in DOMAIN hosts /\ hosts[vsr.host].kind = "VirtualServer"

OrphanVsrs == {vsr \in Values(virtualServerRoutes) : ~hasVirtualServer(vsr)}

IgnoredVsrs ==
  {vsr \in Values(virtualServerRoutes) :
     hasVirtualServer(vsr) /\ vsr.key \notin hosts[vsr.host].children}

newHostProblems ==
  [k \in Keys(WithoutActiveHost \cup OrphanMinions \cup OrphanVsrs \cup IgnoredVsrs) |->
     IF k \in Keys(WithoutActiveHost) THEN Problem("HostTaken")
     ELSE IF k \in Keys(OrphanMinions) THEN Problem("NoIngressMasterFound")
     ELSE IF k \in Keys(OrphanVsrs) THEN Problem("NoVirtualServerFound")
     ELSE [reason |-> "Ignored", by |-> {hosts[virtualServerRoutes[k].host].key}]]

\* a listener that another TransportServer holds not reported
newListenerProblems_bug ==
  [k \in Keys({ts \in ListenerTransportServers :
                 listenerHostKey(ts) \notin DOMAIN listenerHosts}) |-> Problem("NoListener")]

newListenerProblems ==
  LET missing == {ts \in ListenerTransportServers : listenerHostKey(ts) \notin DOMAIN listenerHosts}
      taken == {ts \in ListenerTransportServers \ missing :
                  listenerHosts[listenerHostKey(ts)].key # ts.key}
  IN [k \in Keys(missing \cup taken) |->
        IF k \in Keys(missing) THEN Problem("NoListener") ELSE Problem("ListenerTaken")]

\* the arguments swapped
detectChangesInProblems_bug(new, old) ==
  {k \in DOMAIN old : k \notin DOMAIN new \/ old[k] # new[k]}

detectChangesInProblems(new, old) ==
  {k \in DOMAIN new : k \notin DOMAIN old \/ old[k] # new[k]}

-----------------------------------------------------------------------------
(* The operations.  rebuildHosts and rebuildListenerHosts read the stores   *)
(* as the operation has just left them, hence the primes.                   *)

rebuildHosts ==
  /\ hosts' = newHosts'
  /\ hostProblems' = newHostProblems'

rebuildListenerHosts ==
  /\ listenerHosts' = newListenerHosts'
  /\ listenerProblems' = newListenerProblems'

hostChanges == squashResourceChanges(hosts, hosts')
listenerChanges == squashResourceChanges(listenerHosts, listenerHosts')

newProblems ==
  detectChangesInProblems(hostProblems', hostProblems)
    \cup detectChangesInProblems(listenerProblems', listenerProblems)

\* The problems to report: the new or changed ones as warnings, and the
\* validation error of the object, if it has one, as an error.  (The code hands
\* the error over in the Delete change of the object when there is one.)
ReportProblems(rejected) ==
  problems' = [k \in newProblems \cup rejected |->
                 IF k \in rejected THEN "Invalid" ELSE "Warning"]

rejectedKeys(obj) == IF obj.check = "invalid" THEN {obj.key} ELSE {}

\* An object that is invalid or of another class leaves its store.
Stored(store, obj) ==
  IF obj.check = "ok" THEN Put(store, obj.key, obj) ELSE Without(store, obj.key)

\* What every operation on a host resource does after it changed a store:
\* nothing before CompleteStartup, one rebuild of the hosts afterwards.
RebuildAfterStartup(rejected) ==
  /\ IF startupComplete
     THEN rebuildHosts /\ changes' = <<hostChanges>>
     ELSE UNCHANGED <<hosts, hostProblems>> /\ changes' = <<>>
  /\ UNCHANGED <<listenerHosts, listenerProblems, startupComplete>>
  /\ ReportProblems(rejected)

\* The first host found with the key loses it, and its entry once that is empty.
removeMinionFromIndex(key) ==
  IF \E h \in DOMAIN minionsByHost : key \in minionsByHost[h]
  THEN LET h == CHOOSE g \in DOMAIN minionsByHost : key \in minionsByHost[g]
       IN IF minionsByHost[h] = {key}
          THEN Without(minionsByHost, h)
          ELSE Put(minionsByHost, h, minionsByHost[h] \ {key})
  ELSE minionsByHost

updateMinionIndex(key, objs) ==
  LET removed == removeMinionFromIndex(key)
      added == UNION {ing.hosts : ing \in {i \in objs : isMinion(i)}}
  IN [h \in DOMAIN removed \cup added |->
        (IF h \in DOMAIN removed THEN removed[h] ELSE {})
          \cup (IF h \in added THEN {key} ELSE {})]

AddOrUpdateIngress(ing) ==
  /\ ingresses' = Stored(ingresses, ing)
  /\ minionsByHost' = updateMinionIndex(ing.key, IF ing.check = "ok" THEN {ing} ELSE {})
  /\ UNCHANGED <<virtualServers, virtualServerRoutes, transportServers, globalConfiguration>>
  /\ RebuildAfterStartup(rejectedKeys(ing))

\* Deleting an object that is not stored returns at once.
NothingToDelete ==
  /\ changes' = <<>>
  /\ problems' = EmptyMap
  /\ UNCHANGED <<stores, built, startupComplete>>

DeleteIngress(key) ==
  IF key \in DOMAIN ingresses
  THEN /\ ingresses' = Without(ingresses, key)
       /\ minionsByHost' = removeMinionFromIndex(key)
       /\ UNCHANGED <<virtualServers, virtualServerRoutes, transportServers, globalConfiguration>>
       /\ RebuildAfterStartup({})
  ELSE NothingToDelete

AddOrUpdateVirtualServer(vs) ==
  /\ virtualServers' = Stored(virtualServers, vs)
  /\ UNCHANGED <<ingresses, minionsByHost, virtualServerRoutes, transportServers,
                 globalConfiguration>>
  /\ RebuildAfterStartup(rejectedKeys(vs))

DeleteVirtualServer(key) ==
  IF key \in DOMAIN virtualServers
  THEN /\ virtualServers' = Without(virtualServers, key)
       /\ UNCHANGED <<ingresses, minionsByHost, virtualServerRoutes, transportServers,
                      globalConfiguration>>
       /\ RebuildAfterStartup({})
  ELSE NothingToDelete

AddOrUpdateVirtualServerRoute(vsr) ==
  /\ virtualServerRoutes' = Stored(virtualServerRoutes, vsr)
  /\ UNCHANGED <<ingresses, minionsByHost, virtualServers, transportServers,
                 globalConfiguration>>
  /\ RebuildAfterStartup(rejectedKeys(vsr))

DeleteVirtualServerRoute(key) ==
  IF key \in DOMAIN virtualServerRoutes
  THEN /\ virtualServerRoutes' = Without(virtualServerRoutes, key)
       /\ UNCHANGED <<ingresses, minionsByHost, virtualServers, transportServers,
                      globalConfiguration>>
       /\ RebuildAfterStartup({})
  ELSE NothingToDelete

\* the VirtualServers of the listeners not rebuilt
RebuildListenersAndHosts_bug(hostsAffected, rejected) ==
  /\ rebuildListenerHosts
  /\ UNCHANGED <<hosts, hostProblems, startupComplete>>
  /\ changes' = <<listenerChanges>>
  /\ ReportProblems(rejected)

\* What every operation that can move a listener does: the listener hosts are
\* rebuilt at once, startup or not; the hosts only where they are affected.
RebuildListenersAndHosts(hostsAffected, rejected) ==
  /\ rebuildListenerHosts
  /\ IF hostsAffected /\ startupComplete
     THEN rebuildHosts /\ changes' = <<listenerChanges, hostChanges>>
     ELSE UNCHANGED <<hosts, hostProblems>> /\ changes' = <<listenerChanges>>
  /\ UNCHANGED startupComplete
  /\ ReportProblems(rejected)

AddOrUpdateTransportServer(ts) ==
  /\ transportServers' = Stored(transportServers, ts)
  /\ UNCHANGED <<ingresses, minionsByHost, virtualServers, virtualServerRoutes,
                 globalConfiguration>>
  /\ RebuildListenersAndHosts(isTLSPassthroughEnabled, rejectedKeys(ts))

DeleteTransportServer(key) ==
  IF key \in DOMAIN transportServers
  THEN /\ transportServers' = Without(transportServers, key)
       /\ UNCHANGED <<ingresses, minionsByHost, virtualServers, virtualServerRoutes,
                      globalConfiguration>>
       /\ RebuildListenersAndHosts(isTLSPassthroughEnabled, {})
  ELSE NothingToDelete

\* The valid listeners of the GlobalConfiguration are stored even when others
\* of its listeners were rejected.
AddOrUpdateGlobalConfiguration(gc) ==
  /\ globalConfiguration' = gc
  /\ UNCHANGED <<ingresses, minionsByHost, virtualServers, virtualServerRoutes,
                 transportServers>>
  /\ RebuildListenersAndHosts(TRUE, {})

\* Without a GlobalConfiguration no listener exists.
DeleteGlobalConfiguration ==
  /\ globalConfiguration' = EmptyMap
  /\ UNCHANGED <<ingresses, minionsByHost, virtualServers, virtualServerRoutes,
                 transportServers>>
  /\ RebuildListenersAndHosts(TRUE, {})

CompleteStartup ==
  /\ startupComplete' = TRUE
  /\ UNCHANGED <<stores, listenerHosts, listenerProblems>>
  /\ rebuildHosts
  /\ changes' = <<hostChanges>>
  /\ ReportProblems({})

-----------------------------------------------------------------------------
ConfInit ==
  /\ ingresses = EmptyMap /\ virtualServers = EmptyMap
  /\ virtualServerRoutes = EmptyMap /\ transportServers = EmptyMap
  /\ globalConfiguration = EmptyMap /\ minionsByHost = EmptyMap
  /\ hosts = EmptyMap /\ listenerHosts = EmptyMap
  /\ hostProblems = EmptyMap /\ listenerProblems = EmptyMap
  /\ startupComplete \in BOOLEAN
  /\ changes = <<>> /\ problems = EmptyMap

-----------------------------------------------------------------------------
(* Properties.                                                             *)

\* A store holds, under its own key, only objects that passed the class check and
\* the validator.
StoreOf(store, objects) ==
  /\ DOMAIN store \subseteq Keys(objects)
  /\ \A k \in DOMAIN store :
       store[k] \in objects /\ store[k].key = k /\ store[k].check = "ok"

StoresTypeOK ==
  /\ StoreOf(ingresses, Ingresses)
  /\ StoreOf(virtualServers, VirtualServers)
  /\ StoreOf(virtualServerRoutes, VirtualServerRoutes)
  /\ StoreOf(transportServers, TransportServers)
  /\ globalConfiguration \in GlobalConfigurations \cup {EmptyMap}
  /\ DOMAIN minionsByHost \subseteq Hosts
  /\ \A h \in DOMAIN minionsByHost : minionsByHost[h] \subseteq Keys(Ingresses)

ChangeListOK(c) ==
  /\ c = [deletes |-> c.deletes, moves |-> c.moves, updates |-> c.updates]
  /\ c.deletes \cup Keys(c.moves) \cup Keys(c.updates) \subseteq Keys(AllObjects)

\* Every variable of the Configuration has its type.
ConfTypeOK ==
  /\ StoresTypeOK
  /\ DOMAIN hosts \subseteq Hosts
  /\ Keys(Values(hosts)) \cup Keys(Values(listenerHosts)) \subseteq Keys(AllObjects)
  /\ startupComplete \in BOOLEAN
  /\ changes \in Seq(Values(changes))
  /\ \A c \in Values(changes) : ChangeListOK(c)
  /\ \A k \in DOMAIN problems : problems[k] \in {"Warning", "Invalid"}

\* The index of the minions lists every stored minion under its host, lists nothing
\* else and has no empty entry: updateMinionIndex and removeMinionFromIndex keep up
\* with every way an Ingress enters, changes, turns invalid or leaves.
MinionIndexConsistent ==
  /\ \A h \in DOMAIN minionsByHost :
       /\ minionsByHost[h] # {}
       /\ \A k \in minionsByHost[h] :
            k \in DOMAIN ingresses /\ isMinion(ingresses[k]) /\ h \in ingresses[k].hosts
  /\ \A k \in DOMAIN ingresses : isMinion(ingresses[k]) =>
       \A h \in ingresses[k].hosts : h \in DOMAIN minionsByHost /\ k \in minionsByHost[h]

\* After startup the host map, the listener map and the problems are the ones that
\* the stored objects determine: no operation that changes a store, the listeners
\* of the GlobalConfiguration included, leaves a stale owner or problem behind.
RebuiltAfterStartup ==
  /\ listenerHosts = newListenerHosts /\ listenerProblems = newListenerProblems
  /\ startupComplete => hosts = newHosts /\ hostProblems = newHostProblems

\* A host changes hands only to an older object, or when its owner no longer wants
\* it (it was deleted, became invalid, changed its hosts, or became a route).
HostTakenOnlyByOlder ==
  [][\A h \in DOMAIN hosts \cap DOMAIN hosts' :
       hosts'[h].key # hosts[h].key =>
         \A o \in Claimants(h)' :
           o.key = hosts[h].key =>
             \E p \in Claimants(h)' :
               p.key = hosts'[h].key /\ chooseObjectMetaWinner(p, o)]_confVars

\* Every stored object is either part of the configuration or has a problem that
\* says why it is not, and never both: no user is left without an answer.
\* (A solver Ingress that became a route of a VirtualServer is neither.)
ActiveXorProblem ==
  startupComplete =>
    LET active == WithChildren(Values(hosts) \cup Values(listenerHosts))
        refused == DOMAIN hostProblems \cup DOMAIN listenerProblems
    IN /\ active \cap refused = {}
       /\ \A k \in DOMAIN ingresses :
            ~convertedToVSR(ingresses[k]) => k \in active \cup refused
       /\ DOMAIN virtualServers \cup DOMAIN virtualServerRoutes \cup DOMAIN transportServers
            \subseteq active \cup refused
=============================================================================
