--------------------------- MODULE VersionProofs ----------------------------
(***************************************************************************)
(* When the comparison of resources (IsEqual) suffices.  It looks at the   *)
(* generations of the objects and not at their specs: VersionInv says that *)
(* what is stored is what the cluster holds or an older version of it, so  *)
(* that a resource with the same generations has the same config.  It      *)
(* follows that the files are those of the configuration.                  *)
(*                                                                         *)
(* And that the statuses are right.  A status is written once, when        *)
(* something becomes of the object; StatusInv says why that is enough:     *)
(* each status is right, or the write that makes it right is ahead, and    *)
(* none that makes it wrong is.                                            *)
(***************************************************************************)
EXTENDS ControllerProofs

\* Zenon first, then SMT, each with its limit in seconds, for the leaves that name no prover.
USE ZenonT(20), SMTT(20)

\* Two versions of an Ingress that differ in nothing but the annotation of its role.
ButRole(old, o) ==
  /\ o.key = old.key /\ o.created = old.created /\ o.uid = old.uid /\ o.gen = old.gen
  /\ o.check = old.check /\ o.body = old.body /\ o.hosts = old.hosts /\ o.paths = old.paths
  /\ o.challenge = old.challenge

\* Versions with the same generation have the same spec.
NotOlder(old, o) ==
  \/ o.gen > old.gen
  \/ o = old
  \/ old \in Ingresses /\ o \in Ingresses /\ ButRole(old, o)

\* What the cluster holds under the key of a stored object is that object or a later version.
VersionsOf(store) == \A k \in DOMAIN store \cap DOMAIN cluster : NotOlder(store[k], cluster[k])

\* Everything in the cluster and in the stores comes from the workload, and the stores are
\* never ahead of the cluster.
VersionInv ==
  /\ \A k \in DOMAIN cluster : cluster[k] \in workload.objects
  /\ clusterGC \subseteq workload.globalConfigurations
  /\ Values(ingresses) \cup Values(virtualServers) \cup Values(virtualServerRoutes)
       \cup Values(transportServers) \subseteq workload.objects
  /\ globalConfiguration \in workload.globalConfigurations \cup {EmptyMap}
  /\ phase # "crashed" => /\ VersionsOf(ingresses) /\ VersionsOf(virtualServers)
                          /\ VersionsOf(virtualServerRoutes) /\ VersionsOf(transportServers)

\* A user's update is a later version, or changes the role alone.
LEMMA UpdateNotOlder ==
  ASSUME NEW s \in AllObjects, NEW c \in AllObjects, NEW o \in AllObjects,
         NotOlder(s, c), NextVersion(c, o), o.key = c.key
  PROVE  NotOlder(s, o)
<1>1. s.gen \in Nat /\ c.gen \in Nat /\ o.gen \in Nat
  BY MetadataAssumption
<1>2. c.gen >= s.gen
  BY <1>1 DEF NotOlder, ButRole
<1>3. CASE o.gen = c.gen + 1
  BY <1>1, <1>2, <1>3 DEF NotOlder
<1>4. CASE o.key \in Keys(Ingresses) /\ [o EXCEPT !.role = c.role] = c
  <2>1. o \in Ingresses /\ c \in Ingresses
    BY <1>4, KindsAssumption DEF AllObjects, Keys
  <2>2. o = [key |-> o.key, created |-> o.created, uid |-> o.uid, gen |-> o.gen,
             check |-> o.check, body |-> o.body, role |-> o.role, hosts |-> o.hosts,
             paths |-> o.paths, challenge |-> o.challenge]
    BY <2>1, FieldsAssumption
  <2>3. ButRole(c, o)
    BY <1>4, <2>2 DEF ButRole
  <2>4. CASE c.gen > s.gen
    BY <2>3, <2>4 DEF NotOlder, ButRole
  <2>5. CASE c = s
    BY <2>1, <2>3, <2>5 DEF NotOlder
  <2>6. CASE s \in Ingresses /\ ButRole(s, c)
    BY <2>1, <2>3, <2>6 DEF NotOlder, ButRole
  <2> QED BY <2>4, <2>5, <2>6 DEF NotOlder
<1> QED BY <1>3, <1>4 DEF NextVersion

\* Every step keeps the stores from getting ahead, as long as an object is not deleted and
\* created again between two syncs of its key.
LEMMA VersionStep ==
  ASSUME IInv, StoresCurrent, VersionInv, ~ReplacedUnseen, [Next]_vars
  PROVE  VersionInv'
<1>1. StoresTypeOK /\ ControllerTypeOK
  BY DEF IInv, TypeOK, ConfTypeOK, ControllerTypeOK
<1>2. CASE ~ClusterNext
  <2>1. /\ UNCHANGED <<workload, cluster, clusterGC>>
        /\ FromCluster(ingresses, ingresses') /\ FromCluster(virtualServers, virtualServers')
        /\ FromCluster(virtualServerRoutes, virtualServerRoutes')
        /\ FromCluster(transportServers, transportServers')
        /\ globalConfiguration' \in {globalConfiguration, EmptyMap} \cup clusterGC
        /\ phase = "crashed" => phase' = "crashed"
    BY <1>2, StoresFromCluster
  <2>2. ASSUME NEW store, NEW new, FromCluster(store, new), Values(store) \subseteq workload.objects
        PROVE  Values(new) \subseteq workload.objects
    BY <2>2 DEF FromCluster, Values, VersionInv
  <2>3. ASSUME NEW store, NEW new, FromCluster(store, new), VersionsOf(store)
        PROVE  \A k \in DOMAIN new \cap DOMAIN cluster : NotOlder(new[k], cluster[k])
    BY <2>3 DEF FromCluster, VersionsOf, NotOlder
  <2>4. phase' # "crashed" =>
          /\ VersionsOf(ingresses)' /\ VersionsOf(virtualServers)'
          /\ VersionsOf(virtualServerRoutes)' /\ VersionsOf(transportServers)'
    BY <2>1, <2>3 DEF VersionsOf, VersionInv
  <2>5. Values(ingresses') \cup Values(virtualServers') \cup Values(virtualServerRoutes')
          \cup Values(transportServers') \subseteq workload.objects
    BY <2>1, <2>2 DEF VersionInv
  <2> QED BY <2>1, <2>4, <2>5 DEF VersionInv
<1>3. ASSUME UNCHANGED <<stores, workload, phase>>, clusterGC' \subseteq workload.globalConfigurations,
             \A k \in DOMAIN cluster' : cluster'[k] \in workload.objects,
             ASSUME NEW store, StoreOf(store, AllObjects), VersionsOf(store), phase # "crashed",
                    store \in {ingresses, virtualServers, virtualServerRoutes, transportServers}
             PROVE  \A k \in DOMAIN store \cap DOMAIN cluster' : NotOlder(store[k], cluster'[k])
      PROVE  VersionInv'
  <2>1. \A store \in {ingresses, virtualServers, virtualServerRoutes, transportServers} :
          StoreOf(store, AllObjects)
    BY <1>1 DEF StoresTypeOK, StoreOf, AllObjects, Keys
  <2>2. phase # "crashed" =>
          /\ \A k \in DOMAIN ingresses \cap DOMAIN cluster' : NotOlder(ingresses[k], cluster'[k])
          /\ \A k \in DOMAIN virtualServers \cap DOMAIN cluster' :
               NotOlder(virtualServers[k], cluster'[k])
          /\ \A k \in DOMAIN virtualServerRoutes \cap DOMAIN cluster' :
               NotOlder(virtualServerRoutes[k], cluster'[k])
          /\ \A k \in DOMAIN transportServers \cap DOMAIN cluster' :
               NotOlder(transportServers[k], cluster'[k])
    BY <1>3, <2>1 DEF VersionInv
  <2>3. phase' # "crashed" =>
          /\ VersionsOf(ingresses)' /\ VersionsOf(virtualServers)'
          /\ VersionsOf(virtualServerRoutes)' /\ VersionsOf(transportServers)'
    BY <1>3, <2>2 DEF VersionsOf, stores
  <2> QED BY <1>3, <2>3, SMTT(20) DEF VersionInv, stores, Values
<1>4. CASE \E o \in AllObjects : Create(o)
  <2>1. PICK o \in AllObjects : Create(o)
    BY <1>4
  <2>2. /\ UNCHANGED <<stores, workload, phase, clusterGC>> /\ o \in workload.objects
        /\ cluster' = Put(cluster, o.key, o) /\ o.key \notin DOMAIN cluster /\ o.key \notin queue
    BY <2>1 DEF Create, confVars
  <2>3. phase # "crashed" =>
          /\ o.key \notin DOMAIN ingresses /\ o.key \notin DOMAIN virtualServers
          /\ o.key \notin DOMAIN virtualServerRoutes /\ o.key \notin DOMAIN transportServers
    BY <1>1, <2>2 DEF StoresCurrent, Current, Agrees, StoresTypeOK, StoreOf
  <2>4. \A k \in DOMAIN cluster' : cluster'[k] \in workload.objects
    BY <2>2 DEF Put, VersionInv
  <2>5. \A k \in DOMAIN cluster' : k = o.key \/ (k \in DOMAIN cluster /\ cluster'[k] = cluster[k])
    BY <2>2 DEF Put
  <2>6. ASSUME NEW store, VersionsOf(store), phase # "crashed",
               store \in {ingresses, virtualServers, virtualServerRoutes, transportServers}
        PROVE  \A k \in DOMAIN store \cap DOMAIN cluster' : NotOlder(store[k], cluster'[k])
    BY <2>3, <2>5, <2>6 DEF VersionsOf
  <2>7. clusterGC' \subseteq workload.globalConfigurations
    BY <2>2 DEF VersionInv
  <2> QED BY <1>3, <2>2, <2>4, <2>6, <2>7
<1>5. CASE \E o \in AllObjects : Update(o)
  <2>1. PICK o \in AllObjects : Update(o)
    BY <1>5
  <2>2. /\ UNCHANGED <<stores, workload, phase, clusterGC>> /\ o \in workload.objects
        /\ cluster' = Put(cluster, o.key, o) /\ o.key \in DOMAIN cluster
        /\ NextVersion(cluster[o.key], o)
    BY <2>1 DEF Update, confVars
  <2>3. cluster[o.key] \in AllObjects /\ cluster[o.key].key = o.key
    BY <1>1, <2>2 DEF ControllerTypeOK
  <2>4. \A k \in DOMAIN cluster' : cluster'[k] \in workload.objects
    BY <2>2 DEF Put, VersionInv
  <2>5. /\ cluster'[o.key] = o
        /\ \A k \in DOMAIN cluster' : k = o.key \/ (k \in DOMAIN cluster /\ cluster'[k] = cluster[k])
    BY <2>2 DEF Put
  <2>6. ASSUME NEW store, StoreOf(store, AllObjects), VersionsOf(store),
               NEW k \in DOMAIN store \cap DOMAIN cluster'
        PROVE  NotOlder(store[k], cluster'[k])
    <3>1. CASE k = o.key
      <4>1. store[k] \in AllObjects /\ NotOlder(store[k], cluster[k])
        BY <2>2, <2>6, <3>1 DEF StoreOf, VersionsOf
      <4> QED BY <2>2, <2>3, <2>5, <3>1, <4>1, UpdateNotOlder
    <3>2. CASE k # o.key
      BY <2>5, <2>6, <3>2 DEF VersionsOf
    <3> QED BY <3>1, <3>2
  <2>7. clusterGC' \subseteq workload.globalConfigurations
    BY <2>2 DEF VersionInv
  <2> QED BY <1>3, <2>2, <2>4, <2>6, <2>7
<1>6. CASE \E k \in ObjectKeys : Remove(k)
  <2>1. PICK k \in ObjectKeys : Remove(k)
    BY <1>6
  <2>2. UNCHANGED <<stores, workload, phase, clusterGC>> /\ cluster' = Without(cluster, k)
    BY <2>1 DEF Remove, confVars
  <2>3. \A j \in DOMAIN cluster' : j \in DOMAIN cluster /\ cluster'[j] = cluster[j]
    BY <2>2 DEF Without
  <2>4. /\ \A j \in DOMAIN cluster' : cluster'[j] \in workload.objects
        /\ clusterGC' \subseteq workload.globalConfigurations
    BY <2>2, <2>3 DEF VersionInv
  <2>5. ASSUME NEW store, VersionsOf(store)
        PROVE  \A j \in DOMAIN store \cap DOMAIN cluster' : NotOlder(store[j], cluster'[j])
    BY <2>3, <2>5 DEF VersionsOf
  <2> QED BY <1>3, <2>2, <2>4, <2>5
<1>7. CASE \/ \E gcs \in {{}} \cup {{gc} : gc \in GlobalConfigurations} : ChangeGlobalConfiguration(gcs)
           \/ ChangeNamespaceLabel
  <2>1. /\ UNCHANGED <<stores, workload, phase, cluster>>
        /\ clusterGC' = clusterGC \/ clusterGC' \subseteq workload.globalConfigurations
    BY <1>7 DEF ChangeGlobalConfiguration, ChangeNamespaceLabel, confVars
  <2>2. /\ clusterGC' \subseteq workload.globalConfigurations
        /\ \A j \in DOMAIN cluster' : cluster'[j] \in workload.objects
    BY <2>1 DEF VersionInv
  <2>3. ASSUME NEW store, VersionsOf(store)
        PROVE  \A j \in DOMAIN store \cap DOMAIN cluster' : NotOlder(store[j], cluster'[j])
    BY <2>1, <2>3 DEF VersionsOf
  <2> QED BY <1>3, <2>1, <2>2, <2>3
<1> QED BY <1>2, <1>4, <1>5, <1>6, <1>7 DEF ClusterNext

\* A step keeps the spec of a stored object whose generation it keeps.
Kept(store, new) ==
  \A k \in DOMAIN store \cap DOMAIN new :
    new[k].gen = store[k].gen =>
      \/ new[k] = store[k]
      \/ store[k] \in Ingresses /\ new[k] \in Ingresses /\ ButRole(store[k], new[k])

\* What the minions of a master are.
LEMMA MinionsStored ==
  StoresTypeOK /\ MinionIndexConsistent =>
    \A ing : \A m \in buildMinionConfigs(ing) :
      m \in Ingresses /\ isMinion(m) /\ m.key \in DOMAIN ingresses /\ m = ingresses[m.key]
BY MinionsOfHost, StoredKinds, SMTT(20) DEF buildMinionConfigs

\* What the comparison sees of a set of objects, and where the objects come from.
Versions(S) == {<<o.key, o.gen>> : o \in S}
StoredIn(S, store) == \A o \in S : o.key \in DOMAIN store /\ o = store[o.key]
SameRoles(S, T) ==
  \A o \in S : \A p \in T : o \in Ingresses /\ p \in Ingresses => o.role = p.role

\* Sets of stored objects with the same keys and generations are the same set.
LEMMA SameVersions ==
  ASSUME NEW old, NEW new, Kept(old, new), NEW S, NEW T, StoredIn(S, old), StoredIn(T, new),
         SameRoles(S, T), Versions(S) = Versions(T)
  PROVE  S = T
<1>1. ASSUME NEW o \in S, NEW p \in T, o.key = p.key, o.gen = p.gen
      PROVE  o = p
  <2>1. o = p \/ (o \in Ingresses /\ p \in Ingresses /\ ButRole(o, p))
    BY <1>1, SMTT(20) DEF Kept, StoredIn
  <2>2. CASE o \in Ingresses /\ p \in Ingresses /\ ButRole(o, p)
    BY <2>2, FieldsAssumption DEF ButRole, SameRoles
  <2> QED BY <2>1, <2>2
<1>2. \A o \in S : \E p \in T : o.key = p.key /\ o.gen = p.gen
  <2>1. \A o \in S : <<o.key, o.gen>> \in {<<p.key, p.gen>> : p \in T}
    BY DEF Versions
  <2> QED BY <2>1
<1>3. \A p \in T : \E o \in S : o.key = p.key /\ o.gen = p.gen
  <2>1. \A p \in T : <<p.key, p.gen>> \in {<<o.key, o.gen>> : o \in S}
    BY DEF Versions
  <2> QED BY <2>1
<1>4. ASSUME NEW o \in S PROVE o \in T
  <2>1. PICK p \in T : o.key = p.key /\ o.gen = p.gen
    BY <1>2
  <2>2. o = p
    BY <1>1, <2>1
  <2> QED BY <2>2
<1>5. ASSUME NEW p \in T PROVE p \in S
  <2>1. PICK o \in S : o.key = p.key /\ o.gen = p.gen
    BY <1>3
  <2>2. o = p
    BY <1>1, <2>1
  <2> QED BY <2>2
<1> QED BY <1>4, <1>5, Zenon

\* IsEqual for Ingresses: the generations of the Ingress and its minions, and the role.
LEMMA IngressesComparable ==
  ASSUME StoresTypeOK, StoresTypeOK', MinionIndexConsistent, MinionIndexConsistent',
         Kept(ingresses, ingresses'),
         NEW w \in Values(ingresses), NEW v \in Values(ingresses'), NEW held, NEW held2,
         NEW r, r = NewIngressConfiguration(w, buildMinionConfigs(w), held),
         NEW s, s = NewIngressConfiguration(v, buildMinionConfigs(v)', held2),
         IsEqual(r, s)
  PROVE  r.conf = s.conf
<1> DEFINE M == buildMinionConfigs(w)
           N == buildMinionConfigs(v)'
<1>1. \A m \in M : m \in Ingresses /\ isMinion(m) /\ m.key \in DOMAIN ingresses /\ m = ingresses[m.key]
  BY MinionsStored
<1>2. \A m \in N : m \in Ingresses /\ isMinion(m) /\ m.key \in DOMAIN ingresses'
                   /\ m = ingresses'[m.key]
  <2>1. (StoresTypeOK /\ MinionIndexConsistent =>
          \A ing : \A m \in buildMinionConfigs(ing) :
            m \in Ingresses /\ isMinion(m) /\ m.key \in DOMAIN ingresses /\ m = ingresses[m.key])'
    BY MinionsStored, PTL
  <2> QED BY <2>1 DEF isMinion
<1>3. r = NewIngressConfiguration(w, M, held) /\ s = NewIngressConfiguration(v, N, held2)
  OBVIOUS
<1>4. /\ w \in Ingresses /\ w.key \in DOMAIN ingresses /\ w = ingresses[w.key]
      /\ v \in Ingresses /\ v.key \in DOMAIN ingresses' /\ v = ingresses'[v.key]
  BY SMTT(20) DEF StoresTypeOK, StoreOf, Values
<1> HIDE DEF M, N
<1>5. /\ w.key = v.key /\ w.gen = v.gen /\ w.role = v.role /\ held = held2
      /\ {<<m.key, m.gen>> : m \in M} = {<<m.key, m.gen>> : m \in N}
  BY <1>3 DEF IsEqual, NewIngressConfiguration
<1>6. w.body = v.body
  BY <1>4, <1>5, SMTT(20) DEF Kept, ButRole
<1>7. M = N
  <2>1. StoredIn(M, ingresses) /\ StoredIn(N, ingresses')
    BY <1>1, <1>2 DEF StoredIn
  <2>2. SameRoles(M, N)
    BY <1>1, <1>2 DEF isMinion, SameRoles
  <2>3. Versions(M) = Versions(N)
    BY <1>5 DEF Versions
  <2> QED BY <2>1, <2>2, <2>3, SameVersions
<1> DEFINE Conf(role, body, h, S) ==
             [role |-> role, body |-> body, hosts |-> h,
              minions |-> {<<m.key, m.body, ValidPaths(m, S)>> : m \in S}]
<1>8. \A ing, S, h : NewIngressConfiguration(ing, S, h).conf = Conf(ing.role, ing.body, h, S)
  BY DEF NewIngressConfiguration
<1> HIDE DEF Conf
<1> QED BY <1>3, <1>5, <1>6, <1>7, <1>8, SMTT(20)

\* The address of an HTTPS listener follows from its port.
LEMMA AddressesComparable ==
  ASSUME VersionInv, VersionInv', StoresTypeOK, StoresTypeOK', Comparable(workload),
         workload' = workload, NEW name, NEW isSSL,
         assignListener(name, isSSL).port = assignListener(name, isSSL)'.port
  PROVE  assignListener(name, isSSL) = assignListener(name, isSSL)'
<1> DEFINE g == globalConfiguration
           f == globalConfiguration'
<1>1. /\ g \in workload.globalConfigurations \cup {EmptyMap}
      /\ f \in workload.globalConfigurations \cup {EmptyMap}
      /\ g \in GlobalConfigurations \cup {EmptyMap} /\ f \in GlobalConfigurations \cup {EmptyMap}
  BY DEF VersionInv, StoresTypeOK
<1>2. \A l : l \notin DOMAIN EmptyMap
  BY DEF EmptyMap
<1>3. /\ \A l \in DOMAIN g : g[l].port # 0
      /\ \A l \in DOMAIN f : f[l].port # 0
  <2> HIDE DEF g, f
  <2> QED BY <1>1, <1>2, ListenersAssumption
<1>4. name \in DOMAIN g /\ name \in DOMAIN f /\ g[name].port = f[name].port => g[name].ip = f[name].ip
  BY <1>1, <1>2 DEF Comparable
<1> QED BY <1>3, <1>4 DEF assignListener

\* IsEqual for VirtualServers: the generations of the VirtualServer and its routes, and the
\* listeners.
LEMMA VirtualServersComparable ==
  ASSUME StoresTypeOK, StoresTypeOK', VersionInv, VersionInv', Comparable(workload),
         workload' = workload,
         Kept(virtualServers, virtualServers'), Kept(virtualServerRoutes, virtualServerRoutes'),
         NEW w \in Values(virtualServers), NEW v \in Values(virtualServers'),
         NEW r, r = VirtualServerConfiguration(w),
         NEW s, s = VirtualServerConfiguration(v)',
         IsEqual(r, s)
  PROVE  r.conf = s.conf
<1> DEFINE R == buildVirtualServerRoutes(w)
           Q == buildVirtualServerRoutes(v)'
           A == challengesVSR(w)
           B == challengesVSR(v)'
           http == assignListener(w.http, FALSE)
           http2 == assignListener(v.http, FALSE)'
           https == assignListener(w.https, TRUE)
           https2 == assignListener(v.https, TRUE)'
<1>1. /\ r.key = w.key /\ s.key = v.key
      /\ r.compared = [gen |-> w.gen, http |-> http, httpsPort |-> https.port,
                       vsrs |-> {<<o.key, o.gen>> : o \in R} \cup {<<i.key, 0>> : i \in A}]
      /\ s.compared = [gen |-> v.gen, http |-> http2, httpsPort |-> https2.port,
                       vsrs |-> {<<o.key, o.gen>> : o \in Q} \cup {<<i.key, 0>> : i \in B}]
      /\ r.conf = [body |-> w.body, host |-> w.host, http |-> http, https |-> https,
                   vsrs |-> {<<o.key, o.body>> : o \in R} \cup {<<i.key, i.body>> : i \in A}]
      /\ s.conf = [body |-> v.body, host |-> v.host, http |-> http2, https |-> https2,
                   vsrs |-> {<<o.key, o.body>> : o \in Q} \cup {<<i.key, i.body>> : i \in B}]
  BY DEF VirtualServerConfiguration
<1>2. /\ w \in VirtualServers /\ w.key \in DOMAIN virtualServers /\ w = virtualServers[w.key]
      /\ v \in VirtualServers /\ v.key \in DOMAIN virtualServers' /\ v = virtualServers'[v.key]
  BY SMTT(20) DEF StoresTypeOK, StoreOf, Values
<1>3. /\ \A o \in R : o \in VirtualServerRoutes /\ o.key \in DOMAIN virtualServerRoutes
                      /\ o = virtualServerRoutes[o.key]
      /\ \A o \in Q : o \in VirtualServerRoutes /\ o.key \in DOMAIN virtualServerRoutes'
                      /\ o = virtualServerRoutes'[o.key]
  BY SMTT(20) DEF StoresTypeOK, StoreOf, buildVirtualServerRoutes
<1>4. /\ \A i \in A : i \in Ingresses /\ i.challenge /\ i \in workload.objects
      /\ \A i \in B : i \in Ingresses /\ i.challenge /\ i \in workload.objects
  BY DEF StoresTypeOK, StoreOf, challengesVSR, convertedToVSR, VersionInv, Values
<1>5. v.key = w.key /\ v.gen = w.gen /\ http = http2 /\ https.port = https2.port
      /\ {<<o.key, o.gen>> : o \in R} \cup {<<i.key, 0>> : i \in A}
           = {<<o.key, o.gen>> : o \in Q} \cup {<<i.key, 0>> : i \in B}
  <2> HIDE DEF R, Q, A, B, http, http2, https, https2
  <2>1. r.key = s.key /\ r.compared = s.compared
    BY DEF IsEqual
  <2>2. /\ r.compared.gen = w.gen /\ r.compared.http = http /\ r.compared.httpsPort = https.port
        /\ r.compared.vsrs = {<<o.key, o.gen>> : o \in R} \cup {<<i.key, 0>> : i \in A}
    BY <1>1, SMTT(20)
  <2>3. /\ s.compared.gen = v.gen /\ s.compared.http = http2 /\ s.compared.httpsPort = https2.port
        /\ s.compared.vsrs = {<<o.key, o.gen>> : o \in Q} \cup {<<i.key, 0>> : i \in B}
    BY <1>1, SMTT(20)
  <2> QED BY <1>1, <2>1, <2>2, <2>3, Zenon
<1>6. v = w
  <2>1. w \notin Ingresses
    BY <1>2, KindsAssumption DEF Keys
  <2> QED BY <1>2, <1>5, <2>1 DEF Kept
<1>7. https = https2
  <2>1. assignListener(w.https, TRUE).port = assignListener(w.https, TRUE)'.port
    BY <1>5, <1>6
  <2>2. assignListener(w.https, TRUE) = assignListener(w.https, TRUE)'
    BY <2>1, AddressesComparable
  <2> QED BY <1>6, <2>2
<1> HIDE DEF R, Q, A, B, http, http2, https, https2
<1>8. \A o \in R \cup Q : \A i \in A \cup B : o.key # i.key
  BY <1>3, <1>4, KindsAssumption, SMTT(20) DEF Keys
<1>9. {<<o.key, o.gen>> : o \in R} = {<<o.key, o.gen>> : o \in Q}
  <2>1. ASSUME NEW o \in R PROVE <<o.key, o.gen>> \in {<<p.key, p.gen>> : p \in Q}
    BY <1>5, <1>8
  <2>2. ASSUME NEW o \in Q PROVE <<o.key, o.gen>> \in {<<p.key, p.gen>> : p \in R}
    BY <1>5, <1>8
  <2> QED BY <2>1, <2>2
<1>10. R = Q
  <2>1. \A o \in R \cup Q : o \notin Ingresses
    BY <1>3, KindsAssumption, SMTT(20) DEF Keys
  <2>2. StoredIn(R, virtualServerRoutes) /\ StoredIn(Q, virtualServerRoutes')
    BY <1>3 DEF StoredIn
  <2>3. SameRoles(R, Q)
    BY <2>1 DEF SameRoles
  <2>4. Versions(R) = Versions(Q)
    BY <1>9 DEF Versions
  <2> QED BY <2>2, <2>3, <2>4, SameVersions
<1>11. {<<i.key, i.body>> : i \in A} = {<<i.key, i.body>> : i \in B}
  <2>1. \A i \in A : \E j \in B : i.key = j.key
    <3>1. ASSUME NEW i \in A PROVE \E j \in B : i.key = j.key
      <4>1. <<i.key, 0>> \in {<<o.key, o.gen>> : o \in Q} \cup {<<j.key, 0>> : j \in B}
        BY <1>5
      <4> QED BY <1>8, <4>1
    <3> QED BY <3>1
  <2>2. \A i \in B : \E j \in A : i.key = j.key
    <3>1. ASSUME NEW i \in B PROVE \E j \in A : i.key = j.key
      <4>1. <<i.key, 0>> \in {<<o.key, o.gen>> : o \in R} \cup {<<j.key, 0>> : j \in A}
        BY <1>5
      <4> QED BY <1>8, <4>1
    <3> QED BY <3>1
  <2>3. \A i \in A : \A j \in B : i.key = j.key => i.body = j.body
    BY <1>4 DEF Comparable, Keys
  <2> QED BY <2>1, <2>2, <2>3, SMTT(20)
<1> QED BY <1>1, <1>5, <1>6, <1>7, <1>10, <1>11

\* IsEqual for TransportServers: the generation, and the port of the listener.
LEMMA TransportServersComparable ==
  ASSUME StoresTypeOK, StoresTypeOK', Kept(transportServers, transportServers'),
         NEW w \in Values(transportServers), NEW v \in Values(transportServers'),
         NEW held, NEW held2, NEW port, NEW port2, NEW ip, NEW ip2,
         NEW r, r = TransportServerConfiguration(w, held, port, ip),
         NEW s, s = TransportServerConfiguration(v, held2, port2, ip2),
         IsEqual(r, s)
  PROVE  w = v /\ port = port2 /\ (ip = ip2 => r.conf = s.conf)
<1>1. /\ w \in TransportServers /\ w.key \in DOMAIN transportServers /\ w = transportServers[w.key]
      /\ v \in TransportServers /\ v.key \in DOMAIN transportServers'
      /\ v = transportServers'[v.key]
  BY SMTT(20) DEF StoresTypeOK, StoreOf, Values
<1>2. v.key = w.key /\ v.gen = w.gen /\ port = port2
  BY DEF IsEqual, TransportServerConfiguration
<1>3. w \notin Ingresses
  BY <1>1, KindsAssumption DEF Keys
<1>4. v = w
  BY <1>1, <1>2, <1>3 DEF Kept
<1> QED BY <1>2, <1>4 DEF TransportServerConfiguration

\* The generations tell the versions of a stored object apart.
LEMMA StoresKept ==
  ASSUME IInv, VersionInv, [Next]_vars, phase # "crashed"
  PROVE  /\ Kept(ingresses, ingresses') /\ Kept(virtualServers, virtualServers')
         /\ Kept(virtualServerRoutes, virtualServerRoutes')
         /\ Kept(transportServers, transportServers')
<1>1. CASE ClusterNext
  <2>1. UNCHANGED stores
    BY <1>1 DEF ClusterNext, Create, Update, Remove, ChangeGlobalConfiguration,
                ChangeNamespaceLabel, confVars
  <2> QED BY <2>1 DEF stores, Kept
<1>2. CASE ~ClusterNext
  <2>1. /\ FromCluster(ingresses, ingresses') /\ FromCluster(virtualServers, virtualServers')
        /\ FromCluster(virtualServerRoutes, virtualServerRoutes')
        /\ FromCluster(transportServers, transportServers')
    BY <1>2, StoresFromCluster
  <2>2. \A k \in DOMAIN cluster : cluster[k].gen \in Nat
    BY MetadataAssumption DEF IInv, TypeOK
  <2>3. ASSUME NEW store, NEW new, FromCluster(store, new), VersionsOf(store),
               \A k \in DOMAIN store : store[k].gen \in Nat
        PROVE  Kept(store, new)
    <3> SUFFICES ASSUME NEW k \in DOMAIN store \cap DOMAIN new, new[k].gen = store[k].gen,
                        new[k] # store[k]
                 PROVE  store[k] \in Ingresses /\ new[k] \in Ingresses /\ ButRole(store[k], new[k])
      BY DEF Kept
    <3>1. k \in DOMAIN cluster /\ new[k] = cluster[k]
      BY <2>3 DEF FromCluster
    <3>2. NotOlder(store[k], new[k]) /\ ~(new[k].gen > store[k].gen)
      BY <2>2, <2>3, <3>1 DEF VersionsOf
    <3> QED BY <3>2 DEF NotOlder
  <2>4. StoresTypeOK
    BY DEF IInv, ConfInv, ConfTypeOK
  <2>5. /\ \A k \in DOMAIN ingresses : ingresses[k].gen \in Nat
        /\ \A k \in DOMAIN virtualServers : virtualServers[k].gen \in Nat
        /\ \A k \in DOMAIN virtualServerRoutes : virtualServerRoutes[k].gen \in Nat
        /\ \A k \in DOMAIN transportServers : transportServers[k].gen \in Nat
    BY <2>4, MetadataAssumption DEF StoresTypeOK, StoreOf, AllObjects
  <2> QED BY <2>1, <2>3, <2>5 DEF VersionInv
<1> QED BY <1>1, <1>2

\* What the resource of a listener and a host is made of.
ListenersMade ==
  \A lh \in DOMAIN newListenerHosts : \E w \in Values(transportServers) :
    /\ w.listener \in DOMAIN globalConfiguration
    /\ newListenerHosts[lh]
         = TransportServerConfiguration(w, {lh}, globalConfiguration[w.listener].port,
                                        globalConfiguration[w.listener].ip)

\* It goes to a stored TransportServer (buildListenerHostsAndTSConfigurations).
LEMMA ListenerEntry == StoresTypeOK => ListenersMade
<1> SUFFICES ASSUME StoresTypeOK, NEW lh \in DOMAIN newListenerHosts
             PROVE  \E w \in Values(transportServers) :
                      /\ w.listener \in DOMAIN globalConfiguration
                      /\ newListenerHosts[lh]
                           = TransportServerConfiguration(w, {lh},
                               globalConfiguration[w.listener].port,
                               globalConfiguration[w.listener].ip)
  BY DEF ListenersMade
<1> DEFINE w == Winner(ListenerClaimants(lh))
<1>1. w \in ListenerClaimants(lh)
  <2>1. ListenerClaimants(lh) # {}
    BY DEF newListenerHosts, ListenerClaimants
  <2>2. /\ \A o \in ListenerClaimants(lh) : o.created \in Nat /\ o.uid \in 0..MaxUID
        /\ \A o, p \in ListenerClaimants(lh) : o # p => o.uid # p.uid
    BY ListenerClaimantsOK, MetadataAssumption DEF AllObjects
  <2> QED BY <2>1, <2>2, WinnerWins
<1>2. w \in Values(transportServers) /\ w.listener \in DOMAIN globalConfiguration
  BY <1>1 DEF ListenerClaimants, ListenerTransportServers, hasListener
<1> QED BY <1>2 DEF newListenerHosts

\* The hosts: resources that IsEqual takes for the same are of one kind and have one config.
LEMMA HostsComparable ==
  ASSUME StoresTypeOK, StoresTypeOK', MinionIndexConsistent, MinionIndexConsistent',
         VersionInv, VersionInv', Comparable(workload), workload' = workload,
         Kept(ingresses, ingresses'), Kept(virtualServers, virtualServers'),
         Kept(virtualServerRoutes, virtualServerRoutes'),
         Kept(transportServers, transportServers'),
         NEW h \in DOMAIN newHosts, h \in DOMAIN newHosts', IsEqual(newHosts[h], newHosts'[h])
  PROVE  newHosts[h].conf = newHosts'[h].conf
<1>1. PICK w, held :
        \/ /\ w \in Values(ingresses)
           /\ newHosts[h] = NewIngressConfiguration(w, buildMinionConfigs(w), held)
        \/ w \in Values(virtualServers) /\ newHosts[h] = VirtualServerConfiguration(w)
        \/ /\ w \in Values(transportServers)
           /\ newHosts[h] = TransportServerConfiguration(w, held, 0, "default")
  BY HostEntry DEF HostsMade
<1>2. PICK v, held2 :
        \/ /\ v \in Values(ingresses')
           /\ newHosts'[h] = NewIngressConfiguration(v, buildMinionConfigs(v)', held2)
        \/ v \in Values(virtualServers') /\ newHosts'[h] = VirtualServerConfiguration(v)'
        \/ /\ v \in Values(transportServers')
           /\ newHosts'[h] = TransportServerConfiguration(v, held2, 0, "default")
  <2>1. (StoresTypeOK => HostsMade)'
    BY HostEntry, PTL
  <2> QED BY <2>1 DEF HostsMade, Values
<1>3. /\ newHosts[h].key = w.key /\ newHosts'[h].key = v.key
  <2>1. /\ NewIngressConfiguration(w, buildMinionConfigs(w), held).key = w.key
        /\ NewIngressConfiguration(v, buildMinionConfigs(v)', held2).key = v.key
        /\ TransportServerConfiguration(w, held, 0, "default").key = w.key
        /\ TransportServerConfiguration(v, held2, 0, "default").key = v.key
    BY DEF NewIngressConfiguration, TransportServerConfiguration
  <2>2. VirtualServerConfiguration(w).key = w.key /\ VirtualServerConfiguration(v)'.key = v.key
    BY DEF VirtualServerConfiguration
  <2>3. newHosts[h].key = w.key
    BY <1>1, <2>1, <2>2
  <2>4. newHosts'[h].key = v.key
    BY <1>2, <2>1, <2>2
  <2> QED BY <2>3, <2>4
<1>4. w.key = v.key
  BY <1>3 DEF IsEqual
<1>5. /\ \A o \in Values(ingresses) \cup Values(ingresses') : o.key \in Keys(Ingresses)
      /\ \A o \in Values(virtualServers) \cup Values(virtualServers') :
           o.key \in Keys(VirtualServers)
      /\ \A o \in Values(transportServers) \cup Values(transportServers') :
           o.key \in Keys(TransportServers)
  BY SMTT(20) DEF StoresTypeOK, StoreOf, Values, Keys
<1>6. /\ w \in Values(ingresses) => v \in Values(ingresses')
      /\ w \in Values(virtualServers) => v \in Values(virtualServers')
      /\ w \in Values(transportServers) => v \in Values(transportServers')
  BY <1>1, <1>2, <1>4, <1>5, KindsAssumption
<1>7. /\ w \in Values(ingresses) => w \notin Values(virtualServers) \cup Values(transportServers)
      /\ w \in Values(virtualServers) => w \notin Values(transportServers)
      /\ v \in Values(ingresses') => v \notin Values(virtualServers') \cup Values(transportServers')
      /\ v \in Values(virtualServers') => v \notin Values(transportServers')
  BY <1>5, KindsAssumption
<1>8. CASE w \in Values(ingresses)
  <2>1. /\ newHosts[h] = NewIngressConfiguration(w, buildMinionConfigs(w), held)
        /\ newHosts'[h] = NewIngressConfiguration(v, buildMinionConfigs(v)', held2)
    BY <1>1, <1>2, <1>6, <1>7, <1>8
  <2> QED BY <1>6, <1>8, <2>1, IngressesComparable, SMTT(20)
<1>9. CASE w \in Values(virtualServers)
  <2>1. /\ newHosts[h] = VirtualServerConfiguration(w)
        /\ newHosts'[h] = VirtualServerConfiguration(v)'
    BY <1>1, <1>2, <1>6, <1>7, <1>9
  <2> QED BY <1>6, <1>9, <2>1, VirtualServersComparable, SMTT(20)
<1>10. CASE w \in Values(transportServers)
  <2>1. /\ newHosts[h] = TransportServerConfiguration(w, held, 0, "default")
        /\ newHosts'[h] = TransportServerConfiguration(v, held2, 0, "default")
    BY <1>1, <1>2, <1>6, <1>7, <1>10
  <2> QED BY <1>6, <1>10, <2>1, TransportServersComparable, SMTT(20)
<1> QED BY <1>1, <1>8, <1>9, <1>10

\* The listeners: the port tells the address.
LEMMA ListenersComparable ==
  ASSUME StoresTypeOK, StoresTypeOK', VersionInv, VersionInv', Comparable(workload),
         workload' = workload, Kept(transportServers, transportServers'),
         NEW lh \in DOMAIN newListenerHosts, lh \in DOMAIN newListenerHosts',
         IsEqual(newListenerHosts[lh], newListenerHosts'[lh])
  PROVE  newListenerHosts[lh].conf = newListenerHosts'[lh].conf
<1> DEFINE g == globalConfiguration
           f == globalConfiguration'
<1>1. PICK w \in Values(transportServers) :
        /\ w.listener \in DOMAIN g
        /\ newListenerHosts[lh]
             = TransportServerConfiguration(w, {lh}, g[w.listener].port, g[w.listener].ip)
  BY ListenerEntry DEF ListenersMade
<1>2. PICK v \in Values(transportServers') :
        /\ v.listener \in DOMAIN f
        /\ newListenerHosts'[lh]
             = TransportServerConfiguration(v, {lh}, f[v.listener].port, f[v.listener].ip)
  <2>1. (StoresTypeOK => ListenersMade)'
    BY ListenerEntry, PTL
  <2> QED BY <2>1 DEF ListenersMade, Values
<1>3. /\ g \in workload.globalConfigurations \cup {EmptyMap}
      /\ f \in workload.globalConfigurations \cup {EmptyMap}
  BY DEF VersionInv
<1>4. \A l : l \notin DOMAIN EmptyMap
  BY DEF EmptyMap
<1> HIDE DEF g, f
<1>5. /\ w = v /\ g[w.listener].port = f[v.listener].port
      /\ g[w.listener].ip = f[v.listener].ip => newListenerHosts[lh].conf = newListenerHosts'[lh].conf
  BY <1>1, <1>2, TransportServersComparable, SMTT(20)
<1>6. g[w.listener].ip = f[w.listener].ip
  BY <1>1, <1>2, <1>3, <1>4, <1>5 DEF Comparable
<1> QED BY <1>5, <1>6

\* In no step does IsEqual take two resources for the same whose configs differ.
LEMMA ComparisonStep ==
  ASSUME IInv, IInv', StartInv, StartInv', VersionInv, VersionInv', Comparable(workload),
         [Next]_vars
  PROVE  ComparisonSuffices
<1>1. CASE phase = "crashed"
  <2>1. UNCHANGED <<hosts, listenerHosts, transportServers>>
    BY <1>1, CrashedStays DEF stores
  <2> QED BY <2>1 DEF ComparisonSuffices
<1>2. CASE phase # "crashed"
  <2>1. /\ Kept(ingresses, ingresses') /\ Kept(virtualServers, virtualServers')
        /\ Kept(virtualServerRoutes, virtualServerRoutes')
        /\ Kept(transportServers, transportServers')
    BY <1>2, StoresKept
  <2>2. workload' = workload
    BY WorkloadFixed
  <2>3. /\ StoresTypeOK /\ StoresTypeOK' /\ MinionIndexConsistent /\ MinionIndexConsistent'
        /\ RebuiltAfterStartup /\ RebuiltAfterStartup'
    BY DEF IInv, ConfInv, ConfTypeOK
  <2>4. ASSUME NEW h \in DOMAIN hosts \cap DOMAIN hosts', IsEqual(hosts[h], hosts'[h])
        PROVE  hosts[h].conf = hosts'[h].conf
    <3>1. hosts # EmptyMap /\ hosts' # EmptyMap
      BY DEF EmptyMap
    <3>2. hosts = newHosts /\ hosts' = newHosts'
      BY <2>3, <3>1 DEF StartInv, RebuiltAfterStartup
    <3> QED BY <2>1, <2>2, <2>3, <2>4, <3>2, HostsComparable
  <2>5. ASSUME NEW lh \in DOMAIN listenerHosts \cap DOMAIN listenerHosts',
               IsEqual(listenerHosts[lh], listenerHosts'[lh])
        PROVE  listenerHosts[lh].conf = listenerHosts'[lh].conf
    <3>1. listenerHosts = newListenerHosts /\ listenerHosts' = newListenerHosts'
      BY <2>3 DEF RebuiltAfterStartup
    <3> QED BY <2>1, <2>2, <2>3, <2>5, <3>1, ListenersComparable
  <2>6. ASSUME NEW k \in DOMAIN transportServers \cap DOMAIN transportServers'
        PROVE  isTLSPassthrough(transportServers[k]) <=> isTLSPassthrough(transportServers'[k])
    <3>1. /\ transportServers[k] \in workload.objects /\ transportServers'[k] \in workload.objects
          /\ transportServers[k].key = k /\ transportServers'[k].key = k
          /\ k \in Keys(TransportServers)
      <4>1. StoreOf(transportServers, TransportServers) /\ StoreOf(transportServers, TransportServers)'
        BY <2>3 DEF StoresTypeOK
      <4>2. /\ transportServers[k].key = k /\ transportServers'[k].key = k
            /\ k \in Keys(TransportServers)
        BY <4>1 DEF StoreOf
      <4>3. transportServers[k] \in workload.objects /\ transportServers'[k] \in workload.objects
        BY <2>2 DEF VersionInv, Values
      <4> QED BY <4>2, <4>3
    <3> QED BY <3>1 DEF Comparable
  <2> QED BY <2>4, <2>5, <2>6 DEF ComparisonSuffices
<1> QED BY <1>1, <1>2

\* The stores never run ahead of the cluster, for every interleaving.
LEMMA VersionInvariance ==
  ASSUME ~ReplacedUnseen
  PROVE  Spec => []VersionInv
<1>1. Init => VersionInv
  BY DEF Init, ConfInit, VersionInv, EmptyMap, Values, VersionsOf
<1>2. IInv /\ StoresCurrent /\ VersionInv /\ [Next]_vars => VersionInv'
  BY VersionStep
<1> QED BY <1>1, <1>2, Invariance, MemoryCurrent, PTL DEF Spec

\* What IsEqual compares is enough: unless an object is deleted and recreated before the worker
\* saw the deletion, two resources that it takes for the same have the same config, provided
\* the workload keeps what IsEqual does not look at.
THEOREM GenerationsSuffice ==
  ASSUME ~ReplacedUnseen
  PROVE  Spec => [][Comparable(workload) => ComparisonSuffices]_vars
<1>1. IInv /\ IInv' /\ StartInv /\ StartInv' /\ VersionInv /\ VersionInv' /\ [Next]_vars =>
        [Comparable(workload) => ComparisonSuffices]_vars
  BY ComparisonStep
<1> QED BY <1>1, Invariance, StartInvariance, VersionInvariance, PTL DEF Spec

\* Once the queue has drained the config files are exactly those of the active resources, each
\* generated from the resource as it is in memory, for every such workload that does not relabel
\* its namespace, whatever the order of the events.
THEOREM FilesFollowConfiguration ==
  ASSUME ~ReplacedUnseen
  PROVE  Spec => [](Comparable(workload) /\ ~workload.relabels => FilesReflectConfiguration)
<1> DEFINE Follows == Comparable(workload) => FollowInv
<1>1. Init => Follows
  BY FollowStart
<1>2. IInv /\ IInv' /\ StartInv /\ StartInv' /\ VersionInv /\ VersionInv' /\ Follows /\ [Next]_vars
      => Follows'
  <2> SUFFICES ASSUME IInv, IInv', StartInv, StartInv', VersionInv, VersionInv', Follows,
                      [Next]_vars, Comparable(workload)'
               PROVE  FollowInv'
    OBVIOUS
  <2>1. Comparable(workload)
    BY WorkloadFixed, SMTT(20) DEF Comparable
  <2>2. ComparisonSuffices
    BY <2>1, ComparisonStep
  <2> QED BY <2>1, <2>2, FollowStep
<1>3. IInv /\ StartInv /\ Follows =>
        (Comparable(workload) /\ ~workload.relabels => FilesReflectConfiguration)
  BY MapsAreOK, IdleExact
<1> HIDE DEF Follows
<1> QED BY <1>1, <1>2, <1>3, Invariance, StartInvariance, VersionInvariance, PTL DEF Spec

\* With them a host is served by the oldest valid object of the cluster that wants it, and by no
\* other, each time the queue has drained: what the conflict resolution promises.
THEOREM OldestServed ==
  ASSUME ~ReplacedUnseen
  PROVE  Spec => [](Comparable(workload) /\ ~workload.relabels => HostServedByOldest)
BY FilesFollowConfiguration, OldestIsServed, PTL

-----------------------------------------------------------------------------
(* Statuses.                                                               *)

\* The objects that the NGINX config is made of, and those that the Configuration refuses.
Active == WithChildren(GetResources)
Refused == DOMAIN hostProblems \cup DOMAIN listenerProblems

\* No listener is claimed before startup is complete.  (A TransportServer that gains a listener
\* then, and loses it, is told so at once and Applied by the deferred update.)
NoEarlyListeners ==
  workload.startedUp \/ \A o \in workload.objects :
    o.key \in Keys(TransportServers) => o.protocol = TLSPassthroughListenerProtocol

\* Every status is right, or there is a write ahead of it that makes it so: of a pending change,
\* of the startup flush, or of a problem.
Told ==
  /\ isNginxReady => \A k \in Active \cap DOMAIN cluster :
       k \in WithChildren(Updated(changes)) \cup flushing \/ status[k] = "Applied"
  /\ \A k \in Refused \cap DOMAIN cluster : k \in DOMAIN problems \/ status[k] = "Rejected"
  /\ \A k \in DOMAIN cluster \ queue : cluster[k].check = "invalid" =>
       k \in DOMAIN problems \/ status[k] = "Invalid"

\* And no write is ahead that makes it wrong.
Truthful ==
  /\ workload.startedUp => startupComplete
  /\ ~startupComplete => hostProblems = EmptyMap
  /\ pendingStatus = {}
  /\ flushing # {} => phase = "idle" /\ flushing \subseteq Active
  /\ phase \in {"idle", "tail"} => problems = EmptyMap
  /\ \A k \in DOMAIN problems : \/ problems[k] = "Invalid" /\ k \notin StoredKeys
                                \/ problems[k] = "Warning" /\ k \in Refused

StatusInv == ~workload.relabels /\ NoEarlyListeners => Told /\ Truthful

\* What a configuration of an Ingress records of its minions (NewMasterIngressConfiguration).
LEMMA IngressFields ==
  \A ing, minions, held :
    LET c == NewIngressConfiguration(ing, minions, held)
    IN  /\ c.children = {m.key : m \in minions}
        /\ c.compared.minions = {<<m.key, m.gen>> : m \in minions}
BY DEF NewIngressConfiguration

\* IsEqual compares the children of a resource (minions, VirtualServerRoutes).
LEMMA SameChildren ==
  ASSUME StoresTypeOK, StoresTypeOK',
         NEW g \in DOMAIN newHosts, NEW h \in DOMAIN newHosts', IsEqual(newHosts[g], newHosts'[h])
  PROVE  newHosts[g].children = newHosts'[h].children
<1>1. PICK w, held :
        \/ /\ w \in Values(ingresses)
           /\ newHosts[g] = NewIngressConfiguration(w, buildMinionConfigs(w), held)
        \/ w \in Values(virtualServers) /\ newHosts[g] = VirtualServerConfiguration(w)
        \/ /\ w \in Values(transportServers)
           /\ newHosts[g] = TransportServerConfiguration(w, held, 0, "default")
  BY HostEntry DEF HostsMade
<1>2. PICK v, held2 :
        \/ /\ v \in Values(ingresses')
           /\ newHosts'[h] = NewIngressConfiguration(v, buildMinionConfigs(v)', held2)
        \/ v \in Values(virtualServers') /\ newHosts'[h] = VirtualServerConfiguration(v)'
        \/ /\ v \in Values(transportServers')
           /\ newHosts'[h] = TransportServerConfiguration(v, held2, 0, "default")
  <2>1. (StoresTypeOK => HostsMade)'
    BY HostEntry, PTL
  <2> QED BY <2>1 DEF HostsMade, Values
<1>3. newHosts[g].key = w.key /\ newHosts'[h].key = v.key
  <2>1. /\ NewIngressConfiguration(w, buildMinionConfigs(w), held).key = w.key
        /\ NewIngressConfiguration(v, buildMinionConfigs(v)', held2).key = v.key
        /\ TransportServerConfiguration(w, held, 0, "default").key = w.key
        /\ TransportServerConfiguration(v, held2, 0, "default").key = v.key
    BY DEF NewIngressConfiguration, TransportServerConfiguration
  <2>2. VirtualServerConfiguration(w).key = w.key /\ VirtualServerConfiguration(v)'.key = v.key
    BY DEF VirtualServerConfiguration
  <2>3. newHosts[g].key = w.key
    BY <1>1, <2>1, <2>2
  <2>4. newHosts'[h].key = v.key
    BY <1>2, <2>1, <2>2
  <2> QED BY <2>3, <2>4
<1>4. w.key = v.key /\ newHosts[g].compared = newHosts'[h].compared
  BY <1>3 DEF IsEqual
<1>5. /\ \A o \in Values(ingresses) \cup Values(ingresses') : o.key \in Keys(Ingresses)
      /\ \A o \in Values(virtualServers) \cup Values(virtualServers') :
           o.key \in Keys(VirtualServers)
      /\ \A o \in Values(transportServers) \cup Values(transportServers') :
           o.key \in Keys(TransportServers)
  BY SMTT(20) DEF StoresTypeOK, StoreOf, Values, Keys
<1>6. CASE w \in Values(ingresses)
  <2>1. PICK S : S = buildMinionConfigs(w)
    OBVIOUS
  <2>2. PICK T : T = buildMinionConfigs(v)'
    OBVIOUS
  <2>3. /\ newHosts[g] = NewIngressConfiguration(w, S, held)
        /\ newHosts'[h] = NewIngressConfiguration(v, T, held2)
    BY <1>1, <1>2, <1>4, <1>5, <1>6, <2>1, <2>2, KindsAssumption
  <2>4. /\ newHosts[g].children = {m.key : m \in S} /\ newHosts'[h].children = {m.key : m \in T}
        /\ newHosts[g].compared.minions = {<<m.key, m.gen>> : m \in S}
        /\ newHosts'[h].compared.minions = {<<m.key, m.gen>> : m \in T}
    BY <2>3, IngressFields, SMTT(20)
  <2>5. {<<m.key, m.gen>> : m \in S} = {<<m.key, m.gen>> : m \in T}
    BY <1>4, <2>4
  <2>6. ASSUME NEW m \in S PROVE m.key \in {q.key : q \in T}
    <3>1. <<m.key, m.gen>> \in {<<q.key, q.gen>> : q \in T}
      BY <2>5
    <3> QED BY <3>1, SMTT(20)
  <2>7. ASSUME NEW m \in T PROVE m.key \in {q.key : q \in S}
    <3>1. <<m.key, m.gen>> \in {<<q.key, q.gen>> : q \in S}
      BY <2>5
    <3> QED BY <3>1, SMTT(20)
  <2>8. {m.key : m \in S} = {m.key : m \in T}
    BY <2>6, <2>7
  <2> QED BY <2>4, <2>8
<1>7. CASE w \in Values(virtualServers)
  <2>1. /\ newHosts[g] = VirtualServerConfiguration(w)
        /\ newHosts'[h] = VirtualServerConfiguration(v)'
    BY <1>1, <1>2, <1>4, <1>5, <1>7, KindsAssumption
  <2> DEFINE S == buildVirtualServerRoutes(w)
             T == buildVirtualServerRoutes(v)'
             C == challengesVSR(w)
             D == challengesVSR(v)'
             http == assignListener(w.http, FALSE)
             http2 == assignListener(v.http, FALSE)'
             https == assignListener(w.https, TRUE)
             https2 == assignListener(v.https, TRUE)'
  <2>2. PICK r : r = newHosts[g]
    OBVIOUS
  <2>3. PICK s : s = newHosts'[h]
    OBVIOUS
  <2>4. /\ r.children = {o.key : o \in S}
        /\ r.compared = [gen |-> w.gen, http |-> http, httpsPort |-> https.port,
                         vsrs |-> {<<o.key, o.gen>> : o \in S} \cup {<<i.key, 0>> : i \in C}]
    <3>1. r = VirtualServerConfiguration(w)
      BY <2>1, <2>2
    <3> QED BY <3>1 DEF VirtualServerConfiguration
  <2>5. /\ s.children = {o.key : o \in T}
        /\ s.compared = [gen |-> v.gen, http |-> http2, httpsPort |-> https2.port,
                         vsrs |-> {<<o.key, o.gen>> : o \in T} \cup {<<i.key, 0>> : i \in D}]
    <3>1. s = VirtualServerConfiguration(v)'
      BY <2>1, <2>3
    <3> QED BY <3>1 DEF VirtualServerConfiguration
  <2>8. /\ \A o \in S \cup T : o.key \in Keys(VirtualServerRoutes)
        /\ \A i \in C \cup D : i.key \in Keys(Ingresses)
    <3>1. C \subseteq Values(ingresses) /\ D \subseteq Values(ingresses')
      BY DEF challengesVSR
    <3>2. \A o \in S : o.key \in Keys(VirtualServerRoutes)
      <4>1. StoreOf(virtualServerRoutes, VirtualServerRoutes)
        BY DEF StoresTypeOK
      <4>2. \A k \in DOMAIN virtualServerRoutes :
              virtualServerRoutes[k].key \in Keys(VirtualServerRoutes)
        BY <4>1 DEF StoreOf
      <4> QED BY <4>2 DEF buildVirtualServerRoutes
    <3>3. \A o \in T : o.key \in Keys(VirtualServerRoutes)
      <4>1. StoreOf(virtualServerRoutes, VirtualServerRoutes)'
        BY DEF StoresTypeOK
      <4>2. \A k \in DOMAIN virtualServerRoutes' :
              virtualServerRoutes'[k].key \in Keys(VirtualServerRoutes)
        BY <4>1 DEF StoreOf
      <4> QED BY <4>2 DEF buildVirtualServerRoutes
    <3> QED BY <1>5, <3>1, <3>2, <3>3
  <2>9. Keys(Ingresses) \cap Keys(VirtualServerRoutes) = {}
    BY KindsAssumption
  <2> HIDE DEF S, T, C, D, http, http2, https, https2
  <2>10. {<<o.key, o.gen>> : o \in S} \cup {<<i.key, 0>> : i \in C}
           = {<<o.key, o.gen>> : o \in T} \cup {<<i.key, 0>> : i \in D}
    <3>1. r.compared.vsrs = {<<o.key, o.gen>> : o \in S} \cup {<<i.key, 0>> : i \in C}
      BY <2>4, SMTT(20)
    <3>2. s.compared.vsrs = {<<o.key, o.gen>> : o \in T} \cup {<<i.key, 0>> : i \in D}
      BY <2>5, SMTT(20)
    <3> QED BY <1>4, <2>2, <2>3, <3>1, <3>2
  <2>11. ASSUME NEW o \in S PROVE o.key \in {q.key : q \in T}
    <3>1. <<o.key, o.gen>> \in {<<q.key, q.gen>> : q \in T} \cup {<<i.key, 0>> : i \in D}
      BY <2>10
    <3> QED BY <2>8, <2>9, <3>1, SMTT(20)
  <2>12. ASSUME NEW o \in T PROVE o.key \in {q.key : q \in S}
    <3>1. <<o.key, o.gen>> \in {<<q.key, q.gen>> : q \in S} \cup {<<i.key, 0>> : i \in C}
      BY <2>10
    <3> QED BY <2>8, <2>9, <3>1, SMTT(20)
  <2>13. {o.key : o \in S} = {o.key : o \in T}
    BY <2>11, <2>12
  <2> QED BY <2>2, <2>3, <2>4, <2>5, <2>13
<1>8. CASE w \in Values(transportServers)
  <2>1. /\ newHosts[g] = TransportServerConfiguration(w, held, 0, "default")
        /\ newHosts'[h] = TransportServerConfiguration(v, held2, 0, "default")
    BY <1>1, <1>2, <1>4, <1>5, <1>8, KindsAssumption
  <2> QED BY <2>1, SMTT(20) DEF TransportServerConfiguration
<1> QED BY <1>1, <1>6, <1>7, <1>8

\* A resource that the changes of a map leave out was there before (squashResourceChanges).
LEMMA LeftOut ==
  ASSUME NEW old, NEW new, NEW c, c = squashResourceChanges(old, new),
         NEW r \in Values(new), r \notin c.moves \cup c.updates
  PROVE  \E h \in DOMAIN old \cap DOMAIN new : r = new[h] /\ IsEqual(old[h], new[h])
<1>1. c.moves \cup c.updates = AddOrUpdateChanges(old, new)
  BY DEF squashResourceChanges
<1>2. PICK h \in DOMAIN new : r = new[h]
  BY DEF Values
<1>3. h \notin updatedHosts(old, new) \cup addedHosts(old, new)
  BY <1>1, <1>2 DEF AddOrUpdateChanges
<1> QED BY <1>2, <1>3 DEF updatedHosts, addedHosts

\* What is active and what is refused is stored, and is never both; before startup is complete
\* nothing is either (buildHostsAndResources, addProblemsForResourcesWithoutActiveHost).
LEMMA OneAnswer ==
  IInv /\ StartInv /\ VersionInv /\ NoEarlyListeners /\ Truthful =>
    /\ Active \subseteq StoredKeys /\ Refused \subseteq StoredKeys /\ Active \cap Refused = {}
    /\ ~startupComplete => Active = {} /\ Refused = {}
<1> SUFFICES ASSUME IInv, StartInv, VersionInv, NoEarlyListeners, Truthful
             PROVE  /\ Active \subseteq StoredKeys /\ Refused \subseteq StoredKeys
                    /\ Active \cap Refused = {}
                    /\ ~startupComplete => Active = {} /\ Refused = {}
  OBVIOUS
<1>1. /\ StoresTypeOK /\ MinionIndexConsistent /\ startupComplete \in BOOLEAN
      /\ listenerHosts = newListenerHosts /\ listenerProblems = newListenerProblems
      /\ startupComplete => hosts = newHosts /\ hostProblems = newHostProblems
  BY DEF IInv, ConfInv, ConfTypeOK, RebuiltAfterStartup
<1>2. Active = HostActiveKeys \cup WithChildren(Values(listenerHosts))
  BY DEF Active, HostActiveKeys, WithChildren, GetResources
<1>3. \A ts \in ListenerTransportServers : ts.key \in DOMAIN transportServers
  BY <1>1, StoredKinds DEF ListenerTransportServers
<1>4. \A k \in WithChildren(Values(listenerHosts)) :
        \E ts \in ListenerTransportServers : ts.key = k
  BY <1>1, ListenerActiveOrRefused, SMTT(20) DEF WithChildren, Values
<1>5. \A k \in DOMAIN listenerProblems : \E ts \in ListenerTransportServers : ts.key = k
  BY <1>1, ListenerActiveOrRefused
<1>6. CASE startupComplete
  <2>1. Active \cap Refused = {}
    BY <1>6, ActiveOrRefused DEF IInv, ActiveXorProblem, Active, Refused, GetResources
  <2>2. HostActiveKeys \subseteq StoredKeys
    <3> SUFFICES ASSUME NEW k \in HostActiveKeys PROVE k \in StoredKeys
      OBVIOUS
    <3>1. PICK o : o.key = k /\ (\/ IngressActive(o) \/ MinionActive(o) \/ VirtualServerActive(o)
                                 \/ RouteActive(o) \/ PassthroughActive(o))
      BY <1>1, <1>6, HostActive
    <3>2. o \in Values(ingresses) \cup Values(virtualServers) \cup Values(virtualServerRoutes)
                  \cup Values(transportServers)
      BY <3>1 DEF IngressActive, MinionActive, VirtualServerActive, RouteActive, PassthroughActive,
                  HostIngresses, HostTransportServers
    <3> QED BY <1>1, <3>1, <3>2, StoredKinds DEF StoredKeys
  <2>3. DOMAIN hostProblems \subseteq StoredKeys
    <3> SUFFICES ASSUME NEW k \in DOMAIN hostProblems PROVE k \in StoredKeys
      OBVIOUS
    <3>1. PICK o : o.key = k /\ (\/ IngressRefused(o) \/ MinionRefused(o)
                                 \/ VirtualServerRefused(o) \/ RouteRefused(o)
                                 \/ PassthroughRefused(o))
      BY <1>1, <1>6, HostRefused
    <3>2. o \in Values(ingresses) \cup Values(virtualServers) \cup Values(virtualServerRoutes)
                  \cup Values(transportServers)
      BY <3>1 DEF IngressRefused, MinionRefused, VirtualServerRefused, RouteRefused,
                  PassthroughRefused, HostIngresses, HostTransportServers
    <3> QED BY <1>1, <3>1, <3>2, StoredKinds DEF StoredKeys
  <2> QED BY <1>2, <1>3, <1>4, <1>5, <1>6, <2>1, <2>2, <2>3, SMTT(20) DEF StoredKeys, Refused
<1>7. CASE ~startupComplete
  <2>1. \A o \in workload.objects :
          o.key \in Keys(TransportServers) => o.protocol = TLSPassthroughListenerProtocol
    BY <1>7 DEF NoEarlyListeners, Truthful
  <2>2. \A ts \in Values(transportServers) :
          ts \in workload.objects /\ ts.key \in Keys(TransportServers)
    BY <1>1, StoredKinds DEF VersionInv, Keys
  <2>3. ListenerTransportServers = {}
    BY <2>1, <2>2 DEF ListenerTransportServers
  <2>4. HostActiveKeys = {} /\ DOMAIN hostProblems = {}
    BY <1>7 DEF StartInv, Truthful, EmptyMap, HostActiveKeys, WithChildren, Values
  <2> QED BY <1>2, <1>4, <1>5, <2>3, <2>4 DEF Refused
<1> QED BY <1>1, <1>6, <1>7

\* An operation reports the change of every resource that was not there, and the problem of
\* every object that had none: the other objects have been told.
LEMMA RebuiltIsTold ==
  ASSUME IInv, IInv', StartInv, StartInv', Told, problems = EmptyMap, changes = <<>>,
         flushing = {}, flushing' = {}, UNCHANGED <<status, cluster, isNginxReady>>,
         \/ changes' = <<>> /\ UNCHANGED <<hosts, listenerHosts>>
         \/ changes' = <<hostChanges>> /\ UNCHANGED listenerHosts
         \/ changes' = <<listenerChanges>> /\ UNCHANGED hosts
         \/ changes' = <<listenerChanges, hostChanges>>,
         Refused' \ DOMAIN problems' \subseteq Refused,
         \A k \in (DOMAIN cluster \cap queue) \ queue' : cluster[k].check = "invalid" =>
           k \in DOMAIN problems'
  PROVE  Told'
<1> DEFINE hc == hostChanges
           lc == listenerChanges
<1>1. Updated(<<>>) = {} /\ WithChildren({}) = {} /\ DOMAIN EmptyMap = {}
  BY PendingOf DEF WithChildren, EmptyMap
<1>2. ASSUME isNginxReady', NEW k \in Active' \cap DOMAIN cluster',
             k \notin WithChildren(Updated(changes'))
      PROVE  status'[k] = "Applied"
  <2>1. UNCHANGED hosts => hc.deletes = {} /\ hc.moves = {} /\ hc.updates = {}
    BY SquashSame DEF hostChanges
  <2>2. UNCHANGED listenerHosts => lc.deletes = {} /\ lc.moves = {} /\ lc.updates = {}
    BY SquashSame DEF listenerChanges
  <2>3. Updated(changes') = hc.moves \cup hc.updates \cup lc.moves \cup lc.updates
    BY <2>1, <2>2, PendingOf, SMTT(20)
  <2>4. PICK r \in GetResources' : k \in {r.key} \cup r.children
    BY <1>2 DEF Active, WithChildren
  <2>5. r \notin Updated(changes')
    BY <1>2, <2>4 DEF WithChildren
  <2>6. /\ StoresTypeOK /\ hosts = newHosts /\ listenerHosts = newListenerHosts
    BY <1>2 DEF IInv, ConfInv, ConfTypeOK, RebuiltAfterStartup, StartInv
  <2>7. /\ StoresTypeOK' /\ hosts' = newHosts' /\ listenerHosts' = newListenerHosts'
    BY <1>2 DEF IInv, ConfInv, ConfTypeOK, RebuiltAfterStartup, StartInv
  <2>8. \E s \in GetResources : s.key = r.key /\ s.children = r.children
    <3>1. CASE r \in Values(hosts')
      <4>1. PICK h \in DOMAIN hosts \cap DOMAIN hosts' :
              r = hosts'[h] /\ IsEqual(hosts[h], hosts'[h])
        <5>1. r \notin hc.moves \cup hc.updates
          BY <2>3, <2>5
        <5>2. hc = squashResourceChanges(hosts, hosts')
          BY DEF hostChanges
        <5> QED BY <3>1, <5>1, <5>2, LeftOut, SMTT(20)
      <4>2. hosts[h].children = hosts'[h].children
        BY <2>6, <2>7, <4>1, SameChildren
      <4> QED BY <4>1, <4>2 DEF IsEqual, GetResources, Values
    <3>2. CASE r \in Values(listenerHosts')
      <4>1. PICK lh \in DOMAIN listenerHosts \cap DOMAIN listenerHosts' :
              r = listenerHosts'[lh] /\ IsEqual(listenerHosts[lh], listenerHosts'[lh])
        <5>1. r \notin lc.moves \cup lc.updates
          BY <2>3, <2>5
        <5>2. lc = squashResourceChanges(listenerHosts, listenerHosts')
          BY DEF listenerChanges
        <5> QED BY <3>2, <5>1, <5>2, LeftOut, SMTT(20)
      <4>2. listenerHosts[lh].children = {} /\ listenerHosts'[lh].children = {}
        BY <2>6, <2>7, <4>1 DEF newListenerHosts, TransportServerConfiguration
      <4> QED BY <4>1, <4>2 DEF IsEqual, GetResources, Values
    <3> QED BY <2>4, <3>1, <3>2 DEF GetResources
  <2>9. k \in Active \cap DOMAIN cluster
    BY <1>2, <2>4, <2>8 DEF Active, WithChildren
  <2> QED BY <1>1, <1>2, <2>9 DEF Told
<1>3. ASSUME NEW k \in Refused' \cap DOMAIN cluster', k \notin DOMAIN problems'
      PROVE  status'[k] = "Rejected"
  BY <1>1, <1>3 DEF Told
<1>4. ASSUME NEW k \in DOMAIN cluster' \ queue', cluster'[k].check = "invalid",
             k \notin DOMAIN problems'
      PROVE  status'[k] = "Invalid"
  BY <1>1, <1>4 DEF Told
<1> QED BY <1>2, <1>3, <1>4 DEF Told

\* What ReportProblems hands over.
LEMMA Reported ==
  ASSUME NEW rejected, ReportProblems(rejected), rejected \cap StoredKeys' = {}
  PROVE  /\ Refused' \ DOMAIN problems' \subseteq Refused
         /\ rejected \subseteq DOMAIN problems'
         /\ \A k \in DOMAIN problems' : \/ problems'[k] = "Invalid" /\ k \notin StoredKeys'
                                        \/ problems'[k] = "Warning" /\ k \in Refused'
<1>1. DOMAIN problems' = newProblems \cup rejected
  BY DEF ReportProblems
<1>2. \A k \in DOMAIN problems' : problems'[k] = IF k \in rejected THEN "Invalid" ELSE "Warning"
  BY DEF ReportProblems
<1>3. newProblems \subseteq Refused' /\ Refused' \ newProblems \subseteq Refused
  BY DEF newProblems, detectChangesInProblems, Refused
<1> QED BY <1>1, <1>2, <1>3

\* The sync of an object reports its validation error, and has removed it from its store.
LEMMA SyncReports ==
  ASSUME IInv, NEW key \in ObjectKeys, Get(key, {}),
         \/ syncIngress(key) /\ key \in Keys(Ingresses)
         \/ syncVirtualServer(key) /\ key \in Keys(VirtualServers)
         \/ syncVirtualServerRoute(key) /\ key \in Keys(VirtualServerRoutes)
         \/ syncTransportServer(key) /\ key \in Keys(TransportServers)
  PROVE  \/ /\ problems' = EmptyMap /\ key \notin DOMAIN cluster
            /\ UNCHANGED <<stores, hostProblems, listenerProblems>>
         \/ \E rejected :
              /\ ReportProblems(rejected) /\ rejected \cap StoredKeys' = {}
              /\ key \in DOMAIN cluster /\ cluster[key].check = "invalid" => key \in rejected
<1>1. key \in DOMAIN cluster => cluster[key] \in AllObjects /\ cluster[key].key = key
  BY DEF IInv, TypeOK
<1>2. /\ DOMAIN ingresses \subseteq Keys(Ingresses)
      /\ DOMAIN virtualServers \subseteq Keys(VirtualServers)
      /\ DOMAIN transportServers \subseteq Keys(TransportServers)
      /\ DOMAIN virtualServerRoutes \subseteq Keys(VirtualServerRoutes)
  BY DEF IInv, ConfInv, ConfTypeOK, StoresTypeOK, StoreOf
<1> DEFINE rejected == rejectedKeys(cluster[key])
<1>3. /\ key \in DOMAIN cluster /\ cluster[key].check = "invalid" => rejected = {key}
      /\ key \in DOMAIN cluster /\ cluster[key].check # "invalid" => rejected = {}
  BY <1>1 DEF rejectedKeys
<1>4. \A store : cluster[key].check = "invalid" /\ key \in DOMAIN cluster =>
                   key \notin DOMAIN Stored(store, cluster[key])
  BY <1>1 DEF Stored, Without
<1> HIDE DEF rejected
<1>5. CASE syncIngress(key) /\ key \in Keys(Ingresses)
  <2>1. CASE key \in DOMAIN cluster
    <3>1. /\ ingresses' = Stored(ingresses, cluster[key]) /\ ReportProblems(rejected)
          /\ UNCHANGED <<virtualServers, virtualServerRoutes, transportServers>>
      BY <1>5, <2>1 DEF syncIngress, Sync, AddOrUpdateIngress, RebuildAfterStartup, rejected
    <3>2. key \notin DOMAIN virtualServers \cup DOMAIN virtualServerRoutes \cup DOMAIN transportServers
      BY <1>2, <1>5, KindsAssumption
    <3>3. cluster[key].check = "invalid" => key \notin DOMAIN ingresses'
      BY <1>4, <2>1, <3>1
    <3>4. rejected = {} \/ (rejected = {key} /\ cluster[key].check = "invalid")
      BY <1>3, <2>1
    <3>5. rejected \cap StoredKeys' = {}
      BY <3>1, <3>2, <3>3, <3>4 DEF StoredKeys
    <3> QED BY <1>3, <3>1, <3>5
  <2>2. CASE key \notin DOMAIN cluster
    <3>1. \/ problems' = EmptyMap /\ UNCHANGED <<stores, hostProblems, listenerProblems>>
          \/ ReportProblems({})
      BY <1>5, <2>2 DEF syncIngress, Sync, DeleteIngress, RebuildAfterStartup, NothingToDelete,
                        built
    <3> QED BY <2>2, <3>1
  <2> QED BY <2>1, <2>2
<1>6. CASE syncVirtualServer(key) /\ key \in Keys(VirtualServers)
  <2>1. CASE key \in DOMAIN cluster
    <3>1. /\ virtualServers' = Stored(virtualServers, cluster[key]) /\ ReportProblems(rejected)
          /\ UNCHANGED <<ingresses, virtualServerRoutes, transportServers>>
      BY <1>6, <2>1 DEF syncVirtualServer, Sync, AddOrUpdateVirtualServer, RebuildAfterStartup,
                        rejected
    <3>2. key \notin DOMAIN ingresses \cup DOMAIN virtualServerRoutes \cup DOMAIN transportServers
      BY <1>2, <1>6, KindsAssumption
    <3>3. cluster[key].check = "invalid" => key \notin DOMAIN virtualServers'
      BY <1>4, <2>1, <3>1
    <3>4. rejected = {} \/ (rejected = {key} /\ cluster[key].check = "invalid")
      BY <1>3, <2>1
    <3>5. rejected \cap StoredKeys' = {}
      BY <3>1, <3>2, <3>3, <3>4 DEF StoredKeys
    <3> QED BY <1>3, <3>1, <3>5
  <2>2. CASE key \notin DOMAIN cluster
    <3>1. \/ problems' = EmptyMap /\ UNCHANGED <<stores, hostProblems, listenerProblems>>
          \/ ReportProblems({})
      BY <1>6, <2>2 DEF syncVirtualServer, Sync, DeleteVirtualServer, RebuildAfterStartup,
                        NothingToDelete, built
    <3> QED BY <2>2, <3>1
  <2> QED BY <2>1, <2>2
<1>7. CASE syncVirtualServerRoute(key) /\ key \in Keys(VirtualServerRoutes)
  <2>1. CASE key \in DOMAIN cluster
    <3>1. /\ virtualServerRoutes' = Stored(virtualServerRoutes, cluster[key])
          /\ ReportProblems(rejected)
          /\ UNCHANGED <<ingresses, virtualServers, transportServers>>
      BY <1>7, <2>1 DEF syncVirtualServerRoute, Sync, AddOrUpdateVirtualServerRoute,
                        RebuildAfterStartup, rejected
    <3>2. key \notin DOMAIN ingresses \cup DOMAIN virtualServers \cup DOMAIN transportServers
      BY <1>2, <1>7, KindsAssumption
    <3>3. cluster[key].check = "invalid" => key \notin DOMAIN virtualServerRoutes'
      BY <1>4, <2>1, <3>1
    <3>4. rejected = {} \/ (rejected = {key} /\ cluster[key].check = "invalid")
      BY <1>3, <2>1
    <3>5. rejected \cap StoredKeys' = {}
      BY <3>1, <3>2, <3>3, <3>4 DEF StoredKeys
    <3> QED BY <1>3, <3>1, <3>5
  <2>2. CASE key \notin DOMAIN cluster
    <3>1. \/ problems' = EmptyMap /\ UNCHANGED <<stores, hostProblems, listenerProblems>>
          \/ ReportProblems({})
      BY <1>7, <2>2 DEF syncVirtualServerRoute, Sync, DeleteVirtualServerRoute,
                        RebuildAfterStartup, NothingToDelete, built
    <3> QED BY <2>2, <3>1
  <2> QED BY <2>1, <2>2
<1>8. CASE syncTransportServer(key) /\ key \in Keys(TransportServers)
  <2>1. CASE key \in DOMAIN cluster
    <3>1. /\ transportServers' = Stored(transportServers, cluster[key])
          /\ ReportProblems(rejected)
          /\ UNCHANGED <<ingresses, virtualServers, virtualServerRoutes>>
      BY <1>8, <2>1 DEF syncTransportServer, Sync, AddOrUpdateTransportServer,
                        RebuildListenersAndHosts, rejected
    <3>2. key \notin DOMAIN ingresses \cup DOMAIN virtualServers \cup DOMAIN virtualServerRoutes
      BY <1>2, <1>8, KindsAssumption
    <3>3. cluster[key].check = "invalid" => key \notin DOMAIN transportServers'
      BY <1>4, <2>1, <3>1
    <3>4. rejected = {} \/ (rejected = {key} /\ cluster[key].check = "invalid")
      BY <1>3, <2>1
    <3>5. rejected \cap StoredKeys' = {}
      BY <3>1, <3>2, <3>3, <3>4 DEF StoredKeys
    <3> QED BY <1>3, <3>1, <3>5
  <2>2. CASE key \notin DOMAIN cluster
    <3>1. \/ problems' = EmptyMap /\ UNCHANGED <<stores, hostProblems, listenerProblems>>
          \/ ReportProblems({})
      BY <1>8, <2>2 DEF syncTransportServer, Sync, DeleteTransportServer,
                        RebuildListenersAndHosts, NothingToDelete, built
    <3> QED BY <2>2, <3>1
  <2> QED BY <2>1, <2>2
<1> QED BY <1>5, <1>6, <1>7, <1>8

\* What the proofs about the other parts of the state give at every state.
Sound == IInv /\ StartInv /\ VersionInv /\ StoresCurrent /\ KeysFollow /\ LabelInv

\* An operation on the Configuration, with what is common to all of them.
LEMMA OperationTold ==
  ASSUME Sound, Sound', NoEarlyListeners, Told, Truthful, ~workload.relabels,
         phase = "idle", flushing = {}, phase' \in {"changes", "globalChanges"},
         UNCHANGED <<status, cluster, workload, pendingStatus, flushing, isNginxReady,
                     startupComplete>>,
         ~startupComplete => UNCHANGED hostProblems,
         \/ changes' = <<>> /\ UNCHANGED <<hosts, listenerHosts>>
         \/ changes' = <<hostChanges>> /\ UNCHANGED listenerHosts
         \/ changes' = <<listenerChanges>> /\ UNCHANGED hosts
         \/ changes' = <<listenerChanges, hostChanges>>,
         \/ /\ problems' = EmptyMap /\ UNCHANGED <<hostProblems, listenerProblems>>
            /\ (DOMAIN cluster \cap queue) \ queue' = {}
         \/ \E rejected :
              /\ ReportProblems(rejected) /\ rejected \cap StoredKeys' = {}
              /\ \A k \in (DOMAIN cluster \cap queue) \ queue' :
                   cluster[k].check = "invalid" => k \in rejected
  PROVE  Told' /\ Truthful'
<1>1. /\ Refused' \ DOMAIN problems' \subseteq Refused
      /\ \A k \in (DOMAIN cluster \cap queue) \ queue' :
           cluster[k].check = "invalid" => k \in DOMAIN problems'
      /\ \A k \in DOMAIN problems' : \/ problems'[k] = "Invalid" /\ k \notin StoredKeys'
                                     \/ problems'[k] = "Warning" /\ k \in Refused'
  <2>1. CASE /\ problems' = EmptyMap /\ UNCHANGED <<hostProblems, listenerProblems>>
             /\ (DOMAIN cluster \cap queue) \ queue' = {}
    BY <2>1 DEF Refused, EmptyMap
  <2>2. CASE \E rejected :
               /\ ReportProblems(rejected) /\ rejected \cap StoredKeys' = {}
               /\ \A k \in (DOMAIN cluster \cap queue) \ queue' :
                    cluster[k].check = "invalid" => k \in rejected
    <3>1. PICK rejected :
            /\ ReportProblems(rejected) /\ rejected \cap StoredKeys' = {}
            /\ \A k \in (DOMAIN cluster \cap queue) \ queue' :
                 cluster[k].check = "invalid" => k \in rejected
      BY <2>2
    <3> QED BY <3>1, Reported
  <2> QED BY <2>1, <2>2
<1>2. problems = EmptyMap /\ changes = <<>>
  BY DEF Truthful, Sound, KeysFollow
<1>3. Told'
  BY <1>1, <1>2, RebuiltIsTold DEF Sound
<1>4. Truthful'
  <2>1. /\ workload'.startedUp => startupComplete'
        /\ ~startupComplete' => hostProblems' = EmptyMap
        /\ pendingStatus' = {} /\ flushing' = {} /\ phase' \notin {"idle", "tail"}
    BY DEF Truthful
  <2> QED BY <1>1, <2>1 DEF Truthful
<1> QED BY <1>3, <1>4

\* An object that is stored and has no task is valid; one without a task that is not there is
\* not stored (MemoryCurrent, where every namespace is watched).
LEMMA StoredIsValid ==
  ASSUME Sound, ~workload.relabels, NEW k \in StoredKeys, k \notin queue
  PROVE  k \in DOMAIN cluster /\ cluster[k].check = "ok"
<1>1. /\ DOMAIN ingresses \subseteq Keys(Ingresses)
      /\ DOMAIN virtualServers \subseteq Keys(VirtualServers)
      /\ DOMAIN transportServers \subseteq Keys(TransportServers)
      /\ DOMAIN virtualServerRoutes \subseteq Keys(VirtualServerRoutes)
  BY DEF Sound, IInv, ConfInv, ConfTypeOK, StoresTypeOK, StoreOf
<1>2. watched /\ phase \in {"idle", "changes", "globalChanges", "tail", "startup"}
  BY DEF Sound, LabelInv
<1> QED BY <1>1, <1>2 DEF Sound, StoresCurrent, Current, Agrees, StoredKeys, Watched

\* A write of "Applied" to active objects, or of "Rejected" to refused ones, disturbs nothing.
LEMMA WriteTold ==
  ASSUME Sound, NoEarlyListeners, Told, Truthful, ~workload.relabels,
         UNCHANGED <<stores, built, cluster, queue, isNginxReady, problems>>,
         NEW keys, NEW state, WriteStatus(keys, state),
         \/ state = "Applied" /\ keys \subseteq Active
         \/ state = "Rejected" /\ keys \subseteq Refused,
         isNginxReady =>
           \A k \in WithChildren(Updated(changes)) \cup flushing :
             \/ k \in WithChildren(Updated(changes')) \cup flushing'
             \/ state = "Applied" /\ k \in keys
  PROVE  Told'
<1>1. /\ Active' = Active /\ Refused' = Refused /\ Active \cap Refused = {}
      /\ Active \subseteq StoredKeys /\ Refused \subseteq StoredKeys
  BY OneAnswer DEF Sound, Active, Refused, GetResources, built
<1>2. DOMAIN cluster \subseteq ObjectKeys /\ Visible = DOMAIN cluster
  BY DEF Sound, IInv, TypeOK, LabelInv, Visible, Watched
<1>3. \A k \in DOMAIN cluster : status'[k] = IF k \in keys THEN state ELSE status[k]
  BY <1>2 DEF WriteStatus
<1>4. ASSUME NEW k \in DOMAIN cluster \ queue, cluster[k].check = "invalid" PROVE k \notin keys
  BY <1>1, <1>4, StoredIsValid
<1>5. ASSUME isNginxReady, NEW k \in Active \cap DOMAIN cluster,
             k \notin WithChildren(Updated(changes')) \cup flushing'
      PROVE  status'[k] = "Applied"
  BY <1>1, <1>3, <1>5 DEF Told
<1>6. ASSUME NEW k \in Refused \cap DOMAIN cluster, k \notin DOMAIN problems
      PROVE  status'[k] = "Rejected"
  BY <1>1, <1>3, <1>6 DEF Told
<1>7. ASSUME NEW k \in DOMAIN cluster \ queue, cluster[k].check = "invalid",
             k \notin DOMAIN problems
      PROVE  status'[k] = "Invalid"
  BY <1>3, <1>4, <1>7 DEF Told
<1> QED BY <1>1, <1>5, <1>6, <1>7 DEF Told

\* processProblems writes what the Configuration has reported.
LEMMA ProblemsTold ==
  ASSUME Sound, NoEarlyListeners, Told, Truthful, ~workload.relabels,
         UNCHANGED <<stores, built, cluster, queue>>, status' = ProblemStatus,
         isNginxReady' =>
           /\ isNginxReady => WithChildren(Updated(changes)) \cup flushing
                                \subseteq WithChildren(Updated(changes')) \cup flushing'
           /\ ~isNginxReady => Active \cap DOMAIN cluster \subseteq flushing'
  PROVE  Told'
<1>1. /\ Active' = Active /\ Refused' = Refused /\ Active \cap Refused = {}
      /\ Active \subseteq StoredKeys /\ Refused \subseteq StoredKeys
  BY OneAnswer DEF Sound, Active, Refused, GetResources, built
<1>2. DOMAIN cluster \subseteq ObjectKeys /\ Visible = DOMAIN cluster
  BY DEF Sound, IInv, TypeOK, LabelInv, Visible, Watched
<1>3. \A k \in DOMAIN cluster :
        status'[k] = IF k \in DOMAIN problems
                     THEN IF problems[k] = "Invalid" THEN "Invalid" ELSE "Rejected"
                     ELSE status[k]
  BY <1>2 DEF ProblemStatus
<1>4. \A k \in DOMAIN problems : \/ problems[k] = "Invalid" /\ k \notin StoredKeys
                                 \/ problems[k] = "Warning" /\ k \in Refused
  BY DEF Truthful
<1>5. ASSUME isNginxReady', NEW k \in Active \cap DOMAIN cluster,
             k \notin WithChildren(Updated(changes')) \cup flushing'
      PROVE  status'[k] = "Applied"
  BY <1>1, <1>3, <1>4, <1>5 DEF Told
<1>6. ASSUME NEW k \in Refused \cap DOMAIN cluster PROVE status'[k] = "Rejected"
  <2>1. k \in DOMAIN problems => problems[k] = "Warning"
    BY <1>1, <1>4, <1>6
  <2> QED BY <1>3, <1>6, <2>1 DEF Told
<1>7. ASSUME NEW k \in DOMAIN cluster \ queue, cluster[k].check = "invalid"
      PROVE  status'[k] = "Invalid"
  <2>1. k \notin Refused
    BY <1>1, <1>7, StoredIsValid
  <2> QED BY <1>3, <1>4, <1>7, <2>1 DEF Told
<1> QED BY <1>1, <1>5, <1>6, <1>7 DEF Told

\* The steps that process the pending changes and problems.
LEMMA ConsumedTold ==
  ASSUME Sound, NoEarlyListeners, Told, Truthful, ~workload.relabels,
         \/ \E k \in ObjectKeys : processDelete(k)
         \/ \E r : processAddOrUpdate(r)
         \/ NextChangeList
         \/ processChangesFromGlobalConfiguration
         \/ processProblems
         \/ StartupConfigs
  PROVE  Told' /\ Truthful'
<1>1. /\ UNCHANGED <<stores, built, startupComplete, cluster, workload, queue>>
      /\ Active' = Active /\ Refused' = Refused /\ StoredKeys' = StoredKeys
  BY DEF processDelete, processAddOrUpdate, NextChangeList, built, stores, clusterVars, Active,
         processChangesFromGlobalConfiguration, processProblems, StartupConfigs, GetResources,
         Refused, StoredKeys
<1>2. phase \in {"changes", "globalChanges", "startup"} /\ flushing = {} /\ pendingStatus = {}
  BY DEF processDelete, processAddOrUpdate, NextChangeList, processChangesFromGlobalConfiguration,
         processProblems, StartupConfigs, Truthful
<1>3. ChangesOK(changes)
  BY DEF Sound, IInv, ConfInv, ConfTypeOK, ChangesOK
<1>4. Updated(changes) \subseteq GetResources /\ WithChildren(Updated(changes)) \subseteq Active
  BY <1>2 DEF Sound, KeysFollow, WithChildren, Active
<1>5. ~isNginxReady /\ phase # "startup" => Updated(changes) = {}
  <2> SUFFICES ASSUME ~isNginxReady, phase # "startup", NEW r \in Updated(changes) PROVE FALSE
    OBVIOUS
  <2>1. Active = {}
    BY OneAnswer DEF Sound, StartInv
  <2> QED BY <1>4, <2>1, SMTT(20) DEF WithChildren
<1>6. ASSUME UNCHANGED <<problems, pendingStatus, flushing>>, phase' = "changes"
      PROVE  Truthful'
  BY <1>1, <1>2, <1>6 DEF Truthful, built
<1>7. ASSUME problems' = EmptyMap, pendingStatus' = {},
             flushing' # {} => phase' = "idle" /\ flushing' \subseteq Active
      PROVE  Truthful'
  BY <1>1, <1>7 DEF Truthful, built, EmptyMap
<1>8. ASSUME NEW d, changes # <<>>, changes' = [changes EXCEPT ![1] = d]
      PROVE  /\ Updated(changes) = changes[1].moves \cup changes[1].updates
                                     \cup Updated(Tail(changes))
             /\ Updated(changes') = d.moves \cup d.updates \cup Updated(Tail(changes))
  BY <1>3, <1>8, PendingAfter
<1>9. CASE \E k \in ObjectKeys : processDelete(k)
  <2>1. PICK k \in ObjectKeys : processDelete(k)
    BY <1>9
  <2>2. PICK d : d = [changes[1] EXCEPT !.deletes = @ \ {k}]
    OBVIOUS
  <2>3. /\ changes # <<>> /\ changes' = [changes EXCEPT ![1] = d] /\ phase' = "changes"
        /\ UNCHANGED <<problems, pendingStatus, flushing, isNginxReady>>
        /\ WriteStatus({k} \cap DOMAIN hostProblems, "Rejected")
    BY <2>1, <2>2 DEF processDelete
  <2>4. ChangeListOK(changes[1])
    BY <1>3, <2>3, ChangesConsumed
  <2>5. d.moves = changes[1].moves /\ d.updates = changes[1].updates
    BY <2>2, <2>4 DEF ChangeListOK
  <2>6. Updated(changes') = Updated(changes)
    BY <1>8, <2>3, <2>5
  <2>7. {k} \cap DOMAIN hostProblems \subseteq Refused
    BY DEF Refused
  <2>8. Told'
    BY <1>1, <2>3, <2>6, <2>7, WriteTold
  <2> QED BY <1>6, <2>3, <2>8
<1>10. CASE \E r : processAddOrUpdate(r)
  <2>1. PICK r : processAddOrUpdate(r)
    BY <1>10
  <2>2. PICK d : d = Processed(changes[1], r)
    OBVIOUS
  <2>3. /\ changes # <<>> /\ changes' = [changes EXCEPT ![1] = d] /\ phase = "changes"
        /\ phase' = "changes" /\ UNCHANGED <<problems, isNginxReady>>
        /\ r \in NextUpdates /\ ReportApplied({r})
    BY <2>1, <2>2 DEF processAddOrUpdate
  <2>4. d.moves = changes[1].moves \ {r} /\ d.updates = changes[1].updates \ {r}
    BY <2>2 DEF Processed
  <2>5. r \in Updated(changes)
    <3>1. Head(changes) = changes[1]
      BY <1>3, <2>3, ChangesConsumed
    <3> QED BY <1>8, <2>3, <3>1 DEF NextUpdates
  <2>6. PICK applied : applied = WithChildren({r}) \cap ObjectKeys
    OBVIOUS
  <2>7. isNginxReady /\ WriteStatus(applied, "Applied") /\ UNCHANGED <<pendingStatus, flushing>>
    BY <1>5, <2>3, <2>5, <2>6 DEF ReportApplied
  <2>8. Updated(changes) = Updated(changes') \cup {r}
    BY <1>8, <2>3, <2>4, <2>5
  <2>9. WithChildren(Updated(changes)) = WithChildren(Updated(changes')) \cup WithChildren({r})
    BY <2>8 DEF WithChildren
  <2>10. Active \subseteq ObjectKeys
    BY OneAnswer, StoredAreKeys DEF Sound
  <2>11. WithChildren({r}) = applied /\ applied \subseteq Active
    BY <1>4, <2>6, <2>9, <2>10
  <2>12. Told'
    BY <1>1, <2>3, <2>7, <2>9, <2>11, WriteTold
  <2> QED BY <1>6, <2>3, <2>7, <2>12
<1>11. CASE NextChangeList
  <2>1. /\ changes # <<>> /\ changes' = Tail(changes) /\ phase' = "changes"
        /\ NextUpdates = {}
        /\ UNCHANGED <<problems, status, pendingStatus, flushing, isNginxReady>>
    BY <1>11 DEF NextChangeList, statusVars
  <2>2. Head(changes) = changes[1]
        /\ Updated(changes) = changes[1].moves \cup changes[1].updates \cup Updated(Tail(changes))
    BY <1>3, <2>1, ChangesConsumed, PendingAfter
  <2>3. Updated(changes') = Updated(changes)
    BY <2>1, <2>2 DEF NextUpdates
  <2>4. Told'
    BY <1>1, <2>1, <2>3 DEF Told
  <2> QED BY <1>6, <2>1, <2>4
<1>12. CASE processChangesFromGlobalConfiguration
  <2>1. /\ changes' = <<>> /\ phase' = "changes" /\ phase = "globalChanges"
        /\ ReportApplied(Updated(changes)) /\ UNCHANGED <<problems, isNginxReady>>
    BY <1>12 DEF processChangesFromGlobalConfiguration
  <2>2. PICK applied : applied = WithChildren(Updated(changes)) \cap ObjectKeys
    OBVIOUS
  <2>3. Active \subseteq ObjectKeys
    BY OneAnswer, StoredAreKeys DEF Sound
  <2>4. WithChildren(Updated(changes)) = applied /\ applied \subseteq Active
    BY <1>4, <2>2, <2>3
  <2>5. CASE isNginxReady
    <3>1. WriteStatus(applied, "Applied") /\ UNCHANGED <<pendingStatus, flushing>>
      BY <2>1, <2>2, <2>5 DEF ReportApplied
    <3>2. Told'
      BY <1>1, <1>2, <2>1, <2>4, <3>1, WriteTold
    <3> QED BY <1>6, <2>1, <3>1, <3>2
  <2>6. CASE ~isNginxReady
    <3>1. applied = {}
      BY <1>5, <2>1, <2>2, <2>6 DEF WithChildren
    <3>2. UNCHANGED <<status, pendingStatus, flushing>>
      BY <2>1, <2>2, <2>6, <3>1 DEF ReportApplied
    <3>3. Told'
      BY <1>1, <2>1, <2>6, <3>2 DEF Told
    <3> QED BY <1>6, <2>1, <3>2, <3>3
  <2> QED BY <2>5, <2>6
<1>13. CASE processProblems
  <2>1. /\ status' = ProblemStatus /\ problems' = EmptyMap
        /\ UNCHANGED <<changes, isNginxReady, pendingStatus, flushing>>
    BY <1>13 DEF processProblems
  <2>2. Told'
    BY <1>1, <2>1, ProblemsTold
  <2> QED BY <1>2, <1>7, <2>1, <2>2
<1>14. CASE StartupConfigs
  <2>1. /\ status' = ProblemStatus /\ problems' = EmptyMap /\ phase' = "idle"
        /\ pendingStatus' = {} /\ flushing' = Active \cap ObjectKeys
    BY <1>2, <1>14 DEF StartupConfigs, Active
  <2>2. Active \cap DOMAIN cluster \subseteq flushing'
    BY <2>1 DEF Sound, IInv, TypeOK
  <2>3. WithChildren(Updated(changes)) \cup flushing \subseteq flushing'
    BY <1>2, <1>4, <2>1, OneAnswer, StoredAreKeys DEF Sound
  <2>4. Told'
    BY <1>1, <2>1, <2>2, <2>3, ProblemsTold
  <2> QED BY <1>7, <2>1, <2>4
<1> QED BY <1>9, <1>10, <1>11, <1>12, <1>13, <1>14

\* Every step keeps the statuses right or on their way.
LEMMA StatusStep ==
  ASSUME ~ReplacedUnseen, ~FlushOverlaps, Sound, Sound', StatusInv, [Next]_vars
  PROVE  StatusInv'
<1>1. UNCHANGED workload
  BY WorkloadFixed
<1> SUFFICES ASSUME ~workload.relabels, NoEarlyListeners, Told, Truthful PROVE Told' /\ Truthful'
  BY <1>1 DEF StatusInv, NoEarlyListeners
<1>2. /\ watched /\ watched' /\ labelled
      /\ phase \in {"idle", "changes", "globalChanges", "tail", "startup"}
      /\ phase' \in {"idle", "changes", "globalChanges", "tail", "startup"}
  BY <1>1 DEF Sound, LabelInv
<1>3. ASSUME UNCHANGED <<confVars, cluster, queue, isNginxReady, statusVars>>,
             phase' = phase \/ (phase \in {"idle", "tail"} /\ flushing = {})
      PROVE  Told' /\ Truthful'
  <2>1. UNCHANGED <<Active, Refused, StoredKeys, changes, problems, status, pendingStatus,
                    flushing, startupComplete, hostProblems>>
    BY <1>3 DEF confVars, stores, built, statusVars, Active, Refused, GetResources, StoredKeys
  <2>2. Told'
    BY <1>3, <2>1 DEF Told
  <2>3. Truthful'
    BY <1>1, <1>3, <2>1 DEF Truthful
  <2> QED BY <2>2, <2>3
<1>4. CASE UNCHANGED vars
  BY <1>3, <1>4 DEF vars, clusterVars
<1>5. CASE ClusterNext
  <2>1. UNCHANGED <<Active, Refused, StoredKeys, changes, problems, pendingStatus, flushing,
                    startupComplete, hostProblems, phase, isNginxReady>>
    BY <1>5 DEF ClusterNext, Create, Update, Remove, ChangeGlobalConfiguration,
                ChangeNamespaceLabel, confVars, stores, built, statusVars, Active, Refused,
                GetResources, StoredKeys
  <2>2. Truthful'
    BY <1>1, <2>1 DEF Truthful
  <2>3. ASSUME NEW o, Create(o) PROVE Told'
    <3>1. /\ cluster' = Put(cluster, o.key, o) /\ queue' = queue \cup {o.key}
          /\ status' = [status EXCEPT ![o.key] = "none"] /\ o.key \notin queue
          /\ o.key \notin DOMAIN cluster
      BY <1>2, <2>3 DEF Create, AddSyncQueue, Watched
    <3>2. o.key \notin StoredKeys
      BY <3>1, StoredIsValid
    <3>3. o.key \notin Active \cup Refused
      BY <3>2, OneAnswer DEF Sound
    <3>4. /\ DOMAIN cluster' = DOMAIN cluster \cup {o.key}
          /\ \A k \in DOMAIN cluster : cluster'[k] = cluster[k] /\ k # o.key
      BY <3>1 DEF Put
    <3>5. status \in [ObjectKeys -> {"none", "Applied", "Rejected", "Invalid"}]
          /\ DOMAIN cluster \subseteq ObjectKeys
      BY DEF Sound, IInv, TypeOK
    <3>6. \A k \in DOMAIN cluster : status'[k] = status[k]
      BY <3>1, <3>4, <3>5
    <3> QED BY <2>1, <3>1, <3>3, <3>4, <3>6 DEF Told
  <2>4. ASSUME NEW o, Update(o) PROVE Told'
    <3>1. /\ cluster' = Put(cluster, o.key, o) /\ queue' = queue \cup {o.key}
          /\ UNCHANGED status /\ o.key \in DOMAIN cluster
      BY <1>2, <2>4 DEF Update, AddSyncQueue, Watched, statusVars
    <3>2. /\ DOMAIN cluster' = DOMAIN cluster
          /\ \A k \in DOMAIN cluster : k # o.key => cluster'[k] = cluster[k]
      BY <3>1 DEF Put
    <3> QED BY <2>1, <3>1, <3>2 DEF Told
  <2>5. ASSUME NEW key, Remove(key) PROVE Told'
    <3>1. /\ cluster' = Without(cluster, key) /\ queue' = queue \cup {key} /\ UNCHANGED status
      BY <1>2, <2>5 DEF Remove, AddSyncQueue, Watched, statusVars
    <3>2. /\ DOMAIN cluster' = DOMAIN cluster \ {key}
          /\ \A k \in DOMAIN cluster' : cluster'[k] = cluster[k]
      BY <3>1 DEF Without
    <3> QED BY <2>1, <3>1, <3>2 DEF Told
  <2>6. ASSUME NEW gcs, ChangeGlobalConfiguration(gcs) PROVE Told'
    <3>1. UNCHANGED <<cluster, status>> /\ queue \subseteq queue'
      BY <2>6 DEF ChangeGlobalConfiguration, AddSyncQueue, statusVars
    <3> QED BY <2>1, <3>1 DEF Told
  <2>7. ~ChangeNamespaceLabel
    BY DEF ChangeNamespaceLabel
  <2> QED BY <1>5, <2>2, <2>3, <2>4, <2>5, <2>6, <2>7 DEF ClusterNext
<1>6. ASSUME NEW key,
             \/ syncIngress(key) /\ key \in Keys(Ingresses)
             \/ syncVirtualServer(key) /\ key \in Keys(VirtualServers)
             \/ syncVirtualServerRoute(key) /\ key \in Keys(VirtualServerRoutes)
             \/ syncTransportServer(key) /\ key \in Keys(TransportServers)
      PROVE  Told' /\ Truthful'
  <2>1. /\ UNCHANGED <<cluster, status, pendingStatus, flushing, isNginxReady>>
        /\ phase = "idle" /\ flushing = {} /\ phase' = "changes" /\ queue' = queue \ {key}
        /\ Get(key, {})
    BY <1>6 DEF syncIngress, syncVirtualServer, syncVirtualServerRoute, syncTransportServer, Sync,
                Get, clusterVars, statusVars
  <2>2. /\ \/ changes' = <<>> /\ UNCHANGED <<hosts, listenerHosts>>
           \/ changes' = <<hostChanges>> /\ UNCHANGED listenerHosts
           \/ changes' = <<listenerChanges>> /\ UNCHANGED hosts
           \/ changes' = <<listenerChanges, hostChanges>>
        /\ UNCHANGED startupComplete
        /\ ~startupComplete => UNCHANGED hostProblems
    BY <1>6 DEF syncIngress, syncVirtualServer, syncVirtualServerRoute, syncTransportServer, Sync,
                AddOrUpdateIngress, DeleteIngress, AddOrUpdateVirtualServer, DeleteVirtualServer,
                AddOrUpdateVirtualServerRoute, DeleteVirtualServerRoute,
                AddOrUpdateTransportServer, DeleteTransportServer, NothingToDelete, built,
                RebuildAfterStartup, RebuildListenersAndHosts
  <2>3. key \in ObjectKeys
    BY <1>6 DEF ObjectKeys, AllObjects, Keys
  <2>4. \/ /\ problems' = EmptyMap /\ key \notin DOMAIN cluster
           /\ UNCHANGED <<hostProblems, listenerProblems>>
        \/ \E rejected :
             /\ ReportProblems(rejected) /\ rejected \cap StoredKeys' = {}
             /\ key \in DOMAIN cluster /\ cluster[key].check = "invalid" => key \in rejected
    BY <1>6, <2>1, <2>3, SyncReports DEF Sound
  <2>5. \/ /\ problems' = EmptyMap /\ UNCHANGED <<hostProblems, listenerProblems>>
           /\ (DOMAIN cluster \cap queue) \ queue' = {}
        \/ \E rejected :
             /\ ReportProblems(rejected) /\ rejected \cap StoredKeys' = {}
             /\ \A k \in (DOMAIN cluster \cap queue) \ queue' :
                  cluster[k].check = "invalid" => k \in rejected
    BY <2>1, <2>4
  <2> QED BY <1>1, <2>1, <2>2, <2>5, OperationTold
<1>7. CASE syncGlobalConfiguration
  <2>1. /\ UNCHANGED <<cluster, status, pendingStatus, flushing, isNginxReady>>
        /\ phase = "idle" /\ flushing = {} /\ phase' = "globalChanges"
        /\ queue' = queue \ {GlobalConfigurationKey}
    BY <1>7 DEF syncGlobalConfiguration, Get, clusterVars, statusVars
  <2>2. /\ \/ changes' = <<listenerChanges>> /\ UNCHANGED hosts
           \/ changes' = <<listenerChanges, hostChanges>>
        /\ UNCHANGED startupComplete /\ ReportProblems({})
        /\ ~startupComplete => UNCHANGED hostProblems
    BY <1>7 DEF syncGlobalConfiguration, AddOrUpdateGlobalConfiguration,
                DeleteGlobalConfiguration, RebuildListenersAndHosts
  <2>3. (DOMAIN cluster \cap queue) \ queue' = {}
    BY <2>1, TasksAssumption DEF Sound, IInv, TypeOK
  <2> QED BY <1>1, <2>1, <2>2, <2>3, OperationTold
<1>8. CASE \E k \in NamespaceKeys : syncUnwatched(k)
  BY <1>2, <1>8 DEF syncUnwatched
<1>9. CASE WatchNamespace
  <2>1. /\ UNCHANGED <<confVars, cluster, isNginxReady, statusVars>> /\ phase = "idle"
        /\ flushing = {} /\ queue' = queue \ {NamespaceKey}
    BY <1>2, <1>9 DEF WatchNamespace, Get
  <2>2. DOMAIN cluster \ queue' = DOMAIN cluster \ queue
    BY <2>1, TasksAssumption DEF Sound, IInv, TypeOK
  <2>3. UNCHANGED <<Active, Refused, StoredKeys, changes, problems, status, pendingStatus,
                    flushing, startupComplete, hostProblems>>
    BY <2>1 DEF confVars, stores, built, statusVars, Active, Refused, GetResources, StoredKeys
  <2>4. Told'
    BY <2>1, <2>2, <2>3 DEF Told
  <2>5. Truthful'
    BY <1>1, <2>1, <2>3 DEF Truthful
  <2> QED BY <2>4, <2>5
<1>10. CASE UnwatchNamespace \/ cleanupUnwatchedNamespacedResources
  BY <1>2, <1>10 DEF UnwatchNamespace, cleanupUnwatchedNamespacedResources, cleanupKind,
                     stopInformers
<1>11. CASE EndSync
  <2>1. /\ UNCHANGED <<confVars, cluster, queue, isNginxReady, statusVars>> /\ phase = "tail"
    BY <1>11 DEF EndSync, clusterVars
  <2>2. flushing = {}
    BY <2>1 DEF Truthful
  <2> QED BY <1>3, <2>1, <2>2
<1>12. CASE \/ \E k \in ObjectKeys : processDelete(k)
            \/ \E r : processAddOrUpdate(r)
            \/ NextChangeList
            \/ processChangesFromGlobalConfiguration
            \/ processProblems
            \/ StartupConfigs
  BY <1>12, ConsumedTold
<1>13. CASE StartupRebuild
  <2>1. /\ UNCHANGED <<cluster, queue, status, pendingStatus, flushing, listenerHosts>>
        /\ UNCHANGED isNginxReady /\ ~isNginxReady /\ phase = "tail" /\ phase' = "startup"
        /\ startupComplete' /\ ReportProblems({})
    BY <1>13 DEF StartupRebuild, CompleteStartup, clusterVars, statusVars
  <2>2. flushing = {} /\ problems = EmptyMap
    BY <2>1 DEF Truthful
  <2>3. /\ Refused' \ DOMAIN problems' \subseteq Refused
        /\ \A k \in DOMAIN problems' : \/ problems'[k] = "Invalid" /\ k \notin StoredKeys'
                                       \/ problems'[k] = "Warning" /\ k \in Refused'
    BY <2>1, Reported
  <2>4. Told'
    BY <2>1, <2>2, <2>3 DEF Told, EmptyMap
  <2>5. Truthful'
    BY <2>1, <2>2, <2>3 DEF Truthful
  <2> QED BY <2>4, <2>5
<1>14. CASE FlushNext
  <2>1. PICK key \in flushing : runStatusFlush(key)
    BY <1>14 DEF FlushNext
  <2>2. /\ UNCHANGED <<confVars, cluster, queue, phase, isNginxReady, pendingStatus>>
        /\ flushing' = flushing \ {key} /\ WriteStatus({key}, "Applied")
    BY <2>1 DEF runStatusFlush, clusterVars
  <2>3. UNCHANGED <<stores, built, startupComplete, changes, problems>>
    BY <2>2 DEF confVars
  <2>4. flushing \subseteq Active
    BY <2>1 DEF Truthful
  <2>5. Told'
    BY <2>2, <2>3, <2>4, WriteTold
  <2>6. UNCHANGED <<Active, Refused, StoredKeys, hostProblems>>
    BY <2>3 DEF stores, built, Active, Refused, GetResources, StoredKeys
  <2>7. Truthful'
    BY <1>1, <2>2, <2>3, <2>4, <2>6 DEF Truthful
  <2> QED BY <2>5, <2>7
<1> QED BY <1>4, <1>5, <1>6, <1>7, <1>8, <1>9, <1>10, <1>11, <1>12, <1>13, <1>14
        DEF Next, WorkerNext

\* They hold together.
LEMMA SoundAlways ==
  ASSUME ~ReplacedUnseen
  PROVE  Spec => []Sound
<1>1. Spec => []IInv
  BY Invariance
<1>2. Spec => []StartInv
  BY StartInvariance
<1>3. Spec => []VersionInv
  BY VersionInvariance
<1>4. Spec => []StoresCurrent
  BY MemoryCurrent
<1>5. Spec => []KeysFollow
  BY KeysAlways
<1>6. Spec => []LabelInv
  BY LabelsKept
<1> QED BY <1>1, <1>2, <1>3, <1>4, <1>5, <1>6, PTL DEF Sound

\* The statuses are right or on their way at every moment.
LEMMA StatusAlways ==
  ASSUME ~ReplacedUnseen, ~FlushOverlaps
  PROVE  Spec => []StatusInv
<1>1. Init => StatusInv
  <2> SUFFICES ASSUME Init PROVE Told /\ Truthful
    BY DEF StatusInv
  <2>1. /\ cluster = EmptyMap /\ hostProblems = EmptyMap /\ problems = EmptyMap
        /\ workload.startedUp = startupComplete /\ pendingStatus = {} /\ flushing = {}
    BY DEF Init, ConfInit
  <2> QED BY <2>1 DEF Told, Truthful, EmptyMap
<1>2. Sound /\ Sound' /\ StatusInv /\ [Next]_vars => StatusInv'
  BY StatusStep
<1>3. Spec => []Sound
  BY SoundAlways
<1> QED BY <1>1, <1>2, <1>3, PTL DEF Spec

\* Once every event has been synced and every deferred status written, the status of each object
\* says what became of it (updateVirtualServerStatusAndEvents and its siblings, processProblems,
\* flushPendingStatusesAsync): where no object is replaced unseen, the flush is over before the
\* worker goes on, nobody relabels namespaces, and no listener is claimed before startup.
THEOREM StatusesTold ==
  ASSUME ~ReplacedUnseen, ~FlushOverlaps
  PROVE  Spec => [](~workload.relabels /\ NoEarlyListeners => StatusAccurate)
<1>1. Sound /\ StatusInv =>
        (~workload.relabels /\ NoEarlyListeners => StatusAccurate)
  <2> SUFFICES ASSUME Sound, Told, Truthful, ~workload.relabels, Quiescent, flushing = {},
                      NEW k \in DOMAIN cluster
               PROVE  /\ cluster[k].check = "invalid" => status[k] = "Invalid"
                      /\ cluster[k].check = "ok" /\ ~(k \in Keys(Ingresses) /\ cluster[k].challenge)
                           => status[k] = (IF k \in Active THEN "Applied" ELSE "Rejected")
    BY DEF StatusInv, StatusAccurate, Active, Visible
  <2>1. /\ phase = "idle" /\ queue = {} /\ isNginxReady /\ startupComplete
        /\ changes = <<>> /\ problems = EmptyMap
    BY DEF Quiescent, Sound, StartInv, KeysFollow, Truthful
  <2>2. DOMAIN problems = {} /\ WithChildren(Updated(changes)) \cup flushing = {}
    BY <2>1, PendingOf DEF EmptyMap, WithChildren
  <2>3. k \in Active => status[k] = "Applied"
    BY <2>1, <2>2 DEF Told
  <2>4. k \in Refused => status[k] = "Rejected"
    BY <2>2 DEF Told
  <2>5. cluster[k].check = "invalid" => status[k] = "Invalid"
    BY <2>1, <2>2 DEF Told
  <2>6. ASSUME cluster[k].check = "ok", ~(k \in Keys(Ingresses) /\ cluster[k].challenge)
        PROVE  k \in Active \cup Refused
    <3>1. /\ k \in Keys(Ingresses) => k \in DOMAIN ingresses /\ ingresses[k] = cluster[k]
          /\ k \in Keys(VirtualServers) => k \in DOMAIN virtualServers
          /\ k \in Keys(TransportServers) => k \in DOMAIN transportServers
          /\ k \in Keys(VirtualServerRoutes) => k \in DOMAIN virtualServerRoutes
      BY <2>1, <2>6 DEF Sound, LabelInv, StoresCurrent, Current, Agrees, Watched
    <3>2. k \in Keys(Ingresses) \cup Keys(VirtualServers) \cup Keys(TransportServers)
                  \cup Keys(VirtualServerRoutes)
      BY DEF Sound, IInv, TypeOK, ObjectKeys, AllObjects, Keys
    <3>3. ActiveXorProblem
      BY ActiveOrRefused DEF Sound, IInv
    <3> QED BY <2>1, <2>6, <3>1, <3>2, <3>3 DEF ActiveXorProblem, Active, Refused, GetResources,
                                              convertedToVSR
  <2> QED BY <2>3, <2>4, <2>5, <2>6
<1>2. Spec => []Sound
  BY SoundAlways
<1>3. Spec => []StatusInv
  BY StatusAlways
<1> QED BY <1>1, <1>2, <1>3, PTL
=============================================================================
