--------------------------- MODULE CollisionProofs ---------------------------
(***************************************************************************)
(* No two config files get in each other's way, not even between two       *)
(* changes of one sync: the deletes of a change list come first, then the  *)
(* resources that move, and PlacesInv says why that order is enough.  A    *)
(* file that has a place its resource no longer owns is about to be        *)
(* deleted or moved, and one sync moves one resource.                      *)
(***************************************************************************)
EXTENDS ControllerProofs, FiniteSetTheorems

\* Zenon first, then SMT, each with its limit in seconds, for the leaves that name no prover.
USE ZenonT(20), SMTT(20)

\* No valid Ingress has two hosts.
SingleHosts == \A ing \in Ingresses : ing.check = "ok" => \A g, h \in ing.hosts : g = h

\* The config of a resource, or of a file, listens for a listener and a host.
ListensOn(r, lh) ==
  /\ r.key \in Keys(TransportServers) /\ r.conf.listener # "tls-passthrough"
  /\ lh = <<r.conf.listener, r.conf.host>>

Listening(lh) == {k \in DOMAIN files : ListensOn([key |-> k, conf |-> files[k]], lh)}

\* The map gives the place to the resource of the key.
Owns(m, place, k) == place \in DOMAIN m /\ m[place].key = k

HostsOwned(late) == \A h : \A k \in Serving(h) : Owns(hosts, h, k) \/ k \in late
ListenersOwned(late) == \A lh : \A k \in Listening(lh) : Owns(listenerHosts, lh, k) \/ k \in late

\* The files that a change list deletes or rewrites before it writes any other.
Behind(c) == c.deletes \cup Keys(c.moves)
LateHosts == IF changes = <<>> THEN {} ELSE Behind(changes[Len(changes)])
LateListeners == IF changes = <<>> THEN {} ELSE Behind(changes[1])

\* Ingresses that have several hosts may exchange them, TransportServers never do.
Alone(S) == \A j, k \in S : SingleHosts \/ {j, k} \subseteq Keys(TransportServers) => j = k
Apart == \A p : Alone(Serving(p)) /\ Alone(Listening(p))
OneMove(c) == Alone(Keys(c.moves))

\* What every step preserves, unless a namespace cleanup gives a host back to a solver Ingress.
PlacesInv ==
  NoSolvers \/ ~workload.relabels =>
    /\ Apart
    /\ phase # "crashed" =>
         /\ HostsOwned(LateHosts) /\ ListenersOwned(LateListeners)
         /\ Len(changes) <= 2
         /\ Len(changes) = 2 =>
              changes[1].moves \cup changes[1].updates \subseteq Values(listenerHosts)
         /\ phase = "changes" => \A c \in Values(changes) : OneMove(c)
         /\ phase = "startup" => HostsOwned({}) /\ ListenersOwned({})

\* A file serves what its resource serves.
LEMMA ServingServes ==
  \A h, k : k \in Serving(h) <=> k \in DOMAIN files /\ Serves([key |-> k, conf |-> files[k]], h)
BY DEF Serving, Serves

\* The config of an active resource has no place but those that the resource owns
\* (buildHostsAndResources, buildListenerHostsAndTSConfigurations).
Placed ==
  \A r \in GetResources : \A p : /\ Serves(r, p) => Owns(hosts, p, r.key)
                                 /\ ListensOn(r, p) => Owns(listenerHosts, p, r.key)

LEMMA ResourcesPlaced ==
  IInv /\ StartInv => Placed
<1> SUFFICES ASSUME IInv, StartInv, NEW r \in GetResources, NEW p
             PROVE  /\ Serves(r, p) => Owns(hosts, p, r.key)
                    /\ ListensOn(r, p) => Owns(listenerHosts, p, r.key)
  BY DEF Placed
<1>1. StoresTypeOK /\ MapsOK /\ listenerHosts = newListenerHosts
      /\ startupComplete \in BOOLEAN /\ (startupComplete => hosts = newHosts)
  BY MapsAreOK DEF IInv, ConfInv, ConfTypeOK, RebuiltAfterStartup
<1>2. CASE r \in Values(hosts)
  <2>1. hosts = newHosts
    BY <1>1, <1>2 DEF StartInv, EmptyMap, Values
  <2>2. PICK h \in DOMAIN hosts : r = hosts[h]
    BY <1>2 DEF Values
  <2>3. Serves(r, p) => Owns(hosts, p, r.key)
    BY <1>1, <1>2, <2>1, <2>2, ServesWhatItHolds, SMTT(20) DEF MapsOK, WellHeld, Owns
  <2>4. ~ListensOn(r, p)
    <3> SUFFICES ASSUME r.key \in Keys(TransportServers) PROVE r.conf.listener = "tls-passthrough"
      BY DEF ListensOn
    <3>1. isTLSPassthrough(transportServers[r.key]) /\ r.key \in DOMAIN transportServers
      BY <1>1, <1>2 DEF MapsOK
    <3>2. PICK w, held :
            \/ /\ w \in Values(ingresses)
               /\ r = NewIngressConfiguration(w, buildMinionConfigs(w), held)
            \/ w \in Values(virtualServers) /\ r = VirtualServerConfiguration(w)
            \/ /\ w \in Values(transportServers)
               /\ r = TransportServerConfiguration(w, held, 0, "default")
      BY <1>1, <2>1, <2>2, HostEntry DEF HostsMade
    <3>3. r.key = w.key
      <4>1. \A a, b, c : NewIngressConfiguration(a, b, c).key = a.key
        BY DEF NewIngressConfiguration
      <4>2. \A a : VirtualServerConfiguration(a).key = a.key
        BY DEF VirtualServerConfiguration
      <4>3. \A a, b, c, d : TransportServerConfiguration(a, b, c, d).key = a.key
        BY DEF TransportServerConfiguration
      <4> QED BY <3>2, <4>1, <4>2, <4>3, SMTT(20)
    <3>4. w \notin Values(ingresses) /\ w \notin Values(virtualServers)
      BY <1>1, <3>3, KindsAssumption, SMTT(20) DEF Values, StoresTypeOK, StoreOf
    <3>5. /\ w \in TransportServers /\ w.check = "ok" /\ w = transportServers[w.key]
          /\ r.conf.listener = w.listener
      BY <1>1, <3>2, <3>4, SMTT(20) DEF StoresTypeOK, StoreOf, Values, TransportServerConfiguration
    <3> QED BY <3>1, <3>3, <3>5, TransportServersAssumption DEF TLSPassthroughListenerName
  <2> QED BY <2>3, <2>4
<1>3. CASE r \in Values(listenerHosts)
  <2>1. ~Serves(r, p)
    BY <1>1, <1>3, ServesWhatItHolds
  <2>2. PICK lh \in DOMAIN listenerHosts : r = listenerHosts[lh]
    BY <1>3 DEF Values
  <2>3. PICK w : w = Winner(ListenerClaimants(lh))
    OBVIOUS
  <2>4. w \in ListenerClaimants(lh)
    <3>1. ListenerClaimants(lh) # {}
      BY <1>1, <2>2 DEF newListenerHosts, ListenerClaimants
    <3>2. /\ \A o \in ListenerClaimants(lh) : o.created \in Nat /\ o.uid \in 0..MaxUID
          /\ \A o, q \in ListenerClaimants(lh) : o # q => o.uid # q.uid
      BY <1>1, ListenerClaimantsOK, MetadataAssumption, SMTT(20) DEF AllObjects
    <3> QED BY <2>3, <3>1, <3>2, WinnerWins
  <2>5. r.key = w.key /\ r.conf.listener = w.listener /\ r.conf.host = w.host
    BY <1>1, <2>2, <2>3 DEF newListenerHosts, TransportServerConfiguration
  <2>6. ListensOn(r, p) => p = lh
    BY <2>4, <2>5 DEF ListensOn, ListenerClaimants, listenerHostKey
  <2> QED BY <2>1, <2>2, <2>6 DEF Owns
<1> QED BY <1>2, <1>3 DEF GetResources

\* A resource has a place only if its object asks for it.
Asked ==
  /\ \A h \in DOMAIN hosts :
       LET k == hosts[h].key
       IN \/ k \in DOMAIN ingresses /\ h \in ingresses[k].hosts
          \/ k \in DOMAIN virtualServers /\ h = virtualServers[k].host
          \/ k \in DOMAIN transportServers /\ h = transportServers[k].host
  /\ \A lh \in DOMAIN listenerHosts :
       LET k == listenerHosts[lh].key
       IN k \in DOMAIN transportServers /\ lh = listenerHostKey(transportServers[k])

LEMMA PlacesAsked ==
  IInv /\ StartInv => Asked
<1> SUFFICES ASSUME IInv, StartInv PROVE Asked
  OBVIOUS
<1>1. StoresTypeOK /\ listenerHosts = newListenerHosts
      /\ startupComplete \in BOOLEAN /\ (startupComplete => hosts = newHosts)
  BY DEF IInv, ConfInv, ConfTypeOK, RebuiltAfterStartup
<1>2. ASSUME NEW h \in DOMAIN hosts
      PROVE  LET k == hosts[h].key
             IN \/ k \in DOMAIN ingresses /\ h \in ingresses[k].hosts
                \/ k \in DOMAIN virtualServers /\ h = virtualServers[k].host
                \/ k \in DOMAIN transportServers /\ h = transportServers[k].host
  <2>1. hosts = newHosts
    BY <1>1 DEF StartInv, EmptyMap
  <2>2. PICK w : w = Winner(Claimants(h))
    OBVIOUS
  <2>3. h \in ClaimedHosts /\ hosts[h].key = w.key
    BY <1>1, <2>1, <2>2, NewHostsOK
  <2>4. w \in Claimants(h)
    BY <1>1, <2>2, <2>3, OwnerWins DEF ClaimedHosts
  <2>5. \/ w \in Values(ingresses) /\ h \in w.hosts
        \/ w \in Values(virtualServers) /\ w.host = h
        \/ w \in Values(transportServers) /\ w.host = h
    BY <2>4 DEF Claimants, HostIngresses, HostTransportServers
  <2> QED BY <1>1, <2>3, <2>5, StoredKinds, SMTT(20)
<1>3. ASSUME NEW lh \in DOMAIN listenerHosts
      PROVE  LET k == listenerHosts[lh].key
             IN k \in DOMAIN transportServers /\ lh = listenerHostKey(transportServers[k])
  <2>1. PICK w : w = Winner(ListenerClaimants(lh))
    OBVIOUS
  <2>2. w \in ListenerClaimants(lh)
    <3>1. ListenerClaimants(lh) # {}
      BY <1>1 DEF newListenerHosts, ListenerClaimants
    <3>2. /\ \A o \in ListenerClaimants(lh) : o.created \in Nat /\ o.uid \in 0..MaxUID
          /\ \A o, q \in ListenerClaimants(lh) : o # q => o.uid # q.uid
      BY <1>1, ListenerClaimantsOK, MetadataAssumption, SMTT(20) DEF AllObjects
    <3> QED BY <2>1, <3>1, <3>2, WinnerWins
  <2>3. listenerHosts[lh].key = w.key
    BY <1>1, <2>1 DEF newListenerHosts, TransportServerConfiguration
  <2>4. w \in Values(transportServers) /\ lh = listenerHostKey(w)
    BY <2>2 DEF ListenerClaimants, ListenerTransportServers
  <2> QED BY <1>1, <2>3, <2>4, StoredKinds, SMTT(20)
<1> QED BY <1>2, <1>3 DEF Asked

\* Who loses a place is deleted or moves.
LEMMA LosersBehind ==
  ASSUME NEW old, NEW new, NEW p \in DOMAIN old, ~Owns(new, p, old[p].key)
  PROVE  old[p].key \in Behind(squashResourceChanges(old, new))
<1>1. old[p].key \in DeleteChanges(old, new)
  BY DEF DeleteChanges, removedHosts, updatedHosts, IsEqual, Owns
<1> QED BY <1>1 DEF squashResourceChanges, Behind, Keys

\* Who moves loses a place and has one afterwards.
LEMMA MoversLose ==
  ASSUME NEW old, NEW new, NEW r \in squashResourceChanges(old, new).moves
  PROVE  /\ \E p \in DOMAIN old : old[p].key = r.key /\ ~Owns(new, p, r.key)
         /\ \E p \in DOMAIN new : new[p].key = r.key
<1>1. r \in AddOrUpdateChanges(old, new) /\ r.key \in DeleteChanges(old, new)
  BY DEF squashResourceChanges
<1>2. \E p \in DOMAIN new : new[p].key = r.key
  BY <1>1 DEF AddOrUpdateChanges, updatedHosts, addedHosts
<1>3. \E p \in DOMAIN old : old[p].key = r.key /\ ~Owns(new, p, r.key)
  BY <1>1 DEF DeleteChanges, removedHosts, updatedHosts, Owns
<1> QED BY <1>2, <1>3

\* A store keeps every object but the one of the key.
KeptBut(old, new, x) ==
  \A k \in DOMAIN new \ {x} : k \in DOMAIN old /\ new[k] = old[k]

\* One sync moves the resource of its own object and no other: an object that stays as it is
\* asks for the same place, and either has it or not (createResourceChangesForHosts,
\* createResourceChangesForListeners).
LEMMA OneMover ==
  ASSUME StoresTypeOK, StoresTypeOK', Asked, Asked', NEW x,
         KeptBut(ingresses, ingresses', x), KeptBut(virtualServers, virtualServers', x),
         KeptBut(transportServers, transportServers', x)
  PROVE  OneMove(hostChanges) /\ OneMove(listenerChanges)
<1>1. ASSUME NEW r \in hostChanges.moves, SingleHosts \/ r.key \in Keys(TransportServers)
      PROVE  r.key = x
  <2>1. PICK h \in DOMAIN hosts : hosts[h].key = r.key /\ ~Owns(hosts', h, r.key)
    BY MoversLose, SMTT(20) DEF hostChanges
  <2>2. PICK g \in DOMAIN hosts' : hosts'[g].key = r.key
    BY MoversLose, SMTT(20) DEF hostChanges
  <2>3. PICK k : k = r.key
    OBVIOUS
  <2>4. \/ k \in DOMAIN ingresses /\ h \in ingresses[k].hosts
        \/ k \in DOMAIN virtualServers /\ h = virtualServers[k].host
        \/ k \in DOMAIN transportServers /\ h = transportServers[k].host
    BY <2>1, <2>3 DEF Asked
  <2>5. \/ k \in DOMAIN ingresses' /\ g \in ingresses'[k].hosts
        \/ k \in DOMAIN virtualServers' /\ g = virtualServers'[k].host
        \/ k \in DOMAIN transportServers' /\ g = transportServers'[k].host
    BY <2>2, <2>3 DEF Asked
  <2>6. /\ DOMAIN ingresses \subseteq Keys(Ingresses)
        /\ DOMAIN virtualServers \subseteq Keys(VirtualServers)
        /\ DOMAIN transportServers \subseteq Keys(TransportServers)
        /\ \A j \in DOMAIN ingresses : ingresses[j] \in Ingresses /\ ingresses[j].check = "ok"
    BY DEF StoresTypeOK, StoreOf
  <2>7. SUFFICES ASSUME k # x PROVE FALSE
    BY <2>3
  <2>8. CASE k \in DOMAIN ingresses'
    <3>1. k \in DOMAIN ingresses /\ ingresses'[k] = ingresses[k]
      BY <2>7, <2>8 DEF KeptBut
    <3>2. k \notin DOMAIN virtualServers /\ k \notin DOMAIN transportServers
      BY <2>6, <3>1, KindsAssumption
    <3>3. k \notin DOMAIN virtualServers' /\ k \notin DOMAIN transportServers'
      BY <2>7, <3>2 DEF KeptBut
    <3>4. SingleHosts
      BY <1>1, <2>3, <2>6, <3>1, KindsAssumption
    <3> QED BY <2>1, <2>2, <2>3, <2>4, <2>5, <2>6, <3>1, <3>2, <3>3, <3>4 DEF SingleHosts, Owns
  <2>9. CASE k \in DOMAIN virtualServers' /\ k \notin DOMAIN ingresses'
    <3>1. k \in DOMAIN virtualServers /\ virtualServers'[k] = virtualServers[k]
      BY <2>7, <2>9 DEF KeptBut
    <3>2. k \notin DOMAIN ingresses /\ k \notin DOMAIN transportServers
      BY <2>6, <3>1, KindsAssumption
    <3>3. k \notin DOMAIN transportServers'
      BY <2>7, <3>2 DEF KeptBut
    <3> QED BY <2>1, <2>2, <2>3, <2>4, <2>5, <2>9, <3>1, <3>2, <3>3 DEF Owns
  <2>10. CASE k \notin DOMAIN virtualServers' /\ k \notin DOMAIN ingresses'
    <3>1. k \in DOMAIN transportServers'
      BY <2>5, <2>10
    <3>2. k \in DOMAIN transportServers /\ transportServers'[k] = transportServers[k]
      BY <2>7, <3>1 DEF KeptBut
    <3>3. k \notin DOMAIN ingresses /\ k \notin DOMAIN virtualServers
      BY <2>6, <3>2, KindsAssumption
    <3> QED BY <2>1, <2>2, <2>3, <2>4, <2>5, <2>10, <3>2, <3>3 DEF Owns
  <2> QED BY <2>8, <2>9, <2>10
<1>2. ASSUME NEW r \in listenerChanges.moves PROVE r.key = x
  <2>1. PICK lh \in DOMAIN listenerHosts :
          listenerHosts[lh].key = r.key /\ ~Owns(listenerHosts', lh, r.key)
    BY MoversLose, SMTT(20) DEF listenerChanges
  <2>2. PICK g \in DOMAIN listenerHosts' : listenerHosts'[g].key = r.key
    BY MoversLose, SMTT(20) DEF listenerChanges
  <2>3. PICK k : k = r.key
    OBVIOUS
  <2>4. k \in DOMAIN transportServers /\ lh = listenerHostKey(transportServers[k])
    BY <2>1, <2>3 DEF Asked
  <2>5. k \in DOMAIN transportServers' /\ g = listenerHostKey(transportServers'[k])
    BY <2>2, <2>3 DEF Asked, listenerHostKey
  <2>6. SUFFICES ASSUME k # x PROVE FALSE
    BY <2>3
  <2>7. transportServers'[k] = transportServers[k]
    BY <2>5, <2>6 DEF KeptBut
  <2> QED BY <2>1, <2>2, <2>3, <2>4, <2>5, <2>7 DEF listenerHostKey, Owns
<1>3. OneMove(hostChanges)
  <2> SUFFICES ASSUME NEW r \in hostChanges.moves, NEW s \in hostChanges.moves,
                      SingleHosts \/ {r.key, s.key} \subseteq Keys(TransportServers)
               PROVE  r.key = s.key
    BY SMTT(20) DEF OneMove, Alone, Keys
  <2>1. (SingleHosts \/ r.key \in Keys(TransportServers))
        /\ (SingleHosts \/ s.key \in Keys(TransportServers))
    OBVIOUS
  <2> QED BY <1>1, <2>1, SMTT(20)
<1>4. OneMove(listenerChanges)
  BY <1>2 DEF OneMove, Alone, Keys
<1> QED BY <1>3, <1>4

\* The files that the worker has just written are where their resources are, and the others
\* are where they were.
LEMMA FilesRewritten ==
  ASSUME Placed', NEW R, R \subseteq GetResources',
         \A k \in DOMAIN files' :
           \/ k \in DOMAIN files /\ files'[k] = files[k] /\ k \notin Keys(R)
           \/ \E r \in R : k = r.key /\ files'[k] = r.conf,
         NEW p, NEW k
  PROVE  /\ k \in Serving(p)' => \/ k \in Serving(p) /\ k \notin Keys(R)
                                 \/ k \in Keys(R) /\ Owns(hosts', p, k)
         /\ k \in Listening(p)' => \/ k \in Listening(p) /\ k \notin Keys(R)
                                   \/ k \in Keys(R) /\ Owns(listenerHosts', p, k)
<1> DEFINE old == [key |-> k, conf |-> files[k]]
           new == [key |-> k, conf |-> files'[k]]
<1>1. /\ k \in Serving(p)' <=> k \in DOMAIN files' /\ Serves(new, p)
      /\ k \in Listening(p)' <=> k \in DOMAIN files' /\ ListensOn(new, p)
  BY DEF Serving, Listening, Serves, ListensOn
<1>2. /\ k \in Serving(p) <=> k \in DOMAIN files /\ Serves(old, p)
      /\ k \in Listening(p) <=> k \in DOMAIN files /\ ListensOn(old, p)
  BY ServingServes DEF Listening
<1>3. CASE k \in DOMAIN files' /\ k \notin Keys(R)
  <2>1. k \in DOMAIN files /\ files'[k] = files[k]
    BY <1>3 DEF Keys
  <2> QED BY <1>1, <1>2, <1>3, <2>1
<1>4. CASE k \in DOMAIN files' /\ k \in Keys(R)
  <2>1. PICK r \in R : k = r.key /\ files'[k] = r.conf
    BY <1>4
  <2>2. /\ Serves(new, p) <=> Serves(r, p)
        /\ ListensOn(new, p) <=> ListensOn(r, p)
    BY <2>1 DEF Serves, ListensOn
  <2>3. /\ Serves(r, p) => Owns(hosts', p, r.key)
        /\ ListensOn(r, p) => Owns(listenerHosts', p, r.key)
    BY DEF Placed, Serves, ListensOn, Owns
  <2> QED BY <1>1, <1>4, <2>1, <2>2, <2>3
<1> QED BY <1>1, <1>3, <1>4

\* Files that stand where the maps put them are apart: a place has one owner.
LEMMA OwnedApart ==
  HostsOwned({}) /\ ListenersOwned({}) => Apart
BY DEF HostsOwned, ListenersOwned, Apart, Alone, Owns

\* The lists that are left when a part of the first one has been processed.
LEMMA ListsAdvance ==
  ASSUME ChangesOK(changes), changes # <<>>, Len(changes) <= 2, NEW d,
         changes' = [changes EXCEPT ![1] = d]
  PROVE  /\ Len(changes) \in {1, 2} /\ Len(changes') = Len(changes) /\ changes' # <<>>
         /\ changes'[1] = d /\ Head(changes) = changes[1]
         /\ Len(changes) = 2 => changes'[2] = changes[2]
         /\ Values(changes') \subseteq Values(changes) \cup {d}
         /\ changes[1] \in Values(changes)
<1>1. changes \in Seq(Values(changes)) /\ Len(changes) \in {1, 2} /\ DOMAIN changes = 1..Len(changes)
  <2>1. changes \in Seq(Values(changes))
    BY DEF ChangesOK
  <2>2. PICK S : S = Values(changes)
    OBVIOUS
  <2>3. changes \in Seq(S)
    BY <2>1, <2>2
  <2>4. Len(changes) \in Nat /\ DOMAIN changes = 1..Len(changes) /\ Len(changes) # 0
    BY <2>3, SMTT(20)
  <2> QED BY <2>1, <2>4, SMTT(20)
<1>2. /\ DOMAIN changes' = DOMAIN changes /\ 1 \in DOMAIN changes
      /\ \A i \in DOMAIN changes : changes'[i] = IF i = 1 THEN d ELSE changes[i]
  BY <1>1, SMTT(20)
<1>3. changes' \in Seq(Values(changes) \cup {d})
  BY <1>1, SMTT(20) DEF Values
<1>4. Len(changes') = Len(changes) /\ changes' # <<>>
  BY <1>1, <1>3, SMTT(20)
<1>5. Head(changes) = changes[1]
  BY <1>1, SMTT(20)
<1>6. Len(changes) = 2 => changes'[2] = changes[2]
  BY <1>1, <1>2, SMTT(20)
<1>7. /\ Values(changes') \subseteq Values(changes) \cup {d}
      /\ changes[1] \in Values(changes)
  BY <1>2 DEF Values
<1> QED BY <1>1, <1>2, <1>4, <1>5, <1>6, <1>7

\* The worker processes one delete, or one resource that moves or is new.
LEMMA PlacesAdvance ==
  ASSUME IInv, StartInv, Placed, MapsOK, KeysFollow, PlacesInv, NoSolvers \/ ~workload.relabels,
         \/ \E k \in ObjectKeys : processDelete(k)
         \/ \E r : processAddOrUpdate(r)
  PROVE  PlacesInv'
<1>1. /\ phase = "changes" /\ phase' = "changes" /\ changes # <<>>
      /\ UNCHANGED <<hosts, listenerHosts, workload>>
  BY DEF processDelete, processAddOrUpdate, built, clusterVars
<1>2. /\ Apart /\ HostsOwned(LateHosts) /\ ListenersOwned(LateListeners) /\ Len(changes) <= 2
      /\ Len(changes) = 2 =>
           changes[1].moves \cup changes[1].updates \subseteq Values(listenerHosts)
      /\ \A c \in Values(changes) : OneMove(c)
  BY <1>1 DEF PlacesInv
<1>3. ChangesOK(changes) /\ Updated(changes) \subseteq GetResources
  BY <1>1 DEF IInv, ConfInv, ConfTypeOK, ChangesOK, KeysFollow
<1>4. ASSUME NEW d, changes' = [changes EXCEPT ![1] = d], NEW x,
             d.moves \subseteq changes[1].moves, d.updates \subseteq changes[1].updates,
             Behind(changes[1]) \ {x} \subseteq Behind(d),
             \A p : /\ \A k \in Serving(p)' : (k \in Serving(p) /\ k # x) \/ Owns(hosts, p, k)
                    /\ \A k \in Listening(p)' :
                         (k \in Listening(p) /\ k # x) \/ Owns(listenerHosts, p, k),
             Apart'
      PROVE  PlacesInv'
  <2>1. /\ Len(changes) \in {1, 2} /\ Len(changes') = Len(changes) /\ changes' # <<>>
        /\ changes'[1] = d /\ (Len(changes) = 2 => changes'[2] = changes[2])
        /\ Values(changes') \subseteq Values(changes) \cup {d}
        /\ changes[1] \in Values(changes)
    BY <1>1, <1>2, <1>3, <1>4, ListsAdvance
  <2>2. LateHosts \ {x} \subseteq LateHosts' /\ LateListeners \ {x} \subseteq LateListeners'
    BY <1>1, <1>4, <2>1 DEF LateHosts, LateListeners
  <2>3. ASSUME NEW p, NEW k \in Serving(p)'
        PROVE  Owns(hosts', p, k) \/ k \in LateHosts'
    BY <1>1, <1>2, <1>4, <2>2, <2>3 DEF HostsOwned
  <2>4. ASSUME NEW p, NEW k \in Listening(p)'
        PROVE  Owns(listenerHosts', p, k) \/ k \in LateListeners'
    BY <1>1, <1>2, <1>4, <2>2, <2>4 DEF ListenersOwned
  <2>5. OneMove(d)
    <3>1. OneMove(changes[1]) /\ Keys(d.moves) \subseteq Keys(changes[1].moves)
      BY <1>2, <1>4, <2>1 DEF Keys
    <3> QED BY <3>1 DEF OneMove, Alone
  <2>6. \A c \in Values(changes') : OneMove(c)
    BY <1>2, <2>1, <2>5
  <2>7. HostsOwned(LateHosts)' /\ ListenersOwned(LateListeners)'
    BY <2>3, <2>4 DEF HostsOwned, ListenersOwned, Owns
  <2>8. /\ Len(changes') <= 2
        /\ Len(changes') = 2 =>
             changes'[1].moves \cup changes'[1].updates \subseteq Values(listenerHosts')
    BY <1>1, <1>2, <1>4, <2>1
  <2> QED BY <1>1, <1>4, <2>6, <2>7, <2>8 DEF PlacesInv, OneMove, Alone
<1>5. CASE \E k \in ObjectKeys : processDelete(k)
  <2>1. PICK x \in ObjectKeys : processDelete(x)
    BY <1>5
  <2>2. PICK d : d = [changes[1] EXCEPT !.deletes = @ \ {x}]
    OBVIOUS
  <2>3. changes' = [changes EXCEPT ![1] = d] /\ files' = Without(files, x)
    BY <2>1, <2>2 DEF processDelete
  <2>4. ChangeListOK(changes[1])
    BY <1>1, <1>3, ChangesConsumed
  <2>5. d.deletes = changes[1].deletes \ {x} /\ d.moves = changes[1].moves
        /\ d.updates = changes[1].updates
    BY <2>2, <2>4 DEF ChangeListOK
  <2>6. Behind(changes[1]) \ {x} \subseteq Behind(d)
    BY <2>5 DEF Behind
  <2>7. \A p : Serving(p)' \subseteq Serving(p) \ {x} /\ Listening(p)' \subseteq Listening(p) \ {x}
    BY <2>3 DEF Serving, Listening, ListensOn, Without
  <2>8. Apart'
    BY <1>2, <2>7, SMTT(20) DEF Apart, Alone, SingleHosts
  <2>9. \A p : /\ \A k \in Serving(p)' : (k \in Serving(p) /\ k # x) \/ Owns(hosts, p, k)
               /\ \A k \in Listening(p)' :
                    (k \in Listening(p) /\ k # x) \/ Owns(listenerHosts, p, k)
    BY <2>7
  <2>10. d.moves \subseteq changes[1].moves /\ d.updates \subseteq changes[1].updates
    BY <2>5
  <2> QED BY <1>4, <2>3, <2>6, <2>8, <2>9, <2>10
<1>6. CASE \E r : processAddOrUpdate(r)
  <2>1. PICK r : processAddOrUpdate(r)
    BY <1>6
  <2>2. PICK d : d = Processed(changes[1], r)
    OBVIOUS
  <2>3. /\ changes' = [changes EXCEPT ![1] = d] /\ files' = Put(files, r.key, r.conf)
        /\ Head(changes).deletes = {} /\ r \in NextUpdates
    BY <2>1, <2>2 DEF processAddOrUpdate
  <2>4. d.deletes = changes[1].deletes /\ d.moves = changes[1].moves \ {r}
        /\ d.updates = changes[1].updates \ {r}
    BY <2>2 DEF Processed
  <2>5. Len(changes) \in {1, 2} /\ Head(changes) = changes[1] /\ changes[1] \in Values(changes)
    BY <1>1, <1>2, <1>3, <2>3, ListsAdvance
  <2>6. Behind(changes[1]) \ {r.key} \subseteq Behind(d)
    BY <2>4 DEF Behind, Keys
  <2>7. r \in changes[1].moves \/ (changes[1].moves = {} /\ r \in changes[1].updates)
    BY <2>3, <2>5 DEF NextUpdates
  <2>8. r \in GetResources /\ GetResources' = GetResources
    <3>1. Updated(changes) = changes[1].moves \cup changes[1].updates \cup Updated(Tail(changes))
      BY <1>1, <1>3, PendingAfter
    <3> QED BY <1>1, <1>3, <2>7, <3>1 DEF GetResources
  <2>9. ASSUME NEW p, NEW k
        PROVE  /\ k \in Serving(p)' => \/ k \in Serving(p) /\ k # r.key
                                       \/ k = r.key /\ Owns(hosts, p, k)
               /\ k \in Listening(p)' => \/ k \in Listening(p) /\ k # r.key
                                         \/ k = r.key /\ Owns(listenerHosts, p, k)
    <3>1. Placed' /\ Keys({r}) = {r.key} /\ {r} \subseteq GetResources'
      BY <1>1, <2>8 DEF Placed, Serves, ListensOn, Owns, Keys
    <3>2. \A j \in DOMAIN files' :
            \/ j \in DOMAIN files /\ files'[j] = files[j] /\ j \notin Keys({r})
            \/ \E s \in {r} : j = s.key /\ files'[j] = s.conf
      BY <2>3, <3>1 DEF Put
    <3>3. PICK R : R = {r}
      OBVIOUS
    <3>4. \A j \in DOMAIN files' :
            \/ j \in DOMAIN files /\ files'[j] = files[j] /\ j \notin Keys(R)
            \/ \E s \in R : j = s.key /\ files'[j] = s.conf
      BY <3>2, <3>3
    <3>5. /\ k \in Serving(p)' => \/ k \in Serving(p) /\ k \notin Keys(R)
                                  \/ k \in Keys(R) /\ Owns(hosts', p, k)
          /\ k \in Listening(p)' => \/ k \in Listening(p) /\ k \notin Keys(R)
                                    \/ k \in Keys(R) /\ Owns(listenerHosts', p, k)
      BY <3>1, <3>3, <3>4, FilesRewritten, SMTT(20)
    <3> QED BY <1>1, <3>1, <3>3, <3>5
  <2>10. ASSUME NEW k \in Behind(changes[1]), SingleHosts \/ {k, r.key} \subseteq Keys(TransportServers)
         PROVE  k = r.key
    <3>1. k \in Keys(changes[1].moves)
      BY <2>3, <2>5, <2>10 DEF Behind
    <3>2. r.key \in Keys(changes[1].moves)
      BY <2>7, <3>1 DEF Keys
    <3> QED BY <1>2, <2>5, <2>10, <3>1, <3>2 DEF OneMove, Alone
  <2>11. ASSUME NEW p, Owns(listenerHosts, p, r.key), NEW k \in Listening(p),
                SingleHosts \/ {k, r.key} \subseteq Keys(TransportServers)
         PROVE  k = r.key
    BY <1>1, <1>2, <2>10, <2>11 DEF ListenersOwned, LateListeners, Owns
  <2>12. ASSUME NEW p, Owns(hosts, p, r.key), NEW k \in Serving(p),
                SingleHosts \/ {k, r.key} \subseteq Keys(TransportServers)
         PROVE  k = r.key
    <3>1. CASE Len(changes) = 1
      BY <1>1, <1>2, <2>10, <2>12, <3>1 DEF HostsOwned, LateHosts, Owns
    <3>2. CASE Len(changes) = 2
      <4>1. r \in Values(listenerHosts)
        BY <1>2, <2>7, <3>2
      <4>2. hosts[p] \in Values(hosts) /\ hosts[p].key = r.key
        BY <2>12 DEF Owns, Values
      <4> QED BY <4>1, <4>2 DEF MapsOK
    <3> QED BY <2>5, <3>1, <3>2
  <2>13. Apart'
    <3>1. ASSUME NEW p, NEW j \in Serving(p)', NEW k \in Serving(p)',
                 SingleHosts \/ {j, k} \subseteq Keys(TransportServers)
          PROVE  j = k
      BY <1>2, <2>9, <2>12, <3>1, SMTT(20) DEF Apart, Alone
    <3>2. ASSUME NEW p, NEW j \in Listening(p)', NEW k \in Listening(p)',
                 SingleHosts \/ {j, k} \subseteq Keys(TransportServers)
          PROVE  j = k
      BY <1>2, <2>9, <2>11, <3>2, SMTT(20) DEF Apart, Alone
    <3> QED BY <3>1, <3>2 DEF Apart, Alone, SingleHosts
  <2>14. \A p : /\ \A k \in Serving(p)' : (k \in Serving(p) /\ k # r.key) \/ Owns(hosts, p, k)
                /\ \A k \in Listening(p)' :
                     (k \in Listening(p) /\ k # r.key) \/ Owns(listenerHosts, p, k)
    BY <2>9
  <2>15. PICK x : x = r.key
    OBVIOUS
  <2> QED BY <1>4, <2>3, <2>4, <2>6, <2>13, <2>14, <2>15
<1> QED BY <1>5, <1>6

\* An operation on the Configuration, from files that stand where the maps put them: what lost
\* its place is behind by the changes that the operation returns.
LEMMA PlacesRebuilt ==
  ASSUME MapsOK, MapsOK', HostsOwned({}), ListenersOwned({}), files' = files,
         \/ changes' = <<>> /\ UNCHANGED <<hosts, listenerHosts>>
         \/ changes' = <<hostChanges>> /\ UNCHANGED listenerHosts
         \/ changes' = <<listenerChanges>> /\ UNCHANGED hosts
         \/ changes' = <<listenerChanges, hostChanges>>
  PROVE  /\ Apart' /\ HostsOwned(LateHosts)' /\ ListenersOwned(LateListeners)'
         /\ Len(changes') <= 2
         /\ Len(changes') = 2 =>
              changes'[1].moves \cup changes'[1].updates \subseteq Values(listenerHosts')
         /\ Values(changes') \subseteq {hostChanges, listenerChanges}
<1>1. \A p : Serving(p)' = Serving(p) /\ Listening(p)' = Listening(p)
  BY DEF Serving, Listening, ListensOn
<1>2. Apart'
  BY <1>1, OwnedApart DEF Apart, Alone
<1>3. ASSUME NEW p, NEW k \in Serving(p), ~Owns(hosts', p, k) PROVE k \in Behind(hostChanges)
  <2>1. p \in DOMAIN hosts /\ k = hosts[p].key
    BY <1>3 DEF HostsOwned, Owns
  <2> QED BY <1>3, <2>1, LosersBehind, SMTT(20) DEF hostChanges
<1>4. ASSUME NEW p, NEW k \in Listening(p), ~Owns(listenerHosts', p, k)
      PROVE  k \in Behind(listenerChanges)
  <2>1. p \in DOMAIN listenerHosts /\ k = listenerHosts[p].key
    BY <1>4 DEF ListenersOwned, Owns
  <2> QED BY <1>4, <2>1, LosersBehind, SMTT(20) DEF listenerChanges
<1>5. /\ UNCHANGED hosts => \A p : \A k \in Serving(p) : Owns(hosts', p, k)
      /\ UNCHANGED listenerHosts => \A p : \A k \in Listening(p) : Owns(listenerHosts', p, k)
  BY DEF HostsOwned, ListenersOwned
<1>6. ASSUME \A p : \A k \in Serving(p) : Owns(hosts', p, k) \/ k \in LateHosts',
             \A p : \A k \in Listening(p) : Owns(listenerHosts', p, k) \/ k \in LateListeners'
      PROVE  HostsOwned(LateHosts)' /\ ListenersOwned(LateListeners)'
  BY <1>1, <1>6 DEF HostsOwned, ListenersOwned, Owns
<1>7. PICK h, l : h = hostChanges /\ l = listenerChanges
  OBVIOUS
<1>8. l.moves \cup l.updates \subseteq Values(listenerHosts')
  BY <1>7, SquashComplete DEF listenerChanges, MapsOK
<1>9. CASE changes' = <<>> /\ UNCHANGED <<hosts, listenerHosts>>
  BY <1>2, <1>5, <1>6, <1>9, SMTT(20) DEF Values
<1>10. CASE changes' = <<hostChanges>> /\ UNCHANGED listenerHosts
  <2>1. changes' = <<h>>
    BY <1>7, <1>10
  <2>2. /\ changes' # <<>> /\ Len(changes') = 1 /\ changes'[1] = h /\ DOMAIN changes' = {1}
    BY <2>1, SMTT(20)
  <2>3. LateHosts' = Behind(h)
    BY <2>2 DEF LateHosts, Behind
  <2>4. HostsOwned(LateHosts)' /\ ListenersOwned(LateListeners)'
    BY <1>3, <1>5, <1>6, <1>7, <1>10, <2>3
  <2> QED BY <1>2, <1>7, <2>2, <2>4, SMTT(20) DEF Values
<1>11. CASE changes' = <<listenerChanges>> /\ UNCHANGED hosts
  <2>1. changes' = <<l>>
    BY <1>7, <1>11
  <2>2. /\ changes' # <<>> /\ Len(changes') = 1 /\ changes'[1] = l /\ DOMAIN changes' = {1}
    BY <2>1, SMTT(20)
  <2>3. LateListeners' = Behind(l)
    BY <2>2 DEF LateListeners, Behind
  <2>4. HostsOwned(LateHosts)' /\ ListenersOwned(LateListeners)'
    BY <1>4, <1>5, <1>6, <1>7, <1>11, <2>3
  <2> QED BY <1>2, <1>7, <2>2, <2>4, SMTT(20) DEF Values
<1>12. CASE changes' = <<listenerChanges, hostChanges>>
  <2>1. changes' = <<l, h>>
    BY <1>7, <1>12
  <2>2. /\ changes' # <<>> /\ Len(changes') = 2 /\ changes'[1] = l /\ changes'[2] = h
        /\ DOMAIN changes' = {1, 2}
    BY <2>1, SMTT(20)
  <2>3. LateHosts' = Behind(h) /\ LateListeners' = Behind(l)
    BY <2>2 DEF LateHosts, LateListeners, Behind
  <2>4. HostsOwned(LateHosts)' /\ ListenersOwned(LateListeners)'
    BY <1>3, <1>4, <1>6, <1>7, <2>3
  <2> QED BY <1>2, <1>7, <1>8, <2>2, <2>4, SMTT(20) DEF Values
<1> QED BY <1>9, <1>10, <1>11, <1>12

\* A sync of one key changes the stores at that key only.
LEMMA SyncKeeps ==
  ASSUME \/ \E k \in Keys(Ingresses) : syncIngress(k)
         \/ \E k \in Keys(VirtualServers) : syncVirtualServer(k)
         \/ \E k \in Keys(VirtualServerRoutes) : syncVirtualServerRoute(k)
         \/ \E k \in Keys(TransportServers) : syncTransportServer(k),
         TypeOK
  PROVE  \E x : /\ KeptBut(ingresses, ingresses', x)
                /\ KeptBut(virtualServers, virtualServers', x)
                /\ KeptBut(transportServers, transportServers', x)
<1>1. ASSUME NEW store, NEW new, NEW x, new = store \/ new = Without(store, x)
      PROVE  KeptBut(store, new, x)
  BY <1>1 DEF KeptBut, Without
<1>2. ASSUME NEW store, NEW x \in DOMAIN cluster
      PROVE  KeptBut(store, Stored(store, cluster[x]), x)
  BY DEF KeptBut, Without, Stored, Put, TypeOK
<1>3. ASSUME NEW x, syncIngress(x)
      PROVE  /\ UNCHANGED <<virtualServers, transportServers>>
             /\ KeptBut(ingresses, ingresses', x)
  BY <1>1, <1>2, <1>3 DEF syncIngress, Sync, AddOrUpdateIngress, DeleteIngress, NothingToDelete,
                          stores
<1>4. ASSUME NEW x, syncVirtualServer(x)
      PROVE  /\ UNCHANGED <<ingresses, transportServers>>
             /\ KeptBut(virtualServers, virtualServers', x)
  BY <1>1, <1>2, <1>4 DEF syncVirtualServer, Sync, AddOrUpdateVirtualServer, DeleteVirtualServer,
                          NothingToDelete, stores
<1>5. ASSUME NEW x, syncTransportServer(x)
      PROVE  /\ UNCHANGED <<ingresses, virtualServers>>
             /\ KeptBut(transportServers, transportServers', x)
  BY <1>1, <1>2, <1>5 DEF syncTransportServer, Sync, AddOrUpdateTransportServer,
                          DeleteTransportServer, NothingToDelete, stores
<1>6. ASSUME NEW x, syncVirtualServerRoute(x)
      PROVE  UNCHANGED <<ingresses, virtualServers, transportServers>>
  BY <1>6 DEF syncVirtualServerRoute, Sync, AddOrUpdateVirtualServerRoute,
              DeleteVirtualServerRoute, NothingToDelete, stores
<1> QED BY <1>1, <1>3, <1>4, <1>5, <1>6

\* Every step keeps the files apart, and what is out of place behind.
LEMMA PlacesStep ==
  ASSUME IInv, IInv', StartInv, StartInv', KeysFollow, LabelInv, PlacesInv, [Next]_vars
  PROVE  PlacesInv'
<1>1. MapsOK /\ Placed /\ Asked
  BY MapsAreOK, ResourcesPlaced, PlacesAsked
<1>2. MapsOK' /\ Placed' /\ Asked'
  <2>1. (IInv /\ StartInv => MapsOK)' /\ (IInv /\ StartInv => Placed)'
        /\ (IInv /\ StartInv => Asked)'
    BY MapsAreOK, ResourcesPlaced, PlacesAsked, PTL
  <2> QED BY <2>1
<1>3. (HostsOwned({}) /\ ListenersOwned({}) => Apart)'
  BY OwnedApart, PTL
<1>4. workload' = workload
  BY WorkloadFixed
<1> SUFFICES ASSUME NoSolvers \/ ~workload.relabels PROVE PlacesInv'
  BY <1>4 DEF PlacesInv
<1>5. ASSUME UNCHANGED <<hosts, listenerHosts, changes, files>>,
             \/ phase' = phase \/ phase' = "crashed"
             \/ phase # "crashed" /\ phase' \notin {"startup", "changes"}
      PROVE  PlacesInv'
  <2>1. \A p : Serving(p)' = Serving(p) /\ Listening(p)' = Listening(p)
    BY <1>5 DEF Serving, Listening, ListensOn
  <2>2. Apart'
    BY <2>1 DEF PlacesInv, Apart, Alone
  <2>3. LateHosts' = LateHosts /\ LateListeners' = LateListeners
    BY <1>5 DEF LateHosts, LateListeners, Behind, Keys
  <2>4. /\ HostsOwned(LateHosts) => HostsOwned(LateHosts)'
        /\ ListenersOwned(LateListeners) => ListenersOwned(LateListeners)'
        /\ HostsOwned({}) => HostsOwned({})'
        /\ ListenersOwned({}) => ListenersOwned({})'
    BY <1>5, <2>1, <2>3 DEF HostsOwned, ListenersOwned, Owns
  <2>5. \A c : OneMove(c)' <=> OneMove(c)
    BY DEF OneMove, Alone, Keys
  <2> QED BY <1>4, <1>5, <2>2, <2>4, <2>5 DEF PlacesInv
<1>6. ASSUME changes' = <<>>,
             \A p : /\ \A k \in Serving(p)' : Owns(hosts', p, k)
                    /\ \A k \in Listening(p)' : Owns(listenerHosts', p, k)
      PROVE  PlacesInv'
  <2>1. HostsOwned({})' /\ ListenersOwned({})'
    BY <1>6 DEF HostsOwned, ListenersOwned, Owns
  <2>2. LateHosts' = {} /\ LateListeners' = {} /\ Len(changes') = 0 /\ Values(changes') = {}
    BY <1>6, SMTT(20) DEF LateHosts, LateListeners, Values
  <2>3. HostsOwned(LateHosts)' /\ ListenersOwned(LateListeners)'
    BY <2>1 DEF HostsOwned, ListenersOwned
  <2> QED BY <1>3, <2>1, <2>2, <2>3, SMTT(20) DEF PlacesInv
<1>7. ASSUME phase \notin {"changes", "globalChanges", "startup", "crashed"}
      PROVE  changes = <<>> /\ HostsOwned({}) /\ ListenersOwned({})
  BY <1>7 DEF KeysFollow, PlacesInv, LateHosts, LateListeners
<1>8. CASE phase = "crashed"
  BY <1>5, <1>8, CrashedStays
<1>9. CASE UNCHANGED vars
  BY <1>5, <1>9 DEF vars, confVars, built
<1> SUFFICES ASSUME Next, phase # "crashed" PROVE PlacesInv'
  BY <1>8, <1>9
<1>10. CASE ClusterNext \/ FlushNext
  BY <1>5, <1>10 DEF ClusterNext, Create, Update, Remove, ChangeGlobalConfiguration,
                     ChangeNamespaceLabel, FlushNext, runStatusFlush, confVars, built
<1>11. CASE \/ \E k \in NamespaceKeys : syncUnwatched(k)
            \/ WatchNamespace \/ UnwatchNamespace \/ EndSync \/ stopInformers
  BY <1>5, <1>11 DEF syncUnwatched, WatchNamespace, UnwatchNamespace, EndSync, stopInformers,
                     confVars, built
<1>12. CASE processProblems
  BY <1>5, <1>12 DEF processProblems, built
<1>13. CASE \/ \E k \in ObjectKeys : processDelete(k)
            \/ \E r : processAddOrUpdate(r)
  BY <1>1, <1>13, PlacesAdvance
<1>14. CASE NextChangeList
  <2>1. /\ phase = "changes" /\ phase' = "changes" /\ changes # <<>> /\ changes' = Tail(changes)
        /\ Head(changes).deletes = {} /\ Head(changes).moves = {}
        /\ UNCHANGED <<hosts, listenerHosts, files>>
    BY <1>14 DEF NextChangeList, NextUpdates, built
  <2>2. PICK S : S = Values(changes)
    OBVIOUS
  <2>3. changes \in Seq(S)
    BY <2>2 DEF IInv, ConfInv, ConfTypeOK
  <2>4. /\ HostsOwned(LateHosts) /\ ListenersOwned(LateListeners) /\ Len(changes) <= 2 /\ Apart
        /\ \A c \in Values(changes) : OneMove(c)
    BY <2>1 DEF PlacesInv
  <2>5. /\ Len(changes) \in {1, 2} /\ Head(changes) = changes[1]
        /\ Len(changes) = 1 => changes' = <<>>
        /\ Len(changes) = 2 => /\ 2 \in DOMAIN changes /\ Len(changes') = 1
                              /\ changes'[1] = changes[2] /\ DOMAIN changes' = {1}
    <3>1. Len(changes) \in Nat /\ Len(changes) # 0 /\ DOMAIN changes = 1..Len(changes)
      BY <2>1, <2>3, SMTT(20)
    <3>2. Len(changes) \in {1, 2}
      BY <2>4, <3>1, SMTT(20)
    <3>3. Head(changes) = changes[1]
      BY <2>1, <2>3, SMTT(20)
    <3>4. /\ changes' \in Seq(S) /\ Len(changes') = Len(changes) - 1
          /\ \A i \in 1..(Len(changes) - 1) : changes'[i] = changes[i + 1]
      BY <2>1, <2>3, SMTT(20)
    <3>5. Len(changes) = 1 => changes' = <<>>
      BY <3>4, SMTT(20)
    <3>6. Len(changes) = 2 => /\ 2 \in DOMAIN changes /\ Len(changes') = 1
                              /\ changes'[1] = changes[2] /\ DOMAIN changes' = {1}
      BY <3>1, <3>4, SMTT(20)
    <3> QED BY <3>2, <3>3, <3>5, <3>6
  <2>6. Behind(changes[1]) = {}
    BY <2>1, <2>5 DEF Behind, Keys
  <2>7. \A p : Serving(p)' = Serving(p) /\ Listening(p)' = Listening(p)
    BY <2>1 DEF Serving, Listening, ListensOn
  <2>8. \A p : \A k \in Listening(p) : Owns(listenerHosts, p, k)
    BY <2>1, <2>4, <2>6 DEF ListenersOwned, LateListeners
  <2>9. CASE Len(changes) = 1
    <3>1. \A p : \A k \in Serving(p) : Owns(hosts, p, k)
      BY <2>1, <2>4, <2>6, <2>9 DEF HostsOwned, LateHosts
    <3> QED BY <1>6, <2>1, <2>5, <2>7, <2>8, <2>9, <3>1
  <2>10. CASE Len(changes) = 2
    <3>1. /\ changes' # <<>> /\ Len(changes') = 1 /\ changes'[1] = changes[2]
          /\ DOMAIN changes' = {1}
      <4>1. Len(<<>>) = 0
        BY SMTT(20)
      <4> QED BY <2>5, <2>10, <4>1, SMTT(20)
    <3>2. LateHosts' = Behind(changes[2]) /\ LateHosts = Behind(changes[2])
      BY <2>1, <2>10, <3>1 DEF LateHosts, Behind, Keys
    <3>3. HostsOwned(LateHosts)' /\ ListenersOwned(LateListeners)'
      BY <2>1, <2>4, <2>7, <2>8, <3>2 DEF HostsOwned, ListenersOwned, Owns
    <3>4. Apart'
      BY <2>4, <2>7 DEF Apart, Alone
    <3>5. \A c \in Values(changes') : OneMove(c)
      BY <2>4, <2>5, <2>10, <3>1 DEF Values
    <3>6. Len(changes') <= 2 /\ Len(changes') # 2
      BY <3>1, SMTT(20)
    <3> QED BY <2>1, <3>3, <3>4, <3>5, <3>6 DEF PlacesInv, OneMove, Alone, Keys
  <2> QED BY <2>5, <2>9, <2>10
<1>15. ASSUME changes' = <<>>, UNCHANGED <<hosts, listenerHosts>>,
              NEW R, R \subseteq GetResources,
              \A k \in DOMAIN files' :
                \/ k \in DOMAIN files /\ files'[k] = files[k] /\ k \notin Keys(R)
                \/ \E r \in R : k = r.key /\ files'[k] = r.conf,
              \A p : /\ \A k \in Serving(p) : k \in DOMAIN files' \ Keys(R) => Owns(hosts, p, k)
                     /\ \A k \in Listening(p) :
                          k \in DOMAIN files' \ Keys(R) => Owns(listenerHosts, p, k)
       PROVE  PlacesInv'
  <2>1. R \subseteq GetResources'
    BY <1>15 DEF GetResources
  <2>2. ASSUME NEW p, NEW k
        PROVE  /\ k \in Serving(p)' => \/ k \in Serving(p) /\ k \notin Keys(R)
                                       \/ k \in Keys(R) /\ Owns(hosts', p, k)
               /\ k \in Listening(p)' => \/ k \in Listening(p) /\ k \notin Keys(R)
                                         \/ k \in Keys(R) /\ Owns(listenerHosts', p, k)
    BY <1>2, <1>15, <2>1, FilesRewritten
  <2>3. \A p : Serving(p)' \subseteq DOMAIN files' /\ Listening(p)' \subseteq DOMAIN files'
    BY DEF Serving, Listening
  <2>4. \A p : /\ \A k \in Serving(p)' : Owns(hosts', p, k)
               /\ \A k \in Listening(p)' : Owns(listenerHosts', p, k)
    BY <1>15, <2>2, <2>3
  <2> QED BY <1>6, <1>15, <2>4
<1>16. CASE processChangesFromGlobalConfiguration
  <2>1. /\ phase = "globalChanges" /\ changes' = <<>> /\ UNCHANGED <<hosts, listenerHosts>>
        /\ files' = [k \in (DOMAIN files \cup Keys(Updated(changes))) \ Deleted(changes) |->
                       IF k \in Keys(Updated(changes))
                       THEN (CHOOSE r \in Updated(changes) : r.key = k).conf
                       ELSE files[k]]
    BY <1>16 DEF processChangesFromGlobalConfiguration, built
  <2>2. PICK R : R = Updated(changes)
    OBVIOUS
  <2>3. R \subseteq GetResources
    BY <2>1, <2>2 DEF KeysFollow
  <2>4. ASSUME NEW k \in DOMAIN files'
        PROVE  \/ k \in DOMAIN files /\ files'[k] = files[k] /\ k \notin Keys(R)
               \/ \E r \in R : k = r.key /\ files'[k] = r.conf
    <3>1. CASE k \in Keys(R)
      <4>1. (CHOOSE r \in R : r.key = k) \in R /\ (CHOOSE r \in R : r.key = k).key = k
        BY <3>1 DEF Keys
      <4> QED BY <2>1, <2>2, <2>4, <3>1, <4>1
    <3>2. CASE k \notin Keys(R)
      BY <2>1, <2>2, <2>4, <3>2
    <3> QED BY <3>1, <3>2
  <2>5. LateHosts \cup LateListeners \subseteq Keys(R) \cup Deleted(changes)
    <3>1. CASE changes = <<>>
      BY <3>1 DEF LateHosts, LateListeners
    <3>2. CASE changes # <<>>
      <4>1. PICK S : S = Values(changes)
        OBVIOUS
      <4>2. changes \in Seq(S)
        BY <4>1 DEF IInv, ConfInv, ConfTypeOK
      <4>3. 1 \in DOMAIN changes /\ Len(changes) \in DOMAIN changes
        BY <3>2, <4>2, SMTT(20)
      <4>4. \A i \in DOMAIN changes : Behind(changes[i]) \subseteq Keys(R) \cup Deleted(changes)
        BY <2>2, SMTT(20) DEF Behind, Updated, Deleted, Keys
      <4> QED BY <3>2, <4>3, <4>4 DEF LateHosts, LateListeners
    <3> QED BY <3>1, <3>2
  <2>6. DOMAIN files' \cap Deleted(changes) = {}
    BY <2>1
  <2>7. HostsOwned(LateHosts) /\ ListenersOwned(LateListeners)
    BY <2>1 DEF PlacesInv
  <2>8. \A p : /\ \A k \in Serving(p) : k \in DOMAIN files' \ Keys(R) => Owns(hosts, p, k)
               /\ \A k \in Listening(p) :
                    k \in DOMAIN files' \ Keys(R) => Owns(listenerHosts, p, k)
    BY <2>5, <2>6, <2>7 DEF HostsOwned, ListenersOwned
  <2> QED BY <1>15, <2>1, <2>3, <2>4, <2>8
<1>17. CASE StartupConfigs
  <2>1. /\ phase = "startup" /\ changes' = <<>> /\ UNCHANGED <<hosts, listenerHosts>>
        /\ files' = [k \in DOMAIN files \cup Keys(GetResources) |->
                       IF k \in Keys(GetResources)
                       THEN (CHOOSE r \in GetResources : r.key = k).conf
                       ELSE files[k]]
    BY <1>17 DEF StartupConfigs, built
  <2>2. PICK R : R = GetResources
    OBVIOUS
  <2>3. ASSUME NEW k \in DOMAIN files'
        PROVE  \/ k \in DOMAIN files /\ files'[k] = files[k] /\ k \notin Keys(R)
               \/ \E r \in R : k = r.key /\ files'[k] = r.conf
    <3>1. CASE k \in Keys(R)
      <4>1. (CHOOSE r \in R : r.key = k) \in R /\ (CHOOSE r \in R : r.key = k).key = k
        BY <3>1 DEF Keys
      <4> QED BY <2>1, <2>2, <2>3, <3>1, <4>1
    <3>2. CASE k \notin Keys(R)
      BY <2>1, <2>2, <2>3, <3>2
    <3> QED BY <3>1, <3>2
  <2>4. \A p : /\ \A k \in Serving(p) : Owns(hosts, p, k)
               /\ \A k \in Listening(p) : Owns(listenerHosts, p, k)
    BY <2>1 DEF PlacesInv, HostsOwned, ListenersOwned
  <2> QED BY <1>15, <2>1, <2>2, <2>3, <2>4
<1>18. CASE StartupRebuild
  <2>1. /\ UNCHANGED <<files, listenerHosts>> /\ phase = "tail" /\ phase' = "startup"
        /\ changes' = <<hostChanges>> /\ ~isNginxReady
    BY <1>18 DEF StartupRebuild, CompleteStartup
  <2>2. DOMAIN hosts = {} /\ HostsOwned({}) /\ ListenersOwned({})
    BY <1>7, <2>1 DEF StartInv, EmptyMap
  <2>3. /\ Apart' /\ HostsOwned(LateHosts)' /\ ListenersOwned(LateListeners)'
        /\ Len(changes') <= 2
        /\ Len(changes') = 2 =>
             changes'[1].moves \cup changes'[1].updates \subseteq Values(listenerHosts')
    BY <1>1, <1>2, <2>1, <2>2, PlacesRebuilt
  <2>4. \A p : Serving(p) = {} /\ Serving(p)' = Serving(p) /\ Listening(p)' = Listening(p)
    BY <2>1, <2>2 DEF Serving, Listening, ListensOn, HostsOwned, Owns
  <2>5. HostsOwned({})' /\ ListenersOwned({})'
    BY <2>1, <2>2, <2>4 DEF HostsOwned, ListenersOwned, Owns
  <2> QED BY <2>1, <2>3, <2>5 DEF PlacesInv
<1>19. CASE \/ \E k \in Keys(Ingresses) : syncIngress(k)
            \/ \E k \in Keys(VirtualServers) : syncVirtualServer(k)
            \/ \E k \in Keys(VirtualServerRoutes) : syncVirtualServerRoute(k)
            \/ \E k \in Keys(TransportServers) : syncTransportServer(k)
  <2>1. UNCHANGED files /\ phase = "idle" /\ phase' = "changes"
    BY <1>19 DEF syncIngress, syncVirtualServer, syncVirtualServerRoute, syncTransportServer, Sync,
                 Get
  <2>2. \/ changes' = <<>> /\ UNCHANGED <<hosts, listenerHosts>>
        \/ changes' = <<hostChanges>> /\ UNCHANGED listenerHosts
        \/ changes' = <<listenerChanges>> /\ UNCHANGED hosts
        \/ changes' = <<listenerChanges, hostChanges>>
    BY <1>19 DEF syncIngress, syncVirtualServer, syncVirtualServerRoute, syncTransportServer, Sync,
                 AddOrUpdateIngress, DeleteIngress, AddOrUpdateVirtualServer, DeleteVirtualServer,
                 AddOrUpdateVirtualServerRoute, DeleteVirtualServerRoute,
                 AddOrUpdateTransportServer, DeleteTransportServer, NothingToDelete, built,
                 RebuildAfterStartup, RebuildListenersAndHosts
  <2>3. /\ Apart' /\ HostsOwned(LateHosts)' /\ ListenersOwned(LateListeners)'
        /\ Len(changes') <= 2
        /\ Len(changes') = 2 =>
             changes'[1].moves \cup changes'[1].updates \subseteq Values(listenerHosts')
        /\ Values(changes') \subseteq {hostChanges, listenerChanges}
    BY <1>1, <1>2, <1>7, <2>1, <2>2, PlacesRebuilt
  <2>4. OneMove(hostChanges) /\ OneMove(listenerChanges)
    <3>1. StoresTypeOK /\ StoresTypeOK' /\ TypeOK
      BY DEF IInv, ConfInv, ConfTypeOK
    <3> QED BY <1>1, <1>2, <1>19, <3>1, SyncKeeps, OneMover
  <2>5. \A c \in Values(changes') : OneMove(c)
    BY <2>3, <2>4
  <2> QED BY <2>1, <2>3, <2>5 DEF PlacesInv, OneMove, Alone, Keys
<1>20. CASE syncGlobalConfiguration
  <2>1. UNCHANGED files /\ phase = "idle" /\ phase' = "globalChanges"
    BY <1>20 DEF syncGlobalConfiguration, Get
  <2>2. \/ changes' = <<listenerChanges>> /\ UNCHANGED hosts
        \/ changes' = <<listenerChanges, hostChanges>>
    BY <1>20 DEF syncGlobalConfiguration, AddOrUpdateGlobalConfiguration,
                 DeleteGlobalConfiguration, RebuildListenersAndHosts
  <2>3. /\ Apart' /\ HostsOwned(LateHosts)' /\ ListenersOwned(LateListeners)'
        /\ Len(changes') <= 2
        /\ Len(changes') = 2 =>
             changes'[1].moves \cup changes'[1].updates \subseteq Values(listenerHosts')
    BY <1>1, <1>2, <1>7, <2>1, <2>2, PlacesRebuilt
  <2> QED BY <2>1, <2>3 DEF PlacesInv
<1>21. CASE cleanupUnwatchedNamespacedResources /\ ~stopInformers
  <2>1. PICK this, objects, next :
          /\ cleanupKind(this, objects, next)
          /\ this \in {"unwatchIngresses", "unwatchVirtualServers", "unwatchTransportServers",
                       "unwatchRoutes"}
    BY <1>21 DEF cleanupUnwatchedNamespacedResources
  <2>2. PICK listed : cleanupListed(listed) /\ phase = this
    BY <2>1 DEF cleanupKind
  <2>3. NoSolvers
    BY <2>1, <2>2 DEF LabelInv
  <2>4. changes = <<>> /\ HostsOwned({}) /\ ListenersOwned({})
    BY <1>7, <2>1, <2>2
  <2>5. changes' = <<>> /\ files' = WithoutKeys(files, listed)
    BY <2>2, <2>4 DEF cleanupListed
  <2>6. /\ \A h \in DOMAIN hosts : hosts[h].key \notin listed =>
             h \in DOMAIN hosts' /\ hosts'[h].key = hosts[h].key
        /\ \A lh \in DOMAIN listenerHosts : listenerHosts[lh].key \notin listed =>
             lh \in DOMAIN listenerHosts' /\ listenerHosts'[lh].key = listenerHosts[lh].key
    BY <2>2, <2>3, OwnersStay DEF IInv
  <2>7. \A p : /\ Serving(p)' \subseteq Serving(p) \ listed
               /\ Listening(p)' \subseteq Listening(p) \ listed
    BY <2>5 DEF Serving, Listening, ListensOn, WithoutKeys
  <2>8. \A p : /\ \A k \in Serving(p)' : Owns(hosts', p, k)
               /\ \A k \in Listening(p)' : Owns(listenerHosts', p, k)
    BY <2>4, <2>6, <2>7, SMTT(20) DEF HostsOwned, ListenersOwned, Owns
  <2> QED BY <1>6, <2>5, <2>8
<1> QED BY <1>10, <1>11, <1>12, <1>13, <1>14, <1>16, <1>17, <1>18, <1>19, <1>20, <1>21
        DEF Next, WorkerNext

\* For every interleaving.
LEMMA PlacesAlways == Spec => []PlacesInv
<1>1. Init => PlacesInv
  <2> SUFFICES ASSUME Init PROVE PlacesInv
    OBVIOUS
  <2>1. DOMAIN files = {} /\ changes = <<>> /\ phase = "idle"
    BY DEF Init, ConfInit, EmptyMap
  <2>2. \A p : Serving(p) = {} /\ Listening(p) = {}
    BY <2>1 DEF Serving, Listening
  <2>3. Apart /\ HostsOwned(LateHosts) /\ ListenersOwned(LateListeners)
    BY <2>2 DEF Apart, Alone, HostsOwned, ListenersOwned
  <2>4. Len(changes) = 0
    BY <2>1, SMTT(20)
  <2> QED BY <2>1, <2>3, <2>4, SMTT(20) DEF PlacesInv
<1>2. IInv /\ IInv' /\ StartInv /\ StartInv' /\ KeysFollow /\ LabelInv /\ PlacesInv
      /\ [Next]_vars => PlacesInv'
  BY PlacesStep
<1> QED BY <1>1, <1>2, Invariance, StartInvariance, KeysAlways, LabelsKept, PTL DEF Spec

\* The promise of createResourceChangesForListeners: at no time, not even between two changes of
\* one sync, do two TransportServer configs listen for the same listener and host, unless
\* namespaces are relabelled in a cluster with solver Ingresses.
THEOREM ListenersApart ==
  Spec => [](NoSolvers \/ ~workload.relabels => NoListenerCollision)
<1>1. PlacesInv => (NoSolvers \/ ~workload.relabels => NoListenerCollision)
  <2> SUFFICES ASSUME PlacesInv, NoSolvers \/ ~workload.relabels,
                      NEW j \in DOMAIN files \cap Keys(TransportServers),
                      NEW k \in DOMAIN files \cap Keys(TransportServers),
                      files[j].listener = files[k].listener, files[j].host = files[k].host
               PROVE  j = k
    BY DEF NoListenerCollision
  <2>1. Apart
    BY DEF PlacesInv
  <2>2. CASE files[j].listener = "tls-passthrough"
    <3>1. PICK h : h = files[j].host
      OBVIOUS
    <3>2. j \in Serving(h) /\ k \in Serving(h)
      BY <2>2, <3>1 DEF Serving
    <3> QED BY <2>1, <3>2 DEF Apart, Alone
  <2>3. CASE files[j].listener # "tls-passthrough"
    <3>1. PICK lh : lh = <<files[j].listener, files[j].host>>
      OBVIOUS
    <3>2. j \in Listening(lh) /\ k \in Listening(lh)
      BY <2>3, <3>1 DEF Listening, ListensOn
    <3> QED BY <2>1, <3>2 DEF Apart, Alone
  <2> QED BY <2>2, <2>3
<1> QED BY <1>1, PlacesAlways, PTL

\* The promise of createResourceChangesForHosts: where no valid Ingress has two hosts, at no time
\* do two config files have a server for the same host, not even between two changes of one
\* sync.  (Two Ingresses with several hosts can exchange two of them in one sync; then both
\* move, and the file of the first has the host while the file of the second still does.)
THEOREM HostsApart ==
  ASSUME SingleHosts
  PROVE  Spec => [](NoSolvers \/ ~workload.relabels => NoHostCollision)
<1>1. PlacesInv => (NoSolvers \/ ~workload.relabels => NoHostCollision)
  <2> SUFFICES ASSUME PlacesInv, NoSolvers \/ ~workload.relabels, NEW h \in Hosts
               PROVE  Cardinality(Serving(h)) <= 1
    BY DEF NoHostCollision
  <2>1. \A j, k \in Serving(h) : j = k
    BY DEF PlacesInv, Apart, Alone
  <2>2. CASE Serving(h) = {}
    BY <2>2, FS_EmptySet, SMTT(20)
  <2>3. CASE Serving(h) # {}
    <3>1. PICK k : Serving(h) = {k}
      BY <2>1, <2>3
    <3>2. Cardinality({k}) = 1
      BY FS_Singleton, Zenon
    <3> QED BY <3>1, <3>2, SMTT(20)
  <2> QED BY <2>2, <2>3
<1> QED BY <1>1, PlacesAlways, PTL
=============================================================================
