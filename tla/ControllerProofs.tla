-------------------------- MODULE ControllerProofs --------------------------
(***************************************************************************)
(* Invariants of the controller, for every set of objects and every        *)
(* interleaving of the users, the worker and the flush goroutine.  The     *)
(* inductive invariant is IInv: the type invariant, and the agreement of   *)
(* the Configuration's index, maps and problems with its stores.           *)
(*                                                                         *)
(* The first half is about the Configuration alone:                        *)
(*   - the conflict resolution has exactly one winner (WinnerWins);        *)
(*   - every operation preserves the type invariant, the consistency of    *)
(*     the minion index, and the agreement of the host and listener maps   *)
(*     with the stored objects;                                            *)
(*   - in such a state every stored object is active or has a problem;     *)
(*   - the changes that an operation returns are complete.                 *)
(***************************************************************************)
EXTENDS Controller, WellFoundedInduction, TLAPS

\* Zenon first, then SMT, each with its limit in seconds, for the leaves that name no prover.
USE ZenonT(20), SMTT(20)

-----------------------------------------------------------------------------
(* The winner.                                                             *)

\* Every nonempty set of natural numbers has a least element.
LEMMA LeastNatural ==
  ASSUME NEW T, T \subseteq Nat, T # {}
  PROVE  \E m \in T : \A n \in T : m <= n
<1> DEFINE R == {ss \in Nat \X Nat : ss[1] < ss[2]}
<1>1. IsWellFoundedOn(R, Nat)
  BY NatLessThanWellFounded DEF OpToRel
<1>2. PICK m \in T : \A n \in T : <<n, m>> \notin R
  <2> HIDE DEF R
  <2> QED BY <1>1, WFMin
<1>3. \A n \in T : ~(n < m)
  BY <1>2
<1> QED BY <1>3, SMTT(20)

\* Claimants with distinct UIDs: one of them wins every comparison of
\* chooseObjectMetaWinner, so the order in which the build loop meets them does
\* not matter, and Winner is that one.
LEMMA WinnerWins ==
  ASSUME NEW S, S # {},
         \A o \in S : o.created \in Nat /\ o.uid \in 0..MaxUID,
         \A o, p \in S : o # p => o.uid # p.uid
  PROVE  /\ Winner(S) \in S
         /\ \A p \in S \ {Winner(S)} : chooseObjectMetaWinner(Winner(S), p)
<1>1. PICK c \in {o.created : o \in S} : \A n \in {o.created : o \in S} : c <= n
  BY LeastNatural
<1> DEFINE Oldest == {o \in S : o.created = c}
<1>2. PICK d \in {MaxUID - o.uid : o \in Oldest} :
         \A n \in {MaxUID - o.uid : o \in Oldest} : d <= n
  <2>1. {MaxUID - o.uid : o \in Oldest} # {}
    BY <1>1
  <2>2. {MaxUID - o.uid : o \in Oldest} \subseteq Nat
    BY MetadataAssumption, SMTT(20)
  <2> QED BY <2>1, <2>2, LeastNatural
<1>3. PICK w \in Oldest : d = MaxUID - w.uid
  BY <1>2
<1>4. \A p \in S \ {w} : chooseObjectMetaWinner(w, p)
  <2> SUFFICES ASSUME NEW p \in S \ {w} PROVE chooseObjectMetaWinner(w, p)
    OBVIOUS
  <2>1. w.created <= p.created /\ w.created \in Nat /\ p.created \in Nat
    BY <1>1, <1>3
  <2>2. CASE p.created = w.created
    <3>1. d <= MaxUID - p.uid
      BY <1>2, <2>2, <1>3
    <3>2. w.uid # p.uid /\ w.uid \in 0..MaxUID /\ p.uid \in 0..MaxUID
      BY <1>3
    <3>3. w.uid > p.uid
      BY <1>3, <3>1, <3>2, MetadataAssumption, SMTT(20)
    <3> QED BY <3>3, <2>2 DEF chooseObjectMetaWinner
  <2>3. CASE p.created # w.created
    BY <2>1, <2>3, SMTT(20) DEF chooseObjectMetaWinner
  <2> QED BY <2>2, <2>3
<1>5. \E o \in S : \A p \in S \ {o} : chooseObjectMetaWinner(o, p)
  BY <1>3, <1>4
<1> QED BY <1>5 DEF Winner

-----------------------------------------------------------------------------
(* What the maps depend on.  HostInputs unchanged means that nothing the    *)
(* host map is built from has changed.                                      *)

HostInputsUnchanged ==
  /\ UNCHANGED <<ingresses, virtualServers, virtualServerRoutes, globalConfiguration,
                 minionsByHost>>
  /\ HostTransportServers' = HostTransportServers

\* A step that leaves the stores alone leaves the inputs of rebuildHosts alone.
LEMMA StoresUnchanged ==
  UNCHANGED stores => HostInputsUnchanged
BY DEF stores, HostInputsUnchanged, HostTransportServers, Values

\* Then the objects that compete for a host in buildHostsAndResources are the same.
LEMMA ClaimantsUnchanged ==
  ASSUME HostInputsUnchanged, NEW h
  PROVE  Claimants(h)' = Claimants(h)
<1>1. HostIngresses' = HostIngresses
  BY DEF HostInputsUnchanged, HostIngresses, convertedToVSR, Values, isMinion
<1>2. Values(virtualServers)' = Values(virtualServers)
  BY DEF HostInputsUnchanged, Values
<1> QED BY <1>1, <1>2 DEF Claimants, HostInputsUnchanged

\* Then buildMinionConfigs attaches the same minions to every host.
LEMMA MinionConfigsUnchanged ==
  ASSUME HostInputsUnchanged, NEW o
  PROVE  buildMinionConfigs(o)' = buildMinionConfigs(o)
<1>1. \A h : MinionsOf(h)' = MinionsOf(h)
  BY DEF HostInputsUnchanged, MinionsOf
<1> QED BY <1>1 DEF buildMinionConfigs

\* Then an Ingress keeps the hosts that buildHostsAndResources found valid for it.
LEMMA ValidHostsUnchanged ==
  ASSUME HostInputsUnchanged, NEW o, NEW wanted
  PROVE  validHosts(o, wanted)' = validHosts(o, wanted)
BY ClaimantsUnchanged DEF validHosts

\* Then a VirtualServer keeps its routes and its listeners.
LEMMA VirtualServerConfigurationUnchanged ==
  ASSUME HostInputsUnchanged, NEW o
  PROVE  VirtualServerConfiguration(o)' = VirtualServerConfiguration(o)
<1>1. buildVirtualServerRoutes(o)' = buildVirtualServerRoutes(o)
  BY DEF HostInputsUnchanged, buildVirtualServerRoutes
<1>2. challengesVSR(o)' = challengesVSR(o)
  BY DEF HostInputsUnchanged, challengesVSR, convertedToVSR, Values
<1>3. \A n, ssl : assignListener(n, ssl)' = assignListener(n, ssl)
  BY DEF HostInputsUnchanged, assignListener
<1> QED BY <1>1, <1>2, <1>3, ValidHostsUnchanged DEF VirtualServerConfiguration

\* Then a rebuild of the hosts gives the same host map.
LEMMA NewHostsUnchanged ==
  ASSUME HostInputsUnchanged
  PROVE  newHosts' = newHosts
<1>1. \A o : PassthroughConfiguration(o)' = PassthroughConfiguration(o)
  BY ValidHostsUnchanged DEF PassthroughConfiguration
<1>2. \A o : IngressConfiguration(o)' = IngressConfiguration(o)
  BY ValidHostsUnchanged, MinionConfigsUnchanged DEF IngressConfiguration
<1>3. \A o : HostResource(o)' = HostResource(o)
  BY <1>1, <1>2, VirtualServerConfigurationUnchanged
  DEF HostResource, HostInputsUnchanged, Values
<1>4. ClaimedHosts' = ClaimedHosts
  BY ClaimantsUnchanged, SMTT(20) DEF ClaimedHosts
<1> QED BY <1>3, <1>4, ClaimantsUnchanged DEF newHosts

\* Then a rebuild of the hosts gives the same problems.
LEMMA NewHostProblemsUnchanged ==
  ASSUME HostInputsUnchanged, UNCHANGED hosts
  PROVE  newHostProblems' = newHostProblems
<1>1. HostIngresses' = HostIngresses
  BY DEF HostInputsUnchanged, HostIngresses, convertedToVSR, Values, isMinion
<1>2. WithoutActiveHost' = WithoutActiveHost
  BY <1>1 DEF WithoutActiveHost, HostInputsUnchanged, Values
<1>3. OrphanMinions' = OrphanMinions
  <2>1. \A h : MinionsOf(h)' = MinionsOf(h)
    BY DEF HostInputsUnchanged, MinionsOf
  <2>2. \A h : hasMaster(h)' = hasMaster(h)
    BY DEF hasMaster
  <2> QED BY <2>1, <2>2 DEF OrphanMinions, HostInputsUnchanged
<1>4. OrphanVsrs' = OrphanVsrs /\ IgnoredVsrs' = IgnoredVsrs
  BY DEF OrphanVsrs, IgnoredVsrs, hasVirtualServer, HostInputsUnchanged, Values
<1> QED BY <1>2, <1>3, <1>4 DEF newHostProblems, HostInputsUnchanged

\* Then a rebuild of the listeners gives the same listener map.
LEMMA NewListenerHostsUnchanged ==
  ASSUME UNCHANGED <<transportServers, globalConfiguration>>
  PROVE  newListenerHosts' = newListenerHosts
<1>1. ListenerTransportServers' = ListenerTransportServers
  BY DEF ListenerTransportServers, Values
<1>2. \A ts : hasListener(ts)' = hasListener(ts)
  BY DEF hasListener
<1>3. \A lh : ListenerClaimants(lh)' = ListenerClaimants(lh)
  BY <1>1, <1>2 DEF ListenerClaimants
<1> QED BY <1>1, <1>2, <1>3 DEF newListenerHosts

\* Then a rebuild of the listeners gives the same problems.
LEMMA NewListenerProblemsUnchanged ==
  ASSUME UNCHANGED <<transportServers, listenerHosts>>
  PROVE  newListenerProblems' = newListenerProblems
<1>1. ListenerTransportServers' = ListenerTransportServers
  BY DEF ListenerTransportServers, Values
<1> QED BY <1>1 DEF newListenerProblems

-----------------------------------------------------------------------------
(* Well-formed stores.                                                     *)

\* AddOrUpdate of a valid or an invalid object keeps a store well formed: objects
\* under their own keys.
LEMMA StoredOK ==
  ASSUME NEW store, NEW objects, StoreOf(store, objects), NEW o \in objects
  PROVE  StoreOf(Stored(store, o), objects)
BY DEF StoreOf, Stored, Put, Without, Keys

\* Delete keeps a store well formed.
LEMMA WithoutOK ==
  ASSUME NEW store, NEW objects, StoreOf(store, objects), NEW k
  PROVE  StoreOf(Without(store, k), objects)
BY DEF StoreOf, Without

\* Two claimants of a host are objects of two keys, hence of two UIDs.
LEMMA ClaimantsOK ==
  StoresTypeOK =>
    \A h : /\ Claimants(h) \subseteq AllObjects
           /\ \A o \in Claimants(h) : o.created \in Nat /\ o.uid \in 0..MaxUID
           /\ \A o, p \in Claimants(h) : o # p => o.key # p.key /\ o.uid # p.uid
<1> SUFFICES ASSUME StoresTypeOK, NEW h
             PROVE  /\ Claimants(h) \subseteq AllObjects
                    /\ \A o \in Claimants(h) : o.created \in Nat /\ o.uid \in 0..MaxUID
                    /\ \A o, p \in Claimants(h) : o # p => o.key # p.key /\ o.uid # p.uid
  OBVIOUS
<1>1. \A o \in Claimants(h) :
        \/ o.key \in DOMAIN ingresses /\ o = ingresses[o.key] /\ o \in Ingresses
        \/ o.key \in DOMAIN virtualServers /\ o = virtualServers[o.key] /\ o \in VirtualServers
        \/ o.key \in DOMAIN transportServers /\ o = transportServers[o.key] /\ o \in TransportServers
  BY SMTT(20) DEF Claimants, HostIngresses, HostTransportServers, Values, StoresTypeOK, StoreOf
<1>2. Claimants(h) \subseteq AllObjects
  BY <1>1 DEF AllObjects
<1>3. \A o, p \in Claimants(h) : o # p => o.key # p.key
  BY <1>1, KindsAssumption, SMTT(20) DEF Keys
<1> QED BY <1>2, <1>3, MetadataAssumption

\* Hence every claimed host has one owner, which wins against the other claimants.
LEMMA OwnerWins ==
  StoresTypeOK =>
    \A h : Claimants(h) # {} =>
      /\ Winner(Claimants(h)) \in Claimants(h)
      /\ \A p \in Claimants(h) \ {Winner(Claimants(h))} :
           chooseObjectMetaWinner(Winner(Claimants(h)), p)
BY ClaimantsOK, WinnerWins

\* A rebuilt host map sends hosts to resources of stored objects.
LEMMA NewHostsOK ==
  StoresTypeOK =>
    /\ DOMAIN newHosts = ClaimedHosts
    /\ \A h \in ClaimedHosts : newHosts[h].key = Winner(Claimants(h)).key
    /\ Keys(Values(newHosts)) \subseteq Keys(AllObjects)
<1>1. \A o : HostResource(o).key = o.key
  <2>1. \A o : IngressConfiguration(o).key = o.key
    BY DEF IngressConfiguration, NewIngressConfiguration
  <2>2. \A o : VirtualServerConfiguration(o).key = o.key
    BY DEF VirtualServerConfiguration
  <2>3. \A o : PassthroughConfiguration(o).key = o.key
    BY DEF PassthroughConfiguration, TransportServerConfiguration
  <2> QED BY <2>1, <2>2, <2>3 DEF HostResource
<1>2. /\ DOMAIN newHosts = ClaimedHosts
      /\ \A h \in ClaimedHosts : newHosts[h].key = Winner(Claimants(h)).key
  BY <1>1 DEF newHosts
<1>3. ASSUME StoresTypeOK
      PROVE  Keys(Values(newHosts)) \subseteq Keys(AllObjects)
  <2>1. \A h \in ClaimedHosts : Winner(Claimants(h)) \in AllObjects
    BY <1>3, OwnerWins, ClaimantsOK DEF ClaimedHosts
  <2> QED BY <1>2, <2>1 DEF Keys, Values
<1> QED BY <1>2, <1>3

\* Two TransportServers that compete for a listener and host have two keys, hence
\* two UIDs.
LEMMA ListenerClaimantsOK ==
  StoresTypeOK =>
    \A lh : /\ ListenerClaimants(lh) \subseteq TransportServers
            /\ \A o, p \in ListenerClaimants(lh) : o # p => o.key # p.key /\ o.uid # p.uid
<1> SUFFICES ASSUME StoresTypeOK, NEW lh
             PROVE  /\ ListenerClaimants(lh) \subseteq TransportServers
                    /\ \A o, p \in ListenerClaimants(lh) : o # p => o.key # p.key /\ o.uid # p.uid
  OBVIOUS
<1>1. \A o \in ListenerClaimants(lh) :
        o.key \in DOMAIN transportServers /\ o = transportServers[o.key] /\ o \in TransportServers
  BY SMTT(20) DEF ListenerClaimants, ListenerTransportServers, Values, StoresTypeOK, StoreOf
<1> QED BY <1>1, MetadataAssumption DEF AllObjects

\* A rebuilt listener map sends listeners to resources of stored TransportServers.
LEMMA NewListenerHostsOK ==
  StoresTypeOK => Keys(Values(newListenerHosts)) \subseteq Keys(AllObjects)
<1> SUFFICES ASSUME StoresTypeOK, NEW lh \in DOMAIN newListenerHosts
             PROVE  newListenerHosts[lh].key \in Keys(AllObjects)
  BY DEF Keys, Values
<1>1. ListenerClaimants(lh) # {}
  BY DEF newListenerHosts, ListenerClaimants
<1>2. Winner(ListenerClaimants(lh)) \in ListenerClaimants(lh)
  <2>1. \A o \in ListenerClaimants(lh) : o.created \in Nat /\ o.uid \in 0..MaxUID
    BY ListenerClaimantsOK, MetadataAssumption DEF AllObjects
  <2> QED BY <1>1, <2>1, ListenerClaimantsOK, WinnerWins
<1>3. newListenerHosts[lh].key = Winner(ListenerClaimants(lh)).key
  BY DEF newListenerHosts, TransportServerConfiguration
<1> QED BY <1>2, <1>3, ListenerClaimantsOK DEF Keys, AllObjects

\* squashResourceChanges makes a well-formed change list of well-formed changes.
LEMMA SquashOK ==
  ASSUME NEW old, NEW new,
         Keys(Values(old)) \subseteq Keys(AllObjects),
         Keys(Values(new)) \subseteq Keys(AllObjects)
  PROVE  ChangeListOK(squashResourceChanges(old, new))
<1>1. DeleteChanges(old, new) \subseteq Keys(AllObjects)
  BY DEF DeleteChanges, removedHosts, updatedHosts, Keys, Values
<1>2. Keys(AddOrUpdateChanges(old, new)) \subseteq Keys(AllObjects)
  BY DEF AddOrUpdateChanges, addedHosts, updatedHosts, Keys, Values
<1> QED BY <1>1, <1>2 DEF ChangeListOK, squashResourceChanges, Keys

\* The sequences of change lists that the operations return.
ChangesOK(cs) == cs \in Seq(Values(cs)) /\ \A c \in Values(cs) : ChangeListOK(c)

\* One or two change lists in a row are a well-formed sequence of change lists.
LEMMA ChangeSequences ==
  /\ ChangesOK(<<>>)
  /\ \A c : ChangeListOK(c) => ChangesOK(<<c>>)
  /\ \A c, d : ChangeListOK(c) /\ ChangeListOK(d) => ChangesOK(<<c, d>>)
<1>1. Values(<<>>) = {}
  BY DEF Values
<1>2. \A c : Values(<<c>>) = {c}
  BY SMTT(20) DEF Values
<1>3. \A c, d : Values(<<c, d>>) = {c, d}
  BY SMTT(20) DEF Values
<1>4. \A c, d, S :
                  /\ <<>> \in Seq(S)
                  /\ c \in S => <<c>> \in Seq(S)
                  /\ c \in S /\ d \in S => <<c, d>> \in Seq(S)
  OBVIOUS
<1> QED BY <1>1, <1>2, <1>3, <1>4, SMTT(20) DEF ChangesOK

\* What RebuildAfterStartup leaves behind, once the stores are well formed.
LEMMA RebuildAfterStartupOK ==
  ASSUME ConfTypeOK, RebuiltAfterStartup, StoresTypeOK', NEW rejected,
         UNCHANGED <<transportServers, globalConfiguration>>,
         RebuildAfterStartup(rejected)
  PROVE  ConfTypeOK' /\ RebuiltAfterStartup'
<1>1. (StoresTypeOK => /\ DOMAIN newHosts = ClaimedHosts
                      /\ Keys(Values(newHosts)) \subseteq Keys(AllObjects))'
  BY NewHostsOK, PTL
<1>2. ClaimedHosts' \subseteq Hosts
  BY DEF ClaimedHosts
<1>3. /\ DOMAIN hosts' \subseteq Hosts
      /\ Keys(Values(hosts')) \subseteq Keys(AllObjects)
  <2>1. CASE startupComplete
    BY <1>1, <1>2, <2>1 DEF RebuildAfterStartup, rebuildHosts
  <2>2. CASE ~startupComplete
    BY <2>2 DEF RebuildAfterStartup, ConfTypeOK
  <2> QED BY <2>1, <2>2
<1>4. changes' = <<>> \/ changes' = <<hostChanges>>
  BY DEF RebuildAfterStartup
<1>5. ChangeListOK(hostChanges)
  BY <1>3, SquashOK DEF hostChanges, ConfTypeOK
<1>6. ChangesOK(changes')
  BY <1>4, <1>5, ChangeSequences, Zenon
<1>7. ConfTypeOK'
  BY <1>3, <1>6 DEF ChangesOK, ConfTypeOK, RebuildAfterStartup, ReportProblems
<1>8. listenerHosts' = newListenerHosts' /\ listenerProblems' = newListenerProblems'
  BY NewListenerHostsUnchanged, NewListenerProblemsUnchanged
  DEF RebuiltAfterStartup, RebuildAfterStartup
<1>9. startupComplete' => hosts' = newHosts' /\ hostProblems' = newHostProblems'
  BY DEF RebuildAfterStartup, rebuildHosts
<1> QED BY <1>7, <1>8, <1>9 DEF RebuiltAfterStartup

\* What a rebuild of the listeners and the hosts leaves behind, before and after
\* startup.
LEMMA RebuildListenersAndHostsOK ==
  ASSUME ConfTypeOK, RebuiltAfterStartup, StoresTypeOK', NEW rejected,
         NEW affected \in BOOLEAN, ~affected => HostInputsUnchanged,
         RebuildListenersAndHosts(affected, rejected)
  PROVE  ConfTypeOK' /\ RebuiltAfterStartup'
<1>1. (StoresTypeOK => /\ DOMAIN newHosts = ClaimedHosts
                      /\ Keys(Values(newHosts)) \subseteq Keys(AllObjects))'
  BY NewHostsOK, PTL
<1>2. (StoresTypeOK => Keys(Values(newListenerHosts)) \subseteq Keys(AllObjects))'
  BY NewListenerHostsOK, PTL
<1>3. ClaimedHosts' \subseteq Hosts
  BY DEF ClaimedHosts
<1>4. Keys(Values(listenerHosts')) \subseteq Keys(AllObjects)
  BY <1>2 DEF RebuildListenersAndHosts, rebuildListenerHosts
<1>5. /\ DOMAIN hosts' \subseteq Hosts
      /\ Keys(Values(hosts')) \subseteq Keys(AllObjects)
  <2>1. CASE affected /\ startupComplete
    BY <1>1, <1>3, <2>1 DEF RebuildListenersAndHosts, rebuildHosts
  <2>2. CASE ~(affected /\ startupComplete)
    BY <2>2 DEF RebuildListenersAndHosts, ConfTypeOK
  <2> QED BY <2>1, <2>2
<1>6. changes' = <<listenerChanges>> \/ changes' = <<listenerChanges, hostChanges>>
  BY DEF RebuildListenersAndHosts
<1>7. ChangeListOK(hostChanges) /\ ChangeListOK(listenerChanges)
  BY <1>4, <1>5, SquashOK DEF hostChanges, listenerChanges, ConfTypeOK
<1>8. ChangesOK(changes')
  BY <1>6, <1>7, ChangeSequences, Zenon
<1>9. ConfTypeOK'
  BY <1>4, <1>5, <1>8 DEF ChangesOK, ConfTypeOK, RebuildListenersAndHosts, ReportProblems
<1>10. listenerHosts' = newListenerHosts' /\ listenerProblems' = newListenerProblems'
  BY DEF RebuildListenersAndHosts, rebuildListenerHosts
<1>11. ASSUME startupComplete'
       PROVE  hosts' = newHosts' /\ hostProblems' = newHostProblems'
  <2>1. startupComplete
    BY <1>11 DEF RebuildListenersAndHosts
  <2>2. CASE affected
    BY <2>1, <2>2 DEF RebuildListenersAndHosts, rebuildHosts
  <2>3. CASE ~affected
    <3>1. UNCHANGED <<hosts, hostProblems>>
      BY <2>3 DEF RebuildListenersAndHosts
    <3> QED BY <2>1, <2>3, <3>1, NewHostsUnchanged, NewHostProblemsUnchanged
            DEF RebuiltAfterStartup
  <2> QED BY <2>2, <2>3
<1> QED BY <1>9, <1>10, <1>11 DEF RebuiltAfterStartup

-----------------------------------------------------------------------------
(* The minion index.                                                       *)

\* A minion is listed under one host only, so taking it out where
\* removeMinionFromIndex finds it first takes it out everywhere.
LEMMA RemoveFromIndex ==
  ASSUME StoresTypeOK, MinionIndexConsistent, NEW key
  PROVE  /\ DOMAIN removeMinionFromIndex(key) \subseteq DOMAIN minionsByHost
         /\ \A h \in DOMAIN removeMinionFromIndex(key) :
              /\ removeMinionFromIndex(key)[h] = minionsByHost[h] \ {key}
              /\ removeMinionFromIndex(key)[h] # {}
         /\ \A h \in DOMAIN minionsByHost \ DOMAIN removeMinionFromIndex(key) :
              minionsByHost[h] = {key}
<1>1. CASE ~\E h \in DOMAIN minionsByHost : key \in minionsByHost[h]
  BY <1>1 DEF removeMinionFromIndex, MinionIndexConsistent
<1>2. CASE \E h \in DOMAIN minionsByHost : key \in minionsByHost[h]
  <2> DEFINE h0 == CHOOSE g \in DOMAIN minionsByHost : key \in minionsByHost[g]
  <2>1. h0 \in DOMAIN minionsByHost /\ key \in minionsByHost[h0]
    BY <1>2
  <2>2. \A h \in DOMAIN minionsByHost \ {h0} : key \notin minionsByHost[h]
    <3> SUFFICES ASSUME NEW h \in DOMAIN minionsByHost \ {h0}, key \in minionsByHost[h]
                 PROVE  FALSE
      OBVIOUS
    <3>1. /\ key \in DOMAIN ingresses /\ isMinion(ingresses[key])
          /\ h \in ingresses[key].hosts /\ h0 \in ingresses[key].hosts
      BY <2>1 DEF MinionIndexConsistent
    <3>2. \E g \in Hosts : ingresses[key].hosts = {g}
      BY <3>1, HostsAssumption DEF StoresTypeOK, StoreOf, isMinion
    <3> QED BY <3>1, <3>2
  <2>3. removeMinionFromIndex(key) =
          IF minionsByHost[h0] = {key}
          THEN Without(minionsByHost, h0)
          ELSE Put(minionsByHost, h0, minionsByHost[h0] \ {key})
    BY <1>2 DEF removeMinionFromIndex
  <2> HIDE DEF h0
  <2>4. \A h \in DOMAIN minionsByHost : minionsByHost[h] # {}
    BY DEF MinionIndexConsistent
  <2>5. CASE minionsByHost[h0] = {key}
    BY <2>1, <2>2, <2>3, <2>4, <2>5 DEF Without
  <2>6. CASE minionsByHost[h0] # {key}
    BY <2>1, <2>2, <2>3, <2>4, <2>6 DEF Put
  <2> QED BY <2>5, <2>6
<1> QED BY <1>1, <1>2

ConfInv == ConfTypeOK /\ MinionIndexConsistent /\ RebuiltAfterStartup

\* AddOrUpdateIngress keeps the Configuration consistent: the index of the minions
\* follows the Ingress through changes of role, host and validity.
LEMMA AddOrUpdateIngressOK ==
  ASSUME ConfInv, NEW ing \in Ingresses, AddOrUpdateIngress(ing)
  PROVE  ConfInv'
<1> DEFINE r == removeMinionFromIndex(ing.key)
           added == IF ing.check = "ok" /\ isMinion(ing) THEN ing.hosts ELSE {}
<1>1. /\ StoresTypeOK /\ MinionIndexConsistent /\ StoreOf(ingresses, Ingresses)
      /\ ingresses' = Stored(ingresses, ing)
      /\ minionsByHost' = updateMinionIndex(ing.key, IF ing.check = "ok" THEN {ing} ELSE {})
  BY DEF ConfInv, ConfTypeOK, StoresTypeOK, AddOrUpdateIngress
<1>2. /\ DOMAIN r \subseteq DOMAIN minionsByHost
      /\ \A h \in DOMAIN r : r[h] = minionsByHost[h] \ {ing.key} /\ r[h] # {}
      /\ \A h \in DOMAIN minionsByHost \ DOMAIN r : minionsByHost[h] = {ing.key}
  BY <1>1, RemoveFromIndex
<1>3. minionsByHost' = [h \in DOMAIN r \cup added |->
                          (IF h \in DOMAIN r THEN r[h] ELSE {})
                            \cup (IF h \in added THEN {ing.key} ELSE {})]
  <2>1. UNION {i.hosts : i \in {j \in IF ing.check = "ok" THEN {ing} ELSE {} : isMinion(j)}} = added
    BY DEF isMinion
  <2> QED BY <1>1, <2>1 DEF updateMinionIndex
<1>4. StoreOf(ingresses', Ingresses)
  BY <1>1, StoredOK
<1>5. /\ ing.check = "ok" => /\ DOMAIN ingresses' = DOMAIN ingresses \cup {ing.key}
                            /\ ingresses'[ing.key] = ing
      /\ ing.check # "ok" => DOMAIN ingresses' = DOMAIN ingresses \ {ing.key}
      /\ \A k \in DOMAIN ingresses' \ {ing.key} : k \in DOMAIN ingresses /\ ingresses'[k] = ingresses[k]
  BY <1>1 DEF Stored, Put, Without
<1>6. added \subseteq Hosts
  BY HostsAssumption
<1>7. /\ DOMAIN minionsByHost' \subseteq Hosts
      /\ \A h \in DOMAIN minionsByHost' : minionsByHost'[h] \subseteq Keys(Ingresses)
  <2>1. /\ DOMAIN minionsByHost \subseteq Hosts
        /\ \A h \in DOMAIN minionsByHost : minionsByHost[h] \subseteq Keys(Ingresses)
    BY <1>1 DEF StoresTypeOK
  <2>2. ing.key \in Keys(Ingresses)
    BY DEF Keys
  <2> HIDE DEF r, added
  <2> QED BY <1>2, <1>3, <1>6, <2>1, <2>2
<1>8. StoresTypeOK'
  BY <1>1, <1>4, <1>7 DEF StoresTypeOK, AddOrUpdateIngress
<1>9. MinionIndexConsistent'
  <2>1. \A h \in DOMAIN minionsByHost' :
          /\ minionsByHost'[h] # {}
          /\ \A k \in minionsByHost'[h] :
               k \in DOMAIN ingresses' /\ isMinion(ingresses'[k]) /\ h \in ingresses'[k].hosts
    <3> SUFFICES ASSUME NEW h \in DOMAIN minionsByHost'
                 PROVE  /\ minionsByHost'[h] # {}
                        /\ \A k \in minionsByHost'[h] :
                             /\ k \in DOMAIN ingresses' /\ isMinion(ingresses'[k])
                             /\ h \in ingresses'[k].hosts
      OBVIOUS
    <3>1. minionsByHost'[h] # {}
      BY <1>2, <1>3
    <3>2. ASSUME NEW k \in minionsByHost'[h], k # ing.key
          PROVE  k \in DOMAIN ingresses' /\ isMinion(ingresses'[k]) /\ h \in ingresses'[k].hosts
      <4>1. h \in DOMAIN minionsByHost /\ k \in minionsByHost[h]
        BY <1>2, <1>3, <3>2
      <4>2. k \in DOMAIN ingresses /\ isMinion(ingresses[k]) /\ h \in ingresses[k].hosts
        BY <1>1, <4>1 DEF MinionIndexConsistent
      <4>3. k \in DOMAIN ingresses'
        BY <1>5, <3>2, <4>2
      <4> QED BY <1>5, <3>2, <4>2, <4>3
    <3>3. ASSUME ing.key \in minionsByHost'[h]
          PROVE  /\ ing.key \in DOMAIN ingresses' /\ isMinion(ingresses'[ing.key])
                 /\ h \in ingresses'[ing.key].hosts
      <4>1. h \in added
        BY <1>2, <1>3, <3>3
      <4> QED BY <1>5, <4>1
    <3> QED BY <3>1, <3>2, <3>3
  <2>2. ASSUME NEW k \in DOMAIN ingresses', isMinion(ingresses'[k]), NEW h \in ingresses'[k].hosts
        PROVE  h \in DOMAIN minionsByHost' /\ k \in minionsByHost'[h]
    <3>1. CASE k = ing.key
      <4>1. h \in added
        BY <1>5, <2>2, <3>1
      <4> QED BY <1>3, <3>1, <4>1
    <3>2. CASE k # ing.key
      <4>1. h \in DOMAIN minionsByHost /\ k \in minionsByHost[h]
        BY <1>1, <1>5, <2>2, <3>2 DEF MinionIndexConsistent
      <4>2. h \in DOMAIN r /\ k \in r[h]
        BY <1>2, <3>2, <4>1
      <4> QED BY <1>3, <4>2
    <3> QED BY <3>1, <3>2
  <2> QED BY <2>1, <2>2 DEF MinionIndexConsistent, isMinion
<1> QED BY <1>8, <1>9, RebuildAfterStartupOK DEF ConfInv, AddOrUpdateIngress

-----------------------------------------------------------------------------
(* The other operations preserve ConfInv.                                   *)

\* A step that leaves the stores and the maps alone.
LEMMA ConfUnchanged ==
  ASSUME ConfInv, UNCHANGED <<stores, built, startupComplete>>, ChangesOK(changes'),
         \A k \in DOMAIN problems' : problems'[k] \in {"Warning", "Invalid"}
  PROVE  ConfInv'
<1>1. StoresTypeOK'
  BY DEF ConfInv, ConfTypeOK, StoresTypeOK, stores
<1>2. ConfTypeOK'
  BY <1>1 DEF ConfInv, ConfTypeOK, ChangesOK, built
<1>3. MinionIndexConsistent'
  BY DEF ConfInv, MinionIndexConsistent, stores, isMinion
<1>4. RebuiltAfterStartup'
  BY StoresUnchanged, NewHostsUnchanged, NewHostProblemsUnchanged,
     NewListenerHostsUnchanged, NewListenerProblemsUnchanged
  DEF ConfInv, RebuiltAfterStartup, stores, built
<1> QED BY <1>2, <1>3, <1>4 DEF ConfInv

\* The early return of the Delete operations keeps the Configuration consistent.
LEMMA NothingToDeleteOK ==
  ASSUME ConfInv, NothingToDelete
  PROVE  ConfInv'
<1>1. ChangesOK(changes') /\ DOMAIN problems' = {}
  BY ChangeSequences DEF NothingToDelete, EmptyMap
<1> QED BY <1>1, ConfUnchanged DEF NothingToDelete

\* DeleteIngress keeps the Configuration consistent, the minion index included.
LEMMA DeleteIngressOK ==
  ASSUME ConfInv, NEW key, DeleteIngress(key)
  PROVE  ConfInv'
<1>1. CASE key \notin DOMAIN ingresses
  BY <1>1, NothingToDeleteOK DEF DeleteIngress
<1>2. CASE key \in DOMAIN ingresses
  <2> DEFINE r == removeMinionFromIndex(key)
  <2>1. /\ StoresTypeOK /\ MinionIndexConsistent /\ StoreOf(ingresses, Ingresses)
        /\ ingresses' = Without(ingresses, key) /\ minionsByHost' = r
        /\ UNCHANGED <<virtualServers, virtualServerRoutes, transportServers,
                       globalConfiguration>>
        /\ RebuildAfterStartup({})
    BY <1>2 DEF ConfInv, ConfTypeOK, StoresTypeOK, DeleteIngress
  <2>2. /\ DOMAIN r \subseteq DOMAIN minionsByHost
        /\ \A h \in DOMAIN r : r[h] = minionsByHost[h] \ {key} /\ r[h] # {}
        /\ \A h \in DOMAIN minionsByHost \ DOMAIN r : minionsByHost[h] = {key}
    BY <2>1, RemoveFromIndex
  <2> HIDE DEF r
  <2>3. StoresTypeOK'
    <3>1. StoreOf(ingresses', Ingresses)
      BY <2>1, WithoutOK
    <3>2. /\ DOMAIN minionsByHost' \subseteq Hosts
          /\ \A h \in DOMAIN minionsByHost' : minionsByHost'[h] \subseteq Keys(Ingresses)
      BY <2>1, <2>2 DEF StoresTypeOK
    <3> QED BY <2>1, <3>1, <3>2 DEF StoresTypeOK
  <2>4. MinionIndexConsistent'
    <3>1. /\ DOMAIN ingresses' = DOMAIN ingresses \ {key}
          /\ \A k \in DOMAIN ingresses' : ingresses'[k] = ingresses[k]
      BY <2>1 DEF Without
    <3> QED BY <2>1, <2>2, <3>1, SMTT(20) DEF MinionIndexConsistent, isMinion
  <2> QED BY <2>1, <2>3, <2>4, RebuildAfterStartupOK DEF ConfInv
<1> QED BY <1>1, <1>2

\* The index does not depend on the other kinds.
LEMMA IndexUnchanged ==
  ASSUME ConfInv, UNCHANGED <<ingresses, minionsByHost>>
  PROVE  MinionIndexConsistent'
BY DEF ConfInv, MinionIndexConsistent, isMinion

\* AddOrUpdateVirtualServer and DeleteVirtualServer keep the Configuration
\* consistent.
LEMMA VirtualServerOK ==
  ASSUME ConfInv, NEW vs \in VirtualServers,
         AddOrUpdateVirtualServer(vs) \/ DeleteVirtualServer(vs.key)
  PROVE  ConfInv'
<1>1. StoreOf(virtualServers, VirtualServers)
  BY DEF ConfInv, ConfTypeOK, StoresTypeOK
<1>2. CASE AddOrUpdateVirtualServer(vs)
  <2>1. StoreOf(virtualServers', VirtualServers)
    BY <1>1, <1>2, StoredOK DEF AddOrUpdateVirtualServer
  <2>2. StoresTypeOK'
    BY <1>2, <2>1 DEF ConfInv, ConfTypeOK, StoresTypeOK, AddOrUpdateVirtualServer
  <2> QED BY <1>2, <2>2, IndexUnchanged, RebuildAfterStartupOK DEF ConfInv, AddOrUpdateVirtualServer
<1>3. CASE DeleteVirtualServer(vs.key) /\ vs.key \in DOMAIN virtualServers
  <2>1. StoreOf(virtualServers', VirtualServers)
    BY <1>1, <1>3, WithoutOK DEF DeleteVirtualServer
  <2>2. StoresTypeOK'
    BY <1>3, <2>1 DEF ConfInv, ConfTypeOK, StoresTypeOK, DeleteVirtualServer
  <2> QED BY <1>3, <2>2, IndexUnchanged, RebuildAfterStartupOK DEF ConfInv, DeleteVirtualServer
<1>4. CASE DeleteVirtualServer(vs.key) /\ vs.key \notin DOMAIN virtualServers
  BY <1>4, NothingToDeleteOK DEF DeleteVirtualServer
<1> QED BY <1>2, <1>3, <1>4

\* AddOrUpdateVirtualServerRoute and DeleteVirtualServerRoute keep the
\* Configuration consistent.
LEMMA VirtualServerRouteOK ==
  ASSUME ConfInv, NEW vsr \in VirtualServerRoutes,
         AddOrUpdateVirtualServerRoute(vsr) \/ DeleteVirtualServerRoute(vsr.key)
  PROVE  ConfInv'
<1>1. StoreOf(virtualServerRoutes, VirtualServerRoutes)
  BY DEF ConfInv, ConfTypeOK, StoresTypeOK
<1>2. CASE AddOrUpdateVirtualServerRoute(vsr)
  <2>1. StoreOf(virtualServerRoutes', VirtualServerRoutes)
    BY <1>1, <1>2, StoredOK DEF AddOrUpdateVirtualServerRoute
  <2>2. StoresTypeOK'
    BY <1>2, <2>1 DEF ConfInv, ConfTypeOK, StoresTypeOK, AddOrUpdateVirtualServerRoute
  <2> QED BY <1>2, <2>2, IndexUnchanged, RebuildAfterStartupOK
          DEF ConfInv, AddOrUpdateVirtualServerRoute
<1>3. CASE DeleteVirtualServerRoute(vsr.key) /\ vsr.key \in DOMAIN virtualServerRoutes
  <2>1. StoreOf(virtualServerRoutes', VirtualServerRoutes)
    BY <1>1, <1>3, WithoutOK DEF DeleteVirtualServerRoute
  <2>2. StoresTypeOK'
    BY <1>3, <2>1 DEF ConfInv, ConfTypeOK, StoresTypeOK, DeleteVirtualServerRoute
  <2> QED BY <1>3, <2>2, IndexUnchanged, RebuildAfterStartupOK DEF ConfInv, DeleteVirtualServerRoute
<1>4. CASE DeleteVirtualServerRoute(vsr.key) /\ vsr.key \notin DOMAIN virtualServerRoutes
  BY <1>4, NothingToDeleteOK DEF DeleteVirtualServerRoute
<1> QED BY <1>2, <1>3, <1>4

\* Without TLS passthrough no TransportServer claims a host, which is why the hosts
\* need no rebuild then.
LEMMA TransportServerOK ==
  ASSUME ConfInv, NEW ts \in TransportServers,
         AddOrUpdateTransportServer(ts) \/ DeleteTransportServer(ts.key)
  PROVE  ConfInv'
<1>1. StoreOf(transportServers, TransportServers)
  BY DEF ConfInv, ConfTypeOK, StoresTypeOK
<1>2. ~isTLSPassthroughEnabled =>
        HostTransportServers' = HostTransportServers
  BY DEF HostTransportServers
<1>3. CASE AddOrUpdateTransportServer(ts)
  <2>1. StoreOf(transportServers', TransportServers)
    BY <1>1, <1>3, StoredOK DEF AddOrUpdateTransportServer
  <2>2. StoresTypeOK'
    BY <1>3, <2>1 DEF ConfInv, ConfTypeOK, StoresTypeOK, AddOrUpdateTransportServer
  <2>3. ~isTLSPassthroughEnabled => HostInputsUnchanged
    BY <1>2, <1>3 DEF HostInputsUnchanged, AddOrUpdateTransportServer
  <2> QED BY <1>3, <2>2, <2>3, IndexUnchanged, RebuildListenersAndHostsOK, FlagsAssumption
          DEF ConfInv, AddOrUpdateTransportServer
<1>4. CASE DeleteTransportServer(ts.key) /\ ts.key \in DOMAIN transportServers
  <2>1. StoreOf(transportServers', TransportServers)
    BY <1>1, <1>4, WithoutOK DEF DeleteTransportServer
  <2>2. StoresTypeOK'
    BY <1>4, <2>1 DEF ConfInv, ConfTypeOK, StoresTypeOK, DeleteTransportServer
  <2>3. ~isTLSPassthroughEnabled => HostInputsUnchanged
    BY <1>2, <1>4 DEF HostInputsUnchanged, DeleteTransportServer
  <2> QED BY <1>4, <2>2, <2>3, IndexUnchanged, RebuildListenersAndHostsOK, FlagsAssumption
          DEF ConfInv, DeleteTransportServer
<1>5. CASE DeleteTransportServer(ts.key) /\ ts.key \notin DOMAIN transportServers
  BY <1>5, NothingToDeleteOK DEF DeleteTransportServer
<1> QED BY <1>3, <1>4, <1>5

\* AddOrUpdateGlobalConfiguration and DeleteGlobalConfiguration rebuild both maps
\* and so keep the Configuration consistent.
LEMMA GlobalConfigurationOK ==
  ASSUME ConfInv,
         \/ \E gc \in GlobalConfigurations : AddOrUpdateGlobalConfiguration(gc)
         \/ DeleteGlobalConfiguration
  PROVE  ConfInv'
<1>1. /\ globalConfiguration' \in GlobalConfigurations \cup {EmptyMap}
      /\ UNCHANGED <<ingresses, minionsByHost, virtualServers, virtualServerRoutes,
                     transportServers>>
      /\ RebuildListenersAndHosts(TRUE, {})
  BY DEF AddOrUpdateGlobalConfiguration, DeleteGlobalConfiguration
<1>2. StoresTypeOK'
  BY <1>1 DEF ConfInv, ConfTypeOK, StoresTypeOK
<1> QED BY <1>1, <1>2, IndexUnchanged, RebuildListenersAndHostsOK DEF ConfInv

\* CompleteStartup builds both maps from the stores filled during startup.
LEMMA CompleteStartupOK ==
  ASSUME ConfInv, CompleteStartup
  PROVE  ConfInv'
<1>1. StoresTypeOK'
  BY DEF ConfInv, ConfTypeOK, StoresTypeOK, CompleteStartup, stores
<1>2. (StoresTypeOK => /\ DOMAIN newHosts = ClaimedHosts
                      /\ Keys(Values(newHosts)) \subseteq Keys(AllObjects))'
  BY NewHostsOK, PTL
<1>3. /\ DOMAIN hosts' \subseteq Hosts
      /\ Keys(Values(hosts')) \subseteq Keys(AllObjects)
  BY <1>1, <1>2 DEF CompleteStartup, rebuildHosts, ClaimedHosts
<1>4. ChangeListOK(hostChanges)
  BY <1>3, SquashOK DEF hostChanges, ConfInv, ConfTypeOK
<1>5. ChangesOK(changes')
  BY <1>4, ChangeSequences, Zenon DEF CompleteStartup
<1>6. ConfTypeOK'
  BY <1>1, <1>3, <1>5 DEF ConfInv, ConfTypeOK, ChangesOK, CompleteStartup, ReportProblems
<1>7. RebuiltAfterStartup'
  BY NewListenerHostsUnchanged, NewListenerProblemsUnchanged
  DEF ConfInv, RebuiltAfterStartup, CompleteStartup, rebuildHosts, stores
<1> QED BY <1>6, <1>7, IndexUnchanged DEF ConfInv, CompleteStartup, stores

-----------------------------------------------------------------------------
(* Active or refused.                                                      *)

\* Each object of a store is of one kind, under its own key.
LEMMA StoredKinds ==
  StoresTypeOK =>
    /\ \A o \in Values(ingresses) : o.key \in DOMAIN ingresses /\ ingresses[o.key] = o /\ o \in Ingresses
    /\ \A o \in Values(virtualServers) :
         o.key \in DOMAIN virtualServers /\ virtualServers[o.key] = o /\ o \in VirtualServers
    /\ \A o \in Values(virtualServerRoutes) :
         o.key \in DOMAIN virtualServerRoutes /\ virtualServerRoutes[o.key] = o
         /\ o \in VirtualServerRoutes
    /\ \A o \in Values(transportServers) :
         o.key \in DOMAIN transportServers /\ transportServers[o.key] = o /\ o \in TransportServers
    /\ DOMAIN ingresses \cap DOMAIN virtualServers = {}
    /\ DOMAIN ingresses \cap DOMAIN virtualServerRoutes = {}
    /\ DOMAIN ingresses \cap DOMAIN transportServers = {}
    /\ DOMAIN virtualServers \cap DOMAIN virtualServerRoutes = {}
    /\ DOMAIN virtualServers \cap DOMAIN transportServers = {}
    /\ DOMAIN virtualServerRoutes \cap DOMAIN transportServers = {}
<1>1. ASSUME NEW store, NEW objects, StoreOf(store, objects)
      PROVE  \A o \in Values(store) : o.key \in DOMAIN store /\ store[o.key] = o /\ o \in objects
  BY <1>1 DEF StoreOf, Values
<1>2. ASSUME NEW s, NEW S, StoreOf(s, S), NEW t, NEW T, StoreOf(t, T), Keys(S) \cap Keys(T) = {}
      PROVE  DOMAIN s \cap DOMAIN t = {}
  BY <1>2 DEF StoreOf
<1>3. StoresTypeOK =>
        /\ StoreOf(ingresses, Ingresses) /\ StoreOf(virtualServers, VirtualServers)
        /\ StoreOf(virtualServerRoutes, VirtualServerRoutes)
        /\ StoreOf(transportServers, TransportServers)
  BY DEF StoresTypeOK
<1>4. StoresTypeOK =>
        /\ DOMAIN ingresses \cap DOMAIN virtualServers = {}
        /\ DOMAIN ingresses \cap DOMAIN virtualServerRoutes = {}
        /\ DOMAIN ingresses \cap DOMAIN transportServers = {}
        /\ DOMAIN virtualServers \cap DOMAIN virtualServerRoutes = {}
        /\ DOMAIN virtualServers \cap DOMAIN transportServers = {}
        /\ DOMAIN virtualServerRoutes \cap DOMAIN transportServers = {}
  BY <1>2, <1>3, KindsAssumption
<1> QED BY <1>1, <1>3, <1>4

\* What the resource of a host says about its owner.
LEMMA OwnerResource ==
  StoresTypeOK =>
    \A h \in ClaimedHosts :
      LET w == Winner(Claimants(h))
          r == newHosts[h]
      IN /\ r.key = w.key
         /\ \/ /\ w \in HostIngresses /\ h \in w.hosts
               /\ r.kind = w.role /\ r.children = Keys(buildMinionConfigs(w))
            \/ /\ w \in Values(virtualServers) /\ h = w.host
               /\ r.kind = "VirtualServer" /\ r.children = Keys(buildVirtualServerRoutes(w))
            \/ /\ w \in HostTransportServers /\ h = w.host
               /\ r.kind = "TransportServer" /\ r.children = {}
<1> SUFFICES ASSUME StoresTypeOK, NEW h \in ClaimedHosts
             PROVE  LET w == Winner(Claimants(h))
                        r == newHosts[h]
                    IN /\ r.key = w.key
                       /\ \/ /\ w \in HostIngresses /\ h \in w.hosts
                             /\ r.kind = w.role /\ r.children = Keys(buildMinionConfigs(w))
                          \/ /\ w \in Values(virtualServers) /\ h = w.host
                             /\ r.kind = "VirtualServer"
                             /\ r.children = Keys(buildVirtualServerRoutes(w))
                          \/ /\ w \in HostTransportServers /\ h = w.host
                             /\ r.kind = "TransportServer" /\ r.children = {}
  OBVIOUS
<1> DEFINE w == Winner(Claimants(h))
           r == newHosts[h]
<1>1. w \in Claimants(h)
  BY OwnerWins DEF ClaimedHosts
<1>2. r = HostResource(w)
  BY DEF newHosts
<1> HIDE DEF w, r
<1>3. CASE w \in HostIngresses /\ h \in w.hosts
  <2>1. r = IngressConfiguration(w)
    BY <1>2, <1>3 DEF HostResource, HostIngresses
  <2>2. r.key = w.key /\ r.kind = w.role /\ r.children = Keys(buildMinionConfigs(w))
    BY <2>1 DEF IngressConfiguration, NewIngressConfiguration, Keys
  <2> QED BY <1>3, <2>2 DEF w, r
<1>4. CASE w \in Values(virtualServers) /\ h = w.host
  <2>1. w \notin Values(ingresses)
    BY <1>4, StoredKinds
  <2>2. r = VirtualServerConfiguration(w)
    BY <1>2, <1>4, <2>1 DEF HostResource
  <2>3. /\ r.key = w.key /\ r.kind = "VirtualServer"
        /\ r.children = Keys(buildVirtualServerRoutes(w))
    BY <2>2 DEF VirtualServerConfiguration, Keys
  <2> QED BY <1>4, <2>3 DEF w, r
<1>5. CASE w \in HostTransportServers /\ h = w.host
  <2>1. w \in Values(transportServers)
    BY <1>5 DEF HostTransportServers
  <2>2. w \notin Values(ingresses) /\ w \notin Values(virtualServers)
    BY <2>1, StoredKinds
  <2>3. r = PassthroughConfiguration(w)
    BY <1>2, <2>2 DEF HostResource
  <2>4. r.key = w.key /\ r.kind = "TransportServer" /\ r.children = {}
    BY <2>3 DEF PassthroughConfiguration, TransportServerConfiguration
  <2> QED BY <1>5, <2>4 DEF w, r
<1> QED BY <1>1, <1>3, <1>4, <1>5 DEF Claimants

\* The minions of a host are the stored minions with that host, and no other.
LEMMA MinionsOfHost ==
  StoresTypeOK /\ MinionIndexConsistent =>
    /\ \A h : \A m \in MinionsOf(h) : m \in Values(ingresses) /\ isMinion(m) /\ m.hosts = {h}
    /\ \A m \in Values(ingresses) : isMinion(m) =>
         \E h \in DOMAIN minionsByHost : m.hosts = {h} /\ m \in MinionsOf(h)
<1> SUFFICES ASSUME StoresTypeOK, MinionIndexConsistent
             PROVE  /\ \A h : \A m \in MinionsOf(h) :
                         m \in Values(ingresses) /\ isMinion(m) /\ m.hosts = {h}
                    /\ \A m \in Values(ingresses) : isMinion(m) =>
                         \E h \in DOMAIN minionsByHost : m.hosts = {h} /\ m \in MinionsOf(h)
  OBVIOUS
<1>1. \A m \in Values(ingresses) : isMinion(m) => \E h \in Hosts : m.hosts = {h}
  BY HostsAssumption, SMTT(20) DEF StoresTypeOK, StoreOf, Values, isMinion
<1>2. ASSUME NEW h, NEW m \in MinionsOf(h)
      PROVE  m \in Values(ingresses) /\ isMinion(m) /\ m.hosts = {h}
  <2>1. PICK k \in DOMAIN ingresses :
          h \in DOMAIN minionsByHost /\ k \in minionsByHost[h] /\ m = ingresses[k]
    BY <1>2 DEF MinionsOf
  <2>2. isMinion(m) /\ h \in m.hosts /\ m \in Values(ingresses)
    BY <2>1 DEF MinionIndexConsistent, Values
  <2> QED BY <1>1, <2>2
<1>3. ASSUME NEW m \in Values(ingresses), isMinion(m)
      PROVE  \E h \in DOMAIN minionsByHost : m.hosts = {h} /\ m \in MinionsOf(h)
  <2>1. PICK h \in Hosts : m.hosts = {h}
    BY <1>1, <1>3
  <2>2. m.key \in DOMAIN ingresses /\ m = ingresses[m.key]
    BY StoredKinds
  <2>3. h \in DOMAIN minionsByHost /\ m.key \in minionsByHost[h]
    BY <1>3, <2>1, <2>2 DEF MinionIndexConsistent
  <2> QED BY <2>1, <2>2, <2>3 DEF MinionsOf
<1> QED BY <1>2, <1>3

\* How each kind of object is part of the configuration of a host.
IngressActive(ing) == ing \in HostIngresses /\ \E h \in ing.hosts : hosts[h].key = ing.key
MinionActive(m) ==
  m \in Values(ingresses) /\ isMinion(m) /\ \E h \in Hosts : m.hosts = {h} /\ hasMaster(h)
VirtualServerActive(vs) == vs \in Values(virtualServers) /\ hosts[vs.host].key = vs.key
RouteActive(vsr) ==
  /\ vsr \in Values(virtualServerRoutes)
  /\ hasVirtualServer(vsr) /\ vsr.key \in hosts[vsr.host].children
PassthroughActive(ts) == ts \in HostTransportServers /\ hosts[ts.host].key = ts.key

HostActiveKeys == WithChildren(Values(hosts))

\* The keys that GetResources finds in the host map are those of the active objects.
LEMMA HostActive ==
  ASSUME StoresTypeOK, MinionIndexConsistent, hosts = newHosts
  PROVE  \A k : k \in HostActiveKeys <=>
           \E o : o.key = k /\ (\/ IngressActive(o) \/ MinionActive(o) \/ VirtualServerActive(o)
                                \/ RouteActive(o) \/ PassthroughActive(o))
<1> DEFINE W(h) == Winner(Claimants(h))
<1>1. /\ DOMAIN hosts = ClaimedHosts /\ ClaimedHosts \subseteq Hosts
      /\ \A h \in ClaimedHosts : W(h) \in Claimants(h)
  BY NewHostsOK, OwnerWins DEF ClaimedHosts
<1>2. \A h \in ClaimedHosts :
        /\ hosts[h].key = W(h).key
        /\ \/ /\ W(h) \in HostIngresses /\ h \in W(h).hosts
              /\ hosts[h].kind = W(h).role /\ hosts[h].children = Keys(buildMinionConfigs(W(h)))
           \/ /\ W(h) \in Values(virtualServers) /\ h = W(h).host
              /\ hosts[h].kind = "VirtualServer"
              /\ hosts[h].children = Keys(buildVirtualServerRoutes(W(h)))
           \/ /\ W(h) \in HostTransportServers /\ h = W(h).host
              /\ hosts[h].kind = "TransportServer" /\ hosts[h].children = {}
  BY OwnerResource
<1> HIDE DEF W
<1>3. \A ing \in HostIngresses : ing \in Values(ingresses) /\ ing \in Ingresses /\ ~isMinion(ing)
  BY StoredKinds DEF HostIngresses
<1>4. \A vs \in Values(virtualServers) : vs.host \in ClaimedHosts
  BY StoredKinds, HostsAssumption DEF ClaimedHosts, Claimants
<1>5. \A ts \in HostTransportServers : ts.host \in ClaimedHosts
  BY StoredKinds, HostsAssumption DEF ClaimedHosts, Claimants, HostTransportServers
<1>6. \A ing \in HostIngresses : ing.hosts \subseteq ClaimedHosts
  BY <1>3, HostsAssumption DEF ClaimedHosts, Claimants
<1>7. ASSUME NEW h \in ClaimedHosts, hosts[h].kind = "master"
      PROVE  /\ W(h) \in HostIngresses /\ W(h).hosts = {h}
             /\ hosts[h].children = Keys(MinionsOf(h))
  <2>1. W(h) \in HostIngresses /\ isMaster(W(h)) /\ h \in W(h).hosts
    BY <1>2, <1>7 DEF isMaster
  <2>2. W(h).hosts = {h}
    <3>1. W(h) \in Ingresses /\ W(h).check = "ok"
      <4>1. W(h) \in Values(ingresses) /\ StoreOf(ingresses, Ingresses)
        BY <1>3, <2>1 DEF StoresTypeOK
      <4> QED BY <4>1 DEF StoreOf, Values
    <3> QED BY <2>1, <3>1, HostsAssumption DEF isMaster
  <2>3. buildMinionConfigs(W(h)) = MinionsOf(h)
    BY <2>1, <2>2 DEF buildMinionConfigs
  <2>4. hosts[h].children = Keys(buildMinionConfigs(W(h)))
    BY <1>2, <1>7, <2>1, StoredKinds DEF HostIngresses, HostTransportServers
  <2> QED BY <2>1, <2>2, <2>3, <2>4
<1>8. ASSUME NEW h \in ClaimedHosts, hosts[h].kind = "VirtualServer"
      PROVE  /\ W(h) \in Values(virtualServers) /\ h = W(h).host
             /\ hosts[h].children = Keys(buildVirtualServerRoutes(W(h)))
  BY <1>2, <1>3, <1>8, RolesAssumption
<1>9. ASSUME NEW h \in ClaimedHosts, NEW k \in {hosts[h].key} \cup hosts[h].children
      PROVE  \E o : o.key = k /\ (\/ IngressActive(o) \/ MinionActive(o) \/ VirtualServerActive(o)
                                  \/ RouteActive(o) \/ PassthroughActive(o))
  <2>1. CASE k = hosts[h].key
    <3>1. W(h).key = k /\ hosts[h].key = W(h).key
      BY <1>2, <2>1
    <3>2. CASE W(h) \in HostIngresses /\ h \in W(h).hosts
      <4>1. IngressActive(W(h))
        BY <3>1, <3>2 DEF IngressActive
      <4> QED BY <3>1, <4>1
    <3>3. CASE W(h) \in Values(virtualServers) /\ h = W(h).host
      <4>1. VirtualServerActive(W(h))
        BY <3>1, <3>3 DEF VirtualServerActive
      <4> QED BY <3>1, <4>1
    <3>4. CASE W(h) \in HostTransportServers /\ h = W(h).host
      <4>1. PassthroughActive(W(h))
        BY <3>1, <3>4 DEF PassthroughActive
      <4> QED BY <3>1, <4>1
    <3> QED BY <1>2, <3>2, <3>3, <3>4
  <2>2. CASE k \in hosts[h].children /\ hosts[h].kind = "VirtualServer"
    <3>1. PICK o \in buildVirtualServerRoutes(W(h)) : o.key = k
      <4>1. k \in Keys(buildVirtualServerRoutes(W(h)))
        BY <1>8, <2>2
      <4> QED BY <4>1 DEF Keys
    <3>2. o \in Values(virtualServerRoutes) /\ o.host = h
      BY <1>8, <2>2, <3>1 DEF buildVirtualServerRoutes, Values
    <3> QED BY <1>1, <2>2, <3>1, <3>2 DEF RouteActive, hasVirtualServer
  <2>3. CASE k \in hosts[h].children /\ hosts[h].kind # "VirtualServer"
    <3>1. W(h) \in HostIngresses /\ hosts[h].kind = W(h).role
          /\ hosts[h].children = Keys(buildMinionConfigs(W(h)))
      BY <1>2, <2>3
    <3>2. hosts[h].kind = "master"
      BY <2>3, <3>1 DEF buildMinionConfigs, isMaster, Keys
    <3>3. PICK o \in MinionsOf(h) : o.key = k
      BY <1>7, <2>3, <3>2, SMTT(20) DEF Keys
    <3> QED BY <1>1, <3>2, <3>3, MinionsOfHost DEF MinionActive, hasMaster
  <2> QED BY <1>9, <2>1, <2>2, <2>3
<1>10. ASSUME NEW o, \/ IngressActive(o) \/ MinionActive(o) \/ VirtualServerActive(o)
                    \/ RouteActive(o) \/ PassthroughActive(o)
       PROVE  \E h \in ClaimedHosts : o.key \in {hosts[h].key} \cup hosts[h].children
  <2>1. CASE IngressActive(o)
    BY <1>6, <2>1 DEF IngressActive
  <2>2. CASE VirtualServerActive(o) \/ PassthroughActive(o)
    BY <1>4, <1>5, <2>2 DEF VirtualServerActive, PassthroughActive
  <2>3. CASE RouteActive(o)
    BY <1>1, <2>3 DEF RouteActive, hasVirtualServer
  <2>4. CASE MinionActive(o)
    <3>1. PICK h \in Hosts : o.hosts = {h} /\ hasMaster(h)
      BY <2>4 DEF MinionActive
    <3>2. o \in MinionsOf(h)
      BY <2>4, <3>1, MinionsOfHost DEF MinionActive
    <3> QED BY <1>1, <1>7, <3>1, <3>2, SMTT(20) DEF hasMaster, Keys
  <2> QED BY <1>10, <2>1, <2>2, <2>3, <2>4
<1> QED BY <1>1, <1>9, <1>10, SMTT(20) DEF HostActiveKeys, WithChildren, Values

IngressRefused(ing) == ing \in HostIngresses /\ \A h \in ing.hosts : hosts[h].key # ing.key
MinionRefused(m) ==
  m \in Values(ingresses) /\ isMinion(m) /\ \E h \in Hosts : m.hosts = {h} /\ ~hasMaster(h)
VirtualServerRefused(vs) == vs \in Values(virtualServers) /\ hosts[vs.host].key # vs.key
RouteRefused(vsr) ==
  /\ vsr \in Values(virtualServerRoutes)
  /\ ~(hasVirtualServer(vsr) /\ vsr.key \in hosts[vsr.host].children)
PassthroughRefused(ts) == ts \in HostTransportServers /\ hosts[ts.host].key # ts.key

\* The keys with a problem of the last rebuildHosts are those of the other objects.
LEMMA HostRefused ==
  ASSUME StoresTypeOK, MinionIndexConsistent
  PROVE  \A k : k \in DOMAIN newHostProblems <=>
           \E o : o.key = k /\ (\/ IngressRefused(o) \/ MinionRefused(o) \/ VirtualServerRefused(o)
                                \/ RouteRefused(o) \/ PassthroughRefused(o))
<1>1. \A o : o \in WithoutActiveHost <=>
             IngressRefused(o) \/ VirtualServerRefused(o) \/ PassthroughRefused(o)
  BY DEF WithoutActiveHost, IngressRefused, VirtualServerRefused, PassthroughRefused
<1>2. \A o : o \in OrphanVsrs \cup IgnoredVsrs <=> RouteRefused(o)
  BY DEF OrphanVsrs, IgnoredVsrs, RouteRefused
<1>3. \A o : o \in OrphanMinions <=> MinionRefused(o)
  <2>1. DOMAIN minionsByHost \subseteq Hosts
    BY DEF StoresTypeOK
  <2>2. ASSUME NEW o \in OrphanMinions
        PROVE  MinionRefused(o)
    <3>1. PICK h \in DOMAIN minionsByHost : ~hasMaster(h) /\ o \in MinionsOf(h)
      BY <2>2 DEF OrphanMinions
    <3> QED BY <2>1, <3>1, MinionsOfHost DEF MinionRefused
  <2>3. ASSUME NEW o, MinionRefused(o)
        PROVE  o \in OrphanMinions
    <3>1. PICK h \in DOMAIN minionsByHost : o.hosts = {h} /\ o \in MinionsOf(h)
      BY <2>3, MinionsOfHost DEF MinionRefused
    <3>2. ~hasMaster(h)
      BY <2>3, <3>1 DEF MinionRefused
    <3> QED BY <3>1, <3>2 DEF OrphanMinions
  <2> QED BY <2>2, <2>3
<1>4. DOMAIN newHostProblems =
        Keys(WithoutActiveHost \cup OrphanMinions \cup OrphanVsrs \cup IgnoredVsrs)
  BY DEF newHostProblems
<1> QED BY <1>1, <1>2, <1>3, <1>4 DEF Keys

\* A TransportServer of a listener is in the listener map or has a problem.
LEMMA ListenerActiveOrRefused ==
  ASSUME StoresTypeOK, listenerHosts = newListenerHosts
  PROVE  /\ \A lh \in DOMAIN listenerHosts :
              /\ listenerHosts[lh].children = {}
              /\ \E ts \in ListenerTransportServers :
                   listenerHosts[lh].key = ts.key /\ lh = listenerHostKey(ts)
         /\ \A k : k \in DOMAIN newListenerProblems <=>
              \E ts \in ListenerTransportServers :
                /\ ts.key = k
                /\ ~(/\ listenerHostKey(ts) \in DOMAIN listenerHosts
                     /\ listenerHosts[listenerHostKey(ts)].key = ts.key)
<1>1. ASSUME NEW lh \in DOMAIN listenerHosts
      PROVE  /\ listenerHosts[lh].children = {}
             /\ \E ts \in ListenerTransportServers :
                   listenerHosts[lh].key = ts.key /\ lh = listenerHostKey(ts)
  <2>1. ListenerClaimants(lh) # {}
    BY DEF newListenerHosts, ListenerClaimants
  <2>2. \A o \in ListenerClaimants(lh) : o.created \in Nat /\ o.uid \in 0..MaxUID
    BY ListenerClaimantsOK, MetadataAssumption DEF AllObjects
  <2>3. Winner(ListenerClaimants(lh)) \in ListenerClaimants(lh)
    BY <2>1, <2>2, ListenerClaimantsOK, WinnerWins
  <2>4. /\ listenerHosts[lh].key = Winner(ListenerClaimants(lh)).key
        /\ listenerHosts[lh].children = {}
    BY DEF newListenerHosts, TransportServerConfiguration
  <2> QED BY <2>3, <2>4 DEF ListenerClaimants
<1>2. DOMAIN newListenerProblems =
        Keys({ts \in ListenerTransportServers :
                ~(/\ listenerHostKey(ts) \in DOMAIN listenerHosts
                  /\ listenerHosts[listenerHostKey(ts)].key = ts.key)})
  BY DEF newListenerProblems, Keys
<1> QED BY <1>1, <1>2 DEF Keys

\* The maps and the problems of a rebuild answer for every stored object.
LEMMA ActiveOrRefused ==
  ConfInv => ActiveXorProblem
<1> SUFFICES ASSUME ConfInv, startupComplete
             PROVE  ActiveXorProblem
  BY DEF ActiveXorProblem
<1> DEFINE activeL == WithChildren(Values(listenerHosts))
           Active(o) == \/ IngressActive(o) \/ MinionActive(o) \/ VirtualServerActive(o)
                        \/ RouteActive(o) \/ PassthroughActive(o)
           Refused(o) == \/ IngressRefused(o) \/ MinionRefused(o) \/ VirtualServerRefused(o)
                         \/ RouteRefused(o) \/ PassthroughRefused(o)
           Listened(ts) == /\ listenerHostKey(ts) \in DOMAIN listenerHosts
                           /\ listenerHosts[listenerHostKey(ts)].key = ts.key
<1>1. /\ StoresTypeOK /\ MinionIndexConsistent
      /\ hosts = newHosts /\ hostProblems = newHostProblems
      /\ listenerHosts = newListenerHosts /\ listenerProblems = newListenerProblems
  BY DEF ConfInv, ConfTypeOK, RebuiltAfterStartup
<1>2. \A k : k \in HostActiveKeys <=> \E o : o.key = k /\ Active(o)
  BY <1>1, HostActive
<1>3. \A k : k \in DOMAIN hostProblems <=> \E o : o.key = k /\ Refused(o)
  BY <1>1, HostRefused
<1>4. \A k : k \in activeL <=> \E ts \in ListenerTransportServers : ts.key = k /\ Listened(ts)
  BY <1>1, ListenerActiveOrRefused, SMTT(20) DEF WithChildren, Values
<1>5. \A k : k \in DOMAIN listenerProblems <=>
             \E ts \in ListenerTransportServers : ts.key = k /\ ~Listened(ts)
  BY <1>1, ListenerActiveOrRefused
<1>6. WithChildren(Values(hosts) \cup Values(listenerHosts))
        = HostActiveKeys \cup activeL
  BY DEF HostActiveKeys, WithChildren
<1> HIDE DEF activeL
\* An object that is active or refused is a stored one, of one kind and role.
<1>7. \A o : IngressActive(o) \/ IngressRefused(o) =>
             o.key \in DOMAIN ingresses /\ ingresses[o.key] = o /\ ~isMinion(o)
  BY <1>1, StoredKinds DEF IngressActive, IngressRefused, HostIngresses
<1>8. \A o : MinionActive(o) \/ MinionRefused(o) =>
             o.key \in DOMAIN ingresses /\ ingresses[o.key] = o /\ isMinion(o)
  BY <1>1, StoredKinds DEF MinionActive, MinionRefused
<1>9. \A o : VirtualServerActive(o) \/ VirtualServerRefused(o) =>
             o.key \in DOMAIN virtualServers /\ virtualServers[o.key] = o
  BY <1>1, StoredKinds DEF VirtualServerActive, VirtualServerRefused
<1>10. \A o : RouteActive(o) \/ RouteRefused(o) =>
             o.key \in DOMAIN virtualServerRoutes /\ virtualServerRoutes[o.key] = o
  BY <1>1, StoredKinds DEF RouteActive, RouteRefused
<1>11. \A o : PassthroughActive(o) \/ PassthroughRefused(o) =>
             o.key \in DOMAIN transportServers /\ transportServers[o.key] = o /\ isTLSPassthrough(o)
  BY <1>1, StoredKinds DEF PassthroughActive, PassthroughRefused, HostTransportServers
<1>12. \A o \in ListenerTransportServers :
         o.key \in DOMAIN transportServers /\ transportServers[o.key] = o /\ ~isTLSPassthrough(o)
  <2>1. \A o \in ListenerTransportServers :
          /\ o \in Values(transportServers) /\ o.protocol # TLSPassthroughListenerProtocol
    BY DEF ListenerTransportServers
  <2>2. \A o \in Values(transportServers) :
          /\ o.key \in DOMAIN transportServers /\ transportServers[o.key] = o
          /\ o \in TransportServers
    BY <1>1, StoredKinds
  <2>3. \A o \in Values(transportServers) : o.check = "ok"
    BY <1>1, SMTT(20) DEF StoresTypeOK, StoreOf, Values
  <2> QED BY <2>1, <2>2, <2>3, TransportServersAssumption
<1>13. \A o : /\ ~(IngressActive(o) /\ IngressRefused(o))
              /\ ~(MinionActive(o) /\ MinionRefused(o))
              /\ ~(VirtualServerActive(o) /\ VirtualServerRefused(o))
              /\ ~(RouteActive(o) /\ RouteRefused(o))
              /\ ~(PassthroughActive(o) /\ PassthroughRefused(o))
  BY DEF IngressActive, IngressRefused, MinionActive, MinionRefused, VirtualServerActive,
         VirtualServerRefused, RouteActive, RouteRefused, PassthroughActive, PassthroughRefused
<1>14. \A k : /\ ~(k \in DOMAIN ingresses /\ k \in DOMAIN virtualServers)
              /\ ~(k \in DOMAIN ingresses /\ k \in DOMAIN virtualServerRoutes)
              /\ ~(k \in DOMAIN ingresses /\ k \in DOMAIN transportServers)
              /\ ~(k \in DOMAIN virtualServers /\ k \in DOMAIN virtualServerRoutes)
              /\ ~(k \in DOMAIN virtualServers /\ k \in DOMAIN transportServers)
              /\ ~(k \in DOMAIN virtualServerRoutes /\ k \in DOMAIN transportServers)
  BY <1>1, StoredKinds
<1>15. ASSUME NEW o, NEW p, Active(o), Refused(p), o.key = p.key
       PROVE  FALSE
  <2>1. CASE IngressActive(o) \/ MinionActive(o)
    <3>1. o.key \in DOMAIN ingresses /\ ingresses[o.key] = o
      BY <1>7, <1>8, <2>1
    <3>2. IngressRefused(p) \/ MinionRefused(p)
      BY <1>9, <1>10, <1>11, <1>14, <1>15, <3>1
    <3>3. p = o
      BY <1>7, <1>8, <1>15, <3>1, <3>2
    <3> QED BY <1>7, <1>8, <1>13, <2>1, <3>2, <3>3
  <2>2. CASE VirtualServerActive(o)
    <3>1. o.key \in DOMAIN virtualServers /\ virtualServers[o.key] = o
      BY <1>9, <2>2
    <3>2. VirtualServerRefused(p)
      BY <1>7, <1>8, <1>10, <1>11, <1>14, <1>15, <3>1
    <3>3. p = o
      BY <1>9, <1>15, <3>1, <3>2
    <3> QED BY <1>13, <2>2, <3>2, <3>3
  <2>3. CASE RouteActive(o)
    <3>1. o.key \in DOMAIN virtualServerRoutes /\ virtualServerRoutes[o.key] = o
      BY <1>10, <2>3
    <3>2. RouteRefused(p)
      BY <1>7, <1>8, <1>9, <1>11, <1>14, <1>15, <3>1
    <3>3. p = o
      BY <1>10, <1>15, <3>1, <3>2
    <3> QED BY <1>13, <2>3, <3>2, <3>3
  <2>4. CASE PassthroughActive(o)
    <3>1. o.key \in DOMAIN transportServers /\ transportServers[o.key] = o
      BY <1>11, <2>4
    <3>2. PassthroughRefused(p)
      BY <1>7, <1>8, <1>9, <1>10, <1>14, <1>15, <3>1
    <3>3. p = o
      BY <1>11, <1>15, <3>1, <3>2
    <3> QED BY <1>13, <2>4, <3>2, <3>3
  <2> QED BY <1>15, <2>1, <2>2, <2>3, <2>4
<1>16. ASSUME NEW o, NEW p \in ListenerTransportServers, Active(o) \/ Refused(o)
       PROVE  o.key # p.key
  <2>1. CASE IngressActive(o) \/ IngressRefused(o) \/ MinionActive(o) \/ MinionRefused(o)
    BY <1>7, <1>8, <1>12, <1>14, <2>1
  <2>2. CASE VirtualServerActive(o) \/ VirtualServerRefused(o)
    BY <1>9, <1>12, <1>14, <2>2
  <2>3. CASE RouteActive(o) \/ RouteRefused(o)
    BY <1>10, <1>12, <1>14, <2>3
  <2>4. CASE PassthroughActive(o) \/ PassthroughRefused(o)
    BY <1>11, <1>12, <2>4
  <2> QED BY <1>16, <2>1, <2>2, <2>3, <2>4
<1>17. \A o, p \in ListenerTransportServers : Listened(o) /\ ~Listened(p) => o.key # p.key
  BY <1>12
<1> HIDE DEF Active, Refused, Listened
<1>18. (HostActiveKeys \cup activeL) \cap (DOMAIN hostProblems \cup DOMAIN listenerProblems) = {}
  <2> SUFFICES ASSUME NEW k \in HostActiveKeys \cup activeL,
                      k \in DOMAIN hostProblems \cup DOMAIN listenerProblems
               PROVE  FALSE
    OBVIOUS
  <2>1. CASE k \in HostActiveKeys /\ k \in DOMAIN hostProblems
    BY <1>2, <1>3, <1>15, <2>1
  <2>2. CASE k \in HostActiveKeys /\ k \in DOMAIN listenerProblems
    BY <1>2, <1>5, <1>16, <2>2
  <2>3. CASE k \in activeL /\ k \in DOMAIN hostProblems
    BY <1>3, <1>4, <1>16, <2>3
  <2>4. CASE k \in activeL /\ k \in DOMAIN listenerProblems
    BY <1>4, <1>5, <1>17, <2>4
  <2> QED BY <2>1, <2>2, <2>3, <2>4
<1> USE DEF Active, Refused
<1>19. ASSUME NEW k \in DOMAIN ingresses, ~convertedToVSR(ingresses[k])
       PROVE  k \in HostActiveKeys \cup DOMAIN hostProblems
  <2> DEFINE o == ingresses[k]
  <2>1. o.key = k /\ o \in Values(ingresses)
    BY <1>1 DEF StoresTypeOK, StoreOf, Values
  <2>2. CASE isMinion(o)
    <3>1. \E h \in Hosts : o.hosts = {h}
      BY <1>1, <2>2, HostsAssumption DEF StoresTypeOK, StoreOf, isMinion
    <3>2. MinionActive(o) \/ MinionRefused(o)
      BY <2>1, <2>2, <3>1 DEF MinionActive, MinionRefused
    <3> QED BY <1>2, <1>3, <2>1, <3>2
  <2>3. CASE ~isMinion(o)
    <3>1. IngressActive(o) \/ IngressRefused(o)
      BY <1>19, <2>1, <2>3 DEF IngressActive, IngressRefused, HostIngresses
    <3> QED BY <1>2, <1>3, <2>1, <3>1
  <2> QED BY <2>2, <2>3
<1>20. ASSUME NEW k \in DOMAIN virtualServers \cup DOMAIN virtualServerRoutes
       PROVE  k \in HostActiveKeys \cup DOMAIN hostProblems
  <2>1. CASE k \in DOMAIN virtualServers
    <3>1. virtualServers[k].key = k /\ virtualServers[k] \in Values(virtualServers)
      BY <1>1, <2>1 DEF StoresTypeOK, StoreOf, Values
    <3>2. VirtualServerActive(virtualServers[k]) \/ VirtualServerRefused(virtualServers[k])
      BY <3>1 DEF VirtualServerActive, VirtualServerRefused
    <3> QED BY <1>2, <1>3, <3>1, <3>2
  <2>2. CASE k \in DOMAIN virtualServerRoutes
    <3>1. virtualServerRoutes[k].key = k /\ virtualServerRoutes[k] \in Values(virtualServerRoutes)
      BY <1>1, <2>2 DEF StoresTypeOK, StoreOf, Values
    <3>2. RouteActive(virtualServerRoutes[k]) \/ RouteRefused(virtualServerRoutes[k])
      BY <3>1 DEF RouteActive, RouteRefused
    <3> QED BY <1>2, <1>3, <3>1, <3>2
  <2> QED BY <1>20, <2>1, <2>2
<1>21. ASSUME NEW k \in DOMAIN transportServers
       PROVE  k \in HostActiveKeys \cup DOMAIN hostProblems \cup activeL \cup DOMAIN listenerProblems
  <2> DEFINE o == transportServers[k]
  <2>1. o.key = k /\ o \in Values(transportServers) /\ o \in TransportServers /\ o.check = "ok"
    BY <1>1 DEF StoresTypeOK, StoreOf, Values
  <2>2. CASE o.protocol # TLSPassthroughListenerProtocol
    BY <1>4, <1>5, <2>1, <2>2 DEF ListenerTransportServers
  <2>3. CASE o.protocol = TLSPassthroughListenerProtocol
    <3>1. o \in HostTransportServers
      BY <2>1, <2>3, TransportServersAssumption DEF HostTransportServers, isTLSPassthrough
    <3>2. PassthroughActive(o) \/ PassthroughRefused(o)
      BY <3>1 DEF PassthroughActive, PassthroughRefused
    <3> QED BY <1>2, <1>3, <2>1, <3>2
  <2> QED BY <2>2, <2>3
<1> QED BY <1>6, <1>18, <1>19, <1>20, <1>21 DEF ActiveXorProblem


-----------------------------------------------------------------------------
(* The changes are complete.                                               *)

\* A host map, or a listener map: one resource per key, which holds what the map gives it.
WellHeld(m) ==
  /\ \A g, h \in DOMAIN m : m[g].key = m[h].key => m[g] = m[h]
  /\ \A h \in DOMAIN m : m[h].holds = {g \in DOMAIN m : m[g].key = m[h].key}

\* What squashResourceChanges returns turns the configs of the old map into those of the new
\* one: it updates resources of the new map only, it deletes exactly the resources that have
\* left the map altogether, and what it passes over is equal before and after by IsEqual.  A
\* resource that lost one of its hosts is never passed over, because IsEqual compares the
\* hosts that a resource holds.
LEMMA SquashComplete ==
  ASSUME NEW old, NEW new, WellHeld(old), WellHeld(new)
  PROVE  LET c == squashResourceChanges(old, new)
         IN /\ c.moves \cup c.updates \subseteq Values(new)
            /\ c.deletes = Keys(Values(old)) \ Keys(Values(new))
            /\ \A r \in Values(new) \ (c.moves \cup c.updates) :
                 \E h \in DOMAIN old \cap DOMAIN new : r = new[h] /\ IsEqual(old[h], new[h])
<1> DEFINE c == squashResourceChanges(old, new)
           deletes == DeleteChanges(old, new)
           updates == AddOrUpdateChanges(old, new)
<1>1. /\ c.deletes = deletes \ Keys(updates)
      /\ c.moves \cup c.updates = updates
  BY DEF squashResourceChanges
<1>2. updates \subseteq Values(new)
  BY DEF AddOrUpdateChanges, updatedHosts, addedHosts, Values
<1>3. \A r \in Values(new) \ updates :
        \E h \in DOMAIN old \cap DOMAIN new : r = new[h] /\ IsEqual(old[h], new[h])
  BY DEF AddOrUpdateChanges, updatedHosts, addedHosts, Values
<1>4. ASSUME NEW h \in DOMAIN old, old[h].key \notin Keys(Values(new))
      PROVE  old[h].key \in deletes \ Keys(updates)
  <2>1. old[h].key \notin Keys(updates)
    BY <1>2, <1>4 DEF Keys
  <2>2. CASE h \notin DOMAIN new
    BY <2>1, <2>2 DEF DeleteChanges, removedHosts
  <2>3. CASE h \in DOMAIN new
    <3>1. new[h].key # old[h].key
      BY <1>4, <2>3 DEF Keys, Values
    <3>2. ~IsEqual(old[h], new[h])
      BY <3>1 DEF IsEqual
    <3> QED BY <2>1, <2>3, <3>1, <3>2 DEF DeleteChanges, updatedHosts
  <2> QED BY <2>2, <2>3
<1>5. ASSUME NEW h \in DOMAIN old, NEW g \in DOMAIN new,
             h \in DOMAIN new => new[h].key # old[h].key,
             new[g].key = old[h].key
      PROVE  new[g] \in updates
  <2>1. SUFFICES ASSUME g \in DOMAIN old, IsEqual(old[g], new[g])
                 PROVE  FALSE
    BY DEF AddOrUpdateChanges, updatedHosts, addedHosts
  <2>2. h \in old[g].holds
    BY <1>5, <2>1 DEF WellHeld, IsEqual
  <2>3. h \notin new[g].holds
    BY <1>5, SMTT(20) DEF WellHeld
  <2> QED BY <2>1, <2>2, <2>3 DEF IsEqual
<1>6. ASSUME NEW k \in deletes \ Keys(updates)
      PROVE  k \in Keys(Values(old)) \ Keys(Values(new))
  <2>1. PICK h \in DOMAIN old : k = old[h].key /\ (h \in DOMAIN new => new[h].key # old[h].key)
    BY <1>6 DEF DeleteChanges, removedHosts, updatedHosts
  <2>2. \A g \in DOMAIN new : new[g].key # k
    BY <1>5, <1>6, <2>1 DEF Keys
  <2> QED BY <2>1, <2>2 DEF Keys, Values
<1>7. deletes \ Keys(updates) = Keys(Values(old)) \ Keys(Values(new))
  BY <1>4, <1>6, SMTT(20) DEF Keys, Values
<1> QED BY <1>1, <1>2, <1>3, <1>7

\* The resource of a host: its owner's key, and the hosts that the owner wants and wins.
LEMMA HostHeld ==
  StoresTypeOK =>
    \A h \in ClaimedHosts :
      LET w == Winner(Claimants(h))
      IN /\ newHosts[h] = HostResource(w) /\ newHosts[h].key = w.key
         /\ newHosts[h].holds = {g \in ClaimedHosts : Winner(Claimants(g)) = w}
<1> SUFFICES ASSUME StoresTypeOK, NEW h \in ClaimedHosts
             PROVE  LET w == Winner(Claimants(h))
                    IN /\ newHosts[h] = HostResource(w) /\ newHosts[h].key = w.key
                       /\ newHosts[h].holds = {g \in ClaimedHosts : Winner(Claimants(g)) = w}
  OBVIOUS
<1> DEFINE w == Winner(Claimants(h))
           r == newHosts[h]
           Won(g) == Winner(Claimants(g))
<1>1. w \in Claimants(h)
  BY OwnerWins DEF ClaimedHosts
<1>2. r = HostResource(w) /\ r.key = w.key
  BY NewHostsOK DEF newHosts
<1>3. \A g \in ClaimedHosts : Won(g) \in Claimants(g)
  BY OwnerWins DEF ClaimedHosts
<1>4. \A g \in Hosts : w \in Claimants(g) => g \in ClaimedHosts
  BY DEF ClaimedHosts
<1> HIDE DEF w, r, Won
<1>5. CASE w \in HostIngresses /\ h \in w.hosts
  <2>1. r.holds = {g \in w.hosts : Won(g) = w}
    BY <1>2, <1>5 DEF HostResource, HostIngresses, IngressConfiguration, NewIngressConfiguration,
                      validHosts, Won
  <2>2. w \in Values(ingresses) /\ w \in Ingresses
    BY <1>5, StoredKinds DEF HostIngresses
  <2>3. w.hosts \subseteq Hosts
    BY <2>2, HostsAssumption
  <2>4. w \notin Values(virtualServers) /\ w \notin Values(transportServers)
    BY <2>2, StoredKinds
  <2>5. \A g \in Hosts : w \in Claimants(g) <=> g \in w.hosts
    BY <1>5, <2>4 DEF Claimants, HostTransportServers
  <2>6. \A g \in ClaimedHosts : Won(g) = w => g \in w.hosts
    BY <1>3, <2>5 DEF ClaimedHosts
  <2>7. \A g \in w.hosts : g \in ClaimedHosts
    BY <1>4, <2>3, <2>5
  <2>8. r.holds = {g \in ClaimedHosts : Won(g) = w}
    BY <2>1, <2>6, <2>7
  <2> QED BY <1>2, <2>8 DEF w, r, Won
<1>6. CASE w \in Values(virtualServers) /\ h = w.host
  <2>1. w \notin Values(ingresses) /\ w \notin Values(transportServers)
    BY <1>6, StoredKinds
  <2>2. r.holds = {g \in {w.host} : Won(g) = w}
    BY <1>2, <1>6, <2>1 DEF HostResource, VirtualServerConfiguration, validHosts, Won
  <2>3. \A g : w \in Claimants(g) => g = w.host
    BY <2>1 DEF Claimants, HostTransportServers, HostIngresses
  <2>4. r.holds = {g \in ClaimedHosts : Won(g) = w}
    BY <1>3, <1>6, <2>2, <2>3
  <2> QED BY <1>2, <2>4 DEF w, r, Won
<1>7. CASE w \in HostTransportServers /\ h = w.host
  <2>1. w \in Values(transportServers)
    BY <1>7 DEF HostTransportServers
  <2>2. w \notin Values(ingresses) /\ w \notin Values(virtualServers)
    BY <2>1, StoredKinds
  <2>3. r.holds = {g \in {w.host} : Won(g) = w}
    BY <1>2, <2>2 DEF HostResource, PassthroughConfiguration, TransportServerConfiguration,
                      validHosts, Won
  <2>4. \A g : w \in Claimants(g) => g = w.host
    BY <2>2 DEF Claimants, HostIngresses
  <2>5. r.holds = {g \in ClaimedHosts : Won(g) = w}
    BY <1>3, <1>7, <2>3, <2>4
  <2> QED BY <1>2, <2>5 DEF w, r, Won
<1> QED BY <1>1, <1>5, <1>6, <1>7 DEF Claimants

\* Two stored objects of one key are one object.
LEMMA StoredOnce ==
  StoresTypeOK =>
    \A o, p \in Values(ingresses) \cup Values(virtualServers) \cup Values(transportServers) :
      o.key = p.key => o = p
BY StoredKinds, SMTT(20)

\* A rebuilt host map has one resource per key, which holds all the hosts it was given.
LEMMA HostsWellHeld == StoresTypeOK => WellHeld(newHosts)
<1> SUFFICES ASSUME StoresTypeOK PROVE WellHeld(newHosts)
  OBVIOUS
<1> DEFINE W(h) == Winner(Claimants(h))
<1>1. /\ DOMAIN newHosts = ClaimedHosts
      /\ \A h \in ClaimedHosts :
           /\ newHosts[h] = HostResource(W(h)) /\ newHosts[h].key = W(h).key
           /\ newHosts[h].holds = {g \in ClaimedHosts : W(g) = W(h)}
  BY NewHostsOK, HostHeld
<1>2. \A h \in ClaimedHosts :
        W(h) \in Values(ingresses) \cup Values(virtualServers) \cup Values(transportServers)
  BY OwnerWins DEF ClaimedHosts, Claimants, HostIngresses, HostTransportServers
<1> HIDE DEF W
<1>3. \A g, h \in ClaimedHosts : newHosts[g].key = newHosts[h].key <=> W(g) = W(h)
  BY <1>1, <1>2, StoredOnce, SMTT(20)
<1> QED BY <1>1, <1>3, SMTT(20) DEF WellHeld

\* So has a rebuilt listener map: a TransportServer names one listener and one host.
LEMMA ListenersWellHeld == StoresTypeOK => WellHeld(newListenerHosts)
<1> SUFFICES ASSUME StoresTypeOK PROVE WellHeld(newListenerHosts)
  OBVIOUS
<1> DEFINE W(lh) == Winner(ListenerClaimants(lh))
           D == DOMAIN newListenerHosts
<1>1. \A lh \in D : ListenerClaimants(lh) # {}
  BY DEF newListenerHosts, ListenerClaimants
<1>2. \A lh \in D : W(lh) \in ListenerClaimants(lh)
  <2>1. \A lh : \A o \in ListenerClaimants(lh) : o.created \in Nat /\ o.uid \in 0..MaxUID
    BY ListenerClaimantsOK, MetadataAssumption DEF AllObjects
  <2> QED BY <1>1, <2>1, ListenerClaimantsOK, WinnerWins
<1>3. \A lh \in D : newListenerHosts[lh].key = W(lh).key /\ newListenerHosts[lh].holds = {lh}
  BY DEF newListenerHosts, TransportServerConfiguration
<1>4. \A lh \in D : W(lh) \in Values(transportServers) /\ listenerHostKey(W(lh)) = lh
  BY <1>2 DEF ListenerClaimants, ListenerTransportServers
<1> HIDE DEF W, D
<1>5. \A g, h \in D : newListenerHosts[g].key = newListenerHosts[h].key => g = h
  BY <1>3, <1>4, StoredOnce, SMTT(20)
<1> QED BY <1>3, <1>5 DEF WellHeld, D

-----------------------------------------------------------------------------
(* The controller.                                                         *)

IInv == TypeOK /\ ConfInv

\* The part of the type invariant that is not about the Configuration.
ControllerTypeOK ==
  /\ DOMAIN cluster \subseteq ObjectKeys
  /\ \A k \in DOMAIN cluster : cluster[k] \in AllObjects /\ cluster[k].key = k
  /\ clusterGC \subseteq GlobalConfigurations
  /\ queue \subseteq ObjectKeys \cup {GlobalConfigurationKey, NamespaceKey}
  /\ phase \in {"idle", "changes", "globalChanges", "unwatchIngresses", "unwatchVirtualServers",
                "unwatchTransportServers", "unwatchRoutes", "unwatched", "tail", "startup",
                "crashed"}
  /\ DOMAIN files \subseteq ObjectKeys
  /\ status \in [ObjectKeys -> {"none", "Applied", "Rejected", "Invalid"}]
  /\ pendingStatus \subseteq ObjectKeys /\ flushing \subseteq ObjectKeys

\* The initial state of the Configuration, before or after startup.
LEMMA ConfInitOK == ConfInit => ConfInv
<1> SUFFICES ASSUME ConfInit PROVE ConfInv
  OBVIOUS
<1>1. \A x : x \notin DOMAIN EmptyMap
  BY DEF EmptyMap
<1>2. Values(EmptyMap) = {}
  BY <1>1 DEF Values
<1>3. StoresTypeOK
  BY <1>1 DEF ConfInit, StoresTypeOK, StoreOf
<1>4. ChangesOK(changes)
  BY ChangeSequences DEF ConfInit
<1>5. ConfTypeOK
  BY <1>1, <1>2, <1>3, <1>4, FlagsAssumption DEF ConfInit, ConfTypeOK, ChangesOK, Keys
<1>6. MinionIndexConsistent
  BY <1>1 DEF ConfInit, MinionIndexConsistent
<1>7. Values(ingresses) = {} /\ Values(virtualServers) = {} /\ Values(transportServers) = {}
      /\ Values(virtualServerRoutes) = {}
  BY <1>2 DEF ConfInit
<1>8. newHosts = EmptyMap /\ newListenerHosts = EmptyMap
  <2>1. HostIngresses = {} /\ HostTransportServers = {} /\ ListenerTransportServers = {}
    BY <1>7 DEF HostIngresses, HostTransportServers, ListenerTransportServers
  <2>2. ClaimedHosts = {}
    BY <1>7, <2>1 DEF ClaimedHosts, Claimants
  <2>3. newHosts = EmptyMap
    BY <2>2 DEF newHosts, EmptyMap
  <2>4. newListenerHosts = EmptyMap
    BY <2>1 DEF newListenerHosts, EmptyMap
  <2> QED BY <2>3, <2>4
<1>9. newHostProblems = EmptyMap /\ newListenerProblems = EmptyMap
  <2>1. HostIngresses = {} /\ HostTransportServers = {} /\ ListenerTransportServers = {}
    BY <1>7 DEF HostIngresses, HostTransportServers, ListenerTransportServers
  <2>2. WithoutActiveHost = {} /\ OrphanVsrs = {} /\ IgnoredVsrs = {}
    BY <1>7, <2>1 DEF WithoutActiveHost, OrphanVsrs, IgnoredVsrs
  <2>3. OrphanMinions = {}
    BY <1>1 DEF ConfInit, OrphanMinions
  <2>4. Keys({}) = {}
    BY DEF Keys
  <2>5. newHostProblems = EmptyMap
    BY <2>2, <2>3, <2>4 DEF newHostProblems, EmptyMap
  <2>6. newListenerProblems = EmptyMap
    BY <2>1, <2>4 DEF newListenerProblems, EmptyMap
  <2> QED BY <2>5, <2>6
<1> QED BY <1>5, <1>6, <1>8, <1>9 DEF ConfInv, RebuiltAfterStartup, ConfInit

\* The worker takes the first change list apart and drops it once it is empty.
LEMMA ChangesConsumed ==
  ASSUME NEW cs, ChangesOK(cs), cs # <<>>
  PROVE  /\ ChangeListOK(cs[1]) /\ Head(cs) = cs[1]
         /\ ChangesOK(Tail(cs))
         /\ \A d : ChangeListOK(d) => ChangesOK([cs EXCEPT ![1] = d])
<1>1. cs \in Seq(Values(cs)) /\ Len(cs) \in Nat /\ Len(cs) >= 1 /\ DOMAIN cs = 1..Len(cs)
  BY DEF ChangesOK
<1>2. ChangeListOK(cs[1]) /\ Head(cs) = cs[1]
  BY <1>1 DEF ChangesOK, Values
<1>3. ChangesOK(Tail(cs))
  <2>1. /\ Len(Tail(cs)) = Len(cs) - 1
        /\ DOMAIN Tail(cs) = 1..(Len(cs) - 1)
        /\ \A i \in 1..(Len(cs) - 1) : Tail(cs)[i] = cs[i + 1]
        /\ Tail(cs) \in Seq(Values(cs))
    BY <1>1
  <2>2. \A c \in Values(Tail(cs)) : ChangeListOK(c)
    <3>1. \A i \in 1..(Len(cs) - 1) : i + 1 \in DOMAIN cs
      BY <1>1
    <3> QED BY <2>1, <3>1 DEF ChangesOK, Values
  <2>3. \A i \in 1..(Len(cs) - 1) : Tail(cs)[i] \in Values(Tail(cs))
    BY <2>1 DEF Values
  <2>4. Tail(cs) \in Seq(Values(Tail(cs)))
    <3> DEFINE t == Tail(cs)
               n == Len(cs) - 1
    <3>1. n \in Nat /\ \A i \in 1..n : t[i] \in Values(t)
      BY <1>1, <2>3
    <3>2. t \in Seq(Values(cs)) /\ Len(t) = n
      BY <2>1
    <3> HIDE DEF t, n
    <3>3. t \in Seq(Values(t))
      BY <3>1, <3>2
    <3> QED BY <3>3 DEF t
  <2> QED BY <2>2, <2>4 DEF ChangesOK
<1>4. ASSUME NEW d, ChangeListOK(d)
      PROVE  ChangesOK([cs EXCEPT ![1] = d])
  <2> DEFINE ds == [cs EXCEPT ![1] = d]
  <2>1. /\ DOMAIN ds = 1..Len(cs)
        /\ ds[1] = d /\ \A i \in 1..Len(cs) : i # 1 => ds[i] = cs[i]
    BY <1>1
  <2>2. \A c \in Values(ds) : ChangeListOK(c)
    BY <1>1, <1>4, <2>1 DEF ChangesOK, Values
  <2>3. ds = [i \in 1..Len(cs) |-> ds[i]] /\ \A i \in 1..Len(cs) : ds[i] \in Values(ds)
    BY <2>1 DEF Values
  <2>4. ds \in Seq(Values(ds))
    <3> HIDE DEF ds
    <3> QED BY <1>1, <2>3
  <2> QED BY <2>2, <2>4 DEF ChangesOK
<1> QED BY <1>2, <1>3, <1>4

\* One loop of the namespace cleanup takes its objects out of the stores and of
\* the index, and rebuilds both maps.
LEMMA CleanupOK ==
  ASSUME ConfInv, NEW listed, cleanupListed(listed)
  PROVE  ConfInv'
<1>1. ASSUME NEW store, NEW objects, StoreOf(store, objects)
      PROVE  StoreOf(WithoutKeys(store, listed), objects)
  BY <1>1 DEF StoreOf, WithoutKeys
<1>2. /\ DOMAIN minionsByHost' = {h \in DOMAIN minionsByHost : ~(minionsByHost[h] \subseteq listed)}
      /\ \A h \in DOMAIN minionsByHost' : minionsByHost'[h] = minionsByHost[h] \ listed
      /\ DOMAIN ingresses' = DOMAIN ingresses \ listed
      /\ \A k \in DOMAIN ingresses' : ingresses'[k] = ingresses[k]
  BY DEF cleanupListed, WithoutKeys
<1>3. StoresTypeOK'
  <2>1. /\ StoreOf(ingresses, Ingresses)'
        /\ StoreOf(virtualServers, VirtualServers)'
        /\ StoreOf(virtualServerRoutes, VirtualServerRoutes)'
        /\ StoreOf(transportServers, TransportServers)'
    BY <1>1 DEF ConfInv, ConfTypeOK, StoresTypeOK, cleanupListed
  <2>2. /\ DOMAIN minionsByHost' \subseteq Hosts
        /\ \A h \in DOMAIN minionsByHost' : minionsByHost'[h] \subseteq Keys(Ingresses)
    BY <1>2 DEF ConfInv, ConfTypeOK, StoresTypeOK
  <2>3. globalConfiguration' \in GlobalConfigurations \cup {EmptyMap}
    BY DEF ConfInv, ConfTypeOK, StoresTypeOK, cleanupListed
  <2> QED BY <2>1, <2>2, <2>3 DEF StoresTypeOK
<1>4. MinionIndexConsistent'
  <2>1. MinionIndexConsistent
    BY DEF ConfInv
  <2>2. \A h \in DOMAIN minionsByHost' :
          /\ minionsByHost'[h] # {}
          /\ \A k \in minionsByHost'[h] :
               k \in DOMAIN ingresses' /\ isMinion(ingresses'[k]) /\ h \in ingresses'[k].hosts
    BY <1>2, <2>1, SMTT(20) DEF MinionIndexConsistent
  <2>3. \A k \in DOMAIN ingresses' : isMinion(ingresses'[k]) =>
          \A h \in ingresses'[k].hosts : h \in DOMAIN minionsByHost' /\ k \in minionsByHost'[h]
    BY <1>2, <2>1 DEF MinionIndexConsistent
  <2> QED BY <2>2, <2>3 DEF MinionIndexConsistent, isMinion
<1>5. (StoresTypeOK => /\ DOMAIN newHosts = ClaimedHosts
                      /\ Keys(Values(newHosts)) \subseteq Keys(AllObjects))'
  BY NewHostsOK, PTL
<1>6. (StoresTypeOK => Keys(Values(newListenerHosts)) \subseteq Keys(AllObjects))'
  BY NewListenerHostsOK, PTL
<1>7. /\ DOMAIN hosts' \subseteq Hosts
      /\ Keys(Values(hosts')) \subseteq Keys(AllObjects)
  <2>1. CASE startupComplete
    BY <1>3, <1>5, <2>1 DEF cleanupListed, rebuildHosts, ClaimedHosts
  <2>2. CASE ~startupComplete
    BY <2>2 DEF cleanupListed, ConfInv, ConfTypeOK
  <2> QED BY <2>1, <2>2
<1>8. Keys(Values(listenerHosts')) \subseteq Keys(AllObjects)
  BY <1>3, <1>6 DEF cleanupListed, rebuildListenerHosts
<1>9. ConfTypeOK'
  BY <1>3, <1>7, <1>8 DEF ConfInv, ConfTypeOK, cleanupListed
<1>10. RebuiltAfterStartup'
  BY DEF RebuiltAfterStartup, cleanupListed, rebuildHosts, rebuildListenerHosts
<1> QED BY <1>4, <1>9, <1>10 DEF ConfInv

\* A key of a kind leads to an object of that kind.
LEMMA ClusterKinds ==
  ASSUME TypeOK, NEW k \in DOMAIN cluster
  PROVE  /\ cluster[k].key = k
         /\ k \in Keys(Ingresses) => cluster[k] \in Ingresses
         /\ k \in Keys(VirtualServers) => cluster[k] \in VirtualServers
         /\ k \in Keys(VirtualServerRoutes) => cluster[k] \in VirtualServerRoutes
         /\ k \in Keys(TransportServers) => cluster[k] \in TransportServers
<1>1. cluster[k] \in AllObjects /\ cluster[k].key = k
  BY DEF TypeOK
<1>2. \A S : cluster[k] \in S => k \in Keys(S)
  BY <1>1 DEF Keys
<1> QED BY <1>1, <1>2, KindsAssumption DEF AllObjects

\* Every step but those of an operation leaves the Configuration alone, but for
\* the changes and problems that the worker takes from it.
LEMMA ConfFrame ==
  ASSUME IInv, UNCHANGED confVars
  PROVE  ConfInv'
<1>1. ChangesOK(changes') /\ UNCHANGED <<stores, built, startupComplete>>
      /\ \A k \in DOMAIN problems' : problems'[k] \in {"Warning", "Invalid"}
  BY DEF IInv, ConfInv, ConfTypeOK, ChangesOK, confVars
<1> QED BY <1>1, ConfUnchanged DEF IInv

\* The operations: the Configuration stays consistent, and the host map is either
\* left alone or rebuilt from the new stores.
LEMMA OperationStep ==
  ASSUME IInv,
         \/ \E k \in Keys(Ingresses) : syncIngress(k)
         \/ \E k \in Keys(VirtualServers) : syncVirtualServer(k)
         \/ \E k \in Keys(VirtualServerRoutes) : syncVirtualServerRoute(k)
         \/ \E k \in Keys(TransportServers) : syncTransportServer(k)
         \/ syncGlobalConfiguration
         \/ cleanupUnwatchedNamespacedResources
         \/ StartupRebuild
  PROVE  ConfInv' /\ (hosts' = hosts \/ hosts' = newHosts')
<1>1. ASSUME NEW k \in Keys(Ingresses), syncIngress(k)
      PROVE  ConfInv' /\ (hosts' = hosts \/ hosts' = newHosts')
  <2>1. CASE k \in DOMAIN cluster
    <3>1. cluster[k] \in Ingresses /\ AddOrUpdateIngress(cluster[k])
      BY <1>1, <2>1, ClusterKinds DEF IInv, syncIngress, Sync
    <3>2. hosts' = hosts \/ hosts' = newHosts'
      BY <3>1 DEF AddOrUpdateIngress, RebuildAfterStartup, rebuildHosts
    <3> QED BY <3>1, <3>2, AddOrUpdateIngressOK DEF IInv
  <2>2. CASE k \notin DOMAIN cluster
    <3>1. DeleteIngress(k)
      BY <1>1, <2>2 DEF syncIngress, Sync
    <3>2. hosts' = hosts \/ hosts' = newHosts'
      BY <3>1 DEF DeleteIngress, RebuildAfterStartup, rebuildHosts, NothingToDelete, built
    <3> QED BY <3>1, <3>2, DeleteIngressOK DEF IInv
  <2> QED BY <2>1, <2>2
<1>2. ASSUME NEW k \in Keys(VirtualServers), syncVirtualServer(k)
      PROVE  ConfInv' /\ (hosts' = hosts \/ hosts' = newHosts')
  <2>1. PICK vs \in VirtualServers : AddOrUpdateVirtualServer(vs) \/ DeleteVirtualServer(vs.key)
    <3>1. CASE k \in DOMAIN cluster
      BY <1>2, <3>1, ClusterKinds DEF IInv, syncVirtualServer, Sync
    <3>2. CASE k \notin DOMAIN cluster
      <4>1. DeleteVirtualServer(k)
        BY <1>2, <3>2 DEF syncVirtualServer, Sync
      <4> QED BY <1>2, <4>1 DEF Keys
    <3> QED BY <3>1, <3>2
  <2>2. hosts' = hosts \/ hosts' = newHosts'
    BY <2>1 DEF AddOrUpdateVirtualServer, DeleteVirtualServer, RebuildAfterStartup, rebuildHosts,
                NothingToDelete, built
  <2> QED BY <2>1, <2>2, VirtualServerOK DEF IInv
<1>3. ASSUME NEW k \in Keys(VirtualServerRoutes), syncVirtualServerRoute(k)
      PROVE  ConfInv' /\ (hosts' = hosts \/ hosts' = newHosts')
  <2>1. PICK vsr \in VirtualServerRoutes :
          AddOrUpdateVirtualServerRoute(vsr) \/ DeleteVirtualServerRoute(vsr.key)
    <3>1. CASE k \in DOMAIN cluster
      BY <1>3, <3>1, ClusterKinds DEF IInv, syncVirtualServerRoute, Sync
    <3>2. CASE k \notin DOMAIN cluster
      <4>1. DeleteVirtualServerRoute(k)
        BY <1>3, <3>2 DEF syncVirtualServerRoute, Sync
      <4> QED BY <1>3, <4>1 DEF Keys
    <3> QED BY <3>1, <3>2
  <2>2. hosts' = hosts \/ hosts' = newHosts'
    BY <2>1 DEF AddOrUpdateVirtualServerRoute, DeleteVirtualServerRoute, RebuildAfterStartup,
                rebuildHosts, NothingToDelete, built
  <2> QED BY <2>1, <2>2, VirtualServerRouteOK DEF IInv
<1>4. ASSUME NEW k \in Keys(TransportServers), syncTransportServer(k)
      PROVE  ConfInv' /\ (hosts' = hosts \/ hosts' = newHosts')
  <2>1. PICK ts \in TransportServers : AddOrUpdateTransportServer(ts) \/ DeleteTransportServer(ts.key)
    <3>1. CASE k \in DOMAIN cluster
      BY <1>4, <3>1, ClusterKinds DEF IInv, syncTransportServer, Sync
    <3>2. CASE k \notin DOMAIN cluster
      <4>1. DeleteTransportServer(k)
        BY <1>4, <3>2 DEF syncTransportServer, Sync
      <4> QED BY <1>4, <4>1 DEF Keys
    <3> QED BY <3>1, <3>2
  <2>2. hosts' = hosts \/ hosts' = newHosts'
    BY <2>1 DEF AddOrUpdateTransportServer, DeleteTransportServer, RebuildListenersAndHosts,
                rebuildHosts, NothingToDelete, built
  <2> QED BY <2>1, <2>2, TransportServerOK DEF IInv
<1>5. ASSUME syncGlobalConfiguration
      PROVE  ConfInv' /\ (hosts' = hosts \/ hosts' = newHosts')
  <2>1. \/ \E gc \in GlobalConfigurations : AddOrUpdateGlobalConfiguration(gc)
        \/ DeleteGlobalConfiguration
    BY <1>5 DEF syncGlobalConfiguration, IInv, TypeOK
  <2>2. hosts' = hosts \/ hosts' = newHosts'
    BY <2>1 DEF AddOrUpdateGlobalConfiguration, DeleteGlobalConfiguration,
                RebuildListenersAndHosts, rebuildHosts
  <2> QED BY <2>1, <2>2, GlobalConfigurationOK DEF IInv
<1>6. ASSUME cleanupUnwatchedNamespacedResources
      PROVE  ConfInv' /\ (hosts' = hosts \/ hosts' = newHosts')
  <2>1. CASE stopInformers
    BY <2>1, ConfFrame DEF stopInformers, confVars, built
  <2>2. CASE \E listed : cleanupListed(listed)
    BY <2>2, CleanupOK DEF IInv, cleanupListed, rebuildHosts
  <2> QED BY <1>6, <2>1, <2>2 DEF cleanupUnwatchedNamespacedResources, cleanupKind
<1>7. ASSUME StartupRebuild
      PROVE  ConfInv' /\ (hosts' = hosts \/ hosts' = newHosts')
  BY <1>7, CompleteStartupOK DEF IInv, StartupRebuild, CompleteStartup, rebuildHosts
<1> QED BY <1>1, <1>2, <1>3, <1>4, <1>5, <1>6, <1>7

\* The worker consumes the changes and the problems, and nothing else.
LEMMA ConsumeStep ==
  ASSUME IInv,
         \/ \E k \in ObjectKeys : processDelete(k)
         \/ \E r : processAddOrUpdate(r)
         \/ NextChangeList
         \/ processChangesFromGlobalConfiguration
         \/ processProblems
         \/ StartupConfigs
  PROVE  ConfInv' /\ hosts' = hosts
<1>1. UNCHANGED <<stores, built, startupComplete>>
  BY DEF processDelete, processAddOrUpdate, NextChangeList,
         processChangesFromGlobalConfiguration, processProblems, StartupConfigs
<1>2. ChangesOK(changes) /\ \A k \in DOMAIN problems : problems[k] \in {"Warning", "Invalid"}
  BY DEF IInv, ConfInv, ConfTypeOK, ChangesOK
<1>3. \A k \in DOMAIN problems' : problems'[k] \in {"Warning", "Invalid"}
  <2>1. problems' = problems \/ problems' = EmptyMap
    BY DEF processDelete, processAddOrUpdate, NextChangeList,
           processChangesFromGlobalConfiguration, processProblems, StartupConfigs
  <2> QED BY <1>2, <2>1 DEF EmptyMap
<1>4. ChangesOK(changes')
  <2>1. CASE \E k \in ObjectKeys : processDelete(k)
    <3>1. PICK k \in ObjectKeys : processDelete(k)
      BY <2>1
    <3> DEFINE d == [changes[1] EXCEPT !.deletes = @ \ {k}]
    <3>2. changes # <<>> /\ changes' = [changes EXCEPT ![1] = d]
      BY <3>1 DEF processDelete
    <3>3. ChangeListOK(changes[1])
      BY <1>2, <3>2, ChangesConsumed
    <3>4. ChangeListOK(d)
      BY <3>3, SMTT(20) DEF ChangeListOK
    <3> HIDE DEF d
    <3> QED BY <1>2, <3>2, <3>4, ChangesConsumed
  <2>2. CASE \E r : processAddOrUpdate(r)
    <3>1. PICK r : processAddOrUpdate(r)
      BY <2>2
    <3> DEFINE d == Processed(changes[1], r)
    <3>2. changes # <<>> /\ changes' = [changes EXCEPT ![1] = d]
      BY <3>1 DEF processAddOrUpdate
    <3>3. ChangeListOK(changes[1])
      BY <1>2, <3>2, ChangesConsumed
    <3>4. ChangeListOK(d)
      BY <3>3 DEF ChangeListOK, Processed, Keys
    <3> HIDE DEF d
    <3> QED BY <1>2, <3>2, <3>4, ChangesConsumed
  <2>3. CASE NextChangeList
    BY <1>2, <2>3, ChangesConsumed DEF NextChangeList
  <2>4. CASE processProblems
    BY <1>2, <2>4 DEF processProblems
  <2>5. CASE processChangesFromGlobalConfiguration \/ StartupConfigs
    BY <2>5, ChangeSequences DEF processChangesFromGlobalConfiguration, StartupConfigs
  <2> QED BY <2>1, <2>2, <2>3, <2>4, <2>5
<1> QED BY <1>1, <1>3, <1>4, ConfUnchanged DEF IInv, built

\* Every step.
LEMMA ConfStep ==
  ASSUME IInv, [Next]_vars
  PROVE  ConfInv' /\ (hosts' = hosts \/ hosts' = newHosts')
<1>1. CASE UNCHANGED confVars
  BY <1>1, ConfFrame DEF confVars, built
<1>2. CASE \/ \E k \in Keys(Ingresses) : syncIngress(k)
           \/ \E k \in Keys(VirtualServers) : syncVirtualServer(k)
           \/ \E k \in Keys(VirtualServerRoutes) : syncVirtualServerRoute(k)
           \/ \E k \in Keys(TransportServers) : syncTransportServer(k)
           \/ syncGlobalConfiguration
           \/ cleanupUnwatchedNamespacedResources
           \/ StartupRebuild
  BY <1>2, OperationStep
<1>3. CASE \/ \E k \in ObjectKeys : processDelete(k)
           \/ \E r : processAddOrUpdate(r)
           \/ NextChangeList
           \/ processChangesFromGlobalConfiguration
           \/ processProblems
           \/ StartupConfigs
  BY <1>3, ConsumeStep
<1>4. CASE ClusterNext
  <2>1. UNCHANGED confVars
    BY <1>4 DEF ClusterNext, Create, Update, Remove, ChangeGlobalConfiguration,
                ChangeNamespaceLabel
  <2> QED BY <1>1, <2>1
<1>5. CASE \/ \E k \in NamespaceKeys : syncUnwatched(k)
           \/ WatchNamespace \/ UnwatchNamespace \/ EndSync \/ FlushNext
  <2>1. UNCHANGED confVars
    BY <1>5 DEF syncUnwatched, WatchNamespace, UnwatchNamespace, EndSync, FlushNext,
                runStatusFlush
  <2> QED BY <1>1, <2>1
<1>6. CASE UNCHANGED vars
  BY <1>1, <1>6 DEF vars
<1> QED BY <1>2, <1>3, <1>4, <1>5, <1>6 DEF Next, WorkerNext

-----------------------------------------------------------------------------
(* The other variables.                                                    *)

\* Applied resources and their children have deferred or written statuses of
\* known objects only.
LEMMA ReportAppliedOK ==
  ASSUME ControllerTypeOK, NEW resources, ReportApplied(resources)
  PROVE  /\ status' \in [ObjectKeys -> {"none", "Applied", "Rejected", "Invalid"}]
         /\ pendingStatus' \subseteq ObjectKeys /\ flushing' \subseteq ObjectKeys
<1> DEFINE applied == WithChildren(resources) \cap ObjectKeys
<1>1. applied \subseteq ObjectKeys
  OBVIOUS
<1>2. IF isNginxReady
      THEN WriteStatus(applied, "Applied") /\ UNCHANGED <<pendingStatus, flushing>>
      ELSE pendingStatus' = pendingStatus \cup applied /\ UNCHANGED <<status, flushing>>
  BY DEF ReportApplied
<1> HIDE DEF applied
<1> QED BY <1>1, <1>2 DEF ControllerTypeOK, WriteStatus

\* The keys of a change list are keys of objects.
LEMMA ChangeKeys ==
  ASSUME IInv, NEW i \in DOMAIN changes
  PROVE  /\ changes[i].deletes \subseteq ObjectKeys
         /\ Keys(changes[i].moves) \subseteq ObjectKeys
         /\ Keys(changes[i].updates) \subseteq ObjectKeys
BY SMTT(20) DEF IInv, ConfInv, ConfTypeOK, ChangeListOK, Values, ObjectKeys

\* Every step of the controller keeps its variables of their types.
LEMMA ControllerTypeStep ==
  ASSUME IInv, ControllerTypeOK, [Next]_vars
  PROVE  ControllerTypeOK'
<1>1. CASE ClusterNext
  <2>1. ASSUME NEW o \in AllObjects, Create(o) \/ Update(o)
        PROVE  ControllerTypeOK'
    <3>1. o.key \in ObjectKeys
      BY DEF ObjectKeys, Keys
    <3>2. /\ DOMAIN cluster' \subseteq ObjectKeys
          /\ \A k \in DOMAIN cluster' : cluster'[k] \in AllObjects /\ cluster'[k].key = k
      <4>1. cluster' = Put(cluster, o.key, o)
        BY <2>1 DEF Create, Update
      <4>2. /\ DOMAIN cluster \subseteq ObjectKeys
            /\ \A k \in DOMAIN cluster : cluster[k] \in AllObjects /\ cluster[k].key = k
        BY DEF ControllerTypeOK
      <4> QED BY <3>1, <4>1, <4>2 DEF Put
    <3>3. queue' \subseteq ObjectKeys \cup {GlobalConfigurationKey, NamespaceKey}
      <4>1. AddSyncQueue(o.key)
        BY <2>1 DEF Create, Update
      <4>2. queue \subseteq ObjectKeys \cup {GlobalConfigurationKey, NamespaceKey}
        BY DEF ControllerTypeOK
      <4> QED BY <3>1, <4>1, <4>2 DEF AddSyncQueue
    <3>4. status' \in [ObjectKeys -> {"none", "Applied", "Rejected", "Invalid"}]
      BY <2>1, <3>1 DEF Create, Update, statusVars, ControllerTypeOK
    <3> QED BY <2>1, <3>2, <3>3, <3>4 DEF Create, Update, statusVars, ControllerTypeOK
  <2>2. ASSUME NEW k \in ObjectKeys, Remove(k)
        PROVE  ControllerTypeOK'
    BY <2>2 DEF Remove, Without, AddSyncQueue, statusVars, ControllerTypeOK
  <2>3. ASSUME NEW gcs \in {{}} \cup {{gc} : gc \in GlobalConfigurations},
               ChangeGlobalConfiguration(gcs)
        PROVE  ControllerTypeOK'
    BY <2>3 DEF ChangeGlobalConfiguration, AddSyncQueue, statusVars, ControllerTypeOK
  <2>4. CASE ChangeNamespaceLabel
    BY <2>4 DEF ChangeNamespaceLabel, statusVars, ControllerTypeOK
  <2> QED BY <1>1, <2>1, <2>2, <2>3, <2>4 DEF ClusterNext
<1>2. CASE \/ \E k \in Keys(Ingresses) : syncIngress(k)
           \/ \E k \in Keys(VirtualServers) : syncVirtualServer(k)
           \/ \E k \in Keys(VirtualServerRoutes) : syncVirtualServerRoute(k)
           \/ \E k \in Keys(TransportServers) : syncTransportServer(k)
           \/ syncGlobalConfiguration
           \/ \E k \in NamespaceKeys : syncUnwatched(k)
           \/ EndSync
           \/ StartupRebuild
  <2>1. /\ UNCHANGED <<clusterVars, files, statusVars>>
        /\ queue' \subseteq queue
        /\ phase' \in {"changes", "globalChanges", "crashed", "tail", "idle", "startup"}
    BY <1>2 DEF syncIngress, syncVirtualServer, syncVirtualServerRoute, syncTransportServer,
                Sync, syncGlobalConfiguration, syncUnwatched, EndSync, StartupRebuild, Get
  <2> QED BY <2>1 DEF clusterVars, statusVars, ControllerTypeOK
<1>3. CASE WatchNamespace \/ UnwatchNamespace
  BY <1>3 DEF WatchNamespace, UnwatchNamespace, Get, statusVars, ControllerTypeOK
<1>4. CASE cleanupUnwatchedNamespacedResources
  <2>1. CASE stopInformers
    BY <2>1 DEF stopInformers, statusVars, ControllerTypeOK
  <2>2. ASSUME NEW this, NEW objects,
               NEW next \in {"unwatchVirtualServers", "unwatchTransportServers", "unwatchRoutes",
                             "unwatched"},
               cleanupKind(this, objects, next)
        PROVE  ControllerTypeOK'
    <3>1. /\ UNCHANGED <<clusterVars, queue, statusVars>> /\ phase' = next
          /\ \E listed : files' = WithoutKeys(files, listed)
      BY <2>2 DEF cleanupKind, cleanupListed
    <3>2. DOMAIN files' \subseteq ObjectKeys
      BY <3>1 DEF WithoutKeys, ControllerTypeOK
    <3> QED BY <3>1, <3>2 DEF clusterVars, statusVars, ControllerTypeOK
  <2> QED BY <1>4, <2>1, <2>2 DEF cleanupUnwatchedNamespacedResources
<1>5. ASSUME NEW k \in ObjectKeys, processDelete(k)
      PROVE  ControllerTypeOK'
  <2>1. DOMAIN files' \subseteq ObjectKeys
    BY <1>5 DEF processDelete, Without, ControllerTypeOK
  <2>2. status' \in [ObjectKeys -> {"none", "Applied", "Rejected", "Invalid"}]
    BY <1>5 DEF processDelete, WriteStatus, ControllerTypeOK
  <2> QED BY <1>5, <2>1, <2>2 DEF processDelete, clusterVars, ControllerTypeOK
<1>6. ASSUME NEW r, processAddOrUpdate(r)
      PROVE  ControllerTypeOK'
  <2>1. r.key \in ObjectKeys
    <3>1. changes # <<>> /\ ChangesOK(changes)
      BY <1>6 DEF processAddOrUpdate, IInv, ConfInv, ConfTypeOK, ChangesOK
    <3>2. Head(changes) = changes[1] /\ 1 \in DOMAIN changes
      BY <3>1, ChangesConsumed DEF ChangesOK
    <3>3. r \in changes[1].moves \cup changes[1].updates
      BY <1>6, <3>2 DEF processAddOrUpdate, NextUpdates
    <3> QED BY <3>2, <3>3, ChangeKeys DEF Keys
  <2>2. DOMAIN files' \subseteq ObjectKeys
    BY <1>6, <2>1 DEF processAddOrUpdate, Put, ControllerTypeOK
  <2>3. ReportApplied({r})
    BY <1>6 DEF processAddOrUpdate
  <2> QED BY <1>6, <2>2, <2>3, ReportAppliedOK DEF processAddOrUpdate, clusterVars, ControllerTypeOK
<1>7. CASE NextChangeList
  BY <1>7 DEF NextChangeList, clusterVars, statusVars, ControllerTypeOK
<1>8. CASE processChangesFromGlobalConfiguration
  <2>1. Keys(Updated(changes)) \subseteq ObjectKeys
    BY ChangeKeys DEF Keys, Updated
  <2>2. /\ DOMAIN files' \subseteq DOMAIN files \cup Keys(Updated(changes))
        /\ ReportApplied(Updated(changes))
    BY <1>8 DEF processChangesFromGlobalConfiguration
  <2>3. DOMAIN files' \subseteq ObjectKeys
    BY <2>1, <2>2 DEF ControllerTypeOK
  <2>4. UNCHANGED <<clusterVars, queue>> /\ phase' = "changes"
    BY <1>8 DEF processChangesFromGlobalConfiguration
  <2> QED BY <2>2, <2>3, <2>4, ReportAppliedOK DEF clusterVars, ControllerTypeOK
<1>9. CASE processProblems
  BY <1>9 DEF processProblems, ProblemStatus, clusterVars, ControllerTypeOK
<1>10. CASE StartupConfigs
  <2>1. Keys(GetResources) \subseteq ObjectKeys
    BY DEF IInv, ConfInv, ConfTypeOK, GetResources, ObjectKeys, Keys
  <2>2. DOMAIN files' = DOMAIN files \cup Keys(GetResources)
    BY <1>10 DEF StartupConfigs
  <2>3. status' \in [ObjectKeys -> {"none", "Applied", "Rejected", "Invalid"}]
    BY <1>10 DEF StartupConfigs, ProblemStatus, ControllerTypeOK
  <2>4. flushing' \subseteq ObjectKeys /\ pendingStatus' \subseteq ObjectKeys
    <3> DEFINE reported == WithChildren(GetResources) \cap ObjectKeys
    <3>1. flushing' = pendingStatus \cup reported /\ pendingStatus' = {}
      BY <1>10 DEF StartupConfigs
    <3>2. reported \subseteq ObjectKeys
      OBVIOUS
    <3> HIDE DEF reported
    <3> QED BY <3>1, <3>2 DEF ControllerTypeOK
  <2>5. UNCHANGED <<clusterVars, queue>> /\ phase' = "idle"
    BY <1>10 DEF StartupConfigs
  <2> QED BY <2>1, <2>2, <2>3, <2>4, <2>5 DEF clusterVars, ControllerTypeOK
<1>11. CASE FlushNext
  BY <1>11 DEF FlushNext, runStatusFlush, WriteStatus, clusterVars, ControllerTypeOK
<1>12. CASE UNCHANGED vars
  BY <1>12 DEF vars, clusterVars, statusVars, ControllerTypeOK
<1> QED BY <1>1, <1>2, <1>3, <1>4, <1>5, <1>6, <1>7, <1>8, <1>9, <1>10, <1>11, <1>12
        DEF Next, WorkerNext

-----------------------------------------------------------------------------
(* The theorems.                                                           *)

\* The controller starts with an empty, consistent Configuration.
LEMMA Initially == Init => IInv
<1> SUFFICES ASSUME Init PROVE IInv
  OBVIOUS
<1>1. ConfInv
  BY ConfInitOK DEF Init
<1>2. \A x : x \notin DOMAIN EmptyMap
  BY DEF EmptyMap
<1>3. TypeOK
  BY <1>1, <1>2 DEF Init, TypeOK, ConfInv
<1> QED BY <1>1, <1>3 DEF IInv

\* Every step of a user, of the worker and of the flush keeps the Configuration
\* consistent and the controller's variables well typed.
LEMMA Inductive == IInv /\ [Next]_vars => IInv'
<1> SUFFICES ASSUME IInv, [Next]_vars PROVE IInv'
  OBVIOUS
<1>1. ConfInv'
  BY ConfStep
<1>2. ControllerTypeOK
  BY DEF IInv, TypeOK, ControllerTypeOK
<1>3. ControllerTypeOK'
  BY <1>2, ControllerTypeStep
<1>4. TypeOK'
  BY <1>1, <1>3 DEF TypeOK, ControllerTypeOK, ConfInv
<1> QED BY <1>1, <1>4 DEF IInv

\* The inductive invariant: types, the minion index, and maps that are the rebuild
\* of the stores once startup is complete.
THEOREM Invariance == Spec => []IInv
BY Initially, Inductive, PTL DEF Spec

\* Type correctness of the controller and of its Configuration.
THEOREM TypeCorrect == Spec => []TypeOK
<1>1. IInv => TypeOK
  BY DEF IInv
<1> QED BY <1>1, Invariance, PTL

\* The index of the minions agrees with the stored Ingresses, whatever the order
\* of the Ingress events and of the namespace cleanup.
THEOREM MinionIndex == Spec => []MinionIndexConsistent
<1>1. IInv => MinionIndexConsistent
  BY DEF IInv, ConfInv
<1> QED BY <1>1, Invariance, PTL

\* No operation of the Configuration leaves a stale host, listener or problem.
THEOREM AlwaysRebuilt == Spec => []RebuiltAfterStartup
<1>1. IInv => RebuiltAfterStartup
  BY DEF IInv, ConfInv
<1> QED BY <1>1, Invariance, PTL

\* Every stored object is active or has a problem, and never both.
THEOREM NobodyUnanswered == Spec => []ActiveXorProblem
<1>1. IInv => ActiveXorProblem
  BY ActiveOrRefused DEF IInv
<1> QED BY <1>1, Invariance, PTL

\* A rebuild gives a host to the claimant that wins against all the others.
HostsGoToWinners ==
  /\ DOMAIN newHosts = ClaimedHosts
  /\ \A h \in ClaimedHosts :
       /\ Winner(Claimants(h)) \in Claimants(h)
       /\ newHosts[h].key = Winner(Claimants(h)).key
       /\ \A p \in Claimants(h) \ {Winner(Claimants(h))} :
            chooseObjectMetaWinner(Winner(Claimants(h)), p)

\* After a rebuild every host belongs to the claimant that wins against the others.
LEMMA RebuiltHostsGoToWinners == StoresTypeOK => HostsGoToWinners
BY NewHostsOK, OwnerWins DEF HostsGoToWinners, ClaimedHosts

\* A host is only ever lost to an older object, or given up.
THEOREM HostsGoToOlder == Spec => HostTakenOnlyByOlder
<1>1. ASSUME IInv, [Next]_vars
      PROVE  [\A h \in DOMAIN hosts \cap DOMAIN hosts' :
                hosts'[h].key # hosts[h].key =>
                  \A o \in Claimants(h)' :
                    o.key = hosts[h].key =>
                      \E p \in Claimants(h)' :
                        p.key = hosts'[h].key /\ chooseObjectMetaWinner(p, o)]_confVars
  <2>1. ConfInv' /\ (hosts' = hosts \/ hosts' = newHosts')
    BY <1>1, ConfStep
  <2>2. StoresTypeOK'
    BY <2>1 DEF ConfInv, ConfTypeOK
  <2>3. (StoresTypeOK => HostsGoToWinners)'
    BY RebuiltHostsGoToWinners, PTL
  <2> SUFFICES ASSUME hosts' = newHosts',
                      NEW h \in DOMAIN hosts', hosts'[h].key # hosts[h].key,
                      NEW o \in Claimants(h)', o.key = hosts[h].key
               PROVE  \E p \in Claimants(h)' :
                        p.key = hosts'[h].key /\ chooseObjectMetaWinner(p, o)
    BY <2>1
  <2> DEFINE w == Winner(Claimants(h)')
  <2>4. w \in Claimants(h)' /\ w.key = hosts'[h].key
    BY <2>2, <2>3 DEF HostsGoToWinners
  <2>5. chooseObjectMetaWinner(w, o)
    BY <2>2, <2>3, <2>4 DEF HostsGoToWinners
  <2> QED BY <2>4, <2>5
<1> QED BY <1>1, Invariance, PTL DEF Spec, HostTakenOnlyByOlder

-----------------------------------------------------------------------------
(* The Configuration keeps up with the cluster.                            *)

\* The steps of a user, in the order in which the informers tell the queue.
LEMMA ClusterStepCurrent ==
  ASSUME IInv, StoresCurrent, ClusterNext
  PROVE  StoresCurrent'
<1>1. ASSUME NEW o \in AllObjects, Create(o) \/ Update(o)
      PROVE  StoresCurrent'
  <2>1. /\ cluster' = Put(cluster, o.key, o) /\ AddSyncQueue(o.key)
        /\ UNCHANGED <<ingresses, virtualServers, virtualServerRoutes, transportServers,
                       watched, phase>>
    BY <1>1 DEF Create, Update, confVars, stores
  <2>2. \A k : /\ k # o.key => (k \in DOMAIN cluster' <=> k \in DOMAIN cluster)
               /\ k \in DOMAIN cluster /\ k # o.key => cluster'[k] = cluster[k]
    BY <2>1 DEF Put
  <2> QED BY <2>1, <2>2 DEF StoresCurrent, Current, Agrees, Watched, AddSyncQueue
<1>2. ASSUME NEW key \in ObjectKeys, Remove(key)
      PROVE  StoresCurrent'
  <2>1. /\ cluster' = Without(cluster, key) /\ AddSyncQueue(key)
        /\ UNCHANGED <<ingresses, virtualServers, virtualServerRoutes, transportServers,
                       watched, phase>>
    BY <1>2 DEF Remove, confVars, stores
  <2>2. \A k : /\ k # key => (k \in DOMAIN cluster' <=> k \in DOMAIN cluster)
               /\ k \in DOMAIN cluster /\ k # key => cluster'[k] = cluster[k]
    BY <2>1 DEF Without
  <2> QED BY <2>1, <2>2 DEF StoresCurrent, Current, Agrees, Watched, AddSyncQueue
<1>3. ASSUME \/ \E gcs : ChangeGlobalConfiguration(gcs)
             \/ ChangeNamespaceLabel
      PROVE  StoresCurrent'
  <2>1. /\ queue \subseteq queue'
        /\ UNCHANGED <<ingresses, virtualServers, virtualServerRoutes, transportServers,
                       cluster, watched, phase>>
    BY <1>3 DEF ChangeGlobalConfiguration, ChangeNamespaceLabel, AddSyncQueue, confVars, stores
  <2> QED BY <2>1 DEF StoresCurrent, Current, Agrees, Watched
<1> QED BY <1>1, <1>2, <1>3 DEF ClusterNext

\* What a sync of a key does to the store of its kind: the store agrees on that key.
SyncedStore(old, new, key) ==
  /\ Agrees(new, key, TRUE)
  /\ \A k : /\ k # key => (k \in DOMAIN new <=> k \in DOMAIN old)
            /\ k \in DOMAIN new /\ k # key => new[k] = old[k]

\* AddOrUpdate and Delete on a store leave it in agreement with the cluster.
LEMMA SyncAgrees ==
  ASSUME NEW old, NEW key
  PROVE  /\ key \in DOMAIN cluster /\ cluster[key].key = key =>
              SyncedStore(old, Stored(old, cluster[key]), key)
         /\ key \notin DOMAIN cluster => SyncedStore(old, Without(old, key), key)
         /\ key \notin DOMAIN cluster /\ key \notin DOMAIN old => SyncedStore(old, old, key)
BY DEF SyncedStore, Agrees, Stored, Put, Without

\* A task of the worker that syncs one key.
LEMMA SyncStepCurrent ==
  ASSUME IInv, StoresCurrent,
         \/ \E k \in Keys(Ingresses) : syncIngress(k)
         \/ \E k \in Keys(VirtualServers) : syncVirtualServer(k)
         \/ \E k \in Keys(VirtualServerRoutes) : syncVirtualServerRoute(k)
         \/ \E k \in Keys(TransportServers) : syncTransportServer(k)
  PROVE  StoresCurrent'
<1>1. ASSUME NEW key \in Keys(Ingresses), syncIngress(key)
      PROVE  StoresCurrent'
  <2>1. /\ UNCHANGED <<cluster, watched, virtualServers, virtualServerRoutes, transportServers>>
        /\ phase = "idle" /\ phase' = "changes" /\ Watched(key) /\ queue' = queue \ {key}
    BY <1>1 DEF syncIngress, Sync, Get, clusterVars, AddOrUpdateIngress, DeleteIngress,
                NothingToDelete, stores
  <2>2. SyncedStore(ingresses, ingresses', key)
    <3>1. CASE key \in DOMAIN cluster
      BY <1>1, <3>1, SyncAgrees, ClusterKinds DEF IInv, syncIngress, Sync, AddOrUpdateIngress
    <3>2. CASE key \notin DOMAIN cluster
      BY <1>1, <3>2, SyncAgrees DEF syncIngress, Sync, DeleteIngress, NothingToDelete, stores
    <3> QED BY <3>1, <3>2
  <2>3. \A k \in Keys(VirtualServers) \cup Keys(VirtualServerRoutes) \cup Keys(TransportServers) :
          k # key
    BY KindsAssumption
  <2> QED BY <2>1, <2>2, <2>3 DEF StoresCurrent, Current, Agrees, Watched, SyncedStore
<1>2. ASSUME NEW key \in Keys(VirtualServers), syncVirtualServer(key)
      PROVE  StoresCurrent'
  <2>1. /\ UNCHANGED <<cluster, watched, ingresses, virtualServerRoutes, transportServers>>
        /\ phase = "idle" /\ phase' = "changes" /\ Watched(key) /\ queue' = queue \ {key}
    BY <1>2 DEF syncVirtualServer, Sync, Get, clusterVars, AddOrUpdateVirtualServer,
                DeleteVirtualServer, NothingToDelete, stores
  <2>2. SyncedStore(virtualServers, virtualServers', key)
    <3>1. CASE key \in DOMAIN cluster
      BY <1>2, <3>1, SyncAgrees, ClusterKinds
      DEF IInv, syncVirtualServer, Sync, AddOrUpdateVirtualServer
    <3>2. CASE key \notin DOMAIN cluster
      BY <1>2, <3>2, SyncAgrees
      DEF syncVirtualServer, Sync, DeleteVirtualServer, NothingToDelete, stores
    <3> QED BY <3>1, <3>2
  <2>3. \A k \in Keys(Ingresses) \cup Keys(VirtualServerRoutes) \cup Keys(TransportServers) :
          k # key
    BY KindsAssumption
  <2> QED BY <2>1, <2>2, <2>3 DEF StoresCurrent, Current, Agrees, Watched, SyncedStore
<1>3. ASSUME NEW key \in Keys(VirtualServerRoutes), syncVirtualServerRoute(key)
      PROVE  StoresCurrent'
  <2>1. /\ UNCHANGED <<cluster, watched, ingresses, virtualServers, transportServers>>
        /\ phase = "idle" /\ phase' = "changes" /\ Watched(key) /\ queue' = queue \ {key}
    BY <1>3 DEF syncVirtualServerRoute, Sync, Get, clusterVars, AddOrUpdateVirtualServerRoute,
                DeleteVirtualServerRoute, NothingToDelete, stores
  <2>2. SyncedStore(virtualServerRoutes, virtualServerRoutes', key)
    <3>1. CASE key \in DOMAIN cluster
      BY <1>3, <3>1, SyncAgrees, ClusterKinds
      DEF IInv, syncVirtualServerRoute, Sync, AddOrUpdateVirtualServerRoute
    <3>2. CASE key \notin DOMAIN cluster
      BY <1>3, <3>2, SyncAgrees
      DEF syncVirtualServerRoute, Sync, DeleteVirtualServerRoute, NothingToDelete, stores
    <3> QED BY <3>1, <3>2
  <2>3. \A k \in Keys(Ingresses) \cup Keys(VirtualServers) \cup Keys(TransportServers) :
          k # key
    BY KindsAssumption
  <2> QED BY <2>1, <2>2, <2>3 DEF StoresCurrent, Current, Agrees, Watched, SyncedStore
<1>4. ASSUME NEW key \in Keys(TransportServers), syncTransportServer(key)
      PROVE  StoresCurrent'
  <2>1. /\ UNCHANGED <<cluster, watched, ingresses, virtualServers, virtualServerRoutes>>
        /\ phase = "idle" /\ phase' = "changes" /\ Watched(key) /\ queue' = queue \ {key}
    BY <1>4 DEF syncTransportServer, Sync, Get, clusterVars, AddOrUpdateTransportServer,
                DeleteTransportServer, NothingToDelete, stores
  <2>2. SyncedStore(transportServers, transportServers', key)
    <3>1. CASE key \in DOMAIN cluster
      BY <1>4, <3>1, SyncAgrees, ClusterKinds
      DEF IInv, syncTransportServer, Sync, AddOrUpdateTransportServer
    <3>2. CASE key \notin DOMAIN cluster
      BY <1>4, <3>2, SyncAgrees
      DEF syncTransportServer, Sync, DeleteTransportServer, NothingToDelete, stores
    <3> QED BY <3>1, <3>2
  <2>3. \A k \in Keys(Ingresses) \cup Keys(VirtualServers) \cup Keys(VirtualServerRoutes) :
          k # key
    BY KindsAssumption
  <2> QED BY <2>1, <2>2, <2>3 DEF StoresCurrent, Current, Agrees, Watched, SyncedStore
<1> QED BY <1>1, <1>2, <1>3, <1>4

\* What the deletion of the listed keys does to a store.
Cleaned(old, new, listed) ==
  \A k : /\ k \in DOMAIN new <=> k \in DOMAIN old /\ k \notin listed
         /\ k \in DOMAIN new => new[k] = old[k]

\* The namespace cleanup empties one store after the other of the keys of the namespace.
LEMMA CleanupStepCurrent ==
  ASSUME IInv, StoresCurrent, cleanupUnwatchedNamespacedResources
  PROVE  StoresCurrent'
<1>1. ASSUME NEW objects, NEW this, NEW next, cleanupKind(this, objects, next)
      PROVE  LET listed == NamespaceKeys \cap DOMAIN cluster \cap Keys(objects)
             IN /\ UNCHANGED <<cluster, watched, queue>> /\ phase = this /\ phase' = next
                /\ Cleaned(ingresses, ingresses', listed)
                /\ Cleaned(virtualServers, virtualServers', listed)
                /\ Cleaned(transportServers, transportServers', listed)
                /\ Cleaned(virtualServerRoutes, virtualServerRoutes', listed)
  BY <1>1 DEF cleanupKind, cleanupListed, WithoutKeys, clusterVars, Cleaned
<1>2. CASE cleanupKind("unwatchIngresses", Ingresses, "unwatchVirtualServers")
  <2> DEFINE listed == NamespaceKeys \cap DOMAIN cluster \cap Keys(Ingresses)
  <2>1. /\ UNCHANGED <<cluster, watched, queue>>
        /\ phase = "unwatchIngresses" /\ phase' = "unwatchVirtualServers"
    BY <1>1, <1>2
  <2>2. Current(ingresses, Ingresses,
              {"unwatchVirtualServers", "unwatchTransportServers",
               "unwatchRoutes", "unwatched"})'
    <3>1. Cleaned(ingresses, ingresses', listed)
      BY <1>1, <1>2
    <3> QED BY <2>1, <3>1, KindsAssumption DEF StoresCurrent, Current, Agrees, Watched, Cleaned
  <2>3. Current(virtualServers, VirtualServers, {"unwatchTransportServers", "unwatchRoutes", "unwatched"})'
    <3>1. Cleaned(virtualServers, virtualServers', listed)
      BY <1>1, <1>2
    <3> QED BY <2>1, <3>1, KindsAssumption DEF StoresCurrent, Current, Agrees, Watched, Cleaned
  <2>4. Current(transportServers, TransportServers, {"unwatchRoutes", "unwatched"})'
    <3>1. Cleaned(transportServers, transportServers', listed)
      BY <1>1, <1>2
    <3> QED BY <2>1, <3>1, KindsAssumption DEF StoresCurrent, Current, Agrees, Watched, Cleaned
  <2>5. Current(virtualServerRoutes, VirtualServerRoutes, {"unwatched"})'
    <3>1. Cleaned(virtualServerRoutes, virtualServerRoutes', listed)
      BY <1>1, <1>2
    <3> QED BY <2>1, <3>1, KindsAssumption DEF StoresCurrent, Current, Agrees, Watched, Cleaned
  <2> QED BY <2>2, <2>3, <2>4, <2>5 DEF StoresCurrent
<1>3. CASE cleanupKind("unwatchVirtualServers", VirtualServers, "unwatchTransportServers")
  <2> DEFINE listed == NamespaceKeys \cap DOMAIN cluster \cap Keys(VirtualServers)
  <2>1. /\ UNCHANGED <<cluster, watched, queue>>
        /\ phase = "unwatchVirtualServers" /\ phase' = "unwatchTransportServers"
    BY <1>1, <1>3
  <2>2. Current(ingresses, Ingresses,
              {"unwatchVirtualServers", "unwatchTransportServers",
               "unwatchRoutes", "unwatched"})'
    <3>1. Cleaned(ingresses, ingresses', listed)
      BY <1>1, <1>3
    <3> QED BY <2>1, <3>1, KindsAssumption DEF StoresCurrent, Current, Agrees, Watched, Cleaned
  <2>3. Current(virtualServers, VirtualServers, {"unwatchTransportServers", "unwatchRoutes", "unwatched"})'
    <3>1. Cleaned(virtualServers, virtualServers', listed)
      BY <1>1, <1>3
    <3> QED BY <2>1, <3>1, KindsAssumption DEF StoresCurrent, Current, Agrees, Watched, Cleaned
  <2>4. Current(transportServers, TransportServers, {"unwatchRoutes", "unwatched"})'
    <3>1. Cleaned(transportServers, transportServers', listed)
      BY <1>1, <1>3
    <3> QED BY <2>1, <3>1, KindsAssumption DEF StoresCurrent, Current, Agrees, Watched, Cleaned
  <2>5. Current(virtualServerRoutes, VirtualServerRoutes, {"unwatched"})'
    <3>1. Cleaned(virtualServerRoutes, virtualServerRoutes', listed)
      BY <1>1, <1>3
    <3> QED BY <2>1, <3>1, KindsAssumption DEF StoresCurrent, Current, Agrees, Watched, Cleaned
  <2> QED BY <2>2, <2>3, <2>4, <2>5 DEF StoresCurrent
<1>4. CASE cleanupKind("unwatchTransportServers", TransportServers, "unwatchRoutes")
  <2> DEFINE listed == NamespaceKeys \cap DOMAIN cluster \cap Keys(TransportServers)
  <2>1. /\ UNCHANGED <<cluster, watched, queue>>
        /\ phase = "unwatchTransportServers" /\ phase' = "unwatchRoutes"
    BY <1>1, <1>4
  <2>2. Current(ingresses, Ingresses,
              {"unwatchVirtualServers", "unwatchTransportServers",
               "unwatchRoutes", "unwatched"})'
    <3>1. Cleaned(ingresses, ingresses', listed)
      BY <1>1, <1>4
    <3> QED BY <2>1, <3>1, KindsAssumption DEF StoresCurrent, Current, Agrees, Watched, Cleaned
  <2>3. Current(virtualServers, VirtualServers, {"unwatchTransportServers", "unwatchRoutes", "unwatched"})'
    <3>1. Cleaned(virtualServers, virtualServers', listed)
      BY <1>1, <1>4
    <3> QED BY <2>1, <3>1, KindsAssumption DEF StoresCurrent, Current, Agrees, Watched, Cleaned
  <2>4. Current(transportServers, TransportServers, {"unwatchRoutes", "unwatched"})'
    <3>1. Cleaned(transportServers, transportServers', listed)
      BY <1>1, <1>4
    <3> QED BY <2>1, <3>1, KindsAssumption DEF StoresCurrent, Current, Agrees, Watched, Cleaned
  <2>5. Current(virtualServerRoutes, VirtualServerRoutes, {"unwatched"})'
    <3>1. Cleaned(virtualServerRoutes, virtualServerRoutes', listed)
      BY <1>1, <1>4
    <3> QED BY <2>1, <3>1, KindsAssumption DEF StoresCurrent, Current, Agrees, Watched, Cleaned
  <2> QED BY <2>2, <2>3, <2>4, <2>5 DEF StoresCurrent
<1>5. CASE cleanupKind("unwatchRoutes", VirtualServerRoutes, "unwatched")
  <2> DEFINE listed == NamespaceKeys \cap DOMAIN cluster \cap Keys(VirtualServerRoutes)
  <2>1. /\ UNCHANGED <<cluster, watched, queue>>
        /\ phase = "unwatchRoutes" /\ phase' = "unwatched"
    BY <1>1, <1>5
  <2>2. Current(ingresses, Ingresses,
              {"unwatchVirtualServers", "unwatchTransportServers",
               "unwatchRoutes", "unwatched"})'
    <3>1. Cleaned(ingresses, ingresses', listed)
      BY <1>1, <1>5
    <3> QED BY <2>1, <3>1, KindsAssumption DEF StoresCurrent, Current, Agrees, Watched, Cleaned
  <2>3. Current(virtualServers, VirtualServers, {"unwatchTransportServers", "unwatchRoutes", "unwatched"})'
    <3>1. Cleaned(virtualServers, virtualServers', listed)
      BY <1>1, <1>5
    <3> QED BY <2>1, <3>1, KindsAssumption DEF StoresCurrent, Current, Agrees, Watched, Cleaned
  <2>4. Current(transportServers, TransportServers, {"unwatchRoutes", "unwatched"})'
    <3>1. Cleaned(transportServers, transportServers', listed)
      BY <1>1, <1>5
    <3> QED BY <2>1, <3>1, KindsAssumption DEF StoresCurrent, Current, Agrees, Watched, Cleaned
  <2>5. Current(virtualServerRoutes, VirtualServerRoutes, {"unwatched"})'
    <3>1. Cleaned(virtualServerRoutes, virtualServerRoutes', listed)
      BY <1>1, <1>5
    <3> QED BY <2>1, <3>1, KindsAssumption DEF StoresCurrent, Current, Agrees, Watched, Cleaned
  <2> QED BY <2>2, <2>3, <2>4, <2>5 DEF StoresCurrent
<1>6. CASE stopInformers
  <2>1. /\ UNCHANGED <<ingresses, virtualServers, virtualServerRoutes, transportServers, cluster,
                       queue>>
        /\ phase = "unwatched" /\ phase' = "tail" /\ watched' = FALSE
    BY <1>6 DEF stopInformers, confVars, stores
  <2> QED BY <2>1 DEF StoresCurrent, Current, Agrees, Watched
<1> QED BY <1>2, <1>3, <1>4, <1>5, <1>6 DEF cleanupUnwatchedNamespacedResources

\* Every step of the controller keeps the stores current.
LEMMA StepCurrent ==
  ASSUME IInv, StoresCurrent, [Next]_vars
  PROVE  StoresCurrent'
<1>1. \A S \in {Ingresses, VirtualServers, VirtualServerRoutes, TransportServers} :
        GlobalConfigurationKey \notin Keys(S) /\ NamespaceKey \notin Keys(S)
  BY TasksAssumption DEF ObjectKeys, AllObjects, Keys
<1>2. ASSUME UNCHANGED <<ingresses, virtualServers, virtualServerRoutes, transportServers, cluster,
                         watched>>,
             queue \subseteq queue' \cup {GlobalConfigurationKey, NamespaceKey},
             \/ phase' = phase
             \/ phase' = "crashed"
             \/ /\ phase \notin {"crashed", "unwatchVirtualServers", "unwatchTransportServers",
                                 "unwatchRoutes", "unwatched"}
                /\ phase' \notin {"unwatchVirtualServers", "unwatchTransportServers",
                                  "unwatchRoutes", "unwatched"}
      PROVE  StoresCurrent'
  BY <1>1, <1>2 DEF StoresCurrent, Current, Agrees, Watched
<1>3. CASE ClusterNext
  BY <1>3, ClusterStepCurrent
<1>4. CASE \/ \E k \in Keys(Ingresses) : syncIngress(k)
           \/ \E k \in Keys(VirtualServers) : syncVirtualServer(k)
           \/ \E k \in Keys(VirtualServerRoutes) : syncVirtualServerRoute(k)
           \/ \E k \in Keys(TransportServers) : syncTransportServer(k)
  BY <1>4, SyncStepCurrent
<1>5. CASE syncGlobalConfiguration
  <2>1. UNCHANGED <<ingresses, virtualServers, virtualServerRoutes, transportServers, cluster,
                    watched>>
    BY <1>5 DEF syncGlobalConfiguration, clusterVars, DeleteGlobalConfiguration,
                AddOrUpdateGlobalConfiguration
  <2>2. /\ queue \subseteq queue' \cup {GlobalConfigurationKey}
        /\ phase = "idle" /\ phase' = "globalChanges"
    BY <1>5 DEF syncGlobalConfiguration, Get
  <2> QED BY <1>2, <2>1, <2>2
<1>6. CASE \E k \in NamespaceKeys : syncUnwatched(k)
  BY <1>6 DEF syncUnwatched, StoresCurrent
<1>7. CASE WatchNamespace
  <2>1. /\ UNCHANGED <<ingresses, virtualServers, virtualServerRoutes, transportServers, cluster>>
        /\ phase = "idle" /\ phase' = "tail" /\ watched' = TRUE
        /\ queue' = (queue \ {NamespaceKey}) \cup (IF watched THEN {} ELSE NamespaceKeys \cap DOMAIN cluster)
    BY <1>7 DEF WatchNamespace, Get, confVars, stores
  <2> QED BY <1>1, <2>1 DEF StoresCurrent, Current, Agrees, Watched
<1>8. CASE UnwatchNamespace
  <2>1. /\ UNCHANGED <<ingresses, virtualServers, virtualServerRoutes, transportServers, cluster>>
        /\ queue' = queue \ {NamespaceKey}
        /\ phase = "idle" /\ phase' \in {"unwatchIngresses", "tail"}
        /\ \/ watched' = watched
           \/ watched' = FALSE /\ NamespaceKeys \cap DOMAIN cluster = {}
    BY <1>8 DEF UnwatchNamespace, Get, confVars, stores
  <2>2. CASE watched' = watched
    BY <1>2, <2>1, <2>2
  <2>3. CASE watched' = FALSE /\ NamespaceKeys \cap DOMAIN cluster = {}
    BY <1>1, <2>1, <2>3 DEF StoresCurrent, Current, Agrees, Watched
  <2> QED BY <2>1, <2>2, <2>3
<1>9. CASE cleanupUnwatchedNamespacedResources
  BY <1>9, CleanupStepCurrent
<1>10. CASE \/ \E k \in ObjectKeys : processDelete(k)
            \/ \E r : processAddOrUpdate(r)
            \/ NextChangeList
            \/ processChangesFromGlobalConfiguration
            \/ processProblems
  <2>1. /\ UNCHANGED <<ingresses, virtualServers, virtualServerRoutes, transportServers, cluster,
                       watched, queue>>
        /\ phase \in {"changes", "globalChanges"} /\ phase' \in {"changes", "tail"}
    BY <1>10 DEF processDelete, processAddOrUpdate, NextChangeList,
                 processChangesFromGlobalConfiguration, processProblems, stores, clusterVars
  <2> QED BY <1>2, <2>1
<1>11. CASE EndSync \/ StartupRebuild \/ StartupConfigs
  <2>1. /\ UNCHANGED <<ingresses, virtualServers, virtualServerRoutes, transportServers, cluster,
                       watched, queue>>
        /\ phase \in {"tail", "startup"} /\ phase' \in {"idle", "startup"}
    BY <1>11 DEF EndSync, StartupRebuild, StartupConfigs, CompleteStartup, confVars, stores,
                 clusterVars
  <2> QED BY <1>2, <2>1
<1>12. CASE FlushNext
  BY <1>2, <1>12 DEF FlushNext, runStatusFlush, confVars, stores, clusterVars
<1>13. CASE UNCHANGED vars
  BY <1>2, <1>13 DEF vars, confVars, stores, clusterVars
<1> QED BY <1>3, <1>4, <1>5, <1>6, <1>7, <1>8, <1>9, <1>10, <1>11, <1>12, <1>13
        DEF Next, WorkerNext

\* Whatever the order of events, relabelled namespaces included: a key that is not in the
\* queue has nothing left to be synced.
THEOREM MemoryCurrent == Spec => []StoresCurrent
<1>1. Init => StoresCurrent
  BY DEF Init, ConfInit, EmptyMap, StoresCurrent, Current, Agrees
<1>2. IInv /\ StoresCurrent /\ [Next]_vars => StoresCurrent'
  BY StepCurrent
<1> QED BY <1>1, <1>2, Invariance, PTL DEF Spec

-----------------------------------------------------------------------------
(***************************************************************************)
(* The config files of the controller, for every set of objects and every  *)
(* interleaving.  The worker turns the changes that an operation of the    *)
(* Configuration returns into files one at a time; the inductive invariant *)
(* FollowInv says that the files are behind the Configuration by the       *)
(* pending changes and by no more.  That the changes are enough rests on   *)
(* what IsEqual compares (ComparisonSuffices); the second half shows when  *)
(* that holds.                                                             *)
(***************************************************************************)

\* The hosts are first built when startup is complete, and the pod is ready only then.
StartInv ==
  /\ isNginxReady \/ phase = "startup" <=> startupComplete
  /\ ~startupComplete => hosts = EmptyMap

\* Each map has one resource per key, and a TransportServer is in one of the two maps only.
MapsOK ==
  /\ WellHeld(hosts) /\ WellHeld(listenerHosts)
  /\ \A r \in Values(hosts) :
       r.key \in Keys(TransportServers) =>
         r.key \in DOMAIN transportServers /\ isTLSPassthrough(transportServers[r.key])
  /\ \A r \in Values(listenerHosts) :
       /\ r.key \in Keys(TransportServers)
       /\ r.key \in DOMAIN transportServers /\ ~isTLSPassthrough(transportServers[r.key])

\* The order of the startup sequence: nothing is in the host map before CompleteStartup.
LEMMA StartStep ==
  ASSUME IInv, StartInv, [Next]_vars
  PROVE  StartInv'
<1>1. CASE StartupRebuild
  BY <1>1 DEF StartupRebuild, CompleteStartup, StartInv
<1>2. CASE StartupConfigs
  BY <1>2 DEF StartupConfigs, StartInv, built
<1>3. ASSUME UNCHANGED <<startupComplete, isNginxReady>>, phase' = "startup" <=> phase = "startup",
             ~startupComplete => hosts' = hosts
      PROVE  StartInv'
  BY <1>3 DEF StartInv
<1>4. CASE \/ \E k \in Keys(Ingresses) : syncIngress(k)
           \/ \E k \in Keys(VirtualServers) : syncVirtualServer(k)
           \/ \E k \in Keys(VirtualServerRoutes) : syncVirtualServerRoute(k)
           \/ \E k \in Keys(TransportServers) : syncTransportServer(k)
  <2>1. UNCHANGED isNginxReady /\ phase = "idle" /\ phase' = "changes"
    BY <1>4 DEF syncIngress, syncVirtualServer, syncVirtualServerRoute, syncTransportServer, Sync,
                Get
  <2>2. UNCHANGED startupComplete /\ (~startupComplete => hosts' = hosts)
    BY <1>4 DEF syncIngress, syncVirtualServer, syncVirtualServerRoute, syncTransportServer, Sync,
                AddOrUpdateIngress, DeleteIngress, AddOrUpdateVirtualServer, DeleteVirtualServer,
                AddOrUpdateVirtualServerRoute, DeleteVirtualServerRoute,
                AddOrUpdateTransportServer, DeleteTransportServer, NothingToDelete, built,
                RebuildAfterStartup, RebuildListenersAndHosts
  <2> QED BY <1>3, <2>1, <2>2
<1>5. CASE syncGlobalConfiguration
  BY <1>3, <1>5 DEF syncGlobalConfiguration, AddOrUpdateGlobalConfiguration, Get,
                    DeleteGlobalConfiguration, RebuildListenersAndHosts
<1>6. CASE cleanupUnwatchedNamespacedResources
  BY <1>3, <1>6 DEF cleanupUnwatchedNamespacedResources, cleanupKind, cleanupListed, stopInformers,
                    confVars, built
<1>7. CASE ClusterNext \/ FlushNext
  BY <1>3, <1>7 DEF ClusterNext, Create, Update, Remove, ChangeGlobalConfiguration,
                    ChangeNamespaceLabel, FlushNext, runStatusFlush, confVars, built
<1>8. CASE \/ \E k \in NamespaceKeys : syncUnwatched(k)
           \/ WatchNamespace \/ UnwatchNamespace \/ EndSync
  BY <1>3, <1>8 DEF syncUnwatched, WatchNamespace, UnwatchNamespace, EndSync, Get, confVars, built
<1>9. CASE \/ \E k \in ObjectKeys : processDelete(k)
           \/ \E r : processAddOrUpdate(r)
           \/ NextChangeList
           \/ processChangesFromGlobalConfiguration
           \/ processProblems
  BY <1>3, <1>9 DEF processDelete, processAddOrUpdate, NextChangeList,
                    processChangesFromGlobalConfiguration, processProblems, built
<1>10. CASE UNCHANGED vars
  BY <1>3, <1>10 DEF vars, confVars, built
<1> QED BY <1>1, <1>2, <1>4, <1>5, <1>6, <1>7, <1>8, <1>9, <1>10 DEF Next, WorkerNext

\* Both maps are well held, before startup as after it.
LEMMA MapsAreOK ==
  IInv /\ StartInv => MapsOK
<1> SUFFICES ASSUME IInv, StartInv PROVE MapsOK
  OBVIOUS
<1>1. StoresTypeOK /\ listenerHosts = newListenerHosts /\ (startupComplete => hosts = newHosts)
      /\ startupComplete \in BOOLEAN
  BY DEF IInv, ConfInv, ConfTypeOK, RebuiltAfterStartup
<1>2. WellHeld(listenerHosts)
  BY <1>1, ListenersWellHeld
<1>3. ~startupComplete => hosts = EmptyMap /\ WellHeld(EmptyMap) /\ Values(EmptyMap) = {}
  BY DEF StartInv, EmptyMap, WellHeld, Values
<1>4. WellHeld(hosts)
  BY <1>1, <1>3, HostsWellHeld
<1>5. ASSUME NEW r \in Values(hosts), r.key \in Keys(TransportServers)
      PROVE  r.key \in DOMAIN transportServers /\ isTLSPassthrough(transportServers[r.key])
  <2>1. hosts = newHosts
    BY <1>1, <1>3, <1>5
  <2>2. PICK h \in ClaimedHosts : r.key = Winner(Claimants(h)).key
    BY <1>1, <1>5, <2>1, NewHostsOK DEF Values
  <2> DEFINE w == Winner(Claimants(h))
  <2>3. w \in HostIngresses \/ w \in Values(virtualServers) \/ w \in HostTransportServers
    BY <1>1, OwnerWins DEF ClaimedHosts, Claimants
  <2> HIDE DEF w
  <2>4. w.key = r.key
    BY <2>2 DEF w
  <2>5. w \notin HostIngresses /\ w \notin Values(virtualServers)
    BY <1>1, <1>5, <2>4, KindsAssumption, SMTT(20)
    DEF HostIngresses, Values, StoresTypeOK, StoreOf
  <2> QED BY <1>1, <2>3, <2>4, <2>5, StoredKinds, SMTT(20) DEF HostTransportServers
<1>6. ASSUME NEW r \in Values(listenerHosts)
      PROVE  /\ r.key \in Keys(TransportServers)
             /\ r.key \in DOMAIN transportServers /\ ~isTLSPassthrough(transportServers[r.key])
  <2>1. PICK ts \in ListenerTransportServers : r.key = ts.key
    BY <1>1, <1>6, ListenerActiveOrRefused, SMTT(20) DEF Values
  <2>2. /\ ts \in TransportServers /\ ts.check = "ok"
        /\ ts.key \in DOMAIN transportServers /\ ts = transportServers[ts.key]
        /\ ts.protocol # TLSPassthroughListenerProtocol
    BY <1>1, SMTT(20) DEF ListenerTransportServers, Values, StoresTypeOK, StoreOf
  <2>3. ~isTLSPassthrough(ts)
    BY <2>2, TransportServersAssumption
  <2> QED BY <2>1, <2>2, <2>3 DEF Keys
<1> QED BY <1>2, <1>4, <1>5, <1>6 DEF MapsOK

\* One resource per key over both maps.
LEMMA ResourcesOnce ==
  MapsOK => \A r, s \in GetResources : r.key = s.key => r = s
BY SMTT(20) DEF MapsOK, GetResources, WellHeld, Values

\* The updates and deletes of the sequences of change lists that the operations return, and
\* of what is left when the worker has processed a part of the first list.
LEMMA PendingOf ==
  /\ Updated(<<>>) = {} /\ Deleted(<<>>) = {}
  /\ \A c : /\ Updated(<<c>>) = c.moves \cup c.updates
            /\ Deleted(<<c>>) = c.deletes
  /\ \A c, d : /\ Updated(<<c, d>>) = c.moves \cup c.updates \cup d.moves \cup d.updates
               /\ Deleted(<<c, d>>) = c.deletes \cup d.deletes
<1>1. ASSUME NEW c, NEW d
      PROVE  /\ DOMAIN <<c>> = {1} /\ <<c>>[1] = c
             /\ DOMAIN <<c, d>> = {1, 2} /\ <<c, d>>[1] = c /\ <<c, d>>[2] = d
  OBVIOUS
<1>2. DOMAIN <<>> = {}
  OBVIOUS
<1> QED BY <1>1, <1>2, SMTT(20) DEF Updated, Deleted

\* What is left of the pending changes when the worker has processed a part of the first
\* list, or is done with it.
LEMMA PendingAfter ==
  ASSUME NEW cs, ChangesOK(cs), cs # <<>>
  PROVE  /\ Updated(cs) = cs[1].moves \cup cs[1].updates \cup Updated(Tail(cs))
         /\ Deleted(cs) = cs[1].deletes \cup Deleted(Tail(cs))
         /\ \A d : /\ Updated([cs EXCEPT ![1] = d]) = d.moves \cup d.updates \cup Updated(Tail(cs))
                   /\ Deleted([cs EXCEPT ![1] = d]) = d.deletes \cup Deleted(Tail(cs))
<1>1. cs \in Seq(Values(cs)) /\ Len(cs) \in Nat /\ Len(cs) >= 1 /\ DOMAIN cs = 1..Len(cs)
  BY DEF ChangesOK
<1> DEFINE n == Len(cs)
<1>2. /\ DOMAIN Tail(cs) = 1..(n - 1)
      /\ \A i \in 1..(n - 1) : Tail(cs)[i] = cs[i + 1]
  BY <1>1
<1>3. ASSUME NEW ds, DOMAIN ds = 1..n, \A i \in 1..n : i # 1 => ds[i] = cs[i]
      PROVE  /\ Updated(ds) = ds[1].moves \cup ds[1].updates \cup Updated(Tail(cs))
             /\ Deleted(ds) = ds[1].deletes \cup Deleted(Tail(cs))
  <2>1. \A i \in 1..(n - 1) : i + 1 \in DOMAIN ds /\ ds[i + 1] = Tail(cs)[i]
    BY <1>1, <1>2, <1>3, SMTT(20)
  <2>2. \A i \in DOMAIN ds : i = 1 \/ (i - 1 \in 1..(n - 1) /\ ds[i] = Tail(cs)[i - 1])
    BY <1>1, <1>2, <1>3, SMTT(20)
  <2>3. 1 \in DOMAIN ds
    BY <1>1, <1>3, SMTT(20)
  <2> HIDE DEF n
  <2>4. Updated(ds) = ds[1].moves \cup ds[1].updates \cup Updated(Tail(cs))
    <3>1. ds[1].moves \cup ds[1].updates \subseteq Updated(ds)
      BY <2>3 DEF Updated
    <3>2. Updated(Tail(cs)) \subseteq Updated(ds)
      BY <1>2, <2>1 DEF Updated
    <3>3. Updated(ds) \subseteq ds[1].moves \cup ds[1].updates \cup Updated(Tail(cs))
      BY <1>2, <2>2 DEF Updated
    <3> QED BY <3>1, <3>2, <3>3
  <2>5. Deleted(ds) = ds[1].deletes \cup Deleted(Tail(cs))
    <3>1. ds[1].deletes \subseteq Deleted(ds)
      BY <2>3 DEF Deleted
    <3>2. Deleted(Tail(cs)) \subseteq Deleted(ds)
      BY <1>2, <2>1 DEF Deleted
    <3>3. Deleted(ds) \subseteq ds[1].deletes \cup Deleted(Tail(cs))
      BY <1>2, <2>2 DEF Deleted
    <3> QED BY <3>1, <3>2, <3>3
  <2> QED BY <2>4, <2>5
<1>4. ASSUME NEW d
      PROVE  LET ds == [cs EXCEPT ![1] = d]
             IN DOMAIN ds = 1..n /\ (\A i \in 1..n : i # 1 => ds[i] = cs[i]) /\ ds[1] = d
  BY <1>1
<1> HIDE DEF n
<1>5. /\ Updated(cs) = cs[1].moves \cup cs[1].updates \cup Updated(Tail(cs))
      /\ Deleted(cs) = cs[1].deletes \cup Deleted(Tail(cs))
  BY <1>1, <1>3 DEF n
<1>6. ASSUME NEW d
      PROVE  /\ Updated([cs EXCEPT ![1] = d]) = d.moves \cup d.updates \cup Updated(Tail(cs))
             /\ Deleted([cs EXCEPT ![1] = d]) = d.deletes \cup Deleted(Tail(cs))
  <2> DEFINE ds == [cs EXCEPT ![1] = d]
  <2>1. DOMAIN ds = 1..n /\ (\A i \in 1..n : i # 1 => ds[i] = cs[i]) /\ ds[1] = d
    BY <1>4
  <2> HIDE DEF ds
  <2>2. /\ Updated(ds) = ds[1].moves \cup ds[1].updates \cup Updated(Tail(cs))
        /\ Deleted(ds) = ds[1].deletes \cup Deleted(Tail(cs))
    BY <1>3, <2>1
  <2> QED BY <2>1, <2>2 DEF ds
<1> QED BY <1>5, <1>6

\* A map that did not change has no changes.
LEMMA SquashSame ==
  ASSUME NEW m
  PROVE  LET c == squashResourceChanges(m, m)
         IN c.deletes = {} /\ c.moves = {} /\ c.updates = {}
<1>1. updatedHosts(m, m) = {} /\ addedHosts(m, m) = {} /\ removedHosts(m, m) = {}
  BY DEF updatedHosts, addedHosts, removedHosts, IsEqual
<1>2. DeleteChanges(m, m) = {} /\ AddOrUpdateChanges(m, m) = {}
  BY <1>1 DEF DeleteChanges, AddOrUpdateChanges
<1> QED BY <1>2 DEF squashResourceChanges

\* The files are exactly those of the active resources.
FilesExact ==
  /\ DOMAIN files = Keys(GetResources)
  /\ \A r \in GetResources : files[r.key] = r.conf

\* An operation that starts from exact files leaves the files behind by the changes it
\* returns, and by no more.
LEMMA RebuildFollows ==
  ASSUME MapsOK, MapsOK', FilesExact, files' = files, ComparisonSuffices,
         StoresTypeOK, StoresTypeOK',
         Updated(changes)' = hostChanges.moves \cup hostChanges.updates
                               \cup listenerChanges.moves \cup listenerChanges.updates,
         Deleted(changes)' = hostChanges.deletes \cup listenerChanges.deletes
  PROVE  /\ Updated(changes)' \subseteq GetResources'
         /\ Deleted(changes)' \cap Keys(GetResources') = {}
         /\ DOMAIN files' \subseteq Keys(GetResources') \cup Deleted(changes)'
         /\ \A r \in GetResources' \ Updated(changes)' :
              r.key \in DOMAIN files' /\ files'[r.key] = r.conf
<1> DEFINE hc == hostChanges
           lc == listenerChanges
<1>1. /\ hc.moves \cup hc.updates \subseteq Values(hosts')
      /\ hc.deletes = Keys(Values(hosts)) \ Keys(Values(hosts'))
      /\ \A r \in Values(hosts') \ (hc.moves \cup hc.updates) :
           \E h \in DOMAIN hosts \cap DOMAIN hosts' :
             r = hosts'[h] /\ IsEqual(hosts[h], hosts'[h])
  BY SquashComplete DEF hostChanges, MapsOK
<1>2. /\ lc.moves \cup lc.updates \subseteq Values(listenerHosts')
      /\ lc.deletes = Keys(Values(listenerHosts)) \ Keys(Values(listenerHosts'))
      /\ \A r \in Values(listenerHosts') \ (lc.moves \cup lc.updates) :
           \E h \in DOMAIN listenerHosts \cap DOMAIN listenerHosts' :
             r = listenerHosts'[h] /\ IsEqual(listenerHosts[h], listenerHosts'[h])
  BY SquashComplete DEF listenerChanges, MapsOK
<1> HIDE DEF hc, lc
<1>3. /\ Updated(changes)' = hc.moves \cup hc.updates \cup lc.moves \cup lc.updates
      /\ Deleted(changes)' = hc.deletes \cup lc.deletes
  BY DEF hc, lc
<1>4. Updated(changes)' \subseteq GetResources'
  BY <1>1, <1>2, <1>3 DEF GetResources
<1>5. ASSUME NEW k, k \in Keys(Values(hosts)), k \in Keys(Values(listenerHosts'))
      PROVE  FALSE
  <2>1. k \in Keys(TransportServers) /\ k \in DOMAIN transportServers'
        /\ ~isTLSPassthrough(transportServers'[k])
    BY <1>5 DEF MapsOK, Keys, isTLSPassthrough
  <2>2. k \in DOMAIN transportServers /\ isTLSPassthrough(transportServers[k])
    BY <1>5, <2>1 DEF MapsOK, Keys
  <2> QED BY <2>1, <2>2 DEF ComparisonSuffices
<1>6. ASSUME NEW k, k \in Keys(Values(listenerHosts)), k \in Keys(Values(hosts'))
      PROVE  FALSE
  <2>1. k \in Keys(TransportServers) /\ k \in DOMAIN transportServers
        /\ ~isTLSPassthrough(transportServers[k])
    BY <1>6 DEF MapsOK, Keys
  <2>2. k \in DOMAIN transportServers' /\ isTLSPassthrough(transportServers'[k])
    BY <1>6, <2>1 DEF MapsOK, Keys, isTLSPassthrough
  <2> QED BY <2>1, <2>2 DEF ComparisonSuffices
<1>7. \A S, T : Keys(S \cup T) = Keys(S) \cup Keys(T)
  BY DEF Keys
<1>8. Deleted(changes)' \cap Keys(GetResources') = {}
  BY <1>1, <1>2, <1>3, <1>5, <1>6, <1>7, SMTT(20) DEF GetResources
<1>9. DOMAIN files' \subseteq Keys(GetResources') \cup Deleted(changes)'
  BY <1>1, <1>2, <1>3, <1>7, SMTT(20) DEF GetResources, FilesExact
<1>10. ASSUME NEW r \in GetResources' \ Updated(changes)'
       PROVE  r.key \in DOMAIN files' /\ files'[r.key] = r.conf
  <2>1. CASE r \in Values(hosts')
    <3>1. PICK h \in DOMAIN hosts \cap DOMAIN hosts' :
            r = hosts'[h] /\ IsEqual(hosts[h], hosts'[h])
      BY <1>1, <1>3, <1>10, <2>1
    <3>2. hosts[h].key = r.key /\ hosts[h].conf = r.conf
      BY <3>1 DEF ComparisonSuffices, IsEqual
    <3>3. hosts[h] \in GetResources
      BY DEF GetResources, Values
    <3> QED BY <3>2, <3>3 DEF FilesExact, Keys
  <2>2. CASE r \in Values(listenerHosts')
    <3>1. PICK h \in DOMAIN listenerHosts \cap DOMAIN listenerHosts' :
            r = listenerHosts'[h] /\ IsEqual(listenerHosts[h], listenerHosts'[h])
      BY <1>2, <1>3, <1>10, <2>2
    <3>2. listenerHosts[h].key = r.key /\ listenerHosts[h].conf = r.conf
      BY <3>1 DEF ComparisonSuffices, IsEqual
    <3>3. listenerHosts[h] \in GetResources
      BY DEF GetResources, Values
    <3> QED BY <3>2, <3>3 DEF FilesExact, Keys
  <2> QED BY <1>10, <2>1, <2>2 DEF GetResources
<1> QED BY <1>4, <1>8, <1>9, <1>10

\* An operation of the worker, from the state that an idle worker finds: the changes it
\* returns are those of the maps it rebuilt.
LEMMA OperationFollows ==
  ASSUME MapsOK, MapsOK', StoresTypeOK, StoresTypeOK', FilesFollow, ComparisonSuffices,
         changes = <<>>, files' = files,
         \/ changes' = <<>> /\ UNCHANGED <<hosts, listenerHosts>>
         \/ changes' = <<hostChanges>> /\ UNCHANGED listenerHosts
         \/ changes' = <<listenerChanges>> /\ UNCHANGED hosts
         \/ changes' = <<listenerChanges, hostChanges>>
  PROVE  /\ Updated(changes') \subseteq GetResources'
         /\ Deleted(changes') \cap Keys(GetResources') = {}
         /\ DOMAIN files' \subseteq Keys(GetResources') \cup Deleted(changes')
         /\ \A r \in GetResources' \ Updated(changes') :
              r.key \in DOMAIN files' /\ files'[r.key] = r.conf
<1>1. Updated(changes) = {} /\ Deleted(changes) = {}
  BY PendingOf
<1>2. FilesExact
  BY <1>1 DEF FilesFollow, FilesExact, Keys
<1>3. UNCHANGED hosts => hostChanges.deletes = {} /\ hostChanges.moves = {} /\ hostChanges.updates = {}
  BY SquashSame DEF hostChanges
<1>4. UNCHANGED listenerHosts =>
        listenerChanges.deletes = {} /\ listenerChanges.moves = {} /\ listenerChanges.updates = {}
  BY SquashSame DEF listenerChanges
<1>5. /\ Updated(changes') = hostChanges.moves \cup hostChanges.updates
                               \cup listenerChanges.moves \cup listenerChanges.updates
      /\ Deleted(changes') = hostChanges.deletes \cup listenerChanges.deletes
  BY <1>3, <1>4, PendingOf, SMTT(20)
<1> QED BY <1>2, <1>5, RebuildFollows

\* What every step preserves in a cluster whose namespaces keep their labels: the files are
\* behind the Configuration by the pending changes, and by no more.
FollowInv ==
  ~workload.relabels =>
    /\ labelled /\ watched
    /\ phase \in {"idle", "changes", "globalChanges", "tail", "startup"}
    /\ files = [k \in DOMAIN files |-> files[k]]
    /\ FilesFollow

\* The steps that process the pending changes.
LEMMA ConsumeFollows ==
  ASSUME IInv, MapsOK, FilesFollow, files = [k \in DOMAIN files |-> files[k]],
         \/ \E k \in ObjectKeys : processDelete(k)
         \/ \E r : processAddOrUpdate(r)
         \/ NextChangeList
         \/ processChangesFromGlobalConfiguration
         \/ processProblems
         \/ StartupConfigs
  PROVE  FilesFollow' /\ files' = [k \in DOMAIN files' |-> files'[k]]
<1>1. UNCHANGED <<hosts, listenerHosts>> /\ GetResources' = GetResources
  BY DEF processDelete, processAddOrUpdate, NextChangeList, built, GetResources,
         processChangesFromGlobalConfiguration, processProblems, StartupConfigs
<1>2. ChangesOK(changes)
  BY DEF IInv, ConfInv, ConfTypeOK, ChangesOK
<1>3. \A r, s \in GetResources : r.key = s.key => r = s
  BY ResourcesOnce
<1>4. CASE \E k \in ObjectKeys : processDelete(k)
  <2>1. PICK k \in ObjectKeys : processDelete(k)
    BY <1>4
  <2> DEFINE d == [changes[1] EXCEPT !.deletes = @ \ {k}]
  <2>2. /\ changes # <<>> /\ changes' = [changes EXCEPT ![1] = d]
        /\ files' = Without(files, k) /\ phase' = "changes"
        /\ k \in Head(changes).deletes
    BY <2>1 DEF processDelete
  <2>3. Head(changes) = changes[1] /\ ChangeListOK(changes[1])
    BY <1>2, <2>2, ChangesConsumed
  <2>4. d.deletes = changes[1].deletes \ {k} /\ d.moves = changes[1].moves
        /\ d.updates = changes[1].updates
    BY <2>3 DEF ChangeListOK
  <2> HIDE DEF d
  <2>a. /\ Updated(changes) = changes[1].moves \cup changes[1].updates \cup Updated(Tail(changes))
        /\ Deleted(changes) = changes[1].deletes \cup Deleted(Tail(changes))
        /\ Updated(changes') = d.moves \cup d.updates \cup Updated(Tail(changes))
        /\ Deleted(changes') = d.deletes \cup Deleted(Tail(changes))
    <3>1. \A e : /\ Updated([changes EXCEPT ![1] = e])
                      = e.moves \cup e.updates \cup Updated(Tail(changes))
                 /\ Deleted([changes EXCEPT ![1] = e]) = e.deletes \cup Deleted(Tail(changes))
      BY <1>2, <2>2, PendingAfter
    <3> QED BY <1>2, <2>2, <3>1, PendingAfter
  <2>5. /\ Updated(changes') = Updated(changes)
        /\ Deleted(changes') \subseteq Deleted(changes)
        /\ Deleted(changes) \subseteq Deleted(changes') \cup {k}
        /\ k \in Deleted(changes)
    BY <2>a, <2>2, <2>3, <2>4
  <2>6. DOMAIN files' = DOMAIN files \ {k} /\ \A j \in DOMAIN files' : files'[j] = files[j]
    BY <2>2 DEF Without
  <2>7. \A r \in GetResources : r.key # k
    BY <2>5 DEF FilesFollow, Keys
  <2>8. FilesFollow'
    BY <1>1, <2>2, <2>5, <2>6, <2>7 DEF FilesFollow
  <2> QED BY <2>2, <2>8 DEF Without
<1>5. CASE \E r : processAddOrUpdate(r)
  <2>1. PICK r : processAddOrUpdate(r)
    BY <1>5
  <2> DEFINE d == Processed(changes[1], r)
  <2>2. /\ changes # <<>> /\ changes' = [changes EXCEPT ![1] = d]
        /\ files' = Put(files, r.key, r.conf) /\ phase' = "changes"
        /\ r \in NextUpdates
    BY <2>1 DEF processAddOrUpdate
  <2>3. Head(changes) = changes[1]
    BY <1>2, <2>2, ChangesConsumed
  <2>4. d.deletes = changes[1].deletes /\ d.moves = changes[1].moves \ {r}
        /\ d.updates = changes[1].updates \ {r}
    BY DEF Processed
  <2> HIDE DEF d
  <2>a. /\ Updated(changes) = changes[1].moves \cup changes[1].updates \cup Updated(Tail(changes))
        /\ Deleted(changes) = changes[1].deletes \cup Deleted(Tail(changes))
        /\ Updated(changes') = d.moves \cup d.updates \cup Updated(Tail(changes))
        /\ Deleted(changes') = d.deletes \cup Deleted(Tail(changes))
    <3>1. \A e : /\ Updated([changes EXCEPT ![1] = e])
                      = e.moves \cup e.updates \cup Updated(Tail(changes))
                 /\ Deleted([changes EXCEPT ![1] = e]) = e.deletes \cup Deleted(Tail(changes))
      BY <1>2, <2>2, PendingAfter
    <3> QED BY <1>2, <2>2, <3>1, PendingAfter
  <2>5. /\ Updated(changes') \subseteq Updated(changes)
        /\ Updated(changes) \subseteq Updated(changes') \cup {r}
        /\ Deleted(changes') = Deleted(changes)
        /\ r \in Updated(changes)
    BY <2>a, <2>2, <2>3, <2>4 DEF NextUpdates
  <2>6. /\ DOMAIN files' = DOMAIN files \cup {r.key} /\ files'[r.key] = r.conf
        /\ \A j \in DOMAIN files : j # r.key => files'[j] = files[j]
    BY <2>2 DEF Put
  <2>7. r \in GetResources
    BY <2>5 DEF FilesFollow
  <2>8. DOMAIN files' \subseteq Keys(GetResources) \cup Deleted(changes')
    BY <2>5, <2>6, <2>7 DEF FilesFollow, Keys
  <2>9. ASSUME NEW s \in GetResources \ Updated(changes')
        PROVE  s.key \in DOMAIN files' /\ files'[s.key] = s.conf
    <3>1. CASE s = r
      BY <2>6, <3>1
    <3>2. CASE s # r
      BY <1>3, <2>5, <2>6, <2>7, <3>2 DEF FilesFollow
    <3> QED BY <3>1, <3>2
  <2>10. FilesFollow'
    BY <1>1, <2>2, <2>5, <2>8, <2>9 DEF FilesFollow
  <2> QED BY <2>2, <2>10 DEF Put
<1>6. CASE NextChangeList
  <2>1. /\ changes # <<>> /\ changes' = Tail(changes) /\ UNCHANGED <<files, phase>>
        /\ phase = "changes" /\ Head(changes).deletes = {} /\ NextUpdates = {}
    BY <1>6 DEF NextChangeList
  <2>2. Head(changes) = changes[1]
    BY <1>2, <2>1, ChangesConsumed
  <2>3. /\ Updated(changes) = changes[1].moves \cup changes[1].updates \cup Updated(Tail(changes))
        /\ Deleted(changes) = changes[1].deletes \cup Deleted(Tail(changes))
    BY <1>2, <2>1, PendingAfter
  <2>4. Updated(changes') = Updated(changes) /\ Deleted(changes') = Deleted(changes)
    BY <2>1, <2>2, <2>3 DEF NextUpdates
  <2> QED BY <1>1, <2>1, <2>4 DEF FilesFollow
<1>7. CASE processChangesFromGlobalConfiguration
  <2> DEFINE up == Updated(changes)
             del == Deleted(changes)
  <2>1. /\ changes' = <<>> /\ phase' = "changes"
        /\ files' = [k \in (DOMAIN files \cup Keys(up)) \ del |->
                       IF k \in Keys(up) THEN (CHOOSE r \in up : r.key = k).conf ELSE files[k]]
    BY <1>7 DEF processChangesFromGlobalConfiguration
  <2>2. up \subseteq GetResources /\ del \cap Keys(GetResources) = {}
        /\ DOMAIN files \subseteq Keys(GetResources) \cup del
        /\ \A r \in GetResources \ up : r.key \in DOMAIN files /\ files[r.key] = r.conf
    BY DEF FilesFollow
  <2> HIDE DEF up, del
  <2>3. Updated(changes') = {} /\ Deleted(changes') = {}
    BY <2>1, PendingOf
  <2>4. Keys(up) \subseteq Keys(GetResources)
    BY <2>2 DEF Keys
  <2>5. DOMAIN files' \subseteq Keys(GetResources)
    BY <2>1, <2>2, <2>4
  <2>6. ASSUME NEW r \in GetResources
        PROVE  r.key \in DOMAIN files' /\ files'[r.key] = r.conf
    <3>1. r.key \notin del
      BY <2>2, SMTT(20) DEF Keys
    <3>2. CASE r \in up
      <4>1. r.key \in Keys(up) /\ (CHOOSE s \in up : s.key = r.key) = r
        BY <1>3, <2>2, <3>2 DEF Keys
      <4> QED BY <2>1, <3>1, <4>1
    <3>3. CASE r \notin up
      <4>1. r.key \notin Keys(up)
        BY <1>3, <2>2, <3>3 DEF Keys
      <4>2. r.key \in DOMAIN files /\ files[r.key] = r.conf
        BY <2>2, <3>3
      <4> QED BY <2>1, <3>1, <4>1, <4>2
    <3> QED BY <3>2, <3>3
  <2>7. FilesFollow'
    BY <1>1, <2>1, <2>3, <2>5, <2>6 DEF FilesFollow
  <2> QED BY <2>1, <2>7, SMTT(20)
<1>8. CASE processProblems
  <2>1. changes = <<>> /\ UNCHANGED <<changes, files>> /\ phase' = "tail"
    BY <1>8 DEF processProblems
  <2> QED BY <1>1, <2>1 DEF FilesFollow
<1>9. CASE StartupConfigs
  <2>1. /\ changes' = <<>> /\ phase' = "idle" /\ phase = "startup"
        /\ files' = [k \in DOMAIN files \cup Keys(GetResources) |->
                       IF k \in Keys(GetResources)
                       THEN (CHOOSE r \in GetResources : r.key = k).conf ELSE files[k]]
    BY <1>9 DEF StartupConfigs
  <2>2. Updated(changes') = {} /\ Deleted(changes') = {}
    BY <2>1, PendingOf
  <2>3. DOMAIN files' = Keys(GetResources)
    BY <2>1 DEF FilesFollow
  <2>4. ASSUME NEW r \in GetResources
        PROVE  r.key \in DOMAIN files' /\ files'[r.key] = r.conf
    <3>1. r.key \in Keys(GetResources) /\ (CHOOSE s \in GetResources : s.key = r.key) = r
      BY <1>3 DEF Keys
    <3> QED BY <2>1, <3>1
  <2>5. FilesFollow'
    BY <1>1, <2>1, <2>2, <2>3, <2>4 DEF FilesFollow
  <2> QED BY <2>1, <2>5, SMTT(20)
<1> QED BY <1>4, <1>5, <1>6, <1>7, <1>8, <1>9

\* Every step preserves it, as long as IsEqual keeps its contract.
LEMMA FollowStep ==
  ASSUME IInv, IInv', StartInv, StartInv', FollowInv, [Next]_vars, [ComparisonSuffices]_vars
  PROVE  FollowInv'
<1>1. MapsOK
  BY MapsAreOK
<1>2. MapsOK'
  <2>1. (IInv /\ StartInv => MapsOK)'
    BY MapsAreOK, PTL
  <2> QED BY <2>1
<1>3. StoresTypeOK /\ StoresTypeOK'
  BY DEF IInv, ConfInv, ConfTypeOK
<1>4. CASE UNCHANGED vars
  BY <1>4 DEF vars, confVars, built, clusterVars, FollowInv, FilesFollow, GetResources
<1> SUFFICES ASSUME Next, ComparisonSuffices, ~workload.relabels PROVE FollowInv'
  <2>1. CASE Next /\ ComparisonSuffices /\ workload.relabels
    <3>1. UNCHANGED workload
      BY <2>1 DEF Next, ClusterNext, WorkerNext, FlushNext, Create, Update, Remove,
         ChangeGlobalConfiguration, ChangeNamespaceLabel, syncIngress, syncVirtualServer,
         syncVirtualServerRoute, syncTransportServer, Sync, syncGlobalConfiguration, syncUnwatched,
         WatchNamespace, UnwatchNamespace, cleanupUnwatchedNamespacedResources, cleanupKind,
         stopInformers, processDelete, processAddOrUpdate, NextChangeList,
         processChangesFromGlobalConfiguration, processProblems, EndSync, StartupRebuild,
         StartupConfigs, runStatusFlush, clusterVars
    <3> QED BY <2>1, <3>1 DEF FollowInv
  <2> QED BY <1>4, <2>1
<1>5. /\ labelled /\ watched
      /\ phase \in {"idle", "changes", "globalChanges", "tail", "startup"}
      /\ files = [k \in DOMAIN files |-> files[k]]
      /\ FilesFollow
  BY DEF FollowInv
<1>6. ASSUME UNCHANGED <<workload, labelled, watched, hosts, listenerHosts, changes, files>>,
             phase' = phase \/ (phase \in {"idle", "tail"} /\ phase' \in {"idle", "tail"})
      PROVE  FollowInv'
  BY <1>5, <1>6 DEF FollowInv, FilesFollow, GetResources
<1>7. ASSUME UNCHANGED <<workload, labelled, watched, files>>,
             phase = "idle" /\ phase' \in {"changes", "globalChanges"},
             \/ changes' = <<>> /\ UNCHANGED <<hosts, listenerHosts>>
             \/ changes' = <<hostChanges>> /\ UNCHANGED listenerHosts
             \/ changes' = <<listenerChanges>> /\ UNCHANGED hosts
             \/ changes' = <<listenerChanges, hostChanges>>
      PROVE  FollowInv'
  <2>1. changes = <<>>
    BY <1>5, <1>7 DEF FilesFollow
  <2>2. /\ Updated(changes') \subseteq GetResources'
        /\ Deleted(changes') \cap Keys(GetResources') = {}
        /\ DOMAIN files' \subseteq Keys(GetResources') \cup Deleted(changes')
        /\ \A r \in GetResources' \ Updated(changes') :
             r.key \in DOMAIN files' /\ files'[r.key] = r.conf
    BY <1>1, <1>2, <1>3, <1>5, <1>7, <2>1, OperationFollows
  <2>3. FilesFollow'
    BY <1>7, <2>2 DEF FilesFollow
  <2> QED BY <1>5, <1>7, <2>3 DEF FollowInv
<1>8. CASE ClusterNext
  BY <1>6, <1>8 DEF ClusterNext, Create, Update, Remove, ChangeGlobalConfiguration,
                    ChangeNamespaceLabel, confVars, built
<1>9. CASE \/ \E k \in Keys(Ingresses) : syncIngress(k)
           \/ \E k \in Keys(VirtualServers) : syncVirtualServer(k)
           \/ \E k \in Keys(VirtualServerRoutes) : syncVirtualServerRoute(k)
           \/ \E k \in Keys(TransportServers) : syncTransportServer(k)
  <2>1. /\ UNCHANGED <<workload, labelled, watched, files>>
        /\ phase = "idle" /\ phase' = "changes"
    BY <1>9 DEF syncIngress, syncVirtualServer, syncVirtualServerRoute, syncTransportServer, Sync,
                Get, clusterVars
  <2>2. \/ changes' = <<>> /\ UNCHANGED <<hosts, listenerHosts>>
        \/ changes' = <<hostChanges>> /\ UNCHANGED listenerHosts
        \/ changes' = <<listenerChanges>> /\ UNCHANGED hosts
        \/ changes' = <<listenerChanges, hostChanges>>
    BY <1>9 DEF syncIngress, syncVirtualServer, syncVirtualServerRoute, syncTransportServer, Sync,
                AddOrUpdateIngress, DeleteIngress, AddOrUpdateVirtualServer, DeleteVirtualServer,
                AddOrUpdateVirtualServerRoute, DeleteVirtualServerRoute,
                AddOrUpdateTransportServer, DeleteTransportServer, NothingToDelete, built,
                RebuildAfterStartup, RebuildListenersAndHosts
  <2> QED BY <1>7, <2>1, <2>2
<1>10. CASE syncGlobalConfiguration
  <2>1. /\ UNCHANGED <<workload, labelled, watched, files>>
        /\ phase = "idle" /\ phase' = "globalChanges"
    BY <1>10 DEF syncGlobalConfiguration, Get, clusterVars
  <2>2. \/ changes' = <<listenerChanges>> /\ UNCHANGED hosts
        \/ changes' = <<listenerChanges, hostChanges>>
    BY <1>10 DEF syncGlobalConfiguration, AddOrUpdateGlobalConfiguration,
                 DeleteGlobalConfiguration, RebuildListenersAndHosts
  <2> QED BY <1>7, <2>1, <2>2
<1>11. CASE \E k \in NamespaceKeys : syncUnwatched(k)
  BY <1>5, <1>11 DEF syncUnwatched, Watched
<1>12. CASE WatchNamespace
  BY <1>5, <1>6, <1>12 DEF WatchNamespace, Get, confVars, built
<1>13. CASE UnwatchNamespace
  BY <1>5, <1>13 DEF UnwatchNamespace
<1>14. CASE cleanupUnwatchedNamespacedResources
  BY <1>5, <1>14 DEF cleanupUnwatchedNamespacedResources, cleanupKind, stopInformers
<1>15. CASE \/ \E k \in ObjectKeys : processDelete(k)
            \/ \E r : processAddOrUpdate(r)
            \/ NextChangeList
            \/ processChangesFromGlobalConfiguration
            \/ processProblems
            \/ StartupConfigs
  <2>1. UNCHANGED <<workload, labelled, watched>> /\ phase' \in {"changes", "tail", "idle"}
    BY <1>15 DEF processDelete, processAddOrUpdate, NextChangeList, clusterVars,
                 processChangesFromGlobalConfiguration, processProblems, StartupConfigs
  <2> QED BY <1>1, <1>5, <1>15, <2>1, ConsumeFollows DEF FollowInv
<1>16. CASE EndSync
  BY <1>6, <1>16 DEF EndSync, confVars, built, clusterVars
<1>17. CASE StartupRebuild
  <2>1. /\ UNCHANGED <<workload, labelled, watched, files, listenerHosts>>
        /\ phase = "tail" /\ ~isNginxReady /\ phase' = "startup"
        /\ changes' = <<hostChanges>>
    BY <1>17 DEF StartupRebuild, CompleteStartup, clusterVars
  <2>2. changes = <<>> /\ hosts = EmptyMap
    BY <1>5, <2>1 DEF FilesFollow, StartInv
  <2>3. /\ Updated(changes') \subseteq GetResources'
        /\ Deleted(changes') \cap Keys(GetResources') = {}
        /\ DOMAIN files' \subseteq Keys(GetResources') \cup Deleted(changes')
        /\ \A r \in GetResources' \ Updated(changes') :
             r.key \in DOMAIN files' /\ files'[r.key] = r.conf
    BY <1>1, <1>2, <1>3, <1>5, <2>1, <2>2, OperationFollows
  <2>4. Values(hosts) = {} /\ Keys({}) = {}
    BY <2>2 DEF EmptyMap, Values, Keys
  <2>5. Deleted(changes') = {}
    <3>1. hostChanges.deletes = Keys(Values(hosts)) \ Keys(Values(hosts'))
      BY <1>1, <1>2, SquashComplete DEF hostChanges, MapsOK
    <3> QED BY <2>1, <2>4, <3>1, PendingOf
  <2>6. FilesFollow'
    BY <2>1, <2>3, <2>5 DEF FilesFollow
  <2> QED BY <1>5, <2>1, <2>6 DEF FollowInv
<1>18. CASE FlushNext
  BY <1>6, <1>18 DEF FlushNext, runStatusFlush, confVars, built, clusterVars
<1> QED BY <1>8, <1>9, <1>10, <1>11, <1>12, <1>13, <1>14, <1>15, <1>16, <1>17, <1>18
        DEF Next, WorkerNext

\* Once the worker is idle there are no pending changes, and the files are exact.
LEMMA IdleExact ==
  ASSUME MapsOK, FollowInv, ~workload.relabels
  PROVE  FilesReflectConfiguration
<1> SUFFICES ASSUME Quiescent
             PROVE  files = [k \in Keys(GetResources) |->
                               (CHOOSE r \in GetResources : r.key = k).conf]
  BY DEF FilesReflectConfiguration
<1>1. FilesFollow /\ changes = <<>> /\ files = [k \in DOMAIN files |-> files[k]]
  BY DEF FollowInv, FilesFollow, Quiescent
<1>2. Updated(changes) = {} /\ Deleted(changes) = {}
  BY <1>1, PendingOf
<1>3. DOMAIN files = Keys(GetResources)
  <2>1. DOMAIN files \subseteq Keys(GetResources)
    BY <1>1, <1>2 DEF FilesFollow
  <2>2. \A r \in GetResources : r.key \in DOMAIN files
    BY <1>1, <1>2 DEF FilesFollow
  <2> QED BY <2>1, <2>2 DEF Keys
<1>4. ASSUME NEW k \in Keys(GetResources)
      PROVE  files[k] = (CHOOSE r \in GetResources : r.key = k).conf
  <2>1. PICK s \in GetResources : s.key = k
    BY DEF Keys
  <2>2. (CHOOSE r \in GetResources : r.key = k) = s
    BY <2>1, ResourcesOnce
  <2> QED BY <1>1, <1>2, <2>1, <2>2 DEF FilesFollow
<1> QED BY <1>1, <1>3, <1>4

\* The startup sequence, for every interleaving.
LEMMA StartInvariance == Spec => []StartInv
<1>1. Init => StartInv
  BY FlagsAssumption, SMTT(20) DEF Init, ConfInit, StartInv
<1>2. IInv /\ StartInv /\ [Next]_vars => StartInv'
  BY StartStep
<1> QED BY <1>1, <1>2, Invariance, PTL DEF Spec

\* Before the first task there is nothing to serve and no file.
LEMMA FollowStart == Init => FollowInv
<1> SUFFICES ASSUME Init PROVE FollowInv
  OBVIOUS
<1>1. Values(EmptyMap) = {} /\ DOMAIN EmptyMap = {} /\ Keys({}) = {}
      /\ EmptyMap = [k \in DOMAIN EmptyMap |-> EmptyMap[k]]
  BY DEF EmptyMap, Values, Keys
<1>2. GetResources = {}
  BY <1>1 DEF Init, ConfInit, GetResources
<1>3. FilesFollow
  BY <1>1, <1>2, PendingOf DEF Init, ConfInit, FilesFollow
<1> QED BY <1>1, <1>3 DEF Init, FollowInv

\* The updates and deletes that the operations return are enough to keep the files exact:
\* provided IsEqual only takes resources for the same whose config is the same, an idle worker
\* leaves exactly the files of the active resources (namespaces keep their labels).
THEOREM ChangesSuffice ==
  Spec /\ [][ComparisonSuffices]_vars => [](~workload.relabels => FilesReflectConfiguration)
<1>1. Init => FollowInv
  BY FollowStart
<1>2. IInv /\ IInv' /\ StartInv /\ StartInv' /\ FollowInv /\ [Next]_vars /\ [ComparisonSuffices]_vars
      => FollowInv'
  BY FollowStep
<1>3. IInv /\ StartInv /\ FollowInv => (~workload.relabels => FilesReflectConfiguration)
  BY MapsAreOK, IdleExact
<1> QED BY <1>1, <1>2, <1>3, Invariance, StartInvariance, PTL DEF Spec

-----------------------------------------------------------------------------
(* The owners of the hosts, seen from the cluster.                         *)

\* Once the queue is empty the stores hold the valid objects of the cluster.
LEMMA StoresAtRest ==
  ASSUME IInv, StoresCurrent, Quiescent
  PROVE  /\ Values(ingresses) = OfKind(Ingresses)
         /\ Values(virtualServers) = OfKind(VirtualServers)
         /\ Values(transportServers) = OfKind(TransportServers)
<1>1. \A k \in DOMAIN cluster : cluster[k].key = k
  BY DEF IInv, TypeOK
<1>2. ASSUME NEW store, NEW objects, StoreOf(store, objects),
             \A k \in Keys(objects) : Agrees(store, k, Watched(k))
      PROVE  Values(store) = OfKind(objects)
  <2>1. ASSUME NEW o \in Values(store) PROVE o \in OfKind(objects)
    <3>1. /\ o.key \in DOMAIN store /\ store[o.key] = o /\ o.key \in Keys(objects)
      BY <1>2 DEF Values, StoreOf, Keys
    <3>2. o.key \in Visible /\ cluster[o.key] = o /\ o.check = "ok"
      BY <1>2, <3>1 DEF Agrees, Visible
    <3> QED BY <3>1, <3>2 DEF OfKind, Accepted
  <2>2. ASSUME NEW o \in OfKind(objects) PROVE o \in Values(store)
    <3>1. PICK k \in Visible : cluster[k].check = "ok" /\ o = cluster[k]
      BY DEF OfKind, Accepted
    <3>2. k \in Keys(objects) /\ k \in DOMAIN cluster /\ Watched(k)
      BY <1>1, <3>1 DEF OfKind, Visible
    <3> QED BY <1>2, <3>1, <3>2 DEF Agrees, Values
  <2> QED BY <2>1, <2>2
<1>3. /\ \A k \in Keys(Ingresses) : Agrees(ingresses, k, Watched(k))
      /\ \A k \in Keys(VirtualServers) : Agrees(virtualServers, k, Watched(k))
      /\ \A k \in Keys(TransportServers) : Agrees(transportServers, k, Watched(k))
  BY DEF StoresCurrent, Current, Quiescent, Agrees
<1>4. /\ StoreOf(ingresses, Ingresses) /\ StoreOf(virtualServers, VirtualServers)
      /\ StoreOf(transportServers, TransportServers)
  BY DEF IInv, ConfInv, ConfTypeOK, StoresTypeOK
<1> QED BY <1>2, <1>3, <1>4

\* Then the objects that claim a host are those that want it.
LEMMA WantedIsClaimed ==
  ASSUME IInv, StoresCurrent, Quiescent, NEW h
  PROVE  Wanting(h) = Claimants(h)
<1>1. /\ Values(ingresses) = OfKind(Ingresses)
      /\ Values(virtualServers) = OfKind(VirtualServers)
      /\ Values(transportServers) = OfKind(TransportServers)
  BY StoresAtRest
<1>2. StoresTypeOK
  BY DEF IInv, ConfInv, ConfTypeOK
<1>3. ASSUME NEW ing \in Values(ingresses), h \in ing.hosts, ing.challenge
      PROVE  ing.hosts = {h}
  BY <1>2, <1>3, HostsAssumption, SMTT(20) DEF StoresTypeOK, StoreOf, Values
<1>4. ASSUME NEW ts \in Values(transportServers), isTLSPassthrough(ts)
      PROVE  isTLSPassthroughEnabled /\ ts.protocol = "TLS_PASSTHROUGH"
  BY <1>2, <1>4, TransportServersAssumption, SMTT(20)
  DEF StoresTypeOK, StoreOf, Values, TLSPassthroughListenerProtocol
<1>5. {ing \in HostIngresses : h \in ing.hosts}
        = {ing \in Values(ingresses) :
             /\ h \in ing.hosts /\ ing.role # "minion"
             /\ ~(/\ ing.challenge /\ isCertManagerEnabled
                  /\ \E vs \in Values(virtualServers) : vs.host = h)}
  BY <1>3 DEF HostIngresses, isMinion, convertedToVSR
<1>6. {ts \in HostTransportServers : ts.host = h}
        = {ts \in Values(transportServers) :
             isTLSPassthroughEnabled /\ ts.protocol = "TLS_PASSTHROUGH" /\ ts.host = h}
  BY <1>4 DEF HostTransportServers, isTLSPassthrough, TLSPassthroughListenerProtocol
<1> QED BY <1>1, <1>5, <1>6, SMTT(20) DEF Wanting, Claimants

\* Exactly one of the claimants is older than all others.
LEMMA OldestWins ==
  ASSUME StoresTypeOK, NEW h, Claimants(h) # {}
  PROVE  {w \in Claimants(h) : \A v \in Claimants(h) \ {w} : Older(w, v)} = {Winner(Claimants(h))}
<1> DEFINE S == Claimants(h)
           w == Winner(S)
<1>1. /\ w \in S /\ \A p \in S \ {w} : chooseObjectMetaWinner(w, p)
      /\ \A o \in S : o.created \in Nat /\ o.uid \in Int
  <2>1. S \subseteq AllObjects
    BY ClaimantsOK
  <2> QED BY <2>1, OwnerWins, MetadataAssumption
<1> HIDE DEF S, w
<1>2. \A p \in S \ {w} : Older(w, p) /\ ~Older(p, w)
  BY <1>1 DEF chooseObjectMetaWinner, Older
<1>3. {o \in S : \A v \in S \ {o} : Older(o, v)} = {w}
  BY <1>1, <1>2
<1> QED BY <1>3 DEF S, w

\* The config of a resource has a server for the host.
Serves(r, h) ==
  \/ r.key \in Keys(Ingresses) /\ h \in r.conf.hosts
  \/ r.key \in Keys(VirtualServers) /\ h = r.conf.host
  \/ /\ r.key \in Keys(TransportServers)
     /\ h = r.conf.host /\ r.conf.listener = "tls-passthrough"

\* A resource of the host map has servers for the hosts it holds, one of the listener map for
\* none (NewIngressConfiguration, VirtualServerConfiguration, PassthroughConfiguration).
LEMMA ServesWhatItHolds ==
  ASSUME StoresTypeOK, NEW h
  PROVE  /\ \A r \in Values(newHosts) : Serves(r, h) <=> h \in r.holds
         /\ \A r \in Values(newListenerHosts) : ~Serves(r, h)
<1>1. ASSUME NEW r \in Values(newHosts) PROVE Serves(r, h) <=> h \in r.holds
  <2>1. PICK g \in ClaimedHosts : r = newHosts[g]
    BY NewHostsOK DEF Values
  <2> DEFINE w == Winner(Claimants(g))
  <2>2. /\ r = HostResource(w) /\ r.key = w.key
        /\ r.holds = {f \in ClaimedHosts : Winner(Claimants(f)) = w}
    BY <2>1, HostHeld
  <2>3. w \in Claimants(g)
    BY <2>1, OwnerWins DEF ClaimedHosts
  <2>4. \A f \in r.holds : w \in Claimants(f)
    BY <2>2, OwnerWins DEF ClaimedHosts
  <2>5. g \in r.holds
    BY <2>1, <2>2
  <2> HIDE DEF w
  <2>6. CASE w \in Values(ingresses)
    <3>1. w.key \in Keys(Ingresses)
      BY <2>6, StoredKinds DEF Keys
    <3>2. r.conf.hosts = r.holds
      BY <2>2, <2>6 DEF HostResource, IngressConfiguration, NewIngressConfiguration
    <3> QED BY <2>2, <3>1, <3>2, KindsAssumption DEF Serves
  <2>7. CASE w \in Values(virtualServers)
    <3>1. w.key \in Keys(VirtualServers) /\ w \notin Values(ingresses)
      BY <2>7, StoredKinds, KindsAssumption DEF Keys
    <3>2. r.conf.host = w.host
      BY <2>2, <2>7, <3>1 DEF HostResource, VirtualServerConfiguration
    <3>3. w \notin Values(transportServers)
      BY <3>1, StoredKinds, KindsAssumption, SMTT(20) DEF Keys
    <3>4. \A f : w \in Claimants(f) => w.host = f
      BY <3>1, <3>3 DEF Claimants, HostIngresses, HostTransportServers
    <3>5. h = w.host <=> h \in r.holds
      BY <2>4, <2>5, <3>4
    <3> QED BY <2>2, <3>1, <3>2, <3>5, KindsAssumption DEF Serves
  <2>8. CASE w \in Values(transportServers)
    <3>1. w.key \in Keys(TransportServers) /\ w \notin Values(ingresses)
          /\ w \notin Values(virtualServers)
      BY <2>8, StoredKinds, KindsAssumption DEF Keys
    <3>2. r.conf.host = w.host /\ r.conf.listener = w.listener
      BY <2>2, <3>1 DEF HostResource, PassthroughConfiguration, TransportServerConfiguration
    <3>3. \A f : w \in Claimants(f) => w.host = f /\ isTLSPassthrough(w)
      BY <3>1 DEF Claimants, HostIngresses, HostTransportServers
    <3>4. w.listener = "tls-passthrough"
      BY <2>3, <2>8, <3>3, TransportServersAssumption, SMTT(20)
      DEF StoresTypeOK, StoreOf, Values, TLSPassthroughListenerName
    <3>5. h = w.host <=> h \in r.holds
      BY <2>4, <2>5, <3>3
    <3> QED BY <2>2, <3>1, <3>2, <3>4, <3>5, KindsAssumption DEF Serves
  <2> QED BY <2>3, <2>6, <2>7, <2>8 DEF Claimants, HostIngresses, HostTransportServers
<1>2. ASSUME NEW r \in Values(newListenerHosts) PROVE ~Serves(r, h)
  <2>1. PICK lh \in DOMAIN newListenerHosts : r = newListenerHosts[lh]
    BY DEF Values
  <2> DEFINE w == Winner(ListenerClaimants(lh))
  <2>2. w \in ListenerClaimants(lh)
    <3>1. ListenerClaimants(lh) # {}
      BY DEF newListenerHosts, ListenerClaimants
    <3>2. /\ \A o \in ListenerClaimants(lh) : o.created \in Nat /\ o.uid \in 0..MaxUID
          /\ \A o, p \in ListenerClaimants(lh) : o # p => o.uid # p.uid
      BY ListenerClaimantsOK, MetadataAssumption DEF AllObjects
    <3> QED BY <3>1, <3>2, WinnerWins
  <2>3. r.key = w.key /\ r.conf.listener = w.listener
    BY <2>1 DEF newListenerHosts, TransportServerConfiguration
  <2> HIDE DEF w
  <2>4. w \in Values(transportServers) /\ w.protocol # "TLS_PASSTHROUGH"
    BY <2>2 DEF ListenerClaimants, ListenerTransportServers, TLSPassthroughListenerProtocol
  <2>5. w.listener # "tls-passthrough"
    BY <2>4, TransportServersAssumption, SMTT(20)
    DEF StoresTypeOK, StoreOf, Values, isTLSPassthrough, TLSPassthroughListenerName,
        TLSPassthroughListenerProtocol
  <2>6. w.key \in Keys(TransportServers)
    BY <2>4, StoredKinds DEF Keys
  <2> QED BY <2>3, <2>5, <2>6, KindsAssumption DEF Serves
<1> QED BY <1>1, <1>2

\* With the files of the active resources, a host is served by the file of its winner.
LEMMA ServedByWinner ==
  ASSUME IInv, StartInv, Quiescent, FilesReflectConfiguration, NEW h \in Hosts
  PROVE  Serving(h) = {Winner(Claimants(g)).key : g \in ClaimedHosts \cap {h}}
<1>1. StoresTypeOK /\ MapsOK
  BY MapsAreOK DEF IInv, ConfInv, ConfTypeOK
<1>2. hosts = newHosts /\ listenerHosts = newListenerHosts
  BY DEF IInv, ConfInv, RebuiltAfterStartup, StartInv, Quiescent
<1>3. /\ DOMAIN files = Keys(GetResources)
      /\ \A r \in GetResources : files[r.key] = r.conf
  <2>1. files = [k \in Keys(GetResources) |-> (CHOOSE r \in GetResources : r.key = k).conf]
    BY DEF FilesReflectConfiguration
  <2>2. ASSUME NEW r \in GetResources PROVE files[r.key] = r.conf
    <3>1. (CHOOSE s \in GetResources : s.key = r.key) = r
      BY <1>1, ResourcesOnce
    <3>2. r.key \in Keys(GetResources)
      BY DEF Keys
    <3> QED BY <2>1, <3>1, <3>2
  <2> QED BY <2>1, <2>2
<1>4. Serving(h) = {r.key : r \in {s \in GetResources : Serves(s, h)}}
  <2>1. \A r \in GetResources : r.key \in Serving(h) <=> Serves(r, h)
    BY <1>3 DEF Serving, Serves, Keys
  <2>2. \A k \in Serving(h) : \E r \in GetResources : r.key = k
    BY <1>3 DEF Serving, Keys
  <2> QED BY <2>1, <2>2
<1>5. \A r \in GetResources : Serves(r, h) <=> r \in Values(newHosts) /\ h \in r.holds
  BY <1>1, <1>2, ServesWhatItHolds DEF GetResources
<1>6. ASSUME NEW r \in Values(newHosts), h \in r.holds
      PROVE  h \in ClaimedHosts /\ r.key = Winner(Claimants(h)).key
  <2>1. PICK g \in ClaimedHosts : r = newHosts[g]
    BY <1>1, NewHostsOK DEF Values
  <2>2. /\ r.key = Winner(Claimants(g)).key
        /\ r.holds = {f \in ClaimedHosts : Winner(Claimants(f)) = Winner(Claimants(g))}
    BY <1>1, <2>1, HostHeld
  <2> QED BY <1>6, <2>2
<1>7. ASSUME h \in ClaimedHosts
      PROVE  newHosts[h] \in Values(newHosts) /\ h \in newHosts[h].holds
             /\ newHosts[h].key = Winner(Claimants(h)).key
  BY <1>1, <1>7, HostHeld, NewHostsOK DEF Values
<1>8. Values(newHosts) \subseteq GetResources
  BY <1>2 DEF GetResources
<1>9. ASSUME NEW k \in Serving(h) PROVE h \in ClaimedHosts /\ k = Winner(Claimants(h)).key
  BY <1>4, <1>5, <1>6
<1>10. ASSUME h \in ClaimedHosts PROVE Winner(Claimants(h)).key \in Serving(h)
  BY <1>4, <1>5, <1>7, <1>8, <1>10
<1> QED BY <1>9, <1>10

\* A host is served by the config of the oldest valid object of the cluster that wants it, and
\* by no other, whenever the worker has caught up and the files are those of the Configuration.
THEOREM OldestIsServed == Spec => [](FilesReflectConfiguration => HostServedByOldest)
<1>1. IInv /\ StartInv /\ StoresCurrent => (FilesReflectConfiguration => HostServedByOldest)
  <2> SUFFICES ASSUME IInv, StartInv, StoresCurrent, FilesReflectConfiguration, Quiescent,
                      NEW h \in Hosts
               PROVE  Serving(h) = {o.key : o \in {w \in Wanting(h) :
                                                     \A v \in Wanting(h) \ {w} : Older(w, v)}}
    BY DEF HostServedByOldest
  <2>1. Wanting(h) = Claimants(h)
    BY WantedIsClaimed
  <2>2. Serving(h) = {Winner(Claimants(g)).key : g \in ClaimedHosts \cap {h}}
    BY ServedByWinner
  <2>3. StoresTypeOK
    BY DEF IInv, ConfInv, ConfTypeOK
  <2>4. CASE Claimants(h) = {}
    BY <2>1, <2>2, <2>4 DEF ClaimedHosts
  <2>5. CASE Claimants(h) # {}
    <3>1. {w \in Claimants(h) : \A v \in Claimants(h) \ {w} : Older(w, v)}
            = {Winner(Claimants(h))}
      BY <2>3, <2>5, OldestWins
    <3>2. ClaimedHosts \cap {h} = {h}
      BY <2>5 DEF ClaimedHosts
    <3> QED BY <2>1, <2>2, <3>1, <3>2, SMTT(20)
  <2> QED BY <2>4, <2>5
<1> QED BY <1>1, Invariance, StartInvariance, MemoryCurrent, PTL

-----------------------------------------------------------------------------
(* What a step may store, and what it leaves alone.                        *)

\* The workload is chosen once.
LEMMA WorkloadFixed == [Next]_vars => UNCHANGED workload
BY DEF vars, Next, ClusterNext, WorkerNext, FlushNext, Create, Update, Remove,
       ChangeGlobalConfiguration, ChangeNamespaceLabel, syncIngress, syncVirtualServer,
       syncVirtualServerRoute, syncTransportServer, Sync, syncGlobalConfiguration, syncUnwatched,
       WatchNamespace, UnwatchNamespace, cleanupUnwatchedNamespacedResources, cleanupKind,
       stopInformers, processDelete, processAddOrUpdate, NextChangeList,
       processChangesFromGlobalConfiguration, processProblems, EndSync, StartupRebuild,
       StartupConfigs, runStatusFlush, clusterVars

\* A worker that has crashed changes nothing any more.
LEMMA CrashedStays ==
  phase = "crashed" /\ [Next]_vars =>
    UNCHANGED <<hosts, listenerHosts, stores, changes, files, phase>>
BY DEF vars, confVars, built, stores, Next, ClusterNext, WorkerNext, FlushNext, Create, Update,
       Remove, ChangeGlobalConfiguration, ChangeNamespaceLabel, syncIngress, syncVirtualServer,
       syncVirtualServerRoute, syncTransportServer, Sync, Get, syncGlobalConfiguration,
       syncUnwatched, WatchNamespace, UnwatchNamespace, cleanupUnwatchedNamespacedResources,
       cleanupKind, stopInformers, processDelete, processAddOrUpdate, NextChangeList,
       processChangesFromGlobalConfiguration, processProblems, EndSync, StartupRebuild,
       StartupConfigs, runStatusFlush

\* What a step may do to a store: an object stays, or the version of the cluster is stored.
FromCluster(store, new) ==
  \A k \in DOMAIN new :
    \/ k \in DOMAIN store /\ new[k] = store[k]
    \/ k \in DOMAIN cluster /\ new[k] = cluster[k]

\* The steps of the worker only store what the cluster holds.
LEMMA StoresFromCluster ==
  ASSUME IInv, [Next]_vars, ~ClusterNext
  PROVE  /\ UNCHANGED <<workload, cluster, clusterGC>>
         /\ FromCluster(ingresses, ingresses') /\ FromCluster(virtualServers, virtualServers')
         /\ FromCluster(virtualServerRoutes, virtualServerRoutes')
         /\ FromCluster(transportServers, transportServers')
         /\ globalConfiguration' \in {globalConfiguration, EmptyMap} \cup clusterGC
         /\ phase = "crashed" => phase' = "crashed"
<1>1. ASSUME UNCHANGED stores
      PROVE  /\ FromCluster(ingresses, ingresses') /\ FromCluster(virtualServers, virtualServers')
             /\ FromCluster(virtualServerRoutes, virtualServerRoutes')
             /\ FromCluster(transportServers, transportServers')
             /\ globalConfiguration' \in {globalConfiguration, EmptyMap} \cup clusterGC
  BY <1>1 DEF stores, FromCluster
<1>2. ASSUME NEW store, NEW k \in DOMAIN cluster
      PROVE  FromCluster(store, Stored(store, cluster[k]))
  <2>1. cluster[k].key = k
    BY DEF IInv, TypeOK
  <2> QED BY <2>1 DEF FromCluster, Stored, Put, Without
<1>3. ASSUME NEW store, NEW k
      PROVE  FromCluster(store, Without(store, k)) /\ FromCluster(store, store)
  BY DEF FromCluster, Without
<1>4. ASSUME NEW store, NEW keys
      PROVE  FromCluster(store, WithoutKeys(store, keys))
  BY DEF FromCluster, WithoutKeys
<1>5. CASE \E k \in Keys(Ingresses) : syncIngress(k)
  <2>1. PICK k \in Keys(Ingresses) : syncIngress(k)
    BY <1>5
  <2>2. UNCHANGED <<workload, cluster, clusterGC>> /\ phase = "idle"
    BY <2>1 DEF syncIngress, Sync, Get, clusterVars
  <2>3. CASE k \in DOMAIN cluster
    BY <1>2, <1>3, <2>1, <2>2, <2>3 DEF syncIngress, Sync, AddOrUpdateIngress
  <2>4. CASE k \notin DOMAIN cluster
    BY <1>1, <1>3, <2>1, <2>2, <2>4 DEF syncIngress, Sync, DeleteIngress, NothingToDelete
  <2> QED BY <2>3, <2>4
<1>6. CASE \E k \in Keys(VirtualServers) : syncVirtualServer(k)
  <2>1. PICK k \in Keys(VirtualServers) : syncVirtualServer(k)
    BY <1>6
  <2>2. UNCHANGED <<workload, cluster, clusterGC>> /\ phase = "idle"
    BY <2>1 DEF syncVirtualServer, Sync, Get, clusterVars
  <2>3. CASE k \in DOMAIN cluster
    BY <1>2, <1>3, <2>1, <2>2, <2>3 DEF syncVirtualServer, Sync, AddOrUpdateVirtualServer
  <2>4. CASE k \notin DOMAIN cluster
    BY <1>1, <1>3, <2>1, <2>2, <2>4
    DEF syncVirtualServer, Sync, DeleteVirtualServer, NothingToDelete
  <2> QED BY <2>3, <2>4
<1>7. CASE \E k \in Keys(VirtualServerRoutes) : syncVirtualServerRoute(k)
  <2>1. PICK k \in Keys(VirtualServerRoutes) : syncVirtualServerRoute(k)
    BY <1>7
  <2>2. UNCHANGED <<workload, cluster, clusterGC>> /\ phase = "idle"
    BY <2>1 DEF syncVirtualServerRoute, Sync, Get, clusterVars
  <2>3. CASE k \in DOMAIN cluster
    BY <1>2, <1>3, <2>1, <2>2, <2>3
    DEF syncVirtualServerRoute, Sync, AddOrUpdateVirtualServerRoute
  <2>4. CASE k \notin DOMAIN cluster
    BY <1>1, <1>3, <2>1, <2>2, <2>4
    DEF syncVirtualServerRoute, Sync, DeleteVirtualServerRoute, NothingToDelete
  <2> QED BY <2>3, <2>4
<1>8. CASE \E k \in Keys(TransportServers) : syncTransportServer(k)
  <2>1. PICK k \in Keys(TransportServers) : syncTransportServer(k)
    BY <1>8
  <2>2. UNCHANGED <<workload, cluster, clusterGC>> /\ phase = "idle"
    BY <2>1 DEF syncTransportServer, Sync, Get, clusterVars
  <2>3. CASE k \in DOMAIN cluster
    BY <1>2, <1>3, <2>1, <2>2, <2>3 DEF syncTransportServer, Sync, AddOrUpdateTransportServer
  <2>4. CASE k \notin DOMAIN cluster
    BY <1>1, <1>3, <2>1, <2>2, <2>4
    DEF syncTransportServer, Sync, DeleteTransportServer, NothingToDelete
  <2> QED BY <2>3, <2>4
<1>9. CASE syncGlobalConfiguration
  <2>1. /\ UNCHANGED <<workload, cluster, clusterGC>> /\ phase = "idle"
        /\ UNCHANGED <<ingresses, virtualServers, virtualServerRoutes, transportServers>>
        /\ globalConfiguration' \in {EmptyMap} \cup clusterGC
    BY <1>9 DEF syncGlobalConfiguration, Get, clusterVars, AddOrUpdateGlobalConfiguration,
                DeleteGlobalConfiguration
  <2> QED BY <1>3, <2>1
<1>10. CASE cleanupUnwatchedNamespacedResources
  <2>1. UNCHANGED <<workload, cluster, clusterGC>> /\ phase # "crashed"
    BY <1>10 DEF cleanupUnwatchedNamespacedResources, cleanupKind, stopInformers, clusterVars
  <2>2. UNCHANGED stores \/ \E listed : cleanupListed(listed)
    BY <1>10 DEF cleanupUnwatchedNamespacedResources, cleanupKind, stopInformers, confVars
  <2>3. ASSUME NEW listed, cleanupListed(listed)
        PROVE  /\ ingresses' = WithoutKeys(ingresses, listed)
               /\ virtualServers' = WithoutKeys(virtualServers, listed)
               /\ transportServers' = WithoutKeys(transportServers, listed)
               /\ virtualServerRoutes' = WithoutKeys(virtualServerRoutes, listed)
               /\ UNCHANGED globalConfiguration
    BY <2>3 DEF cleanupListed
  <2> QED BY <1>1, <1>4, <2>1, <2>2, <2>3
<1>11. CASE \/ \E k \in NamespaceKeys : syncUnwatched(k)
            \/ WatchNamespace \/ UnwatchNamespace \/ EndSync \/ StartupRebuild \/ FlushNext
  <2>1. /\ UNCHANGED <<workload, cluster, clusterGC, stores>>
        /\ phase = "crashed" => phase' = "crashed"
    BY <1>11 DEF syncUnwatched, WatchNamespace, UnwatchNamespace, EndSync, StartupRebuild,
                 CompleteStartup, FlushNext, runStatusFlush, Get, confVars, clusterVars
  <2> QED BY <1>1, <2>1
<1>12. CASE \/ \E k \in ObjectKeys : processDelete(k)
            \/ \E r : processAddOrUpdate(r)
            \/ NextChangeList
            \/ processChangesFromGlobalConfiguration
            \/ processProblems
            \/ StartupConfigs
  <2>1. UNCHANGED <<workload, cluster, clusterGC, stores>> /\ phase # "crashed"
    BY <1>12 DEF processDelete, processAddOrUpdate, NextChangeList, StartupConfigs,
                 processChangesFromGlobalConfiguration, processProblems, clusterVars
  <2> QED BY <1>1, <2>1
<1>13. CASE UNCHANGED vars
  BY <1>1, <1>13 DEF vars, confVars, clusterVars
<1> QED BY <1>5, <1>6, <1>7, <1>8, <1>9, <1>10, <1>11, <1>12, <1>13 DEF Next, WorkerNext

\* What the resource of a host is made of.
HostsMade ==
  \A h \in DOMAIN newHosts : \E w, held :
    \/ /\ w \in Values(ingresses)
       /\ newHosts[h] = NewIngressConfiguration(w, buildMinionConfigs(w), held)
    \/ w \in Values(virtualServers) /\ newHosts[h] = VirtualServerConfiguration(w)
    \/ /\ w \in Values(transportServers)
       /\ newHosts[h] = TransportServerConfiguration(w, held, 0, "default")

\* A host goes to a stored Ingress, VirtualServer or TransportServer (buildHostsAndResources).
LEMMA HostEntry == StoresTypeOK => HostsMade
<1> SUFFICES ASSUME StoresTypeOK, NEW h \in DOMAIN newHosts
             PROVE  \E w, held :
                      \/ /\ w \in Values(ingresses)
                         /\ newHosts[h] = NewIngressConfiguration(w, buildMinionConfigs(w), held)
                      \/ w \in Values(virtualServers) /\ newHosts[h] = VirtualServerConfiguration(w)
                      \/ /\ w \in Values(transportServers)
                         /\ newHosts[h] = TransportServerConfiguration(w, held, 0, "default")
  BY DEF HostsMade
<1> DEFINE w == Winner(Claimants(h))
<1>1. h \in ClaimedHosts /\ newHosts[h] = HostResource(w)
  BY NewHostsOK, HostHeld
<1>2. w \in Values(ingresses) \cup Values(virtualServers) \cup Values(transportServers)
  BY <1>1, OwnerWins DEF ClaimedHosts, Claimants, HostIngresses, HostTransportServers
<1> HIDE DEF w
<1>3. CASE w \in Values(ingresses)
  BY <1>1, <1>3 DEF HostResource, IngressConfiguration
<1>4. CASE w \notin Values(ingresses) /\ w \in Values(virtualServers)
  BY <1>1, <1>4 DEF HostResource
<1>5. CASE w \notin Values(ingresses) /\ w \notin Values(virtualServers)
  BY <1>1, <1>2, <1>5 DEF HostResource, PassthroughConfiguration
<1> QED BY <1>3, <1>4, <1>5

\* The keys of the four stores are keys of objects (every store is filled from the lister of
\* its kind).
LEMMA StoredAreKeys == IInv => StoredKeys \subseteq ObjectKeys
<1> SUFFICES ASSUME IInv PROVE StoredKeys \subseteq ObjectKeys
  OBVIOUS
<1>1. /\ StoreOf(ingresses, Ingresses)
      /\ StoreOf(virtualServers, VirtualServers)
      /\ StoreOf(virtualServerRoutes, VirtualServerRoutes)
      /\ StoreOf(transportServers, TransportServers)
  BY DEF IInv, ConfInv, ConfTypeOK, StoresTypeOK
<1>2. /\ DOMAIN ingresses \subseteq Keys(Ingresses)
      /\ DOMAIN virtualServers \subseteq Keys(VirtualServers)
      /\ DOMAIN virtualServerRoutes \subseteq Keys(VirtualServerRoutes)
      /\ DOMAIN transportServers \subseteq Keys(TransportServers)
  BY <1>1 DEF StoreOf
<1>3. /\ Keys(Ingresses) \subseteq ObjectKeys
      /\ Keys(VirtualServers) \subseteq ObjectKeys
      /\ Keys(VirtualServerRoutes) \subseteq ObjectKeys
      /\ Keys(TransportServers) \subseteq ObjectKeys
  BY DEF ObjectKeys, AllObjects, Keys
<1> QED BY <1>2, <1>3 DEF StoredKeys

-----------------------------------------------------------------------------
(***************************************************************************)
(* Namespaces.  The cleanup of a namespace that is no longer watched drops *)
(* the changes that the Configuration returns, so nothing but the listers  *)
(* tells it which files to remove; KeysFollow says why that is enough: no  *)
(* resource has a file that is neither active nor about to be deleted.     *)
(***************************************************************************)

\* No Ingress is ever turned into a route: cert-manager's integration is off, or it solves no
\* challenge through an Ingress (convertedToVSR).
NoSolvers == \A ing \in Ingresses : ~(isCertManagerEnabled /\ ing.challenge)

\* Every file belongs to an active resource or has a pending delete; the changes are used up
\* between two tasks; a resource of an unwatched namespace with a pending delete has a task.
KeysFollow ==
  phase # "crashed" =>
    /\ Updated(changes) \subseteq GetResources
    /\ NoSolvers => DOMAIN files \subseteq Keys(GetResources) \cup Deleted(changes)
    /\ phase \notin {"changes", "globalChanges", "startup"} => changes = <<>>
    /\ phase = "startup" => Deleted(changes) = {}
    /\ ~watched => NamespaceKeys \cap Deleted(changes) \subseteq queue

\* The winner of some claimants still wins when others withdraw.
LEMMA WinnerStays ==
  ASSUME NEW S, NEW T, T \subseteq S,
         \A o \in S : o.created \in Nat /\ o.uid \in 0..MaxUID,
         \A o, p \in S : o # p => o.uid # p.uid,
         Winner(S) \in T
  PROVE  Winner(T) = Winner(S)
<1>1. Winner(S) \in S /\ \A p \in S \ {Winner(S)} : chooseObjectMetaWinner(Winner(S), p)
  BY WinnerWins
<1>2. Winner(T) \in T /\ \A p \in T \ {Winner(T)} : chooseObjectMetaWinner(Winner(T), p)
  <2>1. T # {} /\ (\A o \in T : o.created \in Nat /\ o.uid \in 0..MaxUID)
        /\ \A o, p \in T : o # p => o.uid # p.uid
    OBVIOUS
  <2> QED BY <2>1, WinnerWins
<1>3. MaxUID \in Nat
  BY MetadataAssumption
<1>4. ASSUME NEW x \in S, NEW y \in S, chooseObjectMetaWinner(x, y), chooseObjectMetaWinner(y, x)
      PROVE  FALSE
  BY <1>3, <1>4, SMTT(20) DEF chooseObjectMetaWinner
<1> QED BY <1>1, <1>2, <1>4

\* Every active resource was made from a stored object (buildHostsAndResources,
\* buildListenerHostsAndTSConfigurations).
LEMMA ActiveStored ==
  IInv /\ StartInv => Keys(GetResources) \subseteq StoredKeys
<1> SUFFICES ASSUME IInv, StartInv, NEW r \in GetResources PROVE r.key \in StoredKeys
  BY DEF Keys
<1>1. MapsOK
  BY MapsAreOK
<1>2. StoresTypeOK /\ (startupComplete => hosts = newHosts) /\ startupComplete \in BOOLEAN
  BY DEF IInv, ConfInv, ConfTypeOK, RebuiltAfterStartup
<1>3. CASE r \in Values(listenerHosts)
  BY <1>1, <1>3 DEF MapsOK, StoredKeys
<1>4. CASE r \in Values(hosts)
  <2>1. hosts = newHosts
    BY <1>2, <1>4 DEF StartInv, EmptyMap, Values
  <2>2. PICK h \in ClaimedHosts : r.key = Winner(Claimants(h)).key
    BY <1>2, <1>4, <2>1, NewHostsOK DEF Values
  <2>3. Winner(Claimants(h)) \in Claimants(h)
    BY <1>2, OwnerWins DEF ClaimedHosts
  <2>4. Winner(Claimants(h)) \in Values(ingresses) \cup Values(virtualServers)
                                   \cup Values(transportServers)
    BY <2>3 DEF Claimants, HostIngresses, HostTransportServers
  <2> QED BY <1>2, <2>2, <2>4, StoredKinds DEF StoredKeys
<1> QED BY <1>3, <1>4 DEF GetResources

\* An object that leaves takes no listener away from another one and, without solver Ingresses,
\* no host: who is not cleaned up keeps what it has (cleanupUnwatchedNamespacedResources).
LEMMA OwnersStay ==
  ASSUME IInv, ConfInv', StartInv, NEW listed, cleanupListed(listed)
  PROVE  /\ NoSolvers => \A h \in DOMAIN hosts : hosts[h].key \notin listed =>
              h \in DOMAIN hosts' /\ hosts'[h].key = hosts[h].key
         /\ \A lh \in DOMAIN listenerHosts : listenerHosts[lh].key \notin listed =>
              lh \in DOMAIN listenerHosts' /\ listenerHosts'[lh].key = listenerHosts[lh].key
<1>1. /\ StoresTypeOK /\ startupComplete \in BOOLEAN
      /\ listenerHosts = newListenerHosts /\ (startupComplete => hosts = newHosts)
  BY DEF IInv, ConfInv, ConfTypeOK, RebuiltAfterStartup
<1>2. /\ StoresTypeOK' /\ startupComplete' = startupComplete
      /\ listenerHosts' = newListenerHosts' /\ (startupComplete => hosts' = newHosts')
  BY DEF cleanupListed, ConfInv, ConfTypeOK, rebuildListenerHosts, rebuildHosts
<1>3. ASSUME NEW f, NEW g, g = WithoutKeys(f, listed)
      PROVE  Values(g) \subseteq Values(f) /\ \A k \in DOMAIN f \ listed : f[k] \in Values(g)
  BY <1>3 DEF WithoutKeys, Values
<1>4. /\ ingresses' = WithoutKeys(ingresses, listed)
      /\ virtualServers' = WithoutKeys(virtualServers, listed)
      /\ transportServers' = WithoutKeys(transportServers, listed)
      /\ globalConfiguration' = globalConfiguration
  BY DEF cleanupListed
<1>5. /\ Values(ingresses') \subseteq Values(ingresses)
      /\ \A k \in DOMAIN ingresses \ listed : ingresses[k] \in Values(ingresses')
      /\ Values(virtualServers') \subseteq Values(virtualServers)
      /\ \A k \in DOMAIN virtualServers \ listed : virtualServers[k] \in Values(virtualServers')
      /\ Values(transportServers') \subseteq Values(transportServers)
      /\ \A k \in DOMAIN transportServers \ listed :
           transportServers[k] \in Values(transportServers')
  BY <1>3, <1>4
<1>6. (StoresTypeOK =>
         /\ DOMAIN newHosts = ClaimedHosts
         /\ \A h \in ClaimedHosts : newHosts[h].key = Winner(Claimants(h)).key
         /\ Keys(Values(newHosts)) \subseteq Keys(AllObjects))'
  BY NewHostsOK, PTL
<1>7. ASSUME NoSolvers, NEW h \in DOMAIN hosts, hosts[h].key \notin listed
      PROVE  h \in DOMAIN hosts' /\ hosts'[h].key = hosts[h].key
  <2>1. startupComplete /\ hosts = newHosts
    BY <1>1, <1>7 DEF StartInv, EmptyMap
  <2>2. h \in ClaimedHosts /\ hosts[h].key = Winner(Claimants(h)).key
    BY <1>1, <2>1, NewHostsOK
  <2>3. PICK w : w = Winner(Claimants(h))
    OBVIOUS
  <2>4. w \in Claimants(h) /\ w.key \notin listed
    BY <1>1, <1>7, <2>2, <2>3, OwnerWins DEF ClaimedHosts
  <2>5. PICK S : S = Claimants(h)
    OBVIOUS
  <2>6. PICK T : T = Claimants(h)'
    OBVIOUS
  <2>7. \A o \in Values(ingresses) : ~convertedToVSR(o) /\ ~convertedToVSR(o)'
    BY <1>1, <1>7, StoredKinds DEF NoSolvers, convertedToVSR
  <2>8. T \subseteq S
    BY <1>5, <2>5, <2>6, <2>7 DEF Claimants, HostIngresses, HostTransportServers, isMinion,
                                  isTLSPassthrough
  <2>9. w \in T
    <3>1. \/ w \in Values(ingresses) /\ ~isMinion(w) /\ h \in w.hosts
          \/ w \in Values(virtualServers) /\ w.host = h
          \/ /\ w \in Values(transportServers) /\ w.host = h
             /\ isTLSPassthroughEnabled /\ isTLSPassthrough(w)
      BY <2>4 DEF Claimants, HostIngresses, HostTransportServers
    <3>2. \/ w \in Values(ingresses') /\ ~isMinion(w) /\ h \in w.hosts
          \/ w \in Values(virtualServers') /\ w.host = h
          \/ /\ w \in Values(transportServers') /\ w.host = h
             /\ isTLSPassthroughEnabled /\ isTLSPassthrough(w)
      BY <1>1, <1>5, <2>4, <3>1, StoredKinds, SMTT(20)
    <3> QED BY <1>5, <2>6, <2>7, <3>2 DEF Claimants, HostIngresses, HostTransportServers, isMinion,
                                          isTLSPassthrough
  <2>10. Winner(T) = w
    <3>1. /\ \A o \in S : o.created \in Nat /\ o.uid \in 0..MaxUID
          /\ \A o, p \in S : o # p => o.uid # p.uid
      BY <1>1, <2>5, ClaimantsOK
    <3>2. Winner(S) = w
      BY <2>3, <2>5
    <3> QED BY <2>8, <2>9, <3>1, <3>2, WinnerStays
  <2>11. h \in ClaimedHosts'
    BY <2>2, <2>6, <2>9 DEF ClaimedHosts
  <2>12. newHosts'[h].key = Winner(T).key /\ h \in DOMAIN newHosts'
    BY <1>2, <1>6, <2>6, <2>11 DEF Winner, chooseObjectMetaWinner
  <2> QED BY <1>2, <2>1, <2>2, <2>3, <2>10, <2>12
<1>8. ASSUME NEW lh \in DOMAIN listenerHosts, listenerHosts[lh].key \notin listed
      PROVE  lh \in DOMAIN listenerHosts' /\ listenerHosts'[lh].key = listenerHosts[lh].key
  <2>1. PICK S : S = ListenerClaimants(lh)
    OBVIOUS
  <2>2. PICK T : T = ListenerClaimants(lh)'
    OBVIOUS
  <2>3. S # {}
    BY <1>1, <2>1 DEF newListenerHosts, ListenerClaimants
  <2>4. /\ \A o \in S : o.created \in Nat /\ o.uid \in 0..MaxUID
        /\ \A o, p \in S : o # p => o.uid # p.uid
    BY <1>1, <2>1, ListenerClaimantsOK, MetadataAssumption, SMTT(20) DEF AllObjects
  <2>5. PICK w : w = Winner(S)
    OBVIOUS
  <2>6. w \in S
    BY <2>3, <2>4, <2>5, WinnerWins
  <2>7. listenerHosts[lh].key = w.key
    BY <1>1, <2>1, <2>5 DEF newListenerHosts, TransportServerConfiguration
  <2>8. T \subseteq S
    BY <1>4, <1>5, <2>1, <2>2 DEF ListenerClaimants, ListenerTransportServers, hasListener,
                                 listenerHostKey
  <2>9. w \in T
    <3>1. w \in Values(transportServers)
      BY <2>1, <2>6 DEF ListenerClaimants, ListenerTransportServers
    <3>2. w \in Values(transportServers')
      BY <1>1, <1>5, <1>8, <2>7, <3>1, StoredKinds, SMTT(20)
    <3> QED BY <1>4, <2>1, <2>2, <2>6, <3>2 DEF ListenerClaimants, ListenerTransportServers,
                                               hasListener, listenerHostKey
  <2>10. Winner(T) = w
    BY <2>4, <2>5, <2>8, <2>9, WinnerStays
  <2>11. lh \in DOMAIN newListenerHosts' /\ newListenerHosts'[lh].key = Winner(T).key
    BY <2>2, <2>9 DEF newListenerHosts, ListenerClaimants, TransportServerConfiguration, Winner,
                      chooseObjectMetaWinner
  <2> QED BY <1>2, <2>7, <2>10, <2>11
<1> QED BY <1>7, <1>8

\* What an operation of the worker returns: it updates active resources only, it deletes what
\* was active, and it deletes whatever is active no longer.
LEMMA KeysRebuilt ==
  ASSUME MapsOK, MapsOK', files' = files,
         \/ changes' = <<>> /\ UNCHANGED <<hosts, listenerHosts>>
         \/ changes' = <<hostChanges>> /\ UNCHANGED listenerHosts
         \/ changes' = <<listenerChanges>> /\ UNCHANGED hosts
         \/ changes' = <<listenerChanges, hostChanges>>
  PROVE  /\ Updated(changes') \subseteq GetResources'
         /\ DOMAIN files \subseteq Keys(GetResources) =>
              DOMAIN files' \subseteq Keys(GetResources') \cup Deleted(changes')
         /\ Deleted(changes') \subseteq Keys(GetResources)
<1> DEFINE hc == hostChanges
           lc == listenerChanges
<1>1. /\ hc.moves \cup hc.updates \subseteq Values(hosts')
      /\ hc.deletes = Keys(Values(hosts)) \ Keys(Values(hosts'))
  BY SquashComplete DEF hostChanges, MapsOK
<1>2. /\ lc.moves \cup lc.updates \subseteq Values(listenerHosts')
      /\ lc.deletes = Keys(Values(listenerHosts)) \ Keys(Values(listenerHosts'))
  BY SquashComplete DEF listenerChanges, MapsOK
<1>3. UNCHANGED hosts => hc.deletes = {} /\ hc.moves = {} /\ hc.updates = {}
  BY SquashSame DEF hostChanges
<1>4. UNCHANGED listenerHosts => lc.deletes = {} /\ lc.moves = {} /\ lc.updates = {}
  BY SquashSame DEF listenerChanges
<1>5. /\ Updated(changes') = hc.moves \cup hc.updates \cup lc.moves \cup lc.updates
      /\ Deleted(changes') = hc.deletes \cup lc.deletes
  BY <1>3, <1>4, PendingOf, SMTT(20)
<1> HIDE DEF hc, lc
<1>6. \A S, T : Keys(S \cup T) = Keys(S) \cup Keys(T)
  BY DEF Keys
<1>7. /\ Keys(GetResources) = Keys(Values(hosts)) \cup Keys(Values(listenerHosts))
      /\ Keys(GetResources') = Keys(Values(hosts')) \cup Keys(Values(listenerHosts'))
      /\ GetResources' = Values(hosts') \cup Values(listenerHosts')
  BY <1>6 DEF GetResources
<1> QED BY <1>1, <1>2, <1>5, <1>7

\* The steps that process the pending changes.
LEMMA KeysConsumed ==
  ASSUME IInv, KeysFollow,
         \/ \E k \in ObjectKeys : processDelete(k)
         \/ \E r : processAddOrUpdate(r)
         \/ NextChangeList
         \/ processChangesFromGlobalConfiguration
         \/ processProblems
         \/ StartupConfigs
  PROVE  KeysFollow'
<1>1. UNCHANGED <<queue, watched>> /\ GetResources' = GetResources
  BY DEF processDelete, processAddOrUpdate, NextChangeList, built, GetResources, clusterVars,
         processChangesFromGlobalConfiguration, processProblems, StartupConfigs
<1>2. ChangesOK(changes)
  BY DEF IInv, ConfInv, ConfTypeOK, ChangesOK
<1>3. /\ phase # "crashed"
      /\ Updated(changes) \subseteq GetResources
      /\ NoSolvers => DOMAIN files \subseteq Keys(GetResources) \cup Deleted(changes)
      /\ phase = "startup" => Deleted(changes) = {}
      /\ ~watched => NamespaceKeys \cap Deleted(changes) \subseteq queue
  BY DEF KeysFollow, processDelete, processAddOrUpdate, NextChangeList,
         processChangesFromGlobalConfiguration, processProblems, StartupConfigs
<1>4. ASSUME phase' = "changes", Updated(changes') \subseteq Updated(changes),
             Deleted(changes') \subseteq Deleted(changes),
             NoSolvers => DOMAIN files' \subseteq Keys(GetResources) \cup Deleted(changes')
      PROVE  KeysFollow'
  BY <1>1, <1>3, <1>4 DEF KeysFollow
<1>5. ASSUME NEW d, changes # <<>>, changes' = [changes EXCEPT ![1] = d],
             d.moves \subseteq changes[1].moves, d.updates \subseteq changes[1].updates
      PROVE  /\ Updated(changes') \subseteq Updated(changes)
             /\ Deleted(changes) = changes[1].deletes \cup Deleted(Tail(changes))
             /\ Deleted(changes') = d.deletes \cup Deleted(Tail(changes))
  <2>1. \A e : /\ Updated([changes EXCEPT ![1] = e])
                    = e.moves \cup e.updates \cup Updated(Tail(changes))
               /\ Deleted([changes EXCEPT ![1] = e]) = e.deletes \cup Deleted(Tail(changes))
    BY <1>2, <1>5, PendingAfter
  <2>2. /\ Updated(changes) = changes[1].moves \cup changes[1].updates \cup Updated(Tail(changes))
        /\ Deleted(changes) = changes[1].deletes \cup Deleted(Tail(changes))
    BY <1>2, <1>5, PendingAfter
  <2> QED BY <1>5, <2>1, <2>2
<1>6. CASE \E k \in ObjectKeys : processDelete(k)
  <2>1. PICK k \in ObjectKeys : processDelete(k)
    BY <1>6
  <2>2. PICK d : d = [changes[1] EXCEPT !.deletes = @ \ {k}]
    OBVIOUS
  <2>3. /\ changes # <<>> /\ changes' = [changes EXCEPT ![1] = d]
        /\ files' = Without(files, k) /\ phase' = "changes"
    BY <2>1, <2>2 DEF processDelete
  <2>4. ChangeListOK(changes[1])
    BY <1>2, <2>3, ChangesConsumed
  <2>5. d.deletes = changes[1].deletes \ {k} /\ d.moves = changes[1].moves
        /\ d.updates = changes[1].updates
    BY <2>2, <2>4 DEF ChangeListOK
  <2>6. DOMAIN files' = DOMAIN files \ {k}
    BY <2>3 DEF Without
  <2> QED BY <1>3, <1>4, <1>5, <2>3, <2>5, <2>6
<1>7. CASE \E r : processAddOrUpdate(r)
  <2>1. PICK r : processAddOrUpdate(r)
    BY <1>7
  <2>2. PICK d : d = Processed(changes[1], r)
    OBVIOUS
  <2>3. /\ changes # <<>> /\ changes' = [changes EXCEPT ![1] = d]
        /\ files' = Put(files, r.key, r.conf) /\ phase' = "changes"
        /\ r \in NextUpdates
    BY <2>1, <2>2 DEF processAddOrUpdate
  <2>4. d.deletes = changes[1].deletes /\ d.moves = changes[1].moves \ {r}
        /\ d.updates = changes[1].updates \ {r}
    BY <2>2 DEF Processed
  <2>5. r \in Updated(changes)
    <3>1. Head(changes) = changes[1]
      BY <1>2, <2>3, ChangesConsumed
    <3>2. Updated(changes) = changes[1].moves \cup changes[1].updates \cup Updated(Tail(changes))
      BY <1>2, <2>3, PendingAfter
    <3> QED BY <2>3, <3>1, <3>2 DEF NextUpdates
  <2>6. DOMAIN files' = DOMAIN files \cup {r.key} /\ r.key \in Keys(GetResources)
    BY <1>3, <2>3, <2>5 DEF Put, Keys
  <2> QED BY <1>3, <1>4, <1>5, <2>3, <2>4, <2>6
<1>8. CASE NextChangeList
  <2>1. /\ changes # <<>> /\ changes' = Tail(changes) /\ UNCHANGED <<files, phase>>
        /\ phase = "changes" /\ Head(changes).deletes = {}
    BY <1>8 DEF NextChangeList
  <2>2. /\ Head(changes) = changes[1]
        /\ Updated(changes) = changes[1].moves \cup changes[1].updates \cup Updated(Tail(changes))
        /\ Deleted(changes) = changes[1].deletes \cup Deleted(Tail(changes))
    BY <1>2, <2>1, ChangesConsumed, PendingAfter
  <2> QED BY <1>3, <1>4, <2>1, <2>2
<1>9. CASE processChangesFromGlobalConfiguration
  <2>1. /\ changes' = <<>> /\ phase' = "changes"
        /\ DOMAIN files' = (DOMAIN files \cup Keys(Updated(changes))) \ Deleted(changes)
    BY <1>9 DEF processChangesFromGlobalConfiguration
  <2>2. Keys(Updated(changes)) \subseteq Keys(GetResources)
    BY <1>3 DEF Keys
  <2> QED BY <1>3, <1>4, <2>1, <2>2, PendingOf
<1>10. CASE processProblems
  <2>1. changes = <<>> /\ UNCHANGED <<changes, files>> /\ phase' = "tail"
    BY <1>10 DEF processProblems
  <2> QED BY <1>1, <1>3, <2>1 DEF KeysFollow
<1>11. CASE StartupConfigs
  <2>1. /\ changes' = <<>> /\ phase' = "idle" /\ phase = "startup"
        /\ DOMAIN files' = DOMAIN files \cup Keys(GetResources)
    BY <1>11 DEF StartupConfigs
  <2>2. Updated(changes') = {} /\ Deleted(changes') = {}
    BY <2>1, PendingOf
  <2> QED BY <1>1, <1>3, <2>1, <2>2 DEF KeysFollow
<1> QED BY <1>6, <1>7, <1>8, <1>9, <1>10, <1>11

\* What is stored of an unwatched namespace has a task (syncNamespace, AddSyncQueue).
LEMMA UnwatchedStored ==
  ASSUME IInv, StoresCurrent, ~watched, phase # "crashed"
  PROVE  NamespaceKeys \cap StoredKeys \subseteq queue
<1> SUFFICES ASSUME NEW k \in NamespaceKeys \cap StoredKeys, k \notin queue PROVE FALSE
  OBVIOUS
<1>1. ~Watched(k)
  BY DEF Watched
<1>2. /\ DOMAIN ingresses \subseteq Keys(Ingresses)
      /\ DOMAIN virtualServers \subseteq Keys(VirtualServers)
      /\ DOMAIN transportServers \subseteq Keys(TransportServers)
      /\ DOMAIN virtualServerRoutes \subseteq Keys(VirtualServerRoutes)
  BY DEF IInv, ConfInv, ConfTypeOK, StoresTypeOK, StoreOf
<1> QED BY <1>1, <1>2 DEF StoresCurrent, Current, Agrees, StoredKeys

\* Every step keeps the keys of the files within the active and the deleted resources.
LEMMA KeysStep ==
  ASSUME IInv, IInv', StartInv, StartInv', StoresCurrent, KeysFollow, [Next]_vars
  PROVE  KeysFollow'
<1>1. MapsOK /\ Keys(GetResources) \subseteq StoredKeys
  BY MapsAreOK, ActiveStored
<1>2. MapsOK'
  <2>1. (IInv /\ StartInv => MapsOK)'
    BY MapsAreOK, PTL
  <2> QED BY <2>1
<1>3. CASE phase = "crashed"
  <2>1. phase' = "crashed"
    <3>1. CASE ClusterNext
      BY <1>3, <3>1 DEF ClusterNext, Create, Update, Remove, ChangeGlobalConfiguration,
                        ChangeNamespaceLabel
    <3>2. CASE ~ClusterNext
      BY <1>3, <3>2, StoresFromCluster
    <3> QED BY <3>1, <3>2
  <2> QED BY <2>1 DEF KeysFollow
<1>4. CASE UNCHANGED vars
  BY <1>4 DEF vars, confVars, built, clusterVars, KeysFollow, GetResources
<1> SUFFICES ASSUME Next, phase # "crashed" PROVE KeysFollow'
  BY <1>3, <1>4
<1>5. /\ Updated(changes) \subseteq GetResources
      /\ NoSolvers => DOMAIN files \subseteq Keys(GetResources) \cup Deleted(changes)
      /\ phase \notin {"changes", "globalChanges", "startup"} => changes = <<>>
      /\ phase = "startup" => Deleted(changes) = {}
      /\ ~watched => NamespaceKeys \cap Deleted(changes) \subseteq queue
      /\ Updated(<<>>) = {} /\ Deleted(<<>>) = {}
  BY PendingOf DEF KeysFollow
<1>6. ASSUME UNCHANGED <<hosts, listenerHosts, changes, files, watched, phase>>,
             queue \subseteq queue'
      PROVE  KeysFollow'
  BY <1>6 DEF KeysFollow, GetResources
<1>7. ASSUME UNCHANGED <<hosts, listenerHosts, changes, files>>, changes = <<>>,
             phase' # "startup"
      PROVE  KeysFollow'
  BY <1>5, <1>7 DEF KeysFollow, GetResources
<1>8. ASSUME UNCHANGED <<watched, files>>, phase = "idle", phase' \in {"changes", "globalChanges"},
             NamespaceKeys \cap StoredKeys \cap queue \subseteq queue' \/ watched,
             \/ changes' = <<>> /\ UNCHANGED <<hosts, listenerHosts>>
             \/ changes' = <<hostChanges>> /\ UNCHANGED listenerHosts
             \/ changes' = <<listenerChanges>> /\ UNCHANGED hosts
             \/ changes' = <<listenerChanges, hostChanges>>
      PROVE  KeysFollow'
  <2>1. NoSolvers => DOMAIN files \subseteq Keys(GetResources)
    BY <1>5, <1>8
  <2>2. /\ Updated(changes') \subseteq GetResources'
        /\ NoSolvers => DOMAIN files' \subseteq Keys(GetResources') \cup Deleted(changes')
        /\ Deleted(changes') \subseteq Keys(GetResources)
    BY <1>1, <1>2, <1>8, <2>1, KeysRebuilt
  <2>3. ~watched => NamespaceKeys \cap StoredKeys \subseteq queue
    BY UnwatchedStored
  <2>4. ~watched' => NamespaceKeys \cap Deleted(changes') \subseteq queue'
    BY <1>1, <1>8, <2>2, <2>3
  <2> QED BY <1>8, <2>2, <2>4 DEF KeysFollow
<1>9. CASE ClusterNext
  BY <1>6, <1>9 DEF ClusterNext, Create, Update, Remove, ChangeGlobalConfiguration,
                    ChangeNamespaceLabel, confVars, built, AddSyncQueue
<1>10. CASE \/ \E k \in Keys(Ingresses) : syncIngress(k)
            \/ \E k \in Keys(VirtualServers) : syncVirtualServer(k)
            \/ \E k \in Keys(VirtualServerRoutes) : syncVirtualServerRoute(k)
            \/ \E k \in Keys(TransportServers) : syncTransportServer(k)
  <2>1. /\ UNCHANGED <<watched, files>> /\ phase = "idle" /\ phase' = "changes"
        /\ \E k : queue' = queue \ {k} /\ Watched(k)
    BY <1>10 DEF syncIngress, syncVirtualServer, syncVirtualServerRoute, syncTransportServer, Sync,
                 Get, clusterVars
  <2>2. NamespaceKeys \cap StoredKeys \cap queue \subseteq queue' \/ watched
    BY <2>1 DEF Watched
  <2>3. \/ changes' = <<>> /\ UNCHANGED <<hosts, listenerHosts>>
        \/ changes' = <<hostChanges>> /\ UNCHANGED listenerHosts
        \/ changes' = <<listenerChanges>> /\ UNCHANGED hosts
        \/ changes' = <<listenerChanges, hostChanges>>
    BY <1>10 DEF syncIngress, syncVirtualServer, syncVirtualServerRoute, syncTransportServer, Sync,
                 AddOrUpdateIngress, DeleteIngress, AddOrUpdateVirtualServer, DeleteVirtualServer,
                 AddOrUpdateVirtualServerRoute, DeleteVirtualServerRoute,
                 AddOrUpdateTransportServer, DeleteTransportServer, NothingToDelete, built,
                 RebuildAfterStartup, RebuildListenersAndHosts
  <2> QED BY <1>8, <2>1, <2>2, <2>3
<1>11. CASE syncGlobalConfiguration
  <2>1. /\ UNCHANGED <<watched, files>> /\ phase = "idle" /\ phase' = "globalChanges"
        /\ queue' = queue \ {GlobalConfigurationKey}
    BY <1>11 DEF syncGlobalConfiguration, Get, clusterVars
  <2>2. StoredKeys \subseteq ObjectKeys
    BY StoredAreKeys
  <2>3. NamespaceKeys \cap StoredKeys \cap queue \subseteq queue'
    BY <2>1, <2>2, TasksAssumption
  <2>4. \/ changes' = <<listenerChanges>> /\ UNCHANGED hosts
        \/ changes' = <<listenerChanges, hostChanges>>
    BY <1>11 DEF syncGlobalConfiguration, AddOrUpdateGlobalConfiguration,
                 DeleteGlobalConfiguration, RebuildListenersAndHosts
  <2> QED BY <1>8, <2>1, <2>3, <2>4
<1>12. CASE \E k \in NamespaceKeys : syncUnwatched(k)
  BY <1>12 DEF syncUnwatched, KeysFollow
<1>13. CASE WatchNamespace \/ UnwatchNamespace \/ EndSync \/ stopInformers
  BY <1>5, <1>7, <1>13 DEF WatchNamespace, UnwatchNamespace, EndSync, stopInformers, Get, confVars,
                           built
<1>14. ASSUME NEW this, NEW objects, NEW next, cleanupKind(this, objects, next),
              this \notin {"changes", "globalChanges", "startup"}, next # "startup"
       PROVE  KeysFollow'
  <2> DEFINE listed == NamespaceKeys \cap DOMAIN cluster \cap Keys(objects)
  <2>1. /\ cleanupListed(listed) /\ phase' = next /\ phase = this
        /\ UNCHANGED <<watched, queue, changes>> /\ files' = WithoutKeys(files, listed)
    BY <1>14 DEF cleanupKind, clusterVars, cleanupListed
  <2> HIDE DEF listed
  <2>2. changes = <<>> /\ changes' = <<>>
    BY <1>5, <1>14, <2>1
  <2>3. NoSolvers => Keys(GetResources) \ listed \subseteq Keys(GetResources')
    BY <2>1, OwnersStay, SMTT(20) DEF IInv, GetResources, Values, Keys
  <2>4. NoSolvers => DOMAIN files' \subseteq Keys(GetResources')
    BY <1>5, <2>1, <2>2, <2>3 DEF WithoutKeys
  <2> QED BY <1>5, <1>14, <2>1, <2>2, <2>4 DEF KeysFollow
<1>15. CASE cleanupUnwatchedNamespacedResources
  BY <1>13, <1>14, <1>15 DEF cleanupUnwatchedNamespacedResources
<1>16. CASE \/ \E k \in ObjectKeys : processDelete(k)
            \/ \E r : processAddOrUpdate(r)
            \/ NextChangeList
            \/ processChangesFromGlobalConfiguration
            \/ processProblems
            \/ StartupConfigs
  BY <1>16, KeysConsumed
<1>17. CASE StartupRebuild
  <2>1. /\ UNCHANGED <<watched, files, listenerHosts>> /\ phase = "tail" /\ phase' = "startup"
        /\ changes' = <<hostChanges>> /\ ~isNginxReady
    BY <1>17 DEF StartupRebuild, CompleteStartup, clusterVars
  <2>2. hosts = EmptyMap /\ Values(EmptyMap) = {} /\ Keys({}) = {}
    BY <2>1 DEF StartInv, EmptyMap, Values, Keys
  <2>3. /\ Updated(changes') \subseteq GetResources'
        /\ NoSolvers => DOMAIN files' \subseteq Keys(GetResources') \cup Deleted(changes')
    BY <1>1, <1>2, <1>5, <2>1, KeysRebuilt
  <2>4. Deleted(changes') = {}
    <3>1. hostChanges.deletes = Keys(Values(hosts)) \ Keys(Values(hosts'))
      BY <1>1, <1>2, SquashComplete DEF hostChanges, MapsOK
    <3> QED BY <2>1, <2>2, <3>1, PendingOf
  <2> QED BY <2>1, <2>3, <2>4 DEF KeysFollow
<1>18. CASE FlushNext
  BY <1>6, <1>18 DEF FlushNext, runStatusFlush, confVars, built, clusterVars
<1> QED BY <1>9, <1>10, <1>11, <1>12, <1>13, <1>15, <1>16, <1>17, <1>18 DEF Next, WorkerNext

\* For every interleaving.
LEMMA KeysAlways == Spec => []KeysFollow
<1>1. Init => KeysFollow
  <2> SUFFICES ASSUME Init PROVE KeysFollow
    OBVIOUS
  <2>1. DOMAIN files = {} /\ changes = <<>> /\ watched /\ phase = "idle"
    BY DEF Init, ConfInit, EmptyMap
  <2> QED BY <2>1, PendingOf DEF KeysFollow
<1>2. IInv /\ IInv' /\ StartInv /\ StartInv' /\ StoresCurrent /\ KeysFollow /\ [Next]_vars
      => KeysFollow'
  BY KeysStep
<1> QED BY <1>1, <1>2, Invariance, StartInvariance, MemoryCurrent, PTL DEF Spec

\* "we need to remove any configuration for resources deployed in that namespace": without the
\* solver Ingresses of cert-manager, nothing of a namespace that is no longer watched is left in
\* the Configuration or on disk, but for what has a task, whatever is created, deleted or
\* relabelled while the cleanup goes from kind to kind.
THEOREM NothingLeft ==
  ASSUME NoSolvers
  PROVE  Spec => []UnwatchedLeavesNothing
<1>1. IInv /\ StartInv /\ StoresCurrent /\ KeysFollow => UnwatchedLeavesNothing
  <2> SUFFICES ASSUME IInv, StartInv, StoresCurrent, KeysFollow, ~watched, phase # "crashed"
               PROVE  NamespaceKeys \cap (DOMAIN files \cup StoredKeys \cup Keys(GetResources))
                        \subseteq queue
    BY DEF UnwatchedLeavesNothing
  <2>1. NamespaceKeys \cap StoredKeys \subseteq queue
    BY UnwatchedStored
  <2>2. Keys(GetResources) \subseteq StoredKeys
    BY ActiveStored
  <2>3. /\ DOMAIN files \subseteq Keys(GetResources) \cup Deleted(changes)
        /\ NamespaceKeys \cap Deleted(changes) \subseteq queue
    BY DEF KeysFollow
  <2> QED BY <2>1, <2>2, <2>3
<1> QED BY <1>1, KeysAlways, Invariance, StartInvariance, MemoryCurrent, PTL

\* Where nobody relabels a namespace, all keep their informers and no cleanup starts.
LabelInv ==
  ~workload.relabels =>
    /\ labelled /\ watched
    /\ phase \in {"idle", "changes", "globalChanges", "tail", "startup"}

\* Nobody asks syncNamespace to stop watching (ChangeNamespaceLabel).
LEMMA LabelsKept == Spec => []LabelInv
<1>1. Init => LabelInv
  BY DEF Init, LabelInv
<1>2. ASSUME LabelInv, [Next]_vars PROVE LabelInv'
  <2> SUFFICES ASSUME ~workload.relabels, labelled, watched,
                      phase \in {"idle", "changes", "globalChanges", "tail", "startup"},
                      workload' = workload
               PROVE  labelled' /\ watched'
                      /\ phase' \in {"idle", "changes", "globalChanges", "tail", "startup"}
    BY <1>2, WorkloadFixed DEF LabelInv
  <2>1. CASE ClusterNext
    BY <2>1 DEF ClusterNext, Create, Update, Remove, ChangeGlobalConfiguration,
                ChangeNamespaceLabel
  <2>2. CASE \/ \E k \in Keys(Ingresses) : syncIngress(k)
             \/ \E k \in Keys(VirtualServers) : syncVirtualServer(k)
             \/ \E k \in Keys(VirtualServerRoutes) : syncVirtualServerRoute(k)
             \/ \E k \in Keys(TransportServers) : syncTransportServer(k)
    BY <2>2 DEF syncIngress, syncVirtualServer, syncVirtualServerRoute, syncTransportServer,
                Sync, clusterVars
  <2>3. CASE \/ syncGlobalConfiguration
             \/ \E k \in NamespaceKeys : syncUnwatched(k)
             \/ WatchNamespace \/ UnwatchNamespace
    BY <2>3 DEF syncGlobalConfiguration, syncUnwatched, Watched, WatchNamespace,
                UnwatchNamespace, clusterVars
  <2>4. CASE cleanupUnwatchedNamespacedResources
    BY <2>4 DEF cleanupUnwatchedNamespacedResources, cleanupKind, stopInformers
  <2>5. CASE \/ \E k \in ObjectKeys : processDelete(k)
             \/ \E r : processAddOrUpdate(r)
             \/ NextChangeList
             \/ processChangesFromGlobalConfiguration
             \/ processProblems
             \/ EndSync \/ StartupRebuild \/ StartupConfigs \/ FlushNext
    BY <2>5 DEF processDelete, processAddOrUpdate, NextChangeList,
                processChangesFromGlobalConfiguration, processProblems, EndSync,
                StartupRebuild, StartupConfigs, FlushNext, runStatusFlush, clusterVars
  <2>6. CASE UNCHANGED vars
    BY <2>6 DEF vars, clusterVars
  <2> QED BY <1>2, <2>1, <2>2, <2>3, <2>4, <2>5, <2>6 DEF Next, WorkerNext
<1> QED BY <1>1, <1>2, PTL DEF Spec
=============================================================================
