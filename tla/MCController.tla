---------------------------- MODULE MCController ----------------------------
(***************************************************************************)
(* Small clusters for model checking Controller.  Every version of every    *)
(* object has a body of its own, so that a config file generated from an    *)
(* old version is told from one generated from the current version.  A UID  *)
(* is used once, so the UIDs of a key bound how often it can be created.    *)
(***************************************************************************)
EXTENDS Controller

CONSTANTS a, b,              \* hosts
          i1, i2, i3,        \* Ingresses
          v1, v2, r1,        \* VirtualServers and a VirtualServerRoute
          t1, t2, l1, l2,    \* TransportServers and listeners
          p1, p2             \* paths

MCHosts == {a, b}

Meta(key, uid, created, gen, check) ==
  [key |-> key, uid |-> uid, created |-> created, gen |-> gen, check |-> check,
   body |-> 10 * uid + gen]

Ing(meta, role, hs, paths, challenge) ==
  [key |-> meta.key, uid |-> meta.uid, created |-> meta.created, gen |-> meta.gen,
   check |-> meta.check, body |-> meta.body,
   role |-> role, hosts |-> hs, paths |-> paths, challenge |-> challenge]

VS(meta, host, routes, http, https) ==
  [key |-> meta.key, uid |-> meta.uid, created |-> meta.created, gen |-> meta.gen,
   check |-> meta.check, body |-> meta.body,
   host |-> host, routes |-> routes, http |-> http, https |-> https]

VSR(meta, host) ==
  [key |-> meta.key, uid |-> meta.uid, created |-> meta.created, gen |-> meta.gen,
   check |-> meta.check, body |-> meta.body, host |-> host]

TS(meta, host, listener, protocol) ==
  [key |-> meta.key, uid |-> meta.uid, created |-> meta.created, gen |-> meta.gen,
   check |-> meta.check, body |-> meta.body,
   host |-> host, listener |-> listener, protocol |-> protocol]

-----------------------------------------------------------------------------
(* Hosts: two Ingresses of the same second, one of them with two hosts, and a *)
(* younger VirtualServer compete for two hosts.                             *)

CompetingIngresses ==
  {Ing(Meta(i1, 1, 1, g, "ok"), "regular", IF g = 1 THEN {a} ELSE {a, b}, {}, FALSE) : g \in 1..2}
    \cup {Ing(Meta(i2, 2, 1, 1, "ok"), "regular", hs, {}, FALSE) : hs \in {{a}, {a, b}}}
    \cup {Ing(Meta(i2, 2, 1, 2, "ok"), "regular", {b}, {}, FALSE),
          Ing(Meta(i1, 1, 1, 2, "invalid"), "regular", {a}, {}, FALSE)}

CompetingVirtualServers ==
  {VS(Meta(v1, 4, 2, 1, "ok"), h, {}, "none", "none") : h \in {a, b}}
    \cup {VS(Meta(v1, 4, 2, 2, check), b, {}, "none", "none") : check \in {"ok", "other"}}

-----------------------------------------------------------------------------
(* Mergeable Ingresses: a master, and two minions that share a path; one may *)
(* move to the other host, become a regular Ingress, or become invalid.     *)

Masters == {Ing(Meta(i1, 1, 1, g, "ok"), "master", {h}, {}, FALSE) : g \in 1..2, h \in {a, b}}

Minions ==
  {Ing(Meta(i2, 2, 2, 1, "ok"), role, {a}, {p1, p2}, FALSE) : role \in {"minion", "regular"}}
    \cup {Ing(Meta(i2, 2, 2, 2, "ok"), "minion", {b}, {p1}, FALSE),
          Ing(Meta(i2, 2, 2, 2, "invalid"), "minion", {a}, {p1}, FALSE)}
    \cup {Ing(Meta(i3, 3, 2, g, "ok"), "minion", {a}, {p1}, FALSE) : g \in 1..2}

MergeableIngresses == Masters \cup Minions

-----------------------------------------------------------------------------
(* Routes: two VirtualServers, of which one delegates to a                  *)
(* VirtualServerRoute, and the solver Ingress of an ACME challenge.         *)

RouteVirtualServers ==
  {VS(Meta(v1, 4, 1, 1, "ok"), a, {r1}, "none", "none"),
   VS(Meta(v2, 5, 2, 1, "ok"), a, {r1}, "none", "none")}

Routes == {VSR(Meta(r1, 8, 2, 1, "ok"), a), VSR(Meta(r1, 8, 2, 2, "ok"), b)}

SolverIngress == {Ing(Meta(i1, 1, 3, 1, "ok"), "regular", {a}, {}, TRUE)}

-----------------------------------------------------------------------------
(* Listeners: two TransportServers compete for two listeners, which come and *)
(* go and change their ports with the GlobalConfiguration.                  *)

Listener(port, ip, protocol, ssl) ==
  [port |-> port, ip |-> ip, protocol |-> protocol, ssl |-> ssl]

TCP(port) == Listener(port, "default", "TCP", FALSE)

TCPTransportServers ==
  {TS(Meta(t1, 6, 1, 1, "ok"), a, l1, "TCP"), TS(Meta(t1, 6, 1, 2, "ok"), a, l2, "TCP"),
   TS(Meta(t1, 6, 1, 2, "invalid"), a, l1, "TCP"),
   TS(Meta(t2, 9, 2, 1, "ok"), a, l1, "TCP"), TS(Meta(t2, 9, 2, 2, "ok"), a, l2, "TCP"),
   TS(Meta(t2, 9, 2, 2, "ok"), a, l1, "UDP")}

TCPGlobalConfigurations ==
  {[l \in {l1} |-> TCP(1)], [l \in {l1} |-> TCP(2)],
   [l \in {l1, l2} |-> IF l = l1 THEN TCP(1) ELSE TCP(2)]}

\* A VirtualServer with custom listeners; a listener that moves to another port,
\* to another address, or away.
HTTPVirtualServers ==
  {VS(Meta(v1, 4, 1, g, "ok"), a, {}, l1, l2) : g \in 1..2}
    \cup {VS(Meta(v2, 5, 2, g, "ok"), a, {}, IF g = 1 THEN l1 ELSE l2, "none") : g \in 1..2}

HTTPListeners(port, ip) ==
  [l \in {l1, l2} |-> IF l = l1 THEN Listener(port, ip, "HTTP", FALSE)
                                ELSE Listener(4, ip, "HTTP", TRUE)]

HTTPGlobalConfigurations ==
  {HTTPListeners(1, "default"), HTTPListeners(2, "default"), HTTPListeners(2, "address"),
   [l \in {l2} |-> Listener(4, "default", "HTTP", TRUE)],
   [l \in {l1, l2} |-> Listener(IF l = l1 THEN 1 ELSE 3, "default", "HTTP", FALSE)]}

-----------------------------------------------------------------------------
(* TLS passthrough: a TransportServer and VirtualServers compete for a host. *)

PassthroughTS(uid, gen, host) ==
  TS(Meta(t1, uid, 2 * uid - 11, gen, "ok"), host, TLSPassthroughListenerName, TLSPassthroughListenerProtocol)

PassthroughTransportServers ==
  {PassthroughTS(u, g, IF g = 1 THEN a ELSE b) : u \in {6, 7}, g \in 1..2}

PassthroughVirtualServers ==
  {VS(Meta(v1, 4, 2, 1, "ok"), h, {}, "none", "none") : h \in {a, b}}
    \cup {VS(Meta(v1, 4, 2, 2, "ok"), a, {}, "none", "none")}

\* A TransportServer that leaves TLS passthrough for a TCP listener.
SwitchedTransportServer == {PassthroughTS(6, 1, a), TS(Meta(t1, 6, 1, 2, "ok"), a, l1, "TCP")}

OneListener == {[l \in {l1} |-> TCP(1)]}

-----------------------------------------------------------------------------
(* Namespaces: the namespace of i1 and v1 may lose its label; i2 stays.     *)

NamespaceIngresses ==
  {Ing(Meta(i1, 1, 1, 1, "ok"), "regular", {a}, {}, FALSE),
   Ing(Meta(i2, 2, 2, 1, "ok"), "regular", {b}, {}, FALSE)}

NamespaceVirtualServers == {VS(Meta(v1, 4, 3, g, "ok"), a, {}, "none", "none") : g \in 1..2}

\* Both namespaces want the host.
SharedHostIngresses ==
  {Ing(Meta(i1, 1, 1, 1, "ok"), "regular", {a}, {}, FALSE),
   Ing(Meta(i2, 2, 2, 1, "ok"), "regular", {a}, {}, FALSE)}

-----------------------------------------------------------------------------
(* Hosts that move between Ingresses with several hosts.                    *)

SwappedIngresses ==
  {Ing(Meta(i1, 1, 1, 1, "ok"), "regular", {a}, {}, FALSE),
   Ing(Meta(i1, 1, 1, 2, "ok"), "regular", {b}, {}, FALSE),
   Ing(Meta(i2, 2, 2, 1, "ok"), "regular", {a, b}, {}, FALSE)}

\* An Ingress that is deleted and created again.
RecreatedIngress == {Ing(Meta(i1, 9 * u - 8, u, 1, "ok"), "regular", {a}, {}, FALSE) : u \in 1..2}

-----------------------------------------------------------------------------
(* Everything together: the runs pick their workloads from these objects.     *)

MCIngresses ==
  CompetingIngresses \cup MergeableIngresses \cup SolverIngress \cup NamespaceIngresses
    \cup SharedHostIngresses \cup SwappedIngresses \cup RecreatedIngress

MCVirtualServers ==
  CompetingVirtualServers \cup RouteVirtualServers \cup HTTPVirtualServers
    \cup PassthroughVirtualServers \cup NamespaceVirtualServers

MCTransportServers ==
  TCPTransportServers \cup
    (IF isTLSPassthroughEnabled
     THEN PassthroughTransportServers \cup SwitchedTransportServer ELSE {})

MCGlobalConfigurations ==
  TCPGlobalConfigurations \cup HTTPGlobalConfigurations \cup OneListener

Workload(objects, gcs, startedUp) ==
  [objects |-> objects, globalConfigurations |-> gcs, relabels |-> FALSE,
   startedUp |-> startedUp]

Relabelled(objects) == [Workload(objects, {}, FALSE) EXCEPT !.relabels = TRUE]

\* Hosts, mergeable Ingresses, listeners and namespaces.
ConflictWorkloads ==
  {Workload(CompetingIngresses \cup CompetingVirtualServers, {}, FALSE),
   Workload(MergeableIngresses, {}, FALSE),
   Workload(TCPTransportServers, TCPGlobalConfigurations, TRUE),
   Workload(HTTPVirtualServers, HTTPGlobalConfigurations, FALSE),
   Relabelled(NamespaceIngresses \cup NamespaceVirtualServers)}

\* Routes and TLS passthrough.  The users run out of versions and UIDs.
FiniteWorkloads ==
  {Workload(RouteVirtualServers \cup Routes \cup SolverIngress, {}, TRUE),
   Workload(PassthroughTransportServers \cup PassthroughVirtualServers, {}, FALSE)}

SwapWorkload == {Workload(SwappedIngresses, {}, TRUE)}
RecreationWorkload == {Workload(RecreatedIngress, {}, TRUE)}
SwitchWorkload == {Workload(SwitchedTransportServer, OneListener, TRUE)}
HandoverWorkload == {Relabelled(SharedHostIngresses)}
EarlyWorkload == {Workload(TCPTransportServers, TCPGlobalConfigurations, FALSE)}
=============================================================================
