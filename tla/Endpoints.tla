----------------------------- MODULE Endpoints ------------------------------
(***************************************************************************)
(* Which servers an upstream has: from the Services, EndpointSlices and Pods *)
(* in the caches of the controller to the upstreams of the file of a         *)
(* resource (internal/k8s/controller.go, internal/configs).                  *)
(*                                                                           *)
(* A cluster c is [svcs, slices, pods], functions from names to records, one *)
(* namespace.  A server is <<host, port>>.  A resource is [kind, backends,   *)
(* auths, scale]: the backends are the paths and the default backend of an   *)
(* Ingress (with its minions), or the upstreams of a VirtualServer (with its *)
(* routes) or TransportServer; auths are its external auth policies.         *)
(***************************************************************************)
EXTENDS Integers, Sequences, FiniteSets, SequencesExt

NoService == [type |-> "absent"]
NoSlice == [svc |-> "absent"]
NoPod == [ip |-> "absent"]
NoBackup == [svc |-> "absent", port |-> 0]
Default == <<"nginx502Server", 0>>   \* the server of an upstream without endpoints
NoProbe == "none"

Result(addrs, external) == [ok |-> TRUE, addrs |-> addrs, external |-> external]
Failed == [ok |-> FALSE, addrs |-> {}, external |-> FALSE]

FirstSuch(s, P(_)) == CHOOSE i \in DOMAIN s : P(s[i]) /\ \A j \in 1..(i - 1) : ~P(s[j])
Some(s, P(_)) == \E i \in DOMAIN s : P(s[i])

-----------------------------------------------------------------------------
(* From a Service to addresses.                                              *)

GetServiceEndpointSlices(c, svc) ==
  {c.slices[n] : n \in {m \in DOMAIN c.slices : c.slices[m] # NoSlice /\ c.slices[m].svc = svc}}

PodsOf(c, labels) ==
  {c.pods[n] : n \in {m \in DOMAIN c.pods : c.pods[m] # NoPod /\ labels \subseteq c.pods[m].labels}}

\* The lister has no order: the code takes the first Pod of its list, here any one.
FirstPod(pods) == CHOOSE p \in pods : TRUE

\* 0 stands for an error.
findPort(pods, name) ==
  IF pods = {} THEN 0
  ELSE IF name \in DOMAIN FirstPod(pods).ports THEN FirstPod(pods).ports[name] ELSE 0

\* A target port is unset (the port itself), a number, or the name of a container port.
getTargetPort(c, s, p) ==
  CASE p.target.kind = "unset" -> p.port
    [] p.target.kind = "number" -> p.target.number
    [] p.target.kind = "name" -> findPort(PodsOf(c, s.selector), p.target.name)

\* As the condition is written, a backend without a port name matches an unnamed port of any
\* number.
MatchesBackendPort(p, b) == (b.name = "" /\ p.port = b.port) \/ p.name = b.name

\* The target of the first port that matches; 0 when there is none.
TargetOf(c, s, Matches(_)) ==
  IF Some(s.ports, Matches) THEN getTargetPort(c, s, s.ports[FirstSuch(s.ports, Matches)]) ELSE 0

selectEndpointSlicesForPort(slices, target) == {e \in slices : target \in e.ports}

filterReadyEndpointsFrom(slices) == {ep \in UNION {e.endpoints : e \in slices} : ep.ready = "true"}

ReadyAt(slices, target) ==
  {<<ep.ip, target>> : ep \in filterReadyEndpointsFrom(selectEndpointSlicesForPort(slices, target))}

FailedIfNone(addrs) == IF addrs = {} THEN Failed ELSE Result(addrs, FALSE)

\* No EndpointSlice has port 0.
getEndpointsForPortFromEndpointSlices(c, slices, b, s) ==
  LET matches(p) == MatchesBackendPort(p, b)
  IN FailedIfNone(ReadyAt(slices, TargetOf(c, s, matches)))

\* An ExternalName Service, which has no EndpointSlices, is resolved by NGINX Plus.
getEndpointsForIngressBackend(c, plus, b, s) ==
  IF GetServiceEndpointSlices(c, b.svc) # {}
  THEN getEndpointsForPortFromEndpointSlices(c, GetServiceEndpointSlices(c, b.svc), b, s)
  ELSE IF s.type = "ExternalName" /\ plus THEN Result({<<s.external, b.port>>}, TRUE)
  ELSE Failed

getEndpointsForUpstream(c, plus, svc, port) ==
  LET b == [svc |-> svc, port |-> port, name |-> ""]
  IN IF c.svcs[svc] = NoService THEN Failed
     ELSE getEndpointsForIngressBackend(c, plus, b, c.svcs[svc])

\* The ready endpoints that are also addresses of Pods with the labels of the subselector.
getEndpointsFromEndpointSlicesForSubselectedPods(pods, ready) ==
  {e \in ready : \E p \in pods : p.ip = e[1]}

getEndpointsForSubselector(c, b, s) ==
  LET ofPort(p) == p.port = b.port
      ready == ReadyAt(GetServiceEndpointSlices(c, b.svc), TargetOf(c, s, ofPort))
      pods == PodsOf(c, s.selector \cup b.sub)
  IN IF s = NoService THEN Failed
     ELSE Result(getEndpointsFromEndpointSlicesForSubselectedPods(pods, ready), FALSE)

\* The first container port of the first Pod that is the port of the backend, if it has an
\* HTTP readiness probe.
findProbeForPods(pods, number) ==
  IF pods = {} \/ number = 0 THEN NoProbe
  ELSE IF \E n \in DOMAIN FirstPod(pods).ports : FirstPod(pods).ports[n] = number
  THEN FirstPod(pods).probe ELSE NoProbe

getHealthChecksForIngressBackend(c, b, s) ==
  LET matches(p) == MatchesBackendPort(p, b)
  IN IF s = NoService THEN NoProbe
     ELSE findProbeForPods(PodsOf(c, s.selector), TargetOf(c, s, matches))

-----------------------------------------------------------------------------
(* The endpoints of a resource: createIngressEx, createVirtualServerEx and   *)
(* createTransportServerEx.                                                  *)

\* The number of a port given by name, as createIngressEx finds it for a cluster IP.
NumberOf(s, b) ==
  LET named(p) == p.name = b.name
  IN IF b.port # 0 \/ ~Some(s.ports, named) THEN b.port
     ELSE s.ports[FirstSuch(s.ports, named)].port

OrClusterIP(found, b, s) ==
  IF s # NoService /\ ~found.external /\ b.clusterIP
  THEN Result({<<s.clusterIP, NumberOf(s, b)>>}, FALSE) ELSE found

createIngressEx(c, plus, b, s) ==
  OrClusterIP(IF s = NoService THEN Failed ELSE getEndpointsForIngressBackend(c, plus, b, s), b, s)

createVirtualServerEx(c, plus, b, s) ==
  IF b.clusterIP
  THEN IF s = NoService THEN Failed ELSE Result({<<s.clusterIP, b.port>>}, FALSE)
  ELSE IF b.sub # {} THEN getEndpointsForSubselector(c, b, s)
  ELSE getEndpointsForUpstream(c, plus, b.svc, b.port)

createTransportServerEx(c, plus, b) == getEndpointsForUpstream(c, plus, b.svc, b.port)

EndpointsOf(c, plus, r, b) ==
  CASE r.kind = "ing" -> createIngressEx(c, plus, b, c.svcs[b.svc])
    [] r.kind = "vs" -> createVirtualServerEx(c, plus, b, c.svcs[b.svc])
    [] r.kind = "ts" -> createTransportServerEx(c, plus, b)

generateBackupEndpoints(c, plus, b) ==
  IF b.backup = NoBackup THEN Failed
  ELSE getEndpointsForUpstream(c, plus, b.backup.svc, b.backup.port)

externalAuthFallbackPorts(a) ==
  IF a.ports # << >> THEN Range(a.ports) ELSE IF a.ssl THEN {443} ELSE {80}

collectAuthPorts(a, s) ==
  IF a.ports # << >> THEN Range(a.ports) ELSE {s.ports[i].port : i \in DOMAIN s.ports}

\* The ports with an entry in the endpoints of the resource, and the addresses: a missing
\* Service or one without ready endpoints leaves an empty entry, which makes a warning.
generateExternalAuthEndpoints(c, plus, a) ==
  LET s == c.svcs[a.svc]
      ports == IF s = NoService THEN externalAuthFallbackPorts(a) ELSE collectAuthPorts(a, s)
  IN [p \in ports |-> getEndpointsForUpstream(c, plus, a.svc, p).addrs]

getExternalAuthPort(a) == IF a.ports # << >> THEN a.ports[1] ELSE IF a.ssl THEN 443 ELSE 80

-----------------------------------------------------------------------------
(* The upstreams in the file of a resource: [servers, backups, probe].       *)

OrDefault(plus, servers) == IF ~plus /\ servers = {} THEN {Default} ELSE servers

Usable(nginx, found) == IF found.external /\ ~nginx.resolver THEN {} ELSE found.addrs

\* createUpstream, generateEndpointsForUpstream and generateStreamUpstreams: without a
\* resolver an ExternalName Service has no servers.
createUpstream(c, nginx, r, b) ==
  [servers |-> OrDefault(nginx.plus, Usable(nginx, EndpointsOf(c, nginx.plus, r, b))),
   backups |-> Usable(nginx, generateBackupEndpoints(c, nginx.plus, b)),
   probe |-> IF r.kind = "ing" /\ nginx.plus
             THEN getHealthChecksForIngressBackend(c, b, c.svcs[b.svc]) ELSE NoProbe]

EntryOf(entries, port) == IF port \in DOMAIN entries THEN entries[port] ELSE {}

\* createExternalAuthUpstream gives an Ingress the default server also in NGINX Plus.
createExternalAuthUpstream(c, nginx, r, a) ==
  LET servers == EntryOf(generateExternalAuthEndpoints(c, nginx.plus, a), getExternalAuthPort(a))
  IN [servers |-> OrDefault(nginx.plus /\ r.kind = "vs", servers), backups |-> {}, probe |-> NoProbe]

\* The upstreams of a resource by name; that of an external auth policy in a VirtualServer
\* carries the prefix of the VirtualServer.
FileName(r, a) == IF r.kind = "vs" THEN <<"vs", "auth", a.name>> ELSE <<"ing", "auth", a.name>>

GenerateUpstreams(c, nginx, r) ==
  LET named == {<<"backend", ToString(i)>> : i \in DOMAIN r.backends}
      index(n) == CHOOSE i \in DOMAIN r.backends : n = <<"backend", ToString(i)>>
      auths == {FileName(r, a) : a \in r.auths}
      auth(n) == CHOOSE a \in r.auths : n = FileName(r, a)
  IN [n \in named \cup auths |->
        IF n \in named THEN createUpstream(c, nginx, r, r.backends[index(n)])
        ELSE createExternalAuthUpstream(c, nginx, r, auth(n))]

\* The warnings of generating it: "No endpoints found" for external auth, and an ExternalName
\* Service that nothing resolves, which is only logged for an Ingress.
WarnsOfAuth(r, entries, port) ==
  IF port \in DOMAIN entries THEN entries[port] = {} ELSE r.kind = "ing"

HasWarnings(c, nginx, r) ==
  \/ /\ r.kind # "ing" /\ ~nginx.resolver
     /\ \E i \in DOMAIN r.backends :
          \/ EndpointsOf(c, nginx.plus, r, r.backends[i]).external
          \/ generateBackupEndpoints(c, nginx.plus, r.backends[i]).external
  \/ \E a \in r.auths :
       WarnsOfAuth(r, generateExternalAuthEndpoints(c, nginx.plus, a), getExternalAuthPort(a))

-----------------------------------------------------------------------------
(* The updates through the API of NGINX Plus.                                *)

\* createUpstreamsForPlus and updatePlusEndpoints leave the ExternalName Services out;
\* updatePlusEndpointsForTransportServer does not.
PlusUpdates(c, r) ==
  LET update(i, found) == [name |-> <<"backend", ToString(i)>>, servers |-> found.addrs,
                           sent |-> r.kind = "ts" \/ ~found.external]
  IN {u \in {update(i, EndpointsOf(c, TRUE, r, r.backends[i])) : i \in DOMAIN r.backends} : u.sent}

\* The name used for a VirtualServer is not the one in the file (FileName).
PlusName(r, a) == IF r.kind = "vs" THEN <<"auth", a.name>> ELSE <<"ing", "auth", a.name>>

updatePlusExternalAuthEndpoints(c, r) ==
  LET update(a, entries, port) == [name |-> PlusName(r, a), servers |-> EntryOf(entries, port),
                                   sent |-> port \in DOMAIN entries]
  IN {u \in {update(a, generateExternalAuthEndpoints(c, TRUE, a), getExternalAuthPort(a)) :
              a \in r.auths} : u.sent}

-----------------------------------------------------------------------------
(* Which resources an event concerns.                                        *)

AuthServices(r) == {a.svc : a \in r.auths}

\* serviceReferenceChecker; the backups of a VirtualServerRoute are not among them.
IsReferencedBy(svc, r) ==
  \/ \E i \in DOMAIN r.backends : svc \in {r.backends[i].svc, r.backends[i].backup.svc}
  \/ svc \in AuthServices(r)

\* Mutant: the Services of the external auth policies are forgotten.
RequiresEndpointsUpdate_bug(svc, r) ==
  \/ r.kind = "ts"
  \/ \E i \in DOMAIN r.backends : r.backends[i].svc = svc /\ ~r.backends[i].clusterIP

\* A backend with a cluster IP does not depend on the EndpointSlices; every TransportServer
\* is updated.
RequiresEndpointsUpdate(svc, r) ==
  \/ r.kind = "ts"
  \/ \E i \in DOMAIN r.backends : r.backends[i].svc = svc /\ ~r.backends[i].clusterIP
  \/ svc \in AuthServices(r)

hasServicePortChanges(old, cur) ==
  LET shape(s) == {<<s.ports[i].name, s.ports[i].port>> : i \in DOMAIN s.ports}
  IN Len(old.ports) # Len(cur.ports) \/ shape(old) # shape(cur)

hasServicedChanged(old, cur) ==
  \/ hasServicePortChanges(old, cur)
  \/ cur.type = "ExternalName" /\ old.external # cur.external
  \/ old.clusterIP = "None" \/ cur.clusterIP = "None"

countReadyEndpoints(slice) == Cardinality({ep \in slice.endpoints : ep.ready = "true"})
=============================================================================
