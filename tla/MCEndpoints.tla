---------------------------- MODULE MCEndpoints -----------------------------
(***************************************************************************)
(* Small clusters for EndpointSync.                                          *)
(***************************************************************************)
EXTENDS EndpointSync

CONSTANT MaxChanges  \* changes of the cluster in one behaviour

Oss == [plus |-> FALSE, appProtect |-> FALSE, dos |-> FALSE, snippets |-> TRUE,
        allowEmptyHost |-> FALSE, passthrough |-> FALSE, autoadjust |-> FALSE]
Adjusting == [Oss EXCEPT !.autoadjust = TRUE]
Plus == [Oss EXCEPT !.plus = TRUE, !.appProtect = TRUE, !.dos = TRUE]
NoKeys == << >>
Resolver == "resolver-addresses" :> "kube-dns"

Unset == [kind |-> "unset"]
Number(n) == [kind |-> "number", number |-> n]
Named(n) == [kind |-> "name", name |-> n]
Port(name, port, target) == [name |-> name, port |-> port, target |-> target]
Service(ports) ==
  [type |-> "ClusterIP", ports |-> ports, clusterIP |-> "10.0.0.1", selector |-> {"web"},
   external |-> ""]
Headless(ports) == [Service(ports) EXCEPT !.clusterIP = "None"]
External(host, ports) ==
  [type |-> "ExternalName", ports |-> ports, clusterIP |-> "", selector |-> {}, external |-> host]

Endpoint(ip, ready) == [ip |-> ip, ready |-> ready]
Slice(svc, ports, endpoints) == [svc |-> svc, ports |-> ports, endpoints |-> endpoints]
Pod(ip, labels, ports, probe) == [ip |-> ip, labels |-> labels, ports |-> ports, probe |-> probe]

Backend(svc, port) ==
  [svc |-> svc, port |-> port, name |-> "", clusterIP |-> FALSE, sub |-> {}, backup |-> NoBackup, of |-> ""]
ByName(svc, name) == [Backend(svc, 0) EXCEPT !.name = name]
ByClusterIP(b) == [b EXCEPT !.clusterIP = TRUE]
Subselected(svc, port, labels) == [Backend(svc, port) EXCEPT !.sub = labels]
Backed(b, svc, port) == [b EXCEPT !.backup = [svc |-> svc, port |-> port]]
Auth(name, svc, ports, ssl) == [name |-> name, svc |-> svc, ports |-> ports, ssl |-> ssl]

Resource(kind, backends, auths) ==
  [kind |-> kind, backends |-> backends, auths |-> auths, scale |-> FALSE, ings |-> << >>]
Scaled(r) == [r EXCEPT !.scale = TRUE]

\* keys: the ConfigMap.
Workload(flag, keys, resources, svcs, slices, pods, initially, touched, max) ==
  [flags |-> flag, resources |-> resources, own |-> "own", touched |-> touched,
   objects |-> [svcs |-> svcs, slices |-> slices, pods |-> pods, ings |-> << >>, maps |-> << >>],
   initially |-> [maps |-> "nginx" :> keys, ings |-> << >>,
                  svcs |-> [n \in DOMAIN svcs \cup {"hl"} |->
                              IF n \in DOMAIN initially THEN initially[n] ELSE NoService],
                  slices |-> [n \in DOMAIN slices |-> IF n \in DOMAIN initially THEN initially[n] ELSE NoSlice],
                  pods |-> [n \in DOMAIN pods |-> IF n \in DOMAIN initially THEN initially[n] ELSE NoPod]],
   maxChanges |-> max]

\* One change less for NGINX OSS, which has no API.
ChangesFor(flag) == IF flag.plus THEN MaxChanges ELSE MaxChanges - 1

\* A Service with a named target port, in two EndpointSlices, behind three kinds of resources.
Http(target) == << Port("http", 80, target) >>
WebPod == Pod("1.1", {"web"}, "http" :> 8080, "probe")
Web(flag, keys) ==
  LET svc == Service(Http(Named("http")))
      slice1 == Slice("web", {8080}, {Endpoint("1.1", "true")})
      slice2 == Slice("web", {8080}, {Endpoint("1.2", "true"), Endpoint("1.3", "nil")})
  IN Workload(flag, keys,
       << Resource("ing", << ByName("web", "http") >>, {}),
          Resource("vs", << Backend("web", 80), ByClusterIP(Backend("web", 80)) >>, {}),
          Resource("ts", << Backend("web", 80) >>, {}) >>,
       "web" :> {Service(Http(Number(8081))), Headless(Http(Named("http"))), Service(<< Port("", 81, Unset) >>)},
       "e1" :> {Slice("web", {8080}, {Endpoint("1.1", "false")}), slice1, Slice("web", {8081}, {Endpoint("1.1", "true")})}
         @@ "e2" :> {slice2},
       "p1" :> {WebPod},
       "web" :> svc @@ "e1" :> slice1 @@ "p1" :> WebPod, {}, ChangesFor(flag))

\* Subselectors, backups and ExternalName Services.
Selected(flag, keys) ==
  LET svc == Service(<< Port("http", 80, Unset), Port("admin", 90, Number(8090)) >>)
      slice == Slice("web", {80, 8090}, {Endpoint("1.1", "true"), Endpoint("1.2", "true")})
      pod(ip, labels) == Pod(ip, labels, "http" :> 80, NoProbe)
  IN Workload(flag, keys,
       << Resource("vs", << Subselected("web", 80, {"v2"}), Backed(Backend("web", 90), "ext", 80) >>, {}),
          Resource("ts", << Backed(Backend("web", 80), "ext", 80) >>, {}),
          Resource("ing", << Backend("ext", 80) >>, {}) >>,
       "web" :> {svc} @@ "ext" :> {External("a.com", << >>), External("b.com", << >>)},
       "e1" :> {slice, Slice("web", {80}, {Endpoint("1.1", "true")})},
       "p1" :> {pod("1.1", {"web"})} @@ "p2" :> {pod("1.2", {"web", "v2"})},
       "web" :> svc @@ "ext" :> External("a.com", << >>) @@ "e1" :> slice
         @@ "p1" :> pod("1.1", {"web", "v2"}) @@ "p2" :> pod("1.2", {"web", "v2"}), {}, ChangesFor(flag))

\* External auth: its Service comes, goes and loses its endpoints.
Guarded(flag, keys, ready) ==
  LET svc == Service(<< Port("", 80, Unset) >>)
      full == Slice("auth", {80}, {Endpoint("2.1", "true")})
      empty == Slice("auth", {80}, {Endpoint("2.1", "false")})
  IN Workload(flag, keys,
       << Resource("vs", << Backend("web", 80) >>, {Auth("pol", "auth", << >>, FALSE)}),
          Resource("vs", << Backend("web", 80) >>, {}),
          Resource("ing", << Backend("web", 80) >>, {Auth("pol", "auth", << 80 >>, FALSE)}) >>,
       "auth" :> {svc} @@ "web" :> {svc},
       "e1" :> {full, empty} @@ "e2" :> {Slice("web", {80}, {Endpoint("1.1", "true")})},
       << >>,
       "auth" :> svc @@ "web" :> svc @@ "e1" :> (IF ready THEN full ELSE empty)
         @@ "e2" :> Slice("web", {80}, {Endpoint("1.2", "true")}),
       {1}, ChangesFor(flag))

\* The replicas of the controller, and rate limits that are scaled by them.
Replicated(flag, keys) ==
  LET svc == Service(<< Port("", 80, Unset) >>)
      own(n) == Slice("own", {80}, {Endpoint(<<"3.1", "3.2", "3.3">>[i], "true") : i \in 1..n})
  IN Workload(flag, keys,
       << Scaled(Resource("ing", << Backend("web", 80) >>, {})),
          Scaled(Resource("vs", << Backend("web", 80) >>, {})),
          Resource("vs", << Backend("web", 80) >>, {}) >>,
       "web" :> {svc},
       "own" :> {own(1), own(2), Slice("own", {80}, {Endpoint("3.1", "true"), Endpoint("3.2", "nil")})}
         @@ "own2" :> {own(3)} @@ "e2" :> {Slice("web", {80}, {Endpoint("1.1", "true")})},
       << >>, "web" :> svc @@ "own" :> own(1), {3}, ChangesFor(flag))

-----------------------------------------------------------------------------
(* Annotations and the ConfigMap.                                            *)

\* An Ingress with the backends coffee and tea, a master, or a minion with one of them.
Path(svc) == [path |-> "ok", service |-> svc]
Spec_(paths) == [rules |-> << [host |-> "cafe", paths |-> paths] >>, default |-> NoDefault, tls |-> << >>]
Regular(ann) == [annotations |-> ann, spec |-> Spec_(<< Path("coffee"), Path("tea") >>)]
Master(ann) == [annotations |-> ann @@ "mergeable-ingress-type" :> "master", spec |-> Spec_(<< >>)]
Minion(ann) == [annotations |-> ann @@ "mergeable-ingress-type" :> "minion", spec |-> Spec_(<< Path("coffee") >>)]

Of(b, name) == [b EXCEPT !.of = name]
Made(r, names) == [r EXCEPT !.ings = names]

\* w with Ingresses and a ConfigMap that change among the given ones.
WithObjects(w, ings, maps, initially) ==
  [w EXCEPT !.objects.ings = ings, !.objects.maps = "nginx" :> maps, !.initially.ings = initially]

Cafe(flag, keys, resources, slices, max) ==
  LET svc == Service(<< Port("", 80, Unset) >>)
  IN Workload(flag, keys, resources, "coffee" :> {} @@ "hl" :> {}, slices, << >>,
              "coffee" :> svc @@ [n \in DOMAIN slices |-> CHOOSE e \in slices[n] : TRUE], {}, max)

\* One annotation, or key of the ConfigMap, with every text.
Texts == {"", "true", "0", "5", "2^63", "-5", "8k", "4 8k", "10s", "5r/s", "301", "404", "off", "coffee",
          "coffee=/", "coffee srv_id", "least_conn", "least_time header", "round_robin", "/app", "$uri",
          "http://login", "error", "master", "stderr", "info", "block", "uuid", "json", "bad"}
ReadOne(flag, a) ==
  WithObjects(Cafe(flag, "http2" :> "true",
                   << Made(Resource("ing", << Backend("coffee", 80) >>, {}), << "cafe" >>) >>, << >>, 1),
              "cafe" :> {Regular(a :> t @@ "hsts" :> "true") : t \in Texts}, {}, "cafe" :> Regular(<< >>))
AnnotationWorkloads(flag) ==
  {ReadOne(flag, a) : a \in DOMAIN annotationValidations \cup DOMAIN Formats(flag)}

KeyWorkload(flag, maps) ==
  WithObjects(Cafe(flag, NoKeys, << Resource("vs", << Backend("coffee", 80) >>, {}) >>, << >>, 1),
              << >>, maps, << >>)
ReadKey(flag, k) == KeyWorkload(flag, {k :> t : t \in Texts})

\* Two keys of a group that depend on each other.
ReadTwo(flag, k, group) ==
  KeyWorkload(flag, {k :> t @@ l :> u : t \in {"true", "0", "5", "syslog:server", "bad"}, l \in group,
                                        u \in {"true", "5", "bad"}})
Exporter == {"otel-exporter-endpoint", "otel-exporter-header-name", "otel-exporter-header-value",
             "otel-trace-in-http"}
KeyWorkloads(flag) ==
  {KeyWorkload(Adjusting, {k :> t @@ l :> u : t \in {"0", "5", "8k"}, l \in BufferKeys, u \in {"8k", "4 8k"}})
     : k \in BufferKeys}
  \cup {ReadKey(flag, k) : k \in ReportedKeys \cup DOMAIN AppProtectKeys \cup Exporter
                               \cup {"real-ip-header", "access-log", "vts-metrics-port"}}
  \cup {ReadTwo(flag, "oidc-id-tokens-timeout", {"oidc-pkce-timeout", "oidc-sids-zone-size"})}
  \cup {ReadTwo(flag, k, Range(ZoneSyncOrder)) : k \in Range(ZoneSyncOrder)}
  \cup {ReadTwo(flag, k, Exporter) : k \in Exporter}
  \cup {ReadTwo(flag, "hsts", DOMAIN HSTSFormats), ReadTwo(flag, "access-log", {"access-log-off"})}

\* One setting in the ConfigMap, the master and the minion.
Layered(flag, k, own, masters, common) ==
  LET r == Made(Resource("ing", << Of(Backend("coffee", 80), "coffee") >>, {}), << "cafe", "coffee" >>)
      over(t) == {<< >>, k :> t}
  IN WithObjects(Cafe(flag, NoKeys, << r >>, << >>, 3),
       "cafe" :> {Master(a) : a \in over(masters)} @@ "coffee" :> {Minion(a) : a \in over(own)},
       over(common), "cafe" :> Master(<< >>) @@ "coffee" :> Minion(<< >>))
LayeredWorkloads ==
  {Layered(Plus, k, "5", "404", "301") : k \in {"proxy-read-timeout", "max-fails", "client-max-body-size"}}
  \cup {Layered(Plus, k, "/app", "$uri", "info") : k \in {"location-snippets", "server-snippets"}}
  \cup {Layered(Adjusting, k, "5", "8k", "0") : k \in BufferKeys \ {"proxy-buffers"}}
  \cup {Layered(Adjusting, "proxy-buffers", "4 8k", "4 8k", "4 8k")}
  \cup {Layered(Plus, "limit-req-rate", "5r/s", "5r/s", "5r/s"), Layered(Plus, "proxy-set-headers", "5", "404", "301"),
        Layered(Plus, "rewrites", "coffee=/", "coffee=/", "coffee=/"), Layered(Plus, "hsts", "0", "true", "true"),
        Layered(Oss, "proxy-buffering", "0", "true", "0"), Layered(Oss, "add-header", "5", "404", "301"),
        Layered(Oss, "lb-method", "round_robin", "least_conn", "least_time header")}

\* Annotations, the ConfigMap, endpoints and replicas change together.
Together ==
  LET limited == "limit-req-rate" :> "5r/s" @@ "limit-req-scale" :> "true"
      own(n) == Slice("own", {80}, {Endpoint(<<"3.1", "3.2">>[i], "true") : i \in 1..n})
      e(ip) == Slice("coffee", {80}, {Endpoint(ip, "true")})
      r == Made(Resource("ing", << Of(Backend("coffee", 80), "coffee") >>, {}), << "cafe", "coffee" >>)
      w == Cafe(Plus, NoKeys, << r, Resource("vs", << Backend("coffee", 80) >>, {}) >>,
                "own" :> {own(2)} @@ "e1" :> {e("1.1")}, MaxChanges)
  IN WithObjects([w EXCEPT !.objects.slices = "own" :> {own(2)} @@ "e1" :> {e("1.2")}],
       "cafe" :> {Master(limited)} @@ "coffee" :> {Minion("max-fails" :> "bad")},
       {"zone-sync" :> "true"},
       "cafe" :> Master(<< >>) @@ "coffee" :> Minion(<< >>))

\* zone-sync is switched, and its Service deleted by others.
Synchronized(keys) ==
  LET w == Cafe(Plus, keys, << Scaled(Resource("vs", << Backend("coffee", 80) >>, {})) >>, << >>, MaxChanges)
      v == [w EXCEPT !.objects.svcs = "coffee" :> {Service(<< Port("", 80, Unset) >>)} @@ "hl" :> {},
                     !.touched = {1}]
  IN WithObjects(v, << >>, {"zone-sync" :> "true" @@ "zone-sync-port" :> "5", "zone-sync" :> "0"}, << >>)

SettingWorkloads ==
  {Together, Synchronized(NoKeys), Synchronized("zone-sync" :> "true")} \cup LayeredWorkloads
  \cup AnnotationWorkloads(Oss) \cup AnnotationWorkloads(Plus) \cup KeyWorkloads(Oss) \cup KeyWorkloads(Plus)

-----------------------------------------------------------------------------
EndpointWorkloads ==
  {Web(Oss, NoKeys), Web(Plus, Resolver), Selected(Oss, NoKeys), Selected(Plus, Resolver),
   Guarded(Oss, NoKeys, TRUE), Guarded(Plus, Resolver, TRUE), Replicated(Plus, NoKeys)}

AllWorkloads == EndpointWorkloads \cup SettingWorkloads

\* The resources are there before the endpoints of the auth Service are ready.
StartingWorkloads == {Guarded(Plus, Resolver, FALSE)}
=============================================================================
