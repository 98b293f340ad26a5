--------------------------- MODULE ConfigMapParams --------------------------
(***************************************************************************)
(* How the ConfigMap of NGINX is read into the parameters of the whole       *)
(* configuration (internal/configs/configmaps.go).  The data of a ConfigMap  *)
(* is a function from keys to texts; what is read is [set, ok]: the          *)
(* parameters it sets, and whether it is reported as free of errors.         *)
(*                                                                           *)
(* flags is that of IngressAnnotations with passthrough besides.             *)
(***************************************************************************)
EXTENDS IngressAnnotations

NoConfigMap == [absent |-> TRUE]

Parsed(set, ok) == [set |-> set, ok |-> ok]
Both(a, b) == Parsed(a.set @@ b.set, a.ok /\ b.ok)

\* By a table of formats: what cannot be read is left out, and reported.
ByTable(data, table, plus) == Parsed(Settings(data, table, plus), AllReadable(data, table, plus))

\* Keys that only count when they are not empty, and keys that count only in some builds: an
\* error in the others.
Filled(data, keys) == Parsed(RestrictDomain(data, LAMBDA k : k \in keys /\ data[k] # ""), TRUE)
Only(enabled, data, table, plus) ==
  IF enabled THEN ByTable(data, table, plus) ELSE Parsed(<< >>, DOMAIN data \cap DOMAIN table = {})

-----------------------------------------------------------------------------
(* ParseConfigMap by its sections.                                           *)

ProxyKeys ==
  "server-tokens" :> "tokens" @@ "lb-method" :> "lb"
  @@ As("raw", {"proxy-connect-timeout", "proxy-read-timeout", "proxy-send-timeout",
                "proxy-hide-headers", "proxy-pass-headers", "client-max-body-size",
                "server-names-hash-bucket-size", "server-names-hash-max-size",
                "map-hash-bucket-size", "map-hash-max-size"})
  @@ "add-header" :> "text" @@ "client-body-buffer-size" :> "size"
  @@ As("bool", {"http2", "redirect-to-https", "ssl-redirect"}) @@ "http-redirect-code" :> "redirect"

HSTSKeys(data) == Parsed(HSTS(data), Has(data, "hsts") => AllReadable(data, HSTSFormats, FALSE))

\* With TLS passthrough the header is always proxy_protocol.
RealIPHeader(data, passthrough) ==
  IF ~passthrough THEN ByTable(data, "real-ip-header" :> "raw", FALSE)
  ELSE Parsed(<< >>, Has(data, "real-ip-header") => data["real-ip-header"] = "proxy_protocol")

AddressAndLogKeys ==
  As("bool", {"proxy-protocol", "real-ip-recursive", "ssl-prefer-server-ciphers",
              "default-server-access-log-off"})
  @@ As("raw", {"set-real-ip-from", "ssl-protocols", "ssl-ciphers", "ssl-dhparam-file",
                "error-log-level", "log-format", "stream-log-format", "default-server-return"})

\* access-log-off wins over access-log, which has to be a syslog server.
AccessLog(data) ==
  LET off == Has(data, "access-log-off") /\ ParseBool(data["access-log-off"]) = "true"
  IN Parsed(IF off THEN "access-log" :> "off" ELSE Settings(data, "access-log" :> "syslog", FALSE),
            AllReadable(data, "access-log" :> "syslog" @@ "access-log-off" :> "bool", FALSE))

BufferAndWorkerKeys ==
  "proxy-buffering" :> "bool" @@ "proxy-buffers" :> "buffers"
  @@ As("size", {"proxy-buffer-size", "proxy-busy-buffers-size"})
  @@ As("raw", {"proxy-max-temp-file-size", "main-snippets", "http-snippets", "location-snippets",
                "server-snippets", "worker-cpu-affinity", "worker-shutdown-timeout",
                "worker-connections", "worker-rlimit-nofile"})
  @@ "add-header-inherit" :> "inherit" @@ "worker-processes" :> "auto"
  @@ As("int", {"keepalive", "max-fails"})

BuffersAndWorkers(data, flags) ==
  LET read == ByTable(data, BufferAndWorkerKeys, flags.plus)
  IN Parsed(Autoadjusted(read.set, flags), read.ok)

TemplateAndHashKeys ==
  As("raw", {"upstream-zone-size", "fail-timeout", "main-template", "ingress-template",
             "virtualserver-template", "transportserver-template", "stream-snippets",
             "keepalive-timeout"})
  @@ "keepalive-requests" :> "int64" @@ "variables-hash-bucket-size" :> "nonzero"
  @@ "variables-hash-max-size" :> "uint64"
ResolverKeys ==
  As("raw", {"resolver-addresses", "resolver-valid", "resolver-timeout"}) @@ "resolver-ipv6" :> "bool"

AppProtectKeys ==
  As("action", {"app-protect-failure-mode-action", "app-protect-compressed-requests-action"})
  @@ "app-protect-cookie-seed" :> "raw"
  @@ As("thresholds", {"app-protect-cpu-thresholds", "app-protect-physical-memory-util-thresholds"})
  @@ "app-protect-reconnect-period-seconds" :> "seconds"

WallarmKeys ==
  As("bool", {"enable-wallarm", "wallarm-apifw-enabled"}) @@ "wallarm-metrics-port" :> "metricsPort"
  @@ As("raw", {"wallarm-upstream-service", "wallarm-upstream-reconnect-interval",
                "wallarm-process-time-limit-block", "wallarm-request-memory-limit",
                "wallarm-worker-rlimit-vmem", "wallarm-acl-export-enable",
                "wallarm-acl-export-shm-size"})
  @@ As("int", {"wallarm-wstore-max-conns", "wallarm-upstream-connect-attempts",
                "wallarm-process-time-limit", "wallarm-acl-export-sample-limit",
                "wallarm-acl-export-sample-group-lifetime", "wallarm-acl-export-stats-bucket-interval",
                "wallarm-acl-export-stats-bucket-lifetime", "wallarm-apifw-port"})

\* The errors of these keys are not reported.
parseConfigMapVts(data) ==
  Both(Parsed(Settings(data, "enable-vts" :> "bool" @@ "vts-metrics-port" :> "int", FALSE), TRUE),
       Filled(data, {"vts-detailed-codes", "vts-shm-size"}))

-----------------------------------------------------------------------------
(* The groups whose keys depend on each other.                               *)

\* The keys are read in this order, and the first error ends it.
OIDCOrder == << "oidc-pkce-timeout", "oidc-id-tokens-timeout", "oidc-access-tokens-timeout",
  "oidc-refresh-tokens-timeout", "oidc-sids-timeout", "oidc-pkce-zone-size",
  "oidc-id-tokens-zone-size", "oidc-access-tokens-zone-size", "oidc-refresh-tokens-zone-size",
  "oidc-sids-zone-size" >>
OIDCFormats == [i \in DOMAIN OIDCOrder |-> IF i <= 5 THEN "time" ELSE "size"]

\* Mutant: an error is not reported.
parseConfigMapOIDC_bug(data) ==
  LET bad == {i \in DOMAIN OIDCOrder : /\ Has(data, OIDCOrder[i])
                                       /\ Read(OIDCFormats[i], data[OIDCOrder[i]], FALSE) = Error}
      readable == {i \in DOMAIN OIDCOrder : Has(data, OIDCOrder[i]) /\ \A j \in bad : i < j}
      index(k) == CHOOSE i \in readable : OIDCOrder[i] = k
  IN Parsed([k \in {OIDCOrder[i] : i \in readable} |-> Read(OIDCFormats[index(k)], data[k], FALSE)],
            TRUE)

parseConfigMapOIDC(data) ==
  LET bad == {i \in DOMAIN OIDCOrder : /\ Has(data, OIDCOrder[i])
                                       /\ Read(OIDCFormats[i], data[OIDCOrder[i]], FALSE) = Error}
      readable == {i \in DOMAIN OIDCOrder : Has(data, OIDCOrder[i]) /\ \A j \in bad : i < j}
      index(k) == CHOOSE i \in readable : OIDCOrder[i] = k
  IN Parsed([k \in {OIDCOrder[i] : i \in readable} |-> Read(OIDCFormats[index(k)], data[k], FALSE)],
            bad = {})

\* One key after the other; a key that cannot be read, or that is there without zone-sync, ends
\* it, a bad port after it was set to the default.
ZoneSyncOrder == << "zone-sync", "zone-sync-port", "zone-sync-resolver-addresses",
                    "zone-sync-resolver-valid", "zone-sync-resolver-ipv6" >>
ZoneSyncFormats == << "bool", "ports", "name", "time", "bool" >>
ZoneSyncDefaults == "zone-sync-port" :> "12345" @@ "zone-sync-resolver-addresses" :> "kube-dns"
                    @@ "zone-sync-resolver-valid" :> "5s"
parseConfigMapZoneSync(data, plus) ==
  LET key(i) == ZoneSyncOrder[i]
      enabled == plus /\ Has(data, "zone-sync") /\ ParseBool(data["zone-sync"]) = "true"
      bad == {i \in DOMAIN ZoneSyncOrder : Has(data, key(i)) /\
                \/ Read(ZoneSyncFormats[i], data[key(i)], FALSE) = Error
                \/ i = 1 /\ ~plus
                \/ i > 1 /\ ~enabled}
      readable == {i \in DOMAIN ZoneSyncOrder : \A j \in bad : i < j}
      own == [k \in {key(i) : i \in readable} \cap DOMAIN data |->
                Read(ZoneSyncFormats[CHOOSE i \in readable : key(i) = k], data[k], FALSE)]
      port == IF enabled /\ 2 \in bad THEN {"zone-sync-port"} ELSE {}
  IN Parsed(own @@ Restrict(ZoneSyncDefaults,
                     ({key(i) : i \in readable} \cup port) \cap DOMAIN ZoneSyncDefaults),
            bad = {})

\* The headers of the exporter come in pairs, and nothing counts without its endpoint.
parseConfigMapOpenTelemetry(data) ==
  LET given == Filled(data, {"otel-exporter-endpoint", "otel-exporter-header-name",
                             "otel-exporter-header-value", "otel-service-name"}).set
      endpoint == Settings(given, "otel-exporter-endpoint" :> "endpoint", FALSE)
      names == Settings(given, "otel-exporter-header-name" :> "header"
                               @@ "otel-exporter-header-value" :> "raw", FALSE)
      trace == IF Has(data, "otel-trace-in-http") /\ ParseBool(data["otel-trace-in-http"]) = "true"
               THEN "otel-trace-in-http" :> "true" ELSE << >>
      paired == Cardinality(DOMAIN names) # 1
      rest == (IF paired THEN names ELSE << >>) @@ Settings(given, "otel-service-name" :> "raw", FALSE)
              @@ trace
      readable == AllReadable(data, "otel-trace-in-http" :> "bool", FALSE)
                  /\ AllReadable(given, "otel-exporter-header-name" :> "header", FALSE)
  IN IF Has(given, "otel-exporter-endpoint") /\ endpoint = << >> THEN Parsed(<< >>, FALSE)
     ELSE IF endpoint = << >> THEN Parsed(<< >>, readable /\ paired /\ rest = << >>)
     ELSE Parsed(endpoint @@ rest, readable /\ paired)

-----------------------------------------------------------------------------
\* The sections in their order; no key is read by two.
Sections(data, flags) ==
  << ByTable(data, ProxyKeys, flags.plus), HSTSKeys(data),
     Only(flags.snippets, data, "disable-forwarded-headers" :> "bool", flags.plus),
     RealIPHeader(data, flags.passthrough), ByTable(data, AddressAndLogKeys, flags.plus),
     AccessLog(data), Filled(data, {"log-format-escaping", "stream-log-format-escaping"}),
     BuffersAndWorkers(data, flags), parseConfigMapZoneSync(data, flags.plus),
     parseConfigMapOIDC(data), ByTable(data, TemplateAndHashKeys, flags.plus),
     Only(flags.plus, data, ResolverKeys, flags.plus), parseConfigMapOpenTelemetry(data),
     parseConfigMapVts(data),
     IF flags.appProtect THEN ByTable(data, AppProtectKeys, flags.plus) ELSE Parsed(<< >>, TRUE),
     IF flags.dos
     THEN Both(ByTable(data, "app-protect-dos-log-format" :> "raw", FALSE),
               Filled(data, {"app-protect-dos-log-format-escaping", "app-protect-dos-arb-fqdn"}))
     ELSE Parsed(<< >>, TRUE),
     ByTable(data, WallarmKeys, flags.plus) >>

ParseConfigMap(data, flags) ==
  IF data = NoConfigMap THEN Parsed(<< >>, TRUE)
  ELSE FoldLeft(Both, Parsed(<< >>, TRUE), Sections(data, flags))

\* GenerateNginxMainConfig: these keys name one thing in the main file and another in the
\* annotations of an Ingress, and are no base for it.
MainOnly == {"add-header", "client-body-buffer-size", "ssl-ciphers", "ssl-prefer-server-ciphers"}
BaseCfgParams(set) == RestrictDomain(set, LAMBDA k : k \notin MainOnly)
=============================================================================
