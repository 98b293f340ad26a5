------------------------- MODULE IngressAnnotations -------------------------
(***************************************************************************)
(* The annotations of an Ingress: how they are validated                     *)
(* (internal/k8s/validation.go), how they are read into the settings of the  *)
(* Ingress (internal/configs/annotations.go), and which of those of a master *)
(* its minions take over.  Names are without their prefix, except where two  *)
(* differ only by it.                                                        *)
(*                                                                           *)
(* The validators and the readers are two tables from annotations to         *)
(* formats, because they are two tables in the code.  flags is [plus,        *)
(* appProtect, dos, snippets, allowEmptyHost, autoadjust].  Settings are     *)
(* functions from the names of annotations, or of the ConfigMap keys that    *)
(* have the same effect, to what was read; what is not set has its default.  *)
(***************************************************************************)
EXTENDS ParsingHelpers, SequencesExt, TLC

Proxy == INSTANCE ProxyBuffers WITH KMod <- 33554432

NoIngress == [absent |-> TRUE]  \* else [annotations, spec]; not an ACME challenge

TypeOf(ing) == IF "mergeable-ingress-type" \in DOMAIN ing.annotations
               THEN ing.annotations["mergeable-ingress-type"] ELSE "regular"

-----------------------------------------------------------------------------
(* Validation.                                                               *)

\* annotationValidations, first half.
ProxyValidations ==
  "mergeable-ingress-type" :> "type" @@ "lb-method" :> "lb" @@ "server-tokens" :> "textTokens"
  @@ As("bool", {"health-checks", "health-checks-mandatory", "redirect-to-https", "ssl-redirect",
                 "ingress.kubernetes.io/ssl-redirect", "proxy-buffering", "hsts",
                 "hsts-include-subdomains", "hsts-behind-proxy"})
  @@ As("uint64", {"health-checks-mandatory-queue", "proxy-next-upstream-tries"})
  @@ As("time", {"slow-start", "proxy-connect-timeout", "proxy-read-timeout",
                 "proxy-send-timeout", "proxy-next-upstream-timeout"})
  @@ As("raw", {"server-snippets", "location-snippets"}) @@ "add-header-inherit" :> "inherit"
  @@ As("header", {"proxy-hide-headers", "proxy-pass-headers"})
  @@ As("token", {"proxy-set-headers", "add-header"})
  @@ "client-max-body-size" :> "offset" @@ "hsts-max-age" :> "int64" @@ "proxy-buffers" :> "buffers"
  @@ As("sizeOrNone", {"client-body-buffer-size", "proxy-buffer-size", "proxy-busy-buffers-size",
                       "proxy-max-temp-file-size", "upstream-zone-size"})
  @@ "proxy-next-upstream" :> "next"

\* annotationValidations, second half.
ServerValidations ==
  As("name", {"basic-auth-secret", "jwt-key", "app-protect-policy", "app-protect-security-log",
              "app-protect-dos-resource", "upstream-vhost", "policies", "nginx.com/policies",
              "ssl-ciphers"})
  @@ As("text", {"basic-auth-realm", "jwt-realm"})
  @@ As("variable", {"jwt-token", "limit-req-key"}) @@ "jwt-login-url" :> "url"
  @@ As("ports", {"listen-ports", "listen-ports-ssl"}) @@ "keepalive" :> "int"
  @@ As("uint64", {"max-fails", "max-conns"}) @@ "fail-timeout" :> "time"
  @@ As("bool", {"app-protect-enable", "app-protect-security-log-enable", "use-cluster-ip"})
  @@ "app-protect-security-log-destination" :> "destination"
  @@ As("services", {"websocket-services", "ssl-services", "grpc-services"})
  @@ "rewrites" :> "rewrites" @@ As("path", {"rewrite-target", "app-root"})
  @@ As("sticky", {"sticky-cookie-services", "nginx.com/sticky-cookie-services"})
  @@ "path-regex" :> "regex" @@ "http-redirect-code" :> "redirect"
  @@ As("token", {"proxy-redirect-from", "proxy-redirect-to"}) @@ "custom-http-errors" :> "errors"

annotationValidations == ProxyValidations @@ ServerValidations

\* validatePlusOnlyAnnotation, validateAppProtectOnlyAnnotation and the like.
PlusOnly ==
  {"health-checks", "health-checks-mandatory", "health-checks-mandatory-queue", "slow-start",
   "jwt-realm", "jwt-key", "jwt-token", "jwt-login-url", "app-protect-enable",
   "app-protect-security-log-enable", "app-protect-policy", "app-protect-security-log",
   "app-protect-security-log-destination", "app-protect-dos-resource",
   "nginx.com/sticky-cookie-services", "nginx.com/policies"}
AppProtectOnly ==
  {"app-protect-enable", "app-protect-security-log-enable", "app-protect-policy",
   "app-protect-security-log", "app-protect-security-log-destination"}
Allowed(a, flags, hostless) ==
  /\ a \in PlusOnly => flags.plus
  /\ a \in AppProtectOnly => flags.appProtect
  /\ a = "app-protect-dos-resource" => flags.dos
  /\ a \in {"server-snippets", "location-snippets"} => flags.snippets
  /\ a \in {"listen-ports", "listen-ports-ssl"} => ~hostless

\* The annotations that may be empty.
Optional ==
  {"server-tokens", "server-snippets", "location-snippets", "proxy-hide-headers",
   "proxy-pass-headers", "proxy-busy-buffers-size", "basic-auth-realm", "jwt-token",
   "jwt-login-url", "app-protect-dos-resource", "path-regex", "use-cluster-ip", "app-root"}

\* validateRelatedAnnotation.
Related(a, ann) ==
  /\ a = "health-checks-mandatory" =>
       "health-checks" \in DOMAIN ann /\ ParseBool(ann["health-checks"]) = "true"
  /\ a = "health-checks-mandatory-queue" =>
       "health-checks-mandatory" \in DOMAIN ann /\ ParseBool(ann["health-checks-mandatory"]) = "true"
  /\ a \in {"hsts-max-age", "hsts-include-subdomains", "hsts-behind-proxy"} =>
       "hsts" \in DOMAIN ann /\ ParseBool(ann["hsts"]) # Error
  /\ a = "basic-auth-realm" => "basic-auth-secret" \in DOMAIN ann

\* The Services a list names are those of the Ingress.
KnownServices(a, s, services) ==
  a \in {"websocket-services", "ssl-services", "grpc-services", "rewrites"} => ServicesIn(s) \subseteq services

validateIngressAnnotation(a, ann, flags, hostless, services) ==
  /\ Allowed(a, flags, hostless)
  /\ Related(a, ann)
  /\ a \notin Optional => ann[a] # ""
  /\ Read(annotationValidations[a], ann[a], flags.plus) # Error
  /\ KnownServices(a, ann[a], services)

validateProxyRedirectPair(ann) ==
  LET from == "proxy-redirect-from" \in DOMAIN ann
      to == "proxy-redirect-to" \in DOMAIN ann
      word == from /\ ann["proxy-redirect-from"] \in {"off", "default"}
  IN (to => from /\ ~word) /\ (from /\ ~word => to)

\* spec is [rules, default, tls], a sequence of [host, paths], the default backend and the
\* sequence of the hosts of tls; paths is a sequence of backends.  A backend is [path, service],
\* path being "ok", "empty" (and not ImplementationSpecific) or "bad", service NoBackend when it
\* is not a Service.
NoBackend == "none"
NoDefault == [path |-> "unset", service |-> NoBackend]

getSpecServices(spec) ==
  {spec.default.service} \cup
    UNION {{spec.rules[i].paths[j].service : j \in DOMAIN spec.rules[i].paths} : i \in DOMAIN spec.rules}

hasEmptyHostRule(spec) == \E i \in DOMAIN spec.rules : spec.rules[i].host = ""

validateBackend(b) == b.service # NoBackend
validatePath(b) == b.path = "ok"

validateIngressSpec(spec, allowEmptyHost) ==
  /\ spec.default # NoDefault => validateBackend(spec.default)
  /\ spec.rules # << >>
  /\ \A i \in DOMAIN spec.rules :
       /\ spec.rules[i].host = "" => allowEmptyHost
       /\ \A j \in 1..(i - 1) : spec.rules[j].host # spec.rules[i].host
       /\ \A j \in DOMAIN spec.rules[i].paths :
            validatePath(spec.rules[i].paths[j]) /\ validateBackend(spec.rules[i].paths[j])

validateHostlessIngress(spec) == ~Contains(spec.tls, "")

validateMasterSpec(spec) == Len(spec.rules) = 1 /\ spec.rules[1].paths = << >>
validateMinionSpec(spec) == spec.tls = << >> /\ Len(spec.rules) = 1 /\ spec.rules[1].paths # << >>

validateIngress(ing, flags) ==
  LET hostless == flags.allowEmptyHost /\ hasEmptyHostRule(ing.spec)
  IN /\ \A a \in DOMAIN ing.annotations \cap DOMAIN annotationValidations :
          validateIngressAnnotation(a, ing.annotations, flags, hostless, getSpecServices(ing.spec))
     /\ validateProxyRedirectPair(ing.annotations)
     /\ validateIngressSpec(ing.spec, flags.allowEmptyHost)
     /\ hostless => validateHostlessIngress(ing.spec)
     /\ TypeOf(ing) = "master" => validateMasterSpec(ing.spec)
     /\ TypeOf(ing) = "minion" => validateMinionSpec(ing.spec)
-----------------------------------------------------------------------------
(* Reading: parseAnnotations by its sections.                                *)

Has(ann, k) == k \in DOMAIN ann

\* The upstream, and what the proxy waits for.
UpstreamFormats ==
  "lb-method" :> "lb" @@ As("int", {"keepalive", "max-fails", "max-conns"}) @@ "fail-timeout" :> "time"
ProxyFormats ==
  As("time", {"proxy-connect-timeout", "proxy-read-timeout", "proxy-send-timeout",
              "proxy-next-upstream-timeout"})
  @@ As("header", {"proxy-hide-headers", "proxy-pass-headers"})
  @@ As("raw", {"proxy-set-headers", "add-header", "proxy-next-upstream", "client-max-body-size"})
ServerFormats ==
  "server-tokens" :> "tokens" @@ As("raw", {"server-snippets", "location-snippets", "ssl-ciphers"})
  @@ "add-header-inherit" :> "inherit" @@ "http-redirect-code" :> "redirect"
  @@ As("bool", {"redirect-to-https", "ssl-redirect", "ssl-prefer-server-ciphers", "proxy-buffering"})

\* The buffers are taken as they are: "gets validated in k8s/validation.go".
BufferFormats ==
  As("raw", {"proxy-buffers", "proxy-buffer-size", "proxy-busy-buffers-size", "upstream-zone-size",
             "proxy-max-temp-file-size", "proxy-redirect-from", "proxy-redirect-to"})
  @@ "custom-http-errors" :> "errors"
AuthFormats(plus) ==
  As("raw", {"basic-auth-secret", "basic-auth-realm"}
            \cup IF plus THEN {"jwt-realm", "jwt-key", "jwt-token", "jwt-login-url"} ELSE {})
  @@ As("ports", {"listen-ports", "listen-ports-ssl"}) @@ As("raw", {"app-root"})
AppProtectFormats(flags) ==
  As("switch", IF flags.appProtect THEN {"app-protect-enable", "app-protect-security-log-enable"} ELSE {})
  @@ As("raw", IF flags.dos THEN {"app-protect-dos-resource"} ELSE {})
RateLimitFormats ==
  "limit-req-rate" :> "rate" @@ "limit-req-key" :> "raw" @@ "limit-req-zone-size" :> "size"
  @@ As("int", {"limit-req-delay", "limit-req-burst", "limit-req-reject-code"})
  @@ As("bool", {"limit-req-no-delay", "limit-req-dry-run", "limit-req-scale"})
  @@ "limit-req-log-level" :> "level"
WallarmFormats ==
  "wallarm-mode" :> "mode" @@ "wallarm-mode-allow-override" :> "override"
  @@ As("onoff", {"wallarm-fallback", "wallarm-parse-response", "wallarm-parse-websocket",
                  "wallarm-unpack-response"})
  @@ "wallarm-application" :> "application" @@ "wallarm-partner-client-uuid" :> "uuid"
  @@ "wallarm-block-page" :> "page" @@ "wallarm-parser-disable" :> "parsers"
ServiceFormats ==
  As("services", {"websocket-services", "ssl-services", "grpc-services"})
  @@ "rewrites" :> "rewrites" @@ "upstream-vhost" :> "raw"

\* An error leaves the zero value.
Zeroed(ann, k, f, zero) ==
  IF ~Has(ann, k) THEN << >> ELSE k :> (IF Read(f, ann[k], FALSE) = Error THEN zero ELSE ann[k])
ZeroFormats(ann) ==
  Zeroed(ann, "proxy-next-upstream-tries", "uint64", "0")
  @@ Zeroed(ann, "client-body-buffer-size", "size", "")

\* One annotation counts only when the one above it is on.
HealthChecks(ann, plus) ==
  LET on(k) == Has(ann, k) /\ ParseBool(ann[k]) = "true"
      enabled == plus /\ on("health-checks")
      mandatory == enabled /\ on("health-checks-mandatory")
  IN (IF enabled THEN "health-checks" :> "true" ELSE << >>)
     @@ (IF mandatory THEN "health-checks-mandatory" :> "true"
                            @@ Zeroed(ann, "health-checks-mandatory-queue", "int64", "0") ELSE << >>)
     @@ (IF plus THEN Settings(ann, "slow-start" :> "time", plus) ELSE << >>)

\* All of the HSTS keys, or none of them; the same code reads them from the ConfigMap.
HSTSFormats ==
  "hsts-max-age" :> "int64" @@ As("bool", {"hsts", "hsts-include-subdomains", "hsts-behind-proxy"})
HSTS(texts) ==
  IF Has(texts, "hsts") /\ AllReadable(texts, HSTSFormats, FALSE)
  THEN Settings(texts, HSTSFormats, FALSE) ELSE << >>

\* The older of two names counts when the newer one is absent.
Renamed(ann, k, older, f) ==
  IF Has(ann, k) THEN Settings(ann, k :> f, FALSE)
  ELSE IF Has(ann, older) /\ Read(f, ann[older], FALSE) # Error THEN k :> Read(f, ann[older], FALSE)
  ELSE << >>

\* rewrites takes precedence over rewrite-target.
getRewriteTarget(ann) ==
  IF Has(ann, "rewrite-target") /\ ~Has(ann, "rewrites")
  THEN "rewrite-target" :> ann["rewrite-target"] ELSE << >>

Formats(flags) ==
  UpstreamFormats @@ ProxyFormats @@ ServerFormats @@ BufferFormats @@ AuthFormats(flags.plus)
  @@ AppProtectFormats(flags) @@ RateLimitFormats @@ WallarmFormats @@ ServiceFormats

\* The texts of sizes as ProxyBuffers has them; the bytes of 2^63 megabytes wrap to zero.
AmountOf(s) == CASE s = "0" -> 0 [] s = "5" -> 5 [] s = "301" -> 301 [] s = "404" -> 404
                 [] s = "8080" -> 8080 [] s = "2^63" -> 32768
SizeOf(s) == CASE s = "" -> Proxy!NoSize [] s = "8k" -> Proxy!Size(8, "k")
               [] s = "4k" -> Proxy!Size(4, "k") [] s = "0k" -> Proxy!Size(0, "k")
               [] s = "24k" -> Proxy!Size(24, "k") [] OTHER -> Proxy!Size(AmountOf(s), "")
BuffersOf(s) == CASE s = "" -> Proxy!NoBuffers [] s = "4 8k" -> [n |-> 4, size |-> Proxy!Size(8, "k")]
                  [] s = "2 4k" -> [n |-> 2, size |-> Proxy!Size(4, "k")]
SizeText(size) == ToString(size.n) \o size.unit

\* With -enable-directive-autoadjust the three values are balanced, when any of them is set;
\* the ConfigMap's are as well.
BufferKeys == {"proxy-buffers", "proxy-buffer-size", "proxy-busy-buffers-size"}
Autoadjusted(s, flags) ==
  LET text(k) == IF Has(s, k) THEN s[k] ELSE ""
      written(v) == "proxy-buffers" :> (ToString(v.buffers.n) \o " " \o SizeText(v.buffers.size))
                    @@ "proxy-buffer-size" :> SizeText(v.bufferSize)
                    @@ "proxy-busy-buffers-size" :> SizeText(v.busySize)
  IN IF ~flags.autoadjust \/ \A k \in BufferKeys : text(k) = "" THEN s
     ELSE written(Proxy!BalanceProxyValues(BuffersOf(text("proxy-buffers")), SizeOf(text("proxy-buffer-size")),
                                           SizeOf(text("proxy-busy-buffers-size")))) @@ s

\* The settings an Ingress makes, over those of the ConfigMap.
parseAnnotations(ann, base, flags) ==
  Autoadjusted(Settings(ann, Formats(flags), flags.plus) @@ ZeroFormats(ann) @@ HealthChecks(ann, flags.plus)
    @@ HSTS(ann) @@ Renamed(ann, "ssl-redirect", "ingress.kubernetes.io/ssl-redirect", "bool")
    @@ Renamed(ann, "sticky-cookie-services", "nginx.com/sticky-cookie-services", "sticky")
    @@ getRewriteTarget(ann) @@ base, flags)

-----------------------------------------------------------------------------
(* Masters and minions.                                                      *)

masterDenylist ==
  {"rewrites", "ssl-services", "grpc-services", "websocket-services", "sticky-cookie-services",
   "nginx.com/sticky-cookie-services", "health-checks", "health-checks-mandatory",
   "health-checks-mandatory-queue", "use-cluster-ip"}

\* The App Protect annotations are listed with underscores, which no annotation has.
minionDenylist ==
  {"proxy-hide-headers", "proxy-pass-headers", "redirect-to-https", "ssl-redirect",
   "ingress.kubernetes.io/ssl-redirect", "http-redirect-code", "hsts", "hsts-max-age",
   "hsts-include-subdomains", "server-tokens", "listen-ports", "listen-ports-ssl",
   "server-snippets", "ssl-ciphers", "ssl-prefer-server-ciphers", "app-root",
   "app-protect-dos-resource"}

minionInheritanceList ==
  {"proxy-connect-timeout", "proxy-read-timeout", "proxy-send-timeout", "client-max-body-size",
   "proxy-buffering", "proxy-buffers", "proxy-buffer-size", "proxy-busy-buffers-size",
   "proxy-max-temp-file-size", "upstream-zone-size", "location-snippets", "lb-method", "keepalive",
   "max-fails", "max-conns", "fail-timeout", "upstream-vhost"} \cup DOMAIN RateLimitFormats

filterMasterAnnotations(ann) == RestrictDomain(ann, LAMBDA k : k \notin masterDenylist)
filterMinionAnnotations(ann) == RestrictDomain(ann, LAMBDA k : k \notin minionDenylist)

\* Mutant: the annotations of the master win.
mergeMasterAnnotationsIntoMinion_bug(minion, master) ==
  RestrictDomain(master, LAMBDA k : k \in minionInheritanceList) @@ minion

mergeMasterAnnotationsIntoMinion(minion, master) ==
  minion @@ RestrictDomain(master, LAMBDA k : k \in minionInheritanceList)
-----------------------------------------------------------------------------
(* The file of an Ingress: its server and its locations, a location being    *)
(* [settings, setHeaders, addHeaders] with its upstream among the settings.  *)

\* In the server of a regular Ingress or a master, in the locations of a minion.
ServerOrMinionKeys ==
  {"proxy-redirect-from", "proxy-redirect-to", "add-header-inherit", "custom-http-errors",
   "jwt-realm", "jwt-key", "jwt-token", "jwt-login-url", "basic-auth-secret", "basic-auth-realm"}
ServerKeys ==
  {"server-tokens", "http2", "redirect-to-https", "ssl-redirect", "http-redirect-code", "ssl-ciphers",
   "ssl-prefer-server-ciphers", "proxy-protocol", "real-ip-header", "set-real-ip-from",
   "real-ip-recursive", "proxy-hide-headers", "proxy-pass-headers", "add-header",
   "server-snippets", "listen-ports", "listen-ports-ssl", "app-protect-enable",
   "app-protect-security-log-enable", "app-protect-dos-resource", "app-root", "keepalive"}
  \cup DOMAIN HSTSFormats \cup ServerOrMinionKeys

\* createLocation and createUpstream.
LocationKeys ==
  {"proxy-connect-timeout", "proxy-read-timeout", "proxy-send-timeout", "client-max-body-size",
   "client-body-buffer-size", "websocket-services", "rewrites", "rewrite-target", "upstream-vhost",
   "ssl-services", "grpc-services", "proxy-buffering", "proxy-buffers", "proxy-buffer-size",
   "proxy-busy-buffers-size", "proxy-max-temp-file-size", "disable-forwarded-headers",
   "proxy-next-upstream", "proxy-next-upstream-timeout", "proxy-next-upstream-tries",
   "location-snippets", "lb-method", "max-fails", "max-conns", "fail-timeout", "slow-start",
   "upstream-zone-size", "sticky-cookie-services", "health-checks", "health-checks-mandatory",
   "health-checks-mandatory-queue"}
  \cup DOMAIN RateLimitFormats \cup DOMAIN WallarmFormats

\* gRPC needs HTTP2, a rate limit a rate, Wallarm a mode and JWT a key; that a gRPC location of a
\* minion ignores custom-http-errors is left out.
Ineffective(s) ==
  (IF Has(s, "http2") /\ s["http2"] = "true" THEN {} ELSE {"grpc-services"})
  \cup (IF Has(s, "limit-req-rate") THEN {} ELSE DOMAIN RateLimitFormats)
  \cup (IF Has(s, "wallarm-mode") THEN {} ELSE DOMAIN WallarmFormats)
  \cup (IF Has(s, "jwt-key") THEN {} ELSE {"jwt-realm", "jwt-token", "jwt-login-url"})
  \cup (IF Has(s, "basic-auth-secret") THEN {} ELSE {"basic-auth-realm"})

ValueOf(ann, k) == IF Has(ann, k) THEN {ann[k]} ELSE {}

LocationOf(s, keys, setHeaders, addHeaders) ==
  [settings |-> RestrictDomain(s, LAMBDA k : k \in keys \ Ineffective(s)),
   setHeaders |-> setHeaders, addHeaders |-> addHeaders]

ServerOf(s) == RestrictDomain(s, LAMBDA k : k \in ServerKeys \ Ineffective(s))

generateNginxCfg(ann, base, flags) ==
  LET file(s) == [server |-> ServerOf(s),
                  location |-> LocationOf(s, LocationKeys, ValueOf(ann, "proxy-set-headers"), {})]
  IN file(parseAnnotations(ann, base, flags))

\* The master makes the server and has no locations; a minion's set headers are added to those
\* of the master, and its server settings are dropped.
generateNginxCfgForMergeableIngresses(masterAnn, minionAnns, base, flags) ==
  LET master == filterMasterAnnotations(masterAnn)
      merged(m) == mergeMasterAnnotationsIntoMinion(minionAnns[m], master)
      location(m) == LocationOf(parseAnnotations(filterMinionAnnotations(merged(m)), base, flags),
                       LocationKeys \cup ServerOrMinionKeys,
                       ValueOf(merged(m), "proxy-set-headers") \cup ValueOf(master, "proxy-set-headers"),
                       ValueOf(merged(m), "add-header"))
  IN [server |-> ServerOf(parseAnnotations(master, base, flags)),
      locations |-> [m \in DOMAIN minionAnns |-> location(m)]]
=============================================================================
