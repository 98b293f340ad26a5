----------------------- MODULE VirtualServerValidation -----------------------
(***************************************************************************)
(* What a VirtualServer or VirtualServerRoute has to satisfy to be accepted  *)
(* (pkg/apis/configuration/validation/virtualserver.go and common.go).       *)
(*                                                                           *)
(* A text is a string: "" when it is not set, Bad when its form is refused.  *)
(* A text with variables is [text, vars], a variable [special, name], where  *)
(* special is a prefix such as "http_" or "".  An optional part is a set of  *)
(* no or one element.  A path is [mod, space, uri]: the modifier, whether    *)
(* whitespace follows it, and the URI as a sequence of tokens.  vsv is the   *)
(* validator, the record of the features that are enabled.                   *)
(***************************************************************************)
EXTENDS ProxyBuffers, Sequences, FiniteSets, SequencesExt, Functions

Bad == "bad"
None == {}

WellFormed(t) == t # Bad
Required(t) == t \notin {"", Bad}
Every(parts, Valid(_)) == \A i \in DOMAIN parts : Valid(parts[i])
Distinct(s) == IsInjective(s)

InRange(n, low, high) == low <= n /\ n <= high
IsValidPortNum(n) == InRange(n, 1, 65535)

NormalizePath(path) == [path EXCEPT !.space = FALSE]
HasPrefix(path, prefix) ==
  LET Tokens(p) == (IF p.mod = "" THEN << >> ELSE <<p.mod>>) \o p.uri
  IN IsPrefix(Tokens(prefix), Tokens(path))

-----------------------------------------------------------------------------
(* Texts with variables, times, sizes and names.                             *)

parseSpecialVariable(v) == v.name # ""

validateSpecialVariable(vsv, v) ==
  /\ parseSpecialVariable(v)
  /\ v.special \in {"arg_", "http_", "cookie_", "jwt_header_", "jwt_claim_", "apikey_"}
  /\ v.special \in {"jwt_header_", "jwt_claim_"} => vsv.isPlus
  /\ WellFormed(v.name)

validateStringWithVariables(vsv, t, specials, names) ==
  \A v \in t.vars : IF v.special \in specials THEN validateSpecialVariable(vsv, v)
                    ELSE v.special = "" /\ v.name \in names

ValidateEscapedString(t) == WellFormed(t.text)

validateEscapedStringWithVariables(vsv, t, specials, names) ==
  ValidateEscapedString(t) /\ validateStringWithVariables(vsv, t, specials, names)

validateAddHeaderInherit(t) == t \in {"on", "off", "merge"}
validateTime(t) == WellFormed(t)
validateOffset(t) == WellFormed(t)
validateSize(s) == s = NoSize \/ (s.n >= 0 /\ s.unit \in {"", "k", "m"})
validateSecretName(t) == WellFormed(t)
IsHTTPHeaderName(t) == Required(t)
isCookieName(t) == Required(t)

\* A service may be given with its namespace.
validateServiceName(t) == Required(t)
validateVirtualServerServiceName(s) ==
  WellFormed(s.namespace) /\ validateServiceName(s.name)

-----------------------------------------------------------------------------
(* Upstreams.                                                                *)

HashMethods == {"ip_hash", "hash $key", "hash $key consistent"}
RandomMethods == {"random", "random two", "random two least_conn"}
PlusRandomMethods == {"random two least_time=header", "random two least_time=last_byte"}
LeastTimeMethods == {"least_time header", "least_time last_byte",
                     "least_time header inflight", "least_time last_byte inflight"}

ParseLBMethod(m) ==
  [ok |-> m \in {"round_robin", "least_conn"} \cup HashMethods \cup RandomMethods,
   method |-> IF m = "round_robin" THEN "" ELSE m]

ParseLBMethodForPlus(m) ==
  [ok |-> ParseLBMethod(m).ok \/ m \in PlusRandomMethods \cup LeastTimeMethods,
   method |-> ParseLBMethod(m).method]

validateUpstreamLBMethod(vsv, m) ==
  m = "" \/ (IF vsv.isPlus THEN ParseLBMethodForPlus(m) ELSE ParseLBMethod(m)).ok

validateBuffer(b) ==
  b = NoBuffers \/ (b.n > 0 /\ b.size # NoSize /\ validateSize(b.size))

validateHeader(h) == IsHTTPHeaderName(h.name) /\ WellFormed(h.value.text) /\ h.value.vars = {}

\* A status match is a sequence of codes, <<200>>, and ranges of codes, <<200, 299>>.
validateStatusCode(code) == InRange(code, 100, 999)
validateStatusCodeRange(range) ==
  /\ Len(range) <= 2
  /\ Every(range, validateStatusCode)
  /\ Len(range) = 2 => range[1] < range[2]
validateStatusMatch(match) == Every(match, validateStatusCodeRange)

validateGrpcStatusCode(code) == InRange(code, 0, 16)

validateGrpcHealthCheck(hc, type) ==
  IF type # "grpc" THEN hc.grpcStatus = None /\ hc.grpcService = ""
  ELSE /\ hc.path = "" /\ hc.statusMatch = << >>
       /\ \A code \in hc.grpcStatus : validateGrpcStatusCode(code)
       /\ WellFormed(hc.grpcService)

validateUpstreamHealthCheck(hc, type) ==
  /\ validateGrpcHealthCheck(hc, type)
  /\ WellFormed(hc.path)
  /\ \A t \in hc.times : validateTime(t)
  /\ hc.fails >= 0 /\ hc.passes >= 0
  /\ validateStatusMatch(hc.statusMatch)
  /\ Every(hc.headers, validateHeader)
  /\ hc.port > 0 => IsValidPortNum(hc.port)
  /\ hc.persistent => hc.mandatory

validateSessionCookie(sc) ==
  /\ isCookieName(sc.name)
  /\ WellFormed(sc.path)
  /\ sc.expires # "max" => validateTime(sc.expires)
  /\ WellFormed(sc.domain)
  /\ sc.sameSite \in {"", "strict", "lax", "none"}

validateUpstreamType(t) == t \in {"", "http", "grpc"}

validateQueue(q) == q.size > 0 /\ validateTime(q.timeout)

validNextUpstreamParams ==
  {"error", "timeout", "invalid_header", "http_500", "http_502", "http_503", "http_504",
   "http_403", "http_404", "http_429", "non_idempotent", "off"}
validateNextUpstream(params) == Range(params) \subseteq validNextUpstreamParams /\ Distinct(params)

\* Only the method of the resource is looked at, not the default one it would get.
validateBackup(u) ==
  \/ u.backup = "" /\ u.backupPort = None
  \/ /\ u.backup # "" /\ u.backupPort # None
     /\ u.lb \notin HashMethods \cup RandomMethods \cup PlusRandomMethods
     /\ validateServiceName(u.backup)
     /\ \A p \in u.backupPort : IsValidPortNum(p)

rejectPlusResourcesInOSS(vsv, u) ==
  vsv.isPlus \/ (u.hc = None /\ u.slowStart = "" /\ u.queue = None /\ ~u.ntlm)

isValidLabelName(l) == Required(l)
validateLabels(labels) == \A l \in labels : isValidLabelName(l[1]) /\ WellFormed(l[2])

validateUpstream(vsv, u) ==
  /\ Required(u.name)
  /\ IF u.useClusterIP /\ u.subselector # None THEN FALSE ELSE validateLabels(u.subselector)
  /\ validateVirtualServerServiceName(u.service)
  /\ \A t \in u.times : validateTime(t)
  /\ validateNextUpstream(u.nextUpstream)
  /\ \A n \in u.counts : n >= 0
  /\ validateUpstreamLBMethod(vsv, u.lb)
  /\ validateOffset(u.clientMaxBodySize)
  /\ \A hc \in u.hc : validateUpstreamHealthCheck(hc, u.type)
  /\ validateTime(u.slowStart)
  /\ validateBuffer(u.buffers)
  /\ validateSize(u.bufferSize) /\ validateSize(u.busySize) /\ validateSize(u.bodySize)
  /\ \A q \in u.queue : validateQueue(q)
  /\ \A sc \in u.sessionCookie : validateSessionCookie(sc)
  /\ validateUpstreamType(u.type)
  /\ IsValidPortNum(u.port)
  /\ validateBackup(u)
  /\ rejectPlusResourcesInOSS(vsv, u)

UpstreamNames(ups) == {u.name : u \in Range(ups)} \ {"", Bad}

validateUpstreams(vsv, ups) ==
  /\ \A i \in DOMAIN ups : validateUpstream(vsv, ups[i])
  /\ Distinct([i \in DOMAIN ups |-> ups[i].name])
-----------------------------------------------------------------------------
(* Actions, splits, matches and error pages.                                 *)

validRedirectStatusCodes == {301, 302, 307, 308}
validRedirectVariableNames == {"scheme", "http_x_forwarded_proto", "request_uri", "host"}
validErrorPageRedirectVariables == {"scheme", "http_x_forwarded_proto"}
errorPageReturnBodyVariable == {"upstream_status"}
returnBodySpecialVariables == {"arg_", "http_", "cookie_"}
actionProxyHeaderSpecialVariables == {"arg_", "http_", "cookie_", "jwt_claim_", "jwt_header_"}

\* Of the variables allowed in return bodies and proxied headers, the ones told apart here.
returnBodyVariables == {"request_uri", "scheme", "host", "remote_addr"}
actionProxyHeaderVariables == {"request_uri", "scheme", "host", "ssl_protocol"}

countActions(a) ==
  (IF a.pass = "" THEN 0 ELSE 1)
    + Cardinality(a.redirect) + Cardinality(a.return) + Cardinality(a.proxy)

\* A URL without a protocol is Bad as well.
validateRedirectURL(vsv, url, names) ==
  url.text # "" /\ validateEscapedStringWithVariables(vsv, url, {}, names)

validateActionRedirect(vsv, redirect, names) ==
  /\ validateRedirectURL(vsv, redirect.url, names)
  /\ redirect.code # 0 => redirect.code \in validRedirectStatusCodes

validateActionReturnCode(code) == InRange(code, 200, 299) \/ InRange(code, 400, 599)

validateActionReturn(vsv, r, specials, names) ==
  /\ r.body.text # ""
  /\ validateEscapedStringWithVariables(vsv, r.body, specials, names)
  /\ WellFormed(r.type)
  /\ r.code # 0 => validateActionReturnCode(r.code)

validateReferencedUpstream(name, upstreamNames) == Required(name) /\ name \in upstreamNames

validateActionProxyHeader(vsv, h) ==
  /\ IsHTTPHeaderName(h.name)
  /\ validateEscapedStringWithVariables(vsv, h.value, actionProxyHeaderSpecialVariables,
                                        actionProxyHeaderVariables)

validIgnoreHeaders ==
  {"X-Accel-Redirect", "X-Accel-Expires", "X-Accel-Limit-Rate", "X-Accel-Buffering",
   "X-Accel-Charset", "Expires", "Cache-Control", "Set-Cookie", "Vary"}

validateActionProxyResponseHeaders(vsv, h) ==
  /\ Every(h.hide, IsHTTPHeaderName) /\ Every(h.pass, IsHTTPHeaderName)
  /\ \A i \in DOMAIN h.add : validateActionProxyHeader(vsv, h.add[i])
  /\ Range(h.ignore) \subseteq validIgnoreHeaders

\* A rewrite path is [text, regexp]: whether its form is one only a regular expression, or
\* an internal location, may have (a backslash, say).
validateActionProxy(vsv, p, upstreamNames, path, internal) ==
  /\ validateReferencedUpstream(p.upstream, upstreamNames)
  /\ \A h \in p.requestHeaders : validateActionProxyHeader(vsv, h)
  /\ \A h \in p.responseHeaders : validateActionProxyResponseHeaders(vsv, h)
  /\ WellFormed(p.rewritePath.text)
  /\ p.rewritePath.regexp => path.mod \in {"~", "~*"} \/ internal

validateAction(vsv, a, upstreamNames, path, internal) ==
  /\ countActions(a) = 1
  /\ a.pass # "" => validateReferencedUpstream(a.pass, upstreamNames)
  /\ \A r \in a.redirect : validateActionRedirect(vsv, r, validRedirectVariableNames)
  /\ \A r \in a.return : /\ validateActionReturn(vsv, r, returnBodySpecialVariables, returnBodyVariables)
                         /\ Every(r.headers, validateHeader)
  /\ \A p \in a.proxy : validateActionProxy(vsv, p, upstreamNames, path, internal)

validateSplits(vsv, splits, upstreamNames, path) ==
  /\ Len(splits) >= 2
  /\ \A i \in DOMAIN splits : /\ InRange(splits[i].weight, 0, 100)
                              /\ validateAction(vsv, splits[i].action, upstreamNames, path, TRUE)
  /\ FoldLeft(LAMBDA sum, s : sum + s.weight, 0, splits) = 100

\* Of the variables allowed in conditions, some.
validVariableNames == {"$args", "$request_method", "$scheme"}

validateCondition(c) ==
  /\ c.kind \in {"header", "cookie", "argument", "variable"}
  /\ Required(c.name)
  /\ c.kind = "variable" => c.name \in validVariableNames
  /\ WellFormed(c.value.text)

validateMatch(vsv, m, upstreamNames, path) ==
  /\ m.conditions # << >> /\ Every(m.conditions, validateCondition)
  /\ \A a \in m.action : validateAction(vsv, a, upstreamNames, path, TRUE)
  /\ m.splits # << >> => validateSplits(vsv, m.splits, upstreamNames, path)
  /\ (m.action = None) # (m.splits = << >>)

validateErrorPage(vsv, e) ==
  /\ (e.return = None) # (e.redirect = None)
  /\ e.codes # << >>
  /\ \A i \in DOMAIN e.codes : InRange(e.codes[i], 300, 599)
  /\ \A r \in e.return :
       /\ validateActionReturn(vsv, r, {}, errorPageReturnBodyVariable)
       /\ \A i \in DOMAIN r.headers :
            /\ IsHTTPHeaderName(r.headers[i].name)
            /\ validateEscapedStringWithVariables(vsv, r.headers[i].value, {}, errorPageReturnBodyVariable)
  /\ \A r \in e.redirect : validateActionRedirect(vsv, r, validErrorPageRedirectVariables)
-----------------------------------------------------------------------------
(* Routes.                                                                   *)

\* The keys have to differ; a policy without a namespace is in that of the resource.
validatePolicies(policies, namespace) ==
  /\ Distinct([i \in DOMAIN policies |->
                 [policies[i] EXCEPT !.namespace = IF @ = "" THEN namespace ELSE @]])
  /\ \A i \in DOMAIN policies : Required(policies[i].name) /\ WellFormed(policies[i].namespace)

validateDos(vsv, dos) == dos # "" => vsv.isDosEnabled /\ WellFormed(dos)

validateRouteSelector(labels) ==
  labels # {} /\ validateLabels(labels) /\ \A l \in labels : l[2] # ""

\* Bad in the URI: a character no path may have, or an expression that does not compile.
validateRoutePath(path) ==
  /\ path.mod \in {"", "~", "~*", "=", "^~"}
  /\ path.uri # << >>
  /\ Bad \notin Range(path.uri)

subrouteModifierCategory(path) ==
  CASE path.mod \in {"~", "~*"} -> "regex"
    [] path.mod = "=" -> "exact"
    [] path.mod = "^~" -> "longest-prefix"
    [] OTHER -> "prefix"

\* Matches come on top of the one field that is required.
validateRoute(vsv, r, upstreamNames, isRouteFieldForbidden, namespace) ==
  /\ validateRoutePath(r.path)
  /\ validatePolicies(r.policies, namespace)
  /\ \A a \in r.action : validateAction(vsv, a, upstreamNames, r.path, FALSE)
  /\ r.splits # << >> => validateSplits(vsv, r.splits, upstreamNames, r.path)
  /\ \A i \in DOMAIN r.matches : validateMatch(vsv, r.matches[i], upstreamNames, r.path)
  /\ \A labels \in r.routeSelector : validateRouteSelector(labels)
  /\ \A i \in DOMAIN r.errorPages : validateErrorPage(vsv, r.errorPages[i])
  /\ \A ref \in r.route : ~isRouteFieldForbidden /\ WellFormed(ref.namespace) /\ Required(ref.name)
  /\ Cardinality(r.action) + (IF r.splits = << >> THEN 0 ELSE 1)
       + Cardinality(r.routeSelector) + Cardinality(r.route) = 1
  /\ r.addHeaderInherit # "" => validateAddHeaderInherit(r.addHeaderInherit)
  /\ validateDos(vsv, r.dos)

DistinctPaths(routes) == Distinct([i \in DOMAIN routes |-> NormalizePath(routes[i].path)])

RouteKey(ref, namespace) ==
  [ref EXCEPT !.namespace = IF @ = "" THEN namespace ELSE @]

\* Routes that name the same VirtualServerRoute use the same kind of modifier.
validateVirtualServerRoutes(vsv, routes, upstreamNames, namespace) ==
  /\ \A i \in DOMAIN routes : validateRoute(vsv, routes[i], upstreamNames, FALSE, namespace)
  /\ DistinctPaths(routes)
  /\ \A i, j \in DOMAIN routes :
       (\E a \in routes[i].route, b \in routes[j].route :
          RouteKey(a, namespace) = RouteKey(b, namespace))
       => subrouteModifierCategory(routes[i].path) = subrouteModifierCategory(routes[j].path)

Subroutes(vsv, routes, upstreamNames, namespace) ==
  /\ \A i \in DOMAIN routes : validateRoute(vsv, routes[i], upstreamNames, TRUE, namespace)
  /\ DistinctPaths(routes)

validateSubroutesStandalone(routes) ==
  \A i, j \in DOMAIN routes : subrouteModifierCategory(routes[i].path)
                                = subrouteModifierCategory(routes[j].path)

validateSubroutesExact(routes, vsPath) ==
  Len(routes) = 1 /\ NormalizePath(routes[1].path) = NormalizePath(vsPath)

\* The paths of the subroutes are exactly those of the routes that name them.
validateSubroutesRegex(routes, vsPaths) ==
  {NormalizePath(routes[i].path) : i \in DOMAIN routes}
    = {NormalizePath(vsPaths[i]) : i \in DOMAIN vsPaths}

validateSubroutesPrefix(routes, vsPath) ==
  \A i \in DOMAIN routes : HasPrefix(NormalizePath(routes[i].path), NormalizePath(vsPath))

\* Several paths lead to the same subroutes only when they are regular expressions.
validateVirtualServerRouteSubroutes(vsv, routes, upstreamNames, vsPaths, namespace) ==
  /\ Subroutes(vsv, routes, upstreamNames, namespace)
  /\ IF vsPaths = << >> THEN validateSubroutesStandalone(routes)
     ELSE /\ Len(vsPaths) > 1 => \A i \in DOMAIN vsPaths : vsPaths[i].mod \in {"~", "~*"}
          /\ CASE vsPaths[1].mod = "=" -> validateSubroutesExact(routes, vsPaths[1])
               [] vsPaths[1].mod \in {"~", "~*"} -> validateSubroutesRegex(routes, vsPaths)
               [] OTHER -> validateSubroutesPrefix(routes, vsPaths[1])

-----------------------------------------------------------------------------
(* The two resources.                                                        *)

validateHost(host) == Required(host)

validateTLSRedirect(redirect) ==
  /\ redirect.code \subseteq validRedirectStatusCodes
  /\ redirect.basedOn \in {"", "scheme", "x-forwarded-proto"}

validateTLS(vsv, tls) ==
  /\ validateSecretName(tls.secret)
  /\ \A r \in tls.redirect : validateTLSRedirect(r)
  /\ tls.certManager => vsv.isCertManagerEnabled /\ tls.secret # ""

validateExternalDNS(vsv, enabled) == enabled => vsv.isExternalDNSEnabled

ValidateVirtualServer(vsv, vs) ==
  /\ validateHost(vs.host)
  /\ \A tls \in vs.tls : validateTLS(vsv, tls)
  /\ validatePolicies(vs.policies, vs.namespace)
  /\ validateUpstreams(vsv, vs.upstreams)
  /\ validateVirtualServerRoutes(vsv, vs.routes, UpstreamNames(vs.upstreams), vs.namespace)
  /\ validateDos(vsv, vs.dos)
  /\ validateExternalDNS(vsv, vs.externalDNS)
  /\ vs.addHeaderInherit # "" => validateAddHeaderInherit(vs.addHeaderInherit)

ValidateVirtualServerRouteForVirtualServer(vsv, vsr, host, vsPaths) ==
  /\ validateHost(vsr.host) /\ (host = "" \/ vsr.host = host)
  /\ validateUpstreams(vsv, vsr.upstreams)
  /\ validateVirtualServerRouteSubroutes(vsv, vsr.subroutes, UpstreamNames(vsr.upstreams),
                                         vsPaths, vsr.namespace)

ValidateVirtualServerRoute(vsv, vsr) ==
  ValidateVirtualServerRouteForVirtualServer(vsv, vsr, "", << >>)

BalanceUpstreamProxies(vsv, r) ==
  [r EXCEPT !.upstreams = [i \in DOMAIN @ |->
      BalanceProxiesForUpstreams(@[i], vsv.isDirectiveAutoadjustEnabled)]]
=============================================================================
