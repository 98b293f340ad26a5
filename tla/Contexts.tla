------------------------------ MODULE Contexts -------------------------------
(***************************************************************************)
(* From a resource to the policies, secrets and locations of its config      *)
(* file: generateSSLConfig and GenerateVirtualServerConfig for a             *)
(* VirtualServer with its VirtualServerRoutes, generateNginxCfg and          *)
(* generateNginxCfgForMergeableIngresses for an Ingress or a master with its *)
(* minions, generateSSLConfig for a TransportServer.  What the generator is  *)
(* given comes from createVirtualServerEx and createIngressEx.               *)
(*                                                                           *)
(* A generated config is [ssl, server, locations, internal, clients, auth,   *)
(* panic]: what the certificate is read from, the policies of the server     *)
(* block, one record per location, the generated locations, the API keys by  *)
(* map, the locations of external auth services in the order they are        *)
(* written.                                                                  *)
(***************************************************************************)
EXTENDS Policies

\* A route: policies attached to it, and the VirtualServerRoute it delegates to, if any.
Route(path, policies) == [path |-> path, policies |-> policies, route |-> << >>]
Delegation(path, policies, vsr) == [path |-> path, policies |-> policies, route |-> vsr]

NoTLS == [on |-> FALSE, host |-> FALSE, secret |-> NoSecret]
TLS(k) == [on |-> TRUE, host |-> TRUE, secret |-> k]

VirtualServer(ns, name, tls, policies, routes, vsrs) ==
  [kind |-> "vs", ns |-> ns, name |-> name, tls |-> tls, policies |-> policies,
   routes |-> routes, vsrs |-> vsrs]
\* policies: the references of the nginx.org annotation, plus: those of the nginx.com one.
Ingress(ns, name, tls, policies, plus, basic, jwt) ==
  [kind |-> "ing", ns |-> ns, name |-> name, path |-> name, tls |-> tls,
   policies |-> policies, plus |-> plus, basic |-> basic, jwt |-> jwt, paths |-> 1,
   minions |-> << >>]
TransportServer(ns, name, tls) == [kind |-> "ts", ns |-> ns, name |-> name, tls |-> tls]

Range1(s) == {s[i] : i \in DOMAIN s}
KeySet(k) == IF k = NoSecret THEN {} ELSE {k}

-----------------------------------------------------------------------------
(* VirtualServers.                                                           *)

\* The lists of policies of a VirtualServer and its routes: references, namespace of their
\* owner, and context.
PolicyLists(vs) ==
  << [refs |-> vs.policies, ns |-> vs.ns, context |-> "spec"] >>
    \o [i \in DOMAIN vs.routes |->
          [refs |-> vs.routes[i].policies, ns |-> vs.ns, context |-> "route"]]
    \o FlattenSeq([v \in DOMAIN vs.vsrs |->
          [i \in DOMAIN vs.vsrs[v].subroutes |->
             [refs |-> vs.vsrs[v].subroutes[i].policies, ns |-> vs.vsrs[v].ns,
              context |-> "subroute"]]])

\* createVirtualServerEx: the keys in the SecretRefs of a VirtualServer.
VirtualServerSecretRefs(api, st, vs) ==
  KeySet(vs.tls.secret)
    \cup UNION {LET l == PolicyLists(vs)[i]
                IN LoadedForVirtualServer(st, getPolicies(api, l.refs, l.ns), l.context)
                : i \in DOMAIN PolicyLists(vs)}

\* A server without a usable certificate refuses the handshake; without a secret it takes
\* the wildcard certificate, if there is one.
generateSSLConfig(tls, st, wildcard) ==
  IF ~tls.on \/ (tls.secret = NoSecret /\ ~wildcard)
  THEN [on |-> FALSE, reject |-> FALSE, reads |-> {}]
  ELSE IF tls.secret = NoSecret THEN [on |-> TRUE, reject |-> FALSE, reads |-> {}]
  ELSE LET ref == st.refs[tls.secret]
           bad == ref.error \/ ref.secret.type # "TLS"
       IN [on |-> TRUE, reject |-> bad,
           reads |-> IF bad THEN {} ELSE Range1(ref.path)]

\* The contexts of the locations, in order: the routes that do not delegate, then the
\* subroutes.  A subroute without policies takes those of the route that delegates to it (of
\* the last one that has any), which belong to the VirtualServer.
RoutePolicies(vs, vsr) ==
  LET to(r) == r.route = <<vsr.ns, vsr.name>> /\ r.policies # << >>
      rs == SelectSeq(vs.routes, to)
  IN IF rs = << >> THEN << >> ELSE rs[Len(rs)].policies

LocationContexts(vs) ==
  LET own(r) == r.route = << >>
      routes == SelectSeq(vs.routes, own)
      sub(v, r) ==
        IF r.policies = << >>
        THEN [path |-> r.path, refs |-> RoutePolicies(vs, v), ns |-> vs.ns,
              owner |-> v.ns, context |-> "route"]
        ELSE [path |-> r.path, refs |-> r.policies, ns |-> v.ns,
              owner |-> v.ns, context |-> "subroute"]
  IN [i \in DOMAIN routes |->
        [path |-> routes[i].path, refs |-> routes[i].policies, ns |-> vs.ns,
         owner |-> vs.ns, context |-> "route"]]
       \o FlattenSeq([v \in DOMAIN vs.vsrs |->
            [i \in DOMAIN vs.vsrs[v].subroutes |->
               sub(vs.vsrs[v], vs.vsrs[v].subroutes[i])]])

EntriesOf(cfg, kind) == LET is(e) == e.kind = kind IN SelectSeq(cfg.pols, is)

\* The first policy with an auth URI decides what its location proxies to.  The endpoints of
\* the service are those createVirtualServerEx put under the name it has from the namespace of
\* the policy; the generator asks for the name from the namespace of the owner.
AuthLocation(api, auth, cfg, owner) ==
  LET es == EntriesOf(cfg, "ExternalAuth")
      p == CHOOSE q \in api : PolicyKey(q) = es[1].policy
  IN IF es = << >> \/ (\E i \in DOMAIN auth : auth[i].path = p.path) THEN auth
     ELSE Append(auth, [path |-> p.path, policy |-> PolicyKey(p),
                        asked |-> Resolve(p.service, owner)])

\* The map of an API key policy is named after the policy alone, and the clients of the first
\* one of that name are the ones in it.
ClientMaps(clients, cfg) ==
  LET es == EntriesOf(cfg, "APIKey")
  IN IF es = << >> \/ (\E c \in clients : c.map = es[1].policy[2]) THEN clients
     ELSE clients \cup {[map |-> es[1].policy[2], text |-> es[1].text]}

\* A location without CORS, or without OIDC of either kind, takes that of the spec.
Inherited(spec, cfg, oidc) ==
  LET cors == IF Has(cfg, "CORS") THEN << >> ELSE EntriesOf(spec, "CORS")
      njs == IF Has(cfg, "OIDC") \/ Has(cfg, "OIDCNative") \/ ~Has(spec, "OIDC")
             THEN << >> ELSE oidc
  IN [cfg EXCEPT !.pols = @ \o cors \o njs]

\* The policy fields a version2.Server has; of the others the spec's policy is not rendered.
ServerKinds == PolicyKinds \ {"Wallarm", "CORS", "OIDC"}

\* The locations so far (c), and one more, for a route whose policies are cfg.
WithLocation(api, spec, c, ctx, cfg) ==
  [internal |-> cfg.locs,
   oidc |-> IF Has(cfg, "OIDC") THEN EntriesOf(cfg, "OIDC") ELSE c.oidc,
   locations |-> Append(c.locations,
                   [path |-> ctx.path, ns |-> ctx.ns, refs |-> ctx.refs,
                    pols |-> Inherited(spec, cfg, c.oidc).pols, error |-> cfg.error]),
   clients |-> ClientMaps(c.clients, cfg),
   auth |-> AuthLocation(api, c.auth, cfg, ctx.owner),
   panic |-> c.panic \/ cfg.panic]

\* The locations of the routes and subroutes, under the policies of the spec.
RouteLocations(api, vs, opts, spec) ==
  LET route(c, ctx) ==
        WithLocation(api, spec, c, ctx,
          generatePolicies(api, ctx.refs, ctx.ns,
            [opts EXCEPT !.context = ctx.context, !.oidc = c.oidc], c.internal))
  IN FoldLeft(route,
       [internal |-> spec.locs, oidc |-> EntriesOf(spec, "OIDC"), locations |-> << >>,
        clients |-> ClientMaps({}, spec), auth |-> AuthLocation(api, << >>, spec, vs.ns),
        panic |-> spec.panic],
       LocationContexts(vs))

VirtualServerConfig(vs, ssl, spec, all) ==
  LET rendered(e) == e.kind \in ServerKinds
  IN [kind |-> "vs", ssl |-> ssl, ns |-> vs.ns, refs |-> vs.policies,
      server |-> SelectSeq(spec.pols, rendered),
      error |-> spec.error, locations |-> all.locations, internal |-> all.internal,
      clients |-> all.clients, auth |-> all.auth, panic |-> all.panic]

GenerateVirtualServerConfig(api, st, vs, waf, wildcard) ==
  LET ssl == generateSSLConfig(vs.tls, st, wildcard)
      opts == [refs |-> VirtualServerSecretRefs(api, st, vs), store |-> st, tls |-> ssl.on,
               oidc |-> << >>, waf |-> waf, context |-> "spec", parent |-> "vs"]
      under(spec) == VirtualServerConfig(vs, ssl, spec, RouteLocations(api, vs, opts, spec))
  IN under(generatePolicies(api, vs.policies, vs.ns, opts, {}))

-----------------------------------------------------------------------------
(* Ingresses.                                                                *)

\* getIngressPolicyRefs: both annotations, the first mention of a policy.
getIngressPolicyRefs(ing) ==
  LET add(refs, ref) ==
        IF \E i \in DOMAIN refs : Resolve(refs[i], ing.ns) = Resolve(ref, ing.ns)
        THEN refs ELSE Append(refs, ref)
  IN FoldLeft(add, << >>, ing.policies \o ing.plus)

\* filterIngressPolicyRefs: a policy of the commercial edition in the other annotation.
WrongAnnotation(api, ing) ==
  \E i \in DOMAIN ing.policies : \E p \in api :
    /\ PolicyKey(p) = Resolve(ing.policies[i], ing.ns) /\ p.valid
    /\ p.kind \in {"WAF", "OIDCNative"}

\* createIngressEx: the keys in the SecretRefs of an Ingress.
IngressSecretRefs(api, st, ing) ==
  KeySet(ing.tls.secret) \cup KeySet(ing.basic) \cup KeySet(ing.jwt)
    \cup LoadedForIngress(st, getPolicies(api, getIngressPolicyRefs(ing), ing.ns))

IngressPolicies(api, st, ing, context, waf, locs) ==
  LET opts == [refs |-> IngressSecretRefs(api, st, ing), store |-> st, tls |-> ing.tls.on,
               oidc |-> << >>, waf |-> waf, context |-> context, parent |-> "ing"]
  IN IF WrongAnnotation(api, ing) THEN Failed(NewContext(locs))
     ELSE generatePolicies(api, getIngressPolicyRefs(ing), ing.ns, opts, locs)

\* addSSLConfig: like generateSSLConfig, but a host in the tls section always has TLS.
addSSLConfig(tls, st, wildcard) ==
  IF ~tls.on \/ ~tls.host THEN [on |-> FALSE, reject |-> FALSE, reads |-> {}]
  ELSE IF tls.secret = NoSecret THEN [on |-> TRUE, reject |-> ~wildcard, reads |-> {}]
  ELSE generateSSLConfig(tls, st, wildcard)

\* generateBasicAuthConfig, generateJWTConfig: the file is named whether it is there or not;
\* NGINX answers 500 when it is not.
AnnotationFiles(ing) == {<<k, "file">> : k \in KeySet(ing.basic) \cup KeySet(ing.jwt)}

\* The client certificates need a server that has TLS.
ServerPolicies(cfg, ssl) ==
  LET rendered(e) == e.kind # "CORS" /\ (e.kind = "IngressMTLS" => ssl.on)
  IN SelectSeq(cfg.pols, rendered)

resolveExternalAuth(api, cfg, ing) == AuthLocation(api, << >>, cfg, ing.ns)

IngressNginxConfig(api, ing, ssl, cfg) ==
  [kind |-> "ing", ssl |-> ssl, ns |-> ing.ns, refs |-> getIngressPolicyRefs(ing),
   server |-> ServerPolicies(cfg, ssl), error |-> cfg.error,
   locations |-> << [path |-> ing.path, ns |-> ing.ns, refs |-> << >>,
                     pols |-> EntriesOf(cfg, "CORS"), error |-> FALSE] >>,
   internal |-> cfg.locs, clients |-> {}, auth |-> resolveExternalAuth(api, cfg, ing),
   annotation |-> AnnotationFiles(ing), panic |-> cfg.panic]

generateNginxCfg(api, st, ing, waf, wildcard) ==
  IngressNginxConfig(api, ing, addSSLConfig(ing.tls, st, wildcard),
                     IngressPolicies(api, st, ing, "spec", waf, {}))

\* Every path of a minion brings the location of the external auth service with it, unless
\* the master has one of that path.
MinionAuth(api, master, cfg, m) ==
  LET fresh(a) == \A i \in DOMAIN master.auth : master.auth[i].path # a.path
      each == SelectSeq(resolveExternalAuth(api, cfg, m), fresh)
  IN FlattenSeq([i \in 1..m.paths |-> each])

\* The policies of a minion are those of its locations; what it does not set, the master's
\* server block does, and its CORS headers the code copies.
WithMinion(api, c, m, master, masterCfg, cfg) ==
  [c EXCEPT
     !.locations = Append(@, [path |-> m.path, ns |-> m.ns, refs |-> getIngressPolicyRefs(m),
                              pols |-> Inherited(masterCfg, cfg, << >>).pols,
                              error |-> cfg.error]),
     !.internal = cfg.locs,
     !.auth = @ \o MinionAuth(api, master, cfg, m),
     !.annotation = @ \cup AnnotationFiles(m),
     !.panic = @ \/ cfg.panic]

generateNginxCfgForMergeableIngresses(api, st, ing, waf, wildcard) ==
  LET merge(master, masterCfg, c, m) ==
        WithMinion(api, c, m, master, masterCfg,
          IngressPolicies(api, st, [m EXCEPT !.tls = NoTLS], "minion", waf, c.internal))
      merged(master, masterCfg) ==
        FoldLeft(LAMBDA c, m : merge(master, masterCfg, c, m),
                 [master EXCEPT !.locations = << >>], ing.minions)
  IN merged(generateNginxCfg(api, st, ing, waf, wildcard),
            IngressPolicies(api, st, ing, "spec", waf, {}))

-----------------------------------------------------------------------------
(* TransportServers.                                                         *)

\* generateSSLConfig of transportserver.go: without a usable secret TLS is not terminated.
generateTransportServerConfig(st, ts) ==
  LET ref == st.refs[ts.tls.secret]
      on == ts.tls.on /\ ts.tls.secret # NoSecret /\ ~ref.error /\ ref.secret.type = "TLS"
  IN [kind |-> "ts", panic |-> FALSE,
      ssl |-> [on |-> on, reject |-> FALSE, reads |-> IF on THEN Range1(ref.path) ELSE {}]]

=============================================================================
