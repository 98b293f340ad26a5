------------------------------ MODULE Policies -------------------------------
(***************************************************************************)
(* Policies (internal/configs/policy.go) and how the contexts of a           *)
(* VirtualServer, of its VirtualServerRoutes and of an Ingress come to be    *)
(* under them: which secrets are loaded for the generator                    *)
(* (controller.go, add...SecretRefs), what each policy adds to a context,    *)
(* when the context answers 500 instead, and what routes take over from the  *)
(* spec (GenerateVirtualServerConfig).                                       *)
(*                                                                           *)
(* Everything here is a function: the generator has no state of its own.     *)
(* Of a policy's settings the model keeps those that decide whether and      *)
(* where it takes effect; rates, headers, realms and timeouts are left out.  *)
(***************************************************************************)
EXTENDS Secrets, SequencesExt

\* conf_v1.PolicySpec has one field per kind; a policy sets exactly one of them.
PolicyKinds ==
  {"AccessControl", "RateLimit", "JWT", "ExternalAuth", "Basic", "IngressMTLS", "EgressMTLS",
   "OIDC", "OIDCNative", "APIKey", "WAF", "Wallarm", "Cache", "CORS", "HSTS"}

\* A policy: secret and trusted are the keys of the Secrets it names; verify says that the
\* server certificate is to be verified; path is a redirect or an auth URI;
\* logout the path of the page after a logout; service the external auth service; group and
\* default the condition of a tiered rate limit; crl that the policy names a revocation list
\* of its own; needs the App Protect files; behind that HSTS trusts the proxy in front.
NewPolicy(ns, name, kind) ==
  [ns |-> ns, name |-> name, kind |-> kind, valid |-> TRUE, secret |-> NoSecret,
   trusted |-> NoSecret, verify |-> FALSE, pkce |-> FALSE, path |-> "", logout |-> "",
   service |-> "", group |-> "", default |-> FALSE, crl |-> FALSE, needs |-> {},
   behind |-> FALSE]

PolicyKey(p) == <<p.ns, p.name>>

\* ParseResourceReference: <<"", name>> is a reference without a namespace.
Resolve(ref, ns) == IF ref[1] = "" THEN <<ns, ref[2]>> ELSE ref

-----------------------------------------------------------------------------
(* Loading (createVirtualServerEx, createIngressEx).  The generator sees the *)
(* policies that exist and are valid, and a map of the secrets they name.    *)
(* api is the policies of the cluster, st the secret store.                  *)

\* The policies of a list of references, in order; the others are left out with an error.
getPolicies(api, refs, ns) ==
  LET found(ref) == {p \in api : PolicyKey(p) = Resolve(ref, ns) /\ p.valid}
      add(ps, ref) == IF found(ref) = {} THEN ps ELSE Append(ps, CHOOSE p \in found(ref) : TRUE)
  IN FoldLeft(add, << >>, refs)

\* The secrets fetched from a list of keys: every one is put into the map, but the first
\* with an error is the last.
Loaded(st, keys) ==
  LET bad == {i \in DOMAIN keys : st.refs[keys[i]].error}
  IN {keys[i] : i \in {j \in DOMAIN keys : \A b \in bad : j <= b}}

\* The keys in field f of the policies of a kind that use it.
KeysIn(ps, kind, f(_)) ==
  LET named(p) == p.kind = kind /\ f(p) # NoSecret
      ks == SelectSeq(ps, named)
  IN [i \in DOMAIN ks |-> f(ks[i])]

SecretField(p) == p.secret
TrustedField(p) == p.trusted

addJWTSecretRefs(st, ps) == Loaded(st, KeysIn(ps, "JWT", SecretField))
addBasicSecretRefs(st, ps) == Loaded(st, KeysIn(ps, "Basic", SecretField))
\* Returns after the first policy, whether its secret is good or not.
addIngressMTLSSecretRefs(st, ps) ==
  LET keys == KeysIn(ps, "IngressMTLS", SecretField)
  IN IF keys = << >> THEN {} ELSE {keys[1]}
addEgressMTLSSecretRefs(st, ps) ==
  LET add(keys, p) ==
        keys \o KeysIn(<<p>>, "EgressMTLS", SecretField)
             \o KeysIn(<<p>>, "EgressMTLS", TrustedField)
  IN Loaded(st, FoldLeft(add, << >>, ps))
addJWTTrustedCertSecretRefs(st, ps) == Loaded(st, KeysIn(ps, "JWT", TrustedField))
addOIDCSecretRefs(st, ps) ==
  LET WithSecret(p) == IF p.pkce THEN NoSecret ELSE p.secret
  IN Loaded(st, KeysIn(ps, "OIDC", WithSecret))
addOIDCNativeSecretRefs(st, ps) == Loaded(st, KeysIn(ps, "OIDCNative", SecretField))
addOIDCNativeTrustedCertSecretRefs(st, ps) ==
  Loaded(st, KeysIn(ps, "OIDCNative", TrustedField))
addOIDCTrustedCertSecretRefs(st, ps) == Loaded(st, KeysIn(ps, "OIDC", TrustedField))
addExternalAuthTrustedCertSecretRefs(st, ps) ==
  Loaded(st, KeysIn(ps, "ExternalAuth", TrustedField))
addAPIKeySecretRefs(st, ps) == Loaded(st, KeysIn(ps, "APIKey", SecretField))

\* What createVirtualServerEx loads for one list of policies; the client certificates of
\* IngressMTLS only for those of the spec.
LoadedForVirtualServer(st, ps, context) ==
  addJWTSecretRefs(st, ps) \cup addBasicSecretRefs(st, ps)
    \cup (IF context = "spec" THEN addIngressMTLSSecretRefs(st, ps) ELSE {})
    \cup addEgressMTLSSecretRefs(st, ps) \cup addJWTTrustedCertSecretRefs(st, ps)
    \cup addOIDCSecretRefs(st, ps) \cup addOIDCNativeSecretRefs(st, ps)
    \cup addOIDCNativeTrustedCertSecretRefs(st, ps) \cup addOIDCTrustedCertSecretRefs(st, ps)
    \cup addExternalAuthTrustedCertSecretRefs(st, ps) \cup addAPIKeySecretRefs(st, ps)

\* What createIngressEx loads for its policies.
LoadedForIngress(st, ps) ==
  addIngressMTLSSecretRefs(st, ps) \cup addEgressMTLSSecretRefs(st, ps)
    \cup addOIDCNativeSecretRefs(st, ps) \cup addOIDCNativeTrustedCertSecretRefs(st, ps)
    \cup addExternalAuthTrustedCertSecretRefs(st, ps)

-----------------------------------------------------------------------------
(* Building one context.  opts is policyOptions: the secret references (the  *)
(* keys loaded and the store they point into), whether the context has TLS,  *)
(* the OIDC policy of the VirtualServer so far, the App Protect files there  *)
(* are, the kind of context and its parent.  cfg is policiesCfg under        *)
(* construction: the policies applied, in order, with the files each names   *)
(* and the secrets written into the text; the generated OIDC locations; and  *)
(* how it ended.                                                             *)

NewContext(locs) == [pols |-> << >>, locs |-> locs, error |-> FALSE, panic |-> FALSE]

Has(cfg, kind) == \E i \in DOMAIN cfg.pols : cfg.pols[i].kind = kind
Failed(cfg) == [cfg EXCEPT !.error = TRUE]
Panicked(cfg) == [cfg EXCEPT !.panic = TRUE]
Applied(cfg, p, reads, text) ==
  [cfg EXCEPT !.pols = Append(@, [policy |-> PolicyKey(p), kind |-> p.kind,
                                  reads |-> reads, text |-> text])]

\* A reference that a policy can use: nil or of another type, or invalid, is an error.
Usable(opts, k, type) ==
  LET ref == opts.store.refs[k]
  IN ref.secret # NoSecret /\ ref.secret.type = type /\ ~ref.error

SecretOf(opts, k) == opts.store.refs[k].secret
\* The i-th of the fields of a path, when there is one.
PathField(opts, k, i) ==
  LET path == opts.store.refs[k].path
  IN IF i \in DOMAIN path THEN {path[i]} ELSE {}

\* The reference is looked up in the map: an entry that is missing is an error where the
\* code checks for it (checked), and a nil dereference where it does not.
Using(cfg, p, opts, k, type, checked, then) ==
  IF k \notin opts.refs THEN IF checked THEN Failed(cfg) ELSE Panicked(cfg)
  ELSE IF ~Usable(opts, k, type) THEN Failed(cfg)
  ELSE then

-----------------------------------------------------------------------------

addAccessControlConfig(cfg, p) == Applied(cfg, p, {}, {})

\* Options that differ from the first policy's are overridden with a warning; the limits of
\* all of them are in force.
addRateLimitConfig(cfg, p) == Applied(cfg, p, {}, {})

addJWTAuthConfig(cfg, p, opts) ==
  IF Has(cfg, "JWT") THEN cfg
  ELSE IF p.secret # NoSecret
  THEN Using(cfg, p, opts, p.secret, "JWK", FALSE,
             Applied(cfg, p, PathField(opts, p.secret, 1), {}))
  ELSE IF p.verify /\ p.trusted # NoSecret
  THEN Using(cfg, p, opts, p.trusted, "CA", TRUE,
             Applied(cfg, p, PathField(opts, p.trusted, 1), {}))
  ELSE Applied(cfg, p, {}, {})

\* configureExternalAuthSSL: the trusted certificate, unless the default bundle is to do.
configureExternalAuthSSL(cfg, p, opts) ==
  IF p.trusted = NoSecret THEN Applied(cfg, p, {}, {})
  ELSE Using(cfg, p, opts, p.trusted, "CA", TRUE,
             Applied(cfg, p, PathField(opts, p.trusted, 1), {}))

addExternalAuthConfig(cfg, p, opts) ==
  IF Has(cfg, "ExternalAuth") THEN cfg
  ELSE IF p.verify THEN configureExternalAuthSSL(cfg, p, opts)
  ELSE Applied(cfg, p, {}, {})

addBasicAuthConfig(cfg, p, opts) ==
  IF Has(cfg, "Basic") THEN cfg
  ELSE Using(cfg, p, opts, p.secret, "Htpasswd", FALSE,
             Applied(cfg, p, PathField(opts, p.secret, 1), {}))

\* A duplicate is ignored before its secret is looked at.  The revocation list of the secret
\* is the second field of the path.
addIngressMTLSConfig(cfg, p, opts) ==
  IF opts.context # "spec" \/ ~opts.tls THEN Failed(cfg)
  ELSE IF Has(cfg, "IngressMTLS") THEN cfg
  ELSE Using(cfg, p, opts, p.secret, "CA", TRUE,
         LET crl == ~p.crl /\ "ca.crl" \in SecretOf(opts, p.secret).data
             fields == IF crl THEN {1, 2} ELSE {1}
         IN IF fields \subseteq DOMAIN opts.store.refs[p.secret].path
            THEN Applied(cfg, p, UNION {PathField(opts, p.secret, i) : i \in fields}, {})
            ELSE Panicked(cfg))

addEgressMTLSConfig(cfg, p, opts) ==
  LET tls == IF p.secret = NoSecret THEN {} ELSE PathField(opts, p.secret, 1)
      trusted == IF p.trusted = NoSecret THEN Applied(cfg, p, tls, {})
                 ELSE Using(cfg, p, opts, p.trusted, "CA", TRUE,
                            Applied(cfg, p, tls \cup PathField(opts, p.trusted, 1), {}))
  IN IF Has(cfg, "EgressMTLS") THEN cfg
     ELSE IF p.secret = NoSecret THEN trusted
     ELSE Using(cfg, p, opts, p.secret, "TLS", TRUE, trusted)

-----------------------------------------------------------------------------
(* OIDC.  Both implementations generate locations of their own in the        *)
(* server; a registry of the paths keeps two of them apart.                  *)

\* A path is <<"uri", what the user wrote>> or <<role, policy>> when the code makes it up.
NJSReserved ==
  {"/_jwks_uri", "/_token", "/_refresh", "/_token_validation", "/logout",
   "/front_channel_logout", "/_logout"}

Location(path, owner, role) == [path |-> path, owner |-> owner, role |-> role]
\* The registry maps a path to one owner and role: a new entry replaces that of its path.
Registered(locs, new) == {l \in locs : \A n \in new : n.path # l.path} \cup new
InTheWay(locs, loc) == {l \in locs : l.path = loc.path /\ l # loc}

\* The locations oidc.tmpl renders: one of them is the user's choice.
njsLocations(p) ==
  LET redirect == IF p.path = "" THEN "/_codexch" ELSE p.path
      njs == <<"njs", "njs">>
  IN {Location(<<"uri", redirect>>, njs, "callback")}
       \cup {Location(<<"uri", r>>, njs, "njs-reserved") : r \in NJSReserved \ {redirect}}

\* One OIDC policy per VirtualServer: the one met first, which the later contexts reuse.  The
\* locations are registered before the trusted certificate is looked at.
addOIDCConfig(cfg, p, opts) ==
  LET ref == opts.store.refs[p.secret]
      goodSecret ==
        IF p.secret \notin opts.refs THEN p.pkce
        ELSE ~p.pkce /\ ~ref.error /\ (ref.secret = NoSecret \/ ref.secret.type = "OIDC")
      free == \A l \in njsLocations(p) : InTheWay(cfg.locs, l) = {}
      registered == [cfg EXCEPT !.locs = Registered(@, njsLocations(p))]
      text == IF p.pkce THEN {} ELSE {ref.secret}
  IN CASE Has(cfg, "OIDC") -> cfg
       [] ~Has(cfg, "OIDC") /\ Has(cfg, "OIDCNative") -> Failed(cfg)
       [] OTHER ->
            IF opts.oidc # << >>
            THEN IF opts.oidc[1].policy = PolicyKey(p)
                 THEN [cfg EXCEPT !.pols = Append(@, opts.oidc[1])]
                 ELSE Failed(cfg)
            ELSE IF ~goodSecret \/ ~free THEN Failed(cfg)
            ELSE IF ~p.verify \/ p.trusted = NoSecret THEN Applied(registered, p, {}, text)
            ELSE Using(registered, p, opts, p.trusted, "CA", TRUE,
                       Applied(registered, p, PathField(opts, p.trusted, 1), text))

\* The locations of a provider of the native module.
nativeLocations(p) ==
  LET me == PolicyKey(p)
  IN {Location(IF p.path = "" THEN <<"callback", me>> ELSE <<"uri", p.path>>, me, "callback"),
      Location(<<"proxy", me>>, me, "proxy")}
       \cup (IF p.logout = "" THEN {} ELSE {Location(<<"uri", p.logout>>, me, "post-logout")})

\* The page after a logout may be shared: the provider that comes second does not generate it.
Shared(locs, loc) ==
  loc.role = "post-logout" /\ \E l \in InTheWay(locs, loc) : l.role = "post-logout"

resolveOIDCNativeTrustedCert(opts, p) ==
  (IF p.verify THEN PathField(opts, p.trusted, 1) ELSE {}) \cup PathField(opts, p.trusted, 2)

addOIDCNativeConfig(cfg, p, opts) ==
  LET text == IF p.secret = NoSecret THEN {} ELSE {SecretOf(opts, p.secret)}
      reads == IF p.trusted = NoSecret THEN {} ELSE resolveOIDCNativeTrustedCert(opts, p)
      mine == {l \in nativeLocations(p) : ~Shared(cfg.locs, l)}
      registered == [cfg EXCEPT !.locs = Registered(@, mine)]
      located == IF \E l \in mine : InTheWay(cfg.locs, l) # {} THEN Failed(cfg)
                 ELSE Applied(registered, p, reads, text)
      trusted == IF p.trusted = NoSecret THEN located
                 ELSE Using(cfg, p, opts, p.trusted, "CA", TRUE, located)
  IN CASE Has(cfg, "OIDCNative") -> cfg
       [] ~Has(cfg, "OIDCNative") /\ Has(cfg, "OIDC") -> Failed(cfg)
       [] OTHER -> IF p.secret = NoSecret THEN trusted
                   ELSE Using(cfg, p, opts, p.secret, "OIDC", TRUE, trusted)

-----------------------------------------------------------------------------

\* Unlike the other kinds, a second policy is an error.
addAPIKeyConfig(cfg, p, opts) ==
  IF Has(cfg, "APIKey") THEN Failed(cfg)
  ELSE Using(cfg, p, opts, p.secret, "APIKey", FALSE,
             Applied(cfg, p, {}, {SecretOf(opts, p.secret)}))

\* Every App Protect policy, log configuration and bundle the policy names is there.
addWAFConfig(cfg, p, opts) ==
  CASE Has(cfg, "WAF") -> cfg
    [] ~Has(cfg, "WAF") /\ ~(p.needs \subseteq opts.waf) -> Failed(cfg)
    [] OTHER -> Applied(cfg, p, {}, {})

addCacheConfig(cfg, p) == IF Has(cfg, "Cache") THEN cfg ELSE Applied(cfg, p, {}, {})

\* The headers of a later policy replace those of an earlier one.
addCORSConfig(cfg, p) ==
  LET other(e) == e.kind # "CORS"
  IN Applied([cfg EXCEPT !.pols = SelectSeq(@, other)], p, {}, {})

addWallarmConfig(cfg, p) == IF Has(cfg, "Wallarm") THEN cfg ELSE Applied(cfg, p, {}, {})

addHSTSConfig(cfg, p, opts) ==
  CASE opts.context # "spec" \/ (~opts.tls /\ ~p.behind) -> Failed(cfg)
    [] opts.context = "spec" /\ (opts.tls \/ p.behind) ->
         IF Has(cfg, "HSTS") THEN cfg ELSE Applied(cfg, p, {}, {})

IsPolicySupportedOnIngress(p) ==
  p.kind \in {"AccessControl", "CORS", "ExternalAuth", "IngressMTLS", "EgressMTLS", "WAF",
              "OIDCNative"}

addPolicy(cfg, p, opts) ==
  CASE p.kind = "AccessControl" -> addAccessControlConfig(cfg, p)
    [] p.kind = "RateLimit" -> addRateLimitConfig(cfg, p)
    [] p.kind = "JWT" -> addJWTAuthConfig(cfg, p, opts)
    [] p.kind = "ExternalAuth" -> addExternalAuthConfig(cfg, p, opts)
    [] p.kind = "Basic" -> addBasicAuthConfig(cfg, p, opts)
    [] p.kind = "IngressMTLS" -> addIngressMTLSConfig(cfg, p, opts)
    [] p.kind = "EgressMTLS" -> addEgressMTLSConfig(cfg, p, opts)
    [] p.kind = "OIDC" -> addOIDCConfig(cfg, p, opts)
    [] p.kind = "OIDCNative" -> addOIDCNativeConfig(cfg, p, opts)
    [] p.kind = "APIKey" -> addAPIKeyConfig(cfg, p, opts)
    [] p.kind = "WAF" -> addWAFConfig(cfg, p, opts)
    [] p.kind = "Wallarm" -> addWallarmConfig(cfg, p)
    [] p.kind = "Cache" -> addCacheConfig(cfg, p)
    [] p.kind = "CORS" -> addCORSConfig(cfg, p)
    [] p.kind = "HSTS" -> addHSTSConfig(cfg, p, opts)

\* generateLRZGroupMaps: the conditions on one variable share a map, which has one default.
ConflictingDefaults(api, cfg) ==
  \E i, j \in DOMAIN cfg.pols :
    LET policy(n) == CHOOSE p \in api : PolicyKey(p) = cfg.pols[n].policy
    IN /\ i # j /\ cfg.pols[i].kind = "RateLimit" /\ cfg.pols[j].kind = "RateLimit"
       /\ policy(i).default /\ policy(j).default
       /\ policy(i).group # "" /\ policy(i).group = policy(j).group

\* An error in one policy is the error of the context: nothing of what the others added is
\* kept, except the locations they registered.
Settled(api, cfg) ==
  IF cfg.error \/ ConflictingDefaults(api, cfg)
  THEN [cfg EXCEPT !.error = TRUE, !.pols = << >>] ELSE cfg

\* A policy that is missing or invalid is passed over.
generatePolicies_bug(api, refs, ns, opts, locs) ==
  LET found(ref) == {p \in api : PolicyKey(p) = Resolve(ref, ns) /\ p.valid}
      add(cfg, ref) ==
        IF cfg.error \/ cfg.panic \/ found(ref) = {} THEN cfg
        ELSE addPolicy(cfg, CHOOSE p \in found(ref) : TRUE, opts)
  IN Settled(api, FoldLeft(add, NewContext(locs), refs))

\* The policies of a list, one after the other; a reference to none is an error.
generatePolicies(api, refs, ns, opts, locs) ==
  LET found(ref) == {p \in api : PolicyKey(p) = Resolve(ref, ns) /\ p.valid}
      add(cfg, ref) ==
        IF cfg.error \/ cfg.panic THEN cfg
        ELSE IF \A p \in found(ref) : opts.parent = "ing" /\ ~IsPolicySupportedOnIngress(p)
        THEN Failed(cfg)
        ELSE addPolicy(cfg, CHOOSE p \in found(ref) : TRUE, opts)
  IN Settled(api, FoldLeft(add, NewContext(locs), refs))

=============================================================================
