---------------------------- MODULE MCReferences -----------------------------
EXTENDS References

cert == <<"a", "cert">>
jwk == <<"a", "jwk">>
client == <<"a", "client">>
ca == <<"b", "ca">>
MCKeys == {cert, jwk, client, ca}
MCVersions == {1, 2}

Sec(k, type, data, sound, v) ==
  [key |-> k, type |-> type, data |-> data, sound |-> sound, version |-> v]
Cert(v) == Sec(cert, "TLS", {}, TRUE, v)
BadCert == Sec(cert, "TLS", {}, FALSE, 1)
CertAsKey == Sec(cert, "JWK", {"jwk"}, TRUE, 1)
Jwk(v) == Sec(jwk, "JWK", {"jwk"}, TRUE, v)
BadJwk == Sec(jwk, "JWK", {}, TRUE, 1)
Passwords == Sec(jwk, "Htpasswd", {"htpasswd"}, TRUE, 1)
Opaque == Sec(jwk, "Opaque", {}, TRUE, 1)
OIDCClient(v) == Sec(client, "OIDC", {"client-secret"}, TRUE, v)
APIClients(v) == Sec(client, "APIKey", {}, TRUE, v)
License(v) == Sec(client, "License", {"license.jwt"}, TRUE, v)
CA(v) == Sec(ca, "CA", {"ca.crt", "ca.crl"}, TRUE, v)
CAWithoutList == Sec(ca, "CA", {"ca.crt"}, TRUE, 1)
BadCA == Sec(ca, "CA", {}, TRUE, 1)

MCSecrets ==
  {Cert(1), Cert(2), BadCert, CertAsKey, Jwk(1), Jwk(2), BadJwk, Passwords, Opaque,
   OIDCClient(1), OIDCClient(2), APIClients(1), APIClients(2), License(1), License(2),
   CA(1), CA(2), CAWithoutList, BadCA}

P(ns, name, kind) == NewPolicy(ns, name, kind)
Jwt == [P("a", "jwt", "JWT") EXCEPT !.secret = jwk]
JwtURI == [P("a", "jwt", "JWT") EXCEPT !.trusted = ca, !.verify = TRUE]
BasicAuth == [P("a", "basic", "Basic") EXCEPT !.secret = jwk]
Access == P("b", "access", "AccessControl")
Oidc == [P("a", "oidc", "OIDC") EXCEPT !.secret = client, !.trusted = ca, !.verify = TRUE]
OidcPKCE == [P("a", "oidc", "OIDC") EXCEPT !.pkce = TRUE, !.path = "/cb"]
Native == [P("b", "native", "OIDCNative") EXCEPT !.secret = client, !.trusted = ca,
             !.path = "/cb", !.logout = "/_logout"]
ApiKey == [P("a", "apikey", "APIKey") EXCEPT !.secret = client]
MTLS == [P("b", "mtls", "IngressMTLS") EXCEPT !.secret = ca]
Egress == [P("a", "egress", "EgressMTLS") EXCEPT !.secret = cert, !.trusted = ca]
Auth == [P("b", "auth", "ExternalAuth") EXCEPT !.path = "/auth", !.service = <<"b", "svc">>,
           !.trusted = ca, !.verify = TRUE]
BareAuth == [Auth EXCEPT !.service = <<"", "svc">>]
Limit(name) == [P("a", name, "RateLimit") EXCEPT !.group = "tier", !.default = TRUE]
Waf == [P("a", "waf", "WAF") EXCEPT !.needs = {"bundle"}]
Cors(name) == P("b", name, "CORS")
Wallarm == P("b", "wallarm", "Wallarm")
Cache == P("b", "cache", "Cache")
Hsts == P("b", "hsts", "HSTS")
Invalid(p) == [p EXCEPT !.valid = FALSE]

Ref(p) == <<p.ns, p.name>>
Refs(ps) == [i \in DOMAIN ps |-> Ref(ps[i])]

NoSpecials == [n \in SpecialNames |-> NoSecret]

\* Flags <<dynamicSSLReload, isRollbackManager>>.  With both managers, except that the
\* rollback manager comes with dynamic reload: see README.
Flags == {<<TRUE, TRUE>>, <<TRUE, FALSE>>, <<FALSE, FALSE>>}

Cluster(flags, all, resources, policies, initially, policiesChange, secrets, secretsChange,
        specials) ==
  [dynamicSSLReload |-> flags[1], isRollbackManager |-> flags[2], allNamespaces |-> all,
   resources |-> resources, policies |-> policies, initially |-> initially,
   policiesChange |-> policiesChange, resourcesChange |-> secretsChange /\ ~flags[1],
   maxChanges |-> IF secretsChange THEN 2 ELSE 1,
   secrets |-> secrets, secretsChange |-> secretsChange,
   special |-> specials, waf |-> {"bundle"}, wildcard |-> FALSE]

\* A certificate and a key that several resources use.
Shared1(flags, all) ==
  Cluster(flags, all,
    << Ingress("a", "i", TLS(cert), << >>, << >>, NoSecret, NoSecret),
       VirtualServer("a", "v", TLS(cert), Refs(<<Jwt>>), << Route("/", << >>) >>, << >>) >>,
    {Jwt}, {{Jwt}}, FALSE, {Cert(1), Cert(2), BadCert, Jwk(1), Jwk(2), BadJwk}, TRUE,
    NoSpecials)

\* Passwords and certificates, by annotation and by policy, of every kind of resource.
Shared2(flags) ==
  Cluster(flags, FALSE,
    << Ingress("a", "i", NoTLS, Refs(<<Egress>>), << >>, jwk, NoSecret),
       VirtualServer("a", "v", NoTLS, << >>, << Route("/", Refs(<<BasicAuth>>)) >>, << >>),
       TransportServer("a", "t", TLS(cert)) >>,
    {Egress, BasicAuth}, {{Egress, BasicAuth}}, FALSE,
    {Cert(1), BadCert, CertAsKey, Passwords, CA(1)}, TRUE, NoSpecials)

\* Special secrets, one of them also used by a resource.
Special(flags) ==
  Cluster(flags, TRUE,
    << VirtualServer("a", "v", TLS(cert), << >>, << Route("/", << >>) >>, << >>) >>,
    {}, {{}}, FALSE,
    {Cert(1), Cert(2), BadCert, License(1), License(2), CA(1), CA(2), BadCA}, TRUE,
    [n \in SpecialNames |-> CASE n = "default" -> cert [] n = "license" -> client
                              [] n = "trusted" -> ca [] OTHER -> NoSecret])

\* Policies of a spec, of routes and of subroutes, their own or handed on.
Layered(spec, route, delegated, sub) ==
  << VirtualServer("a", "v", TLS(cert), spec,
       << Route("/", route), Route("/open", << >>),
          Delegation("/sub", delegated, <<"b", "vsr">>) >>,
       << [ns |-> "b", name |-> "vsr",
           subroutes |-> << Route("/sub/1", << >>), Route("/sub/2", sub) >>] >>) >>

Routes1 ==
  Cluster(<<TRUE, FALSE>>, TRUE,
    Layered(Refs(<<Jwt, Access, MTLS>>), Refs(<<Oidc, Limit("gold")>>),
            Refs(<<ApiKey>>), Refs(<<Wallarm, Cache>>)),
    {Jwt, Access, MTLS, Oidc, Limit("gold"), ApiKey, Wallarm, Cache, Invalid(Access), JwtURI},
    {{Jwt, Access, MTLS, Oidc, Limit("gold"), Wallarm, Cache, ApiKey}}, TRUE,
    {Cert(1), Jwk(1), BadJwk, OIDCClient(1), APIClients(1), CA(1), CAWithoutList}, FALSE, NoSpecials)

Routes2 ==
  Cluster(<<TRUE, FALSE>>, TRUE,
    Layered(Refs(<<Oidc, Cors("c1"), Hsts>>), Refs(<<Native, Cors("c2")>>),
            Refs(<<Limit("gold"), Limit("silver")>>), Refs(<<Auth, Waf, BasicAuth>>)),
    {Oidc, OidcPKCE, Cors("c1"), Hsts, Native, Cors("c2"), Limit("gold"), Limit("silver"),
     Auth, Waf, BasicAuth},
    {{OidcPKCE, Cors("c1"), Hsts, Native, Cors("c2"), Limit("gold"), Limit("silver"), Auth,
      Waf, BasicAuth}},
    TRUE, {Cert(1), Passwords, OIDCClient(1), CA(1), BadCA}, FALSE, NoSpecials)

\* A master and two minions.
Minion(name, policies, plus) ==
  Ingress("a", name, NoTLS, policies, plus, NoSecret, NoSecret)
Merged(master, m1, m2, plus) ==
  << [Ingress("a", "master", TLS(cert), master, << >>, NoSecret, NoSecret) EXCEPT
        !.minions = << Minion("m1", m1, plus), Minion("m2", m2, << >>) >>] >>

Minions1 ==
  Cluster(<<TRUE, TRUE>>, TRUE,
    Merged(Refs(<<MTLS, Cors("c1"), Auth>>), Refs(<<Auth, Egress>>), Refs(<<Access, Hsts>>),
           Refs(<<Native>>)),
    {MTLS, Cors("c1"), Auth, Egress, Access, Native, Hsts},
    {{MTLS, Cors("c1"), Auth, Egress, Access, Native}}, TRUE,
    {Cert(1), OIDCClient(1), CA(1), BadCA}, FALSE, NoSpecials)

\* A policy is deleted and created again around an update of its secret.
Recreated ==
  [Cluster(<<TRUE, TRUE>>, TRUE,
     << VirtualServer("a", "v", NoTLS, Refs(<<Jwt>>), << Route("/", << >>) >>, << >>) >>,
     {Jwt}, {{Jwt}}, TRUE, {Jwk(1), Jwk(2)}, TRUE, NoSpecials) EXCEPT !.maxChanges = 3]

ReferencesWorkloads ==
  {Shared1(f, TRUE) : f \in Flags}
    \cup {Shared2(<<TRUE, TRUE>>), Special(<<TRUE, TRUE>>), Special(<<FALSE, FALSE>>),
          Routes1, Routes2, Minions1, Recreated}

\* A certificate that two resources use, read when NGINX loads its configuration.
SharedCertWorkloads == {Shared1(<<FALSE, TRUE>>, TRUE)}

\* An external auth policy of another namespace.
AuthServiceWorkloads ==
  {Cluster(<<TRUE, TRUE>>, TRUE,
     << VirtualServer("a", "v", NoTLS, Refs(<<BareAuth>>), << Route("/", << >>) >>, << >>) >>,
     {BareAuth}, {{BareAuth}}, FALSE, {CA(1)}, FALSE, NoSpecials)}

\* Two minions with the same external auth policy.
MinionAuthWorkloads ==
  {Cluster(<<TRUE, TRUE>>, TRUE, Merged(<< >>, Refs(<<Auth>>), Refs(<<Auth>>), << >>),
     {Auth}, {{Auth}}, FALSE, {Cert(1), CA(1)}, FALSE, NoSpecials)}

=============================================================================
