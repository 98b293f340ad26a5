---------------------------- MODULE MCOperations -----------------------------
(***************************************************************************)
(* Small clusters for Operations.                                            *)
(***************************************************************************)
EXTENDS Operations, TLC

NoDNS == [enable |-> FALSE, type |-> NoAddress, ttl |-> 0]
DNS == [NoDNS EXCEPT !.enable = TRUE]
NoTLS == [managed |-> FALSE, secret |-> "none"]
Issued(secret, issuer, clusterIssuer) ==
  [managed |-> TRUE, secret |-> secret,
   certManager |-> [issuer |-> issuer, clusterIssuer |-> clusterIssuer, kind |-> Unset, group |-> Unset,
                    commonName |-> Unset, duration |-> Unset, renewBefore |-> Unset, usages |-> Unset]]

Variant(labels, form, dns, tls) ==
  [labels |-> labels, spec |-> [form |-> form, host |-> "h", dns |-> dns, tls |-> tls]]
Plain(form) == [labels |-> "l", spec |-> [form |-> form]]
VS(form) == Variant("l", form, NoDNS, NoTLS)
Object(uid, v) == [uid |-> uid, labels |-> v.labels, spec |-> v.spec, st |-> NoStatus]

Service(lb) ==
  [externalName |-> NoAddress, lb |-> lb, ips |-> << >>,
   ports |-> << [target |-> "http", port |-> "80"], [target |-> "9113", port |-> "9113"] >>]
NamedService == [externalName |-> "name", lb |-> << "1.1" >>, ips |-> << >>, ports |-> << >>]
Address(a) == [set |-> TRUE, address |-> a]
NoKey == [set |-> FALSE, address |-> NoAddress]
Bounds(changes, faults, losses) == [changes |-> changes, faults |-> faults, losses |-> losses]

Base == [replicas |-> {1}, elects |-> TRUE, shims |-> {}, objects |-> << >>, variants |-> << >>, deletable |-> {},
         svc |-> Absent, svcs |-> {}, cm |-> NoKey, cms |-> {}, link |-> NoAddress, links |-> {},
         dns |-> << >>, crts |-> << >>, bounds |-> Bounds(0, 0, 0), lag |-> 2]

OfKeys(variants) == [k \in DOMAIN variants |-> Object(1, CHOOSE v \in variants[k] : v.spec.form = "ok")]

With(variants) == [Base EXCEPT !.objects = OfKeys(variants), !.variants = variants,
                               !.dns = [k \in DOMAIN variants \cap {"vs", "vs2"} |-> NoObject]]

\* The sources of the addresses, and a lease that changes hands.
Sources ==
  [With("ing" :> {Plain("ok"), Plain("bad")} @@ "vs" :> {VS("ok"), VS("bad")}) EXCEPT
     !.svc = Service(<< "1.1" >>), !.svcs = {Service(<< "2.2" >>), NamedService, Absent},
     !.cm = Address(NoAddress), !.cms = {Address("9.9"), Address(NoAddress), NoKey}, !.bounds = Bounds(3, 0, 0)]

Links ==
  [With("ing" :> {Plain("ok")} @@ "vs" :> {VS("ok")}) EXCEPT
     !.link = "3.3", !.links = {"4.4", NoAddress}, !.cms = {Address("9.9"), Address(NoAddress), NoKey},
     !.bounds = Bounds(4, 0, 0)]

\* A VirtualServer and its route.
Delegation ==
  [With("vs" :> {VS("ok"), VS("bad"), VS("err"), VS("noroutes")} @@ "vsr" :> {Plain("ok"), Plain("bad")}) EXCEPT
     !.svc = Service(<< "1.1" >>), !.svcs = {Service(<< "2.2" >>)}, !.deletable = {"vs", "vsr"},
     !.bounds = Bounds(2, 0, 0)]

\* Two replicas.
Election ==
  [With("ing" :> {Plain("ok")} @@ "vs" :> {VS("ok"), VS("warn")}) EXCEPT
     !.replicas = {1, 2}, !.svc = Service(<< "1.1" >>), !.svcs = {Service(<< "2.2" >>)},
     !.bounds = Bounds(1, 0, 1)]

\* The other kinds, with writes that are lost.
Others ==
  [With("pol" :> {Plain("ok"), Plain("bad")} @@ "ts" :> {Plain("ok"), Plain("bad")}) EXCEPT
     !.bounds = Bounds(2, 1, 0), !.deletable = {"pol"}]

\* DNSEndpoints.
Named ==
  [With("vs" :> {Variant("l", "ok", DNS, NoTLS), Variant("m", "ok", DNS, NoTLS)}) EXCEPT
     !.shims = {"dns"}, !.deletable = {"vs"}, !.svc = Service(<< "1.1" >>),
     !.svcs = {Service(<< "2.2" >>), Absent}, !.bounds = Bounds(2, 0, 0)]

NamedTwice ==
  [With("vs" :> {Variant("l", "ok", DNS, NoTLS), Variant("m", "ok", [DNS EXCEPT !.type = "A"], NoTLS)}) EXCEPT
     !.replicas = {1, 2}, !.shims = {"dns"}, !.svc = Service(<< "1.1" >>), !.bounds = Bounds(1, 0, 0)]

\* Records of two types.
Dual ==
  [With("vs" :> {Variant("l", "ok", DNS, NoTLS)}) EXCEPT
     !.shims = {"dns"}, !.svc = Service(<< "1.1", "::1" >>), !.bounds = Bounds(1, 0, 0)]

\* Certificates; "c" is somebody else's.
Certs(names) == [n \in names |-> IF n = "c" THEN OtherCert(n) ELSE NoObject]

Certificates ==
  [With("vs" :> {Variant("l", "ok", NoDNS, Issued("a", "i", Unset)), Variant("m", "ok", NoDNS, Issued("b", "i", Unset)),
                 Variant("l", "ok", NoDNS, Issued("a", "k", Unset)),
                 Variant("l", "ok", NoDNS, Issued("a", "i", "j")), Variant("l", "ok", NoDNS, Issued("c", Unset, "j"))}) EXCEPT
     !.objects = "vs" :> Object(1, Variant("l", "ok", NoDNS, Issued("a", "i", Unset))),
     !.shims = {"crt"}, !.deletable = {"vs"}, !.crts = Certs({"a", "b", "c"}), !.elects = FALSE,
     !.bounds = Bounds(2, 0, 0)]

CertificatesTwice ==
  [With("vs" :> {Variant("l", "ok", NoDNS, Issued("a", "i", Unset)), Variant("l", "ok", NoDNS, Issued("b", "i", Unset))}) EXCEPT
     !.objects = "vs" :> Object(1, Variant("l", "ok", NoDNS, Issued("a", "i", Unset))),
     !.replicas = {1, 2}, !.shims = {"crt"}, !.crts = Certs({"a", "b"}), !.elects = FALSE,
     !.bounds = Bounds(1, 0, 0)]

\* The Certificate that is no longer needed is replaced by somebody else's.
CertificatesTaken == [CertificatesTwice EXCEPT !.replicas = {1}, !.bounds = Bounds(3, 0, 0), !.lag = 3]

\* Two VirtualServers, each with its certificate until one takes the other's secret.
CertificatesOfTwo ==
  [With("vs" :> {Variant("l", "ok", NoDNS, Issued("a", "i", Unset))}
        @@ "vs2" :> {Variant("m", "ok", NoDNS, Issued("b", "i", Unset)), Variant("m", "ok", NoDNS, Issued("a", "i", Unset))}) EXCEPT
     !.objects = "vs" :> Object(1, Variant("l", "ok", NoDNS, Issued("a", "i", Unset)))
                 @@ "vs2" :> Object(2, Variant("m", "ok", NoDNS, Issued("b", "i", Unset))),
     !.shims = {"crt"}, !.crts = Certs({"a", "b"}), !.elects = FALSE, !.bounds = Bounds(1, 0, 0)]

OperationsWorkloads ==
  {Sources, Links, Delegation, Election, Others, Named, NamedTwice, Dual, Certificates, CertificatesTwice,
   CertificatesTaken, CertificatesOfTwo}

IPv4Addresses == {"1.1", "2.2", "3.3", "4.4", "9.9"}
IPv6Addresses == {"::1"}

\* A DNSEndpoint is made, and then a leader is elected.
StateWorkloads == {[Named EXCEPT !.replicas = {1, 2}, !.bounds = Bounds(0, 0, 1)]}
=============================================================================
