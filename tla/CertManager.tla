----------------------------- MODULE CertManager -----------------------------
(***************************************************************************)
(* What the cert-manager controller does with a VirtualServer                *)
(* (internal/certmanager): it keeps a Certificate, named like the TLS        *)
(* secret, and deletes those of secrets the VirtualServer does not name any  *)
(* more.  A Certificate is [owner, name, labels, spec], name the owner's.    *)
(***************************************************************************)
EXTENDS ExternalDNS, FiniteSetsExt

Unset == "unset"
Bad == "bad"      \* a duration, or a key usage, that cannot be parsed

\* The fields of tls.cert-manager exclude one another.
IssuerError(cm) ==
  \/ cm.issuer = Unset /\ cm.clusterIssuer = Unset
  \/ cm.clusterIssuer # Unset /\ (cm.issuer # Unset \/ cm.group # Unset \/ cm.kind # Unset)

issuerForVirtualServer(cm) ==
  [name |-> IF cm.clusterIssuer # Unset THEN cm.clusterIssuer ELSE cm.issuer,
   kind |-> CASE cm.kind # Unset -> cm.kind
              [] cm.kind = Unset /\ cm.clusterIssuer # Unset -> "ClusterIssuer"
              [] cm.kind = Unset /\ cm.clusterIssuer = Unset -> "Issuer",
   group |-> cm.group]

TranslateError(cm) == Bad \in {cm.duration, cm.renewBefore, cm.usages}

translateVsSpec(vs) ==
  LET cm == vs.tls.certManager
  IN [dnsNames |-> << vs.host >>, secretName |-> vs.tls.secret, issuer |-> issuerForVirtualServer(cm),
      commonName |-> cm.commonName, duration |-> cm.duration, renewBefore |-> cm.renewBefore,
      usages |-> cm.usages]

\* Only the names are compared.
certNeedsUpdate_bug(crt, vs) ==
  LET a == crt.spec
      b == translateVsSpec(vs)
  IN a.dnsNames # b.dnsNames \/ a.secretName # b.secretName

\* The duration, the renewal, the usages and the issuer's group make no difference.
certNeedsUpdate(crt, vs) ==
  LET a == crt.spec
      b == translateVsSpec(vs)
  IN \/ crt.labels # vs.labels
     \/ a.commonName # b.commonName \/ a.dnsNames # b.dnsNames \/ a.secretName # b.secretName
     \/ a.issuer.name # b.issuer.name \/ a.issuer.kind # b.issuer.kind

\* A certificate is updated whoever controls it.
buildCertificates_bug(crts, vs) ==
  LET name == vs.tls.secret
      new == [owner |-> vs.uid, name |-> vs.name, labels |-> vs.labels, spec |-> translateVsSpec(vs)]
  IN IF crts[name] = NoObject THEN << [op |-> "create", name |-> name, obj |-> new] >>
     ELSE IF ~certNeedsUpdate(crts[name], vs) THEN << >>
     ELSE << [op |-> "update", name |-> name,
              obj |-> [crts[name] EXCEPT !.spec = new.spec, !.labels = new.labels]] >>

\* Certificates are a function from names, NoObject where there is none; the result is
\* the sequence of calls to make.
buildCertificates(crts, vs) ==
  LET name == vs.tls.secret
      existing == crts[name]
      new == [owner |-> vs.uid, name |-> vs.name, labels |-> vs.labels, spec |-> translateVsSpec(vs)]
  IN IF existing = NoObject THEN << [op |-> "create", name |-> name, obj |-> new] >>
     ELSE IF existing.owner # vs.uid \/ ~certNeedsUpdate(existing, vs) THEN << >>
     ELSE << [op |-> "update", name |-> name,
              obj |-> [existing EXCEPT !.spec = new.spec, !.labels = new.labels]] >>

\* Every certificate that names another secret is removed.
findCertificatesToBeRemoved_bug(crts, vs) ==
  {n \in DOMAIN crts : crts[n] # NoObject /\ crts[n].spec.secretName # vs.tls.secret}

findCertificatesToBeRemoved(crts, vs) ==
  {n \in DOMAIN crts : crts[n].owner = vs.uid /\ crts[n].spec.secretName # vs.tls.secret}

\* The calls of a sync; after an error none is made.
SyncCert(crts, vs) ==
  IF ~vs.tls.managed THEN [err |-> FALSE, calls |-> << >>]
  ELSE IF IssuerError(vs.tls.certManager) \/ TranslateError(vs.tls.certManager)
       THEN [err |-> TRUE, calls |-> << >>]
  ELSE [err |-> FALSE,
        calls |-> FoldSet(LAMBDA n, q : Append(q, [op |-> "delete", name |-> n, obj |-> crts[n]]),
                          buildCertificates(crts, vs), findCertificatesToBeRemoved(crts, vs))]
=============================================================================
