----------------------------- MODULE ExternalDNS -----------------------------
(***************************************************************************)
(* What the ExternalDNS controller does with a VirtualServer                 *)
(* (internal/externaldns): it keeps one DNSEndpoint, named like the          *)
(* VirtualServer, with the addresses of the VirtualServer's status.          *)
(*                                                                           *)
(* A DNSEndpoint is [owner, labels, spec]; its spec is a sequence of         *)
(* records [name, targets, type, ttl].                                       *)
(***************************************************************************)
EXTENDS StatusUpdater, Integers, FiniteSets

CONSTANTS
  IPv4, IPv6   \* the addresses that are IP addresses; the others are host names

NoObject == [owner |-> -1]
NoOwner == 0                    \* no controller

RecordType(a) == IF a \in IPv4 THEN "A" ELSE IF a \in IPv6 THEN "AAAA" ELSE "CNAME"

\* The endpoint of an empty address has no target.
getValidTargets(endpoints) ==
  LET addresses == [i \in DOMAIN endpoints |-> endpoints[i].address]
      valid(a) == a # NoAddress
  IN SelectSeq(addresses, valid)

buildRecordType(dns, type) == IF dns.type = NoAddress THEN type ELSE dns.type

\* One record for each type; the order is that of a map.
buildEndpoints(vs, targets, order) ==
  [i \in DOMAIN order |->
    LET ofType(a) == RecordType(a) = order[i]
    IN [name |-> vs.host, targets |-> SelectSeq(targets, ofType),
        type |-> buildRecordType(vs.dns, order[i]), ttl |-> vs.dns.ttl]]

Orders(targets) ==
  LET types == {RecordType(targets[i]) : i \in DOMAIN targets}
  IN {o \in [1..Cardinality(types) -> types] : \A i, j \in DOMAIN o : o[i] = o[j] => i = j}

extdnsendpointNeedsUpdate(a, spec, labels) == a.labels # labels \/ a.spec # spec

\* A DNSEndpoint without an owner, or of another owner, is left alone.
buildDNSEndpoint(existing, vs, spec) ==
  IF existing = NoObject
  THEN [op |-> "create", obj |-> [owner |-> vs.uid, labels |-> vs.labels, spec |-> spec]]
  ELSE IF existing.owner # vs.uid THEN [op |-> "none", obj |-> existing]
  ELSE IF ~extdnsendpointNeedsUpdate(existing, spec, vs.labels) THEN [op |-> "none", obj |-> existing]
  ELSE [op |-> "update", obj |-> [existing EXCEPT !.spec = spec, !.labels = vs.labels]]

\* What the sync may do; an error puts the VirtualServer back in the queue.
SyncDNS(existing, vs, endpoints) ==
  LET targets == getValidTargets(endpoints)
  IN IF ~vs.dns.enable THEN {[op |-> "none", obj |-> existing]}
     ELSE IF endpoints = << >> \/ targets = << >> THEN {[op |-> "error", obj |-> existing]}
     ELSE {buildDNSEndpoint(existing, vs, buildEndpoints(vs, targets, o)) : o \in Orders(targets)}
=============================================================================
