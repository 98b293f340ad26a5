---------------------------- MODULE StatusUpdater ----------------------------
(***************************************************************************)
(* The status updater (internal/k8s/status.go): which addresses the          *)
(* controller reports, and what it writes on an object.                      *)
(*                                                                           *)
(* An updater is a record: the external-status-address of the ConfigMap, the *)
(* addresses and ports of the external Service, the address and ports of the *)
(* IngressLink, and what follows from them, the status of an Ingress and the *)
(* external endpoints of a VirtualServer.  The status of an object is        *)
(* [state, reason, ref, endpoints, lb], of which each kind uses some.        *)
(***************************************************************************)
EXTENDS Sequences, SequencesExt

NoAddress == "noaddress"        \* the empty string
NoPorts == << "noports" >>      \* the empty string
Absent == [absent |-> TRUE]     \* no such Service

NewUpdater ==
  [external |-> NoAddress, svcAddresses |-> << >>, svcPorts |-> NoPorts,
   bigIP |-> NoAddress, bigIPPorts |-> NoPorts,
   status |-> << >>, endpoints |-> << >>, initialized |-> FALSE]

NoStatus ==
  [state |-> "none", reason |-> "none", ref |-> "none", endpoints |-> << >>, lb |-> << >>]

-----------------------------------------------------------------------------
(* The sources.  A Service is [externalName, lb, ips, ports].                *)

isRequiredPort(p) == p.target \in {"80", "443", "http", "https"}

getExternalServicePorts(svc) ==
  IF svc = Absent THEN NoPorts
  ELSE LET required == SelectSeq(svc.ports, isRequiredPort)
       IN [i \in DOMAIN required |-> required[i].port]

getExternalServiceAddress(svc) ==
  IF svc = Absent THEN << >>
  ELSE IF svc.externalName # NoAddress THEN << svc.externalName >>
  ELSE svc.lb \o svc.ips

generateExternalEndpointsFromStatus(su, status) ==
  LET ports == IF su.bigIPPorts # NoPorts THEN su.bigIPPorts ELSE su.svcPorts
  IN [i \in DOMAIN status |-> [address |-> status[i], ports |-> ports]]

saveStatus(su, ips) ==
  [su EXCEPT !.status = ips, !.initialized = TRUE,
             !.endpoints = generateExternalEndpointsFromStatus(su, ips)]

\* Without an address of its own the external Service is the source, or else IngressLink.
SaveStatusFromExternalStatus(su, address) ==
  LET s == [su EXCEPT !.external = address]
  IN IF address = NoAddress /\ s.svcAddresses # << >> THEN saveStatus(s, s.svcAddresses)
     ELSE IF address = NoAddress /\ s.bigIP # NoAddress THEN saveStatus(s, << s.bigIP >>)
     ELSE saveStatus(s, << address >>)

SaveStatusFromExternalService(su, svc) ==
  LET s == [su EXCEPT !.svcAddresses = getExternalServiceAddress(svc),
                      !.svcPorts = getExternalServicePorts(svc)]
  IN IF s.external # NoAddress THEN s ELSE saveStatus(s, s.svcAddresses)

SaveStatusFromIngressLink(su, ip) ==
  LET s == [su EXCEPT !.bigIP = ip, !.bigIPPorts = << "80", "443" >>]
  IN IF s.external # NoAddress THEN s ELSE saveStatus(s, << ip >>)

ClearStatusFromIngressLink(su) ==
  LET s == [su EXCEPT !.bigIP = NoAddress, !.bigIPPorts = NoPorts]
  IN IF s.external # NoAddress THEN s ELSE saveStatus(s, << >>)

-----------------------------------------------------------------------------
(* The new status of an object, from the one in the lister's copy.  An       *)
(* update that would change nothing there is not made.                       *)

UpdateIngressStatus(su, st) == IF su.initialized THEN [st EXCEPT !.lb = su.status] ELSE st

ClearIngressStatus(st) == [st EXCEPT !.lb = << >>]

\* An outcome o is [state, reason].
UpdateTransportServerStatus(st, o) == [st EXCEPT !.state = o.state, !.reason = o.reason]

UpdatePolicyStatus(st, o) == [st EXCEPT !.state = o.state, !.reason = o.reason]

UpdateVirtualServerStatus(su, st, o) ==
  [st EXCEPT !.state = o.state, !.reason = o.reason, !.endpoints = su.endpoints]

\* A reference that is not given makes no difference, but is written with any other change.
hasVsrStatusChanged(su, st, o, ref) ==
  \/ st.state # o.state
  \/ st.reason # o.reason
  \/ ref # "none" /\ st.ref # ref
  \/ st.endpoints # su.endpoints

UpdateVirtualServerRouteStatusWithReferencedBy(su, st, o, ref) ==
  IF hasVsrStatusChanged(su, st, o, ref)
  THEN [st EXCEPT !.state = o.state, !.reason = o.reason, !.ref = ref, !.endpoints = su.endpoints]
  ELSE st

UpdateVirtualServerRouteStatus(su, st, o) ==
  [st EXCEPT !.state = o.state, !.reason = o.reason, !.endpoints = su.endpoints]

updateIngressExternalEndpoints(su, st) == [st EXCEPT !.lb = su.status]

updateVirtualServerExternalEndpoints(su, st) == [st EXCEPT !.endpoints = su.endpoints]

-----------------------------------------------------------------------------
(* Events, by which a new leader finds out about the states.                 *)

getStatusFromEventTitle(reason) ==
  CASE reason \in {"AddedOrUpdatedWithError", "Rejected", "NoVirtualServersFound",
                   "Missing Secret", "UpdatedWithError"} -> "Invalid"
    [] reason \in {"AddedOrUpdatedWithWarning", "UpdatedWithWarning"} -> "Warning"
    [] reason \in {"AddedOrUpdated", "Updated"} -> "Valid"
    [] OTHER -> "empty"
=============================================================================
