----------------------------- MODULE Operations -----------------------------
(***************************************************************************)
(* What replicas of the controller do outside NGINX: the status updater, the *)
(* leader's callback, the ExternalDNS and the cert-manager controllers, each *)
(* with caches of their own that lag behind the API.                         *)
(*                                                                           *)
(* An object is [uid, labels, spec, st].  A status is written over the       *)
(* version the API has: an update of an outdated copy is refused, and then   *)
(* repeated on a fresh one with the status of the copy.  DNSEndpoints and    *)
(* Certificates are updated only from the version the API has.               *)
(***************************************************************************)
EXTENDS CertManager

CONSTANT Workloads  \* clusters: [replicas, elects, shims, objects, variants, deletable, svc, svcs,
                    \* cm, cms, link, links, dns, crts, bounds, lag]; lag bounds the versions of a
                    \* DNSEndpoint or a Certificate that are on their way

VARIABLES
  workload,
  api,     \* [obj, svc, cm, link, dns, crts, events, uid]: what the API holds; and, as history, the
           \* values external-status-address has had, past, and the names of DNSEndpoints and
           \* Certificates of others that are gone, vacated
  ctl,     \* the controllers: [su, cache, pol, conf, queue, batch, all, lead, todo]
  shims,   \* the other controllers: [dnsQ, dnsVS, eps, crtQ, crtVS, crts], and the DNSEndpoints
           \* and Certificates on their way to the caches: [epsIn, crtsIn]
  left,    \* [changes, faults, losses]: what the environment may still do
  lapsed   \* the objects whose status was last written, or not written, from an outdated copy,
           \* or an event that is not the latest outcome, or by a replica that had lost the
           \* lease and is behind, or whose last write failed; a history variable

vars == <<workload, api, ctl, shims, left, lapsed>>

Keys == DOMAIN workload.objects
Replicas == workload.replicas
VirtualServers == Keys \cap {"vs", "vs2"}
Gone == [uid |-> 0]
Foreign == -2                    \* the uid of an owner that is no VirtualServer

Alive(uid) == \E k \in Keys : api.obj[k].uid = uid

-----------------------------------------------------------------------------
(* The controller's view, and the outcomes it reports.                       *)

Active(conf, k) == k \in DOMAIN conf /\ conf[k] \in {"ok", "warn", "err", "noroutes"}

Routes(conf) == "vs" \in DOMAIN conf /\ conf["vs"] \in {"ok", "warn", "err"}

Served(conf) == Routes(conf) /\ Active(conf, "vsr")

Known == [ok |-> [state |-> "Valid", reason |-> "AddedOrUpdated"],
          warn |-> [state |-> "Warning", reason |-> "AddedOrUpdatedWithWarning"],
          err |-> [state |-> "Invalid", reason |-> "AddedOrUpdatedWithError"],
          bad |-> [state |-> "Invalid", reason |-> "Rejected"],
          orphan |-> [state |-> "Warning", reason |-> "NoVirtualServerFound"]]

\* A VirtualServer without the route it names has a warning.
Outcome(conf, k) ==
  IF k = "vsr" /\ conf[k] # "bad"
  THEN IF ~Routes(conf) THEN Known.orphan
       ELSE IF conf["vs"] = "err" THEN Known.err ELSE Known[conf[k]]
  ELSE IF conf[k] = "noroutes" THEN Known.ok
  ELSE IF k = "vs" /\ conf[k] = "ok" /\ "vsr" \in DOMAIN conf /\ ~Active(conf, "vsr") THEN Known.warn
  ELSE Known[conf[k]]

\* The lister's copy; the one of a Policy is changed in place.
Copy(c, k) == IF k = "pol" /\ c.pol # NoStatus THEN [c.cache[k] EXCEPT !.st = c.pol] ELSE c.cache[k]

-----------------------------------------------------------------------------
(* A step of replica r is a record w = [r, c, obj, events, lapsed, lost].    *)

\* The same event of one recorder again only adds to its count.  Events are read by new
\* leaders, and not kept where none is elected.
recordEvent(events, r, k, uid, reason) ==
  LET e == [r |-> r, uid |-> uid, reason |-> reason]
  IN IF ~workload.elects \/ Contains(events[k], e) THEN events ELSE [events EXCEPT ![k] = Append(@, e)]

\* The spec differs, or the object is another one.
Different(old, new) == old.uid # new.uid \/ (old # Gone /\ new # Gone /\ old.spec # new.spec)

\* The replica has seen, and handled, every change of the cluster.
UpToDate(w) == w.c.queue = << >> /\ \A k \in Keys : ~Different(w.c.cache[k], w.obj[k])

\* A status that the copy has is not written again, except the external endpoints.
Put(w, k, st, how) ==
  LET copy == Copy(w.c, k)
      cur == w.obj[k]
      skip == how # "endpoints" /\ copy.st = st
      fails == k \in w.lost \/ cur = Gone
      exact == copy = cur /\ (skip \/ ~fails) /\ (w.c.lead = "leading" \/ UpToDate(w))
  IN IF copy = Gone THEN w
     ELSE [w EXCEPT !.c.pol = IF k = "pol" /\ ~skip THEN st ELSE @,
                    !.obj[k] = IF skip \/ fails THEN @ ELSE [@ EXCEPT !.st = st],
                    !.lapsed = CASE ~exact -> @ \cup {k}
                                 [] exact /\ how = "report" -> @ \ {k}
                                 [] exact /\ how # "report" -> @]

\* The new status of a resource, or of an object with a problem.
ReportedStatus(w, k, o) ==
  LET st == Copy(w.c, k).st
      su == w.c.su
  IN CASE k = "ing" -> IF w.c.conf[k] = "bad" THEN ClearIngressStatus(st) ELSE UpdateIngressStatus(su, st)
       [] k \in {"vs", "vs2"} -> UpdateVirtualServerStatus(su, st, o)
       [] k = "vsr" -> UpdateVirtualServerRouteStatusWithReferencedBy(
                         su, st, o, IF Served(w.c.conf) THEN "vs" ELSE "none")
       [] k = "ts" -> UpdateTransportServerStatus(st, o)
       [] k = "pol" -> UpdatePolicyStatus(st, o)

Report(w, k) ==
  LET o == Outcome(w.c.conf, k)
      e == [w EXCEPT !.events = recordEvent(@, w.r, k, Copy(w.c, k).uid, o.reason)]
  IN IF Copy(w.c, k) = Gone THEN w
     ELSE IF w.c.lead = "leading" THEN Put(e, k, ReportedStatus(w, k, o), "report") ELSE e

updateResourcesStatusAndEvents(w, ks) == FoldLeft(LAMBDA a, k : Report(a, k), w, ks)

Resources(conf) ==
  LET isResource(k) == Active(conf, k) /\ (k = "vsr" => Served(conf))
  IN SelectSeq(<< "ing", "vs", "vsr", "vs2", "ts" >>, isResource)

updateAllConfigs(w) == updateResourcesStatusAndEvents(w, Resources(w.c.conf))

\* A problem is reported when it is new.
Affected(old, new, k) ==
  LET self == IF new[k] = "absent" \/ (k # "pol" /\ old[k] = "bad" /\ new[k] = "bad") THEN << >> ELSE << k >>
      route == "vsr" \in DOMAIN new /\ Active(new, "vsr") /\ (Routes(old) \/ Routes(new))
  IN CASE k = "vs" /\ route -> self \o << "vsr" >>
       [] k = "vsr" /\ Routes(new) -> << "vs" >> \o self
       [] OTHER -> self

syncResource(w, k) ==
  LET new == [w.c.conf EXCEPT ![k] = IF w.c.cache[k] = Gone THEN "absent" ELSE w.c.cache[k].spec.form]
  IN updateResourcesStatusAndEvents([w EXCEPT !.c.conf = new], Affected(w.c.conf, new, k))

UpdateExternalEndpointsForResource(w, k) ==
  LET st == Copy(w.c, k).st
  IN IF Copy(w.c, k) = Gone THEN w
     ELSE IF k = "ing" THEN Put(w, k, updateIngressExternalEndpoints(w.c.su, st), "leader")
     ELSE Put(w, k, updateVirtualServerExternalEndpoints(w.c.su, st), "endpoints")

UpdateExternalEndpointsForResources(w) ==
  LET hasEndpoints(k) == k # "ts"
      ks == SelectSeq(Resources(w.c.conf), hasEndpoints)
  IN IF w.c.lead # "leading" THEN w
     ELSE FoldLeft(LAMBDA a, k : UpdateExternalEndpointsForResource(a, k), w, ks)

syncService(w) ==
  UpdateExternalEndpointsForResources(
    [w EXCEPT !.c.su = SaveStatusFromExternalService(@, api.svc)])

syncIngressLink(w) ==
  UpdateExternalEndpointsForResources(
    [w EXCEPT !.c.su = IF api.link = NoAddress THEN ClearStatusFromIngressLink(@)
                       ELSE SaveStatusFromIngressLink(@, api.link)])

\* A ConfigMap without external-status-address leaves the address as it is.
syncConfigMap(w) ==
  LET s == IF api.cm.set THEN [w EXCEPT !.c.su = SaveStatusFromExternalStatus(@, api.cm.address)] ELSE w
  IN IF w.c.batch THEN [s EXCEPT !.c.all = TRUE] ELSE updateAllConfigs(s)

syncTask(w, t) ==
  CASE t = "svc" -> syncService(w)
    [] t = "cm" -> syncConfigMap(w)
    [] t = "link" -> syncIngressLink(w)
    [] OTHER -> syncResource(w, t)

\* A batch ends with the queue; a change of the ConfigMap is applied then.
endBatch(w) ==
  IF ~w.c.batch \/ w.c.queue # << >> THEN w
  ELSE [(IF w.c.all THEN updateAllConfigs(w) ELSE w) EXCEPT !.c.batch = FALSE, !.c.all = FALSE]

Lost == {{}} \cup IF left.faults > 0 THEN {{k} : k \in Keys} ELSE {}

Step(r, c, lost) == [r |-> r, c |-> c, obj |-> api.obj, events |-> api.events, lapsed |-> lapsed, lost |-> lost]

Commit(w) ==
  /\ api' = [api EXCEPT !.obj = w.obj, !.events = w.events]
  /\ ctl' = [ctl EXCEPT ![w.r] = w.c]
  /\ lapsed' = w.lapsed
  /\ left' = [left EXCEPT !.faults = IF w.lost = {} THEN @ ELSE @ - 1]
  /\ UNCHANGED <<workload, shims>>

sync(r) ==
  /\ ctl[r].queue # << >>
  /\ \E lost \in Lost :
       LET rest == Tail(ctl[r].queue)
           c == [ctl[r] EXCEPT !.queue = rest, !.batch = @ \/ Len(rest) > 1]
       IN Commit(endBatch(syncTask(Step(r, c, lost), Head(ctl[r].queue))))

enqueue(queue, t) == IF Contains(queue, t) THEN queue ELSE Append(queue, t)

\* The informer: the object is queued when it is new, or its spec has changed.
Deliver(r, k) ==
  LET old == ctl[r].cache[k]
      new == api.obj[k]
  IN /\ old # new
     /\ ctl' = [ctl EXCEPT ![r].cache[k] = new,
                           ![r].pol = IF k = "pol" THEN NoStatus ELSE @,
                           ![r].queue = IF Different(old, new) THEN enqueue(@, k) ELSE @]
     /\ UNCHANGED <<workload, api, shims, left, lapsed>>

-----------------------------------------------------------------------------
(* Leadership.  The callback of a new leader runs beside its worker, and to  *)
(* its end even when the lease is lost; who has lost it never gets it again. *)

AcquireLease(r) ==
  /\ workload.elects
  /\ ctl[r].lead = "waiting"
  /\ \A q \in Replicas : ctl[q].lead # "leading"
  /\ ctl' = [ctl EXCEPT ![r].lead = "leading",
                        ![r].todo = SelectSeq(<< "ing", "vs", "vs2", "vsr", "pol", "ts" >>, LAMBDA k : k \in Keys)]
  /\ UNCHANGED <<workload, api, shims, left, lapsed>>

LoseLease(r) ==
  /\ ctl[r].lead = "leading"
  /\ left.losses > 0
  /\ ctl' = [ctl EXCEPT ![r].lead = "lost"]
  /\ left' = [left EXCEPT !.losses = @ - 1]
  /\ UNCHANGED <<workload, api, shims, lapsed>>

\* The event listed last is the one created last.
statusFromEvents(w, k) ==
  LET mine(e) == e.uid = Copy(w.c, k).uid
      events == SelectSeq(w.events[k], mine)
      reason == Last(events).reason
      o == [state |-> getStatusFromEventTitle(reason), reason |-> reason]
      st == Copy(w.c, k).st
      new == CASE k \in {"vs", "vs2"} -> UpdateVirtualServerStatus(w.c.su, st, o)
               [] k = "vsr" -> UpdateVirtualServerRouteStatus(w.c.su, st, o)
               [] k = "ts" -> UpdateTransportServerStatus(st, o)
      put == Put(w, k, new, "leader")
      latest == w.c.conf[k] # "absent" /\ reason = Outcome(w.c.conf, k).reason /\ reason # "NoVirtualServerFound"
  IN IF Copy(w.c, k) = Gone \/ events = << >> THEN w
     ELSE IF latest THEN put ELSE [put EXCEPT !.lapsed = @ \cup {k}]

\* Policies are validated again.
updatePoliciesStatus(w) ==
  LET copy == Copy(w.c, "pol")
  IN IF copy = Gone THEN w ELSE Put(w, "pol", UpdatePolicyStatus(copy.st, Known[copy.spec.form]), "leader")

\* The callback skips the Ingresses.
OnStartedLeading_bug(w, k) ==
  CASE k = "ing" -> w
    [] k = "pol" -> updatePoliciesStatus(w)
    [] OTHER -> statusFromEvents(w, k)

OnStartedLeading(w, k) ==
  CASE k = "ing" -> IF Active(w.c.conf, k) THEN UpdateExternalEndpointsForResource(w, k) ELSE w
    [] k = "pol" -> updatePoliciesStatus(w)
    [] OTHER -> statusFromEvents(w, k)

LeaderStep(r) ==
  /\ ctl[r].todo # << >>
  /\ \E lost \in Lost :
       Commit(OnStartedLeading(Step(r, [ctl[r] EXCEPT !.todo = Tail(@)], lost), Head(ctl[r].todo)))

-----------------------------------------------------------------------------
(* The ExternalDNS controller.                                               *)

Flat(k, o) ==
  [name |-> k, uid |-> o.uid, labels |-> o.labels, host |-> o.spec.host, dns |-> o.spec.dns, tls |-> o.spec.tls]

OfVirtualServer(o) == o # NoObject /\ o.owner \notin {NoOwner, Foreign}
OfOthers(o) == o # NoObject /\ ~OfVirtualServer(o)

Vacated(old, new) == {n \in DOMAIN old : OfOthers(old[n]) /\ new[n] = NoObject}

\* Every change is sent to every cache, in order.
NotifyDNS(sh, k, new) ==
  IF new = api.dns[k] THEN sh ELSE [r \in Replicas |-> [sh[r] EXCEPT !.epsIn[k] = Append(@, new)]]

NotifyCerts(sh, new) ==
  [r \in Replicas |->
    [sh[r] EXCEPT !.crtsIn = [n \in DOMAIN @ |-> IF new[n] = api.crts[n] THEN @[n] ELSE Append(@[n], new[n])]]]

InTime ==
  \A r \in Replicas :
    /\ \A k \in VirtualServers : Len(shims[r].epsIn[k]) < workload.lag
    /\ \A n \in DOMAIN api.crts : Len(shims[r].crtsIn[n]) < workload.lag

\* The informers: every change of a VirtualServer, and of what one controls, queues it.
DeliverToDNS(r, k) ==
  /\ "dns" \in workload.shims
  /\ shims[r].dnsVS[k] # api.obj[k]
  /\ shims' = [shims EXCEPT ![r].dnsVS[k] = api.obj[k], ![r].dnsQ = @ \cup {k}]
  /\ UNCHANGED <<workload, api, ctl, left, lapsed>>

externalDNSHandler(r, k) ==
  /\ "dns" \in workload.shims
  /\ shims[r].epsIn[k] # << >>
  /\ LET new == Head(shims[r].epsIn[k])
     IN shims' = [shims EXCEPT ![r].eps[k] = new, ![r].epsIn[k] = Tail(@),
                    ![r].dnsQ = IF OfVirtualServer(shims[r].eps[k]) \/ OfVirtualServer(new)
                                THEN @ \cup {k} ELSE @]
  /\ UNCHANGED <<workload, api, ctl, left, lapsed>>

\* A call fails when the object exists already, or is not the one that was read.
DNSCall(r, k, vs, out) ==
  LET ok == api.dns[k] = IF out.op = "create" THEN NoObject ELSE shims[r].eps[k]
      event(reason) == recordEvent(api.events, r, k, vs.uid, reason)
  IN CASE out.op = "none" -> [done |-> TRUE, dns |-> api.dns[k], events |-> api.events]
       [] out.op = "error" ->
            [done |-> FALSE, dns |-> api.dns[k],
             events |-> IF vs.st.endpoints = << >> THEN api.events ELSE event("BadConfig")]
       [] out.op = "create" ->
            IF ok THEN [done |-> TRUE, dns |-> out.obj, events |-> event("CreateDNSEndpoint")]
            ELSE [done |-> FALSE, dns |-> api.dns[k], events |-> api.events]
       [] out.op = "update" ->
            IF ok THEN [done |-> TRUE, dns |-> out.obj, events |-> event("UpdateDNSEndpoint")]
            ELSE [done |-> FALSE, dns |-> api.dns[k], events |-> event("BadConfig")]

processDNS(r, k) ==
  /\ k \in shims[r].dnsQ
  /\ InTime
  /\ LET vs == shims[r].dnsVS[k]
     IN \E out \in IF vs = Gone THEN {[op |-> "none", obj |-> NoObject]}
                   ELSE SyncDNS(shims[r].eps[k], Flat(k, vs), vs.st.endpoints) :
          LET call == DNSCall(r, k, vs, out)
          IN /\ api' = [api EXCEPT !.dns[k] = call.dns, !.events = call.events]
             /\ shims' = NotifyDNS([shims EXCEPT ![r].dnsQ = IF call.done THEN @ \ {k} ELSE @], k, call.dns)
  /\ UNCHANGED <<workload, ctl, left, lapsed>>

-----------------------------------------------------------------------------
(* The cert-manager controller.                                              *)

DeliverToCM(r, k) ==
  /\ "crt" \in workload.shims
  /\ shims[r].crtVS[k] # api.obj[k]
  /\ shims' = [shims EXCEPT ![r].crtVS[k] = api.obj[k], ![r].crtQ = @ \cup {k}]
  /\ UNCHANGED <<workload, api, ctl, left, lapsed>>

OwnerOf(o) == {k \in VirtualServers : OfVirtualServer(o) /\ o.name = k}

certificateHandler(r, n) ==
  /\ shims[r].crtsIn[n] # << >>
  /\ LET new == Head(shims[r].crtsIn[n])
     IN shims' = [shims EXCEPT ![r].crts[n] = new, ![r].crtsIn[n] = Tail(@),
                               ![r].crtQ = @ \cup OwnerOf(shims[r].crts[n]) \cup OwnerOf(new)]
  /\ UNCHANGED <<workload, api, ctl, left, lapsed>>

\* A call fails, and ends the sync, when the API holds something else than the cache.
CertCall(a, call, cached) ==
  LET ok == a.crts[call.name] = IF call.op = "create" THEN NoObject ELSE cached[call.name]
      exists == a.crts[call.name] # NoObject
  IN IF ~a.ok THEN a
     ELSE IF call.op = "delete"
     THEN IF exists THEN [a EXCEPT !.crts[call.name] = NoObject, !.reasons = Append(@, "DeleteCertificate")]
          ELSE [a EXCEPT !.ok = FALSE]
     ELSE IF ~ok THEN [a EXCEPT !.ok = FALSE, !.reasons = Append(@, "BadConfig")]
     ELSE [a EXCEPT !.crts[call.name] = call.obj,
                    !.reasons = Append(@, IF call.op = "create" THEN "CreateCertificate" ELSE "UpdateCertificate")]

processCert(r, k) ==
  /\ k \in shims[r].crtQ
  /\ InTime
  /\ LET vs == shims[r].crtVS[k]
         plan == IF vs = Gone THEN [err |-> FALSE, calls |-> << >>] ELSE SyncCert(shims[r].crts, Flat(k, vs))
         start == [crts |-> api.crts, ok |-> ~plan.err,
                   reasons |-> IF plan.err THEN << "BadConfig" >> ELSE << >>]
         done == FoldLeft(LAMBDA a, c : CertCall(a, c, shims[r].crts), start, plan.calls)
     IN /\ api' = [api EXCEPT !.crts = done.crts, !.vacated = @ \cup Vacated(api.crts, done.crts),
                     !.events = FoldLeft(LAMBDA e, reason : recordEvent(e, r, k, vs.uid, reason), @, done.reasons)]
        /\ shims' = NotifyCerts([shims EXCEPT ![r].crtQ = IF done.ok THEN @ \ {k} ELSE @], done.crts)
  /\ UNCHANGED <<workload, ctl, left, lapsed>>

-----------------------------------------------------------------------------
(* The environment.                                                          *)

Spend == /\ left.changes > 0
         /\ left' = [left EXCEPT !.changes = @ - 1]

Queued(t) == [r \in Replicas |-> [ctl[r] EXCEPT !.queue = enqueue(@, t)]]

ChangeSource ==
  /\ Spend
  /\ \/ \E v \in workload.svcs : v # api.svc /\ api' = [api EXCEPT !.svc = v] /\ ctl' = Queued("svc")
     \/ \E v \in workload.cms :
          /\ v # api.cm
          /\ api' = [api EXCEPT !.cm = v, !.past = IF api.cm.set THEN @ \cup {api.cm.address} ELSE @]
          /\ ctl' = Queued("cm")
     \/ \E v \in workload.links : v # api.link /\ api' = [api EXCEPT !.link = v] /\ ctl' = Queued("link")
  /\ UNCHANGED <<workload, shims, lapsed>>

\* An object is created again when the controllers have forgotten it.
Forgotten(k) == \A r \in Replicas : ctl[r].cache[k] = Gone /\ ctl[r].conf[k] = "absent"

ChangeObject(k) ==
  /\ Spend
  /\ \/ /\ api.obj[k] # Gone
        /\ \E v \in workload.variants[k] :
             /\ v # [labels |-> api.obj[k].labels, spec |-> api.obj[k].spec]
             /\ api' = [api EXCEPT !.obj[k].labels = v.labels, !.obj[k].spec = v.spec]
     \/ /\ api.obj[k] # Gone /\ k \in workload.deletable
        /\ api' = [api EXCEPT !.obj[k] = Gone]
     \/ /\ api.obj[k] = Gone /\ Forgotten(k)
        /\ \E v \in workload.variants[k] :
             api' = [api EXCEPT !.uid = @ + 1,
                                !.obj[k] = [uid |-> api.uid, labels |-> v.labels, spec |-> v.spec, st |-> NoStatus]]
  /\ UNCHANGED <<workload, ctl, shims, lapsed>>

SetDNS(k, o) ==
  LET dns == [api.dns EXCEPT ![k] = o]
  IN /\ api' = [api EXCEPT !.dns = dns, !.vacated = @ \cup Vacated(api.dns, dns)]
     /\ shims' = NotifyDNS(shims, k, o)

SetCert(n, o) ==
  LET crts == [api.crts EXCEPT ![n] = o]
  IN /\ api' = [api EXCEPT !.crts = crts, !.vacated = @ \cup Vacated(api.crts, crts)]
     /\ shims' = NotifyCerts(shims, crts)

\* A Certificate that somebody else made.
OtherCert(n) ==
  [owner |-> Foreign, name |-> "gateway", labels |-> "l",
   spec |-> [dnsNames |-> << "h" >>, secretName |-> n, issuer |-> [name |-> "i", kind |-> "Issuer", group |-> Unset],
             commonName |-> Unset, duration |-> Unset, renewBefore |-> Unset, usages |-> Unset]]

\* Someone deletes a DNSEndpoint or a Certificate, or makes one of their own.
ChangeDependent ==
  /\ workload.shims # {}
  /\ Spend
  /\ \/ \E k \in VirtualServers : api.dns[k] # NoObject /\ SetDNS(k, NoObject)
     \/ \E k \in VirtualServers :
          /\ "dns" \in workload.shims /\ api.dns[k] = NoObject
          /\ SetDNS(k, [owner |-> NoOwner, labels |-> "l", spec |-> << >>])
     \/ \E n \in DOMAIN api.crts : api.crts[n] # NoObject /\ SetCert(n, NoObject)
     \/ \E n \in DOMAIN api.crts : api.crts[n] = NoObject /\ SetCert(n, OtherCert(n))
  /\ UNCHANGED <<workload, ctl, lapsed>>

\* The garbage collector removes what a deleted VirtualServer controls.
Orphan(o) == OfVirtualServer(o) /\ ~Alive(o.owner)

CollectGarbage ==
  /\ \/ \E k \in VirtualServers : Orphan(api.dns[k]) /\ SetDNS(k, NoObject)
     \/ \E n \in DOMAIN api.crts : Orphan(api.crts[n]) /\ SetCert(n, NoObject)
  /\ UNCHANGED <<workload, ctl, left, lapsed>>

-----------------------------------------------------------------------------
\* Replicas that have started, and reported events, before one was elected.
InitialConf(w) == [k \in DOMAIN w.objects |-> IF w.objects[k] = Gone THEN "absent" ELSE w.objects[k].spec.form]

InitialUpdater(w) ==
  LET s == IF w.svc = Absent THEN NewUpdater ELSE SaveStatusFromExternalService(NewUpdater, w.svc)
      l == IF w.link = NoAddress THEN s ELSE SaveStatusFromIngressLink(s, w.link)
  IN IF w.cm.set THEN SaveStatusFromExternalStatus(l, w.cm.address) ELSE l

Init ==
  \E w \in Workloads :
    LET conf == InitialConf(w)
        vss == DOMAIN w.objects \cap {"vs", "vs2"}
        reported(k) == IF w.objects[k] = Gone THEN << >>
                       ELSE FoldSet(LAMBDA r, q : Append(q, [r |-> r, uid |-> w.objects[k].uid,
                                                            reason |-> Outcome(conf, k).reason]),
                                    << >>, w.replicas)
    IN /\ workload = w
       /\ api = [obj |-> w.objects, svc |-> w.svc, cm |-> w.cm, past |-> {}, vacated |-> {}, link |-> w.link, dns |-> w.dns, crts |-> w.crts,
                 events |-> [k \in DOMAIN w.objects |-> reported(k)], uid |-> 3]
       /\ ctl = [r \in w.replicas |->
                  [su |-> InitialUpdater(w), cache |-> w.objects, pol |-> NoStatus, conf |-> conf, queue |-> << >>,
                   batch |-> FALSE, all |-> FALSE, lead |-> "waiting", todo |-> << >>]]
       /\ shims = [r \in w.replicas |->
                    [dnsQ |-> IF "dns" \in w.shims THEN vss ELSE {}, dnsVS |-> [k \in vss |-> w.objects[k]],
                     eps |-> w.dns, crtQ |-> IF "crt" \in w.shims THEN vss ELSE {},
                     crtVS |-> [k \in vss |-> w.objects[k]], crts |-> w.crts,
                     epsIn |-> [k \in vss |-> << >>], crtsIn |-> [n \in DOMAIN w.crts |-> << >>]]]
       /\ left = w.bounds
       /\ lapsed = {}

Controllers ==
  \E r \in Replicas :
    \/ sync(r)
    \/ LeaderStep(r)
    \/ \E k \in Keys : Deliver(r, k)

ShimInformers == \E r \in Replicas : \E k \in VirtualServers : DeliverToDNS(r, k) \/ DeliverToCM(r, k)

DependentInformers ==
  \E r \in Replicas :
    \/ \E k \in VirtualServers : externalDNSHandler(r, k)
    \/ \E n \in DOMAIN api.crts : certificateHandler(r, n)

ShimWorkers == \E r \in Replicas : \E k \in VirtualServers : processDNS(r, k) \/ processCert(r, k)

Next ==
  \/ Controllers
  \/ ShimInformers
  \/ DependentInformers
  \/ ShimWorkers
  \/ CollectGarbage
  \/ \E r \in Replicas : AcquireLease(r) \/ LoseLease(r)
  \/ ChangeSource
  \/ \E k \in Keys : ChangeObject(k)
  \/ ChangeDependent

Spec == Init /\ [][Next]_vars

-----------------------------------------------------------------------------
(* Properties.                                                               *)

\* What is in a queue and can only fail again: the VirtualServer has no address yet, or its
\* issuer cannot be determined.
StuckDNS(r, k) ==
  LET vs == shims[r].dnsVS[k]
  IN vs # Gone /\ vs.spec.dns.enable /\ getValidTargets(vs.st.endpoints) = << >>

StuckCert(r, k) ==
  LET vs == shims[r].crtVS[k]
  IN vs # Gone /\ vs.spec.tls.managed /\ (IssuerError(vs.spec.tls.certManager) \/ TranslateError(vs.spec.tls.certManager))

ControllerSettled(r) == ctl[r].queue = << >> /\ ctl[r].todo = << >> /\ ctl[r].cache = api.obj

ShimsSettled(r) ==
  /\ "dns" \in workload.shims =>
       /\ \A k \in VirtualServers : shims[r].dnsVS[k] = api.obj[k]
       /\ \A k \in VirtualServers : shims[r].epsIn[k] = << >>
       /\ \A k \in shims[r].dnsQ : StuckDNS(r, k)
  /\ "crt" \in workload.shims =>
       /\ \A k \in VirtualServers : shims[r].crtVS[k] = api.obj[k]
       /\ \A n \in DOMAIN api.crts : shims[r].crtsIn[n] = << >>
       /\ \A k \in shims[r].crtQ : StuckCert(r, k)

NoGarbage ==
  /\ \A k \in VirtualServers : ~Orphan(api.dns[k])
  /\ \A n \in DOMAIN api.crts : ~Orphan(api.crts[n])

\* Informers, workers and the garbage collector make progress; a lease need not be won.
\* Each conjunct is weak fairness with a condition under which the step is enabled: the
\* retry of a call that fails again is no step.
ControllersCan == \E r \in Replicas : ~ControllerSettled(r)

InformersCan ==
  \E r \in Replicas : \E k \in VirtualServers :
    \/ "dns" \in workload.shims /\ shims[r].dnsVS[k] # api.obj[k]
    \/ "crt" \in workload.shims /\ shims[r].crtVS[k] # api.obj[k]

DependentsCan ==
  \E r \in Replicas :
    \/ \E k \in VirtualServers : "dns" \in workload.shims /\ shims[r].epsIn[k] # << >>
    \/ \E n \in DOMAIN api.crts : shims[r].crtsIn[n] # << >>

WorkersCan ==
  ~DependentsCan /\ \E r \in Replicas :
    (\E k \in shims[r].dnsQ : ~StuckDNS(r, k)) \/ (\E k \in shims[r].crtQ : ~StuckCert(r, k))

Fairness ==
  /\ []<>~ControllersCan \/ []<><<Controllers>>_vars
  /\ []<>~InformersCan \/ []<><<ShimInformers>>_vars
  /\ []<>~DependentsCan \/ []<><<DependentInformers>>_vars
  /\ []<>~WorkersCan \/ []<><<ShimWorkers>>_vars
  /\ []<>NoGarbage \/ []<><<CollectGarbage>>_vars

FairSpec == Spec /\ Fairness

Settled == NoGarbage /\ \A r \in Replicas : ControllerSettled(r) /\ ShimsSettled(r)

NonEmpty(addresses) == SelectSeq(addresses, LAMBDA a : a # NoAddress)

\* With a as the external-status-address.
SourceOfHighestPrecedence(a) ==
  IF a # NoAddress THEN << a >>
  ELSE IF getExternalServiceAddress(api.svc) # << >> THEN getExternalServiceAddress(api.svc)
  ELSE NonEmpty(<< api.link >>)

\* Removing the key changes nothing: what it was stays in force.
ExternalStatusAddresses == IF api.cm.set THEN {api.cm.address} ELSE api.past \cup {NoAddress}

\* The address a replica reports is that of the source of highest precedence: the
\* external-status-address, then the external Service, then the IngressLink
\* (SaveStatusFrom...), once it has handled every change of them, in whatever order; when the
\* key was removed from the ConfigMap, a value it has had still counts (syncConfigMap, see
\* RemovedAddressForgotten).  When everything has settled under a leader, the statuses say what
\* became of the objects and carry the leader's addresses, also after a former leader finished
\* its callback beside it, unless the last write of a status failed, or was made from an outdated
\* copy or event, or by a former leader that had not yet seen a change of the cluster
\* (updateVirtualServerStatusAndEvents, createLeaderHandler).
StatusCurrent ==
  \A r \in Replicas :
   /\ ctl[r].queue = << >> =>
        /\ \E a \in ExternalStatusAddresses : NonEmpty(ctl[r].su.status) = SourceOfHighestPrecedence(a)
        /\ Len(ctl[r].su.endpoints) = Len(ctl[r].su.status)
        /\ \A i \in DOMAIN ctl[r].su.status : ctl[r].su.endpoints[i].address = ctl[r].su.status[i]
   /\ Settled /\ ctl[r].lead = "leading" =>
    \A k \in Keys \ lapsed : api.obj[k] # Gone =>
      LET st == api.obj[k].st
          conf == ctl[r].conf
      IN /\ k # "ing" => st.state = Outcome(conf, k).state
         /\ k = "ing" /\ Active(conf, k) /\ ctl[r].su.initialized => st.lb = ctl[r].su.status
         /\ k \in VirtualServers /\ Active(conf, k) => st.endpoints = ctl[r].su.endpoints
         /\ k = "vsr" /\ Served(conf) => st.endpoints = ctl[r].su.endpoints

\* When everything has settled, a VirtualServer that asks for it has its DNSEndpoint with the
\* addresses of its status, and its Certificate and no other, unless somebody else's object
\* has the name, or had it: the handlers queue a VirtualServer for the objects it controls only
\* (externaldns and certmanager SyncFnFor, externalDNSHandler, certificateHandler).
DependentsCurrent ==
  Settled =>
    \A k \in VirtualServers : api.obj[k] # Gone =>
      LET vs == Flat(k, api.obj[k])
          targets == getValidTargets(api.obj[k].st.endpoints)
      IN /\ "dns" \in workload.shims /\ vs.dns.enable /\ targets # << >> =>
              /\ api.dns[k] # NoObject \/ k \in api.vacated
              /\ OfVirtualServer(api.dns[k]) =>
                   /\ api.dns[k].owner = vs.uid
                   /\ api.dns[k].labels = vs.labels
                   /\ \E o \in Orders(targets) : api.dns[k].spec = buildEndpoints(vs, targets, o)
         /\ "crt" \in workload.shims /\ vs.tls.managed /\ ~IssuerError(vs.tls.certManager) =>
              /\ api.crts[vs.tls.secret] # NoObject \/ vs.tls.secret \in api.vacated
              /\ api.crts[vs.tls.secret].owner = vs.uid =>
                   /\ api.crts[vs.tls.secret].spec.issuer.name = issuerForVirtualServer(vs.tls.certManager).name
                   /\ api.crts[vs.tls.secret].spec.dnsNames = << vs.host >>
              /\ \A n \in DOMAIN api.crts : api.crts[n].owner = vs.uid => n = vs.tls.secret

\* The name is in the list of Certificates to be removed of a replica whose cache has not seen
\* that it changed hands.
TakenForOwn(n) == \E r \in Replicas : OfVirtualServer(shims[r].crts[n]) /\ shims[r].crtsIn[n] # << >>

\* The controllers never change a DNSEndpoint or a Certificate that no VirtualServer controls,
\* however far their caches are behind, and delete such a Certificate only by a name that a
\* cache still has as a VirtualServer's: Certificates are deleted by name and not by uid
\* (buildDNSEndpoint, buildCertificates, findCertificatesToBeRemoved, SyncFnFor; see
\* OthersNeverDeleted).
OthersUntouched ==
  [][left' = left =>
       /\ \A k \in VirtualServers : OfOthers(api.dns[k]) => api'.dns[k] = api.dns[k]
       /\ \A n \in DOMAIN api.crts : OfOthers(api.crts[n]) =>
            \/ api'.crts[n] = api.crts[n]
            \/ api'.crts[n] = NoObject /\ TakenForOwn(n)]_vars

\* The records of several types have no order.
DualStack(k) ==
  api.obj[k] # Gone /\ Cardinality(Orders(getValidTargets(api.obj[k].st.endpoints))) > 1

\* Once the cluster stops changing, the controllers of the replicas stop as well: none keeps
\* undoing what another did (runWorker, the informers).
Settles == <>[](Settled \/ \E k \in VirtualServers : DualStack(k))

\* "if external-status-address was removed from configMap, [...] fall back on external service if
\* it exists" (status.go:296): the address of a key that was removed is not reported any more.
RemovedAddressForgotten ==
  \A r \in Replicas : ctl[r].queue = << >> /\ ~api.cm.set =>
    NonEmpty(ctl[r].su.status) = SourceOfHighestPrecedence(NoAddress)

\* OthersUntouched without its exception.
OthersNeverDeleted ==
  [][left' = left => \A n \in DOMAIN api.crts : OfOthers(api.crts[n]) => api'.crts[n] = api.crts[n]]_vars

\* DependentsCurrent without the exception for names that others had.
NeverWithout ==
  Settled => \A k \in VirtualServers : api.obj[k] # Gone =>
    LET vs == Flat(k, api.obj[k])
    IN /\ "dns" \in workload.shims /\ vs.dns.enable /\ getValidTargets(api.obj[k].st.endpoints) # << >> =>
            api.dns[k] # NoObject
       /\ "crt" \in workload.shims /\ vs.tls.managed /\ ~IssuerError(vs.tls.certManager) =>
            api.crts[vs.tls.secret] # NoObject

\* A state that was reported is one of the three that the API documents (types.go:541).
StatesKnown ==
  \A k \in Keys : api.obj[k] # Gone => api.obj[k].st.state \in {"none", "Valid", "Invalid", "Warning"}
=============================================================================
