-------------------------- MODULE VirtualServerSync --------------------------
(***************************************************************************)
(* One VirtualServer, its VirtualServerRoutes and the controller: edits of   *)
(* the resources, the handlers of the two informers, which apply a change of *)
(* nothing but weights at once through the NGINX Plus API (-weight-changes-  *)
(* dynamic-reload), and the worker, which takes everything else from the     *)
(* queue (internal/k8s/handlers.go, controller.go, configuration.go and      *)
(* internal/configs/configurator.go).                                        *)
(*                                                                           *)
(* The handlers run in the goroutines of the informers: between the steps of *)
(* the worker, and without its lock.                                         *)
(***************************************************************************)
EXTENDS VirtualServerRouting

CONSTANTS
  Workloads,  \* clusters: [vsv, params, vs, vsrs], see Init
  MaxEdits    \* changes users make

VARIABLES
  workload,   \* the cluster of this behaviour
  edits,      \* changes made
  store,      \* what the listers hold: [vs, vsrs], vs a set of at most one
  pending,    \* events the handlers have not seen, one sequence per informer
  work,       \* the changes the worker is applying, a set of at most one
  ctl,        \* the controller: [queue, conf, built, problems, status]
  running,    \* what NGINX runs, [of, cfg], a set of at most one
  kv,         \* the key-value zones of the splits
  lost        \* the gaps of the handling of weights that a change has met

vars == <<workload, edits, store, pending, work, ctl, running, kv, lost>>

vsv == workload.vsv
params == workload.params

The(S) == CHOOSE x \in S : TRUE
VSKey == [namespace |-> workload.namespace, name |-> workload.name]
Task(kind, key) == [kind |-> kind, key |-> key]

-----------------------------------------------------------------------------
(* The Configuration.                                                        *)

\* The orders in which Go may iterate over the VirtualServerRoutes.
Orders(vsrs) == {o \in [1..Cardinality(DOMAIN vsrs) -> DOMAIN vsrs] : IsInjective(o)}

NewVirtualServerConfiguration(vs, vsrs, col) ==
  [vs |-> vs, vsrs |-> [k \in Range(col.vsrs) |-> vsrs[k]], col |-> col]

buildHosts(conf, order) ==
  {NewVirtualServerConfiguration(vs, conf.vsrs, buildVirtualServerRoutes(vsv, conf.vsrs, order, vs))
     : vs \in conf.vs}

\* By generation; the selectors have the same keys in any order.
VSIsEqual(a, b) ==
  /\ a.vs.gen = b.vs.gen
  /\ a.col.vsrs = b.col.vsrs
  /\ \A k \in DOMAIN a.vsrs : a.vsrs[k].gen = b.vsrs[k].gen
  /\ a.col.selectors = b.col.selectors

addProblemsForOrphanOrIgnoredVsrs(conf, built) ==
  {[key |-> k, reason |-> IF built = None THEN "NoVirtualServerFound" ELSE "Ignored",
    gen |-> conf.vsrs[k].gen]
     : k \in {k \in DOMAIN conf.vsrs : \A b \in built : k \notin DOMAIN b.vsrs}}

\* The changes, a set of at most one, and the new problems.
Changes(old, new) ==
  IF new = None THEN {[op |-> "Delete", of |-> b] : b \in old}
  ELSE {[op |-> "AddOrUpdate", of |-> b] : b \in {b \in new : \A a \in old : ~VSIsEqual(a, b)}}

detectChanges(c, conf, built, problems) ==
  [ctl |-> [c EXCEPT !.conf = conf, !.built = built, !.problems = problems],
   changes |-> Changes(c.built, built),
   problems |-> problems \ c.problems]

rebuildHosts(c, conf, order) ==
  LET Detect(built) == detectChanges(c, conf, built, addProblemsForOrphanOrIgnoredVsrs(conf, built))
  IN Detect(buildHosts(conf, SelectSeq(order, LAMBDA k : k \in DOMAIN conf.vsrs)))

NothingChanged(c) == [ctl |-> c, changes |-> {}, problems |-> {}]

Reject(r, key) == [r EXCEPT !.problems = @ \cup {[key |-> key, reason |-> "Rejected", gen |-> 0]}]

\* A rejected VirtualServer that was configured gets its error by the change.
AddOrUpdateVirtualServer(c, vs, valid, order) ==
  LET Report(r) == IF valid \/ r.changes # {} THEN r ELSE Reject(r, VSKey)
  IN Report(rebuildHosts(c, [c.conf EXCEPT !.vs = IF valid THEN {BalanceUpstreamProxies(vsv, vs)} ELSE None],
                         order))

DeleteVirtualServer(c, order) ==
  IF c.conf.vs = None THEN NothingChanged(c) ELSE rebuildHosts(c, [c.conf EXCEPT !.vs = None], order)

Without(f, k) == [x \in DOMAIN f \ {k} |-> f[x]]

AddOrUpdateVirtualServerRoute(c, key, vsr, valid, order) ==
  LET Report(r) == IF valid THEN r ELSE Reject(r, key)
  IN Report(rebuildHosts(c, [c.conf EXCEPT !.vsrs =
                               IF valid THEN (key :> BalanceUpstreamProxies(vsv, vsr)) @@ @
                               ELSE Without(@, key)], order))

DeleteVirtualServerRoute(c, key, order) ==
  IF key \notin DOMAIN c.conf.vsrs THEN NothingChanged(c)
  ELSE rebuildHosts(c, [c.conf EXCEPT !.vsrs = Without(@, key)], order)

-----------------------------------------------------------------------------
(* Statuses.                                                                 *)

\* A rejection is an error, the other problems are warnings.
processProblems(c, problems) ==
  [c EXCEPT !.status = [k \in {p.key : p \in problems} |->
       IF \E p \in problems : p.key = k /\ p.reason = "Rejected" THEN "Invalid" ELSE "Warning"] @@ @]

updateVirtualServerStatusAndEvents(c, b, failed) ==
  [c EXCEPT !.status =
     (VSKey :> (IF failed THEN "Invalid" ELSE IF b.col.warnings # {} THEN "Warning" ELSE "Valid"))
       @@ [k \in DOMAIN b.vsrs |-> IF failed THEN "Invalid" ELSE "Valid"] @@ @]

\* Only for a VirtualServer that is still there.
UpdateVirtualServerStatusAndEventsOnDelete(c, b, error) ==
  IF store.vs = None \/ (~error /\ b.col.warnings = {}) THEN c
  ELSE [c EXCEPT !.status = (VSKey :> (IF error THEN "Invalid" ELSE "Warning")) @@ @]

-----------------------------------------------------------------------------
(* The handlers.                                                             *)

TwoWay(splits) == Len(splits) = 2

zeroOutSplitWeights(routes) ==
  LET Zero(splits) == IF TwoWay(splits) THEN [i \in DOMAIN splits |-> [splits[i] EXCEPT !.weight = 0]]
                      ELSE splits
  IN [i \in DOMAIN routes |->
        [routes[i] EXCEPT !.splits = Zero(@),
                          !.matches = [j \in DOMAIN @ |-> [@[j] EXCEPT !.splits = Zero(@)]]]]

IgnoringWeights(kind, o) == [f \in DOMAIN o \ {"gen", "labels"} |->
  IF f = (IF kind = "vs" THEN "routes" ELSE "subroutes") THEN zeroOutSplitWeights(o[f]) ELSE o[f]]

Weights(splits) == [i \in DOMAIN splits |-> splits[i].weight]

\* How many split clients the splits take, as the code that handles weights counts them.
Amount(splits) == IF TwoWay(splits) THEN splitClientAmount ELSE IF splits = << >> THEN 0 ELSE 1

\* The index and the weights of a split, when they have changed.
Update(old, new, index) ==
  IF TwoWay(new) /\ Weights(old) # Weights(new) THEN <<[index |-> index, weights |-> Weights(new)]>>
  ELSE << >>

Counted(u, old, new) ==
  [updates |-> u.updates \o Update(old, new, u.index), index |-> u.index + Amount(new)]

MatchUpdates(u, old, new) ==
  FoldLeftDomain(LAMBDA v, j : Counted(v, old.matches[j].splits, new.matches[j].splits), u, new.matches)

\* The splits of a route that changed count twice.
RouteUpdates(u, old, new) ==
  LET Twice(next) == IF Len(next.updates) = Len(u.updates) THEN next
                     ELSE [next EXCEPT !.index = @ + splitClientAmount]
  IN Twice(Counted(u, old.splits, new.splits))

WeightUpdates(old, new) ==
  FoldLeftDomain(LAMBDA u, i : RouteUpdates(MatchUpdates(u, old[i], new[i]), old[i], new[i]),
                 [updates |-> << >>, index |-> 0], new).updates

WeightUpdatesVSR(old, new, start) ==
  FoldLeftDomain(LAMBDA u, i :
      Counted(MatchUpdates(u, old[i], new[i]), old[i].splits, new[i].splits),
    [updates |-> << >>, index |-> start], new).updates

vsrHasWeightChanges(old, new) == WeightUpdatesVSR(old, new, 0) # << >>

SplitClientsOf(routes) ==
  FoldLeft(LAMBDA n, r : n + FoldLeft(LAMBDA m, t : m + Amount(t.splits), Amount(r.splits), r.matches),
           0, routes)

\* The VirtualServerRoutes before it, by name.
getStartingSplitClientsIndex_bug(key, b) == SplitClientsOf(b.vs.routes)

getStartingSplitClientsIndex(key, b) ==
  LET same == {i \in DOMAIN b.col.vsrs : b.col.vsrs[i].name = key.name}
      before == {i \in DOMAIN b.col.vsrs : \A j \in same : i < j}
  IN FoldLeftDomain(LAMBDA n, i : n + (IF i \in before THEN SplitClientsOf(b.vsrs[b.col.vsrs[i]].subroutes)
                                       ELSE 0),
                    SplitClientsOf(b.vs.routes), b.col.vsrs)

\* The API refuses a zone that is not in the configuration; an error is only logged.
UpsertSplitClientsKeyVal(zones, run, updates) ==
  FoldLeft(LAMBDA z, u : IF \E r \in run : \E t \in Range(r.cfg.twoWay) : t.index = u.index
                         THEN (u.index :> u.weights) @@ z ELSE z,
           zones, updates)

AddSyncQueue(c, task) ==
  IF Contains(c.queue, task) THEN c ELSE [c EXCEPT !.queue = Append(@, task)]

\* What a step of the controller leaves behind.
Left(c, run, zones) == [ctl |-> c, running |-> run, kv |-> zones]

\* An invalid VirtualServer is taken down, and stored again all the same.
haltIfVSConfigInvalid(c, vsNew, valid, order) ==
  LET Apply(r, stored, change) ==
        [halt |-> r.problems # {}, deleted |-> change.op = "Delete",
         ctl |-> IF change.op = "Delete"
                 THEN UpdateVirtualServerStatusAndEventsOnDelete(stored, change.of, ~valid)
                 ELSE updateVirtualServerStatusAndEvents(stored, change.of, FALSE)]
      Report(r) ==
        IF r.changes = {} THEN [halt |-> TRUE, deleted |-> FALSE, ctl |-> processProblems(r.ctl, r.problems)]
        ELSE Apply(r, [processProblems(r.ctl, r.problems) EXCEPT !.conf.vs = {vsNew}], The(r.changes))
      Rejected(r) == IF valid THEN r ELSE Reject(r, VSKey)
  IN Given(Rejected(rebuildHosts(c, [c.conf EXCEPT !.vs = IF valid THEN {vsNew} ELSE None], order)), Report)

processVSWeightChangesDynamicReload(ev, order) ==
  LET Upsert(h, updates) ==
        IF h.deleted THEN Left(h.ctl, None, << >>)
        ELSE Left(h.ctl, running, IF h.halt THEN kv ELSE UpsertSplitClientsKeyVal(kv, running, updates))
      Process(updates) ==
        IF updates = << >> THEN Left(ctl, running, kv)
        ELSE IF ev.status = "Invalid" THEN Left(AddSyncQueue(ctl, Task("vs", VSKey)), running, kv)
        ELSE Given(haltIfVSConfigInvalid(ctl, ev.new, ValidateVirtualServer(vsv, ev.new), order),
                   LAMBDA h : Upsert(h, updates))
  IN Process(WeightUpdates(ev.old.routes, ev.new.routes))

\* NGINX tests the new configuration; only when it is loaded the weights are set.
addOrUpdateVirtualServer(c, b, run, zones) ==
  LET Load(cfg) ==
        IF NginxAccepts(cfg)
        THEN Left(updateVirtualServerStatusAndEvents(c, b, FALSE), {[of |-> b, cfg |-> cfg]},
                  UpsertSplitClientsKeyVal(zones, {[of |-> b, cfg |-> cfg]}, cfg.twoWay))
        ELSE Left(updateVirtualServerStatusAndEvents(c, b, TRUE), run, zones)
  IN Given(GenerateVirtualServerConfig(vsv, params, b.vs, b.vsrs, b.col), Load)

processDelete(c, b, error) ==
  Left(UpdateVirtualServerStatusAndEventsOnDelete(c, b, error), None, << >>)

processChanges(c, changes, error, run, zones) ==
  IF changes = {} THEN Left(c, run, zones)
  ELSE LET change == The(changes)
       IN IF change.op = "AddOrUpdate" THEN addOrUpdateVirtualServer(c, change.of, run, zones)
          ELSE processDelete(c, change.of, error)

haltIfVSRConfigInvalid(c, key, vsrNew, valid, order) ==
  LET Report(r) ==
        IF \A change \in r.changes : change.op = "Delete" THEN [ctl |-> r.ctl, of |-> None]
        ELSE LET b == The(r.changes).of
             IN [ctl |-> updateVirtualServerStatusAndEvents(r.ctl, b, FALSE), of |-> {b}]
  IN IF ~valid THEN [ctl |-> AddSyncQueue(c, Task("vsr", key)), of |-> None]
     ELSE Given(rebuildHosts(c, [c.conf EXCEPT !.vsrs = (key :> vsrNew) @@ @], order), Report)

\* A VirtualServerRoute that was rejected is handled right here, like the worker would.
processVSRWeightChangesDynamicReload(ev, valid, order) ==
  LET Sync(r) == processChanges(processProblems(r.ctl, r.problems), r.changes, FALSE, running, kv)
      Updates(b) == WeightUpdatesVSR(ev.old.subroutes, ev.new.subroutes,
                                     getStartingSplitClientsIndex(ev.key, b))
      Upsert(h) == Left(h.ctl, running,
                        IF h.of = None THEN kv
                        ELSE UpsertSplitClientsKeyVal(kv, running, Updates(The(h.of))))
  IN IF ~vsrHasWeightChanges(ev.old.subroutes, ev.new.subroutes) THEN Left(ctl, running, kv)
     ELSE IF ev.status = "Invalid"
     THEN Given(AddOrUpdateVirtualServerRoute(ctl, ev.key, ev.new, valid, order), Sync)
     ELSE Given(haltIfVSRConfigInvalid(ctl, ev.key, ev.new, valid, order), Upsert)

-----------------------------------------------------------------------------
(* Steps.                                                                    *)

Idle == work = None /\ ctl.queue = << >>
Quiet == Idle /\ \A i \in DOMAIN pending : pending[i] = << >>

WithGen(o, g) == [gen |-> g] @@ o

Init ==
  /\ workload \in Workloads
  /\ edits = 0
  /\ store = [vs |-> {WithGen(workload.first, 1)}, vsrs |-> [k \in DOMAIN workload.routes |->
                WithGen(workload.routes[k], 1)]]
  /\ pending = [vs |-> << >>, vsr |-> << >>]
  /\ work = None
  /\ ctl = [queue |-> [i \in 1..Cardinality(DOMAIN store.vsrs) |-> Task("vsr", SetToSeq(DOMAIN store.vsrs)[i])]
                        \o <<Task("vs", VSKey)>>,
            conf |-> [vs |-> None, vsrs |-> << >>], built |-> None, problems |-> {}, status |-> << >>]
  /\ running = None
  /\ kv = << >>
  /\ lost = {}

StatusOf(k) == IF k \in DOMAIN ctl.status THEN ctl.status[k] ELSE ""

\* The generation counts the changes of the spec, not those of the labels.
Revised(old, new) ==
  IF Without(Without(old, "gen"), "labels") = Without(new, "labels") THEN WithGen(new, old.gen)
  ELSE WithGen(new, old.gen + 1)

Event(kind, key, old, new) == [kind |-> kind, key |-> key, old |-> old, new |-> new, status |-> StatusOf(key)]
Absent == [gen |-> 0]

EditVirtualServer ==
  /\ edits < MaxEdits
  /\ edits' = edits + 1
  /\ \E old \in store.vs, o \in workload.vs :
       /\ Without(old, "gen") # o
       /\ store' = [store EXCEPT !.vs = {Revised(old, o)}]
       /\ pending' = [pending EXCEPT !.vs = Append(@, Event("update", VSKey, old, Revised(old, o)))]
  /\ UNCHANGED <<workload, work, ctl, running, kv, lost>>

\* A removed resource is put back with another of its versions.
RemoveVirtualServer ==
  /\ edits < MaxEdits /\ workload.removes
  /\ edits' = edits + 1
  /\ IF store.vs # None
     THEN /\ store' = [store EXCEPT !.vs = None]
          /\ pending' = [pending EXCEPT !.vs = Append(@, Event("delete", VSKey, Absent, Absent))]
     ELSE \E o \in workload.vs :
          /\ store' = [store EXCEPT !.vs = {WithGen(o, 1)}]
          /\ pending' = [pending EXCEPT !.vs = Append(@, Event("add", VSKey, Absent, Absent))]
  /\ UNCHANGED <<workload, work, ctl, running, kv, lost>>

EditVirtualServerRoute ==
  /\ edits < MaxEdits
  /\ edits' = edits + 1
  /\ \E k \in DOMAIN store.vsrs : \E o \in workload.vsrs[k] :
       LET old == store.vsrs[k] IN
       /\ Without(old, "gen") # o
       /\ store' = [store EXCEPT !.vsrs[k] = Revised(old, o)]
       /\ pending' = [pending EXCEPT !.vsr = Append(@, Event("update", k, old, Revised(old, o)))]
  /\ UNCHANGED <<workload, work, ctl, running, kv, lost>>

RemoveVirtualServerRoute ==
  /\ edits < MaxEdits /\ workload.removes
  /\ edits' = edits + 1
  /\ \E k \in DOMAIN workload.vsrs :
       IF k \in DOMAIN store.vsrs
       THEN /\ store' = [store EXCEPT !.vsrs = Without(@, k)]
            /\ pending' = [pending EXCEPT !.vsr = Append(@, Event("delete", k, Absent, Absent))]
       ELSE \E o \in workload.vsrs[k] :
            /\ store' = [store EXCEPT !.vsrs = (k :> WithGen(o, 1)) @@ @]
            /\ pending' = [pending EXCEPT !.vsr = Append(@, Event("add", k, Absent, Absent))]
  /\ UNCHANGED <<workload, work, ctl, running, kv, lost>>

OnlyWeights(kind, ev) ==
  /\ ev.kind = "update" /\ params.weightChangesDynamicReload
  /\ IgnoringWeights(kind, ev.old) = IgnoringWeights(kind, ev.new)

Enqueued(kind, ev) ==
  IF ev.kind = "update" /\ Without(ev.old, "gen") = Without(ev.new, "gen") THEN ctl
  ELSE AddSyncQueue(ctl, Task(kind, ev.key))

When(condition, gap) == IF condition THEN {gap} ELSE {}

\* The gaps of the handling of weights: the worker is busy, other routes are configured than
\* run or none run, labels changed, or the index of a later split is off.
WeightGaps(kind, ev, out) ==
  IF ~OnlyWeights(kind, ev) THEN {}
  ELSE When(~Idle, "busy")
         \cup When(\A r \in running, b \in out.ctl.built : r.of.col.vsrs # b.col.vsrs, "differ")
         \cup When(kind = "vsr" /\ ev.old.labels # ev.new.labels, "labels")
         \cup When(kind = "vs" /\ Len(WeightUpdates(ev.old.routes, ev.new.routes)) > 1, "splits")

\* A resource that is created again before its deletion was synced has the same generation.
RecreateGap(kind, ev) ==
  When(ev.kind = "add" /\ IF kind = "vs" THEN ctl.conf.vs # None ELSE ev.key \in DOMAIN ctl.conf.vsrs,
       "recreated")

Handle(kind, ev, result) == \E out \in {result} :
  /\ ctl' = out.ctl /\ running' = out.running /\ kv' = out.kv
  /\ pending' = [pending EXCEPT ![kind] = Tail(@)]
  /\ lost' = lost \cup RecreateGap(kind, ev) \cup WeightGaps(kind, ev, out)
  /\ UNCHANGED <<workload, edits, store, work>>

HandleVirtualServer ==
  /\ pending.vs # << >>
  /\ LET ev == Head(pending.vs) IN
       IF OnlyWeights("vs", ev)
       THEN \E order \in Orders(ctl.conf.vsrs) :
              Handle("vs", ev, processVSWeightChangesDynamicReload(ev, order))
       ELSE Handle("vs", ev, Left(Enqueued("vs", ev), running, kv))

HandleVirtualServerRoute ==
  /\ pending.vsr # << >>
  /\ LET ev == Head(pending.vsr) IN
       IF OnlyWeights("vsr", ev)
       THEN \E order \in Orders((ev.key :> ev.new) @@ ctl.conf.vsrs) :
              Handle("vsr", ev, processVSRWeightChangesDynamicReload(ev,
                                  ValidateVirtualServerRoute(vsv, ev.new), order))
       ELSE Handle("vsr", ev, Left(Enqueued("vsr", ev), running, kv))

Popped == [ctl EXCEPT !.queue = Tail(@)]

\* The Configuration is updated under its lock; the changes are applied after.
Take(result, error) == \E r \in {result} :
  /\ ctl' = r.ctl
  /\ work' = {[changes |-> r.changes, problems |-> r.problems, error |-> error]}
  /\ UNCHANGED <<workload, edits, store, pending, running, kv, lost>>

syncVirtualServer ==
  /\ work = None /\ ctl.queue # << >> /\ Head(ctl.queue).kind = "vs"
  /\ \E order \in Orders(ctl.conf.vsrs) :
       IF store.vs = None THEN Take(DeleteVirtualServer(Popped, order), FALSE)
       ELSE Take(AddOrUpdateVirtualServer(Popped, The(store.vs),
                                          ValidateVirtualServer(vsv, The(store.vs)), order), TRUE)

syncVirtualServerRoute ==
  /\ work = None /\ ctl.queue # << >> /\ Head(ctl.queue).kind = "vsr"
  /\ LET key == Head(ctl.queue).key IN
       IF key \notin DOMAIN store.vsrs
       THEN \E order \in Orders(ctl.conf.vsrs) : Take(DeleteVirtualServerRoute(Popped, key, order), FALSE)
       ELSE \E order \in Orders((key :> store.vsrs[key]) @@ ctl.conf.vsrs) :
              Take(AddOrUpdateVirtualServerRoute(Popped, key, store.vsrs[key],
                     ValidateVirtualServerRoute(vsv, store.vsrs[key]), order), FALSE)

ApplyChanges ==
  /\ work # None
  /\ \E w \in work : \E out \in {processChanges(ctl, w.changes, w.error, running, kv)} :
       /\ ctl' = processProblems(out.ctl, w.problems)
       /\ running' = out.running
       /\ kv' = out.kv
  /\ work' = None
  /\ UNCHANGED <<workload, edits, store, pending, lost>>

Next ==
  \/ EditVirtualServer \/ RemoveVirtualServer
  \/ EditVirtualServerRoute \/ RemoveVirtualServerRoute
  \/ HandleVirtualServer \/ HandleVirtualServerRoute
  \/ syncVirtualServer \/ syncVirtualServerRoute \/ ApplyChanges

Spec == Init /\ [][Next]_vars

-----------------------------------------------------------------------------
(* Properties.                                                               *)

\* The routes of a configuration with the owner of their upstreams.
RoutesOf(b) ==
  {[owner |-> NoOwner, route |-> r]
     : r \in {r \in Range(b.vs.routes) : r.route = None /\ r.routeSelector = None}}
    \cup UNION {{[owner |-> k, route |-> r] : r \in Range(b.vsrs[k].subroutes)} : k \in DOMAIN b.vsrs}

\* The routes that lead to a VirtualServerRoute and have error pages.
Parents(b, key) == {r \in Range(b.vs.routes) : r.errorPages # << >> /\ key \in Referenced(b.col, b.vs, r)}

PagesOf(b, x) ==
  IF x.owner = NoOwner \/ x.route.errorPages # << >> \/ Parents(b, x.owner) = {} THEN x.route.errorPages
  ELSE (CHOOSE r \in Parents(b, x.owner) : TRUE).errorPages

\* Where the configuration is known to do something else: the rewritten URI is lost in
\* an internal location of a path with a modifier, and for gRPC in any other location of a
\* plain path; and of several routes with error pages the last one counts.
ActionsOf(x) ==
  {[internal |-> x.matches # << >>, action |-> a] : a \in x.action}
    \cup {[internal |-> TRUE, action |-> a] : a \in
            {s.action : s \in Range(x.splits)}
              \cup UNION {m.action \cup {s.action : s \in Range(m.splits)} : m \in Range(x.matches)}}
RewriteLost(b, x) ==
  \E a \in ActionsOf(x.route) : \E p \in a.action.proxy :
    /\ p.rewritePath.text # ""
    /\ x.route.path.mod \notin {"~", "~*"}
    /\ IF a.internal THEN x.route.path.mod # ""
       ELSE isGRPC(UpstreamsByName(b.col, b.vs, b.vsrs)[GetNameForUpstream(x.owner, p.upstream)])
Known(b, x) == RewriteLost(b, x) \/ (x.owner # NoOwner /\ Cardinality(Parents(b, x.owner)) > 1)

Follows(r, weights, b, x) ==
  \A vals \in Requests(x.route) :
    Serve(r.cfg, weights, generatePath(x.route.path), vals)
      = Wanted(x.owner, PagesOf(b, x), x.route, vals)

WrittenWeights(cfg) ==
  [i \in {t.index : t \in Range(cfg.twoWay)} |-> (CHOOSE t \in Range(cfg.twoWay) : t.index = i).weights]

\* RoutesFollowSpec: with the weights it was generated for, the configuration that runs does
\* with every request what the routes it was generated from say, the first match that holds,
\* else the splits or the action, with the error pages of the route or of the one above it
\* (generateMatchesConfig, generateSplits, generateLocation and the indices that tie maps,
\* split clients, return and error page locations together).
RoutesFollowSpec ==
  \A r \in running : \A x \in RoutesOf(r.of) :
    Known(r.of, x) \/ Follows(r, WrittenWeights(r.cfg), r.of, x)

\* RewritesHonoured: the same without the exception for rewrites: rewritePath is the URI the
\* upstream gets, whatever the modifier of the path (generateRewrites).
RewritesHonoured ==
  \A r \in running : \A x \in RoutesOf(r.of) : Follows(r, WrittenWeights(r.cfg), r.of, x)

\* Where an accepted resource is known to be refused by NGINX: a backup with the default
\* method; a path both in the VirtualServer and in one of its VirtualServerRoutes; sizes that
\* are left as they are and do not fit, because auto-adjust is off, the default ("leave it
\* broken!"), or because the upstream has no buffers, only the sizes beside them; and sizes
\* that are balanced and then written in gigabytes or as zero, which NGINX does not read.
Upstreams(b) == Range(b.vs.upstreams) \cup UNION {Range(b.vsrs[k].upstreams) : k \in DOMAIN b.vsrs}
DefaultMethodWithBackup(b) ==
  params.lb \in RandomMethods /\ \E u \in Upstreams(b) : u.backup # "" /\ u.lb = ""
SharedPath(b) ==
  \E x, y \in RoutesOf(b) : /\ x.owner = NoOwner /\ y.owner # NoOwner
                             /\ NormalizePath(x.route.path) = NormalizePath(y.route.path)

LeftAsItIs(u) ==
  \/ ~vsv.isDirectiveAutoadjustEnabled
  \/ u.buffers = NoBuffers /\ (u.bufferSize # NoSize \/ u.busySize # NoSize)
Unreadable(v) ==
  \/ "g" \in {v.buffers.size.unit, v.bufferSize.unit, v.busySize.unit}
  \/ v.buffers # NoBuffers /\ v.buffers.size.n = 0
BuffersBroken(b) ==
  \E u \in Upstreams(b) :
    LET v == [buffers |-> generateBuffers(u.buffers, params.buffers),
              bufferSize |-> generateString(u.bufferSize, params.bufferSize),
              busySize |-> generateString(u.busySize, params.busySize)]
    IN IF LeftAsItIs(u) THEN ~ProxyBuffersFit(v) ELSE Unreadable(v)

\* AcceptedLoads: NGINX accepts the configuration of every VirtualServer that passed
\* validation, with the VirtualServerRoutes that were collected for it, but for the cases above:
\* nothing is defined twice or missing, the split weights and the parameters of the upstreams
\* go together, and so do the sizes of the proxy buffers that were balanced, in the upstream or
\* in the ConfigMap (ValidateVirtualServer, buildVirtualServerRoutes, BalanceProxyValues and
\* GenerateVirtualServerConfig).
AcceptedLoads ==
  \A w \in work : \A c \in w.changes :
    c.op = "AddOrUpdate" /\ ~DefaultMethodWithBackup(c.of) /\ ~SharedPath(c.of) /\ ~BuffersBroken(c.of)
      => NginxAccepts(GenerateVirtualServerConfig(vsv, params, c.of.vs, c.of.vsrs, c.of.col))

\* BalancedLoads: with auto-adjust the proxy buffers of every location fit
\* (BalanceProxiesForUpstreams, BalanceProxyValues).
BalancedLoads ==
  \A w \in work : \A c \in w.changes :
    c.op = "AddOrUpdate" /\ vsv.isDirectiveAutoadjustEnabled =>
      \A l \in Range(GenerateVirtualServerConfig(vsv, params, c.of.vs, c.of.vsrs, c.of.col).locations) :
        ProxyBuffersFit(l)

\* BackupsLoad: the same for a backup with the default load balancing method (validateBackup).
BackupsLoad ==
  \A w \in work : \A c \in w.changes : c.op = "AddOrUpdate" =>
    NginxAccepts(GenerateVirtualServerConfig(vsv, params, c.of.vs, c.of.vsrs, c.of.col))

\* The valid resources among those in the listers.
Accepted ==
  [vs |-> {BalanceUpstreamProxies(vsv, vs) : vs \in {vs \in store.vs : ValidateVirtualServer(vsv, vs)}},
   vsrs |-> [k \in {k \in DOMAIN store.vsrs : ValidateVirtualServerRoute(vsv, store.vsrs[k])} |->
               BalanceUpstreamProxies(vsv, store.vsrs[k])]]

\* The configuration they would get, were they synced anew, has the same routes.
Current(b, conf) ==
  \E order \in Orders(conf.vsrs) : \E f \in buildHosts(conf, order) : RoutesOf(f) = RoutesOf(b)

\* WeightsInForce: once every event is handled, requests are divided by the weights of the
\* resources, whether they came with a reload or through the API, and the rest of the routes
\* is current as well, unless a change of weights met one of the gaps
\* (processVSWeightChangesDynamicReload, processVSRWeightChangesDynamicReload,
\* getStartingSplitClientsIndex, AddOrUpdateVirtualServer).
InForceFor(conf) ==
  IF conf.vs = None THEN running = None
  ELSE StatusOf(VSKey) = "Invalid" \/
       \E r \in running, b \in ctl.built :
         /\ Current(b, conf)
         /\ \A x \in RoutesOf(b) : Known(b, x) \/ Follows(r, kv, b, x)
InForce == Quiet => InForceFor(Accepted)
WeightsInForce == lost = {} => InForce

\* WeightsAlwaysInForce: the same when one change of a VirtualServer has new weights for several
\* of its splits and no other gap is met: each split client is counted once
\* (processVSWeightChangesDynamicReload).
WeightsAlwaysInForce == lost \subseteq {"splits"} => InForce
=============================================================================
