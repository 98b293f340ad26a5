----------------------------- MODULE AppProtect ------------------------------
(***************************************************************************)
(* App Protect WAF and DoS resources change under the Ingresses and          *)
(* VirtualServers that use them (internal/k8s/appprotect_waf.go and          *)
(* appprotect_dos.go, the Configurator's App Protect operations).  Each sync *)
(* updates the in-memory configurations, regenerates the resources that are  *)
(* affected, writes and deletes the App Protect files and reloads NGINX.     *)
(*                                                                           *)
(* A key is <<namespace, name>>; a file is <<kind, key>> and holds the       *)
(* object it was written from.  The state of the controller is one record:   *)
(*   ap, dos  the two in-memory configurations                               *)
(*   known    the resources in the Configuration, an id |-> resource         *)
(*   files    the App Protect files                                          *)
(*   confs    the config file of each resource: the App Protect files it     *)
(*            names, and whether it answers with an error instead            *)
(*   loaded   confs and files as of the last successful reload               *)
(*   batch    reloads are disabled while the queue holds several tasks       *)
(*   ready    the queue has been drained once; until then the resources are  *)
(*            only stored and nothing finds them                             *)
(***************************************************************************)
EXTENDS AppProtectDosConfiguration, SequencesExt

CONSTANTS Workloads

VARIABLES
  workload,
  api,      \* <<kind, key>> |-> object, and <<"resource", id>> |-> resource: the listers
  queue,
  sys,
  stray,    \* a deletion of a signature was synced that the controller did not know
  changes   \* made through the API, at most workload.maxChanges

vars == <<workload, api, queue, sys, stray, changes>>

-----------------------------------------------------------------------------
(* What a resource uses.  A resource is [via, policy, logs, dos]: it names   *)
(* its policy and log configurations through a WAF Policy or in annotations. *)

Refs(r) ==
  (IF r.policy = NoRef THEN {} ELSE {<<"policy", r.policy>>})
    \cup {<<"logConf", r.logs[i]>> : i \in DOMAIN r.logs}
    \cup (IF r.dos = NoRef THEN {} ELSE {<<"protected", r.dos>>})

FindResources(s, f) == {id \in DOMAIN s.known : f \in Refs(s.known[id])}

\* addWAFPolicyRefs stops at the first reference that is missing.
addWAFPolicyRefs(s, r) ==
  LET found == {i \in DOMAIN r.logs : \A j \in 1..i : HasLogConf(s.ap, r.logs[j])}
  IN IF r.policy # NoRef /\ ~HasPolicy(s.ap, r.policy) THEN {}
     ELSE Refs([r EXCEPT !.dos = NoRef, !.logs = SubSeq(r.logs, 1, Cardinality(found))])

\* getAppProtectPolicy and getAppProtectLogConfAndDst: the policy if it is valid, the log
\* configurations if all of them are.
AnnotationRefs(s, r) ==
  Refs([r EXCEPT !.dos = NoRef,
        !.policy = IF r.policy # NoRef /\ HasPolicy(s.ap, r.policy) THEN r.policy ELSE NoRef,
        !.logs = IF \A i \in DOMAIN r.logs : HasLogConf(s.ap, r.logs[i]) THEN r.logs ELSE << >>])

\* The files of the protected resource: its allow list, policy and log configuration.
DosFiles(s, r) ==
  IF r.dos = NoRef \/ ~HasDosEx(s.dos, r.dos) THEN {}
  ELSE LET p == s.dos.protected[r.dos].obj
       IN {<<"allowList", r.dos>>}
            \cup (IF p.policy = NoRef THEN {} ELSE {<<"dosPolicy", p.policy>>})
            \cup (IF p.logConf = NoRef THEN {} ELSE {<<"dosLogConf", p.logConf>>})

WAFFiles(s, r) == IF r.via = "policy" THEN addWAFPolicyRefs(s, r) ELSE AnnotationRefs(s, r)

\* With a WAF Policy that has a missing reference the resource answers with an error.
ConfOf(s, r) ==
  LET error == r.via = "policy" /\ WAFFiles(s, r) # Refs([r EXCEPT !.dos = NoRef])
  IN [files |-> DosFiles(s, r) \cup (IF error THEN {} ELSE WAFFiles(s, r)), error |-> error]

Content(s, f) ==
  CASE f[1] = "policy" -> s.ap.policies[f[2]].obj
    [] f[1] = "logConf" -> s.ap.logConfs[f[2]].obj
    [] f[1] = "userSig" -> s.ap.userSigs[f[2]].obj
    [] f[1] = "dosPolicy" -> s.dos.policies[f[2]].obj
    [] f[1] = "dosLogConf" -> s.dos.logConfs[f[2]].obj
    [] f[1] = "allowList" -> s.dos.protected[f[2]].obj

-----------------------------------------------------------------------------
(* The Configurator and NGINX.  An operation returns the state and whether   *)
(* there was an error.                                                       *)

Ok(s) == [s |-> s, err |-> FALSE]
Failed(s) == [s |-> s, err |-> TRUE]

\* nginx -t: the files that are named have to be there.
Accepts(s) == \A id \in DOMAIN s.confs : s.confs[id].files \subseteq DOMAIN s.files

WriteFiles(s, fs) ==
  [s EXCEPT !.files = [f \in DOMAIN s.files \cup fs |-> IF f \in fs THEN Content(s, f) ELSE s.files[f]]]

DeleteFile(s, f) == [s EXCEPT !.files = Without(@, f)]

Reload(s) ==
  IF s.batch THEN Ok(s)
  ELSE IF Accepts(s) THEN Ok([s EXCEPT !.loaded = [confs |-> s.confs, files |-> s.files]])
  ELSE Failed(s)

\* updateApResources, updateDosResource and CreateConfig; the rollback manager tests the
\* tree and puts the old file back.
writeResource(s, id) ==
  LET r == s.known[id]
      written == WriteFiles(s, WAFFiles(s, r) \cup DosFiles(s, r))
      new == [written EXCEPT !.confs = Put(@, id, ConfOf(s, r))]
  IN IF workload.rollback /\ ~Accepts(new) THEN Failed(written) ELSE Ok(new)

\* The resources are written in order, up to the first error.
addOrUpdateIngressesAndVirtualServers(s, ids) ==
  LET step(acc, id) == IF acc.err \/ id \notin ids THEN acc ELSE writeResource(acc.s, id)
  IN FoldLeft(step, Ok(s), [id \in DOMAIN workload.resources |-> id])

AddOrUpdateAppProtectResource(s, ids) ==
  LET w == addOrUpdateIngressesAndVirtualServers(s, ids)
  IN IF w.err THEN w ELSE Reload(w.s)

\* DeleteAppProtectPolicy and DeleteAppProtectLogConf; the file goes even after an error.
DeleteAppProtectResource(s, f, ids) ==
  DeleteFile(IF ids = {} THEN s ELSE AddOrUpdateAppProtectResource(s, ids).s, f)

\* The files of the policies that became invalid stay: they are named by their keys.  An
\* error leaves the signatures alone.
RefreshAppProtectUserSigs(s, sigs, ids) ==
  LET w == addOrUpdateIngressesAndVirtualServers(s, ids)
      others == {f \in DOMAIN w.s.files : f[1] # "userSig"}
      cleared == [w.s EXCEPT !.files = [f \in others |-> w.s.files[f]]]
  IN IF w.err THEN w.s ELSE Reload(WriteFiles(cleared, {<<"userSig", k>> : k \in sigs})).s

-----------------------------------------------------------------------------
(* Changes are applied one at a time.                                        *)

processAppProtectChange(s, c) ==
  LET f == <<c.kind, c.key>>
      ids == FindResources(s, f)
  IN IF c.op = "addOrUpdate" THEN AddOrUpdateAppProtectResource(s, ids).s
     ELSE DeleteAppProtectResource(s, f, ids)

processAppProtectChanges(s, cs) == FoldLeft(processAppProtectChange, s, cs)

\* Only the resources of the policies that became valid are written again.
processAppProtectUserSigChange_bug(s, u) ==
  RefreshAppProtectUserSigs(s, u.userSigs, UNION {FindResources(s, <<"policy", k>>) : k \in u.adds})

processAppProtectUserSigChange(s, u) ==
  RefreshAppProtectUserSigs(s, u.userSigs,
    UNION {FindResources(s, <<"policy", k>>) : k \in u.adds \cup u.dels})

\* A policy or log configuration has no resources of its own; that of a protected resource
\* is followed by its change.
processAppProtectDosChange(s, c) ==
  CASE c.kind = "protected" ->
         AddOrUpdateAppProtectResource(s, FindResources(s, <<c.kind, c.key>>)).s
    [] c.kind # "protected" /\ c.op = "delete" -> DeleteFile(s, <<c.kind, c.key>>)
    [] c.kind # "protected" /\ c.op = "addOrUpdate" -> s

processAppProtectDosChanges(s, cs) == FoldLeft(processAppProtectDosChange, s, cs)

-----------------------------------------------------------------------------
(* The syncs.  An object is added or updated, or else deleted.               *)

Exists(t) == t \in DOMAIN api

\* syncAppProtectPolicy and syncAppProtectLogConf.
syncAppProtect(s, t, exists) ==
  LET c == CASE t[1] = "policy" /\ exists -> AddOrUpdatePolicy(s.ap, t[2], api[t])
             [] t[1] = "policy" /\ ~exists -> DeletePolicy(s.ap, t[2])
             [] t[1] = "logConf" /\ exists -> AddOrUpdateLogConf(s.ap, t[2], api[t])
             [] t[1] = "logConf" /\ ~exists -> DeleteLogConf(s.ap, t[2])
  IN processAppProtectChanges([s EXCEPT !.ap = c.ap], c.changes)

syncAppProtectUserSig(s, t, exists) ==
  LET u == IF exists THEN AddOrUpdateUserSig(s.ap, t[2], api[t]) ELSE DeleteUserSig(s.ap, t[2])
  IN processAppProtectUserSigChange([s EXCEPT !.ap = u.ap], u)

\* syncAppProtectDosPolicy, syncAppProtectDosLogConf and syncDosProtectedResource.
syncAppProtectDos(s, t, exists, order) ==
  LET c == CASE t[1] = "dosPolicy" /\ exists -> AddOrUpdateDosPolicy(s.dos, t[2], api[t], order)
             [] t[1] = "dosPolicy" /\ ~exists -> DeleteDosPolicy(s.dos, t[2], order)
             [] t[1] = "dosLogConf" /\ exists -> AddOrUpdateDosLogConf(s.dos, t[2], api[t], order)
             [] t[1] = "dosLogConf" /\ ~exists -> DeleteDosLogConf(s.dos, t[2], order)
             [] t[1] = "protected" /\ exists -> AddOrUpdateDosProtectedResource(s.dos, t[2], api[t])
             [] t[1] = "protected" /\ ~exists -> DeleteProtectedResource(s.dos, t[2])
  IN processAppProtectDosChanges([s EXCEPT !.dos = c.dos], c.changes)

syncObject(s, t, exists, order) ==
  CASE t[1] \in {"policy", "logConf"} -> syncAppProtect(s, t, exists)
    [] t[1] = "userSig" -> syncAppProtectUserSig(s, t, exists)
    [] t[1] \in {"dosPolicy", "dosLogConf", "protected"} -> syncAppProtectDos(s, t, exists, order)

\* syncIngress and syncVirtualServer: the resource is written, or its file deleted; during
\* startup that waits until the queue is empty.
syncResource(s, t) ==
  LET added == [s EXCEPT !.known = Put(@, t[2], api[t])]
      deleted == [s EXCEPT !.known = Without(@, t[2]), !.confs = Without(@, t[2])]
  IN IF ~s.ready THEN s
     ELSE IF Exists(t) THEN AddOrUpdateAppProtectResource(added, {t[2]}).s
     ELSE IF t[2] \in DOMAIN s.known THEN Reload(deleted).s
     ELSE s

ObjectsIn(ns, kind) == SetToSeq({t \in DOMAIN api : t[1] = kind /\ t[2][1] = ns})

\* cleanupUnwatchedAppWafResources and cleanupUnwatchedAppDosResources delete every object of
\* the namespace, kind by kind.
UnwatchedWaf(ns) == ObjectsIn(ns, "policy") \o ObjectsIn(ns, "logConf") \o ObjectsIn(ns, "userSig")
UnwatchedDos(ns) ==
  ObjectsIn(ns, "dosPolicy") \o ObjectsIn(ns, "protected") \o ObjectsIn(ns, "dosLogConf")

cleanupUnwatched(s, ns, order) ==
  LET delete(acc, t) == syncObject(acc, t, FALSE, order)
  IN FoldLeft(delete, s, UnwatchedWaf(ns) \o UnwatchedDos(ns))

-----------------------------------------------------------------------------
NamespaceOf(t) ==
  CASE t[1] = "resource" -> "none" [] t[1] = "namespace" -> t[2] [] OTHER -> t[2][1]

Enqueue(q, t) == IF Contains(q, t) THEN q ELSE Append(q, t)

\* The orders of the map of the protected resources.
Orders == {o \in [1..Cardinality(DOMAIN sys.dos.protected) -> DOMAIN sys.dos.protected] :
             \A i, j \in DOMAIN o : o[i] = o[j] => i = j}

Synced(s, t, order) ==
  CASE t[1] = "resource" -> syncResource(s, t)
    [] t[1] = "namespace" -> cleanupUnwatched(s, t[2], order)
    [] OTHER -> syncObject(s, t, Exists(t), order)

\* The queue is empty: the end of startup (CompleteStartup, updateAllConfigs) or of a batch.
Drained(s) ==
  LET ids == {t[2] : t \in {x \in DOMAIN api : x[1] = "resource"}}
      found == [s EXCEPT !.known = [id \in ids |-> api[<<"resource", id>>]],
                         !.ready = TRUE, !.batch = FALSE]
  IN IF ~s.ready THEN AddOrUpdateAppProtectResource(found, ids).s
     ELSE IF s.batch THEN Reload([s EXCEPT !.batch = FALSE]).s
     ELSE s

\* A batch starts when another task waits and ends, with a reload, when none does.
sync ==
  /\ queue # << >>
  /\ LET t == Head(queue)
         rest == Tail(queue)
     IN \E order \in Orders :
          LET begun == [sys EXCEPT !.batch = @ \/ Len(rest) > 1]
              done == Synced(begun, t, order)
          IN /\ sys' = IF rest = << >> THEN Drained(done) ELSE done
             /\ stray' = (stray \/ (/\ t[1] = "userSig" /\ ~Exists(t)
                                    /\ t[2] \notin DOMAIN sys.ap.userSigs))
             /\ queue' = rest
             /\ api' = IF t[1] = "namespace"
                       THEN [x \in {y \in DOMAIN api : NamespaceOf(y) # t[2]} |-> api[x]]
                       ELSE api
  /\ UNCHANGED <<workload, changes>>

\* An object is created, updated or deleted; nothing is heard of a namespace once it is
\* not watched.
ChangeObject(kinds) ==
  /\ changes < workload.maxChanges
  /\ \E t \in DOMAIN workload.objects :
       /\ t[1] \in kinds
       /\ ~Contains(queue, <<"namespace", NamespaceOf(t)>>)
       /\ \/ \E o \in workload.objects[t] :
               /\ Exists(t) => api[t] # o
               /\ api' = Put(api, t, o)
          \/ Exists(t) /\ api' = Without(api, t)
       /\ queue' = Enqueue(queue, t)
  /\ changes' = changes + 1
  /\ UNCHANGED <<workload, sys, stray>>

ChangeResource == ChangeObject({"resource"})
ChangeWAF == ChangeObject({"policy", "logConf", "userSig"})
ChangeDos == ChangeObject({"dosPolicy", "dosLogConf", "protected"})

\* The label of a namespace is removed; it is not put back.
Unwatch ==
  /\ changes < workload.maxChanges
  /\ \E ns \in workload.unwatch :
       /\ \A i \in DOMAIN queue : NamespaceOf(queue[i]) # ns
       /\ queue' = Enqueue(queue, <<"namespace", ns>>)
  /\ changes' = workload.maxChanges
  /\ UNCHANGED <<workload, api, sys, stray>>

Init ==
  /\ workload \in Workloads
  /\ api = workload.initially
  /\ queue = workload.order
  /\ sys = [ap |-> NewConfiguration, dos |-> NewDosConfiguration, known |-> << >>,
            files |-> << >>, confs |-> << >>, batch |-> TRUE, ready |-> FALSE,
            loaded |-> [confs |-> << >>, files |-> << >>]]
  /\ stray = FALSE
  /\ changes = 0

Next == sync \/ ChangeResource \/ ChangeWAF \/ ChangeDos \/ Unwatch

Spec == Init /\ [][Next]_vars

-----------------------------------------------------------------------------
(* Properties.                                                               *)

\* The verdicts are those of a controller that reads the stored objects at once: they do not
\* depend on the order in which policies and signatures came, changed and went
\* (reconcileUserSigs and verifyPolicies only look at what may have changed).
VerdictsCanonical == Canonical(sys.ap)

\* Between two syncs every App Protect file that a config file names is there, whatever was
\* deleted, became invalid or is no longer watched: NGINX can be started again at any time.  The
\* signature files are those of the valid signatures (RefreshAppProtectUserSigs), unless the
\* deletion of a signature was synced that the controller had never seen.
NamedFilesExist ==
  /\ Accepts(sys)
  /\ ~stray => /\ {f \in DOMAIN sys.files : f[1] = "userSig"} =
                    {<<"userSig", k>> : k \in {j \in DOMAIN sys.ap.userSigs :
                                                 sys.ap.userSigs[j].verdict = Valid}}
               /\ \A f \in DOMAIN sys.files : f[1] = "userSig" => sys.files[f] = Content(sys, f)

\* When the queue is empty NGINX runs, for every resource, the config that the objects of the
\* cluster ask for, with their present contents.
CurrentWhenIdle ==
  queue = << >> =>
    /\ sys.known = [id \in {t[2] : t \in {x \in DOMAIN api : x[1] = "resource"}} |-> api[<<"resource", id>>]]
    /\ sys.loaded.confs = [id \in DOMAIN sys.known |-> ConfOf(sys, sys.known[id])]
    /\ \A id \in DOMAIN sys.known : \A f \in ConfOf(sys, sys.known[id]).files :
         /\ sys.loaded.files[f] = Content(sys, f)
         /\ f[1] # "allowList" => Exists(f) /\ api[f] = Content(sys, f)

\* A comment of the Configurator: RefreshAppProtectUserSigs "writes all valid UDS files to fs
\* and reloads NGINX".
AllSignaturesWritten ==
  {f \in DOMAIN sys.files : f[1] = "userSig"} =
    {<<"userSig", k>> : k \in {j \in DOMAIN sys.ap.userSigs : sys.ap.userSigs[j].verdict = Valid}}
=============================================================================
