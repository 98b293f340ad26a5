----------------------------- MODULE References ------------------------------
(***************************************************************************)
(* Secrets and policies change under the resources that refer to them:       *)
(* syncSecret, syncPolicy and the sync of a resource, each with the secrets  *)
(* it fetches from the store, the config files it generates and the reload   *)
(* at its end.  The contents of NGINX is what the last successful reload     *)
(* read; with -ssl-dynamic-reload the certificates are read on each request. *)
(*                                                                           *)
(* A workload is a cluster: the policies and resources there can be, the     *)
(* special secrets on the command line, and the flags.                       *)
(***************************************************************************)
EXTENDS SecretStore, Contexts

CONSTANTS
  Workloads,   \* the clusters of a run
  NoConf

VARIABLES
  workload,
  api,       \* [secrets, policies, resources]: what the listers hold
  queue,     \* the tasks of the work queue, without duplicates
  known,     \* indexes of the resources in the Configuration
  confs,     \* config file of each resource
  special,   \* the files of the special secrets
  loaded,    \* [confs, files, special] as of the last successful reload
  changes    \* made through the API, at most workload.maxChanges

vars == <<workload, api, queue, store, known, confs, special, loaded, changes>>

\* -default-server-tls-secret, -wildcard-tls-secret and those of the MGMT ConfigMap.
SpecialNames == {"default", "wildcard", "license", "client", "trusted"}

Resources == workload.resources
Ids == DOMAIN Resources

-----------------------------------------------------------------------------
(* What refers to what (reference_checkers.go, findPoliciesForSecret).       *)

\* Minions and VirtualServerRoutes are left out.
PolicyRefsOf_bug(r) ==
  CASE r.kind \in {"vs", "ing"} -> {Resolve(ref, r.ns) : ref \in Range1(r.policies)}
    [] r.kind = "ts" -> {}

PolicyRefsOf(r) ==
  CASE r.kind = "vs" -> UNION {{Resolve(l.refs[i], l.ns) : i \in DOMAIN l.refs} :
                                 l \in Range1(PolicyLists(r))}
    [] r.kind = "ing" -> UNION {{Resolve(ref, m.ns) : ref \in Range1(m.policies \o m.plus)} :
                                  m \in {r} \cup Range1(r.minions)}
    [] r.kind = "ts" -> {}

SecretsReferencedBy(r) ==
  CASE r.kind = "ing" -> KeySet(r.tls.secret)
                           \cup UNION {KeySet(m.basic) \cup KeySet(m.jwt) :
                                         m \in {r} \cup Range1(r.minions)}
    [] OTHER -> KeySet(r.tls.secret)

FindResourcesForSecret(k) == {i \in known : k \in SecretsReferencedBy(Resources[i])}
FindResourcesForPolicy(pk) == {i \in known : pk \in PolicyRefsOf(Resources[i])}

findPoliciesForSecret(k) == {p \in api.policies : p.valid /\ k \in {p.secret, p.trusted}}

-----------------------------------------------------------------------------
(* Generation (createExtendedResources and addOrUpdate... of the             *)
(* Configurator).                                                            *)

SecretRefsOf(st, r) ==
  CASE r.kind = "vs" -> VirtualServerSecretRefs(api.policies, st, r)
    [] r.kind = "ing" -> UNION {IngressSecretRefs(api.policies, st, m) :
                                  m \in {r} \cup Range1(r.minions)}
    [] r.kind = "ts" -> KeySet(r.tls.secret)

Generate(st, r) ==
  CASE r.kind = "vs" ->
         GenerateVirtualServerConfig(api.policies, st, r, workload.waf, workload.wildcard)
    [] r.kind = "ing" /\ r.minions = << >> ->
         generateNginxCfg(api.policies, st, r, workload.waf, workload.wildcard)
    [] r.kind = "ing" /\ r.minions # << >> ->
         generateNginxCfgForMergeableIngresses(api.policies, st, r, workload.waf,
                                               workload.wildcard)
    [] r.kind = "ts" -> generateTransportServerConfig(st, r)

\* addOrUpdateIngress sets the path of the secrets named by annotations, in the reference
\* that the store handed out.
SetAnnotationPaths(st, R) ==
  LET named == UNION {UNION {KeySet(m.basic) \cup KeySet(m.jwt) :
                               m \in {Resources[i]} \cup Range1(Resources[i].minions)} :
                        i \in {j \in R : Resources[j].kind = "ing"}}
  IN [st EXCEPT !.refs = [k \in Keys |->
        IF k \in named /\ @[k].secret # NoSecret
        THEN [@[k] EXCEPT !.path = << <<k, "file">> >>] ELSE @[k]]]

\* The store once everything the resources R refer to has been fetched.
Fetched(st, R) ==
  SetAnnotationPaths(GetSecrets(st, UNION {SecretRefsOf(st, Resources[i]) : i \in R}), R)

-----------------------------------------------------------------------------
(* NGINX and the manager.                                                    *)

EgressCertificates(c) ==
  UNION {e.reads : e \in {f \in Range1(c.server)
           \cup UNION {Range1(l.pols) : l \in Range1(c.locations)} : f.kind = "EgressMTLS"}}

\* Certificates: NGINX refuses a config that names a missing one, unless the path holds a
\* variable.  A missing key or password file is an error of the request.
Certificates(c) == c.ssl.reads \cup (IF c.kind = "ts" THEN {} ELSE EgressCertificates(c))

AllReads(c) ==
  c.ssl.reads
    \cup (IF c.kind = "ts" THEN {}
          ELSE UNION {e.reads : e \in Range1(c.server)
                        \cup UNION {Range1(l.pols) : l \in Range1(c.locations)}})
    \cup (IF c.kind = "ing" THEN c.annotation ELSE {})

ReadOnRequest(c, f) == workload.dynamicSSLReload /\ f[2] = "file" /\ f \in Certificates(c)

\* nginx -t on the files of the config directory and of the secrets.
Valid(cs, files) ==
  \A i \in Ids : cs[i] # NoConf =>
    \A f \in AllReads(cs[i]) :
      files[f] # NoSecret
        \/ ReadOnRequest(cs[i], f)
        \/ (f[2] = "file" /\ f \notin Certificates(cs[i]))

\* One CreateConfig: [confs, changed, error, reload].  The rollback manager tests the tree
\* with the new file in it, and puts the old one back when the tree was good with that.
CreateConfig(w, i, new, files) ==
  LET old == w.confs[i]
      written == [w.confs EXCEPT ![i] = new]
  IN IF w.error THEN w
     ELSE IF ~workload.isRollbackManager
     THEN [w EXCEPT !.confs = written, !.changed = @ \/ old # new]
     ELSE IF old = new THEN [w EXCEPT !.error = ~Valid(w.confs, files)]
     ELSE IF Valid(written, files) THEN [w EXCEPT !.confs = written, !.changed = TRUE]
     ELSE IF old # NoConf /\ Valid(w.confs, files)
     THEN [w EXCEPT !.error = TRUE, !.reload = TRUE]
     ELSE [w EXCEPT !.confs = [@ EXCEPT ![i] = NoConf], !.error = TRUE]

NoWrites(cs) == [confs |-> cs, changed |-> FALSE, error |-> FALSE, reload |-> FALSE]

\* The lists of createExtendedResources.
Listed(i) ==
  IF Resources[i].kind = "ing" /\ Resources[i].minions # << >> THEN "mergeable" ELSE Resources[i].kind

\* The files of one call of the configurator, kind by kind: the first error ends it.
Written(cs, R, st) ==
  LET listed(kind) == SelectSeq([i \in Ids |-> i], LAMBDA i : i \in R /\ Listed(i) = kind)
      write(w, i) == CreateConfig(w, i, Generate(st, Resources[i]), st.files)
  IN FoldLeft(write, NoWrites(cs),
              listed("ing") \o listed("mergeable") \o listed("vs") \o listed("ts"))

\* What is on disk and what NGINX has loaded.
Served == [confs |-> confs, loaded |-> loaded]

\* The reload that ends a call, unless a file of it was refused.
ReloadAfter(v, w, files, sp, reloadIfUnchanged) ==
  [confs |-> w.confs,
   loaded |-> IF /\ w.reload \/ (~w.error /\ (w.changed \/ reloadIfUnchanged))
                 /\ Valid(w.confs, files)
              THEN [confs |-> w.confs, files |-> files, special |-> sp] ELSE v.loaded]

AddOrUpdateResources(v, R, st, sp, reloadIfUnchanged) ==
  ReloadAfter(v, Written(v.confs, R, st), st.files, sp, reloadIfUnchanged)

\* The calls for one list, or one resource, always reload: AddOrUpdateVirtualServers,
\* AddOrUpdateIngresses, AddOrUpdateMergeableIngress, AddOrUpdateTransportServer.
AddOrUpdateListed(v, R, st) ==
  IF R = {} THEN v ELSE AddOrUpdateResources(v, R, st, special, TRUE)

Serve(v) == \E next \in {v} : confs' = next.confs /\ loaded' = next.loaded

-----------------------------------------------------------------------------
(* Special secrets.                                                          *)

NamesOf(k) == {n \in SpecialNames : workload.special[n] = k}
isSpecialSecret(k) == NamesOf(k) # {}

\* specialSecretValidation: the secret is good for every use it has.
specialSecretValidation(s) ==
  \A n \in NamesOf(s.key) :
    CASE n \in {"default", "wildcard", "client"} -> ValidateTLSSecret(s)
      [] n = "license" -> ValidateLicenseSecret(s)
      [] n = "trusted" -> ValidateCASecret(s)

\* writeSpecialSecrets.
writeSpecialSecrets(s) ==
  LET names == CASE s.type = "License" -> {"license"}
                 [] s.type = "CA" -> {"trusted"}
                 [] s.type = "TLS" -> IF "client" \in NamesOf(s.key) THEN {"client"}
                                      ELSE NamesOf(s.key)
                 [] OTHER -> {}
  IN [n \in SpecialNames |-> IF n \in names THEN s ELSE special[n]]

\* The reload of handleSpecialSecretUpdate; a switch that takes its first match.
reloadsNGINX(k) ==
  \/ ~workload.dynamicSSLReload
  \/ "license" \in NamesOf(k)
  \/ NamesOf(k) \subseteq {"client", "trusted"}

-----------------------------------------------------------------------------

\* createSecretHandlers: secrets of other types do not reach the queue.
Watched(s) == s # NoSecret /\ IsSupportedSecretType(s.type)

\* main() reads the special secrets, and exits when one of them is not valid.
SpecialAtStart(secrets) ==
  [n \in SpecialNames |->
     IF workload.special[n] = NoSecret THEN NoSecret ELSE secrets[workload.special[n]]]

StartTask == <<"start", "start">>

\* The work queue: a task that is waiting is not added again.
Enqueue(q, task) == IF Contains(q, task) THEN q ELSE Append(q, task)

\* The worker takes the oldest task.
Take(task) == queue # << >> /\ Head(queue) = task /\ queue' = Tail(queue)

Init ==
  /\ workload \in Workloads
  /\ \E secrets \in [Keys -> workload.secrets \cup {NoSecret}], P \in workload.initially :
       /\ \A k \in Keys : secrets[k] # NoSecret => secrets[k].key = k
       /\ api = [secrets |-> secrets, policies |-> P, resources |-> Ids]
       /\ special = SpecialAtStart(secrets)
       /\ \A n \in SpecialNames : workload.special[n] # NoSecret =>
            special[n] # NoSecret /\ specialSecretValidation(special[n])
  /\ StoreInit
  /\ queue = <<StartTask>>
  /\ known = {}
  /\ confs = [i \in Ids |-> NoConf]
  /\ loaded = [confs |-> confs, files |-> store.files, special |-> special]
  /\ changes = 0

SecretNamespaces == {k[1] : k \in Keys}

\* Run: preSyncSecrets, then the worker with a task for every object.  The informers come in
\* the order of a map, and the first one whose namespace has no secrets to watch ends the
\* loop.  The kinds have informers of their own, and the objects of
\* one kind may all come before those of another.
preSyncSecrets ==
  /\ queue = <<StartTask>>
  /\ \E done \in SUBSET SecretNamespaces :
       LET load(k, st) == IF k[1] \in done /\ Watched(api.secrets[k])
                          THEN AddOrUpdateSecret(st, api.secrets[k]) ELSE st
       IN /\ workload.allNamespaces => done = SecretNamespaces
          /\ store' = FoldSet(load, store, Keys)
  /\ \E order \in {<<1, 2, 3>>, <<3, 2, 1>>} :
       LET tasks == << {<<"secret", k>> : k \in {j \in Keys : Watched(api.secrets[j])}},
                       {<<"policy", PolicyKey(p)>> : p \in api.policies},
                       {<<"resource", i>> : i \in Ids} >>
           add(task, q) == Append(q, task)
       IN queue' = FoldSet(add, FoldSet(add, FoldSet(add, << >>, tasks[order[1]]), tasks[order[2]]),
                           tasks[order[3]])
  /\ UNCHANGED <<workload, api, known, confs, special, loaded, changes>>

-----------------------------------------------------------------------------
(* Changes made through the API; the handlers put a task on the queue.       *)

Change(task) ==
  /\ changes < workload.maxChanges
  /\ queue # <<StartTask>>
  /\ changes' = changes + 1
  /\ queue' = Enqueue(queue, task)
  /\ UNCHANGED <<workload, store, known, confs, special, loaded>>

\* The type of a secret cannot be changed, but the secret deleted and created again.
ChangeSecret ==
  \E k \in Keys : \E s \in {t \in workload.secrets : t.key = k} \cup {NoSecret} :
    /\ workload.secretsChange
    /\ s # api.secrets[k]
    /\ api' = [api EXCEPT !.secrets[k] = s]
    /\ Watched(s) \/ Watched(api.secrets[k])
    /\ Change(<<"secret", k>>)

ChangePolicy ==
  \E p \in workload.policies :
    /\ workload.policiesChange
    /\ api' = [api EXCEPT !.policies =
                 IF p \in @ THEN @ \ {p} ELSE {q \in @ : PolicyKey(q) # PolicyKey(p)} \cup {p}]
    /\ Change(<<"policy", PolicyKey(p)>>)

ChangeResource ==
  \E i \in Ids :
    /\ workload.resourcesChange
    /\ api' = [api EXCEPT !.resources = IF i \in @ THEN @ \ {i} ELSE @ \cup {i}]
    /\ Change(<<"resource", i>>)

-----------------------------------------------------------------------------
(* The tasks.                                                                *)

\* Secrets other than certificates are left out.
shouldForceReloadOnSecretUpdate_bug(s) == s.type = "TLS" /\ ~workload.dynamicSSLReload

\* shouldForceReloadOnSecretUpdate.
shouldForceReloadOnSecretUpdate(s) == s.type # "TLS" \/ ~workload.dynamicSSLReload

Affected(k) ==
  FindResourcesForSecret(k)
    \cup UNION {FindResourcesForPolicy(PolicyKey(p)) : p \in findPoliciesForSecret(k)}

\* syncSecret of a secret that is gone; a special secret stays on disk.
syncSecretDeleted(k) ==
  LET R == Affected(k)
      st == Fetched(DeleteSecret(store, k), R)
  IN /\ api.secrets[k] = NoSecret
     /\ store' = st
     /\ special' = special
     /\ IF R = {} THEN UNCHANGED <<confs, loaded>>
        ELSE Serve(AddOrUpdateResources(Served, R, st, special, TRUE))

\* The special use comes first, with a reload of its own before anything is generated
\* (after everything is, for the trusted certificates of the management block).
syncSecretUpdated(k) ==
  LET s == api.secrets[k]
      good == isSpecialSecret(k) /\ specialSecretValidation(s)
      sp == IF good THEN writeSpecialSecrets(s) ELSE special
      R == IF good /\ "trusted" \in NamesOf(k) THEN known ELSE Affected(k)
      st == Fetched(AddOrUpdateSecret(store, s), R)
      reload == \/ R # {} /\ shouldForceReloadOnSecretUpdate(s)
                \/ good /\ reloadsNGINX(k)
  IN /\ s # NoSecret
     /\ store' = st
     /\ special' = sp
     /\ Serve(AddOrUpdateResources(Served, R, st, sp, reload))

syncSecret ==
  \E k \in Keys :
    /\ Take(<<"secret", k>>)
    /\ syncSecretDeleted(k) \/ syncSecretUpdated(k)
    /\ UNCHANGED <<workload, api, known, changes>>

\* One call for the VirtualServers, one for the Ingresses and one for every master; a call
\* that fails does not keep the next from being made.
syncPolicy ==
  \E pk \in {PolicyKey(p) : p \in workload.policies} :
    LET R == FindResourcesForPolicy(pk)
        st == Fetched(store, R)
        listed(kind) == {i \in R : Listed(i) = kind}
        call(v, i) == AddOrUpdateListed(v, {i} \cap listed("mergeable"), st)
        lists == AddOrUpdateListed(AddOrUpdateListed(Served, listed("vs"), st), listed("ing"), st)
    IN /\ Take(<<"policy", pk>>)
       /\ store' = st
       /\ Serve(FoldLeft(call, lists, [i \in Ids |-> i]))
       /\ UNCHANGED <<workload, api, known, special, changes>>

\* A resource is added, or its config file removed.  One that was deleted and created again
\* before its task ran is equal to the one the Configuration has.
syncResource ==
  \E i \in Ids :
    /\ Take(<<"resource", i>>)
    /\ \/ /\ i \in api.resources \ known
          /\ known' = known \cup {i}
          /\ store' = Fetched(store, {i})
          /\ Serve(AddOrUpdateListed(Served, {i}, Fetched(store, {i})))
       \/ /\ i \in known \ api.resources
          /\ known' = known \ {i}
          /\ LET w == NoWrites([confs EXCEPT ![i] = NoConf])
             IN Serve(ReloadAfter(Served, w, store.files, special, TRUE))
          /\ UNCHANGED store
       \/ /\ i \in api.resources <=> i \in known
          /\ UNCHANGED <<known, store, confs, loaded>>
    /\ UNCHANGED <<workload, api, special, changes>>

Next ==
  \/ preSyncSecrets
  \/ ChangeSecret
  \/ ChangePolicy
  \/ ChangeResource
  \/ syncSecret
  \/ syncPolicy
  \/ syncResource

Spec == Init /\ [][Next]_vars

-----------------------------------------------------------------------------
(* Properties.                                                               *)

Confs == {confs[i] : i \in known} \ {NoConf}
Idle == queue = << >>

\* Once the queue is empty, every secret the controller watches is in the store, and every
\* config file is the one that the secrets and policies of the cluster call for: no update of
\* a secret or a policy is lost on a resource that depends on it, however the tasks are
\* ordered and wherever the loop of preSyncSecrets ended (syncSecret, findPoliciesForSecret,
\* FindResourcesForPolicy).
ConfigsCurrent ==
  Idle =>
    /\ known = api.resources
    /\ \A k \in Keys : Watched(api.secrets[k]) => store.refs[k].secret = api.secrets[k]
    /\ \A i \in known : confs[i] = Generate(Fetched(store, {i}), Resources[i])

\* Once the queue is empty, NGINX runs with the config files there are, and with the contents
\* that the secret files they name have now, except for the certificates it reads on request
\* (shouldForceReloadOnSecretUpdate, handleSpecialSecretUpdate).  A special secret is only ever
\* replaced by a valid version of itself, and then its file holds the secret of the cluster, unless
\* that is invalid or gone (specialSecretValidation, "using the previous version").
LoadedCurrent ==
  /\ Idle =>
       /\ loaded.confs = confs
       /\ \A c \in Confs : \A f \in AllReads(c) : ReadOnRequest(c, f) \/ loaded.files[f] = store.files[f]
       /\ \A n \in SpecialNames :
            loaded.special[n] = special[n] \/ (n \in {"default", "wildcard"} /\ workload.dynamicSSLReload)
  /\ \A n \in SpecialNames : \A k \in {workload.special[n]} \ {NoSecret} :
       /\ special[n] # NoSecret /\ special[n].key = k /\ specialSecretValidation(special[n])
       /\ Idle /\ api.secrets[k] # NoSecret /\ specialSecretValidation(api.secrets[k])
            => special[n] = api.secrets[k]

\* What NGINX applies to the requests of a location: its own policies, and those of the
\* server of a kind it has none of.
Kinds(pols) == {e.kind : e \in Range1(pols)}
OneOf(kind) == IF kind \in {"OIDC", "OIDCNative"} THEN {"OIDC", "OIDCNative"} ELSE {kind}
InForce(c, l) ==
  Range1(l.pols) \cup {e \in Range1(c.server) : OneOf(e.kind) \cap Kinds(l.pols) = {}}

\* The policy p is in force, or a policy of its kind that was there before it.
Heeded(c, l, pk, pols) ==
  \E p \in api.policies : PolicyKey(p) = pk /\
    \/ p.kind = "IngressMTLS" /\ ~c.ssl.on
    \/ \E e \in InForce(c, l) :
         /\ OneOf(e.kind) = OneOf(p.kind)
         /\ p.kind \in {"AccessControl", "RateLimit"} =>
              pk \in {d.policy : d \in Range1(pols)} \/ p.kind \in Kinds(l.pols)

\* The clients of an API key policy are those of its secret, and the location that an
\* external auth policy sends its requests to is there.
Complete(c, e) ==
  /\ e.kind = "APIKey" => \E m \in c.clients : m.map = e.policy[2] /\ m.text = e.text
  /\ e.kind = "ExternalAuth" =>
       \E p \in api.policies : PolicyKey(p) = e.policy
                               /\ \E i \in DOMAIN c.auth : c.auth[i].path = p.path

\* Once the queue is empty, a policy attached to a server or a route is in force for the
\* requests of every location under it, or one of the same kind is, or NGINX answers them
\* with 500: a policy that is missing, invalid or without its secret never leaves a location
\* open (generatePolicies and what GenerateVirtualServerConfig hands on to the locations).  And no
\* sequence of secrets and policies makes the generator dereference a reference that was not
\* loaded, or index a path that has no such field (addJWTAuthConfig, addBasicAuthConfig,
\* addAPIKeyConfig, addIngressMTLSConfig).
PoliciesInForce ==
  /\ \A c \in Confs : ~c.panic
  /\ Idle => \A c \in {d \in Confs : d.kind # "ts"} : \A i \in DOMAIN c.locations :
    LET l == c.locations[i]
    IN \/ c.error \/ l.error
       \/ /\ \A ref \in Range1(c.refs) : Heeded(c, l, Resolve(ref, c.ns), c.server)
          /\ \A ref \in Range1(l.refs) : Heeded(c, l, Resolve(ref, l.ns), l.pols)
          /\ \A e \in InForce(c, l) : Complete(c, e)

\* The requests of an external auth policy go to the service that the policy names, seen from
\* the namespace of the policy (generateExternalAuthEndpoints, generateEndpointsForUpstream).
AuthServiceOfPolicy ==
  \A c \in {d \in Confs : d.kind # "ts"} : \A i \in DOMAIN c.auth :
    \A p \in workload.policies : PolicyKey(p) = c.auth[i].policy =>
      c.auth[i].asked = Resolve(p.service, p.ns)

\* No two locations of a server have the same path (generateNginxCfgForMergeableIngresses).
AuthLocationsDistinct ==
  \A c \in {d \in Confs : d.kind # "ts"} : \A i, j \in DOMAIN c.auth :
    i # j => c.auth[i].path # c.auth[j].path

=============================================================================
