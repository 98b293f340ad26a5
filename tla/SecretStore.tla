----------------------------- MODULE SecretStore -----------------------------
(***************************************************************************)
(* The LocalSecretStore by itself: any caller, any order of calls.  It       *)
(* implements SecretService.                                                 *)
(***************************************************************************)
EXTENDS Secrets

VARIABLE store

StoreInit == store = NewLocalSecretStore

Update == \E s \in Secrets : store' = AddOrUpdateSecret(store, s)
Delete == \E k \in Keys : store' = DeleteSecret(store, k)
Get == \E K \in SUBSET Keys : store' = GetSecrets(store, K)

StoreNext == Update \/ Delete \/ Get

StoreSpec == StoreInit /\ [][StoreNext]_store

-----------------------------------------------------------------------------

\* A path the store hands out belongs to a secret that is valid, and the files of that path
\* hold that secret: a config generated from a reference never names a file that is missing
\* or stale (SecretReference.Path).
PathsHoldTheirSecret ==
  \A k \in Keys :
    LET ref == store.refs[k]
    IN ref.path # << >> =>
         /\ ~ref.error
         /\ ref.secret \in Secrets /\ ref.secret.key = k
         /\ \A i \in DOMAIN ref.path : store.files[ref.path[i]] = ref.secret

\* The refinement: the secret a key names, and what the first file of its path holds.
Shown(st, k) == IF st.refs[k].path = << >> THEN NoSecret ELSE st.files[st.refs[k].path[1]]
SecretsOf(k) == {s \in Secrets : s.key = k}
Presentable(s) == ValidateSecret(s) /\ FilesOf(s) # << >>

Service ==
  INSTANCE SecretService
    WITH known <- [k \in Keys |-> store.refs[k].secret],
         shown <- [k \in Keys |-> Shown(store, k)]

\* The store keeps the promise of SecretService (LocalSecretStore, every operation).
ServiceProvided == Service!Spec

=============================================================================
