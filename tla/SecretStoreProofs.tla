-------------------------- MODULE SecretStoreProofs --------------------------
(***************************************************************************)
(* The LocalSecretStore implements SecretService, whatever the keys and the  *)
(* secrets are.                                                              *)
(***************************************************************************)
EXTENDS SecretStore, TLAPS

\* What holds of the reference to k in a store st, between two calls.
RefOK(st, k) ==
  LET ref == st.refs[k]
  IN /\ ref.secret \in SecretsOf(k) \cup {NoSecret}
     /\ ref.secret = NoSecret => ref.error /\ ref.path = << >>
     /\ ref.secret # NoSecret => ref.error = ~ValidateSecret(ref.secret)
     /\ ref.path # << >> =>
          /\ ~ref.error
          /\ ref.path = FilesOf(ref.secret)
          /\ \A f \in Files : HasFile(ref.secret, f) => st.files[f] = ref.secret

Stores == [refs : [Keys -> References], files : [Files -> Secrets \cup {NoSecret}]]

StoreOK(st) == st \in Stores /\ \A k \in Keys : RefOK(st, k)

\* The inductive invariant of the store.
StoreInv == StoreOK(store)

-----------------------------------------------------------------------------

\* The files of a secret are files of its key (Configurator.AddOrUpdateSecret).
LEMMA FilesOfKey ==
  ASSUME NEW s \in Secrets
  PROVE /\ FilesOf(s) \in Seq(Files)
        /\ FilesOf(s) # << >> => /\ FilesOf(s)[1] \in Files
                                 /\ HasFile(s, FilesOf(s)[1])
        /\ \A f \in Files : HasFile(s, f) => f[1] = s.key
        /\ \A i \in DOMAIN FilesOf(s) : FilesOf(s)[i] \in Files /\ HasFile(s, FilesOf(s)[i])
<1>1. s.key \in Keys /\ s.type \in SecretTypes
  BY SecretsAssumption DEF SecretRecords
<1>2. CASE s.type \in {"OIDC", "APIKey", "License"}
  <2>1. FilesOf(s) = << >>
    BY <1>2 DEF FilesOf
  <2>. QED BY <2>1 DEF HasFile
<1>3. CASE s.type = "CA"
  <2>1. FilesOf(s) = << <<s.key, "ca.crt">>, <<s.key, "ca.crl">> >>
    BY <1>3 DEF FilesOf
  <2>2. <<s.key, "ca.crt">> \in Files /\ <<s.key, "ca.crl">> \in Files
    BY <1>1 DEF Files
  <2>3. DOMAIN FilesOf(s) = {1, 2} /\ FilesOf(s)[1] = <<s.key, "ca.crt">>
        /\ FilesOf(s)[2] = <<s.key, "ca.crl">>
    BY <2>1
  <2>4. FilesOf(s) \in Seq(Files)
    BY <2>1, <2>2
  <2>. QED BY <2>2, <2>3, <2>4 DEF HasFile
<1>4. CASE s.type \notin {"OIDC", "APIKey", "License", "CA"}
  <2>. DEFINE g == <<s.key, "file">>
  <2>1. FilesOf(s) = <<g>>
    BY <1>4 DEF FilesOf
  <2>2. g \in Files /\ g[1] = s.key
    BY <1>1 DEF Files
  <2>. HIDE DEF g
  <2>3. DOMAIN FilesOf(s) = {1} /\ FilesOf(s)[1] = g /\ FilesOf(s) # << >>
    BY <2>1
  <2>4. FilesOf(s) \in Seq(Files)
    BY <2>1, <2>2
  <2>. QED BY <2>2, <2>3, <2>4 DEF HasFile
<1>. QED BY <1>2, <1>3, <1>4

\* The empty store is well formed (NewLocalSecretStore).
LEMMA NewStoreOK == StoreOK(NewLocalSecretStore)
<1>1. absentRef \in References
  BY DEF absentRef, References
<1>2. NewLocalSecretStore \in Stores
  BY <1>1 DEF NewLocalSecretStore, Stores
<1>3. \A k \in Keys : RefOK(NewLocalSecretStore, k)
  BY DEF RefOK, NewLocalSecretStore, absentRef
<1>. QED BY <1>2, <1>3 DEF StoreOK

\* Validation gives a verdict (ValidateSecret).
LEMMA ValidateSecretType == \A s \in Secrets : ValidateSecret(s) \in BOOLEAN
BY DEF ValidateSecret, ValidateTLSSecret, ValidateJWKSecret, ValidateCASecret,
       ValidateOIDCSecret, ValidateHtpasswdSecret, ValidateAPIKeySecret,
       ValidateLicenseSecret, ValidateWAFBundleSecret

\* Removing the file of a key leaves the files of the others alone (Configurator.DeleteSecret).
LEMMA DeleteSecretFileOK ==
  ASSUME NEW files \in [Files -> Secrets \cup {NoSecret}], NEW k \in Keys
  PROVE /\ DeleteSecretFile(files, k) \in [Files -> Secrets \cup {NoSecret}]
        /\ \A f \in Files : f[1] # k => DeleteSecretFile(files, k)[f] = files[f]
<1>1. \A f \in Files : f[1] # k => f # <<k, "file">>
  BY DEF Files
<1>. QED BY <1>1 DEF DeleteSecretFile

\* Replacing the reference to k and no file of another key leaves the other references well
\* formed.
LEMMA OthersKept ==
  ASSUME NEW st, StoreOK(st), NEW new, NEW k \in Keys,
         \A j \in Keys \ {k} : new.refs[j] = st.refs[j],
         \A f \in Files : f[1] # k => new.files[f] = st.files[f]
  PROVE \A j \in Keys \ {k} : RefOK(new, j)
<1>. SUFFICES ASSUME NEW j \in Keys \ {k} PROVE RefOK(new, j)
  OBVIOUS
<1>1. RefOK(st, j) /\ new.refs[j] = st.refs[j]
  BY DEF StoreOK
<1>2. \A f \in Files : st.refs[j].secret # NoSecret /\ HasFile(st.refs[j].secret, f) => f[1] # k
  BY <1>1, FilesOfKey DEF RefOK, SecretsOf
<1>. QED BY <1>1, <1>2 DEF RefOK

\* Taking in a secret leaves the store well formed (LocalSecretStore.AddOrUpdateSecret).
LEMMA UpdateOK ==
  ASSUME NEW st, StoreOK(st), NEW s \in Secrets
  PROVE StoreOK(AddOrUpdateSecret(st, s))
<1>. DEFINE k == s.key
            onDisk == st.refs[k].path # << >>
            valid == ValidateSecret(s)
            ref == [secret |-> s,
                    path |-> IF onDisk /\ valid THEN FilesOf(s) ELSE << >>,
                    error |-> ~valid]
            files == IF ~onDisk THEN st.files
                     ELSE IF valid THEN CreateSecretFiles(st.files, s)
                     ELSE DeleteSecretFile(st.files, k)
            new == AddOrUpdateSecret(st, s)
<1>0. k \in Keys /\ s # NoSecret /\ s \in SecretsOf(k)
  BY SecretsAssumption DEF SecretRecords, SecretsOf
<1>1. st.refs \in [Keys -> References] /\ st.files \in [Files -> Secrets \cup {NoSecret}]
  BY DEF StoreOK, Stores
<1>2. ref \in References
  <2>1. valid \in BOOLEAN
    BY ValidateSecretType
  <2>2. (IF onDisk /\ valid THEN FilesOf(s) ELSE << >>) \in Seq(Files)
    BY FilesOfKey
  <2>. HIDE DEF valid, onDisk
  <2>3. s \in Secrets \cup {NoSecret} /\ (~valid) \in BOOLEAN
    BY <2>1
  <2>. QED BY <2>2, <2>3 DEF References
<1>3. new = [refs |-> [st.refs EXCEPT ![k] = ref], files |-> files]
  BY DEF AddOrUpdateSecret, WithRef
<1>4. files \in [Files -> Secrets \cup {NoSecret}]
      /\ \A f \in Files : f[1] # k => files[f] = st.files[f]
  <2>1. CASE ~onDisk
    BY <1>1, <2>1
  <2>2. CASE onDisk /\ valid
    <3>1. files = [f \in Files |-> IF HasFile(s, f) THEN s ELSE st.files[f]]
      BY <2>2 DEF CreateSecretFiles
    <3>. QED BY <1>1, <3>1, FilesOfKey
  <2>3. CASE onDisk /\ ~valid
    BY <1>0, <1>1, <2>3, DeleteSecretFileOK
  <2>. QED BY <2>1, <2>2, <2>3
<1>5. onDisk /\ valid => \A f \in Files : HasFile(s, f) => files[f] = s
  BY DEF CreateSecretFiles
<1>. HIDE DEF ref, files, new
<1>6. new \in Stores /\ new.refs[k] = ref /\ new.files = files
      /\ \A j \in Keys \ {k} : new.refs[j] = st.refs[j]
  BY <1>0, <1>1, <1>2, <1>3, <1>4 DEF Stores
<1>7. RefOK(new, k)
  <2>1. new.refs[k].secret = s /\ new.refs[k].error = ~valid
        /\ new.refs[k].path = IF onDisk /\ valid THEN FilesOf(s) ELSE << >>
    BY <1>6 DEF ref
  <2>2. CASE onDisk /\ valid
    BY <1>0, <1>5, <1>6, <2>1, <2>2 DEF RefOK
  <2>3. CASE ~(onDisk /\ valid)
    <3>1. new.refs[k].path = << >>
      BY <2>1, <2>3
    <3>. HIDE DEF onDisk
    <3>. QED BY <1>0, <2>1, <3>1 DEF RefOK
  <2>. QED BY <2>2, <2>3
<1>8. \A j \in Keys \ {k} : RefOK(new, j)
  BY <1>0, <1>4, <1>6, OthersKept
<1>. QED BY <1>6, <1>7, <1>8 DEF StoreOK, new

\* Removing a secret leaves the store well formed (LocalSecretStore.DeleteSecret).
LEMMA DeleteOK ==
  ASSUME NEW st, StoreOK(st), NEW k \in Keys
  PROVE StoreOK(DeleteSecret(st, k))
<1>. DEFINE files == IF st.refs[k].path = << >> THEN st.files ELSE DeleteSecretFile(st.files, k)
            new == DeleteSecret(st, k)
<1>1. st.refs \in [Keys -> References] /\ st.files \in [Files -> Secrets \cup {NoSecret}]
  BY DEF StoreOK, Stores
<1>2. absentRef \in References
  BY DEF absentRef, References
<1>3. new = [refs |-> [st.refs EXCEPT ![k] = absentRef], files |-> files]
  BY DEF DeleteSecret, WithRef
<1>4. files \in [Files -> Secrets \cup {NoSecret}]
      /\ \A f \in Files : f[1] # k => files[f] = st.files[f]
  <2>1. CASE st.refs[k].path = << >>
    BY <1>1, <2>1
  <2>2. CASE st.refs[k].path # << >>
    BY <1>1, <2>2, DeleteSecretFileOK
  <2>. QED BY <2>1, <2>2
<1>. HIDE DEF files, new
<1>5. new \in Stores /\ new.refs[k] = absentRef /\ new.files = files
      /\ \A j \in Keys \ {k} : new.refs[j] = st.refs[j]
  BY <1>1, <1>2, <1>3, <1>4 DEF Stores
<1>6. RefOK(new, k)
  BY <1>5 DEF RefOK, absentRef
<1>7. \A j \in Keys \ {k} : RefOK(new, j)
  BY <1>4, <1>5, OthersKept
<1>. QED BY <1>5, <1>6, <1>7 DEF StoreOK, new

\* Asking for secrets leaves the store well formed (LocalSecretStore.GetSecret).
LEMMA GetOK ==
  ASSUME NEW st, StoreOK(st), NEW K \in SUBSET Keys
  PROVE StoreOK(GetSecrets(st, K))
<1>. DEFINE fresh == {k \in K : ~st.refs[k].error /\ st.refs[k].path = << >>}
            new == GetSecrets(st, K)
<1>1. st \in Stores /\ \A j \in Keys : RefOK(st, j)
  BY DEF StoreOK
<1>2. \A k \in fresh : st.refs[k].secret \in Secrets /\ st.refs[k].secret.key = k
                       /\ [st.refs[k] EXCEPT !.path = FilesOf(st.refs[k].secret)] \in References
  <2>. SUFFICES ASSUME NEW k \in fresh
                PROVE st.refs[k].secret \in Secrets /\ st.refs[k].secret.key = k
                      /\ [st.refs[k] EXCEPT !.path = FilesOf(st.refs[k].secret)] \in References
    OBVIOUS
  <2>1. k \in Keys /\ st.refs[k].secret \in Secrets /\ st.refs[k].secret.key = k
    BY <1>1 DEF RefOK, SecretsOf
  <2>2. st.refs[k] \in References
    BY <1>1, <2>1 DEF Stores
  <2>3. FilesOf(st.refs[k].secret) \in Seq(Files)
    BY <2>1, FilesOfKey
  <2>. QED BY <2>1, <2>2, <2>3 DEF References
<1>3. /\ new.refs = [k \in Keys |-> IF k \in fresh
                                    THEN [st.refs[k] EXCEPT !.path = FilesOf(st.refs[k].secret)]
                                    ELSE st.refs[k]]
      /\ new.files = [f \in Files |-> IF f[1] \in fresh /\ HasFile(st.refs[f[1]].secret, f)
                                      THEN st.refs[f[1]].secret
                                      ELSE st.files[f]]
      /\ new = [refs |-> new.refs, files |-> new.files]
  BY DEF GetSecrets
<1>4. new \in Stores
  <2>1. new.refs \in [Keys -> References]
    BY <1>1, <1>2, <1>3 DEF Stores
  <2>2. new.files \in [Files -> Secrets \cup {NoSecret}]
    BY <1>1, <1>2, <1>3 DEF Stores
  <2>. QED BY <1>3, <2>1, <2>2 DEF Stores
<1>. HIDE DEF new, fresh
<1>5. \A k \in Keys : RefOK(new, k)
  <2>. SUFFICES ASSUME NEW k \in Keys PROVE RefOK(new, k)
    OBVIOUS
  <2>0. RefOK(st, k) /\ st.refs[k] \in References
    BY <1>1 DEF Stores
  <2>1. CASE k \in fresh
    <3>1. new.refs[k].secret = st.refs[k].secret /\ new.refs[k].error = st.refs[k].error
          /\ new.refs[k].path = FilesOf(st.refs[k].secret)
      BY <1>3, <2>0, <2>1 DEF References
    <3>2. \A f \in Files : HasFile(st.refs[k].secret, f) => new.files[f] = st.refs[k].secret
      <4>1. \A f \in Files : HasFile(st.refs[k].secret, f) => f[1] = k
        BY <1>2, <2>1, FilesOfKey
      <4>. QED BY <1>3, <2>1, <4>1
    <3>3. ~st.refs[k].error
      BY <2>1 DEF fresh
    <3>. QED BY <2>0, <3>1, <3>2, <3>3 DEF RefOK
  <2>2. CASE k \notin fresh
    <3>1. new.refs[k] = st.refs[k]
      BY <1>3, <2>2
    <3>2. ASSUME st.refs[k].path # << >>, NEW f \in Files, HasFile(st.refs[k].secret, f)
          PROVE new.files[f] = st.files[f]
      <4>1. st.refs[k].secret \in Secrets /\ st.refs[k].secret.key = k
        BY <2>0, <3>2 DEF RefOK, SecretsOf
      <4>2. f[1] = k
        BY <3>2, <4>1, FilesOfKey
      <4>. QED BY <1>3, <2>2, <4>2
    <3>. QED BY <2>0, <3>1, <3>2 DEF RefOK
  <2>. QED BY <2>1, <2>2
<1>. QED BY <1>4, <1>5 DEF StoreOK, new

-----------------------------------------------------------------------------

\* The invariant is inductive: it holds between any two calls of the store.
LEMMA StoreInvariant == StoreSpec => []StoreInv
<1>1. StoreInit => StoreInv
  BY NewStoreOK DEF StoreInit, StoreInv
<1>2. StoreInv /\ [StoreNext]_store => StoreInv'
  <2>. SUFFICES ASSUME StoreInv, [StoreNext]_store PROVE StoreInv'
    OBVIOUS
  <2>1. CASE Update
    BY <2>1, UpdateOK DEF Update, StoreInv
  <2>2. CASE Delete
    BY <2>2, DeleteOK DEF Delete, StoreInv
  <2>3. CASE Get
    BY <2>3, GetOK DEF Get, StoreInv
  <2>4. CASE UNCHANGED store
    BY <2>4 DEF StoreInv
  <2>. QED BY <2>1, <2>2, <2>3, <2>4 DEF StoreNext
<1>. QED BY <1>1, <1>2, PTL DEF StoreSpec

\* What the store hands out is on disk: the invariant gives PathsHoldTheirSecret.
LEMMA PathsFromInv == StoreInv => PathsHoldTheirSecret
<1>. SUFFICES ASSUME StoreInv, NEW k \in Keys, store.refs[k].path # << >>
              PROVE /\ ~store.refs[k].error
                    /\ store.refs[k].secret \in Secrets /\ store.refs[k].secret.key = k
                    /\ \A i \in DOMAIN store.refs[k].path :
                         store.files[store.refs[k].path[i]] = store.refs[k].secret
  BY DEF PathsHoldTheirSecret
<1>1. RefOK(store, k)
  BY DEF StoreInv, StoreOK
<1>2. store.refs[k].secret \in Secrets /\ store.refs[k].secret.key = k
  BY <1>1 DEF RefOK, SecretsOf
<1>. QED BY <1>1, <1>2, FilesOfKey DEF RefOK

\* No config generated from a reference names a missing or stale file, whatever the calls
\* (LocalSecretStore).
THEOREM PathsHold == StoreSpec => []PathsHoldTheirSecret
BY StoreInvariant, PathsFromInv, PTL

-----------------------------------------------------------------------------
(* The refinement.                                                           *)

\* A reference shows the secret it names, or nothing.
LEMMA ShownSecret ==
  ASSUME NEW st, StoreOK(st), NEW k \in Keys
  PROVE /\ st.refs[k].path # << >> =>
             /\ Shown(st, k) = st.refs[k].secret /\ st.refs[k].secret # NoSecret
             /\ Presentable(st.refs[k].secret)
        /\ st.refs[k].path = << >> => Shown(st, k) = NoSecret
<1>1. RefOK(st, k)
  BY DEF StoreOK
<1>2. CASE st.refs[k].path = << >>
  BY <1>2 DEF Shown
<1>3. CASE st.refs[k].path # << >>
  <2>1. st.refs[k].secret \in Secrets /\ st.refs[k].secret # NoSecret
        /\ st.refs[k].path = FilesOf(st.refs[k].secret)
        /\ ValidateSecret(st.refs[k].secret)
    BY <1>1, <1>3 DEF RefOK, SecretsOf
  <2>2. Shown(st, k) = st.refs[k].secret
    BY <1>1, <1>3, <2>1, FilesOfKey DEF RefOK, Shown
  <2>. QED BY <1>3, <2>1, <2>2 DEF Presentable
<1>. QED BY <1>2, <1>3

\* A call that shows exactly what it must is a step of SecretService.
LEMMA StepOfService ==
  ASSUME StoreInv, StoreInv', NEW asked \in SUBSET Keys,
         \A k \in Keys : store'.refs[k].path # << >> <=>
                          /\ store'.refs[k].secret # NoSecret
                          /\ Presentable(store'.refs[k].secret)
                          /\ k \in asked \/ store.refs[k].path # << >>
  PROVE Service!Step(asked)
<1>1. StoreOK(store) /\ StoreOK(store')
  BY DEF StoreInv
<1>2. \A k \in Keys : store'.refs[k].secret \in SecretsOf(k) \cup {NoSecret}
  BY <1>1 DEF StoreOK, RefOK
<1>3. \A k \in Keys : Shown(store', k) = IF /\ store'.refs[k].secret # NoSecret
                                            /\ Presentable(store'.refs[k].secret)
                                            /\ k \in asked \/ Shown(store, k) # NoSecret
                                         THEN store'.refs[k].secret
                                         ELSE NoSecret
  <2>. SUFFICES ASSUME NEW k \in Keys
                PROVE Shown(store', k) = IF /\ store'.refs[k].secret # NoSecret
                                            /\ Presentable(store'.refs[k].secret)
                                            /\ k \in asked \/ Shown(store, k) # NoSecret
                                         THEN store'.refs[k].secret
                                         ELSE NoSecret
    OBVIOUS
  <2>1. Shown(store, k) # NoSecret <=> store.refs[k].path # << >>
    BY <1>1, ShownSecret
  <2>2. store'.refs[k].path # << >> => Shown(store', k) = store'.refs[k].secret
    BY <1>1, ShownSecret
  <2>3. store'.refs[k].path = << >> => Shown(store', k) = NoSecret
    BY <1>1, ShownSecret
  <2>. QED BY <2>1, <2>2, <2>3
<1>4. [k \in Keys |-> store'.refs[k].secret]
        \in [Keys -> (UNION {SecretsOf(k) : k \in Keys}) \cup {NoSecret}]
  BY <1>2
<1>. QED BY <1>2, <1>3, <1>4 DEF Service!Step

\* Every call of the store is a step of SecretService.
LEMMA CallsAreSteps ==
  ASSUME StoreInv, StoreInv', StoreNext
  PROVE Service!Next
<1>0. StoreOK(store) /\ StoreOK(store')
  BY DEF StoreInv
<1>1. CASE Update
  <2>1. PICK s \in Secrets : store' = AddOrUpdateSecret(store, s)
    BY <1>1 DEF Update
  <2>2. s.key \in Keys /\ store \in Stores /\ s # NoSecret
    BY <1>0, SecretsAssumption DEF SecretRecords, StoreOK
  <2>3. /\ store'.refs[s.key].secret = s
        /\ store'.refs[s.key].path = IF store.refs[s.key].path # << >> /\ ValidateSecret(s)
                                     THEN FilesOf(s) ELSE << >>
        /\ \A j \in Keys \ {s.key} : store'.refs[j] = store.refs[j]
    BY <2>1, <2>2 DEF AddOrUpdateSecret, WithRef, Stores
  <2>4. \A k \in Keys : store'.refs[k].path # << >> <=>
                          /\ store'.refs[k].secret # NoSecret
                          /\ Presentable(store'.refs[k].secret)
                          /\ k \in {} \/ store.refs[k].path # << >>
    <3>. SUFFICES ASSUME NEW k \in Keys
                  PROVE store'.refs[k].path # << >> <=>
                          /\ store'.refs[k].secret # NoSecret
                          /\ Presentable(store'.refs[k].secret)
                          /\ store.refs[k].path # << >>
      OBVIOUS
    <3>1. CASE k = s.key
      BY <2>2, <2>3, <3>1 DEF Presentable
    <3>2. CASE k # s.key
      BY <1>0, <2>3, <3>2, ShownSecret
    <3>. QED BY <3>1, <3>2
  <2>5. Service!Step({})
    BY <2>4, StepOfService
  <2>. QED BY <2>5 DEF Service!Next
<1>2. CASE Delete
  <2>1. PICK k \in Keys : store' = DeleteSecret(store, k)
    BY <1>2 DEF Delete
  <2>2. store \in Stores
    BY <1>0 DEF StoreOK
  <2>3. store'.refs[k] = absentRef /\ \A j \in Keys \ {k} : store'.refs[j] = store.refs[j]
    BY <2>1, <2>2 DEF DeleteSecret, WithRef, Stores
  <2>4. \A j \in Keys : store'.refs[j].path # << >> <=>
                          /\ store'.refs[j].secret # NoSecret
                          /\ Presentable(store'.refs[j].secret)
                          /\ j \in {} \/ store.refs[j].path # << >>
    BY <1>0, <2>3, ShownSecret DEF absentRef
  <2>5. Service!Step({})
    BY <2>4, StepOfService
  <2>. QED BY <2>5 DEF Service!Next
<1>3. CASE Get
  <2>1. PICK K \in SUBSET Keys : store' = GetSecrets(store, K)
    BY <1>3 DEF Get
  <2>2. store \in Stores
    BY <1>0 DEF StoreOK
  <2>3. \A k \in Keys :
          store'.refs[k] = IF k \in K /\ ~store.refs[k].error /\ store.refs[k].path = << >>
                           THEN [store.refs[k] EXCEPT !.path = FilesOf(store.refs[k].secret)]
                           ELSE store.refs[k]
    BY <2>1 DEF GetSecrets
  <2>4. \A k \in Keys : store'.refs[k].path # << >> <=>
                          /\ store'.refs[k].secret # NoSecret
                          /\ Presentable(store'.refs[k].secret)
                          /\ k \in K \/ store.refs[k].path # << >>
    <3>. SUFFICES ASSUME NEW k \in Keys
                  PROVE store'.refs[k].path # << >> <=>
                          /\ store'.refs[k].secret # NoSecret
                          /\ Presentable(store'.refs[k].secret)
                          /\ k \in K \/ store.refs[k].path # << >>
      OBVIOUS
    <3>1. store.refs[k] \in References /\ RefOK(store, k)
      BY <1>0, <2>2 DEF Stores, StoreOK
    <3>2. store'.refs[k].secret = store.refs[k].secret
      BY <2>3, <3>1 DEF References
    <3>3. CASE store.refs[k].path # << >>
      BY <1>0, <2>3, <3>3, ShownSecret
    <3>4. CASE store.refs[k].path = << >> /\ (k \notin K \/ store.refs[k].error)
      BY <2>3, <3>1, <3>2, <3>4 DEF RefOK, Presentable
    <3>5. CASE store.refs[k].path = << >> /\ k \in K /\ ~store.refs[k].error
      <4>1. store'.refs[k].path = FilesOf(store.refs[k].secret)
        BY <2>3, <3>1, <3>5 DEF References
      <4>. QED BY <3>1, <3>2, <3>5, <4>1 DEF RefOK, Presentable
    <3>. QED BY <3>3, <3>4, <3>5
  <2>5. Service!Step(K)
    BY <2>4, StepOfService
  <2>. QED BY <2>5 DEF Service!Next
<1>. QED BY <1>1, <1>2, <1>3 DEF StoreNext

\* The LocalSecretStore implements SecretService: what NGINX reads through a reference is the
\* latest valid version of the secret, or nothing (every operation of store.go).
THEOREM StoreImplementsService == StoreSpec => ServiceProvided
<1>1. StoreInit => Service!Init
  <2>. SUFFICES ASSUME StoreInit PROVE Service!Init
    OBVIOUS
  <2>1. StoreOK(store) /\ \A k \in Keys : store.refs[k] = absentRef
    BY NewStoreOK DEF StoreInit, NewLocalSecretStore
  <2>2. \A k \in Keys : Shown(store, k) = NoSecret /\ store.refs[k].secret = NoSecret
    BY <2>1 DEF absentRef, Shown
  <2>. QED BY <2>2 DEF Service!Init
<1>2. StoreInv /\ StoreInv' /\ [StoreNext]_store
        => [Service!Next]_<<[k \in Keys |-> store.refs[k].secret], [k \in Keys |-> Shown(store, k)]>>
  <2>. SUFFICES ASSUME StoreInv, StoreInv', [StoreNext]_store
                PROVE [Service!Next]_<<[k \in Keys |-> store.refs[k].secret],
                                       [k \in Keys |-> Shown(store, k)]>>
    OBVIOUS
  <2>1. CASE StoreNext
    BY <2>1, CallsAreSteps
  <2>2. CASE UNCHANGED store
    BY <2>2 DEF Shown
  <2>. QED BY <2>1, <2>2
<1>. QED BY <1>1, <1>2, StoreInvariant, PTL DEF StoreSpec, ServiceProvided, Service!Spec

=============================================================================
