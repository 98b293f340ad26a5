------------------------------- MODULE Secrets -------------------------------
(***************************************************************************)
(* Secrets and the LocalSecretStore (internal/k8s/secrets): the store        *)
(* validates what the informers deliver and, through the Configurator, keeps *)
(* on disk the files of the valid secrets that something has asked for.      *)
(*                                                                           *)
(* A secret is known by its key <<namespace, name>>; of its data the model   *)
(* keeps the names of the fields, whether the contents are well-formed, and  *)
(* a version.  A file holds the secret it was written from.  The operations  *)
(* are functions of the store's state, because a step of the controller      *)
(* calls several; see References.                                            *)
(***************************************************************************)
EXTENDS Naturals, Sequences, FiniteSets

CONSTANTS
  Keys,      \* <<namespace, name>> of the secrets
  Versions,  \* what distinguishes two contents of a secret
  Secrets,   \* the secrets the API server may hold
  NoSecret

SecretTypes ==
  {"TLS", "CA", "JWK", "OIDC", "Htpasswd", "APIKey", "License", "WAFBundle", "Opaque"}
DataFields ==
  {"ca.crt", "ca.crl", "jwk", "client-secret", "htpasswd", "license.jwt",
   "token", "username", "password"}

\* api_v1.Secret; sound: the certificate, key pair or client secret in it parses, or no API
\* key is repeated.
SecretRecords ==
  [key : Keys, type : SecretTypes, data : SUBSET DataFields, sound : BOOLEAN, version : Versions]

ASSUME SecretsAssumption == Secrets \subseteq SecretRecords /\ NoSecret \notin SecretRecords

-----------------------------------------------------------------------------
(* Validation (internal/k8s/secrets/validation.go).                          *)

ValidateTLSSecret(s) == s.type = "TLS" /\ s.sound
ValidateJWKSecret(s) == s.type = "JWK" /\ "jwk" \in s.data
ValidateCASecret(s) == s.type = "CA" /\ "ca.crt" \in s.data /\ s.sound
ValidateOIDCSecret(s) == s.type = "OIDC" /\ "client-secret" \in s.data /\ s.sound
ValidateAPIKeySecret(s) == s.type = "APIKey" /\ s.sound
ValidateHtpasswdSecret(s) == s.type = "Htpasswd" /\ "htpasswd" \in s.data
ValidateLicenseSecret(s) == s.type = "License" /\ "license.jwt" \in s.data
ValidateWAFBundleSecret(s) ==
  /\ s.type = "WAFBundle"
  /\ {"token", "username"} \cap s.data # {}
  /\ "username" \in s.data => "password" \in s.data

IsSupportedSecretType(type) == type \in SecretTypes \ {"Opaque"}

ValidateSecret(s) ==
  \/ ValidateTLSSecret(s)
  \/ ValidateJWKSecret(s)
  \/ ValidateCASecret(s)
  \/ ValidateOIDCSecret(s)
  \/ ValidateHtpasswdSecret(s)
  \/ ValidateAPIKeySecret(s)
  \/ ValidateLicenseSecret(s)
  \/ ValidateWAFBundleSecret(s)

-----------------------------------------------------------------------------
(* The files of a secret.  A file is named after the key; the two of a CA    *)
(* secret have a suffix.                                                     *)

Files == Keys \X {"file", "ca.crt", "ca.crl"}

\* The paths AddOrUpdateSecret of the Configurator returns, the fields of a CA secret's path
\* being the certificate and the revocation list.  The secrets that NGINX gets as text of a
\* config file have none; a WAF bundle's credentials take the default branch of the switch.
FilesOf(s) ==
  CASE s.type \in {"OIDC", "APIKey", "License"} -> << >>
    [] s.type = "CA" -> << <<s.key, "ca.crt">>, <<s.key, "ca.crl">> >>
    [] OTHER -> << <<s.key, "file">> >>

HasFile(s, f) == \E i \in DOMAIN FilesOf(s) : FilesOf(s)[i] = f

\* Configurator.AddOrUpdateSecret: write the files of s.
CreateSecretFiles(files, s) == [f \in Files |-> IF HasFile(s, f) THEN s ELSE files[f]]

\* Configurator.DeleteSecret: one file goes, whatever files the secret had.
DeleteSecretFile(files, k) == [files EXCEPT ![<<k, "file">>] = NoSecret]

-----------------------------------------------------------------------------
(* The store.                                                                *)

\* SecretReference; a key the map does not have is absentRef, which is also what GetSecret
\* answers for it.
absentRef == [secret |-> NoSecret, path |-> << >>, error |-> TRUE]
References ==
  [secret : Secrets \cup {NoSecret}, path : Seq(Files), error : BOOLEAN]

NewLocalSecretStore ==
  [refs |-> [k \in Keys |-> absentRef], files |-> [f \in Files |-> NoSecret]]

WithRef(st, k, ref, files) == [refs |-> [st.refs EXCEPT ![k] = ref], files |-> files]

\* A secret that is on disk is not written again.
AddOrUpdateSecret_once_bug(st, s) ==
  LET valid == ValidateSecret(s)
  IN WithRef(st, s.key,
             [secret |-> s, path |-> IF valid THEN st.refs[s.key].path ELSE << >>,
              error |-> ~valid],
             st.files)

\* Only a secret that is on disk is written again, or removed when it is not valid any more.
AddOrUpdateSecret(st, s) ==
  LET onDisk == st.refs[s.key].path # << >>
      valid == ValidateSecret(s)
      ref == [secret |-> s,
              path |-> IF onDisk /\ valid THEN FilesOf(s) ELSE << >>,
              error |-> ~valid]
  IN WithRef(st, s.key, ref,
             IF ~onDisk THEN st.files
             ELSE IF valid THEN CreateSecretFiles(st.files, s)
             ELSE DeleteSecretFile(st.files, s.key))

DeleteSecret(st, k) ==
  WithRef(st, k, absentRef,
          IF st.refs[k].path = << >> THEN st.files ELSE DeleteSecretFile(st.files, k))

\* The store after GetSecret of every key in K: the valid ones are on disk.  The answer for a
\* key is its entry in refs.
GetSecrets(st, K) ==
  LET new == {k \in K : ~st.refs[k].error /\ st.refs[k].path = << >>}
      fetched(k) == st.refs[k].secret
  IN [refs |-> [k \in Keys |-> IF k \in new
                               THEN [st.refs[k] EXCEPT !.path = FilesOf(fetched(k))]
                               ELSE st.refs[k]],
      files |-> [f \in Files |-> IF f[1] \in new /\ HasFile(fetched(f[1]), f)
                                 THEN fetched(f[1])
                                 ELSE st.files[f]]]

=============================================================================
