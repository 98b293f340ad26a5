---------------------------- MODULE SecretService ----------------------------
(***************************************************************************)
(* What the secret store promises the configuration generator: the file a    *)
(* reference leads to is there, and holds the latest valid version of the    *)
(* secret, for as long as the secret is known and valid.                     *)
(***************************************************************************)
CONSTANTS
  Keys,
  SecretsOf(_),    \* the secrets a key can name
  Presentable(_),  \* the secret is valid and of a type NGINX reads from a file
  NoSecret

VARIABLES
  known,  \* the secret of each key
  shown   \* what NGINX reads through the reference to it

Init ==
  /\ known = [k \in Keys |-> NoSecret]
  /\ shown = [k \in Keys |-> NoSecret]

\* Any secrets come, change or go, and the generator asks for those of asked.  What was
\* shown stays up to date, what is asked for is shown, and nothing else is.
Step(asked) ==
  /\ known' \in [Keys -> (UNION {SecretsOf(k) : k \in Keys}) \cup {NoSecret}]
  /\ \A k \in Keys : known'[k] \in SecretsOf(k) \cup {NoSecret}
  /\ shown' = [k \in Keys |->
                 IF /\ known'[k] # NoSecret
                    /\ Presentable(known'[k])
                    /\ k \in asked \/ shown[k] # NoSecret
                 THEN known'[k]
                 ELSE NoSecret]

Next == \E asked \in SUBSET Keys : Step(asked)

Spec == Init /\ [][Next]_<<known, shown>>

=============================================================================
