-------------------------- MODULE MCRollbackManager --------------------------
(* Instances of RollbackManager for TLC: a content is fine, bad by itself, or   *)
(* takes a port that only one file may take.                                   *)
EXTENDS RollbackManager

CONSTANTS f1, f2, f3

\* `nginx -t`: no bad file and no port taken twice.
NginxAccepts(tree) ==
  /\ \A p \in DOMAIN tree : tree[p] # "bad"
  /\ \A p, q \in DOMAIN tree : tree[p] = "port" /\ tree[q] = "port" => p = q

\* The message names the bad file or one of the two with the port, or nothing.
NginxErrors(tree) ==
  {p \in DOMAIN tree : tree[p] # "fine"} \cup {NoPath}

=============================================================================
