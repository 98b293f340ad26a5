---------------------------- MODULE MCAppProtect -----------------------------
(***************************************************************************)
(* Small clusters for AppProtect.                                            *)
(***************************************************************************)
EXTENDS AppProtect

K(n) == <<"a", n>>
B(n) == <<"b", n>>

Policy(v, reqs) == [fields |-> {"policy"}, reqs |-> reqs, v |-> v]
BadPolicy == [fields |-> {}, reqs |-> {}, v |-> 0]
Req(tag, min, max) == [tag |-> tag, min |-> min, max |-> max]
LogConf(v) == [fields |-> {"content", "filter"}, v |-> v]
BadLogConf == [fields |-> {"content"}, v |-> 0]
Sig(tag, rev, created, uid) ==
  [fields |-> {"signatures"}, tag |-> tag, rev |-> rev, created |-> created, uid |-> uid]
BadSig(created, uid) ==
  [fields |-> {}, tag |-> "t", rev |-> NoTime, created |-> created, uid |-> uid]

DosPolicy(v) == [fields |-> {"spec"}, v |-> v]
BadDosPolicy == [fields |-> {}, v |-> 0]
DosLogConf(v) == [fields |-> {"filter"}, v |-> v]
Protected(policy, logConf, v) ==
  [fields |-> {"name"}, bad |-> {}, policy |-> policy, logConf |-> logConf, v |-> v]
BadProtected(policy) ==
  [fields |-> {"name"}, bad |-> {"allowList"}, policy |-> policy, logConf |-> NoRef, v |-> 0]

Resource(via, policy, logs, dos) == [via |-> via, policy |-> policy, logs |-> logs, dos |-> dos]

\* The resources come first or last in the first listing.
Workload(rollback, resources, objects, initially, order, unwatch, max) ==
  LET rs == [id \in DOMAIN resources |-> <<"resource", id>>]
  IN [rollback |-> rollback, resources |-> resources, objects |-> objects,
      initially |-> [t \in DOMAIN initially \cup {rs[i] : i \in DOMAIN rs} |->
                       IF t[1] = "resource" THEN resources[t[2]] ELSE initially[t]],
      order |-> order \o rs, unwatch |-> unwatch, maxChanges |-> max]

\* Signatures of one tag, and policies that require them.
s1 == <<"userSig", K("s1")>>
s2 == <<"userSig", B("s2")>>
p1 == <<"policy", K("p1")>>
p2 == <<"policy", B("p2")>>
l1 == <<"logConf", K("l1")>>
l2 == <<"logConf", B("l2")>>
d1 == <<"dosPolicy", K("d1")>>
g1 == <<"dosLogConf", K("g1")>>
x1 == <<"protected", K("x1")>>
x2 == <<"protected", B("x2")>>

Signatures(rollback) ==
  Workload(rollback,
    << Resource("policy", K("p1"), << >>, NoRef), Resource("annotation", B("p2"), << >>, NoRef) >>,
    s1 :> {Sig("t", NoTime, 1, 1), BadSig(1, 1), Sig("t", BadTime, 1, 1)}
      @@ s2 :> {Sig("t", 5, 1, 2), Sig("u", NoTime, 1, 2)}
      @@ p2 :> {Policy(2, {Req("t", 3, 6)})},
    p1 :> Policy(1, {Req("t", NoTime, 4)}) @@ p2 :> Policy(1, {}) @@ s1 :> Sig("t", 2, 1, 1),
    << p1, p2, s1 >>, {"b"}, 3)

\* Policies and log configurations of two kinds of resources.
Logs(rollback) ==
  Workload(rollback,
    << Resource("annotation", K("p1"), << K("l1"), B("l2") >>, NoRef),
       Resource("policy", K("p1"), << B("l2"), K("l1") >>, NoRef) >>,
    p1 :> {Policy(2, {}), BadPolicy, Policy(1, {Req("t", BadTime, 4)})}
      @@ l1 :> {LogConf(2)} @@ l2 :> {BadLogConf, LogConf(1)}
      @@ <<"resource", 2>> :> {Resource("policy", K("p1"), << >>, NoRef)},
    p1 :> Policy(1, {}) @@ l1 :> LogConf(1), << p1, l1 >>, {"a"}, 3)

\* Two protected resources with one policy.
Dos ==
  Workload(FALSE,
    << Resource("policy", NoRef, << >>, K("x1")), Resource("annotation", NoRef, << >>, B("x2")) >>,
    d1 :> {DosPolicy(2), BadDosPolicy} @@ g1 :> {DosLogConf(2)}
      @@ x1 :> {Protected(NoRef, K("g1"), 2), BadProtected(K("d1"))} @@ x2 :> {Protected(K("d1"), NoRef, 2)},
    d1 :> DosPolicy(1) @@ g1 :> DosLogConf(1) @@ x1 :> Protected(K("d1"), K("g1"), 1)
      @@ x2 :> Protected(K("d1"), NoRef, 1), << x1, x2, d1, g1 >>, {"a", "b"}, 3)

\* With the rollback manager: one resource for the policy.
DosRollback ==
  Workload(TRUE, << Resource("policy", NoRef, << >>, K("x1")) >>,
    d1 :> {DosPolicy(2), BadDosPolicy} @@ x1 :> {Protected(NoRef, NoRef, 2)},
    d1 :> DosPolicy(1) @@ x1 :> Protected(K("d1"), NoRef, 1), << d1, x1 >>, {"a"}, 3)

AppProtectWorkloads ==
  {Signatures(m) : m \in BOOLEAN} \cup {Logs(m) : m \in BOOLEAN} \cup {Dos, DosRollback}

\* The deletion of a signature that was not synced yet.
StrayWorkloads == {Signatures(FALSE)}
=============================================================================
