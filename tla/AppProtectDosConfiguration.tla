---------------------- MODULE AppProtectDosConfiguration ----------------------
(***************************************************************************)
(* The App Protect DoS resources the controller keeps in memory              *)
(* (internal/k8s/appprotectdos): DoS policies, log configurations and the    *)
(* protected resources that refer to them.  A protected resource is          *)
(* [valid, policy, logConf, version]; policy and logConf are keys, or NoRef. *)
(***************************************************************************)
EXTENDS Integers, Sequences, FiniteSets, AppProtectConfiguration

NoRef == << >>

ValidateAppProtectDosPolicy(obj) == ValidateRequiredFields(obj, {"spec"})

\* A content field is dropped, with a warning.
ValidateAppProtectDosLogConf(obj) == ValidateRequiredFields(obj, {"filter"})

\* Every field that is given: name, monitor, allow list, log destinations, references.
ValidateDosProtectedResource(obj) ==
  /\ "name" \in obj.fields
  /\ obj.bad \cap {"name", "apDosMonitor", "allowList", "dosAccessLogDest", "apDosPolicy",
                   "dosLogDest", "apDosLogConf"} = {}

NewDosConfiguration == [policies |-> << >>, logConfs |-> << >>, protected |-> << >>]

getPolicy(dos, ref) == ref \in DOMAIN dos.policies /\ dos.policies[ref].valid
getLogConf(dos, ref) == ref \in DOMAIN dos.logConfs /\ dos.logConfs[ref].valid

\* The policy and the log configuration it refers to are there and valid.
RefsResolve(dos, obj) ==
  /\ obj.policy # NoRef => getPolicy(dos, obj.policy)
  /\ obj.logConf # NoRef => getLogConf(dos, obj.logConf)

AddOrUpdateDosProtectedResource(dos, key, obj) ==
  LET valid == ValidateDosProtectedResource(obj)
  IN [dos |-> [dos EXCEPT !.protected = Put(@, key, [obj |-> obj, valid |-> valid])],
      changes |-> <<Change(IF valid /\ RefsResolve(dos, obj) THEN "addOrUpdate" ELSE "delete",
                           "protected", key)>>]

\* GetValidDosEx succeeds.
HasDosEx(dos, key) ==
  /\ key \in DOMAIN dos.protected
  /\ dos.protected[key].valid
  /\ RefsResolve(dos, dos.protected[key].obj)

GetDosProtectedThatReferencedDosPolicy(dos, key) ==
  {k \in DOMAIN dos.protected : dos.protected[k].obj.policy = key}

GetDosProtectedThatReferencedDosLogConf(dos, key) ==
  {k \in DOMAIN dos.protected : dos.protected[k].obj.logConf = key}

\* The own change, then one for each of the protected resources; order is the order in
\* which the Go map of the protected resources is visited.
WithProtected(dos, own, keys, order) ==
  [dos |-> dos,
   changes |-> own \o
     LET visited == SelectSeq(order, LAMBDA k : k \in keys)
     IN [i \in DOMAIN visited |->
          AddOrUpdateDosProtectedResource(dos, visited[i], dos.protected[visited[i]].obj).changes[1]]]

AddOrUpdateDosPolicy(dos, key, obj, order) ==
  LET valid == ValidateAppProtectDosPolicy(obj)
      new == [dos EXCEPT !.policies = Put(@, key, [obj |-> obj, valid |-> valid])]
  IN WithProtected(new, <<Change(IF valid THEN "addOrUpdate" ELSE "delete", "dosPolicy", key)>>,
                   GetDosProtectedThatReferencedDosPolicy(new, key), order)

AddOrUpdateDosLogConf(dos, key, obj, order) ==
  LET valid == ValidateAppProtectDosLogConf(obj)
      new == [dos EXCEPT !.logConfs = Put(@, key, [obj |-> obj, valid |-> valid])]
  IN WithProtected(new, <<Change(IF valid THEN "addOrUpdate" ELSE "delete", "dosLogConf", key)>>,
                   GetDosProtectedThatReferencedDosLogConf(new, key), order)

\* The protected resources that refer to it are not visited.
DeleteDosPolicy_bug(dos, key, order) ==
  [dos |-> [dos EXCEPT !.policies = Without(@, key)],
   changes |-> IF key \in DOMAIN dos.policies THEN <<Change("delete", "dosPolicy", key)>>
               ELSE << >>]

DeleteDosPolicy(dos, key, order) ==
  LET new == [dos EXCEPT !.policies = Without(@, key)]
      own == IF key \in DOMAIN dos.policies THEN <<Change("delete", "dosPolicy", key)>> ELSE << >>
  IN WithProtected(new, own, GetDosProtectedThatReferencedDosPolicy(new, key), order)

DeleteDosLogConf(dos, key, order) ==
  LET new == [dos EXCEPT !.logConfs = Without(@, key)]
      own == IF key \in DOMAIN dos.logConfs THEN <<Change("delete", "dosLogConf", key)>> ELSE << >>
  IN WithProtected(new, own, GetDosProtectedThatReferencedDosLogConf(new, key), order)

DeleteProtectedResource(dos, key) ==
  [dos |-> [dos EXCEPT !.protected = Without(@, key)],
   changes |-> IF key \in DOMAIN dos.protected THEN <<Change("delete", "protected", key)>>
               ELSE << >>]
=============================================================================
