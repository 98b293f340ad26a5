----------------------- MODULE AppProtectConfiguration -----------------------
(***************************************************************************)
(* The App Protect WAF resources the controller keeps in memory              *)
(* (internal/k8s/appprotect): policies, log configurations and user defined  *)
(* signatures, each with the verdict of its validation, and the changes an   *)
(* operation asks for.  A verdict is Valid or the reason of the invalidity.  *)
(*                                                                           *)
(* An object of the cluster is a record [fields, spec, ...]; fields are the  *)
(* parts of its spec that are there and have the right type.                 *)
(***************************************************************************)
EXTENDS Integers, Sequences, FiniteSets

Valid == "valid"
failedValidation == "validation failed"
missingUserSig == "policy has unsatisfied signature requirements"
duplicatedTags == "duplicate tag set"
invalidTimestamp == "invalid timestamp"

NoTag == "no tag"
NoTime == 0     \* a revision time that is not given
BadTime == -1   \* one that cannot be parsed

Change(op, kind, key) == [op |-> op, kind |-> kind, key |-> key]
Without(f, k) == [x \in DOMAIN f \ {k} |-> f[x]]
Put(f, k, v) == [x \in DOMAIN f \cup {k} |-> IF x = k THEN v ELSE f[x]]

-----------------------------------------------------------------------------
(* Validation of one object.                                                 *)

ValidateRequiredFields(obj, required) == required \subseteq obj.fields

ValidateAppProtectPolicy(obj) == ValidateRequiredFields(obj, {"policy"})
ValidateAppProtectLogConf(obj) == ValidateRequiredFields(obj, {"content", "filter"})
ValidateAppProtectUserSig(obj) == ValidateRequiredFields(obj, {"signatures"})

\* A requirement without a tag is ignored; one time that cannot be parsed rejects the policy.
createAppProtectPolicyEx(obj) ==
  LET reqs == {r \in obj.reqs : r.tag # NoTag}
      verdict == IF ~ValidateAppProtectPolicy(obj) THEN failedValidation
                 ELSE IF \E r \in reqs : BadTime \in {r.min, r.max} THEN invalidTimestamp
                 ELSE Valid
  IN [obj |-> obj, reqs |-> IF verdict = Valid THEN reqs ELSE {}, verdict |-> verdict]

createAppProtectLogConfEx(obj) ==
  [obj |-> obj, verdict |-> IF ValidateAppProtectLogConf(obj) THEN Valid ELSE failedValidation]

\* The tag of a signature that is rejected is not kept.
createAppProtectUserSigEx(obj) ==
  LET verdict == IF ~ValidateAppProtectUserSig(obj) THEN failedValidation
                 ELSE IF obj.rev = BadTime THEN invalidTimestamp
                 ELSE Valid
  IN [obj |-> obj, tag |-> IF verdict = Valid THEN obj.tag ELSE NoTag, verdict |-> verdict]

-----------------------------------------------------------------------------
(* Signatures and the policies that require them.                            *)

\* A requirement without times is not met by a signature that has one.
isReqSatisfiedByUserSig(req, sig) ==
  /\ sig.tag # NoTag /\ sig.tag = req.tag
  /\ \/ sig.obj.rev = NoTime
     \/ /\ {req.min, req.max} # {NoTime}
        /\ req.min # NoTime => sig.obj.rev > req.min
        /\ req.max # NoTime => sig.obj.rev < req.max

verifyPolicyAgainstUserSigs(pol, sigs) ==
  \A req \in pol.reqs : \E k \in DOMAIN sigs :
    isReqSatisfiedByUserSig(req, sigs[k]) /\ sigs[k].verdict = Valid

\* The order of the signatures of a tag: the older one first, then the larger UID.
SigBefore(a, b) ==
  \/ a.obj.created < b.obj.created
  \/ a.obj.created = b.obj.created /\ a.obj.uid > b.obj.uid

\* The first signature of a tag keeps its verdict.
reconcileUserSigs_bug(sigs) ==
  LET tagged(t) == {k \in DOMAIN sigs : sigs[k].tag = t}
      first(t) == CHOOSE k \in tagged(t) :
                    \A j \in tagged(t) \ {k} : SigBefore(sigs[k], sigs[j])
  IN [k \in DOMAIN sigs |->
       IF sigs[k].tag = NoTag \/ k = first(sigs[k].tag) THEN sigs[k]
       ELSE [sigs[k] EXCEPT !.verdict = duplicatedTags]]

\* detectDuplicateTags and reconcileUserSigs: of the signatures of a tag the first is valid.
reconcileUserSigs(sigs) ==
  LET tagged(t) == {k \in DOMAIN sigs : sigs[k].tag = t}
      first(t) == CHOOSE k \in tagged(t) :
                    \A j \in tagged(t) \ {k} : SigBefore(sigs[k], sigs[j])
  IN [k \in DOMAIN sigs |->
       IF sigs[k].tag = NoTag THEN sigs[k]
       ELSE IF k = first(sigs[k].tag) THEN [sigs[k] EXCEPT !.verdict = Valid]
       ELSE IF sigs[k].verdict = Valid THEN [sigs[k] EXCEPT !.verdict = duplicatedTags]
       ELSE sigs[k]]

verifyPolicies(pols, sigs) ==
  LET met(k) == verifyPolicyAgainstUserSigs(pols[k], sigs)
  IN [k \in DOMAIN pols |->
       IF pols[k].verdict = missingUserSig /\ met(k) THEN [pols[k] EXCEPT !.verdict = Valid]
       ELSE IF pols[k].verdict = Valid /\ ~met(k)
            THEN [pols[k] EXCEPT !.verdict = missingUserSig]
       ELSE pols[k]]

-----------------------------------------------------------------------------
(* The operations.  ap is the configuration; the result has the new one and  *)
(* the changes: a sequence, or a record for an operation on a signature.     *)

NewConfiguration == [policies |-> << >>, logConfs |-> << >>, userSigs |-> << >>]

AddOrUpdatePolicy(ap, key, obj) ==
  LET ex == createAppProtectPolicyEx(obj)
      checked == IF ex.verdict = Valid /\ ~verifyPolicyAgainstUserSigs(ex, ap.userSigs)
                 THEN [ex EXCEPT !.verdict = missingUserSig] ELSE ex
  IN [ap |-> [ap EXCEPT !.policies = Put(@, key, checked)],
      changes |-> <<Change(IF checked.verdict = Valid THEN "addOrUpdate" ELSE "delete",
                           "policy", key)>>]

AddOrUpdateLogConf(ap, key, obj) ==
  LET ex == createAppProtectLogConfEx(obj)
  IN [ap |-> [ap EXCEPT !.logConfs = Put(@, key, ex)],
      changes |-> <<Change(IF ex.verdict = Valid THEN "addOrUpdate" ELSE "delete",
                           "logConf", key)>>]

DeletePolicy(ap, key) ==
  [ap |-> [ap EXCEPT !.policies = Without(@, key)],
   changes |-> IF key \in DOMAIN ap.policies THEN <<Change("delete", "policy", key)>>
               ELSE << >>]

DeleteLogConf(ap, key) ==
  [ap |-> [ap EXCEPT !.logConfs = Without(@, key)],
   changes |-> IF key \in DOMAIN ap.logConfs THEN <<Change("delete", "logConf", key)>>
               ELSE << >>]

\* The signatures that are valid now, and the policies whose verdict they change.
buildUserSigChange(ap, sigs) ==
  LET reconciled == reconcileUserSigs(sigs)
      policies == verifyPolicies(ap.policies, reconciled)
      became(v) == {k \in DOMAIN policies :
                      policies[k].verdict # ap.policies[k].verdict /\ (policies[k].verdict = Valid) = v}
  IN [ap |-> [ap EXCEPT !.userSigs = reconciled, !.policies = policies],
      adds |-> became(TRUE), dels |-> became(FALSE),
      userSigs |-> {k \in DOMAIN reconciled : reconciled[k].verdict = Valid}]

AddOrUpdateUserSig(ap, key, obj) ==
  buildUserSigChange(ap, Put(ap.userSigs, key, createAppProtectUserSigEx(obj)))

\* A signature that is not known changes nothing; the change then has no signatures at all.
DeleteUserSig(ap, key) ==
  IF key \in DOMAIN ap.userSigs THEN buildUserSigChange(ap, Without(ap.userSigs, key))
  ELSE [ap |-> ap, adds |-> {}, dels |-> {}, userSigs |-> {}]

\* GetAppResource succeeds.
HasPolicy(ap, key) == key \in DOMAIN ap.policies /\ ap.policies[key].verdict = Valid
HasLogConf(ap, key) == key \in DOMAIN ap.logConfs /\ ap.logConfs[key].verdict = Valid

-----------------------------------------------------------------------------
(* What the configuration has to be, from the stored objects alone.          *)

\* A signature is valid iff it passes its validation and no other one of its tag comes
\* first; a policy is valid iff it passes its validation and its requirements are met.
Canonical(ap) ==
  /\ \A k \in DOMAIN ap.userSigs :
       LET fresh == createAppProtectUserSigEx(ap.userSigs[k].obj)
       IN ap.userSigs[k].verdict =
            IF /\ fresh.tag # NoTag
               /\ \E j \in DOMAIN ap.userSigs \ {k} :
                    /\ createAppProtectUserSigEx(ap.userSigs[j].obj).tag = fresh.tag
                    /\ SigBefore(ap.userSigs[j], ap.userSigs[k])
            THEN duplicatedTags ELSE fresh.verdict
  /\ \A k \in DOMAIN ap.policies :
       LET fresh == createAppProtectPolicyEx(ap.policies[k].obj)
       IN ap.policies[k].verdict =
            IF fresh.verdict = Valid /\ ~verifyPolicyAgainstUserSigs(fresh, ap.userSigs)
            THEN missingUserSig ELSE fresh.verdict
=============================================================================
