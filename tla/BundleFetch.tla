---------------------------- MODULE BundleFetch -----------------------------
(***************************************************************************)
(* How a WAF bundle is fetched (internal/configs/wafbundle): from an HTTPS   *)
(* endpoint, NGINX One Console, NGINX Instance Manager, or the object store  *)
(* of the F5 WAF Policy Controller (PLM).  A bundle is abstracted to its     *)
(* checksum, a string; a server is a record of what it would answer.         *)
(*                                                                           *)
(* The outcome of a fetch is [kind, data]: "data", "unchanged", "transient"  *)
(* (worth a retry), "eof" (transient, the connection was cut) or "permanent" *)
(* (a nonTransientError).                                                    *)
(***************************************************************************)
EXTENDS Integers, Sequences, FiniteSets, Functions

CONSTANTS
  PageSize,          \* items on a page of the N1C lists
  MaxN1CCompilePolls \* polls of the compile status before giving up

NoHash == "none"
Empty == "empty"      \* a body of length 0
TooLarge == "large"   \* a body above MaxBundleSize

Outcome(kind) == [kind |-> kind, data |-> NoHash]
Data(v) == [kind |-> "data", data |-> v]

IsError(o) == o.kind \in {"transient", "eof", "permanent"}
isNonTransient(o) == o.kind = "permanent"

-----------------------------------------------------------------------------
\* checkHTTPSStatus; a redirect, which is not followed, is permanent.
checkHTTPSStatus(reply) ==
  CASE reply = "eof" -> Outcome("eof")
    [] reply = "serverError" -> Outcome("transient")
    [] reply \in {"redirect", "clientError"} -> Outcome("permanent")

\* n1cGet and nimGet; a redirect is one of the other codes, a server error.
n1cGet(reply) ==
  CASE reply = "eof" -> Outcome("eof")
    [] reply \in {"serverError", "redirect"} -> Outcome("transient")
    [] reply = "clientError" -> Outcome("permanent")

readBundleBody(body) ==
  IF body \in {Empty, TooLarge} THEN Outcome("permanent") ELSE Data(body)

\* The checksum to verify against: the expected one, or else that of the last fetch.
doHTTPSFetch(req, body) ==
  LET expected == IF req.expected # NoHash THEN req.expected ELSE req.lastHash
  IN IF IsError(readBundleBody(body)) THEN readBundleBody(body)
     ELSE IF req.verify /\ expected # NoHash /\ body # expected THEN Outcome("permanent")
     ELSE IF body = req.lastHash THEN Outcome("unchanged")
     ELSE Data(body)

\* With the ETag of the last fetch an unchanged bundle is not sent again.
fetchHTTPSBundle(req, srv) ==
  IF srv.etags /\ req.etag # NoHash /\ req.etag = srv.body THEN Outcome("unchanged")
  ELSE doHTTPSFetch(req, srv.body)

-----------------------------------------------------------------------------
(* NGINX One Console.                                                        *)

\* The list is read page by page until the item is on one, or a page is not full.
findN1CItemPaginated(items, name) ==
  LET page(k) == {items[i] : i \in (k * PageSize + 1 .. (k + 1) * PageSize) \cap DOMAIN items}
      full(k) == (k + 1) * PageSize <= Len(items)
      read == {k \in 0..Len(items) : \A j \in 0..(k - 1) : full(j) /\ name \notin page(j)}
  IN \E k \in read : name \in page(k)

\* The answer of the first poll that is not "still in progress".
pollN1CCompileStatus(statuses) ==
  LET pending == {"pending", "accepted", "running"}
      settled == {i \in DOMAIN statuses : i <= MaxN1CCompilePolls /\ statuses[i] \notin pending}
      first == CHOOSE i \in settled : \A j \in settled : i <= j
  IN IF settled = {} THEN "permanent"
     ELSE CASE statuses[first] = "succeeded" -> "ok"
            [] statuses[first] = "failed" -> "permanent"
            [] OTHER -> "transient"

n1cDownload(body) ==
  IF body \in {Empty, TooLarge} THEN Outcome("permanent") ELSE Data(body)

\* Compiled: the checksum of the download has to be that of the compile status.
fetchN1CPolicyBundle(req, srv) ==
  LET compiled == pollN1CCompileStatus(srv.statuses)
      download == n1cDownload(srv.body)
  IN IF ~findN1CItemPaginated(srv.items, req.name) THEN Outcome("permanent")
     ELSE IF compiled # "ok" THEN Outcome(compiled)
     ELSE IF srv.hash # NoHash /\ srv.hash = req.lastHash THEN Outcome("unchanged")
     ELSE IF IsError(download) THEN download
     ELSE IF srv.hash # NoHash /\ srv.body # srv.hash THEN Outcome("permanent")
     ELSE download

fetchN1CLogProfileBundle(req, srv) ==
  LET download == n1cDownload(srv.body)
  IN IF ~findN1CItemPaginated(srv.items, req.name) THEN Outcome("permanent")
     ELSE IF ~IsError(download) /\ srv.body = req.lastHash THEN Outcome("unchanged")
     ELSE download

-----------------------------------------------------------------------------
(* NGINX Instance Manager: srv.items is a sequence of [created, uid, hash],  *)
(* one per compilation, created = 0 when the time cannot be parsed.          *)

\* The item created last; the last one of the list when no time can be parsed.
latestNIMItem(items) ==
  LET dated == {i \in DOMAIN items : items[i].created > 0}
      newest == {i \in dated : \A j \in dated : items[j].created <= items[i].created}
  IN IF dated = {} THEN items[Len(items)]
     ELSE items[CHOOSE i \in newest : \A j \in newest : i <= j]

resolveLatestNIMPolicy(srv) ==
  IF srv.items = << >> THEN "permanent"
  ELSE IF ~latestNIMItem(srv.items).uid THEN "transient" ELSE "ok"

\* The body that comes back for the policy is that of the newest compilation.
fetchNIMPolicyBundle(req, srv) ==
  LET resolved == resolveLatestNIMPolicy(srv)
      hash == latestNIMItem(srv.items).hash
  IN IF resolved # "ok" THEN Outcome(resolved)
     ELSE IF hash # NoHash /\ hash = req.lastHash THEN Outcome("unchanged")
     ELSE IF srv.body = TooLarge THEN Outcome("permanent")
     ELSE IF hash # NoHash /\ srv.body # hash THEN Outcome("permanent")
     ELSE IF srv.body = req.lastHash THEN Outcome("unchanged")
     ELSE Data(srv.body)

fetchNIMLogProfileBundle(req, srv) ==
  IF srv.body = TooLarge THEN Outcome("permanent")
  ELSE IF srv.body = req.lastHash THEN Outcome("unchanged")
  ELSE Data(srv.body)

-----------------------------------------------------------------------------
(* Retries.                                                                  *)

Attempt(req, srv, reply) ==
  IF reply # "ok"
  THEN IF req.type = "HTTPS" THEN checkHTTPSStatus(reply) ELSE n1cGet(reply)
  ELSE CASE req.type = "HTTPS" -> fetchHTTPSBundle(req, srv)
         [] req.type = "N1C" /\ req.kind = "policy" -> fetchN1CPolicyBundle(req, srv)
         [] req.type = "N1C" /\ req.kind = "log" -> fetchN1CLogProfileBundle(req, srv)
         [] req.type = "NIM" /\ req.kind = "policy" -> fetchNIMPolicyBundle(req, srv)
         [] req.type = "NIM" /\ req.kind = "log" -> fetchNIMLogProfileBundle(req, srv)

\* Success and permanent errors end it; when every attempt was cut off the release is
\* taken for unsupported (NAPRelease is always set by buildFetchRequest).
withRetry(outcomes) ==
  LET final == {i \in DOMAIN outcomes : ~IsError(outcomes[i]) \/ isNonTransient(outcomes[i])}
      first == CHOOSE i \in final : \A j \in final : i <= j
  IN IF final # {} THEN outcomes[first]
     ELSE IF \A i \in DOMAIN outcomes : outcomes[i].kind = "eof" THEN Outcome("permanent")
     ELSE Outcome("transient")

\* What can come back from an HTTP source: any reply of the server, at every attempt; an
\* unusable client certificate is an error before the first.
HTTPFetch(req, srv) ==
  IF req.badClient THEN {Outcome("transient")}
  ELSE {withRetry(o) : o \in [1..req.retries -> {Attempt(req, srv, r) : r \in srv.replies}]}

\* The object store: configured from Secrets read at each fetch, the object is rejected
\* unless it has the checksum that was published.
fetchS3Object(req, store) ==
  IF ~store.secrets \/ ~req.url THEN {Outcome("permanent")}
  ELSE {IF r # "ok" THEN Outcome("transient")
        ELSE IF store.body[req.expected] # req.expected THEN Outcome("permanent")
        ELSE Data(req.expected) : r \in store.replies}
=============================================================================
