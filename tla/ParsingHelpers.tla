--------------------------- MODULE ParsingHelpers ---------------------------
(***************************************************************************)
(* How the texts of annotations and of ConfigMap keys are read               *)
(* (internal/configs/parsing_helpers.go).  A text is a string of a small     *)
(* vocabulary; "2^63" stands for the digits of the first number that is an   *)
(* unsigned 64 bit integer and not a signed one, "bad" for a text that no    *)
(* check of its characters accepts, and the names below for texts of their   *)
(* shape.  What is read is a text again, or Error.                           *)
(***************************************************************************)
EXTENDS Sequences, FiniteSets

Error == "unreadable"

Digits == {"0", "5", "301", "404", "8080", "2^63"}
Paths == {"/app"}
Variables == {"$uri"}
URLs == {"http://login"}
Rewrites == {"coffee=/", "tea=/"}        \* serviceName=coffee rewrite=/
Stickies == {"coffee srv_id"}            \* serviceName=coffee srv_id
Spaced == {"4 8k", "coffee srv_id", "least_time header"}

Within(set, s) == IF s \in set THEN s ELSE Error

-----------------------------------------------------------------------------
\* strconv.ParseBool also takes t, 0 and 1.
ParseBool(s) == CASE s \in {"true", "t"} -> "true" [] s \in {"false", "0"} -> "false" [] OTHER -> Error
ParseInt(s) == Within((Digits \ {"2^63"}) \cup {"-5"}, s)
ParseInt64(s) == ParseInt(s)
ParseUint64(s) == Within(Digits, s)
ParseNonZero(s) == Within(Digits \ {"0"}, s)

\* A number without a unit is in seconds.
ParseTime(s) == IF s \in Digits THEN s \o "s" ELSE Within({"10s"}, s)
ParseOffset(s) == Within(Digits \cup {"8k", "1g"}, s)
ParseSize(s) == Within(Digits \cup {"8k"}, s)
ParseProxyBuffersSpec(s) == Within({"4 8k"}, s)
ParseRequestRate(s) == Within({"5r/s"}, s)

\* A 32 bit number above zero.
ParsePortList(s) == Within(Digits \ {"0", "2^63"}, s)
ParseHTTPRedirectCode(s) == Within({"301"}, s)
ParseCustomHTTPErrors(s) == Within({"301", "404"}, s)
ParseAddHeaderInherit(s) == Within({"on", "off", "merge"}, s)

\* NGINX OSS knows fewer methods; round_robin is no directive.
ParseLBMethod(s, plus) ==
  IF s = "round_robin" THEN ""
  ELSE Within({"least_conn"} \cup IF plus THEN {"least_time header"} ELSE {}, s)

\* A bool, or in NGINX Plus any text.
ServerTokens(s, plus) ==
  CASE ParseBool(s) = "true" -> "on"
    [] ParseBool(s) = "false" -> "off"
    [] OTHER -> IF plus THEN s ELSE Error

VerifyAppProtectThresholds(s) == Within({"high=5 low=5"}, s)
ParseRewriteList(s) == Within(Rewrites, s)
ParseStickyServiceList(s) == Within(Stickies, s)
ParseServiceList(s) == s

\* The Services a list names.
ServicesIn(s) == CASE s \in {"coffee=/", "coffee srv_id"} -> {"coffee"} [] s = "tea=/" -> {"tea"} [] OTHER -> {s}

-----------------------------------------------------------------------------
(* Checks of characters.                                                     *)

IsText(s) == s # "bad"
IsToken(s) == IsText(s) /\ s \notin Spaced

\* DNS names, qualified names, header names.
IsName(s) == IsToken(s) /\ s \notin {"", "-5", "5r/s", "round_robin", "safe_blocking"} \cup Paths
                                     \cup Variables \cup URLs \cup Rewrites \cup {"high=5 low=5"}

Checked(test, s) == IF test THEN s ELSE Error

-----------------------------------------------------------------------------
(* The Wallarm values (internal/configs/annotations.go).                     *)

isValidWallarmMode(s) == Within({"off", "monitoring", "safe_blocking", "block"}, s)
isValidWallarmModeAllowOverride(s) == Within({"on", "off", "strict"}, s)
isValidOnOff(s) == Within({"on", "off"}, s)
validateApplicationID(s) == Within(Digits \ {"0", "2^63"}, s)
validateWallarmPartnerClientUUID(s) == Within({"uuid"}, s)
validateBlockPage(s) == Within(Paths \cup Variables \cup {""}, s)

\* The parsers it does not know are dropped from the list.
isValidWallarmParser(s) == IF s = "json" THEN s ELSE ""

-----------------------------------------------------------------------------
\* The reading of a text by the name of its format.
Read(f, s, plus) ==
  CASE f = "raw" -> s
    [] f = "bool" -> ParseBool(s)
    [] f = "int" -> ParseInt(s)
    [] f = "int64" -> ParseInt64(s)
    [] f = "uint64" -> ParseUint64(s)
    [] f = "nonzero" -> ParseNonZero(s)
    [] f = "time" -> ParseTime(s)
    [] f = "offset" -> ParseOffset(s)
    [] f = "size" -> ParseSize(s)
    [] f = "sizeOrNone" -> IF s = "" THEN s ELSE ParseSize(s)
    [] f = "buffers" -> ParseProxyBuffersSpec(s)
    [] f = "rate" -> ParseRequestRate(s)
    [] f = "ports" -> ParsePortList(s)
    [] f = "redirect" -> ParseHTTPRedirectCode(s)
    [] f = "errors" -> ParseCustomHTTPErrors(s)
    [] f = "inherit" -> ParseAddHeaderInherit(s)
    [] f = "lb" -> ParseLBMethod(s, plus)
    [] f = "tokens" -> ServerTokens(s, plus)
    [] f = "textTokens" -> IF IsText(s) THEN ServerTokens(s, plus) ELSE Error
    [] f = "switch" -> ServerTokens(s, FALSE)
    [] f = "thresholds" -> VerifyAppProtectThresholds(s)
    [] f = "rewrites" -> ParseRewriteList(s)
    [] f = "sticky" -> ParseStickyServiceList(s)
    [] f = "services" -> ParseServiceList(s)
    [] f = "text" -> Checked(IsText(s), s)
    [] f = "token" -> Checked(IsToken(s), s)
    [] f = "name" -> Checked(IsName(s), s)
    [] f = "header" -> Checked(IsName(s), s)
    [] f = "path" -> Within(Paths, s)
    [] f = "variable" -> Within(Variables, s)
    [] f = "url" -> Within(URLs, s)
    [] f = "endpoint" -> Checked(s \in URLs \/ IsName(s), s)
    [] f = "regex" -> Within({"case_sensitive", "case_insensitive", "exact"}, s)
    [] f = "level" -> Within({"info", "notice", "warn", "error"}, s)
    [] f = "next" -> Within({"off", "error"}, s)
    [] f = "type" -> Within({"master", "minion"}, s)
    [] f = "destination" -> Within(Paths \cup {"stderr"}, s)
    [] f = "syslog" -> Within({"syslog:server"}, s)
    [] f = "action" -> Within({"pass", "drop"}, s)
    [] f = "seconds" -> Within({"5"}, s)
    [] f = "metricsPort" -> Within({"8080"}, s)
    [] f = "auto" -> IF s = "auto" THEN s ELSE ParseInt(s)
    [] f = "mode" -> isValidWallarmMode(s)
    [] f = "override" -> isValidWallarmModeAllowOverride(s)
    [] f = "onoff" -> isValidOnOff(s)
    [] f = "application" -> validateApplicationID(s)
    [] f = "uuid" -> validateWallarmPartnerClientUUID(s)
    [] f = "page" -> validateBlockPage(s)
    [] f = "parsers" -> isValidWallarmParser(s)

\* What a map of texts sets, by a table from its keys to formats: a text that cannot be read
\* leaves the setting as it is.
Readable(texts, table, plus) ==
  {k \in DOMAIN texts \cap DOMAIN table : Read(table[k], texts[k], plus) # Error}
Settings(texts, table, plus) ==
  [k \in Readable(texts, table, plus) |-> Read(table[k], texts[k], plus)]
AllReadable(texts, table, plus) ==
  Readable(texts, table, plus) = DOMAIN texts \cap DOMAIN table

\* A table from keys to one format.
As(f, keys) == [k \in keys |-> f]
=============================================================================
