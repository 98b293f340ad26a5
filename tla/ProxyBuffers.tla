---------------------------- MODULE ProxyBuffers ----------------------------
(***************************************************************************)
(* How the proxy buffers of an upstream are balanced                         *)
(* (internal/validation/data_types.go).  A size is [n, unit], as it is       *)
(* written; amounts are in kilobytes, because every unit the code multiplies *)
(* by is at least 1024 bytes, and wrap at KMod, which is 2^54 for uint64.    *)
(* The theorems at the end say what BalanceProxyValues promises, for every   *)
(* size: the four rules hold, also when the product of number and size       *)
(* overflows, and writing the result out and reading it again changes        *)
(* nothing.                                                                  *)
(***************************************************************************)
EXTENDS Integers, TLAPS

CONSTANT KMod

ASSUME KModAssumption == KMod \in Nat /\ KMod > 4

MB == 1024
GB == 1024 * 1024

minNGINXBufferCount == 2
maxNGINXBufferCount == 1024

NoSize == [n |-> 0, unit |-> "unset"]
Size(n, unit) == [n |-> n, unit |-> unit]
NoBuffers == [n |-> 0, size |-> NoSize]

\* A number without a unit, and any unit other than k, is taken for megabytes.
NewSizeWithUnit(s) ==
  IF s = NoSize THEN [ok |-> TRUE, size |-> NoSize]
  ELSE [ok |-> s.n >= 1, size |-> Size(s.n, IF s.unit = "k" THEN "k" ELSE "m")]

newNumberSizeConfig(b) ==
  [ok |-> b.n >= 0 /\ b.size # NoSize /\ NewSizeWithUnit(b.size).ok,
   buffers |-> [n |-> b.n, size |-> NewSizeWithUnit(b.size).size]]

parseSizeToBytes(s) ==
  IF s = NoSize THEN 0
  ELSE (s.n * (IF s.unit = "k" THEN 1 ELSE IF s.unit = "g" THEN GB ELSE MB)) % KMod

bytesToSizeString(kb) ==
  IF kb = 0 THEN Size(0, "k")
  ELSE IF kb % GB = 0 THEN Size(kb \div GB, "g")
  ELSE IF kb % MB = 0 THEN Size(kb \div MB, "m")
  ELSE Size(kb, "k")

parseProxyBuffers(b) ==
  IF b = NoBuffers THEN [n |-> 8, kb |-> 4]
  ELSE [n |-> b.n, kb |-> parseSizeToBytes(b.size)]

validateBufferConstraints(n) ==
  IF n < minNGINXBufferCount THEN minNGINXBufferCount
  ELSE IF n > maxNGINXBufferCount THEN maxNGINXBufferCount ELSE n

parseBufferSize(s, default) == IF s = NoSize THEN default ELSE parseSizeToBytes(s)

AtMost(kb, limit) == IF kb > limit THEN limit ELSE kb
AtLeast(kb, limit) == IF kb < limit THEN limit ELSE kb

\* Rules 4, 3 and 2, in this order.
applyBufferSizeConstraints(bufferSize, busySize, size, max) ==
  LET fitted == AtMost(bufferSize, max)
  IN [bufferSize |-> fitted,
      busySize |-> AtLeast(AtMost(busySize, max), AtLeast(fitted, size))]

\* The balanced amounts: n buffers of size, a first buffer and the busy part.
Balanced(n, size, bufferSize, busySize) ==
  LET total == (size * n) % KMod
      fit == applyBufferSizeConstraints(bufferSize, busySize, size, (total - size) % KMod)
  IN [n |-> n, size |-> size, bufferSize |-> fit.bufferSize, busySize |-> fit.busySize]

BalanceProxyValues(b, bufferSize, busySize) ==
  IF b = NoBuffers /\ bufferSize = NoSize /\ busySize = NoSize
  THEN [buffers |-> b, bufferSize |-> bufferSize, busySize |-> busySize]
  ELSE LET parsed == IF b = NoBuffers THEN [n |-> minNGINXBufferCount, kb |-> 4]
                     ELSE parseProxyBuffers(b)
           v == Balanced(validateBufferConstraints(parsed.n), parsed.kb,
                         parseBufferSize(bufferSize, parsed.kb),
                         parseBufferSize(busySize, parsed.kb))
       IN [buffers |-> [n |-> v.n, size |-> bytesToSizeString(v.size)],
           bufferSize |-> bytesToSizeString(v.bufferSize),
           busySize |-> bytesToSizeString(v.busySize)]

Normalized(s) == IF NewSizeWithUnit(s).ok THEN NewSizeWithUnit(s).size ELSE Size(4, "k")

\* An upstream without proxy buffers, or any when autoadjust is off, is left as it is.
BalanceProxiesForUpstreams(u, autoadjust) ==
  IF u.buffers = NoBuffers \/ ~autoadjust THEN u
  ELSE LET given == newNumberSizeConfig(u.buffers)
           v == BalanceProxyValues(
                  IF given.ok THEN given.buffers ELSE [n |-> 8, size |-> Size(4, "k")],
                  Normalized(u.bufferSize), Normalized(u.busySize))
       IN [u EXCEPT !.buffers = v.buffers, !.bufferSize = v.bufferSize, !.busySize = v.busySize]

-----------------------------------------------------------------------------
\* The four rules of BalanceProxyValues' comment, about amounts in kilobytes: at least two
\* buffers; the busy part holds the first buffer and one buffer, and leaves one free; the
\* first buffer leaves one free as well.
Rules(n, size, bufferSize, busySize) ==
  /\ n >= 2
  /\ busySize >= bufferSize /\ busySize >= size
  /\ busySize <= n * size - size
  /\ bufferSize <= n * size - size

-----------------------------------------------------------------------------
(* Proofs.                                                                 *)

\* With at least two buffers, all of them but one hold at least one.
LEMMA TwoBuffers ==
  ASSUME NEW n \in Nat, n >= 2, NEW size \in Nat
  PROVE  size * n = n * size /\ n * size - size >= size
<1>1. size * n = n * size OBVIOUS
<1>2. PICK k \in Nat : n = k + 2 BY SMT
<1>3. n * size = k * size + 2 * size BY <1>2
<1>4. k * size \in Nat OBVIOUS
<1>. QED BY <1>1, <1>3, <1>4

\* The number of buffers is clamped to the range nginx supports.
LEMMA Clamped ==
  ASSUME NEW n \in Nat
  PROVE  /\ validateBufferConstraints(n) \in Nat
         /\ validateBufferConstraints(n) >= minNGINXBufferCount
         /\ validateBufferConstraints(n) <= maxNGINXBufferCount
BY DEF validateBufferConstraints, minNGINXBufferCount, maxNGINXBufferCount

\* applyBufferSizeConstraints leaves both sizes between the smallest and the largest allowed,
\* also when the limit it is given is below the largest allowed, or below one buffer.
LEMMA Constrained ==
  ASSUME NEW p \in Nat, NEW b \in Nat, NEW size \in Nat, NEW limit \in Nat, NEW max \in Nat,
         limit <= max, size <= max
  PROVE  LET v == applyBufferSizeConstraints(p, b, size, limit)
         IN /\ v.bufferSize \in Nat /\ v.busySize \in Nat
            /\ v.bufferSize <= max /\ v.busySize <= max
            /\ v.busySize >= v.bufferSize /\ v.busySize >= size
BY DEF applyBufferSizeConstraints, AtMost, AtLeast

\* Whatever wraps on the way, all buffers but one are not taken for more than they are.
LEMMA LimitIsSafe ==
  ASSUME NEW total \in Nat, NEW size \in Nat, size < KMod, size <= total
  PROVE  ((total % KMod) - size) % KMod \in Nat /\ ((total % KMod) - size) % KMod <= total - size
<1>. DEFINE r == total % KMod
<1>1. r \in Nat /\ r < KMod /\ r <= total /\ (r = total \/ r + KMod <= total) BY KModAssumption
<1>. HIDE DEF r
<1>2. CASE r >= size
  <2>1. (r - size) % KMod = r - size BY <1>1, <1>2, KModAssumption
  <2>. QED BY <1>1, <1>2, <2>1 DEF r
<1>3. CASE r < size
  <2>1. r + KMod <= total BY <1>1, <1>3
  <2>2. (r - size) % KMod = r - size + KMod BY <1>1, <1>3, KModAssumption
  <2>. QED BY <1>1, <1>3, <2>1, <2>2, KModAssumption DEF r
<1>. QED BY <1>1, <1>2, <1>3

\* Rules 1 to 4 of BalanceProxyValues hold for whatever was configured, even when the product
\* of the number and the size of the buffers overflows.
THEOREM RulesHold ==
  ASSUME NEW n \in Nat, n >= 2, NEW size \in Nat, size < KMod, NEW p \in Nat, NEW b \in Nat
  PROVE  LET v == Balanced(n, size, p, b)
         IN Rules(v.n, v.size, v.bufferSize, v.busySize)
<1>. DEFINE max == n * size - size
            limit == (((size * n) % KMod) - size) % KMod
<1>1. size * n = n * size /\ max >= size /\ n * size \in Nat BY TwoBuffers
<1>2. max \in Nat /\ size <= n * size
  <2>1. \A t \in Nat : t - size >= size => t - size \in Nat /\ size <= t OBVIOUS
  <2>. QED BY <2>1, <1>1
<1>3. limit \in Nat /\ limit <= max
  <2>1. \A t \in Nat : size <= t => /\ ((t % KMod) - size) % KMod \in Nat
                                   /\ ((t % KMod) - size) % KMod <= t - size
    BY LimitIsSafe
  <2>. QED BY <2>1, <1>1, <1>2
<1>4. Balanced(n, size, p, b)
        = [n |-> n, size |-> size,
           bufferSize |-> applyBufferSizeConstraints(p, b, size, limit).bufferSize,
           busySize |-> applyBufferSizeConstraints(p, b, size, limit).busySize]
  BY DEF Balanced
<1>5. max = n * size - size OBVIOUS
<1>. HIDE DEF max, limit
<1>6. LET v == applyBufferSizeConstraints(p, b, size, limit)
      IN /\ v.bufferSize \in Nat /\ v.busySize \in Nat
         /\ v.bufferSize <= max /\ v.busySize <= max
         /\ v.busySize >= v.bufferSize /\ v.busySize >= size
  BY Zenon, <1>1, <1>2, <1>3, Constrained
<1>. QED BY <1>4, <1>5, <1>6 DEF Rules

\* What bytesToSizeString writes, parseSizeToBytes reads back: "1g" included.
THEOREM WrittenIsRead ==
  ASSUME NEW kb \in Nat, kb < KMod
  PROVE  parseSizeToBytes(bytesToSizeString(kb)) = kb
<1>1. CASE kb = 0
  BY <1>1, KModAssumption DEF bytesToSizeString, parseSizeToBytes, Size, NoSize
<1>2. CASE kb # 0 /\ kb % GB = 0
  <2>1. bytesToSizeString(kb) = Size(kb \div GB, "g") BY <1>2 DEF bytesToSizeString
  <2>2. (kb \div GB) * GB = kb BY <1>2 DEF GB
  <2>. QED BY <2>1, <2>2, KModAssumption DEF parseSizeToBytes, Size, NoSize
<1>3. CASE kb # 0 /\ kb % GB # 0 /\ kb % MB = 0
  <2>1. bytesToSizeString(kb) = Size(kb \div MB, "m") BY <1>3 DEF bytesToSizeString
  <2>2. (kb \div MB) * MB = kb BY <1>3 DEF MB
  <2>. QED BY <2>1, <2>2, KModAssumption DEF parseSizeToBytes, Size, NoSize
<1>4. CASE kb # 0 /\ kb % GB # 0 /\ kb % MB # 0
  <2>1. bytesToSizeString(kb) = Size(kb, "k") BY <1>4 DEF bytesToSizeString
  <2>. QED BY <2>1, KModAssumption DEF parseSizeToBytes, Size, NoSize
<1>. QED BY <1>1, <1>2, <1>3, <1>4
=============================================================================
