------------------------------ MODULE StatusList ------------------------------
(***************************************************************************)
(* The Token Status List (status/mod.rs): the reference a credential holds, *)
(* the reading of a status list token in JWT or CWT form, its lifetime and  *)
(* the extraction of an entry, and the check over a host's status source.   *)
(***************************************************************************)
EXTENDS Datetime

StatusOutcomes == {"NoStatus", "Good", "Revoked", "Unavailable", "Untrusted"}

(* The reference: claim is Absent or has a list, which is Absent or its idx and uri. *)
NoReference == [kind |-> "none"]
StatusReference(claim) ==
  IF claim = Absent \/ claim.list = Absent THEN NoReference
  ELSE IF claim.list.idx \in 0..MaxU64 /\ claim.list.uri \notin {"", Absent}
  THEN [kind |-> "list", idx |-> claim.list.idx, uri |-> claim.list.uri]
  ELSE [kind |-> "malformed"]

(* check_status, over what the source answers: Absent, a plain list, or revoked serials. *)
UnreachableOutcome(reachability) == IF reachability = "BestEffort" THEN "Good" ELSE "Unavailable"
CheckStatus(reference, answer, reachability) ==
  CASE reference.kind = "none" -> "NoStatus"
    [] reference.kind = "malformed" -> "Untrusted"
    [] reference.kind = "list" ->
         IF answer = Absent THEN UnreachableOutcome(reachability)
         ELSE IF reference.idx >= Len(answer) THEN "Unavailable"
         ELSE IF answer[reference.idx + 1] = 0 THEN "Good" ELSE "Revoked"
    [] reference.kind = "crl" ->
         IF answer = Absent THEN UnreachableOutcome(reachability)
         ELSE IF reference.serial \in answer THEN "Revoked" ELSE "Good"

-----------------------------------------------------------------------------
(* A token: its form, header (typ, alg, crit, x5c), the key that signed it  *)
(* (`by`), and its claims.                                                  *)

TokenTyp(form) == IF form = "jwt" THEN "statuslist+jwt" ELSE "application/statuslist+cwt"

\* A JWT may list nothing in crit, a CWT only alg.
TokenHeaderOk(token) ==
  /\ IsValue(token) /\ token.typ = TokenTyp(token.form) /\ token.alg = "ES256"
  /\ token.crit = Absent \/ (token.form = "cwt" /\ token.crit = {"alg"})

\* The chain the header brings, Garbage if it does not decode: only a JWT may have it empty.
SignerMaterial(token) ==
  IF token.x5c = Absent THEN <<>>
  ELSE IF token.form = "cwt" /\ token.x5c = <<>> THEN Garbage ELSE token.x5c

NonNegative(ttl) == IF IsValue(ttl) /\ ttl < 0 THEN Garbage ELSE NumericDate(ttl, "Up")

\* jose_status_claims and cwt_status_claims.
TokenClaimsReadable(token) ==
  /\ token.sub # Absent
  /\ IsValue(NumericDate(token.iat, "Up"))
  /\ NumericDate(token.exp, "Up") # Garbage /\ NonNegative(token.ttl) # Garbage
  /\ token.bits \in {1, 2, 4, 8} /\ IsValue(token.lst)

\* check_status_token_time: exp is exclusive, iat + ttl inclusive.
TokenIsFresh(iat, exp, ttl, now) ==
  /\ exp = Absent \/ now < exp
  /\ ttl = Absent \/ (ttl >= 0 /\ iat + ttl <= MaxI64 /\ now <= iat + ttl)

\* Entries are packed from the least significant bit of each byte.
ExtractStatusValue(bytes, idx, bits) ==
  LET byte == (idx * bits) \div 8
  IN  IF idx * bits > MaxU64 \/ byte >= Len(bytes) THEN Absent
      ELSE (bytes[byte + 1] \div 2 ^ ((idx * bits) % 8)) % 2 ^ bits

StatusValueToOutcome(value) ==
  CASE value = 0 -> "Good" [] value \in {1, 2} -> "Revoked" [] OTHER -> "Unavailable"

\* evaluate_status_claims; a list that does not inflate is Unreadable.
EvaluateStatusClaims(token, reference, now) ==
  IF \/ token.sub # reference.uri
     \/ ~TokenIsFresh(NumericDate(token.iat, "Up"), NumericDate(token.exp, "Up"), NonNegative(token.ttl), now)
  THEN "Untrusted"
  ELSE IF token.lst = Unreadable THEN "Unavailable"
  ELSE LET value == ExtractStatusValue(token.lst, reference.idx, token.bits)
       IN  IF value = Absent THEN "Unavailable" ELSE StatusValueToOutcome(value)

\* The rest of verify_status_list_token once the signer's key is known (Absent: not authorised).
TokenOutcome(token, key, reference, now) ==
  IF key = Absent \/ token.by # key \/ ~TokenClaimsReadable(token) THEN "Untrusted"
  ELSE EvaluateStatusClaims(token, reference, now)

(* Reference: the entries of a list as a sequence of bits, least significant first. *)
BitsOf(bytes) == [k \in 0..(8 * Len(bytes) - 1) |-> (bytes[k \div 8 + 1] \div 2 ^ (k % 8)) % 2]
EntryAt(bytes, idx, bits) ==
  LET B == BitsOf(bytes)
      Sum[k \in 0..bits] == IF k = 0 THEN 0 ELSE Sum[k - 1] + B[idx * bits + k - 1] * 2 ^ (k - 1)
  IN  Sum[bits]
==============================================================================
