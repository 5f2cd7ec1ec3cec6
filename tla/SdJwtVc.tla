------------------------------- MODULE SdJwtVc -------------------------------
(***************************************************************************)
(* The SD-JWT VC bar (sdjwtvc/mod.rs), as the steps of verify_inner between *)
(* which it consults the trust anchors and the status list.  A presentation *)
(* is a JWS, its disclosures and an optional key binding JWT; `by` is the   *)
(* key under which a signature verifies over all the record holds.          *)
(***************************************************************************)
EXTENDS Datetime, Disclosures

CONSTANTS
  KbSkew,     \* KB_JWT_IAT_ACCEPTABLE_SKEW_SECS, 300 in the code
  PidTypes,   \* the vct and docType values of a PID
  NamedTypes  \* the vct values that are collision resistant names

ASSUME SkewAssumption == KbSkew \in Nat

Formats == {"SdJwtVc", "Mdoc"}
IssuerTyps == {"dc+sd-jwt", "vc+sd-jwt"}

\* A certificate's key, if it is a P-256 one.
P256Key(cert) == IF cert = Garbage \/ cert.key = "rsa" THEN Absent ELSE cert.key

\* Verified under a certificate's key, which has to be one.
IsSignedUnder(cert, by) == P256Key(cert) # Absent /\ by = P256Key(cert)

\* reconcile_role, for both formats.
ReconcileRole(caller, type) ==
  IF type \notin PidTypes THEN caller ELSE IF caller = "Pid" THEN "Pid" ELSE "mismatch"

Claim(p, name) ==
  IF name \in DOMAIN p.jws.tree.members /\ p.jws.tree.members[name].kind = "scalar"
  THEN p.jws.tree.members[name].value ELSE Absent
Vct(p) == Claim(p, "vct")
Chain(p) == p.jws.x5c

\* verify_issuer_signature.
IssuerSignatureVerdict(p) ==
  IF p.jws.segments # 3 \/ p.jws.alg = Garbage THEN "MalformedCredential"
  ELSE IF p.jws.crit # Absent \/ p.jws.alg # "ES256" \/ p.jws.typ \notin IssuerTyps THEN "UnsupportedFormat"
  ELSE IF p.jws.x5c \in {Absent, Garbage, <<>>} THEN "MalformedCredential"
  ELSE IF ~IsSignedUnder(p.jws.x5c[1], p.jws.by) THEN "Tamper"
  ELSE "ok"

SdJwtRole(p, caller) == ReconcileRole(caller, Vct(p))

\* Up to the trust anchors.
SdJwtBeforeTrust(p, caller) ==
  IF p = Garbage THEN "MalformedCredential"
  ELSE IF IssuerSignatureVerdict(p) # "ok" THEN IssuerSignatureVerdict(p)
  ELSE IF SdJwtRole(p, caller) = "mismatch" THEN "RoleMismatch"
  ELSE "ok"

\* check_validity: nbf inclusive, exp exclusive.
SdJwtValidity(p, now) ==
  LET nbf == NumericDate(Claim(p, "nbf"), "Up")
      exp == NumericDate(Claim(p, "exp"), "Up")
  IN  IF Garbage \in {nbf, exp} THEN "MalformedCredential"
      ELSE IF (nbf # Absent /\ now < nbf) \/ (exp # Absent /\ now >= exp) THEN "Expired" ELSE "ok"

\* Between the trust anchors and the status.
SdJwtBeforeStatus(p, now) ==
  IF Vct(p) \notin NamedTypes THEN "MalformedCredential" ELSE SdJwtValidity(p, now)

\* The hash of everything before the key binding JWT.
SdHash(p) == <<p.jws, p.disclosures>>
Distance(a, b) == IF a >= b THEN a - b ELSE b - a

\* Mutant: a key binding JWT is bound to the request, not to what is presented with it.
BindingIgnoresHash(p, challenge, now) ==
  IF p.kb = Absent THEN IF challenge = Absent THEN "ok" ELSE "HolderBinding"
  ELSE IF challenge # Absent /\ (<<p.kb.aud, p.kb.nonce>> # challenge \/ Distance(p.kb.iat, now) > KbSkew)
  THEN "HolderBinding"
  ELSE IF p.kb.crit # Absent \/ p.kb.alg # "ES256" THEN "UnsupportedFormat"
  ELSE IF ~IsValue(Claim(p, "cnf")) \/ p.kb.by # Claim(p, "cnf") THEN "HolderBinding" ELSE "ok"

\* check_holder_binding: a key binding JWT that is there is checked even if nobody asked for one.
HolderBinding(p, challenge, now) ==
  IF p.kb = Absent THEN IF challenge = Absent THEN "ok" ELSE "HolderBinding"
  ELSE IF challenge # Absent /\ (<<p.kb.aud, p.kb.nonce>> # challenge \/ Distance(p.kb.iat, now) > KbSkew)
  THEN "HolderBinding"
  ELSE IF p.kb.sdHash # SdHash(p) THEN "HolderBinding"
  ELSE IF p.kb.crit # Absent \/ p.kb.alg # "ES256" THEN "UnsupportedFormat"
  ELSE IF ~IsValue(Claim(p, "cnf")) \/ p.kb.by # Claim(p, "cnf") THEN "HolderBinding" ELSE "ok"

\* After the status.
SdJwtAfterStatus(p, challenge, now) ==
  IF HolderBinding(p, challenge, now) # "ok" THEN HolderBinding(p, challenge, now)
  ELSE ClaimSetVerdict(p.jws.tree, p.jws.sdAlg, p.disclosures, FALSE)

DisclosedClaims(p)  == Revealed(p.jws.tree, p.disclosures)[<<>>]
SdJwtPresented(p) ==
  IF p = Garbage THEN NoClaims ELSE PresentedClaims(p.jws.tree, p.jws.sdAlg, p.disclosures)

\* issuance_time_unix: iat, or else nbf.
IssuanceTime(p) ==
  LET iat == NumericDate(Claim(p, "iat"), "Down")
      nbf == NumericDate(Claim(p, "nbf"), "Down")
  IN  IF IsValue(iat) THEN iat ELSE IF IsValue(nbf) THEN nbf ELSE Absent
==============================================================================
