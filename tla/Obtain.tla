--------------------------------- MODULE Obtain ---------------------------------
(***************************************************************************)
(* Issuance over OpenID4VCI (issuance/obtain.rs, issuance/wire.rs): a       *)
(* session asks for a token, a nonce, the holder's proof of possession and  *)
(* the credential.  The library keeps nothing: the host holds the session   *)
(* it got last, and gets none with a terminal step.  After an error it      *)
(* still has the bytes of the one it resumed.                               *)
(***************************************************************************)
EXTENDS SignerHook

VARIABLES
  session,  \* the host's last session, Absent before the first and after a terminal step
  step      \* what the last call returned

obtainVars == <<session, step>>

Phases == {"TokenPending", "NoncePending", "ProofPending", "CredentialPending"}
Terminal(kind, value) == [kind |-> kind, value |-> value]
IsTerminal(s) == s.kind \in {"Skipped", "Obtained", "Failed"}
PerformHttp(endpoint, content) == [kind |-> "PerformHttp", endpoint |-> endpoint, content |-> content]
SignStep(input) == [kind |-> "Sign", input |-> input]
Error(reason) == [kind |-> "Err", reason |-> reason]

ObtainInit == session = Absent /\ step = Absent

\* obtain_outcome: no session comes with a terminal step.
Return2(s, next) ==
  /\ step' = next
  /\ session' = IF IsTerminal(next) THEN Absent ELSE s
\* An error changes nothing the host holds.
ReturnErr(reason) == step' = Error(reason) /\ UNCHANGED session

\* begin_obtain: without an issuer it is skipped.
BeginObtain(offer, backend, holder, now) ==
  /\ session = Absent
  /\ Return2([phase |-> "TokenPending", backend |-> backend, holder |-> holder, offer |-> offer, now |-> now,
              token |-> Absent, pop |-> Absent],
             IF backend.kind = "None" THEN Terminal("Skipped", Absent)
             ELSE PerformHttp("token", [code |-> offer.code, txCode |-> offer.txCode]))

IsSuccess(input) == input.status \in 200..299
Fail(reason) == Return2(session, Terminal("Failed", reason))

ResumeToken(input) ==
  IF ~IsSuccess(input) \/ input.body = Garbage \/ input.body.token = Absent THEN Fail("TokenRequest")
  ELSE Return2([session EXCEPT !.token = input.body.token, !.phase = "NoncePending"], PerformHttp("nonce", Absent))

ResumeNonce(input) ==
  IF ~IsSuccess(input) \/ input.body = Garbage \/ input.body.nonce = Absent THEN Fail("NonceRequest")
  ELSE LET pop == PopInput(session.holder, session.backend.issuer, input.body.nonce, session.now)
       IN  Return2([session EXCEPT !.phase = "ProofPending", !.pop = pop], SignStep(pop))

\* A signature that cannot be assembled is an error, not a failed session.
ResumeProof(input) ==
  IF ~HasLength(input.signature) THEN ReturnErr("Proof")
  ELSE Return2([session EXCEPT !.phase = "CredentialPending"],
               PerformHttp("credential", [token |-> session.token, configuration |-> session.offer.configuration,
                                          proof |-> AssembledPop(session.pop, input.signature)]))

\* Mutant: a deferred credential is asked for again, with a new nonce.
AsksAgain(input) ==
  IF input.body # Garbage /\ (input.status = 202 \/ input.body.transaction # Absent)
  THEN Return2([session EXCEPT !.phase = "NoncePending"], PerformHttp("nonce", Absent))
  ELSE IF ~IsSuccess(input) \/ input.body = Garbage \/ input.body.credential = Absent THEN Fail("CredentialRequest")
  ELSE Return2(session, Terminal("Obtained", [format |-> session.offer.format, presentation |-> input.body.credential]))

\* parse_credential_response: deferred issuance is a failure of its own, by status or by transaction.
ResumeCredential(input) ==
  IF ~IsSuccess(input) \/ input.body = Garbage THEN Fail("CredentialRequest")
  ELSE IF input.status = 202 \/ input.body.transaction # Absent THEN Fail("Deferred")
  ELSE IF input.body.credential = Absent THEN Fail("CredentialRequest")
  ELSE Return2(session, Terminal("Obtained", [format |-> session.offer.format, presentation |-> input.body.credential]))

\* resume_obtain with the answer to the last effect; the wrong kind of answer is a usage error.
ResumeObtain(input) ==
  /\ session # Absent
  /\ IF (session.phase = "ProofPending") # (input.kind = "signature") THEN ReturnErr("UnexpectedInput")
     ELSE CASE session.phase = "TokenPending"      -> ResumeToken(input)
            [] session.phase = "NoncePending"      -> ResumeNonce(input)
            [] session.phase = "ProofPending"      -> ResumeProof(input)
            [] session.phase = "CredentialPending" -> ResumeCredential(input)
==============================================================================
