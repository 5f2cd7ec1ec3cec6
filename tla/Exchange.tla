-------------------------------- MODULE Exchange --------------------------------
(***************************************************************************)
(* The life of an attestation: the host obtains it from an issuer (Obtain), *)
(* presents it to verifiers (Wallet) and a verifier verifies what reaches   *)
(* it (VpToken).  The issuer, the host's signer, its status source and the  *)
(* network are not in the repository: they may fail, sign with another key, *)
(* answer late, and bring a presentation to another verifier, under another *)
(* id, or twice.                                                            *)
(***************************************************************************)
EXTENDS VpToken, Obtain, Wallet

CONSTANTS
  Offers,        \* credential offers, one per format
  Backends,      \* issuer backends
  Templates,     \* by format, the attestation an issuer makes out
  Requests,      \* presentation requests, with nonces of their own
  Selections,    \* by format, what a holder may choose to disclose
  Keys,          \* the keys the host's signer may use, the holder's among them
  HolderKey,
  Times,         \* when a presentation is verified
  PresentedAt,   \* when the holder signs
  HostAnchors,   \* the trust anchors the verifier's host sends
  StatusAnswers, \* what the host's status source answers
  MaxAttempts,   \* bound: sessions begun
  MaxMade        \* bound: presentations made

\* A request is one, and no two share a nonce.
ASSUME RequestsAssumption ==
  /\ Absent \notin Requests /\ \A r \in Requests : <<r.audience, r.nonce>> # Absent
  /\ \A q, r \in Requests : q.nonce = r.nonce => q = r
\* What an issuer makes out decodes; it has a place for the holder's key and for what a presentation adds.
IsAttestation(format, t) ==
  /\ t # Garbage
  /\ IF format = "SdJwtVc"
     THEN /\ IsSdJwt(t) /\ {"jws", "disclosures", "kb"} \subseteq DOMAIN t /\ {"tree", "x5c"} \subseteq DOMAIN t.jws
          /\ IsSequence(t.disclosures)
          /\ "members" \in DOMAIN t.jws.tree /\ "cnf" \in DOMAIN t.jws.tree.members
     ELSE /\ IsMdocResponse(t) /\ "documents" \in DOMAIN t /\ t.documents # Absent /\ 1 \in DOMAIN t.documents
          /\ LET d == t.documents[1] IN
               /\ {"nameSpaces", "issuerAuth", "deviceSigned"} \subseteq DOMAIN d
               /\ IsValue(d.issuerAuth) /\ {"mso", "x5chain"} \subseteq DOMAIN d.issuerAuth
               /\ Mso(d) # Garbage /\ {"deviceKey", "validityInfo"} \subseteq DOMAIN Mso(d)
               /\ d.deviceSigned # Absent => "signature" \in DOMAIN d.deviceSigned
               /\ d.nameSpaces # Garbage =>
                    IsSequence(d.nameSpaces) /\ \A e \in Range(d.nameSpaces) : {"ns", "items"} \subseteq DOMAIN e
ASSUME TemplatesAssumption ==
  /\ \A format \in Formats : IsAttestation(format, Templates[format])
  /\ \A offer \in Offers : offer.format \in Formats
\* The host's clock, and its anchors, each certificate parsed or not.
ASSUME HostAssumption ==
  /\ Times \subseteq Int /\ PresentedAt \in Int /\ IsSequence(HostAnchors)
  /\ \A a \in Range(HostAnchors) : a.cert \in Certs \union {Garbage}

VARIABLES
  asked,     \* the effect the host has yet to carry out, Absent when none
  attempts,  \* sessions begun
  held,      \* the attestations obtained
  draft,     \* a presentation that awaits its signature, Absent when none
  made       \* the presentations made: slot, key, request and selection

walletVars == <<asked, attempts, held, draft, made>>
exchangeVars == <<vpVars, obtainVars, walletVars>>

Http(code, body) == [kind |-> "http", status |-> code, body |-> body]
NoBody == [token |-> Absent, nonce |-> Absent, transaction |-> Absent, credential |-> Absent]
Signature(by, over, length) == [kind |-> "signature", signature |-> [by |-> by, over |-> over, length |-> length]]

ExchangeInit ==
  /\ VpTokenInit /\ ObtainInit
  /\ asked = Absent /\ attempts = 0 /\ held = {} /\ draft = Absent /\ made = {}

-----------------------------------------------------------------------------
(* Issuance.  A nonce is the number of its session. *)

\* The issuer's conditions: its token, and a proof under the key it names over its last nonce.
IssuerAccepts(content) ==
  /\ content.token = attempts
  /\ content.proof.by = content.proof.payload.jwk /\ content.proof.payload.nonce = attempts

\* The attestation, bound to the key of the proof.
Issue(format, key) ==
  LET t == Templates[format] IN
  IF format = "SdJwtVc" THEN [t EXCEPT !.jws.tree.members["cnf"] = Scalar(key)]
  ELSE [t EXCEPT !.documents[1].issuerAuth.mso.deviceKey = key]

\* What may come back for an effect: an error, something else than JSON, a deferral, the answer.
IssuerAnswers(effect) ==
  LET good == CASE effect.endpoint = "token" -> {[NoBody EXCEPT !.token = attempts]}
                [] effect.endpoint = "nonce" -> {[NoBody EXCEPT !.nonce = attempts]}
                [] effect.endpoint = "credential" ->
                     IF ~IssuerAccepts(effect.content) THEN {}
                     ELSE {[NoBody EXCEPT !.credential = Issue(session.offer.format, effect.content.proof.payload.jwk)]}
  IN  {Http(400, NoBody), Http(200, Garbage), Http(200, NoBody)} \union {Http(200, body) : body \in good}
      \union (IF effect.endpoint = "credential"
              THEN {Http(202, NoBody), Http(200, [NoBody EXCEPT !.transaction = "t1"])} ELSE {})

\* The host keeps the effect of its session until it has an answer, and an attestation once obtained.
KeepStep ==
  /\ asked' = CASE step'.kind = "Err" -> asked [] IsTerminal(step') -> Absent [] OTHER -> step'
  /\ held' = IF step'.kind = "Obtained" THEN held \union {step'.value} ELSE held

Begin ==
  /\ attempts < MaxAttempts /\ attempts' = attempts + 1
  /\ \E offer \in Offers, backend \in Backends :
       /\ \A a \in held : a.format # offer.format
       /\ BeginObtain(offer, backend, [jwk |-> HolderKey], PresentedAt)
  /\ KeepStep /\ UNCHANGED <<vpVars, draft, made>>

\* The host resumes with the issuer's answer or a signature of the right length.
Answer ==
  /\ session # Absent
  /\ \E input \in IF asked.kind = "PerformHttp" THEN IssuerAnswers(asked)
                  ELSE {Signature(k, asked.input.over, SignatureLength) : k \in Keys} : ResumeObtain(input)
  /\ KeepStep /\ UNCHANGED <<vpVars, attempts, draft, made>>

\* The host resumes with an input of the wrong kind or a signature of the wrong length.
Misanswer ==
  /\ session # Absent
  /\ ResumeObtain(IF asked.kind = "PerformHttp" THEN Signature(HolderKey, Absent, SignatureLength)
                  ELSE Signature(HolderKey, asked.input.over, SignatureLength - 1))
  /\ KeepStep /\ UNCHANGED <<vpVars, attempts, draft, made>>

-----------------------------------------------------------------------------
(* Presentation *)

\* Bound: what is held is obtained before anything is presented.
Prepare ==
  /\ session = Absent /\ draft = Absent /\ stage = "idle" /\ outcome = Absent /\ set = Absent
  /\ Cardinality(made) < MaxMade
  /\ \E a \in held, request \in Requests : \E disclose \in Selections[a.format] :
       draft' = [prepared |-> PreparePresent(a, request, disclose, PresentedAt), request |-> request, disclose |-> disclose]
  /\ attempts' = MaxAttempts /\ step' = Absent
  /\ UNCHANGED <<vpVars, session, asked, held, made>>

\* The host signs, with any of its keys; a presentation that cannot be finished is given up.
Sign ==
  /\ draft # Absent /\ draft' = Absent
  /\ \/ /\ draft.prepared.kind = "prepared"
        /\ \E k \in Keys, length \in {SignatureLength, SignatureLength - 1} :
             LET slot == Finish(draft.prepared, [by |-> k, over |-> draft.prepared.input.over, length |-> length])
             IN  made' = IF slot.kind = "refused" THEN made
                         ELSE made \union {[slot |-> slot, by |-> k, request |-> draft.request, disclose |-> draft.disclose]}
     \/ draft.prepared.kind = "refused" /\ UNCHANGED made
  /\ UNCHANGED <<vpVars, obtainVars, asked, attempts, held>>

-----------------------------------------------------------------------------
(* Verification *)

TypeOf(slot) ==
  IF slot.format = "SdJwtVc" THEN Vct(slot.presentation) ELSE slot.presentation.documents[1].docType
RoleFor(slot) == IF TypeOf(slot) \in PidTypes THEN "Pid" ELSE "NonQualifiedEaa"
Policy == [formats |-> {}, gate |-> FALSE]

\* check_status, by the host for the presentation it sends.
HostStatus(slot, answer, reachability) ==
  LET claim == IF slot.format = "SdJwtVc" THEN Claim(slot.presentation, "status")
               ELSE Mso(slot.presentation.documents[1]).status
  IN  CheckStatus(StatusReference(claim), answer, reachability)

\* A presentation reaches a verifier, of any request.
VerifyOne ==
  /\ draft = Absent /\ stage = "idle"
  /\ \E m \in made, request \in Requests, now \in Times, answer \in StatusAnswers, reachability \in {"BestEffort", "Strict"} :
       ProcessVerify([schemaVersion |-> SchemaVersion, format |-> m.slot.format, presentation |-> m.slot.presentation,
                      role |-> RoleFor(m.slot), now |-> now, statuses |-> <<HostStatus(m.slot, answer, reachability)>>,
                      tokens |-> [u \in {} |-> Absent], transcript |-> Absent, request |-> request,
                      audience |-> m.slot.audience, policy |-> Policy, gate |-> FALSE, list |-> Absent,
                      schemeAnchors |-> <<>>, anchors |-> HostAnchors])
  /\ UNCHANGED <<obtainVars, walletVars>>

\* Presentations reach a verifier under ids of its query, or of none, more than one under an id;
\* an mdoc may come without its audience.
MadeSlots == {m.slot : m \in made}
BareSlots == {[s EXCEPT !.audience = Absent] : s \in MadeSlots}
SentAs(id, tokens) == [i \in {id} |-> tokens]
SentBoth(s, t) == [id \in {"a", "b"} |-> IF id = "a" THEN <<s>> ELSE <<t>>]
VpTokens ==
  {SentAs("a", <<s>>) : s \in MadeSlots} \union {SentAs("x", <<s>>) : s \in MadeSlots} \union {SentAs("b", <<s>>) : s \in BareSlots}
  \union UNION {{SentBoth(st[1], st[2]), SentAs("a", <<st[1], st[2]>>)} : st \in MadeSlots \X MadeSlots}

VerifySet ==
  /\ draft = Absent /\ stage = "idle"
  /\ \E token \in VpTokens, request \in Requests, given \in {1, 2}, policy \in {Policy} :
       ProcessVpToken([schemaVersion |-> SchemaVersion, request |-> request, vpToken |-> token, policy |-> policy,
                       anchors |-> HostAnchors, now |-> PresentedAt, role |-> "NonQualifiedEaa", tokens |-> [u \in {} |-> Absent],
                       statuses |-> [id \in {"a", "b"} |-> [i \in 1..given |-> <<"Good">>]]])
  /\ UNCHANGED <<obtainVars, walletVars>>

\* A request the wire refuses: of another schema, or with the gate on for a vp_token.
VerifyRefused ==
  /\ draft = Absent /\ stage = "idle" /\ made # {}
  /\ \/ ProcessVerify(Garbage) \/ ProcessVerify([schemaVersion |-> Absent])
     \/ ProcessVpToken([schemaVersion |-> SchemaVersion, policy |-> [Policy EXCEPT !.gate = TRUE]])
  /\ UNCHANGED <<obtainVars, walletVars>>

VerifierWorks == VpTokenStep /\ UNCHANGED <<obtainVars, walletVars>>

ExchangeNext ==
  \/ Begin \/ Answer \/ Misanswer \/ Prepare \/ Sign
  \/ VerifyOne \/ VerifySet \/ VerifyRefused \/ VerifierWorks

\* A host answers the effects of a session it has begun, in the end properly: it is what it
\* obtains the credential for, and its HTTP calls end, if in an error.  A call of the verifier
\* is synchronous.
ExchangeSpec ==
  ExchangeInit /\ [][ExchangeNext]_exchangeVars /\ WF_exchangeVars(Answer) /\ WF_exchangeVars(VerifierWorks)

-----------------------------------------------------------------------------
(* Properties *)

\* What a presentation was made to show meets an entry of a query.
Covers(m, entry) ==
  /\ EntryIsKept(entry) /\ entry.format = m.slot.format
  /\ entry.types \notin {Absent, {}} => TypeOf(m.slot) \in entry.types
  /\ entry.claims # Absent =>
       \A i \in DOMAIN entry.claims :
         [k \in DOMAIN entry.claims[i].path |-> entry.claims[i].path[k].key] \in m.disclose

Verified(presentation, request) ==
  {m \in made : m.slot.presentation = presentation /\ m.by = HolderKey /\ m.request = request}

(* What is accepted for a request was made for that very request, by the holder the attestation
   is bound to: one that was made for another request, or signed with another key, is not,
   however it was delivered (present, verify_response, verify_vp_token). *)
AcceptedWasMadeForIt ==
  stage = "done" /\ verdict.valid => Verified(job.presentation, job.request) # {}

(* The round trip of present.rs: what an honest holder presents of an attestation the issuer
   gave it is accepted, while the attestation is in force and its status good, by a verifier
   that asks for its type in the right role and for no more than was disclosed. *)
HonestIsAccepted ==
  stage = "done" /\ job.statuses # <<>> /\ job.statuses[1] \in {"Good", "NoStatus"} =>
    \A m \in Verified(job.presentation, job.request) :
      /\ job.role = RoleFor(m.slot) /\ job.audience = m.slot.audience
      /\ job.format = "SdJwtVc" => job.now \in (PresentedAt - KbSkew)..(PresentedAt + KbSkew)
      /\ \E i \in DOMAIN job.request.query.credentials : Covers(m, job.request.query.credentials[i])
      => verdict.valid

\* The elements of an mdoc, the disclosures of an SD-JWT.
Shows(slot) ==
  IF slot.format = "Mdoc"
  THEN UNION {{<<e.ns, item.identifier>> : item \in Range(e.items)} : e \in Range(slot.presentation.documents[1].nameSpaces)}
  ELSE {d.digest : d \in Range(slot.presentation.disclosures)}
Digests(D) == {d.digest : d \in Range(D)}
\* A set of its disclosures that holds the claims left out, and of a disclosure it holds all that lies below.
HoldsBack(S, disclose, p) ==
  /\ \A x \in Disclosable(p.jws.tree, p.disclosures) : x.selector \notin disclose => x.digest \in S
  /\ \A d \in S : DigestsBelow(Open(d, p.disclosures).value) \intersect Digests(p.disclosures) \subseteq S

(* A presentation shows what the holder selected, all of it and nothing else: not another
   namespace's element of that name, and of an SD-JWT all but the least that the claims left out
   take along (prepare_present). *)
OnlySelectedIsShown ==
  \A m \in made :
    IF m.slot.format = "Mdoc" THEN Shows(m.slot) = m.disclose
    ELSE LET p   == Issue("SdJwtVc", HolderKey)
             all == Digests(p.disclosures)
         IN  /\ Shows(m.slot) \subseteq all /\ HoldsBack(all \ Shows(m.slot), m.disclose, p)
             /\ \A S \in SUBSET all : HoldsBack(S, m.disclose, p) => all \ Shows(m.slot) \subseteq S

(* A vp_token satisfies the query only if for every credential it needs, by the entries or by an
   option of every required set, a presentation made for this request was accepted that shows
   what this entry asks for, and as many came as it allows (verify_vp_token_slots). *)
SatisfiedMeetsQuery ==
  outcome # Absent /\ outcome.kind = "set" /\ outcome.satisfied =>
    LET query == set.request.query
        Kept  == {e \in Range(query.credentials) : EntryIsKept(e)}
        IsMet(e) ==
          /\ e.id \in DOMAIN answers
          /\ Len(set.vpToken[e.id]) > 1 => e.multiple
          /\ \E i \in DOMAIN answers[e.id] :
               /\ answers[e.id][i].valid
               /\ \E m \in Verified(set.vpToken[e.id][i].presentation, set.request) : Covers(m, e)
    IN  IF query.sets = <<>> THEN Kept # {} /\ \A e \in Kept : IsMet(e)
        ELSE \A i \in DOMAIN query.sets : query.sets[i].required =>
               \E option \in query.sets[i].options :
                 option # {} /\ \A id \in option : \E e \in Kept : e.id = id /\ IsMet(e)

(* A session that is begun comes to its end, whatever the issuer answers and however often the
   host first resumes it wrongly: an error leaves it where it was, no phase is gone through
   twice (resume_obtain). *)
ObtainEnds == session # Absent ~> session = Absent
==============================================================================
