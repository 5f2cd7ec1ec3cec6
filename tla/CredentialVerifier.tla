-------------------------- MODULE CredentialVerifier --------------------------
(***************************************************************************)
(* verify and verify_response (verify.rs, openid4vp/mod.rs, trust/mod.rs):  *)
(* one presentation is verified document by document.  Each document is     *)
(* checked up to its issuer's path, searched for by CertChain, then to its  *)
(* status, whose signer may need a search of its own, then to its end; a    *)
(* valid presentation is held against the query and the qualified gate,     *)
(* which searches for the path of the trust list's signer.                  *)
(***************************************************************************)
EXTENDS CertChain, Mdoc, StatusList, QualifiedGate, Dcql

CONSTANT Jobs  \* the arguments verify is called with

Roles == {"Pid", "Qeaa", "PubEaa", "NonQualifiedEaa"}
CertLists == Seq(Certs \union {Garbage})
IsSequence(s) == s \in Seq(Range(s))
OrNone(S) == {Absent, Garbage} \union S
HasYear(d) == IsValue(d) => d.year \in Int

(* What the decoders make sure of. *)
IsMdocResponse(resp) ==
  resp # Garbage /\ resp.documents # Absent =>
    /\ IsSequence(resp.documents)
    /\ \A d \in Range(resp.documents) :
         /\ IsValue(d.issuerAuth) => d.issuerAuth.x5chain \in OrNone(CertLists)
         /\ d.nameSpaces # Garbage => \A i \in DOMAIN d.nameSpaces : IsSequence(d.nameSpaces[i].items)
         /\ IsValue(d.issuerAuth) /\ Mso(d) # Garbage /\ Mso(d).validityInfo # Absent =>
              LET info == Mso(d).validityInfo IN HasYear(info.signed) /\ HasYear(info.from) /\ HasYear(info.until)
IsSdJwt(p) ==
  p # Garbage =>
    /\ p.jws.x5c \in OrNone(CertLists)
    /\ \A name \in {"iat", "nbf", "exp"} : Claim(p, name) \in OrNone(Int)
    /\ p.kb # Absent => p.kb.iat \in Int
IsListToken(token) ==
  token # Garbage =>
    /\ token.x5c \in OrNone(CertLists) /\ {token.iat, token.exp, token.ttl} \subseteq OrNone(Int)
    /\ token.lst \in {Absent, Garbage, Unreadable} \union Seq(0..255)
\* A list that reaches the gate has been parsed.
IsTrustList(list) ==
  list # Absent => /\ list.signer \in OrNone(Certs) /\ ParseList(list) = list /\ HasYear(list.nextUpdate)
                  /\ \A s \in list.services : IsSequence(s.history) /\ \A h \in Range(s.history) : HasYear(h.start)

\* Arguments the decoders may hand over; the absent value is no challenge.
IsJob(j) ==
  /\ j.format \in Formats /\ j.role \in Roles /\ j.now \in Int /\ j.anchors.now \in Int
  /\ IF j.format = "Mdoc" THEN IsMdocResponse(j.presentation) ELSE IsSdJwt(j.presentation)
  /\ j.statuses \in Seq(StatusOutcomes)
  /\ \A uri \in DOMAIN j.tokens : j.tokens[uri] # Absent /\ IsListToken(j.tokens[uri])
  /\ j.anchors.lists[<<j.role, j.format>>] \in {Absent} \union CertLists
  /\ j.schemeAnchors \in CertLists /\ IsTrustList(j.list)
  /\ j.request # Absent => <<j.request.audience, j.request.nonce>> # Absent
ASSUME JobsAssumption == \A j \in Jobs : IsJob(j)
\* The absent value is no status; every certificate has a key, and statements to read or not.
ASSUME AbsentAssumption ==
  /\ Absent \notin QualifiedStatuses \union {"granted"}
  /\ \A cert \in Certs : cert.key # Absent /\ cert.qc # Absent

VARIABLES
  job,      \* the arguments: presentation, policy, anchors, context, request
  stage,    \* "idle", "document", "trust", "status", "list" or "done"
  doc,      \* the document at hand
  root,     \* the anchor of its issuer's path, Absent before it is found
  status,   \* its resolved status
  claimed,  \* certificate, time and category of each document passed, in order
  shown,    \* the elements of the documents passed
  verdict   \* the result

verifierVars == <<chainVars, job, stage, doc, root, status, claimed, shown, verdict>>

IsMdoc == job.format = "Mdoc"
Docs == IF IsMdoc THEN job.presentation.documents ELSE <<job.presentation>>
Doc == Docs[doc]

\* Mutant: documents whose items do not scan lose their place.
ScanDropsDocuments(docs) ==
  SelectSeq([i \in DOMAIN docs |-> RawItems(docs[i])], LAMBDA raw : DOMAIN raw # {})
\* scan_raw_issuer_items, a document's items at the document's position.
ScanRawIssuerItems(docs) == [i \in DOMAIN docs |-> RawItems(docs[i])]

\* The binding a request asks for: the key binding challenge and the handover transcript.
Challenge == IF job.request = Absent THEN Absent ELSE <<job.request.audience, job.request.nonce>>
Handover(request) == <<request.audience, request.nonce, request.responseUri>>
Transcript == IF job.request = Absent THEN job.transcript ELSE Handover(job.request)

\* Mutant: no status resolved is no status to judge.
MissingStatus(statuses, i) == IF i \in DOMAIN statuses THEN statuses[i] ELSE Absent
\* The status the host resolved for the document at a position: never another one's.
PositionalStatus(statuses, i) == IF i \in DOMAIN statuses THEN statuses[i] ELSE "Unavailable"

-----------------------------------------------------------------------------
(* The steps of a document, by format *)

Role == IF IsMdoc THEN DocRole(Doc, job.role) ELSE SdJwtRole(Doc, job.role)
IssuerChain == IF IsMdoc THEN DocChain(Doc) ELSE Chain(Doc)
BeforeTrust == IF IsMdoc THEN MdocBeforeTrust(Doc, job.role, job.now) ELSE SdJwtBeforeTrust(Doc, job.role)
BeforeStatus == IF IsMdoc THEN MdocBeforeStatus(Doc, job.now) ELSE SdJwtBeforeStatus(Doc, job.now)
AfterStatus ==
  IF ~IsMdoc THEN SdJwtAfterStatus(Doc, Challenge, job.now)
  ELSE LET raw == ScanRawIssuerItems(Docs)
       IN  IF doc \notin DOMAIN raw THEN "DisclosureIntegrity" ELSE MdocAfterStatus(Doc, raw[doc], Transcript)
Reference == StatusReference(IF IsMdoc THEN Mso(Doc).status ELSE Claim(Doc, "status"))
ClaimedIssuer ==
  IF IsMdoc THEN [cert |-> IssuerChain[1], time |-> Signed(Doc), category |-> MdocCategory(Doc)]
  ELSE [cert |-> IssuerChain[1], time |-> IssuanceTime(Doc), category |-> Claim(Doc, "category")]
DocElements == IF IsMdoc THEN Elements(ScanRawIssuerItems(Docs)[doc]) ELSE {}

\* credential_leaf_purpose.
CredentialPurpose(role) == [kind |-> IF IsMdoc THEN "MdocDocumentSigner" ELSE "SdJwtVcIssuer", role |-> role]
SignerPurpose == [kind |-> "TrustListSigner"]
\* An mdoc's certificate is judged when it signed, an SD-JWT's now.
LeafTime == IF IsMdoc THEN Signed(Doc) ELSE Absent

AnchorsFor(role) == job.anchors.lists[<<role, job.format>>]
\* resolve_chain, its time that of the anchor source.
Resolve(role, chain, leafTime, purpose) ==
  VerifyChain([chain |-> chain, anchors |-> AnchorsFor(role), now |-> job.anchors.now,
               leafTime |-> leafTime, purpose |-> purpose])

\* TrustFailure::reason_code.
TrustReason(err) == IF err \in {"LeafExpired", "AnchorExpired"} THEN "Expired" ELSE "UntrustedIssuer"

NoVerdict == [valid |-> FALSE, reason |-> "none", qualified |-> Absent, bound |-> FALSE]
Invalid(reason) == [valid |-> FALSE, reason |-> reason, qualified |-> Absent, bound |-> job.request # Absent]

\* verify_mdoc_bound: a sound signature over another session is a replay, in a response of one document.
Reported(reason) ==
  IF IsMdoc /\ job.request # Absent /\ reason = "HolderBinding" /\ Len(Docs) = 1 /\ MachineryIsSound(Docs[1])
  THEN "Replay" ELSE reason

Refuse(reason) ==
  /\ stage' = "done" /\ verdict' = Invalid(Reported(reason))
  /\ UNCHANGED <<chainVars, job, doc, status, claimed, shown>>

-----------------------------------------------------------------------------
VerifierInit ==
  /\ ChainInit
  /\ job = Absent /\ stage = "idle" /\ doc = 0 /\ root = Absent /\ status = "Unavailable"
  /\ claimed = <<>> /\ shown = {} /\ verdict = NoVerdict

\* Before any document: the policy, the audience and nonce of the request, the response.
BeforeDocuments(j) ==
  IF j.policy.formats # {} /\ j.format \notin j.policy.formats THEN "UnsupportedFormat"
  ELSE IF j.format = "SdJwtVc" THEN
    IF j.request = Absent THEN "ok"
    ELSE IF j.presentation = Garbage \/ j.presentation.kb = Absent THEN "MissingRequestBinding"
    ELSE IF j.presentation.kb.aud # j.request.audience THEN "WrongAudience"
    ELSE IF j.presentation.kb.nonce # j.request.nonce THEN "Replay" ELSE "ok"
  ELSE IF j.request # Absent /\ j.audience = Absent THEN "MissingRequestBinding"
  ELSE IF j.request # Absent /\ j.audience # j.request.audience THEN "WrongAudience"
  ELSE ResponseVerdict(j.presentation)

\* What does not read the request is not bound to it.
BoundBeforeDocuments(j) ==
  /\ j.request # Absent /\ ~(j.policy.formats # {} /\ j.format \notin j.policy.formats)
  /\ ~(j.format = "Mdoc" /\ j.audience = Absent)

Verify(j) ==
  /\ stage = "idle" /\ job' = j
  /\ IF BeforeDocuments(j) = "ok"
     THEN stage' = "document" /\ doc' = 1 /\ UNCHANGED verdict
     ELSE /\ stage' = "done" /\ UNCHANGED doc
          /\ verdict' = [NoVerdict EXCEPT !.reason = BeforeDocuments(j), !.bound = BoundBeforeDocuments(j)]
  /\ UNCHANGED <<chainVars, root, status, claimed, shown>>

StartDocument ==
  /\ stage = "document" /\ root' = Absent
  /\ \/ BeforeTrust # "ok" /\ Refuse(BeforeTrust)
     \/ BeforeTrust = "ok" /\ AnchorsFor(Role) = Absent /\ Refuse("UntrustedIssuer")
     \/ /\ BeforeTrust = "ok" /\ AnchorsFor(Role) # Absent
        /\ stage' = "trust" /\ Resolve(Role, IssuerChain, LeafTime, CredentialPurpose(Role))
        /\ UNCHANGED <<job, doc, status, claimed, shown, verdict>>

\* A step of a search.
Search == Walk /\ UNCHANGED <<job, stage, doc, root, status, claimed, shown, verdict>>

TokenFor(uri) == IF uri \in DOMAIN job.tokens THEN job.tokens[uri] ELSE Absent

\* Without a token the host's outcome counts, but not its "no status".
WithoutToken(positional) == IF positional = "NoStatus" THEN "Unavailable" ELSE positional

Positional == PositionalStatus(job.statuses, doc)

\* The issuer's own key needs no path; no chain is the issuer's.
SignedByIssuer(material) == material = <<>> \/ P256Key(material[1]) = P256Key(IssuerChain[1])

\* resolve_status_outcome, where no search is needed.
NeedsSignerSearch ==
  Reference.kind = "list" /\ TokenHeaderOk(TokenFor(Reference.uri))
  /\ LET material == SignerMaterial(TokenFor(Reference.uri))
     IN  material # Garbage /\ ~SignedByIssuer(material)
ResolvedStatus ==
  CASE Reference.kind = "malformed" -> "Untrusted"
    [] Reference.kind = "none" -> Positional
    [] Reference.kind = "list" ->
         LET token == TokenFor(Reference.uri) IN
         IF token = Absent THEN WithoutToken(Positional)
         ELSE IF ~TokenHeaderOk(token) \/ SignerMaterial(token) = Garbage THEN "Untrusted"
         ELSE TokenOutcome(token, P256Key(IssuerChain[1]), Reference, job.now)

StatusReason(outcome) ==
  CASE outcome = "Revoked" -> "Revoked" [] outcome = "Unavailable" -> "StatusUnavailable"
    [] outcome = "Untrusted" -> "StatusUntrusted" [] OTHER -> "ok"

\* The claims and the types the query is held against (dcql_resolution_set, credential_type_of).
MdocPresented(elements) ==
  LET Values(ns) == {e \in elements : e.ns = ns}
  IN  Plain([ns \in {e.ns : e \in elements} |->
        Plain([id \in {e.id : e \in Values(ns)} |-> Scalar((CHOOSE e \in Values(ns) : e.id = id).value)])])
Presented(elements) == IF IsMdoc THEN MdocPresented(elements) ELSE SdJwtPresented(job.presentation)
Types == IF IsMdoc THEN {Docs[i].docType : i \in DOMAIN Docs} ELSE {Vct(job.presentation)}

Valid(qualified) == [valid |-> TRUE, reason |-> "none", qualified |-> qualified, bound |-> job.request # Absent]

\* The last document passed: the query, then the gate.
NeedsGate == job.policy.gate
ListIsSigned == job.list # Absent /\ job.schemeAnchors # <<>> /\ job.list.signer # Absent
Complete(elements) ==
  /\ LET gate == IF job.request = Absent THEN "Inactive"
                 ELSE EvaluateSingle(job.request.query, job.format, Types, Presented(elements))
     IN  IF gate = "NotSatisfied"
         THEN stage' = "done" /\ verdict' = Invalid("QueryNotSatisfied") /\ UNCHANGED chainVars
         ELSE IF NeedsGate /\ ListIsSigned
         THEN /\ stage' = "list" /\ UNCHANGED verdict
              /\ VerifyChain([chain |-> <<job.list.signer>>, anchors |-> job.schemeAnchors, now |-> job.now,
                              leafTime |-> Absent, purpose |-> SignerPurpose])
         ELSE /\ stage' = "done" /\ UNCHANGED chainVars
              /\ verdict' = Valid(IF NeedsGate THEN "Indeterminate" ELSE Absent)
  /\ UNCHANGED doc

\* The rest of a document once its status is known.
Conclude(outcome) ==
  IF StatusReason(outcome) # "ok" THEN Refuse(StatusReason(outcome))
  ELSE IF AfterStatus # "ok" THEN Refuse(AfterStatus)
  ELSE IF ~NoShadow(shown \union DocElements) THEN Refuse("DisclosureIntegrity")
  ELSE /\ status' = outcome /\ claimed' = Append(claimed, ClaimedIssuer)
       /\ shown' = shown \union DocElements
       /\ UNCHANGED job
       /\ \/ doc = Len(Docs) /\ Complete(shown \union DocElements)
          \/ doc < Len(Docs) /\ stage' = "document" /\ doc' = doc + 1 /\ UNCHANGED <<chainVars, verdict>>

\* The path of the issuer is searched.
Trust ==
  /\ stage = "trust" /\ Answered /\ root' = result.root
  /\ \/ result.verdict # "ok" /\ Refuse(TrustReason(result.verdict))
     \/ result.verdict = "ok" /\ BeforeStatus # "ok" /\ Refuse(BeforeStatus)
     \/ /\ result.verdict = "ok" /\ BeforeStatus = "ok" /\ ~NeedsSignerSearch
        /\ Conclude(ResolvedStatus)
     \/ /\ result.verdict = "ok" /\ BeforeStatus = "ok" /\ NeedsSignerSearch
        /\ Resolve(Role, SignerMaterial(TokenFor(Reference.uri)), Absent, SignerPurpose)
        /\ stage' = "status"
        /\ UNCHANGED <<job, doc, status, claimed, shown, verdict>>

\* Mutant: any root the host trusts will do.
AnyTrustedSigner(signer) == result.verdict = "ok" /\ LeafHasStatusSigningEku(signer)
\* authorize_status_signer: the issuer's own root, and the extended key usage.
SignerIsAuthorized(signer) ==
  result.verdict = "ok" /\ result.root = root /\ LeafHasStatusSigningEku(signer)

StatusSigner ==
  /\ stage = "status" /\ Answered /\ UNCHANGED root
  /\ LET token  == TokenFor(Reference.uri)
         signer == SignerMaterial(token)[1]
     IN  Conclude(TokenOutcome(token, IF SignerIsAuthorized(signer) THEN P256Key(signer) ELSE Absent,
                               Reference, job.now))

\* qualified_status_for, the list's signer searched: never qualified on doubt.
ListSigner ==
  /\ stage = "list" /\ Answered
  /\ stage' = "done"
  /\ verdict' = Valid(IF result.verdict = "ok" /\ IsCurrent(job.list, job.now)
                      THEN FoldQualified({StatusOf(claimed[i], job.list) : i \in DOMAIN claimed})
                      ELSE "Indeterminate")
  /\ UNCHANGED <<chainVars, job, doc, root, status, claimed, shown>>

VerifierStep == StartDocument \/ Search \/ Trust \/ StatusSigner \/ ListSigner

\* The call returns: its locals are gone.
Deliver ==
  /\ stage = "done" /\ stage' = "idle" /\ job' = Absent /\ doc' = 0 /\ root' = Absent
  /\ status' = "Unavailable" /\ claimed' = <<>> /\ shown' = {} /\ verdict' = NoVerdict
  /\ call' = [chain |-> <<>>, anchors |-> <<>>] /\ stack' = <<>> /\ budget' = 0
  /\ lastErr' = "IssuerMismatch" /\ result' = NoResult

VerifierNext == (\E j \in Jobs : Verify(j)) \/ VerifierStep \/ Deliver
\* verify is one synchronous call: nothing keeps it from its next step.
VerifierSpec == VerifierInit /\ [][VerifierNext]_verifierVars /\ WF_verifierVars(VerifierStep)

-----------------------------------------------------------------------------
(* Properties *)

VerifierTypeOK ==
  /\ ChainTypeOK
  /\ stage \in {"idle", "document", "trust", "status", "list", "done"}
  /\ doc \in Nat /\ status \in StatusOutcomes
  /\ verdict.valid \in BOOLEAN /\ verdict.qualified \in QualifiedStatuses \union {Absent}

\* A document passes in this step.
Passes == Len(claimed') = Len(claimed) + 1

\* Unix seconds of a tdate, by counting days.
Counted(d) == CountedDays(d.year, d.month, d.day) * 86400 + d.hour * 3600 + d.minute * 60 + d.second

\* An extension asserts a value.
Asserts(extension, v) == extension \notin {Absent, Unreadable} /\ v \in extension

\* The digest of an item is one its issuer signed.
IsDigested(ns, item, mso) ==
  /\ item.digestID \in DOMAIN mso.valueDigests[ns]
  /\ mso.valueDigests[ns][item.digestID] = <<mso.digestAlgorithm, item>>

\* The roots that may vouch for a type: a PID's those of PID issuers, whatever the caller asked for.
RootsFor(type) == job.anchors.lists[<<IF type \in PidTypes THEN "Pid" ELSE job.role, job.format>>]

\* What a device or a key binding JWT must have signed: this presentation, for this request.
SessionOf(request) ==
  IF request = Absent THEN job.transcript ELSE <<request.audience, request.nonce, request.responseUri>>

\* Of a namespace that is repeated an item may stay unread: it is shown nowhere.
IsNamedOnce(entries, i) == \A k \in DOMAIN entries : entries[k].ns = entries[i].ns => k = i

MdocIsSound(d) ==
  LET info == Mso(d).validityInfo IN
  /\ d.issuerAuth.by = DocChain(d)[1].key /\ Mso(d).docType = d.docType
  /\ Counted(info.signed) <= job.now /\ Counted(info.signed) <= Counted(info.from)
  /\ Counted(info.from) <= job.now /\ job.now <= Counted(info.until)
  /\ DocChain(d)[1].from <= Counted(info.signed) /\ Counted(info.signed) <= DocChain(d)[1].to
  /\ \A i \in DOMAIN d.nameSpaces : \A j \in DOMAIN d.nameSpaces[i].items :
       IsRead(d.nameSpaces[i].items[j]) \/ IsNamedOnce(d.nameSpaces, i) =>
         IsDigested(d.nameSpaces[i].ns, d.nameSpaces[i].items[j], Mso(d))
  /\ d.deviceSigned.signature.by = Mso(d).deviceKey
  /\ d.deviceSigned.signature.over = <<SessionOf(job.request), d.docType, d.deviceSigned.nameSpaces>>

SdJwtIsSound(p) ==
  LET nbf == Claim(p, "nbf")
      exp == Claim(p, "exp")
  IN  /\ p.jws.by = p.jws.x5c[1].key
      /\ nbf # Absent => nbf <= 2 * job.now
      /\ exp # Absent => 2 * job.now < exp
      /\ p.jws.x5c[1].from <= job.anchors.now /\ job.anchors.now <= p.jws.x5c[1].to
      /\ job.request # Absent =>
           /\ p.kb.by = Claim(p, "cnf") /\ p.kb.sdHash = <<p.jws, p.disclosures>>
           /\ p.kb.aud = job.request.audience /\ p.kb.nonce = job.request.nonce
           /\ p.kb.iat \in (job.now - KbSkew)..(job.now + KbSkew)

MeetsBar ==
  LET type   == IF IsMdoc THEN Mso(Doc).docType ELSE Vct(Doc)
      issuer == IssuerChain[1]
  IN  /\ root' # Garbage /\ \E i \in DOMAIN RootsFor(type) : RootsFor(type)[i] = root'
      /\ root' = issuer \/
           /\ issuer.ca = "none"
           /\ IF IsMdoc THEN Asserts(issuer.eku, "mdlDS") ELSE type \in PidTypes => Asserts(issuer.qc, "QctPid")
      /\ IF IsMdoc THEN MdocIsSound(Doc) ELSE SdJwtIsSound(Doc)

(* No document passes short of the bar, wherever it stands in the response: its issuer
   certificate has a path to a root trusted for the type it claims and the profile of its role,
   the items of an mdoc are what the issuer signed, it is in force to the second, and the holder
   signed this presentation for this request (verify, verify_response). *)
DocumentMeetsBar == [][Passes => MeetsBar]_verifierVars

\* Where the issuer signed a digest: in its claims (0) or in a disclosure, how far down, which one there.
SignedAt(p, digest) ==
  LET Tree(n)    == IF n = 0 THEN p.jws.tree ELSE p.disclosures[n].value
      Digests(v) == IF v.kind = "object" THEN v.sd ELSE IF v.kind = "redacted" THEN <<v.digest>> ELSE <<>>
      Here(v)    == {i \in DOMAIN Digests(v) : Digests(v)[i] = digest}
      In(n)      == UNION {{<<n, path, i>> : i \in Here(Node(Tree(n), path, <<>>))} : path \in Walks(Tree(n), <<>>)}
  IN  UNION {In(n) : n \in 0..Len(p.disclosures)}
Signs(p, digest) == Cardinality(SignedAt(p, digest)) = 1

Side(place) == <<place[1], place[2]>>   \* by side: digests of the same object

(* What an SD-JWT discloses its issuer signed: each disclosure's digest stands in exactly one
   place of the claims or of another disclosure, and no two disclosures put into the same object,
   at whatever depth, have one name (reconstruct_claim_set). *)
DisclosuresAreSigned ==
  [][Passes /\ ~IsMdoc =>
       LET D == Doc.disclosures IN
       /\ \A i \in DOMAIN D : Signs(Doc, D[i].digest)
       /\ \A i, j \in DOMAIN D : i # j /\ D[i].name = D[j].name =>
            \A a \in SignedAt(Doc, D[i].digest), b \in SignedAt(Doc, D[j].digest) :
              Side(a) # Side(b)]_verifierVars

(* What is reported as disclosed was signed by the issuer of a document that has passed: no
   document lends its items to another, even when one before it has none to show
   (scan_raw_issuer_items, the pairing by position in verify_inner). *)
ShownIsSigned ==
  \A e \in shown : \E n \in DOMAIN claimed :
    \E i \in DOMAIN Docs[n].nameSpaces : \E j \in DOMAIN Docs[n].nameSpaces[i].items :
      LET item == Docs[n].nameSpaces[i].items[j]
          ns   == Docs[n].nameSpaces[i].ns
      IN  /\ <<e.ns, e.id, e.value>> = <<ns, item.identifier, item.value>>
          /\ IsDigested(ns, item, Mso(Docs[n]))

\* The list token proves the entry: it is about this list, alive, says valid, and was signed by
\* the issuer or by a certificate for it under the issuer's own root.
Proves(token, list, issuer) ==
  LET half(t) == (t + 1) \div 2 IN
  /\ token.sub = list.uri
  /\ token.exp # Absent => 2 * job.now < token.exp
  /\ token.ttl # Absent => half(token.iat) + half(token.ttl) \in job.now..MaxI64
  /\ (list.idx + 1) * token.bits <= 8 * Len(token.lst)
  /\ EntryAt(token.lst, list.idx, token.bits) = 0
  /\ \/ token.by = issuer.key
     \/ /\ token.by = token.x5c[1].key /\ Asserts(token.x5c[1].eku, "statusSigning")
        /\ result.verdict = "ok" /\ result.root = root'

\* The document at hand names no list and the host knows no worse, or its list proves it.
IsOfKnownStatus ==
  LET claim == IF IsMdoc THEN Mso(Doc).status ELSE Claim(Doc, "status")
      host  == IF doc \in DOMAIN job.statuses THEN job.statuses[doc] ELSE "Unavailable"
  IN  IF claim = Absent \/ claim.list = Absent THEN host \in {"Good", "NoStatus"}
      ELSE IF claim.list.uri \in DOMAIN job.tokens
      THEN Proves(job.tokens[claim.list.uri], claim.list, IssuerChain[1])
      ELSE host = "Good"

(* A document passes only if its status is known to be good: by a token that proves it, by what
   the host resolved for this very document, and "no status" only where it names no list
   (resolve_status_outcome, verify_status_list_token): every doubt refuses. *)
StatusIsKnown == [][Passes => IsOfKnownStatus]_verifierVars

(* Qualified is earned: the list was current by the calendar and signed under a scheme anchor
   when the call was made, and every document's issuer was a granted qualified service, by
   certificate or key, when that document was issued (qualified_status_for, fold_qualified). *)
QualifiedIsEarned ==
  verdict.qualified = "Qualified" =>
    /\ verdict.valid /\ job.policy.gate /\ job.now < Counted(job.list.nextUpdate)
    /\ result.verdict = "ok" /\ \E i \in DOMAIN job.schemeAnchors : job.schemeAnchors[i] = result.root
    /\ Len(claimed) = Len(Docs)
    /\ \A n \in DOMAIN Docs : \E s \in job.list.services :
         LET cert  == IF IsMdoc THEN DocChain(Docs[n])[1] ELSE Chain(Docs[n])[1]
             begun == {i \in DOMAIN s.history : Counted(s.history[i].start) <= claimed[n].time}
         IN  /\ s.type = "EAA/Q" /\ claimed[n].category = "eaa-eu-qualified"
             /\ s.cert = cert \/ (IF s.ski # Absent THEN s.ski ELSE s.cert.key) \in {cert.key, cert.by}
             /\ \E i \in begun : /\ s.history[i].status = "granted"
                                 /\ \A j \in begun : Counted(s.history[j].start) <= Counted(s.history[i].start)

(* What passes a request was made for it: a valid bound presentation answers an entry of the
   query the verifier sent, of its format and, where types are named, of a named type, in
   every document (evaluate_single). *)
AnswersTheQuery ==
  verdict.valid /\ verdict.bound /\ job.request.query # Absent =>
    \/ \A i \in DOMAIN job.request.query.credentials : ~EntryIsKept(job.request.query.credentials[i])
    \/ \E i \in DOMAIN job.request.query.credentials :
         LET q == job.request.query.credentials[i] IN
         /\ EntryIsKept(q) /\ q.format = job.format
         /\ q.types \notin {Absent, {}} =>
              \A n \in DOMAIN Docs : (IF IsMdoc THEN Docs[n].docType ELSE Vct(Docs[n])) \in q.types
==============================================================================
