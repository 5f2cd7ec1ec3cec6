------------------------------ MODULE SigningCore ------------------------------
(***************************************************************************)
(* The sans-IO signing state machine of cleverbase-core: `begin` and        *)
(* `resume` (crates/cleverbase-core/src/signing/mod.rs), the handle they    *)
(* carry, and the host that drives them: it performs each effect, feeds the *)
(* answer back, persists what it got, and may crash and restore.            *)
(*                                                                         *)
(* A document is signed at most once per flow, so the bytes are abstracted  *)
(* to what later checks tell apart: a staged PDF is its claimed time and    *)
(* signer name, the signed attributes are (digest of the staged PDF, leaf), *)
(* and a hash is the value hashed.  A leaf certificate is its subject.      *)
(***************************************************************************)
EXTENDS Integers

CONSTANTS
  Subjects,        \* signers; also their leaf certificates and keys
  Credentials,     \* CSC credential ids
  Times,           \* values the host clock may show
  DocKinds,        \* what the submitted bytes are, among AllDocKinds
  None,            \* an absent Option
  PersistEffects,  \* the host saves the pending effect next to the handle
  MaxFresh,        \* bound: fresh entropy draws that the flow keeps
  MaxRestarts      \* bound: crashes of the host

AllDocKinds == {"unsigned", "not_pdf", "signed", "hidden_signature",
                "no_pages", "off_page", "unloadable"}

\* CoreError
Errors == {"MissingTsaConfig", "BadHandle", "UnexpectedInput", "StateMismatch",
           "ProtocolParse", "Internal"}

ASSUME SubjectsAssumption == None \notin Subjects
ASSUME CredentialsAssumption == None \notin Credentials
ASSUME TimesAssumption == None \notin Times
ASSUME DocKindsAssumption == DocKinds \subseteq AllDocKinds
ASSUME PersistAssumption == PersistEffects \in BOOLEAN

Levels == {"BB", "BT"}
Terminal == {"Completed", "Failed"}
AuthPending == {"ServiceAuthPending", "CredentialAuthPending"}

\* The order of the enum SigningPhase is the order of the flow.
PhaseRank ==
  [Idle |-> 0, ServiceAuthPending |-> 1, ServiceTokenPending |-> 2,
   ListPending |-> 3, InfoPending |-> 4, CredentialAuthPending |-> 5,
   CredentialTokenPending |-> 6, SignPending |-> 7, TimestampPending |-> 8,
   Completed |-> 9, Failed |-> 9]
Phases == DOMAIN PhaseRank

Opt(S) == {None} \cup S
Staged == [time : Times, name : Subjects]
Attrs == [digest : Staged, cert : Subjects]
Signature == [by : Subjects, over : Opt(Attrs)]   \* over None: garbage
Cms == [attrs : Attrs, sig : Signature, token : {None}]   \* before the timestamp
Requests == [level : Levels, expected : Opt(Subjects), doc : DocKinds]
Configs == [tsa : BOOLEAN]

\* An absent option is none of the values an option holds.
ASSUME NoneAssumption ==
  /\ None \notin Nat /\ None \notin Errors /\ None \notin Staged /\ None \notin Attrs
  /\ None \notin Cms /\ None \notin Requests /\ None \notin Configs

VARIABLES
  handle,      \* the SigningSessionHandle the host holds
  step,        \* the Step returned with it
  err,         \* the CoreError of the last call, None if it succeeded
  inbox,       \* an answer the host received and has not fed to resume
  durable,     \* what the host persisted
  asked,       \* the request given to begin
  fresh,       \* entropy drawn so far; a draw is never repeated
  browser,     \* authorization redirects issued to a browser
  approved,    \* OAuth states of the redirects the signer approved
  spent,       \* codes exchanged and SADs used at the trust service
  signatures,  \* signatures really made by a signer's key
  queries,     \* timestamp requests sent to the TSA
  restarts

core == <<handle, step, err>>
trust == <<approved, spent, signatures>>
vars == <<handle, step, err, inbox, durable, asked, fresh, browser, queries,
          approved, spent, signatures, restarts>>

NoStep == [kind |-> "none"]
Redirect(s, scope, cred, hash) ==
  [kind |-> "redirect", state |-> s, scope |-> scope, credential |-> cred, hash |-> hash]
Http(op) == [kind |-> "http", op |-> op]
TokenExchange(code) == [kind |-> "http", op |-> "token", code |-> code]
SignHash(h, sad) ==
  [kind |-> "http", op |-> "sign", credential |-> h.credential, sad |-> sad, hash |-> h.attrs]
TsaRequest(h) ==
  [kind |-> "http", op |-> "tsa", nonce |-> h.nonce, imprint |-> h.cms.sig]
FailedStep(outcome, signer) == [kind |-> "failed", outcome |-> outcome, signer |-> signer]

Blank == [phase |-> "Idle", level |-> None, state |-> None, credential |-> None,
          token |-> None, chain |-> None, attrs |-> None, staged |-> None,
          cms |-> None, nonce |-> None, time |-> None, signer |-> None,
          request |-> None, config |-> None]

Init ==
  /\ handle = Blank /\ step = NoStep /\ err = None /\ inbox = None
  /\ durable = [handle |-> Blank, step |-> NoStep]
  /\ asked = None /\ fresh = 0 /\ browser = {} /\ queries = {}
  /\ approved = {} /\ spent = {} /\ signatures = {} /\ restarts = 0

-----------------------------------------------------------------------------
\* Ends of a call.

Scrub(h) ==
  [h EXCEPT !.state = None, !.credential = None, !.token = None, !.chain = None,
            !.attrs = None, !.staged = None, !.cms = None, !.nonce = None,
            !.request = None, !.config = None]

Emit(h, s) == handle' = h /\ step' = s /\ err' = None

Fail(h, outcome) ==
  Emit([Scrub(h) EXCEPT !.phase = "Failed"], FailedStep(outcome, h.signer))

Finalize(h, pdf) ==
  Emit([Scrub(h) EXCEPT !.phase = "Completed"],
       [kind |-> "done", pdf |-> pdf, level |-> h.level,
        signer |-> h.signer, time |-> h.time])

\* An Err: the host still has the handle and the step it called with.
Reject(e) == err' = e /\ UNCHANGED <<handle, step>>

NoDraw == UNCHANGED <<fresh, browser, queries>>

-----------------------------------------------------------------------------
\* begin

BeginRefused(req, tsa) ==
  /\ req.level = "BT" /\ ~tsa
  /\ Reject("MissingTsaConfig")
  /\ UNCHANGED <<asked, fresh, browser>>

BeginInvalid(req, tsa) ==
  /\ ~(req.level = "BT" /\ ~tsa)
  /\ req.doc \in {"not_pdf", "signed"}
  /\ Emit([Blank EXCEPT !.phase = "Failed", !.level = req.level],
          FailedStep("InvalidDocument", None))
  /\ asked' = req
  /\ UNCHANGED <<fresh, browser>>

BeginAccepted(req, tsa) ==
  /\ ~(req.level = "BT" /\ ~tsa)
  /\ req.doc \notin {"not_pdf", "signed"}
  /\ fresh < MaxFresh
  /\ fresh' = fresh + 1
  /\ LET r == Redirect(fresh', "service", None, None)
     IN  /\ Emit([Blank EXCEPT !.phase = "ServiceAuthPending", !.level = req.level,
                               !.state = fresh', !.request = req,
                               !.config = [tsa |-> tsa]], r)
         /\ browser' = browser \cup {r}
  /\ asked' = req

Begin ==
  /\ handle.phase = "Idle" /\ inbox = None
  /\ \E req \in Requests, tsa \in BOOLEAN :
       BeginRefused(req, tsa) \/ BeginInvalid(req, tsa) \/ BeginAccepted(req, tsa)
  /\ UNCHANGED <<inbox, durable, queries, trust, restarts>>

-----------------------------------------------------------------------------
\* resume.  Each arm reads `inbox`, which the caller clears.

\* The options an arm takes out of the handle, else BadHandle("missing ...").
\* The code reports them where it first needs them; here they come first.
Required ==
  [p \in Phases |->
     CASE p = "ListPending" -> {"token"}
       [] p = "InfoPending" -> {"request", "credential"}
       [] p = "CredentialTokenPending" -> {"credential", "attrs", "token"}
       [] p = "SignPending" -> {"chain", "attrs", "staged"}
       [] p = "TimestampPending" -> {"nonce", "cms", "staged"}
       [] OTHER -> {}]

Carried(h) ==
  /\ h.config # None
  /\ \A f \in Required[h.phase] : h[f] # None
  /\ h.phase = "SignPending" /\ h.level = "BT" => h.config.tsa

\* Mutant: fails the session, even a completed one.
ResumeBadHandleFails ==
  ~Carried(handle) /\ Fail(handle, "CredentialUnavailable") /\ NoDraw

ResumeBadHandle == ~Carried(handle) /\ Reject("BadHandle") /\ NoDraw

At(p) == handle.phase = p /\ Carried(handle)

\* A decline or OAuth error came back to the redirect.
ResumeRedirectError ==
  /\ Carried(handle) /\ inbox.kind = "error" /\ NoDraw
  /\ \/ handle.phase \notin AuthPending /\ Reject("UnexpectedInput")
     \/ handle.phase \in AuthPending /\ handle.state # inbox.state /\ Reject("StateMismatch")
     \/ /\ handle.phase \in AuthPending /\ handle.state = inbox.state
        /\ Fail(handle, IF inbox.denied THEN "Declined" ELSE "AuthorizationExpired")

\* require_http / require_redirect: the input is not what the phase awaits.
ResumeUnexpected ==
  /\ Carried(handle) /\ NoDraw
  /\ \/ handle.phase \in AuthPending /\ inbox.kind = "http"
     \/ handle.phase \notin AuthPending /\ inbox.kind = "return"
  /\ Reject("UnexpectedInput")

\* Mutant: leaves the consumed state on the handle.
ResumeAuthKeepsState(p, next) ==
  /\ At(p) /\ inbox.kind = "return" /\ NoDraw
  /\ IF handle.state # inbox.state
     THEN Reject("StateMismatch")
     ELSE Emit([handle EXCEPT !.phase = next], TokenExchange(inbox.code))

\* Mutant: does not compare the returned state.
ResumeAuthAnyState(p, next) ==
  /\ At(p) /\ inbox.kind = "return" /\ NoDraw
  /\ Emit([handle EXCEPT !.state = None, !.phase = next], TokenExchange(inbox.code))

\* The state check and the token exchange, the same in both authorizations.
ResumeAuth(p, next) ==
  /\ At(p) /\ inbox.kind = "return" /\ NoDraw
  /\ IF handle.state # inbox.state
     THEN Reject("StateMismatch")
     ELSE Emit([handle EXCEPT !.state = None, !.phase = next], TokenExchange(inbox.code))

Answered(p) == At(p) /\ inbox.kind = "http"
\* Mutant: hands a non-2xx status back instead of failing the flow.
RefusedIsAnError(p, outcome) ==
  Answered(p) /\ inbox.status = "rejected" /\ Reject("UnexpectedInput") /\ NoDraw

\* A non-2xx status fails the flow; a body that does not parse is an Err.
Refused(p, outcome) ==
  Answered(p) /\ inbox.status = "rejected" /\ Fail(handle, outcome) /\ NoDraw
Unparsable(p) ==
  Answered(p) /\ inbox.status = "malformed" /\ Reject("ProtocolParse") /\ NoDraw
Answer(p) == Answered(p) /\ inbox.status = "ok"

ResumeServiceToken ==
  \/ Refused("ServiceTokenPending", "CredentialUnavailable")
  \/ Unparsable("ServiceTokenPending")
  \/ /\ Answer("ServiceTokenPending") /\ NoDraw
     /\ Emit([handle EXCEPT !.token = inbox.body, !.phase = "ListPending"], Http("list"))

ResumeList ==
  \/ Refused("ListPending", "CredentialUnavailable")
  \/ Unparsable("ListPending")
  \/ /\ Answer("ListPending") /\ NoDraw
     /\ IF inbox.body = None
        THEN Fail(handle, "CredentialUnavailable")
        ELSE Emit([handle EXCEPT !.credential = inbox.body, !.phase = "InfoPending"],
                  Http("info"))

\* signer_identity: the direct fields when the service sent both, else the leaf.
SignerIdentity(info) == IF info.direct # None THEN info.direct ELSE info.leaf

\* Mutant: any identity will do.
MatchesAnyone(req, identity) == req.expected # None => identity # None

MatchesExpected(req, identity) == req.expected # None => req.expected = identity

\* container::prepare refuses what begin's scan of the raw bytes cannot see.
PrepareOutcome(doc) ==
  CASE doc \in {"hidden_signature", "no_pages"} -> "InvalidDocument"
    [] doc = "off_page" -> "AppearancePlacementError"
    [] OTHER -> "ok"

\* Mutant: signed attributes without the ESS signing certificate.
PreparedWithoutEss(h, info, now, s) ==
  LET staged == [time |-> now, name |-> info.leaf]
  IN  [h EXCEPT !.chain = info.leaf, !.staged = staged, !.time = now,
                !.attrs = [digest |-> staged],
                !.signer = SignerIdentity(info), !.state = s,
                !.phase = "CredentialAuthPending"]

\* Mutant: forgets the certificate chain.
PreparedWithoutChain(h, info, now, s) ==
  LET staged == [time |-> now, name |-> info.leaf]
  IN  [h EXCEPT !.staged = staged, !.time = now,
                !.attrs = [digest |-> staged, cert |-> info.leaf],
                !.signer = SignerIdentity(info), !.state = s,
                !.phase = "CredentialAuthPending"]

Prepared(h, info, now, s) ==
  LET staged == [time |-> now, name |-> info.leaf]
  IN  [h EXCEPT !.chain = info.leaf, !.staged = staged, !.time = now,
                !.attrs = [digest |-> staged, cert |-> info.leaf],
                !.signer = SignerIdentity(info), !.state = s,
                !.phase = "CredentialAuthPending"]

Unusable(info) == info.algo = "Other" \/ info.scal = "other" \/ info.leaf = None

\* Mutant: the authorization is not bound to the hash.
ResumeInfoUnbound(info) ==
  /\ fresh < MaxFresh
  /\ fresh' = fresh + 1
  /\ \E now \in Times :
       LET h == Prepared(handle, info, now, fresh')
           r == Redirect(fresh', "credential", h.credential, None)
       IN  Emit(h, r) /\ browser' = browser \cup {r}
  /\ UNCHANGED queries

ResumeInfoAccepted(info) ==
  /\ fresh < MaxFresh
  /\ fresh' = fresh + 1
  /\ \E now \in Times :
       LET h == Prepared(handle, info, now, fresh')
           r == Redirect(fresh', "credential", h.credential, h.attrs)
       IN  Emit(h, r) /\ browser' = browser \cup {r}
  /\ UNCHANGED queries

ResumeInfo ==
  \/ Refused("InfoPending", "CredentialUnavailable")
  \/ Unparsable("InfoPending")
  \/ /\ Answer("InfoPending")
     /\ LET info == inbox.body
            named == [handle EXCEPT !.signer = SignerIdentity(info)]
            outcome == PrepareOutcome(handle.request.doc)
        IN  \/ Unusable(info) /\ Fail(handle, "CredentialUnavailable") /\ NoDraw
            \/ /\ ~Unusable(info)
               /\ \/ /\ ~MatchesExpected(handle.request, named.signer)
                     /\ Fail(named, "IdentityMismatch") /\ NoDraw
                  \/ /\ MatchesExpected(handle.request, named.signer)
                     /\ \/ outcome # "ok" /\ Fail(named, outcome) /\ NoDraw
                        \/ handle.request.doc = "unloadable" /\ Reject("Internal") /\ NoDraw
                        \/ handle.request.doc = "unsigned" /\ ResumeInfoAccepted(info)

\* The SAD goes straight into the signHash effect; the handle never holds it.
ResumeCredentialToken ==
  \/ Refused("CredentialTokenPending", "AuthorizationExpired")
  \/ Unparsable("CredentialTokenPending")
  \/ /\ Answer("CredentialTokenPending") /\ NoDraw
     /\ Emit([handle EXCEPT !.phase = "SignPending"], SignHash(handle, inbox.body))

\* Mutant: checks the message digest only.
CmsDigestMatches(h, cms) == cms.attrs.digest = h.staged

\* A signature or chain that CMS cannot carry is an Err (assemble_signed_data).
\* Otherwise verify_signed_data, then message-digest against the staged PDF's ByteRange.
CmsVerifies(h, cms) ==
  /\ cms.sig.by = cms.attrs.cert
  /\ cms.sig.over = cms.attrs
  /\ cms.attrs.digest = h.staged

Embed(h, cms, fits) ==
  IF fits THEN Finalize(h, [staged |-> h.staged, cms |-> cms]) ELSE Reject("Internal")

ResumeSignAccepted(cms, fits) ==
  \/ handle.level = "BB" /\ Embed(handle, cms, fits) /\ NoDraw
  \/ /\ handle.level = "BT" /\ fresh < MaxFresh
     /\ fresh' = fresh + 1
     /\ LET h == [handle EXCEPT !.cms = cms, !.nonce = fresh', !.phase = "TimestampPending"]
        IN  /\ Emit(h, TsaRequest(h))
            /\ queries' = queries \cup {[nonce |-> fresh', imprint |-> cms.sig]}
     /\ UNCHANGED browser

ResumeSign ==
  \/ Refused("SignPending", "CredentialUnavailable")
  \/ Unparsable("SignPending")
  \/ /\ Answer("SignPending")
     /\ LET cms == [attrs |-> handle.attrs, sig |-> inbox.body.sig, token |-> None]
        IN  \/ /\ inbox.body.sig = None
               /\ Fail(handle, "CredentialUnavailable") /\ NoDraw
            \/ /\ inbox.body.sig # None /\ ~inbox.body.built
               /\ Reject("Internal") /\ NoDraw
            \/ /\ inbox.body.sig # None /\ inbox.body.built /\ ~CmsVerifies(handle, cms)
               /\ Fail(handle, "SignatureInvalid") /\ NoDraw
            \/ /\ inbox.body.sig # None /\ inbox.body.built /\ CmsVerifies(handle, cms)
               /\ ResumeSignAccepted(cms, inbox.body.fits)

\* Mutant: ignores the nonce.
TokenCovers(h, t) == t.imprint = h.cms.sig

\* parse_response failing is a failed timestamp, not an Err.
TokenBound(h, t) == t.nonce = h.nonce /\ t.imprint = h.cms.sig

ResumeTimestamp ==
  /\ Answered("TimestampPending") /\ NoDraw
  /\ \/ inbox.status # "ok" /\ Fail(handle, "TimestampFailed")
     \/ /\ inbox.status = "ok"
        /\ LET t == inbox.body.token
           IN  \/ ~TokenBound(handle, t) /\ Fail(handle, "TimestampFailed")
               \/ /\ TokenBound(handle, t)
                  /\ Embed(handle, [handle.cms EXCEPT !.token = t], inbox.body.fits)

Resume ==
  /\ inbox # None
  /\ \/ ResumeBadHandle
     \/ ResumeRedirectError
     \/ ResumeUnexpected
     \/ ResumeAuth("ServiceAuthPending", "ServiceTokenPending")
     \/ ResumeServiceToken
     \/ ResumeList
     \/ ResumeInfo
     \/ ResumeAuth("CredentialAuthPending", "CredentialTokenPending")
     \/ ResumeCredentialToken
     \/ ResumeSign
     \/ ResumeTimestamp
  /\ inbox' = None
  /\ UNCHANGED <<durable, asked, trust, restarts>>

-----------------------------------------------------------------------------
\* The world outside the core: trust service, TSA, browser and host.

HttpResult(status, body) == [kind |-> "http", status |-> status, body |-> body]

Infos == [algo : {"supported", "Other"}, scal : {"2", "other"},
          leaf : Opt(Subjects), direct : Opt(Subjects)]

Pending(op) == inbox = None /\ step.kind = "http" /\ step.op = op

Deliver(x) ==
  inbox' = x /\ UNCHANGED <<core, durable, asked, fresh, browser, queries, restarts>>

\* A non-2xx answer, or one whose body is garbage, may come at any time.
PerformBadly ==
  /\ inbox = None /\ step.kind = "http"
  /\ \E status \in {"rejected", "malformed"} : Deliver(HttpResult(status, None))
  /\ UNCHANGED trust

\* An authorization code is exchanged once; the token it buys is named after it.
PerformToken ==
  /\ Pending("token") /\ <<"token", step.code>> \notin spent
  /\ Deliver(HttpResult("ok", step.code))
  /\ spent' = spent \cup {<<"token", step.code>>}
  /\ UNCHANGED <<approved, signatures>>

PerformList ==
  /\ Pending("list")
  /\ \E c \in Opt(Credentials) : Deliver(HttpResult("ok", c))
  /\ UNCHANGED trust

PerformInfo ==
  /\ Pending("info")
  /\ \E info \in Infos : Deliver(HttpResult("ok", info))
  /\ UNCHANGED trust

\* A SAD makes one signature, over whatever hash signHash was given.
PerformSign ==
  /\ Pending("sign") /\ <<"sign", step.sad>> \notin spent
  /\ \E by \in Subjects, built \in BOOLEAN, fits \in BOOLEAN :
       LET sig == [by |-> by, over |-> step.hash]
       IN  /\ Deliver(HttpResult("ok", [sig |-> sig, built |-> built, fits |-> fits]))
           /\ signatures' = signatures \cup {sig}
  /\ spent' = spent \cup {<<"sign", step.sad>>}
  /\ UNCHANGED approved

\* A 2xx answer with no signature or a wrong one.
PerformSignWrongly ==
  /\ Pending("sign")
  /\ \E sig \in {None} \cup [by : Subjects, over : {None}] :
       Deliver(HttpResult("ok", [sig |-> sig, built |-> TRUE, fits |-> TRUE]))
  /\ UNCHANGED trust

\* A granted token: for a query of ours (this one or an earlier one), or forged.
PerformTsa ==
  /\ Pending("tsa")
  /\ \E q \in queries \cup {[nonce |-> 0, imprint |-> step.imprint],
                            [nonce |-> step.nonce, imprint |-> None]}, fits \in BOOLEAN :
       Deliver(HttpResult("ok", [token |-> q, fits |-> fits]))
  /\ UNCHANGED trust

Perform ==
  PerformBadly \/ PerformToken \/ PerformList \/ PerformInfo \/ PerformSign
  \/ PerformSignWrongly \/ PerformTsa

\* Any redirect ever issued may come back, at any time and more than once.
UserApproves(r) ==
  /\ inbox = None
  /\ Deliver([kind |-> "return", code |-> r.state, state |-> r.state])
  /\ approved' = approved \cup {r.state}
  /\ UNCHANGED <<spent, signatures>>

UserRefuses(r) ==
  /\ inbox = None
  /\ \E denied \in BOOLEAN : Deliver([kind |-> "error", denied |-> denied, state |-> r.state])
  /\ UNCHANGED trust

\* A callback nobody asked for: its state was never drawn.
ForgedCallback ==
  /\ inbox = None
  /\ \/ Deliver([kind |-> "return", code |-> 0, state |-> 0])
     \/ Deliver([kind |-> "error", denied |-> TRUE, state |-> 0])
  /\ UNCHANGED trust

\* Saving matters only while a crash may still follow.
Persist ==
  /\ restarts < MaxRestarts
  /\ durable # [handle |-> handle, step |-> step]
  /\ durable' = [handle |-> handle, step |-> step]
  /\ UNCHANGED <<core, inbox, asked, fresh, browser, queries, trust, restarts>>

\* The effect a handle determines by itself: a code or a SAD is not in it.
EffectOf(h) ==
  CASE h.phase = "ServiceAuthPending" -> Redirect(h.state, "service", None, None)
    [] h.phase = "ListPending" -> Http("list")
    [] h.phase = "InfoPending" -> Http("info")
    [] h.phase = "CredentialAuthPending" ->
         Redirect(h.state, "credential", h.credential, h.attrs)
    [] h.phase = "TimestampPending" -> TsaRequest(h)
    [] OTHER -> NoStep

Crash ==
  /\ restarts < MaxRestarts
  /\ restarts' = restarts + 1
  /\ handle' = durable.handle
  /\ step' = IF PersistEffects THEN durable.step ELSE EffectOf(durable.handle)
  /\ err' = None /\ inbox' = None
  /\ UNCHANGED <<durable, asked, fresh, browser, queries, trust>>

\* With no session to resume, the host drops a callback.
Callback ==
  /\ handle.phase # "Idle"
  /\ \/ \E r \in browser : UserApproves(r) \/ UserRefuses(r)
     \/ ForgedCallback

Next == Begin \/ Resume \/ Perform \/ Callback \/ Persist \/ Crash

Spec == Init /\ [][Next]_vars

\* The host keeps doing what the last step asked and feeding the answers back.
\* Stray callbacks share the one inbox, so performing needs strong fairness.
FairSpec == Spec /\ SF_vars(Perform) /\ WF_vars(Resume)

-----------------------------------------------------------------------------
\* Properties.

Handles ==
  [phase : Phases, level : Opt(Levels), state : Opt(Nat), credential : Opt(Credentials),
   token : Opt(Nat), chain : Opt(Subjects), attrs : Opt(Attrs), staged : Opt(Staged),
   cms : Opt(Cms), nonce : Opt(Nat),
   time : Opt(Times), signer : Opt(Subjects), request : Opt(Requests),
   config : Opt(Configs)]

\* The handle, its persisted copy, and what the flow keeps are well formed.
TypeOK ==
  /\ handle \in Handles
  /\ durable.handle \in Handles
  /\ step.kind \in {"none", "redirect", "http", "done", "failed"}
  /\ err \in Opt(Errors)
  /\ asked \in Opt(Requests)
  /\ fresh \in Nat
  /\ approved \subseteq Nat
  /\ signatures \subseteq Signature

Prefetch == {"InfoPending", "CredentialAuthPending"}
AfterConsent == {"CredentialTokenPending", "SignPending", "TimestampPending"}
Consenting == {"CredentialAuthPending"} \cup AfterConsent

FieldsMatchPhase(h) ==
  /\ h.state # None <=> h.phase \in AuthPending
  /\ h.config # None <=> h.phase \notin Terminal \cup {"Idle"}
  /\ h.request # None <=> h.phase \notin Terminal \cup {"Idle"}
  /\ h.token # None <=> h.phase \in {"ListPending"} \cup Prefetch \cup AfterConsent
  /\ h.credential # None <=> h.phase \in Prefetch \cup AfterConsent
  /\ h.chain # None <=> h.phase \in Consenting
  /\ h.attrs # None <=> h.phase \in Consenting
  /\ h.staged # None <=> h.phase \in Consenting
  /\ h.cms # None <=> h.phase = "TimestampPending"
  /\ h.nonce # None <=> h.phase = "TimestampPending"

\* A handle carries each optional field exactly in the phases that use it: the
\* OAuth state while a redirect is pending, the nonce while the TSA is asked,
\* and no secret once terminal, also after restoring an older handle.
CarriedFields == FieldsMatchPhase(handle) /\ FieldsMatchPhase(durable.handle)

\* No sequence of answers, callbacks and restarts makes a live flow report a
\* handle with a missing field: BadHandle means the flow had ended.
NoMissingField == err = "BadHandle" => handle.phase \in Terminal

\* A code or SAD bought with the approval of a redirect that showed this hash.
BoughtByConsent(code, hash, cred, redirects, consents) ==
  \E r \in redirects :
    /\ r.scope = "credential" /\ r.state = code /\ code \in consents
    /\ r.hash = hash /\ r.credential = cred

\* What signHash is asked to sign is what the signer saw: the SAD was bought
\* with the code of an approved redirect that showed this hash and credential.
SignsWhatWasApproved ==
  step.kind = "http" /\ step.op = "sign" =>
    BoughtByConsent(step.sad, step.hash, step.credential, browser, approved)

\* A signature of the certificate's key over attributes the signer approved,
\* that bind this very PDF.
ReallySigned(cms, staged, redirects, consents, made) ==
  /\ cms.sig \in made
  /\ cms.sig.by = cms.attrs.cert
  /\ cms.sig.over = cms.attrs
  /\ cms.attrs.digest = staged
  /\ \E r \in redirects : r.hash = cms.attrs /\ r.state \in consents

\* A reported success holds a real signature of the embedded certificate's key,
\* over attributes the signer approved, that bind the very PDF returned.
DoneIsSigned ==
  step.kind = "done" =>
    ReallySigned(step.pdf.cms, step.pdf.staged, browser, approved, signatures)

\* B-T is never silently downgraded, and the timestamp answers a query the
\* core made for this very signature.
DoneIsTimestamped ==
  step.kind = "done" =>
    /\ step.level = asked.level
    /\ step.level = "BT" => step.pdf.cms.token \in queries
                            /\ step.pdf.cms.token.imprint = step.pdf.cms.sig
    /\ step.level = "BB" => step.pdf.cms.token = None

\* The evidence tells the truth: the claimed time in the PDF, the signer that
\* passed the expected-signer check of the request given to begin.
DoneEvidence ==
  step.kind = "done" =>
    /\ step.time = step.pdf.staged.time
    /\ step.signer # None
    /\ asked.expected # None => step.signer = asked.expected

\* A call only ever moves the flow forward; only a crash takes it back, to the
\* handle that was persisted.  A terminal handle is never left by a call.
FlowMovesForward ==
  [][handle' # handle =>
       \/ PhaseRank[handle'.phase] > PhaseRank[handle.phase]
       \/ restarts' = restarts + 1 /\ handle' = durable.handle]_vars

\* Once the signer has consented, the host's work alone settles the signature:
\* the flow moves on, or the host is told that an answer was unusable.  No
\* restart leaves it waiting there for ever.
Settling == {"CredentialTokenPending", "SignPending"}
ConsentIsSettled ==
  (handle.phase \in Settling)
    ~> (handle.phase \notin Settling \/ err \in {"ProtocolParse", "Internal"})

\* The abstract flow this machine implements.
StageOf ==
  [Idle |-> "idle", ServiceAuthPending |-> "login", ServiceTokenPending |-> "fetch",
   ListPending |-> "fetch", InfoPending |-> "fetch", CredentialAuthPending |-> "consent",
   CredentialTokenPending |-> "seal", SignPending |-> "seal", TimestampPending |-> "seal",
   Completed |-> "done", Failed |-> "failed"]

Output(s) == IF s.kind = "done" THEN s.pdf.cms.attrs ELSE None

ConsentRedirects == {r \in browser : r.scope = "credential"}

Flow == INSTANCE SigningFlow WITH
  Documents <- Attrs,
  stage <- StageOf[handle.phase],
  offered <- handle.attrs,
  shown <- {r.hash : r \in ConsentRedirects},
  accepted <- {r.hash : r \in {c \in ConsentRedirects : c.state \in approved}},
  output <- Output(step),
  saved <- [stage |-> StageOf[durable.handle.phase], offered |-> durable.handle.attrs,
            output |-> Output(durable.step)]

\* Every step of begin, resume, the browser and the restarting host is a step of
\* the abstract flow: nothing is sealed that was not approved by the signer.
ImplementsFlow == Flow!Spec

\* FR-014 as specs/001-remote-qes-signing/spec.md states it: the expected
\* signer is checked against the certificate that signs.
ExpectedSignerCertified ==
  step.kind = "done" /\ asked.expected # None =>
    step.pdf.cms.attrs.cert = asked.expected

==============================================================================
