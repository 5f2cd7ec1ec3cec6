-------------------------- MODULE SigningOutcomeProofs --------------------------
(***************************************************************************)
(* Proofs about what a call of resume leads to: the flow only moves forward, *)
(* what it hands out tells the truth about the request, the timestamp and    *)
(* the signer, and each step of it is a step of the abstract SigningFlow.    *)
(* All three rest on ResumeShape, which says what a call may change.         *)
(***************************************************************************)
EXTENDS SigningCoreProofs

\* The ways a call of resume ends.
Stays == UNCHANGED <<handle, step>> /\ NoDraw

Live(p) == p \notin Terminal \cup {"Idle"}

Ends ==
  /\ Live(handle.phase) /\ handle'.phase = "Failed" /\ NoDraw
  /\ handle'.attrs = None /\ handle'.level = handle.level
  /\ step'.kind = "failed"

\* What every later phase takes over from the one before.
SameRequest == handle'.level = handle.level /\ handle'.request = handle.request
SameDocument ==
  /\ handle'.attrs = handle.attrs /\ handle'.staged = handle.staged
  /\ handle'.time = handle.time /\ handle'.signer = handle.signer

Follows(p, q) ==
  \/ p = "ServiceAuthPending" /\ q = "ServiceTokenPending"
  \/ p = "ServiceTokenPending" /\ q = "ListPending"
  \/ p = "ListPending" /\ q = "InfoPending"
  \/ p = "CredentialAuthPending" /\ q = "CredentialTokenPending"
  \/ p = "CredentialTokenPending" /\ q = "SignPending"

Advances ==
  /\ Follows(handle.phase, handle'.phase)
  /\ SameRequest /\ SameDocument /\ NoDraw
  /\ step'.kind = "http"

\* The consent redirect shows the attributes the handle keeps.
AsksConsent ==
  /\ handle.phase = "InfoPending" /\ handle'.phase = "CredentialAuthPending"
  /\ SameRequest
  /\ handle'.attrs \in Attrs /\ handle'.time = handle'.staged.time
  /\ handle'.signer # None /\ MatchesExpected(handle.request, handle'.signer)
  /\ step' = Redirect(fresh', "credential", handle'.credential, handle'.attrs)
  /\ browser' = browser \cup {step'}
  /\ fresh' = fresh + 1 /\ queries' = queries

AsksTimestamp ==
  /\ handle.phase = "SignPending" /\ handle'.phase = "TimestampPending"
  /\ SameRequest /\ SameDocument
  /\ handle.level = "BT" /\ handle'.cms.attrs = handle.attrs
  /\ queries' = queries \cup {[nonce |-> handle'.nonce, imprint |-> handle'.cms.sig]}
  /\ step'.kind = "http" /\ fresh' = fresh + 1 /\ browser' = browser

\* Done, from the signature alone or from the token bound to it.
Sealed(c) ==
  \/ handle.phase = "SignPending" /\ handle.level = "BB" /\ c.token = None
     /\ c.attrs = handle.attrs
  \/ /\ handle.phase = "TimestampPending"
     /\ inbox.kind = "http" /\ inbox.status = "ok"
     /\ TokenBound(handle, inbox.body.token)
     /\ c.attrs = handle.cms.attrs /\ c.sig = handle.cms.sig /\ c.token = inbox.body.token

HandsOut ==
  /\ Sealed(step'.pdf.cms) /\ step'.pdf.staged = handle.staged
  /\ handle'.phase = "Completed" /\ handle'.attrs = None /\ handle'.level = handle.level
  /\ step'.kind = "done" /\ step'.level = handle.level
  /\ step'.time = handle.time /\ step'.signer = handle.signer
  /\ NoDraw

-----------------------------------------------------------------------------
\* resume ends in one of these ways.

LEMMA FailEnds ==
  ASSUME NEW h \in Handles, Live(handle.phase), h.level = handle.level, NoDraw,
         NEW o, Fail(h, o)
  PROVE  Ends
<1>1. handle' = [Scrub(h) EXCEPT !.phase = "Failed"] /\ step' = FailedStep(o, h.signer)
  BY DEF Fail, Emit
<1>2. handle'.phase = "Failed" /\ handle'.attrs = None /\ handle'.level = h.level
  BY <1>1 DEF Scrub, Handles
<1>3. QED
  BY <1>1, <1>2 DEF Ends, FailedStep

\* Only a live handle carries what an arm needs.
LEMMA CarriedIsLive ==
  ASSUME CoreInv, Carried(handle)
  PROVE  Live(handle.phase) /\ handle \in Handles
  BY DEF CoreInv, Sound, Carried, FieldsMatchPhase, Live

LEMMA RefusedShape ==
  ASSUME CoreInv, NEW p, NEW o, Refused(p, o) \/ Unparsable(p) PROVE Stays \/ Ends
<1>1. Live(handle.phase) /\ handle \in Handles /\ NoDraw
  BY CarriedIsLive DEF Refused, Unparsable, Answered, At
<1>2. (\E e : Reject(e)) \/ Fail(handle, o)
  BY DEF Refused, Unparsable
<1>3. QED
  BY <1>1, <1>2, FailEnds DEF Reject, Stays

LEMMA OtherInputShape ==
  ASSUME CoreInv, ResumeBadHandle \/ ResumeRedirectError \/ ResumeUnexpected
  PROVE  Stays \/ Ends
<1>1. CASE \E e : Reject(e) /\ NoDraw
  BY <1>1 DEF Reject, Stays
<1>2. CASE Carried(handle) /\ NoDraw /\ \E o : Fail(handle, o)
  BY <1>2, CarriedIsLive, FailEnds
<1>3. QED
  BY <1>1, <1>2 DEF ResumeBadHandle, ResumeRedirectError, ResumeUnexpected

LEMMA AuthShape ==
  ASSUME CoreInv, NEW p, NEW q, Follows(p, q), ResumeAuth(p, q) PROVE Stays \/ Advances
<1>1. CASE handle.state # inbox.state
  BY <1>1 DEF ResumeAuth, Reject, Stays
<1>2. CASE handle.state = inbox.state
  <2>1. /\ handle \in Handles /\ handle.phase = p /\ NoDraw
        /\ handle' = [handle EXCEPT !.state = None, !.phase = q]
        /\ step'.kind = "http"
    BY <1>2 DEF ResumeAuth, At, Emit, TokenExchange, CoreInv, Sound
  <2>2. handle'.phase = q /\ SameRequest /\ SameDocument
    BY <2>1 DEF Handles, SameRequest, SameDocument
  <2>3. QED
    BY <2>1, <2>2 DEF Advances
<1>3. QED
  BY <1>1, <1>2

LEMMA FetchShape ==
  ASSUME CoreInv, inbox # None, ResumeServiceToken \/ ResumeList
  PROVE  Stays \/ Ends \/ Advances
<1>1. CASE Answer("ServiceTokenPending") /\ NoDraw
           /\ Emit([handle EXCEPT !.token = inbox.body, !.phase = "ListPending"], Http("list"))
  <2>1. /\ handle \in Handles /\ handle.phase = "ServiceTokenPending"
        /\ handle' = [handle EXCEPT !.token = inbox.body, !.phase = "ListPending"]
        /\ step'.kind = "http" /\ NoDraw
    BY <1>1, AnswerTyped DEF Emit, Http
  <2>2. handle'.phase = "ListPending" /\ SameRequest /\ SameDocument
    BY <2>1 DEF Handles, SameRequest, SameDocument
  <2>3. QED
    BY <2>1, <2>2 DEF Advances, Follows
<1>2. CASE Answer("ListPending") /\ NoDraw /\ Fail(handle, "CredentialUnavailable")
  BY <1>2, CarriedIsLive, FailEnds DEF Answer, Answered, At
<1>3. CASE Answer("ListPending") /\ NoDraw
           /\ Emit([handle EXCEPT !.credential = inbox.body, !.phase = "InfoPending"],
                   Http("info"))
  <2>1. /\ handle \in Handles /\ handle.phase = "ListPending"
        /\ handle' = [handle EXCEPT !.credential = inbox.body, !.phase = "InfoPending"]
        /\ step'.kind = "http" /\ NoDraw
    BY <1>3, AnswerTyped DEF Emit, Http
  <2>2. handle'.phase = "InfoPending" /\ SameRequest /\ SameDocument
    BY <2>1 DEF Handles, SameRequest, SameDocument
  <2>3. QED
    BY <2>1, <2>2 DEF Advances, Follows
<1>4. QED
  BY <1>1, <1>2, <1>3, RefusedShape DEF ResumeServiceToken, ResumeList

LEMMA InfoAcceptedShape ==
  ASSUME CoreInv, inbox # None, Answer("InfoPending"), ~Unusable(inbox.body),
         MatchesExpected(handle.request, SignerIdentity(inbox.body)),
         ResumeInfoAccepted(inbox.body)
  PROVE  AsksConsent
<1>1. handle \in Handles /\ handle.phase = "InfoPending" /\ inbox.body \in Infos
      /\ inbox.body.leaf \in Subjects
  BY AnswerTyped DEF BodyMatches, OpOf, Unusable, Infos, Opt
<1>2. PICK now \in Times :
        LET h == Prepared(handle, inbox.body, now, fresh')
            r == Redirect(fresh', "credential", h.credential, h.attrs)
        IN  Emit(h, r) /\ browser' = browser \cup {r}
  BY DEF ResumeInfoAccepted
<1> DEFINE st == [time |-> now, name |-> inbox.body.leaf]
           at == [digest |-> st, cert |-> inbox.body.leaf]
           h == Prepared(handle, inbox.body, now, fresh')
<1>3. st.time = now /\ at \in Attrs
  BY <1>1 DEF Attrs, Staged
<1>4. handle' = h /\ browser' = browser \cup {step'}
      /\ step' = Redirect(fresh', "credential", h.credential, h.attrs)
  BY <1>2 DEF Emit
<1>5. /\ h.phase = "CredentialAuthPending" /\ h.level = handle.level
      /\ h.request = handle.request /\ h.attrs = at /\ h.staged = st /\ h.time = now
      /\ h.signer = SignerIdentity(inbox.body)
  BY <1>1 DEF Prepared, Handles
<1> HIDE DEF h, st, at
<1>6. SignerIdentity(inbox.body) # None
  BY <1>1, SubjectsAssumption DEF SignerIdentity
<1>7. fresh' = fresh + 1 /\ queries' = queries
  BY DEF ResumeInfoAccepted
<1>8. QED
  BY <1>1, <1>3, <1>4, <1>5, <1>6, <1>7 DEF AsksConsent, SameRequest

LEMMA InfoShape ==
  ASSUME CoreInv, inbox # None, ResumeInfo PROVE Stays \/ Ends \/ AsksConsent
<1>1. CASE Refused("InfoPending", "CredentialUnavailable") \/ Unparsable("InfoPending")
  BY <1>1, RefusedShape
<1>2. CASE Answer("InfoPending")
  <2> DEFINE info == inbox.body
             named == [handle EXCEPT !.signer = SignerIdentity(info)]
  <2>1. handle \in Handles /\ info \in Infos /\ Live(handle.phase)
    BY <1>2, AnswerTyped, CarriedIsLive DEF BodyMatches, OpOf, Answer, Answered, At
  <2>2. named.signer = SignerIdentity(info) /\ named.level = handle.level
    BY <2>1 DEF Handles
  <2>3. \/ Fail(handle, "CredentialUnavailable") /\ NoDraw
        \/ ~Unusable(info) /\ NoDraw /\ \E o : Fail(named, o)
        \/ Reject("Internal") /\ NoDraw
        \/ ~Unusable(info) /\ MatchesExpected(handle.request, named.signer)
           /\ ResumeInfoAccepted(info)
    BY <1>2 DEF ResumeInfo, Refused, Unparsable, Answer
  <2>4. ~Unusable(info) => named \in Handles
    <3>1. ~Unusable(info) => SignerIdentity(info) \in Subjects
      BY <2>1 DEF Unusable, SignerIdentity, Infos, Opt
    <3>2. QED
      BY <2>1, <3>1, SignerTyped
  <2> HIDE DEF named
  <2>5. QED
    BY <1>2, <2>1, <2>2, <2>3, <2>4, FailEnds, InfoAcceptedShape DEF Reject, Stays
<1>3. QED
  BY <1>1, <1>2 DEF ResumeInfo

LEMMA CredentialTokenShape ==
  ASSUME CoreInv, inbox # None, ResumeCredentialToken PROVE Stays \/ Ends \/ Advances
<1>1. CASE Answer("CredentialTokenPending") /\ NoDraw
           /\ Emit([handle EXCEPT !.phase = "SignPending"], SignHash(handle, inbox.body))
  <2>1. /\ handle \in Handles /\ handle.phase = "CredentialTokenPending"
        /\ handle' = [handle EXCEPT !.phase = "SignPending"]
        /\ step'.kind = "http" /\ NoDraw
    BY <1>1, AnswerTyped DEF Emit, SignHash
  <2>2. handle'.phase = "SignPending" /\ SameRequest /\ SameDocument
    BY <2>1 DEF Handles, SameRequest, SameDocument
  <2>3. QED
    BY <2>1, <2>2 DEF Advances, Follows
<1>2. QED
  BY <1>1, RefusedShape DEF ResumeCredentialToken

LEMMA EmbedShape ==
  ASSUME CoreInv, NEW c, NEW fits, Embed(handle, c, fits), NoDraw, Sealed(c)
  PROVE  Stays \/ HandsOut
<1>1. CASE Reject("Internal")
  BY <1>1 DEF Reject, Stays
<1>2. CASE Finalize(handle, [staged |-> handle.staged, cms |-> c])
  <2>1. /\ handle' = [Scrub(handle) EXCEPT !.phase = "Completed"]
        /\ step' = [kind |-> "done", pdf |-> [staged |-> handle.staged, cms |-> c],
                    level |-> handle.level, signer |-> handle.signer, time |-> handle.time]
        /\ handle \in Handles
    BY <1>2 DEF Finalize, Emit, CoreInv, Sound
  <2>2. handle'.phase = "Completed" /\ handle'.attrs = None /\ handle'.level = handle.level
    BY <2>1 DEF Scrub, Handles
  <2>3. /\ step'.kind = "done" /\ step'.pdf.cms = c /\ step'.pdf.staged = handle.staged
        /\ step'.level = handle.level /\ step'.time = handle.time
        /\ step'.signer = handle.signer
    BY <2>1
  <2>4. QED
    BY <2>2, <2>3 DEF HandsOut
<1>3. QED
  BY <1>1, <1>2 DEF Embed

LEMMA SignAcceptedShape ==
  ASSUME CoreInv, handle.phase = "SignPending", NEW c, NEW fits, c.token = None,
         c.attrs = handle.attrs, ResumeSignAccepted(c, fits)
  PROVE  Stays \/ HandsOut \/ AsksTimestamp
<1>1. CASE handle.level = "BB" /\ Embed(handle, c, fits) /\ NoDraw
  BY <1>1, EmbedShape DEF Sealed
<1>2. CASE handle.level = "BT"
  <2> DEFINE h == [handle EXCEPT !.cms = c, !.nonce = fresh', !.phase = "TimestampPending"]
  <2>1. /\ handle' = h /\ step'.kind = "http"
        /\ queries' = queries \cup {[nonce |-> fresh', imprint |-> c.sig]}
        /\ fresh' = fresh + 1 /\ browser' = browser
    BY <1>2 DEF ResumeSignAccepted, Emit, TsaRequest
  <2>2. /\ h.phase = "TimestampPending" /\ h.level = handle.level
        /\ h.request = handle.request /\ h.attrs = handle.attrs /\ h.staged = handle.staged
        /\ h.time = handle.time /\ h.signer = handle.signer
        /\ h.cms = c /\ h.nonce = fresh'
    BY DEF CoreInv, Sound, Handles
  <2> HIDE DEF h
  <2>3. QED
    BY <1>2, <2>1, <2>2 DEF AsksTimestamp, SameRequest, SameDocument
<1>3. QED
  BY <1>1, <1>2 DEF ResumeSignAccepted

LEMMA SignShape ==
  ASSUME CoreInv, inbox # None, ResumeSign PROVE Stays \/ Ends \/ HandsOut \/ AsksTimestamp
<1>1. CASE Refused("SignPending", "CredentialUnavailable") \/ Unparsable("SignPending")
  BY <1>1, RefusedShape
<1>2. CASE Answer("SignPending")
  <2> DEFINE c == [attrs |-> handle.attrs, sig |-> inbox.body.sig, token |-> None]
  <2>1. handle \in Handles /\ handle.phase = "SignPending" /\ Live(handle.phase)
    BY <1>2, AnswerTyped, CarriedIsLive DEF Answer, Answered, At
  <2>2. \/ NoDraw /\ \E o : Fail(handle, o)
        \/ Reject("Internal") /\ NoDraw
        \/ ResumeSignAccepted(c, inbox.body.fits)
    BY <1>2 DEF ResumeSign, Refused, Unparsable, Answer
  <2>3. c.token = None /\ c.attrs = handle.attrs
    OBVIOUS
  <2> HIDE DEF c
  <2>4. QED
    BY <2>1, <2>2, <2>3, FailEnds, SignAcceptedShape DEF Reject, Stays
<1>3. QED
  BY <1>1, <1>2 DEF ResumeSign

LEMMA TimestampShape ==
  ASSUME CoreInv, inbox # None, ResumeTimestamp PROVE Stays \/ Ends \/ HandsOut
<1>1. /\ handle \in Handles /\ Live(handle.phase) /\ NoDraw
      /\ handle.phase = "TimestampPending" /\ inbox.kind = "http"
  BY CarriedIsLive DEF ResumeTimestamp, Answered, At
<1>2. handle.cms \in Cms
  BY <1>1 DEF CoreInv, Sound, FieldsMatchPhase, Handles, Opt
<1>3. CASE \E o : Fail(handle, o)
  BY <1>1, <1>3, FailEnds
<1>4. CASE /\ inbox.status = "ok" /\ TokenBound(handle, inbox.body.token)
           /\ Embed(handle, [handle.cms EXCEPT !.token = inbox.body.token], inbox.body.fits)
  <2> DEFINE c == [handle.cms EXCEPT !.token = inbox.body.token]
  <2>1. c.attrs = handle.cms.attrs /\ c.sig = handle.cms.sig /\ c.token = inbox.body.token
    BY <1>2 DEF Cms
  <2> HIDE DEF c
  <2>2. Sealed(c)
    BY <1>1, <1>4, <2>1 DEF Sealed
  <2>3. Embed(handle, c, inbox.body.fits)
    BY <1>4 DEF c
  <2>4. QED
    BY <1>1, <2>2, <2>3, EmbedShape
<1>5. QED
  BY <1>3, <1>4 DEF ResumeTimestamp

\* A call of resume leaves everything, fails the flow, takes it one phase on, or
\* hands out the document.
LEMMA ResumeShape ==
  ASSUME CoreInv, Resume
  PROVE  Stays \/ Ends \/ Advances \/ AsksConsent \/ AsksTimestamp \/ HandsOut
<1>1. inbox # None
  BY DEF Resume
<1>2. /\ Follows("ServiceAuthPending", "ServiceTokenPending")
      /\ Follows("CredentialAuthPending", "CredentialTokenPending")
  BY DEF Follows
<1>3. QED
  BY <1>1, <1>2, OtherInputShape, AuthShape, FetchShape, InfoShape, CredentialTokenShape,
     SignShape, TimestampShape DEF Resume

-----------------------------------------------------------------------------
\* Direction.

LEMMA ResumeMovesForward ==
  ASSUME CoreInv, Resume, handle' # handle
  PROVE  PhaseRank[handle'.phase] > PhaseRank[handle.phase]
<1>1. handle.phase \in Phases
  BY DEF CoreInv, Sound, Handles
<1>2. CASE Ends
  BY <1>1, <1>2, PhaseSet DEF Ends, Live, Terminal, PhaseRank
<1>3. CASE Advances
  BY <1>3 DEF Advances, Follows, PhaseRank
<1>4. CASE AsksConsent
  BY <1>4 DEF AsksConsent, PhaseRank
<1>5. CASE AsksTimestamp
  BY <1>5 DEF AsksTimestamp, PhaseRank
<1>6. CASE HandsOut
  BY <1>6 DEF HandsOut, Sealed, PhaseRank
<1>7. ~Stays
  BY DEF Stays
<1>8. QED
  BY <1>2, <1>3, <1>4, <1>5, <1>6, <1>7, ResumeShape

LEMMA BeginMovesForward ==
  ASSUME Begin, handle' # handle
  PROVE  PhaseRank[handle'.phase] > PhaseRank[handle.phase]
<1>1. handle'.phase \in {"ServiceAuthPending", "Failed"} /\ handle.phase = "Idle"
  BY DEF Begin, BeginRefused, BeginInvalid, BeginAccepted, Reject, Emit, Blank
<1>2. QED
  BY <1>1 DEF PhaseRank

\* No call of begin or resume takes a flow back or leaves a terminal phase; only a
\* restart does, and only to the handle the host had saved.
THEOREM FlowNeverTurnsBack == Spec => FlowMovesForward
<1> DEFINE Forward ==
      handle' # handle =>
        \/ PhaseRank[handle'.phase] > PhaseRank[handle.phase]
        \/ restarts' = restarts + 1 /\ handle' = durable.handle
<1>1. CoreInv /\ [Next]_vars => [Forward]_vars
  <2> SUFFICES ASSUME CoreInv, Next PROVE Forward
    OBVIOUS
  <2>1. CASE Perform \/ Callback \/ Persist
    BY <2>1, PerformDelivers
       DEF Callback, UserApproves, UserRefuses, ForgedCallback, Deliver, Persist, core
  <2>2. CASE Crash
    BY <2>2 DEF Crash
  <2>3. QED
    BY <2>1, <2>2, BeginMovesForward, ResumeMovesForward DEF Next
<1>2. QED
  BY <1>1, CoreInit, CoreInvInductive, PTL DEF Spec, FlowMovesForward

-----------------------------------------------------------------------------
\* Evidence.

\* What a handle and its step tell of the request a and the timestamp queries q.
HandleEvidence(h, a, q) ==
  /\ h.phase # "Idle" => a \in Requests /\ h.level = a.level
  /\ h.phase \notin Terminal \cup {"Idle"} => h.request = a
  /\ h.phase \in Consenting =>
       h.time = h.staged.time /\ h.signer # None /\ MatchesExpected(a, h.signer)
  /\ h.phase = "TimestampPending" =>
       /\ h.level = "BT" /\ h.cms.attrs = h.attrs
       /\ [nonce |-> h.nonce, imprint |-> h.cms.sig] \in q

StepEvidence(h, s, a, q) ==
  s.kind = "done" =>
    /\ h.phase = "Completed"
    /\ s.level = a.level
    /\ s.level = "BT" => s.pdf.cms.token \in q /\ s.pdf.cms.token.imprint = s.pdf.cms.sig
    /\ s.level = "BB" => s.pdf.cms.token = None
    /\ s.time = s.pdf.staged.time /\ s.signer # None /\ MatchesExpected(a, s.signer)

Evidence(h, s, a, q) == HandleEvidence(h, a, q) /\ StepEvidence(h, s, a, q)

\* A token is a nonce and an imprint, and nothing else.
Bare(t) == t = [nonce |-> t.nonce, imprint |-> t.imprint]

EvidenceInv ==
  /\ Evidence(handle, step, asked, queries)
  /\ Evidence(durable.handle, durable.step, asked, queries)
  /\ handle.phase = "Idle" => durable.handle.phase = "Idle"
  /\ \A q \in queries : Bare(q)
  /\ inbox # None /\ inbox.kind = "http" /\ inbox.status = "ok" /\ step.op = "tsa" =>
       Bare(inbox.body.token)

\* No two redirects share a state, no state is approved before it is drawn, and
\* only a credential authorization shows a hash.
RedirectsInv ==
  /\ \A r \in browser :
       /\ r.state \in 0 .. fresh
       /\ r.scope = "credential" <=> r.hash # None
       /\ \A s \in browser : r.state = s.state => r = s
  /\ approved \subseteq 0 .. fresh
LEMMA EvidenceInvImplies == EvidenceInv => DoneIsTimestamped /\ DoneEvidence
  BY DEF EvidenceInv, Evidence, StepEvidence, MatchesExpected, DoneIsTimestamped, DoneEvidence

\* Queries only accumulate.
LEMMA EvidenceGrows ==
  ASSUME NEW h, NEW s, NEW a, NEW q, NEW q2, q \subseteq q2, Evidence(h, s, a, q)
  PROVE  Evidence(h, s, a, q2)
  BY DEF Evidence, HandleEvidence, StepEvidence

\* Before begin a handle tells nothing, whatever is asked later.
LEMMA IdleTellsNothing ==
  ASSUME NEW h, NEW s, NEW a, NEW a2, NEW q, h.phase = "Idle", Evidence(h, s, a, q)
  PROVE  Evidence(h, s, a2, q)
  BY DEF Evidence, HandleEvidence, StepEvidence, Consenting, AfterConsent

LEMMA EvidenceInit == Init => EvidenceInv
<1>1. Blank.phase = "Idle" /\ NoStep.kind = "none"
  BY DEF Blank, NoStep
<1>2. \A a, q : Evidence(Blank, NoStep, a, q)
  BY <1>1 DEF Evidence, HandleEvidence, StepEvidence, Consenting, AfterConsent
<1>3. QED
  BY <1>1, <1>2 DEF Init, EvidenceInv

\* The ways resume ends, one at a time.

Told == Evidence(handle', step', asked, queries')

LEMMA AdvancesTells ==
  ASSUME CoreInv, EvidenceInv, Advances PROVE Told
<1>1. HandleEvidence(handle, asked, queries)
  BY DEF EvidenceInv, Evidence
<1>2. HandleEvidence(handle', asked, queries)
  BY <1>1 DEF Advances, Follows, SameRequest, SameDocument, HandleEvidence, Consenting,
              AfterConsent, Terminal
<1>3. QED
  BY <1>2 DEF Advances, NoDraw, Told, Evidence, StepEvidence

LEMMA AsksConsentTells ==
  ASSUME CoreInv, EvidenceInv, AsksConsent PROVE Told
<1>1. HandleEvidence(handle, asked, queries)
  BY DEF EvidenceInv, Evidence
<1>2. HandleEvidence(handle', asked, queries)
  BY <1>1 DEF AsksConsent, SameRequest, HandleEvidence, Terminal
<1>3. step'.kind = "redirect" /\ queries' = queries
  BY DEF AsksConsent, Redirect
<1>4. QED
  BY <1>2, <1>3 DEF Told, Evidence, StepEvidence

LEMMA AsksTimestampTells ==
  ASSUME CoreInv, EvidenceInv, AsksTimestamp PROVE Told
<1>1. HandleEvidence(handle, asked, queries)
  BY DEF EvidenceInv, Evidence
<1>2. HandleEvidence(handle', asked, queries')
  BY <1>1 DEF AsksTimestamp, SameRequest, SameDocument, HandleEvidence, Consenting,
              AfterConsent, Terminal
<1>3. QED
  BY <1>2 DEF AsksTimestamp, Told, Evidence, StepEvidence

\* A bare token that agrees with the query is the query.
LEMMA BoundIsQueried ==
  ASSUME EvidenceInv, handle.phase = "TimestampPending", NEW t, Bare(t), TokenBound(handle, t)
  PROVE  t \in queries /\ t.imprint = handle.cms.sig
<1>1. t = [nonce |-> t.nonce, imprint |-> t.imprint]
  BY DEF Bare
<1>2. t.nonce = handle.nonce /\ t.imprint = handle.cms.sig
  BY DEF TokenBound
<1>3. [nonce |-> handle.nonce, imprint |-> handle.cms.sig] \in queries
  BY DEF EvidenceInv, Evidence, HandleEvidence
<1>4. QED
  BY <1>1, <1>2, <1>3

LEMMA HandsOutTells ==
  ASSUME CoreInv, EvidenceInv, inbox # None, HandsOut PROVE Told
<1>1. /\ HandleEvidence(handle, asked, queries)
      /\ handle.phase \in {"SignPending", "TimestampPending"}
  BY DEF EvidenceInv, Evidence, HandsOut, Sealed
<1>2. HandleEvidence(handle', asked, queries)
  BY <1>1 DEF HandsOut, HandleEvidence, Consenting, AfterConsent, Terminal
<1>3. /\ step'.level = asked.level /\ step'.time = step'.pdf.staged.time
      /\ step'.signer # None /\ MatchesExpected(asked, step'.signer)
  BY <1>1 DEF HandsOut, HandleEvidence, Consenting, AfterConsent
<1>4. CASE handle.phase = "SignPending"
  <2>1. step'.level = "BB" /\ step'.pdf.cms.token = None
    BY <1>4 DEF HandsOut, Sealed
  <2>2. QED
    BY <1>2, <1>3, <2>1 DEF HandsOut, NoDraw, Told, Evidence, StepEvidence
<1>5. CASE handle.phase = "TimestampPending"
  <2>1. /\ inbox.kind = "http" /\ inbox.status = "ok"
        /\ TokenBound(handle, inbox.body.token)
        /\ step'.pdf.cms.sig = handle.cms.sig /\ step'.pdf.cms.token = inbox.body.token
    BY <1>5 DEF HandsOut, Sealed
  <2>2. step.op = "tsa"
    BY <1>5, <2>1 DEF CoreInv, Sound, InboxMatches, StepMatches, OpOf
  <2>3. Bare(inbox.body.token)
    BY <2>1, <2>2 DEF EvidenceInv
  <2>4. step'.pdf.cms.token \in queries /\ step'.pdf.cms.token.imprint = step'.pdf.cms.sig
    BY <1>5, <2>1, <2>3, BoundIsQueried
  <2>5. step'.level = "BT"
    BY <1>1, <1>5 DEF HandleEvidence, HandsOut
  <2>6. QED
    BY <1>2, <1>3, <2>4, <2>5 DEF HandsOut, NoDraw, Told, Evidence, StepEvidence
<1>6. QED
  BY <1>1, <1>4, <1>5

LEMMA ResumeTells ==
  ASSUME CoreInv, EvidenceInv, Resume PROVE Told
<1>1. CASE Stays
  BY <1>1 DEF Stays, NoDraw, EvidenceInv, Told
<1>2. CASE Ends
  BY <1>2 DEF Ends, Live, NoDraw, EvidenceInv, Told, Evidence, HandleEvidence, StepEvidence,
              Consenting, AfterConsent, Terminal
<1>3. QED
  BY <1>1, <1>2, ResumeShape, AdvancesTells, AsksConsentTells, AsksTimestampTells,
     HandsOutTells DEF Resume

\* Queries are bare and only added.
LEMMA ResumeQueries ==
  ASSUME CoreInv, EvidenceInv, Resume
  PROVE  queries \subseteq queries' /\ \A q \in queries' : Bare(q)
<1>1. \A q \in queries : Bare(q)
  BY DEF EvidenceInv
<1>2. queries' = queries \/ \E n, i : queries' = queries \cup {[nonce |-> n, imprint |-> i]}
  BY ResumeShape DEF Stays, Ends, Advances, AsksConsent, AsksTimestamp, HandsOut, NoDraw
<1>3. QED
  BY <1>1, <1>2 DEF Bare

LEMMA ResumeKeepsEvidence ==
  ASSUME CoreInv, EvidenceInv, Resume PROVE EvidenceInv'
<1>1. inbox # None /\ inbox' = None /\ durable' = durable /\ asked' = asked
  BY DEF Resume
<1>2. handle'.phase = "Idle" => durable.handle.phase = "Idle"
  <2>1. handle.phase # "Idle"
    BY <1>1 DEF CoreInv, InboxMatches
  <2>2. handle'.phase # "Idle"
    BY <2>1, ResumeShape
       DEF Stays, Ends, Advances, Follows, AsksConsent, AsksTimestamp, HandsOut
  <2>3. QED
    BY <2>2
<1>3. Evidence(durable.handle, durable.step, asked, queries')
  BY ResumeQueries, EvidenceGrows DEF EvidenceInv
<1>4. QED
  BY <1>1, <1>2, <1>3, ResumeTells, ResumeQueries DEF Told, EvidenceInv

LEMMA BeginKeepsEvidence ==
  ASSUME CoreInv, EvidenceInv, Begin PROVE EvidenceInv'
<1>1. /\ handle.phase = "Idle" /\ inbox' = None /\ durable' = durable /\ queries' = queries
      /\ durable.handle.phase = "Idle"
  BY DEF Begin, EvidenceInv
<1>2. PICK req \in Requests, tsa \in BOOLEAN :
        BeginRefused(req, tsa) \/ BeginInvalid(req, tsa) \/ BeginAccepted(req, tsa)
  BY DEF Begin
<1>3. Evidence(handle', step', asked', queries)
  <2>1. CASE BeginRefused(req, tsa)
    BY <2>1 DEF BeginRefused, Reject, EvidenceInv
  <2>2. CASE BeginInvalid(req, tsa)
    <3>1. /\ handle'.phase = "Failed" /\ handle'.level = req.level /\ asked' = req
          /\ step'.kind = "failed"
      BY <2>2 DEF BeginInvalid, Emit, Blank, FailedStep
    <3>2. QED
      BY <3>1 DEF Evidence, HandleEvidence, StepEvidence, Consenting, AfterConsent, Terminal
  <2>3. CASE BeginAccepted(req, tsa)
    <3>1. /\ handle'.phase = "ServiceAuthPending" /\ handle'.level = req.level
          /\ handle'.request = req /\ asked' = req /\ step'.kind = "redirect"
      BY <2>3 DEF BeginAccepted, Emit, Blank, Redirect
    <3>2. QED
      BY <3>1 DEF Evidence, HandleEvidence, StepEvidence, Consenting, AfterConsent, Terminal
  <2>4. QED
    BY <1>2, <2>1, <2>2, <2>3
<1>4. Evidence(durable.handle, durable.step, asked', queries)
  BY <1>1, IdleTellsNothing DEF EvidenceInv
<1>5. QED
  BY <1>1, <1>3, <1>4 DEF EvidenceInv

\* Whatever the TSA answers is a nonce and an imprint.
LEMMA PerformKeepsEvidence ==
  ASSUME CoreInv, EvidenceInv, Perform PROVE EvidenceInv'
<1>1. UNCHANGED <<handle, step, durable, asked, queries>> /\ step.op = OpOf(handle.phase)
  BY PerformDelivers
     DEF CoreInv, Sound, StepMatches, Perform, PerformBadly, PerformToken, PerformList,
         PerformInfo, PerformSign, PerformSignWrongly, PerformTsa, Pending, Deliver
<1>2. ASSUME inbox'.status = "ok", step.op = "tsa" PROVE Bare(inbox'.body.token)
  <2>1. PerformTsa
    BY <1>2 DEF Perform, PerformBadly, PerformToken, PerformList, PerformInfo, PerformSign,
                PerformSignWrongly, Pending, Deliver, HttpResult
  <2>2. PICK q \in queries \cup {[nonce |-> 0, imprint |-> step.imprint],
                                 [nonce |-> step.nonce, imprint |-> None]}, fits \in BOOLEAN :
          inbox' = HttpResult("ok", [token |-> q, fits |-> fits])
    BY <2>1 DEF PerformTsa, Deliver
  <2>3. Bare(q)
    BY <2>2 DEF EvidenceInv, Bare
  <2>4. QED
    BY <2>2, <2>3 DEF HttpResult
<1>3. QED
  BY <1>1, <1>2 DEF EvidenceInv

LEMMA CallbackKeepsEvidence ==
  ASSUME EvidenceInv, Callback PROVE EvidenceInv'
<1>1. /\ UNCHANGED <<handle, step, durable, asked, queries>>
      /\ inbox'.kind \in {"return", "error"}
  BY DEF Callback, UserApproves, UserRefuses, ForgedCallback, Deliver, core
<1>2. QED
  BY <1>1 DEF EvidenceInv

LEMMA HostKeepsEvidence ==
  ASSUME EvidenceInv, Persist \/ Crash PROVE EvidenceInv'
<1>1. CASE Persist
  BY <1>1 DEF Persist, core, EvidenceInv
<1>2. CASE Crash
  <2>1. EffectOf(durable.handle).kind # "done"
    BY DEF EffectOf, Redirect, Http, TsaRequest, NoStep
  <2>2. Evidence(handle', step', asked, queries)
    BY <1>2, <2>1 DEF Crash, EvidenceInv, Evidence, StepEvidence
  <2>3. QED
    BY <1>2, <2>2 DEF Crash, EvidenceInv
<1>3. QED
  BY <1>1, <1>2

LEMMA EvidenceInvInductive == CoreInv /\ EvidenceInv /\ [Next]_vars => EvidenceInv'
<1>1. EvidenceInv /\ UNCHANGED vars => EvidenceInv'
  BY DEF vars, EvidenceInv
<1>2. QED
  BY <1>1, ResumeKeepsEvidence, BeginKeepsEvidence, PerformKeepsEvidence,
     CallbackKeepsEvidence, HostKeepsEvidence DEF Next

LEMMA EvidenceInvHolds == Spec => []EvidenceInv
<1>1. CoreInv /\ EvidenceInv /\ [Next]_vars => (CoreInv /\ EvidenceInv)'
  BY CoreInvInductive, EvidenceInvInductive
<1>2. QED
  BY <1>1, CoreInit, EvidenceInit, PTL DEF Spec

\* A success at B-T embeds a token for a query the core made for this very
\* signature, and no request for B-T ends as B-B.
THEOREM SuccessIsTimestamped == Spec => []DoneIsTimestamped
  BY EvidenceInvHolds, EvidenceInvImplies, PTL

\* The evidence of a success is the claimed time in the PDF and a signer that
\* passed the expected-signer check of the request given to begin.
THEOREM SuccessTellsTheTruth == Spec => []DoneEvidence
  BY EvidenceInvHolds, EvidenceInvImplies, PTL

-----------------------------------------------------------------------------
\* Redirects.

LEMMA RedirectsInit == Init => RedirectsInv
  BY DEF Init, RedirectsInv

\* A call draws a state for one redirect, a nonce, or nothing.
Draws ==
  \/ browser' = browser /\ fresh' \in {fresh, fresh + 1}
  \/ /\ fresh' = fresh + 1
     /\ \E r : /\ browser' = browser \cup {r} /\ r.state = fresh + 1
               /\ r.scope = "credential" <=> r.hash # None

LEMMA DrawsKeepsRedirects ==
  ASSUME CoreInv, RedirectsInv, Draws, approved' = approved PROVE RedirectsInv'
<1>1. fresh \in Nat
  BY DEF CoreInv, RestTyped
<1>2. CASE browser' = browser /\ fresh' \in {fresh, fresh + 1}
  BY <1>1, <1>2 DEF RedirectsInv
<1>3. ASSUME NEW r, fresh' = fresh + 1, browser' = browser \cup {r}, r.state = fresh + 1,
             r.scope = "credential" <=> r.hash # None
      PROVE  RedirectsInv'
  <2>1. \A s \in browser : s.state \in 0 .. fresh /\ s.state # r.state
    BY <1>1, <1>3 DEF RedirectsInv
  <2>2. ASSUME NEW s \in browser'
        PROVE  /\ s.state \in 0 .. fresh'
               /\ s.scope = "credential" <=> s.hash # None
               /\ \A t \in browser' : s.state = t.state => s = t
    <3>1. s.state \in 0 .. fresh'
      BY <1>1, <1>3, <2>1
    <3>2. s.scope = "credential" <=> s.hash # None
      BY <1>3 DEF RedirectsInv
    <3>3. \A t \in browser' : s.state = t.state => s = t
      BY <1>3, <2>1 DEF RedirectsInv
    <3>4. QED
      BY <3>1, <3>2, <3>3
  <2>3. approved' \subseteq 0 .. fresh'
    BY <1>1, <1>3 DEF RedirectsInv
  <2>4. QED
    BY <2>2, <2>3 DEF RedirectsInv
<1>4. QED
  BY <1>2, <1>3 DEF Draws

LEMMA ResumeDraws ==
  ASSUME CoreInv, Resume PROVE Draws
<1>1. CASE AsksConsent
  <2>1. /\ step'.state = fresh + 1 /\ step'.scope = "credential" /\ step'.hash = handle'.attrs
        /\ handle'.attrs # None
    BY <1>1, NoneAssumption DEF AsksConsent, Redirect
  <2>2. QED
    BY <1>1, <2>1 DEF AsksConsent, Draws
<1>2. QED
  BY <1>1, ResumeShape DEF Stays, Ends, Advances, AsksTimestamp, HandsOut, NoDraw, Draws

LEMMA BeginDraws ==
  ASSUME Begin PROVE Draws
<1>1. PICK req \in Requests, tsa \in BOOLEAN :
        BeginRefused(req, tsa) \/ BeginInvalid(req, tsa) \/ BeginAccepted(req, tsa)
  BY DEF Begin
<1>2. CASE BeginAccepted(req, tsa)
  <2> DEFINE r == Redirect(fresh', "service", None, None)
  <2>1. fresh' = fresh + 1 /\ browser' = browser \cup {r}
    BY <1>2 DEF BeginAccepted
  <2>2. r.state = fresh' /\ r.scope = "service" /\ r.hash = None
    BY DEF Redirect
  <2> HIDE DEF r
  <2>3. QED
    BY <2>1, <2>2 DEF Draws
<1>3. QED
  BY <1>1, <1>2 DEF BeginRefused, BeginInvalid, Draws

LEMMA RedirectsInvInductive == CoreInv /\ RedirectsInv /\ [Next]_vars => RedirectsInv'
<1> SUFFICES ASSUME CoreInv, RedirectsInv, [Next]_vars PROVE RedirectsInv'
  OBVIOUS
<1>1. CASE Begin \/ Resume
  BY <1>1, ResumeDraws, BeginDraws, DrawsKeepsRedirects DEF Begin, Resume, trust
<1>2. CASE Perform
  <2>1. approved' = approved
    BY <1>2 DEF Perform, PerformBadly, PerformToken, PerformList, PerformInfo, PerformSign,
                PerformSignWrongly, PerformTsa, trust
  <2>2. QED
    BY <1>2, <2>1, PerformDelivers DEF RedirectsInv
<1>3. CASE Callback
  BY <1>3 DEF Callback, UserApproves, UserRefuses, ForgedCallback, Deliver, trust, RedirectsInv
<1>4. CASE Persist \/ Crash \/ UNCHANGED vars
  BY <1>4 DEF Persist, Crash, vars, trust, RedirectsInv
<1>5. QED
  BY <1>1, <1>2, <1>3, <1>4 DEF Next

-----------------------------------------------------------------------------
\* Refinement: the abstract variables, as ImplementsFlow maps them.

Shown(b) == {r.hash : r \in {x \in b : x.scope = "credential"}}
Accepted(b, a) ==
  {r.hash : r \in {c \in {x \in b : x.scope = "credential"} : c.state \in a}}
Saved == [stage |-> StageOf[durable.handle.phase], offered |-> durable.handle.attrs,
          output |-> Output(durable.step)]

RefinedInv == CoreInv /\ ConsentInv /\ EvidenceInv /\ RedirectsInv

FlowStep == Flow!Next \/ UNCHANGED Flow!flow

\* A step of the core that shows and accepts nothing new.
Quiet == Shown(browser') = Shown(browser) /\ Accepted(browser', approved) = Accepted(browser, approved)
         /\ approved' = approved /\ durable' = durable

LEMMA Unasked == UNCHANGED browser /\ UNCHANGED <<approved, durable>> => Quiet
  BY DEF Quiet

LEMMA ProceedStep ==
  ASSUME Quiet, StageOf[handle'.phase] \in {"login", "fetch"},
         StageOf[handle'.phase] \in Flow!StagesAfter[StageOf[handle.phase]],
         handle.attrs = None, handle'.attrs = None, Output(step') = Output(step)
  PROVE  FlowStep
<1>1. Flow!Proceed
  BY DEF Quiet, Shown, Accepted, Flow!Proceed, Flow!Step, ConsentRedirects
<1>2. QED
  BY <1>1 DEF FlowStep, Flow!Next

LEMMA ConsentedStep ==
  ASSUME Quiet, StageOf[handle'.phase] = "seal",
         StageOf[handle'.phase] \in Flow!StagesAfter[StageOf[handle.phase]],
         handle.attrs \in Accepted(browser, approved),
         handle'.attrs = handle.attrs, Output(step') = Output(step)
  PROVE  FlowStep
<1>1. Flow!Consented
  BY DEF Quiet, Shown, Accepted, Flow!Consented, Flow!Step, ConsentRedirects
<1>2. QED
  BY <1>1 DEF FlowStep, Flow!Next

LEMMA SealStep ==
  ASSUME Quiet, StageOf[handle'.phase] = "done",
         StageOf[handle'.phase] \in Flow!StagesAfter[StageOf[handle.phase]],
         handle.attrs \in Accepted(browser, approved),
         handle'.attrs = None, Output(step') = handle.attrs
  PROVE  FlowStep
<1>1. Flow!Seal
  BY DEF Quiet, Shown, Accepted, Flow!Seal, Flow!Step, ConsentRedirects
<1>2. QED
  BY <1>1 DEF FlowStep, Flow!Next

LEMMA AbortStep ==
  ASSUME Quiet, StageOf[handle'.phase] = "failed",
         StageOf[handle'.phase] \in Flow!StagesAfter[StageOf[handle.phase]],
         handle'.attrs = None, Output(step') = Output(step)
  PROVE  FlowStep
<1>1. Flow!Abort
  BY DEF Quiet, Shown, Accepted, Flow!Abort, Flow!Step, ConsentRedirects
<1>2. QED
  BY <1>1 DEF FlowStep, Flow!Next

LEMMA StutterStep ==
  ASSUME Quiet, handle' = handle, step' = step PROVE FlowStep
  BY DEF Quiet, Shown, Accepted, FlowStep, Flow!flow, ConsentRedirects

\* The stages one phase can lead to another through.
LEMMA StageMoves ==
  ASSUME NEW p \in Phases, NEW q
  PROVE  /\ Follows(p, q) =>
              /\ StageOf[q] \in Flow!StagesAfter[StageOf[p]]
              /\ StageOf[q] = "fetch" \/ (q \in AfterConsent /\ StageOf[q] = "seal")
         /\ (Live(p) \/ p = "Idle") => "failed" \in Flow!StagesAfter[StageOf[p]]
  BY PhaseSet DEF Follows, Live, Terminal, StageOf, Flow!StagesAfter, AfterConsent

LEMMA NothingHandedOut ==
  ASSUME EvidenceInv, handle.phase # "Completed" PROVE Output(step) = None
  BY DEF EvidenceInv, Evidence, StepEvidence, Output

\* What the signer approved, as the abstract flow sees it.
LEMMA ApprovedIsAccepted ==
  ASSUME NEW h, NEW b, NEW a, NEW g, HandleConsents(h, b, a, g),
         h.phase \in AfterConsent, h.attrs # None,
         \A r \in b : r.scope = "credential" <=> r.hash # None
  PROVE  h.attrs \in Accepted(b, a)
  BY DEF HandleConsents, Accepted

LEMMA EndsRefines ==
  ASSUME RefinedInv, Ends, approved' = approved, durable' = durable PROVE FlowStep
<1>1. handle.phase \in Phases /\ Output(step) = None /\ Output(step') = None
  BY NothingHandedOut DEF RefinedInv, CoreInv, Sound, Handles, Ends, Live, Terminal, Output
<1>2. Quiet
  BY Unasked DEF Ends, NoDraw
<1>3. QED
  BY <1>1, <1>2, StageMoves, AbortStep DEF Ends, StageOf

LEMMA AdvancesRefines ==
  ASSUME RefinedInv, ConsentInv', Advances, approved' = approved, durable' = durable
  PROVE  FlowStep
<1>1. handle.phase \in Phases /\ FieldsMatchPhase(handle)
  BY DEF RefinedInv, CoreInv, Sound, Handles
<1>2. /\ Quiet /\ browser' = browser /\ Follows(handle.phase, handle'.phase)
      /\ handle'.attrs = handle.attrs
  BY Unasked DEF Advances, NoDraw, SameDocument
<1>3. Output(step) = None /\ Output(step') = None
  BY NothingHandedOut DEF RefinedInv, Advances, Follows, Output
<1>4. CASE StageOf[handle'.phase] = "fetch"
  <2>1. handle.attrs = None
    BY <1>1, <1>2, <1>4 DEF Follows, StageOf, FieldsMatchPhase, Consenting, AfterConsent
  <2>2. QED
    BY <1>1, <1>2, <1>3, <1>4, <2>1, StageMoves, ProceedStep
<1>5. CASE handle'.phase \in AfterConsent /\ StageOf[handle'.phase] = "seal"
  <2>1. handle'.attrs # None
    BY <1>1, <1>2, <1>5 DEF Follows, FieldsMatchPhase, Consenting, AfterConsent
  <2>2. HandleConsents(handle', browser, approved, signatures')
    BY <1>2 DEF ConsentInv, Consents
  <2>3. \A r \in browser : r.scope = "credential" <=> r.hash # None
    BY DEF RefinedInv, RedirectsInv
  <2>4. handle.attrs \in Accepted(browser, approved)
    BY <1>2, <1>5, <2>1, <2>2, <2>3, ApprovedIsAccepted
  <2>5. QED
    BY <1>1, <1>2, <1>3, <1>5, <2>4, StageMoves, ConsentedStep
<1>6. QED
  BY <1>1, <1>2, <1>4, <1>5, StageMoves

\* In the phases that seal, the pending document was approved.
LEMMA PendingIsAccepted ==
  ASSUME RefinedInv, handle.phase \in AfterConsent
  PROVE  handle.attrs \in Accepted(browser, approved)
<1>1. handle.attrs # None
  BY DEF RefinedInv, CoreInv, Sound, FieldsMatchPhase, Consenting
<1>2. HandleConsents(handle, browser, approved, signatures)
  BY DEF RefinedInv, ConsentInv, Consents
<1>3. \A r \in browser : r.scope = "credential" <=> r.hash # None
  BY DEF RefinedInv, RedirectsInv
<1>4. QED
  BY <1>1, <1>2, <1>3, ApprovedIsAccepted

LEMMA AsksTimestampRefines ==
  ASSUME RefinedInv, AsksTimestamp, approved' = approved, durable' = durable PROVE FlowStep
<1>1. handle.attrs \in Accepted(browser, approved)
  BY PendingIsAccepted DEF AsksTimestamp, AfterConsent
<1>2. Output(step) = None /\ Output(step') = None
  BY NothingHandedOut DEF RefinedInv, AsksTimestamp, Output
<1>3. Quiet /\ handle'.attrs = handle.attrs
  BY Unasked DEF AsksTimestamp, SameDocument
<1>4. /\ StageOf[handle'.phase] = "seal"
      /\ StageOf[handle'.phase] \in Flow!StagesAfter[StageOf[handle.phase]]
  BY DEF AsksTimestamp, StageOf, Flow!StagesAfter
<1>5. QED
  BY <1>1, <1>2, <1>3, <1>4, ConsentedStep

LEMMA HandsOutRefines ==
  ASSUME RefinedInv, HandsOut, approved' = approved, durable' = durable PROVE FlowStep
<1>1. handle.phase \in {"SignPending", "TimestampPending"}
  BY DEF HandsOut, Sealed
<1>2. handle.attrs \in Accepted(browser, approved)
  BY <1>1, PendingIsAccepted DEF AfterConsent
<1>3. Output(step') = handle.attrs
  BY DEF HandsOut, Sealed, Output, RefinedInv, EvidenceInv, Evidence, HandleEvidence
<1>4. Quiet /\ handle'.attrs = None
  BY Unasked DEF HandsOut, NoDraw
<1>5. /\ StageOf[handle'.phase] = "done"
      /\ StageOf[handle'.phase] \in Flow!StagesAfter[StageOf[handle.phase]]
  BY <1>1 DEF HandsOut, StageOf, Flow!StagesAfter
<1>6. QED
  BY <1>2, <1>3, <1>4, <1>5, SealStep

\* A new redirect shows its hash; its state is not approved yet.
LEMMA AsksConsentRefines ==
  ASSUME RefinedInv, AsksConsent, approved' = approved, durable' = durable PROVE FlowStep
<1>1. /\ step'.kind = "redirect" /\ step'.scope = "credential" /\ step'.state = fresh + 1
      /\ step'.hash = handle'.attrs /\ browser' = browser \cup {step'}
  BY DEF AsksConsent, Redirect
<1>2. Shown(browser') = Shown(browser) \cup {handle'.attrs}
  BY <1>1 DEF Shown
<1>3. step'.state \notin approved
  BY <1>1 DEF RefinedInv, RedirectsInv, CoreInv, RestTyped
<1>4. Accepted(browser', approved') = Accepted(browser, approved)
  BY <1>1, <1>3 DEF Accepted
<1>5. Output(step) = None /\ Output(step') = None
  BY <1>1, NothingHandedOut DEF RefinedInv, AsksConsent, Output
<1>6. /\ StageOf[handle'.phase] = "consent" /\ handle'.attrs \in Attrs
      /\ StageOf[handle'.phase] \in Flow!StagesAfter[StageOf[handle.phase]]
  BY DEF AsksConsent, StageOf, Flow!StagesAfter
<1>7. Flow!Offer
  BY <1>2, <1>4, <1>5, <1>6 DEF Shown, Accepted, Flow!Offer, Flow!Step, ConsentRedirects
<1>8. QED
  BY <1>7 DEF FlowStep, Flow!Next

LEMMA ResumeRefines ==
  ASSUME RefinedInv, Resume PROVE FlowStep
<1>1. approved' = approved /\ durable' = durable /\ CoreInv
  BY DEF Resume, trust, RefinedInv
<1>2. ConsentInv'
  BY ResumeKeepsConsent DEF RefinedInv
<1>3. CASE Stays
  BY <1>1, <1>3, Unasked, StutterStep DEF Stays, NoDraw
<1>4. QED
  BY <1>1, <1>2, <1>3, ResumeShape, EndsRefines, AdvancesRefines, AsksConsentRefines,
     AsksTimestampRefines, HandsOutRefines

LEMMA BeginRefines ==
  ASSUME RefinedInv, Begin PROVE FlowStep
<1>1. PICK req \in Requests, tsa \in BOOLEAN :
        BeginRefused(req, tsa) \/ BeginInvalid(req, tsa) \/ BeginAccepted(req, tsa)
  BY DEF Begin
<1>2. /\ handle.phase = "Idle" /\ approved' = approved /\ durable' = durable
      /\ handle.attrs = None /\ Output(step) = None
  BY NothingHandedOut
     DEF Begin, trust, RefinedInv, CoreInv, Sound, FieldsMatchPhase, Consenting, AfterConsent
<1>3. CASE BeginRefused(req, tsa)
  BY <1>2, <1>3, Unasked, StutterStep DEF BeginRefused, Reject
<1>4. CASE BeginInvalid(req, tsa)
  <2>1. handle'.phase = "Failed" /\ handle'.attrs = None /\ Output(step') = None
        /\ browser' = browser
    BY <1>4 DEF BeginInvalid, Emit, Blank, FailedStep, Output
  <2>2. /\ StageOf[handle'.phase] = "failed"
        /\ StageOf[handle'.phase] \in Flow!StagesAfter[StageOf[handle.phase]]
    BY <1>2, <2>1 DEF StageOf, Flow!StagesAfter
  <2>3. QED
    BY <1>2, <2>1, <2>2, Unasked, AbortStep
<1>5. CASE BeginAccepted(req, tsa)
  <2> DEFINE r == Redirect(fresh', "service", None, None)
  <2>1. /\ handle'.phase = "ServiceAuthPending" /\ handle'.attrs = None
        /\ step' = r /\ browser' = browser \cup {r}
    BY <1>5 DEF BeginAccepted, Emit, Blank
  <2>2. r.scope # "credential" /\ r.kind = "redirect"
    BY DEF Redirect
  <2> HIDE DEF r
  <2>3. Quiet /\ Output(step') = None
    BY <1>2, <2>1, <2>2 DEF Quiet, Shown, Accepted, Output
  <2>4. /\ StageOf[handle'.phase] = "login"
        /\ StageOf[handle'.phase] \in Flow!StagesAfter[StageOf[handle.phase]]
    BY <1>2, <2>1 DEF StageOf, Flow!StagesAfter
  <2>5. QED
    BY <1>2, <2>1, <2>3, <2>4, ProceedStep
<1>6. QED
  BY <1>1, <1>3, <1>4, <1>5

\* An approval accepts what its redirect showed, and nothing else: no other
\* redirect has its state.
LEMMA CallbackRefines ==
  ASSUME RefinedInv, Callback PROVE FlowStep
<1>1. UNCHANGED <<handle, step, durable, browser>>
  BY DEF Callback, UserApproves, UserRefuses, ForgedCallback, Deliver, core
<1>2. CASE approved' = approved
  BY <1>1, <1>2, Unasked, StutterStep
<1>3. ASSUME NEW r \in browser, approved' = approved \cup {r.state} PROVE FlowStep
  <2>1. \A s \in browser : s.state = r.state => s = r
    BY DEF RefinedInv, RedirectsInv
  <2>2. CASE r.scope = "credential"
    <3>1. r.hash \in Shown(browser)
      BY <2>2 DEF Shown
    <3>2. Accepted(browser, approved') = Accepted(browser, approved) \cup {r.hash}
      BY <1>3, <2>1, <2>2 DEF Accepted
    <3>3. Flow!Approve
      BY <1>1, <3>1, <3>2 DEF Shown, Accepted, Flow!Approve, ConsentRedirects
    <3>4. QED
      BY <3>3 DEF FlowStep, Flow!Next
  <2>3. CASE r.scope # "credential"
    <3>1. Accepted(browser, approved') = Accepted(browser, approved)
      BY <1>3, <2>1, <2>3 DEF Accepted
    <3>2. QED
      BY <1>1, <3>1 DEF Accepted, FlowStep, Flow!flow, ConsentRedirects
  <2>4. QED
    BY <2>2, <2>3
<1>4. QED
  BY <1>2, <1>3 DEF Callback, UserApproves, UserRefuses, ForgedCallback, trust

LEMMA PerformRefines ==
  ASSUME RefinedInv, Perform PROVE FlowStep
<1>1. approved' = approved
  BY DEF Perform, PerformBadly, PerformToken, PerformList, PerformInfo, PerformSign,
         PerformSignWrongly, PerformTsa, trust
<1>2. QED
  BY <1>1, PerformDelivers, Unasked, StutterStep DEF RefinedInv

\* A restart comes back with the saved handle and at most the saved step.
LEMMA HostRefines ==
  ASSUME RefinedInv, Persist \/ Crash PROVE FlowStep
<1>1. UNCHANGED <<browser, approved>>
  BY DEF Persist, Crash, trust
<1>2. CASE Persist
  <2>1. handle' = handle /\ step' = step /\ durable'.handle = handle /\ durable'.step = step
    BY <1>2 DEF Persist, core
  <2>2. Flow!Save
    BY <1>1, <2>1 DEF Flow!Save, Flow!Point, ConsentRedirects
  <2>3. QED
    BY <2>2 DEF FlowStep, Flow!Next
<1>3. CASE Crash
  <2>1. handle' = durable.handle /\ durable' = durable
        /\ step' \in {durable.step, EffectOf(durable.handle)}
    BY <1>3 DEF Crash
  <2>2. Output(EffectOf(durable.handle)) = None
    BY DEF Output, EffectOf, Redirect, Http, TsaRequest, NoStep
  <2>3. Output(step') \in {None, Output(durable.step)}
    BY <2>1, <2>2
  <2>4. Flow!Restore
    BY <1>1, <2>1, <2>3 DEF Flow!Restore, ConsentRedirects
  <2>5. QED
    BY <2>4 DEF FlowStep, Flow!Next
<1>4. QED
  BY <1>2, <1>3

LEMMA NextRefines == RefinedInv /\ [Next]_vars => [Flow!Next]_(Flow!flow)
<1> SUFFICES ASSUME RefinedInv, [Next]_vars PROVE FlowStep
  BY DEF FlowStep
<1>1. CASE UNCHANGED vars
  BY <1>1, Unasked, StutterStep DEF vars
<1>2. QED
  BY <1>1, BeginRefines, ResumeRefines, PerformRefines, CallbackRefines, HostRefines DEF Next

LEMMA InitRefines == Init => Flow!Init
<1> SUFFICES ASSUME Init PROVE Flow!Init
  OBVIOUS
<1>1. /\ handle = Blank /\ step = NoStep /\ browser = {}
      /\ durable.handle = Blank /\ durable.step = NoStep
  BY DEF Init
<1>2. Blank.phase = "Idle" /\ Blank.attrs = None /\ Output(NoStep) = None
  BY DEF Blank, NoStep, Output
<1>3. StageOf["Idle"] = "idle"
  BY DEF StageOf
<1>4. ConsentRedirects = {}
  BY <1>1 DEF ConsentRedirects
<1>5. QED
  BY <1>1, <1>2, <1>3, <1>4 DEF Flow!Init, Flow!Point

\* signing/mod.rs, driven by any host, browser and services, implements the
\* abstract flow: a document is offered, approved, and only then sealed, once.
THEOREM CoreImplementsFlow == Spec => ImplementsFlow
<1>1. Init => RefinedInv
  BY CoreInit, ConsentInit, EvidenceInit, RedirectsInit DEF RefinedInv
<1>2. RefinedInv /\ [Next]_vars => RefinedInv'
  BY CoreInvInductive, ConsentInvInductive, EvidenceInvInductive, RedirectsInvInductive
     DEF RefinedInv
<1>3. QED
  BY <1>1, <1>2, InitRefines, NextRefines, PTL DEF Spec, ImplementsFlow, Flow!Spec
=============================================================================
