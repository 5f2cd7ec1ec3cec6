--------------------------- MODULE SigningCoreProofs ---------------------------
(***************************************************************************)
(* Proofs about SigningCore.  The inductive invariant CoreInv ties the       *)
(* handle to the effect returned with it (StepMatches) and the answer in the *)
(* inbox to that effect (InboxMatches); the same holds of the saved copy, so *)
(* a restart re-establishes it.                                             *)
(***************************************************************************)
EXTENDS SigningCore, TLAPS

LEMMA PhaseSet ==
  Phases = {"Idle", "ServiceAuthPending", "ServiceTokenPending", "ListPending",
            "InfoPending", "CredentialAuthPending", "CredentialTokenPending",
            "SignPending", "TimestampPending", "Completed", "Failed"}
  BY DEF Phases, PhaseRank

\* A handle with BT asked of it keeps the TSA it was begun with.
KeepsTsa(h) == h.config # None /\ h.level = "BT" => h.config.tsa

\* The effect returned with a handle is the one its phase waits for.
OpOf(p) ==
  CASE p \in {"ServiceTokenPending", "CredentialTokenPending"} -> "token"
    [] p = "ListPending" -> "list"
    [] p = "InfoPending" -> "info"
    [] p = "SignPending" -> "sign"
    [] p = "TimestampPending" -> "tsa"
    [] OTHER -> "none"

StepMatches(h, s) ==
  /\ s.kind \in {"none", "redirect", "http", "done", "failed"}
  /\ s.kind = "http" =>
       /\ s.op = OpOf(h.phase) /\ s.op # "none"
       /\ s.op = "token" => s.code \in Nat
       /\ s.op = "sign" => s.hash \in Attrs

Sound(h, s) ==
  h \in Handles /\ FieldsMatchPhase(h) /\ KeepsTsa(h) /\ StepMatches(h, s)

\* An answer fits the effect it answers.
BodyMatches(op, b) ==
  /\ op = "token" => b \in Nat
  /\ op = "list" => b \in Opt(Credentials)
  /\ op = "info" => b \in Infos
  /\ op = "sign" => b.sig \in Opt(Signature)

InboxMatches ==
  inbox # None =>
    /\ handle.phase # "Idle"
    /\ inbox.kind \in {"return", "error", "http"}
    /\ inbox.kind = "return" => inbox.code \in Nat /\ inbox.state \in Nat
    /\ inbox.kind = "http" /\ inbox.status = "ok" =>
         step.kind = "http" /\ BodyMatches(step.op, inbox.body)

\* What no handle carries.
RestTyped ==
  /\ err \in Opt(Errors) /\ asked \in Opt(Requests)
  /\ fresh \in Nat /\ approved \subseteq Nat /\ signatures \subseteq Signature
  /\ \A r \in browser : r.state \in Nat

CoreInv ==
  /\ Sound(handle, step) /\ Sound(durable.handle, durable.step)
  /\ InboxMatches /\ RestTyped /\ NoMissingField

LEMMA CoreInvImplies == CoreInv => TypeOK /\ CarriedFields /\ NoMissingField
  BY DEF CoreInv, Sound, RestTyped, StepMatches, TypeOK, CarriedFields

-----------------------------------------------------------------------------
\* Ends of a call.

LEMMA ScrubTyped ==
  ASSUME NEW h \in Handles PROVE Scrub(h) \in Handles
  BY DEF Scrub, Handles, Opt

LEMMA PhaseTyped ==
  ASSUME NEW h \in Handles, NEW p \in Phases PROVE [h EXCEPT !.phase = p] \in Handles
  BY DEF Handles

\* What each arm writes keeps the handle's type, one field at a time.
LEMMA FieldTyped ==
  ASSUME NEW h \in Handles
  PROVE  /\ \A x \in Opt(Nat) : [h EXCEPT !.state = x] \in Handles
         /\ \A x \in Opt(Nat) : [h EXCEPT !.token = x] \in Handles
         /\ \A x \in Opt(Nat) : [h EXCEPT !.nonce = x] \in Handles
         /\ \A x \in Opt(Credentials) : [h EXCEPT !.credential = x] \in Handles
         /\ \A x \in Opt(Subjects) : [h EXCEPT !.chain = x] \in Handles
         /\ \A x \in Opt(Subjects) : [h EXCEPT !.signer = x] \in Handles
         /\ \A x \in Opt(Staged) : [h EXCEPT !.staged = x] \in Handles
         /\ \A x \in Opt(Attrs) : [h EXCEPT !.attrs = x] \in Handles
         /\ \A x \in Opt(Times) : [h EXCEPT !.time = x] \in Handles
<1>1. \A x \in Opt(Nat) : [h EXCEPT !.state = x] \in Handles
  BY DEF Handles
<1>2. \A x \in Opt(Nat) : [h EXCEPT !.token = x] \in Handles
  BY DEF Handles
<1>3. \A x \in Opt(Nat) : [h EXCEPT !.nonce = x] \in Handles
  BY DEF Handles
<1>4. \A x \in Opt(Credentials) : [h EXCEPT !.credential = x] \in Handles
  BY DEF Handles
<1>5. \A x \in Opt(Subjects) : [h EXCEPT !.chain = x] \in Handles
  BY DEF Handles
<1>6. \A x \in Opt(Subjects) : [h EXCEPT !.signer = x] \in Handles
  BY DEF Handles
<1>7. \A x \in Opt(Staged) : [h EXCEPT !.staged = x] \in Handles
  BY DEF Handles
<1>8. \A x \in Opt(Attrs) : [h EXCEPT !.attrs = x] \in Handles
  BY DEF Handles
<1>9. \A x \in Opt(Times) : [h EXCEPT !.time = x] \in Handles
  BY DEF Handles
<1>10. QED
  BY <1>1, <1>2, <1>3, <1>4, <1>5, <1>6, <1>7, <1>8, <1>9

LEMMA ConsumedTyped ==
  ASSUME NEW h \in Handles, NEW p \in Phases
  PROVE  [h EXCEPT !.state = None, !.phase = p] \in Handles
<1> DEFINE g == [h EXCEPT !.state = None]
<1>1. g \in Handles
  BY FieldTyped DEF Opt
<1> HIDE DEF g
<1>2. [g EXCEPT !.phase = p] \in Handles
  BY <1>1, PhaseTyped
<1>3. QED
  BY <1>2 DEF g

LEMMA TokenTyped ==
  ASSUME NEW h \in Handles, NEW p \in Phases, NEW n \in Nat
  PROVE  [h EXCEPT !.token = n, !.phase = p] \in Handles
<1> DEFINE g == [h EXCEPT !.token = n]
<1>1. g \in Handles
  BY FieldTyped DEF Opt
<1> HIDE DEF g
<1>2. [g EXCEPT !.phase = p] \in Handles
  BY <1>1, PhaseTyped
<1>3. QED
  BY <1>2 DEF g

LEMMA CredentialTyped ==
  ASSUME NEW h \in Handles, NEW p \in Phases, NEW c \in Credentials
  PROVE  [h EXCEPT !.credential = c, !.phase = p] \in Handles
<1> DEFINE g == [h EXCEPT !.credential = c]
<1>1. g \in Handles
  BY FieldTyped DEF Opt
<1> HIDE DEF g
<1>2. [g EXCEPT !.phase = p] \in Handles
  BY <1>1, PhaseTyped
<1>3. QED
  BY <1>2 DEF g

LEMMA SignerTyped ==
  ASSUME NEW h \in Handles, NEW s \in Subjects
  PROVE  [h EXCEPT !.signer = s] \in Handles
  BY FieldTyped DEF Opt

LEMMA CmsTyped ==
  ASSUME NEW h \in Handles, NEW p \in Phases, NEW n \in Nat,
         NEW c \in Cms
  PROVE  [h EXCEPT !.cms = c, !.nonce = n, !.phase = p] \in Handles
<1> DEFINE g == [h EXCEPT !.cms = c]
           k == [g EXCEPT !.nonce = n]
<1>1. g \in Handles
  BY DEF Handles, Opt
<1> HIDE DEF g
<1>2. k \in Handles
  BY <1>1, FieldTyped DEF Opt
<1> HIDE DEF k
<1>3. [k EXCEPT !.phase = p] \in Handles
  BY <1>2, PhaseTyped
<1>4. QED
  BY <1>3 DEF g, k

LEMMA PreparedTyped ==
  ASSUME NEW h \in Handles, NEW n \in Nat, NEW t \in Times, NEW info \in Infos,
         info.leaf # None
  PROVE  Prepared(h, info, t, n) \in Handles
<1> DEFINE st == [time |-> t, name |-> info.leaf]
           at == [digest |-> st, cert |-> info.leaf]
           h1 == [h EXCEPT !.chain = info.leaf]
           h2 == [h1 EXCEPT !.staged = st]
           h3 == [h2 EXCEPT !.time = t]
           h4 == [h3 EXCEPT !.attrs = at]
           h5 == [h4 EXCEPT !.signer = SignerIdentity(info)]
           h6 == [h5 EXCEPT !.state = n]
           h7 == [h6 EXCEPT !.phase = "CredentialAuthPending"]
<1>1. info.leaf \in Opt(Subjects) /\ SignerIdentity(info) \in Opt(Subjects)
  BY DEF Infos, Opt, SignerIdentity
<1>2. st \in Opt(Staged) /\ at \in Opt(Attrs) /\ t \in Opt(Times) /\ n \in Opt(Nat)
  BY <1>1 DEF Staged, Attrs, Opt
<1> HIDE DEF st, at
<1>3. h1 \in Handles
  BY <1>1, FieldTyped
<1> HIDE DEF h1
<1>4. h2 \in Handles
  BY <1>2, <1>3, FieldTyped
<1> HIDE DEF h2
<1>5. h3 \in Handles
  BY <1>2, <1>4, FieldTyped
<1> HIDE DEF h3
<1>6. h4 \in Handles
  BY <1>2, <1>5, FieldTyped
<1> HIDE DEF h4
<1>7. h5 \in Handles
  BY <1>1, <1>6, FieldTyped
<1> HIDE DEF h5
<1>8. h6 \in Handles
  BY <1>2, <1>7, FieldTyped
<1> HIDE DEF h6
<1>9. h7 \in Handles
  BY <1>8, PhaseTyped, PhaseSet
<1>10. QED
  BY <1>9 DEF Prepared, st, at, h1, h2, h3, h4, h5, h6

LEMMA FailSound ==
  ASSUME NEW h \in Handles, NEW outcome, h.phase # "Idle", Fail(h, outcome)
  PROVE  Sound(handle', step') /\ err' = None
<1> DEFINE g == [Scrub(h) EXCEPT !.phase = "Failed"]
<1>1. handle' = g /\ err' = None /\ step' = FailedStep(outcome, h.signer)
  BY DEF Fail, Emit
<1>2. g \in Handles
  BY ScrubTyped, PhaseTyped, PhaseSet
<1>3. FieldsMatchPhase(g) /\ KeepsTsa(g)
  BY DEF Scrub, Handles, FieldsMatchPhase, KeepsTsa, AuthPending, Terminal, Prefetch,
         AfterConsent, Consenting
<1>4. StepMatches(g, step')
  BY <1>1 DEF StepMatches, FailedStep
<1>5. QED
  BY <1>1, <1>2, <1>3, <1>4 DEF Sound

LEMMA FinalizeSound ==
  ASSUME NEW h \in Handles, NEW pdf, Finalize(h, pdf)
  PROVE  Sound(handle', step') /\ err' = None
<1> DEFINE g == [Scrub(h) EXCEPT !.phase = "Completed"]
<1>1. handle' = g /\ err' = None /\ step'.kind = "done"
  BY DEF Finalize, Emit
<1>2. g \in Handles
  BY ScrubTyped, PhaseTyped, PhaseSet
<1>3. FieldsMatchPhase(g) /\ KeepsTsa(g)
  BY DEF Scrub, Handles, FieldsMatchPhase, KeepsTsa, AuthPending, Terminal, Prefetch,
         AfterConsent, Consenting
<1>4. StepMatches(g, step')
  BY <1>1 DEF StepMatches
<1>5. QED
  BY <1>1, <1>2, <1>3, <1>4 DEF Sound

LEMMA RejectSound ==
  ASSUME NEW e \in Errors \ {"BadHandle"}, Sound(handle, step), Reject(e)
  PROVE  Sound(handle', step') /\ err' \in Opt(Errors) /\ err' # "BadHandle"
  BY DEF Reject, Opt

-----------------------------------------------------------------------------
\* One lemma per arm of resume: from CoreInv, each leaves a sound handle.

Outcome ==
  /\ Sound(handle', step')
  /\ err' \in Opt(Errors)
  /\ err' = "BadHandle" => handle'.phase \in Terminal
  /\ fresh' \in Nat /\ \A r \in browser' : r.state \in Nat

LEMMA RejectOutcome ==
  ASSUME CoreInv, NEW e \in Errors \ {"BadHandle"}, Reject(e), NoDraw
  PROVE  Outcome
  BY RejectSound DEF CoreInv, Outcome, RestTyped, NoDraw

LEMMA FailOutcome ==
  ASSUME CoreInv, NEW h \in Handles, h.phase # "Idle", NEW o, Fail(h, o), NoDraw
  PROVE  Outcome
  BY FailSound, NoneAssumption DEF CoreInv, Outcome, RestTyped, NoDraw, Opt, Errors

\* Only an ended session lacks a field its phase needs.
LEMMA CarriedUntilEnd ==
  ASSUME CoreInv, inbox # None, ~Carried(handle)
  PROVE  handle.phase \in Terminal
<1>1. handle.phase \in Phases /\ handle.phase # "Idle" /\ FieldsMatchPhase(handle)
      /\ KeepsTsa(handle)
  BY DEF CoreInv, Sound, InboxMatches, Handles
<1>2. SUFFICES ASSUME handle.phase \notin Terminal PROVE Carried(handle)
  OBVIOUS
<1>3. \A f \in Required[handle.phase] : handle[f] # None
  BY <1>1, <1>2, PhaseSet DEF Required, FieldsMatchPhase, Terminal, Prefetch,
                           AfterConsent, Consenting
<1>4. QED
  BY <1>1, <1>2, <1>3 DEF Carried, FieldsMatchPhase, KeepsTsa

LEMMA BadHandleOutcome ==
  ASSUME CoreInv, inbox # None, ResumeBadHandle PROVE Outcome
  BY CarriedUntilEnd DEF ResumeBadHandle, Reject, NoDraw, CoreInv, Outcome, RestTyped,
                         Errors, Opt

LEMMA RedirectErrorOutcome ==
  ASSUME CoreInv, inbox # None, ResumeRedirectError PROVE Outcome
<1>1. handle \in Handles /\ handle.phase # "Idle" /\ NoDraw
  BY DEF CoreInv, Sound, InboxMatches, ResumeRedirectError
<1>2. \/ \E e \in Errors \ {"BadHandle"} : Reject(e)
      \/ \E o \in {"Declined", "AuthorizationExpired"} : Fail(handle, o)
  BY DEF ResumeRedirectError, Errors
<1>3. QED
  BY <1>1, <1>2, RejectOutcome, FailOutcome

LEMMA UnexpectedOutcome ==
  ASSUME CoreInv, inbox # None, ResumeUnexpected PROVE Outcome
  BY RejectOutcome DEF ResumeUnexpected, Errors

LEMMA AuthOutcome ==
  ASSUME CoreInv, inbox # None,
         NEW p \in AuthPending, NEW q \in {"ServiceTokenPending", "CredentialTokenPending"},
         p = "ServiceAuthPending" <=> q = "ServiceTokenPending",
         ResumeAuth(p, q)
  PROVE  Outcome
<1>1. CASE handle.state # inbox.state
  BY <1>1, RejectOutcome DEF ResumeAuth, Errors
<1>2. CASE handle.state = inbox.state
  <2> DEFINE g == [handle EXCEPT !.state = None, !.phase = q]
  <2>1. handle' = g /\ step' = TokenExchange(inbox.code) /\ err' = None
        /\ handle.phase = p /\ NoDraw /\ inbox.code \in Nat
    BY <1>2 DEF ResumeAuth, Emit, At, CoreInv, InboxMatches
  <2>2. handle \in Handles /\ FieldsMatchPhase(handle) /\ KeepsTsa(handle)
    BY DEF CoreInv, Sound
  <2>3. g \in Handles
    <3>1. q \in Phases
      BY PhaseSet
    <3>2. QED
      BY <2>2, <3>1, ConsumedTyped
  <2>4. FieldsMatchPhase(g) /\ KeepsTsa(g)
    BY <2>1, <2>2 DEF Handles, FieldsMatchPhase, KeepsTsa, AuthPending, Terminal, Prefetch,
                  AfterConsent, Consenting
  <2>5. StepMatches(g, step')
    BY <2>1, <2>2 DEF StepMatches, TokenExchange, OpOf, Handles
  <2>6. QED
    BY <2>1, <2>3, <2>4, <2>5, NoneAssumption
       DEF Outcome, Sound, NoDraw, CoreInv, RestTyped, Opt, Errors
<1>3. QED
  BY <1>1, <1>2

\* An arm that keeps the entropy and moves to a sound handle.
LEMMA MoveOutcome ==
  ASSUME CoreInv, NEW h, NEW s, Emit(h, s), Sound(h, s), NoDraw
  PROVE  Outcome
  BY NoneAssumption DEF CoreInv, Outcome, Emit, NoDraw, RestTyped, Opt, Errors

LEMMA AnswerTyped ==
  ASSUME CoreInv, inbox # None, NEW p, Answer(p)
  PROVE  /\ handle \in Handles /\ FieldsMatchPhase(handle) /\ KeepsTsa(handle)
         /\ handle.phase = p /\ p # "Idle" /\ BodyMatches(OpOf(p), inbox.body)
  BY DEF CoreInv, Sound, InboxMatches, Answer, Answered, At, StepMatches

LEMMA RefusedOutcome ==
  ASSUME CoreInv, inbox # None, NEW p, NEW o, Refused(p, o) \/ Unparsable(p)
  PROVE  Outcome
<1>1. handle \in Handles /\ handle.phase # "Idle"
  BY DEF CoreInv, Sound, InboxMatches
<1>2. CASE Refused(p, o)
  BY <1>1, <1>2, FailOutcome DEF Refused
<1>3. CASE Unparsable(p)
  BY <1>3, RejectOutcome DEF Unparsable, Errors
<1>4. QED
  BY <1>2, <1>3

LEMMA ServiceTokenOutcome ==
  ASSUME CoreInv, inbox # None, ResumeServiceToken PROVE Outcome
<1>1. CASE Answer("ServiceTokenPending") /\ NoDraw
           /\ Emit([handle EXCEPT !.token = inbox.body, !.phase = "ListPending"], Http("list"))
  <2> DEFINE g == [handle EXCEPT !.token = inbox.body, !.phase = "ListPending"]
  <2>1. handle \in Handles /\ FieldsMatchPhase(handle) /\ KeepsTsa(handle)
        /\ handle.phase = "ServiceTokenPending" /\ inbox.body \in Nat
    BY <1>1, AnswerTyped DEF BodyMatches, OpOf
  <2>2. g \in Handles
    BY <2>1, TokenTyped, PhaseSet
  <2>3. FieldsMatchPhase(g) /\ KeepsTsa(g)
    BY <2>1, NoneAssumption DEF Handles, FieldsMatchPhase, KeepsTsa, AuthPending, Terminal,
                                Prefetch, AfterConsent, Consenting
  <2>4. StepMatches(g, Http("list"))
    BY <2>1 DEF StepMatches, Http, OpOf, Handles
  <2>5. QED
    BY <1>1, <2>2, <2>3, <2>4, MoveOutcome DEF Sound
<1>2. QED
  BY <1>1, RefusedOutcome DEF ResumeServiceToken

LEMMA ListOutcome ==
  ASSUME CoreInv, inbox # None, ResumeList PROVE Outcome
<1>1. CASE Answer("ListPending") /\ NoDraw /\ inbox.body = None
           /\ Fail(handle, "CredentialUnavailable")
  BY <1>1, AnswerTyped, FailOutcome
<1>2. CASE Answer("ListPending") /\ NoDraw /\ inbox.body # None
           /\ Emit([handle EXCEPT !.credential = inbox.body, !.phase = "InfoPending"],
                   Http("info"))
  <2> DEFINE g == [handle EXCEPT !.credential = inbox.body, !.phase = "InfoPending"]
  <2>1. handle \in Handles /\ FieldsMatchPhase(handle) /\ KeepsTsa(handle)
        /\ handle.phase = "ListPending" /\ inbox.body \in Credentials
    BY <1>2, AnswerTyped DEF BodyMatches, OpOf, Opt
  <2>2. g \in Handles
    BY <2>1, CredentialTyped, PhaseSet
  <2>3. FieldsMatchPhase(g) /\ KeepsTsa(g)
    BY <1>2, <2>1 DEF Handles, FieldsMatchPhase, KeepsTsa, AuthPending, Terminal,
                  Prefetch, AfterConsent, Consenting
  <2>4. StepMatches(g, Http("info"))
    BY <2>1 DEF StepMatches, Http, OpOf, Handles
  <2>5. QED
    BY <1>2, <2>2, <2>3, <2>4, MoveOutcome DEF Sound
<1>3. QED
  BY <1>1, <1>2, RefusedOutcome DEF ResumeList

LEMMA PreparedFields ==
  ASSUME NEW h \in Handles, FieldsMatchPhase(h), KeepsTsa(h), h.phase = "InfoPending",
         NEW n \in Nat, NEW t \in Times, NEW info \in Infos, info.leaf # None
  PROVE  FieldsMatchPhase(Prepared(h, info, t, n)) /\ KeepsTsa(Prepared(h, info, t, n))
<1> DEFINE st == [time |-> t, name |-> info.leaf]
           at == [digest |-> st, cert |-> info.leaf]
           g == Prepared(h, info, t, n)
<1>1. info.leaf \in Subjects
  BY DEF Infos, Opt
<1>2. st # None /\ at # None
  BY <1>1, NoneAssumption DEF Staged, Attrs
<1> HIDE DEF st, at
<1>3. /\ g.phase = "CredentialAuthPending" /\ g.state = n /\ g.config = h.config
      /\ g.request = h.request /\ g.token = h.token /\ g.credential = h.credential
      /\ g.chain = info.leaf /\ g.attrs = at /\ g.staged = st /\ g.cms = h.cms
      /\ g.nonce = h.nonce /\ g.level = h.level
  BY DEF Prepared, Handles, st, at
<1> HIDE DEF g
<1>4. FieldsMatchPhase(g) /\ KeepsTsa(g)
  BY <1>2, <1>3, NoneAssumption DEF FieldsMatchPhase, KeepsTsa, AuthPending, Terminal,
                                    Prefetch, AfterConsent, Consenting
<1>5. QED
  BY <1>4 DEF g

LEMMA InfoAcceptedOutcome ==
  ASSUME CoreInv, inbox # None, Answer("InfoPending"), ~Unusable(inbox.body),
         ResumeInfoAccepted(inbox.body)
  PROVE  Outcome
<1>1. handle \in Handles /\ FieldsMatchPhase(handle) /\ KeepsTsa(handle)
      /\ handle.phase = "InfoPending" /\ inbox.body \in Infos /\ inbox.body.leaf # None
  BY AnswerTyped DEF BodyMatches, OpOf, Unusable
<1>2. PICK now \in Times :
        LET h == Prepared(handle, inbox.body, now, fresh')
            r == Redirect(fresh', "credential", h.credential, h.attrs)
        IN  Emit(h, r) /\ browser' = browser \cup {r}
  BY DEF ResumeInfoAccepted
<1>3. fresh' \in Nat
  BY DEF ResumeInfoAccepted, CoreInv, RestTyped
<1> DEFINE g == Prepared(handle, inbox.body, now, fresh')
           r == Redirect(fresh', "credential", g.credential, g.attrs)
<1>4. g \in Handles /\ FieldsMatchPhase(g) /\ KeepsTsa(g)
  BY <1>1, <1>3, PreparedTyped, PreparedFields
<1>5. handle' = g /\ step' = r /\ err' = None /\ browser' = browser \cup {r}
  BY <1>2 DEF Emit
<1> HIDE DEF g
<1>6. StepMatches(g, r) /\ r.state \in Nat
  BY <1>3 DEF StepMatches, Redirect
<1>7. Sound(handle', step')
  BY <1>4, <1>5, <1>6 DEF Sound
<1>8. QED
  BY <1>3, <1>5, <1>6, <1>7, NoneAssumption DEF Outcome, CoreInv, RestTyped, Opt, Errors

LEMMA InfoOutcome ==
  ASSUME CoreInv, inbox # None, ResumeInfo PROVE Outcome
<1>1. CASE Refused("InfoPending", "CredentialUnavailable") \/ Unparsable("InfoPending")
  BY <1>1, RefusedOutcome
<1>2. CASE Answer("InfoPending")
  <2> DEFINE info == inbox.body
             named == [handle EXCEPT !.signer = SignerIdentity(info)]
  <2>1. handle \in Handles /\ handle.phase = "InfoPending" /\ info \in Infos
    BY <1>2, AnswerTyped DEF BodyMatches, OpOf
  <2>2. \/ Unusable(info) /\ Fail(handle, "CredentialUnavailable") /\ NoDraw
        \/ ~Unusable(info) /\ \E o : Fail(named, o) /\ NoDraw
        \/ Reject("Internal") /\ NoDraw
        \/ ~Unusable(info) /\ ResumeInfoAccepted(info)
    BY <1>2 DEF ResumeInfo, Refused, Unparsable, Answer
  <2>3. ~Unusable(info) => named \in Handles /\ named.phase = "InfoPending"
    <3>1. ~Unusable(info) => SignerIdentity(info) \in Subjects
      BY <2>1 DEF Unusable, SignerIdentity, Infos, Opt
    <3>2. named.phase = "InfoPending"
      BY <2>1 DEF Handles
    <3>3. QED
      BY <2>1, <3>1, <3>2, SignerTyped
  <2> HIDE DEF named
  <2>4. QED
    BY <1>2, <2>1, <2>2, <2>3, FailOutcome, RejectOutcome, InfoAcceptedOutcome DEF Errors
<1>3. QED
  BY <1>1, <1>2 DEF ResumeInfo

LEMMA CredentialTokenOutcome ==
  ASSUME CoreInv, inbox # None, ResumeCredentialToken PROVE Outcome
<1>1. CASE Answer("CredentialTokenPending") /\ NoDraw
           /\ Emit([handle EXCEPT !.phase = "SignPending"], SignHash(handle, inbox.body))
  <2> DEFINE g == [handle EXCEPT !.phase = "SignPending"]
  <2>1. handle \in Handles /\ FieldsMatchPhase(handle) /\ KeepsTsa(handle)
        /\ handle.phase = "CredentialTokenPending"
    BY <1>1, AnswerTyped
  <2>2. g \in Handles
    BY <2>1, PhaseTyped, PhaseSet
  <2>3. FieldsMatchPhase(g) /\ KeepsTsa(g)
    BY <2>1 DEF Handles, FieldsMatchPhase, KeepsTsa, AuthPending, Terminal, Prefetch,
                AfterConsent, Consenting
  <2>4. handle.attrs \in Attrs
    BY <2>1 DEF FieldsMatchPhase, Handles, Opt, Consenting, AfterConsent
  <2>5. StepMatches(g, SignHash(handle, inbox.body))
    BY <2>1, <2>4 DEF StepMatches, SignHash, OpOf, Handles
  <2>6. QED
    BY <1>1, <2>2, <2>3, <2>5, MoveOutcome DEF Sound
<1>2. QED
  BY <1>1, RefusedOutcome DEF ResumeCredentialToken

\* Embedding ends the flow, or the placeholder is too small.
LEMMA EmbedOutcome ==
  ASSUME CoreInv, NEW c, NEW fits, Embed(handle, c, fits), NoDraw
  PROVE  Outcome
<1>1. handle \in Handles
  BY DEF CoreInv, Sound
<1>2. Reject("Internal") \/ Finalize(handle, [staged |-> handle.staged, cms |-> c])
  BY DEF Embed
<1>3. CASE Reject("Internal")
  BY <1>3, RejectOutcome DEF Errors
<1>4. CASE Finalize(handle, [staged |-> handle.staged, cms |-> c])
  BY <1>1, <1>4, FinalizeSound, NoneAssumption
     DEF CoreInv, Outcome, RestTyped, NoDraw, Opt, Errors
<1>5. QED
  BY <1>2, <1>3, <1>4

LEMMA SignAcceptedOutcome ==
  ASSUME CoreInv, inbox # None, Answer("SignPending"), NEW c \in Cms, NEW fits,
         ResumeSignAccepted(c, fits)
  PROVE  Outcome
<1>1. CASE handle.level = "BB" /\ Embed(handle, c, fits) /\ NoDraw
  BY <1>1, EmbedOutcome
<1>2. CASE handle.level = "BT"
  <2> DEFINE g == [handle EXCEPT !.cms = c, !.nonce = fresh', !.phase = "TimestampPending"]
  <2>1. /\ handle' = g /\ step' = TsaRequest(g) /\ err' = None
        /\ fresh' = fresh + 1 /\ browser' = browser
    BY <1>2 DEF ResumeSignAccepted, Emit
  <2>2. handle \in Handles /\ FieldsMatchPhase(handle) /\ KeepsTsa(handle)
        /\ handle.phase = "SignPending" /\ fresh' \in Nat
    BY <2>1, AnswerTyped DEF CoreInv, RestTyped
  <2>3. g \in Handles
    BY <2>2, CmsTyped, PhaseSet
  <2>4. FieldsMatchPhase(g) /\ KeepsTsa(g)
    BY <2>2, NoneAssumption DEF Handles, FieldsMatchPhase, KeepsTsa, AuthPending, Terminal,
                                Prefetch, AfterConsent, Consenting
  <2>5. StepMatches(g, TsaRequest(g))
    BY <2>2 DEF StepMatches, TsaRequest, OpOf, Handles
  <2>6. QED
    BY <2>1, <2>2, <2>3, <2>4, <2>5, NoneAssumption
       DEF Outcome, Sound, CoreInv, RestTyped, Opt, Errors
<1>3. QED
  BY <1>1, <1>2 DEF ResumeSignAccepted

LEMMA SignOutcome ==
  ASSUME CoreInv, inbox # None, ResumeSign PROVE Outcome
<1>1. CASE Refused("SignPending", "CredentialUnavailable") \/ Unparsable("SignPending")
  BY <1>1, RefusedOutcome
<1>2. CASE Answer("SignPending")
  <2> DEFINE c == [attrs |-> handle.attrs, sig |-> inbox.body.sig, token |-> None]
  <2>1. handle \in Handles /\ handle.phase = "SignPending" /\ handle.attrs \in Attrs
        /\ inbox.body.sig \in Opt(Signature)
    BY <1>2, AnswerTyped
       DEF BodyMatches, OpOf, FieldsMatchPhase, Handles, Opt, Consenting, AfterConsent
  <2>2. inbox.body.sig # None => c \in Cms
    BY <2>1 DEF Cms, Opt
  <2>3. \/ \E o : Fail(handle, o) /\ NoDraw
        \/ Reject("Internal") /\ NoDraw
        \/ inbox.body.sig # None /\ ResumeSignAccepted(c, inbox.body.fits)
    BY <1>2 DEF ResumeSign, Refused, Unparsable, Answer
  <2> HIDE DEF c
  <2>4. QED
    BY <1>2, <2>1, <2>2, <2>3, FailOutcome, RejectOutcome, SignAcceptedOutcome DEF Errors
<1>3. QED
  BY <1>1, <1>2 DEF ResumeSign

LEMMA TimestampOutcome ==
  ASSUME CoreInv, inbox # None, ResumeTimestamp PROVE Outcome
<1>1. handle \in Handles /\ handle.phase # "Idle" /\ NoDraw
  BY DEF CoreInv, Sound, InboxMatches, ResumeTimestamp
<1>2. (\E o : Fail(handle, o)) \/ (\E c, fits : Embed(handle, c, fits))
  BY DEF ResumeTimestamp
<1>3. QED
  BY <1>1, <1>2, FailOutcome, EmbedOutcome

LEMMA ResumeOutcome ==
  ASSUME CoreInv, Resume PROVE Outcome
  BY BadHandleOutcome, RedirectErrorOutcome, UnexpectedOutcome, AuthOutcome,
     ServiceTokenOutcome, ListOutcome, InfoOutcome, CredentialTokenOutcome,
     SignOutcome, TimestampOutcome
     DEF Resume, AuthPending

-----------------------------------------------------------------------------
\* CoreInv is inductive.

LEMMA BlankSound == Sound(Blank, NoStep)
<1>1. Blank \in Handles
  BY PhaseSet DEF Blank, Handles, Opt
<1>2. FieldsMatchPhase(Blank) /\ KeepsTsa(Blank) /\ StepMatches(Blank, NoStep)
  BY DEF Blank, NoStep, FieldsMatchPhase, KeepsTsa, StepMatches, AuthPending, Terminal,
         Prefetch, AfterConsent, Consenting
<1>3. QED
  BY <1>1, <1>2 DEF Sound

LEMMA CoreInit == Init => CoreInv
  BY BlankSound, NoneAssumption
     DEF Init, CoreInv, InboxMatches, RestTyped, NoMissingField, Opt, Errors

LEMMA ResumeKeepsCoreInv == CoreInv /\ Resume => CoreInv'
<1> SUFFICES ASSUME CoreInv, Resume PROVE CoreInv'
  OBVIOUS
<1>1. Outcome
  BY ResumeOutcome
<1>2. inbox' = None /\ UNCHANGED <<durable, asked, approved, signatures>>
  BY DEF Resume, trust
<1>3. QED
  BY <1>1, <1>2 DEF CoreInv, Outcome, InboxMatches, RestTyped, NoMissingField

LEMMA BegunTyped ==
  ASSUME NEW req \in Requests, NEW tsa \in BOOLEAN, NEW n \in Nat
  PROVE  /\ [Blank EXCEPT !.phase = "Failed", !.level = req.level] \in Handles
         /\ [Blank EXCEPT !.phase = "ServiceAuthPending", !.level = req.level, !.state = n,
                          !.request = req, !.config = [tsa |-> tsa]] \in Handles
<1>1. req.level \in Levels /\ [tsa |-> tsa] \in Configs
  BY DEF Requests, Configs
<1>2. "Failed" \in Phases /\ "ServiceAuthPending" \in Phases
  BY PhaseSet
<1>3. QED
  BY <1>1, <1>2 DEF Blank, Handles, Opt

LEMMA BeginKeepsCoreInv == CoreInv /\ Begin => CoreInv'
<1> SUFFICES ASSUME CoreInv, Begin PROVE CoreInv'
  OBVIOUS
<1>1. PICK req \in Requests, tsa \in BOOLEAN :
        BeginRefused(req, tsa) \/ BeginInvalid(req, tsa) \/ BeginAccepted(req, tsa)
  BY DEF Begin
<1>2. inbox = None /\ UNCHANGED <<inbox, durable, approved, signatures>>
  BY DEF Begin, trust
<1>3. Sound(handle', step') /\ err' \in Opt(Errors) /\ err' # "BadHandle"
      /\ asked' \in Opt(Requests) /\ fresh' \in Nat /\ \A r \in browser' : r.state \in Nat
  <2>1. CASE BeginRefused(req, tsa)
    BY <2>1 DEF BeginRefused, Reject, CoreInv, RestTyped, Errors, Opt
  <2>2. CASE BeginInvalid(req, tsa)
    <3> DEFINE g == [Blank EXCEPT !.phase = "Failed", !.level = req.level]
    <3>1. handle' = g /\ err' = None /\ asked' = req /\ UNCHANGED <<fresh, browser>>
          /\ step' = FailedStep("InvalidDocument", None)
      BY <2>2 DEF BeginInvalid, Emit
    <3>2. FieldsMatchPhase(g) /\ KeepsTsa(g) /\ StepMatches(g, step')
      BY <3>1 DEF Blank, FieldsMatchPhase, KeepsTsa, StepMatches, FailedStep, AuthPending,
                  Terminal, Prefetch, AfterConsent, Consenting
    <3>3. g \in Handles
      BY BegunTyped
    <3> HIDE DEF g
    <3>4. QED
      BY <3>1, <3>2, <3>3, NoneAssumption DEF Sound, CoreInv, RestTyped, Opt, Errors
  <2>3. CASE BeginAccepted(req, tsa)
    <3> DEFINE g == [Blank EXCEPT !.phase = "ServiceAuthPending", !.level = req.level,
                                  !.state = fresh', !.request = req,
                                  !.config = [tsa |-> tsa]]
               r == Redirect(fresh', "service", None, None)
    <3>1. /\ handle' = g /\ err' = None /\ asked' = req /\ fresh' \in Nat
          /\ step' = r /\ browser' = browser \cup {r} /\ ~(req.level = "BT" /\ ~tsa)
      BY <2>3 DEF BeginAccepted, Emit, CoreInv, RestTyped
    <3>2. req # None /\ [tsa |-> tsa] # None /\ fresh' # None
      BY <3>1, NoneAssumption DEF Configs
    <3>3. FieldsMatchPhase(g) /\ KeepsTsa(g)
      BY <3>1, <3>2 DEF Blank, FieldsMatchPhase, KeepsTsa, AuthPending, Terminal, Prefetch,
                        AfterConsent, Consenting
    <3>4. g \in Handles
      BY <3>1, BegunTyped
    <3> HIDE DEF g
    <3>5. StepMatches(g, r) /\ r.state \in Nat
      BY <3>1 DEF StepMatches, Redirect
    <3>6. QED
      BY <3>1, <3>3, <3>4, <3>5, NoneAssumption DEF Sound, CoreInv, RestTyped, Opt, Errors
  <2>4. QED
    BY <1>1, <2>1, <2>2, <2>3
<1>4. QED
  BY <1>2, <1>3 DEF CoreInv, InboxMatches, RestTyped, NoMissingField

\* Every answer the world may give fits the pending effect.
LEMMA PerformDelivers ==
  ASSUME CoreInv, Perform
  PROVE  /\ UNCHANGED <<handle, step, err, durable, asked, fresh, browser>>
         /\ InboxMatches' /\ approved' \subseteq Nat /\ signatures' \subseteq Signature
<1>1. /\ step.kind = "http" /\ step.op = OpOf(handle.phase) /\ step.op # "none"
      /\ step.op = "token" => step.code \in Nat
      /\ step.op = "sign" => step.hash \in Attrs
  BY DEF CoreInv, Sound, StepMatches, Perform, PerformBadly, PerformToken, PerformList,
         PerformInfo, PerformSign, PerformSignWrongly, PerformTsa, Pending
<1>2. handle.phase # "Idle"
  BY <1>1 DEF OpOf
<1>3. approved \subseteq Nat /\ signatures \subseteq Signature
  BY DEF CoreInv, RestTyped
<1>4. ASSUME NEW status, NEW b, Deliver(HttpResult(status, b)),
             status = "ok" => BodyMatches(step.op, b)
      PROVE  /\ UNCHANGED <<handle, step, err, durable, asked, fresh, browser>>
             /\ InboxMatches'
  BY <1>1, <1>2, <1>4 DEF Deliver, core, HttpResult, InboxMatches
<1>5. CASE PerformBadly
  BY <1>3, <1>4, <1>5 DEF PerformBadly, trust
<1>6. CASE PerformToken
  <2>1. BodyMatches(step.op, step.code)
    BY <1>1, <1>6 DEF BodyMatches, PerformToken, Pending
  <2>2. QED
    BY <1>3, <1>4, <1>6, <2>1 DEF PerformToken
<1>7. CASE PerformList
  <2>1. PICK c \in Opt(Credentials) : Deliver(HttpResult("ok", c))
    BY <1>7 DEF PerformList
  <2>2. BodyMatches(step.op, c)
    BY <1>7, <2>1 DEF BodyMatches, PerformList, Pending
  <2>3. QED
    BY <1>3, <1>4, <1>7, <2>1, <2>2 DEF PerformList, trust
<1>8. CASE PerformInfo
  <2>1. PICK info \in Infos : Deliver(HttpResult("ok", info))
    BY <1>8 DEF PerformInfo
  <2>2. BodyMatches(step.op, info)
    BY <1>8, <2>1 DEF BodyMatches, PerformInfo, Pending
  <2>3. QED
    BY <1>3, <1>4, <1>8, <2>1, <2>2 DEF PerformInfo, trust
<1>9. CASE PerformSign
  <2>1. PICK by \in Subjects, built \in BOOLEAN, fits \in BOOLEAN :
          LET sig == [by |-> by, over |-> step.hash]
          IN  /\ Deliver(HttpResult("ok", [sig |-> sig, built |-> built, fits |-> fits]))
              /\ signatures' = signatures \cup {sig}
    BY <1>9 DEF PerformSign
  <2> DEFINE sig == [by |-> by, over |-> step.hash]
  <2>2. sig \in Signature /\ step.op = "sign" /\ approved' = approved
    BY <1>1, <1>9 DEF PerformSign, Pending, Signature, Opt
  <2>3. BodyMatches(step.op, [sig |-> sig, built |-> built, fits |-> fits])
    BY <2>2 DEF BodyMatches, Opt
  <2>4. QED
    BY <1>3, <1>4, <2>1, <2>2, <2>3
<1>10. CASE PerformSignWrongly
  <2>1. PICK sig \in {None} \cup [by : Subjects, over : {None}] :
          Deliver(HttpResult("ok", [sig |-> sig, built |-> TRUE, fits |-> TRUE]))
    BY <1>10 DEF PerformSignWrongly
  <2>2. sig \in Opt(Signature) /\ step.op = "sign"
    BY <1>10 DEF PerformSignWrongly, Pending, Signature, Opt
  <2>3. BodyMatches(step.op, [sig |-> sig, built |-> TRUE, fits |-> TRUE])
    BY <2>2 DEF BodyMatches
  <2>4. QED
    BY <1>3, <1>4, <1>10, <2>1, <2>3 DEF PerformSignWrongly, trust
<1>11. CASE PerformTsa
  <2>1. PICK b : Deliver(HttpResult("ok", b))
    BY <1>11 DEF PerformTsa
  <2>2. BodyMatches(step.op, b)
    BY <1>11 DEF BodyMatches, PerformTsa, Pending
  <2>3. QED
    BY <1>3, <1>4, <1>11, <2>1, <2>2 DEF PerformTsa, trust
<1>12. QED
  BY <1>5, <1>6, <1>7, <1>8, <1>9, <1>10, <1>11 DEF Perform

LEMMA PerformKeepsCoreInv == CoreInv /\ Perform => CoreInv'
  BY PerformDelivers DEF CoreInv, RestTyped, NoMissingField

LEMMA CallbackKeepsCoreInv == CoreInv /\ Callback => CoreInv'
<1> SUFFICES ASSUME CoreInv, Callback PROVE CoreInv'
  OBVIOUS
<1>1. handle.phase # "Idle" /\ UNCHANGED <<handle, step, err, durable, asked, fresh, browser>>
  BY DEF Callback, UserApproves, UserRefuses, ForgedCallback, Deliver, core
<1>2. signatures' = signatures /\ approved' \subseteq Nat
  BY DEF Callback, UserApproves, UserRefuses, ForgedCallback, trust, CoreInv, RestTyped
<1>3. \A r \in browser : r.state \in Nat
  BY DEF CoreInv, RestTyped
<1>4. /\ inbox'.kind \in {"return", "error"}
      /\ inbox'.kind = "return" => inbox'.code \in Nat /\ inbox'.state \in Nat
  BY <1>3 DEF Callback, UserApproves, UserRefuses, ForgedCallback, Deliver
<1>5. QED
  BY <1>1, <1>2, <1>4 DEF CoreInv, InboxMatches, RestTyped, NoMissingField

LEMMA EffectOfMatches ==
  ASSUME NEW h PROVE StepMatches(h, EffectOf(h))
  BY DEF EffectOf, StepMatches, OpOf, Redirect, Http, TsaRequest, NoStep

LEMMA HostKeepsCoreInv == CoreInv /\ (Persist \/ Crash) => CoreInv'
<1>1. CoreInv /\ Persist => CoreInv'
  BY DEF CoreInv, Persist, InboxMatches, RestTyped, NoMissingField, core, trust
<1>2. ASSUME CoreInv, Crash PROVE CoreInv'
  <2>1. Sound(handle', step')
    BY <1>2, EffectOfMatches DEF CoreInv, Crash, Sound
  <2>2. QED
    BY <1>2, <2>1, NoneAssumption
       DEF CoreInv, Crash, InboxMatches, RestTyped, NoMissingField, trust, Opt, Errors
<1>3. QED
  BY <1>1, <1>2

LEMMA CoreInvInductive == CoreInv /\ [Next]_vars => CoreInv'
<1>1. CoreInv /\ UNCHANGED vars => CoreInv'
  BY DEF vars, CoreInv, InboxMatches, RestTyped, NoMissingField
<1>2. QED
  BY <1>1, BeginKeepsCoreInv, ResumeKeepsCoreInv, PerformKeepsCoreInv, CallbackKeepsCoreInv,
     HostKeepsCoreInv DEF Next

\* The handle, its saved copy and the flow's records stay well formed under every
\* call, answer, callback and restart of signing/mod.rs.
THEOREM SigningCoreTypeOK == Spec => []TypeOK
  BY CoreInit, CoreInvInductive, CoreInvImplies, PTL DEF Spec

\* The optional fields of SigningSessionHandle are present exactly in the phases
\* that use them, for any subjects, credentials, clock and number of restarts.
THEOREM HandleCarriesItsFields == Spec => []CarriedFields
  BY CoreInit, CoreInvInductive, CoreInvImplies, PTL DEF Spec

\* resume reports BadHandle("missing ...") only for a session that has ended.
THEOREM LiveHandleIsComplete == Spec => []NoMissingField
  BY CoreInit, CoreInvInductive, CoreInvImplies, PTL DEF Spec

-----------------------------------------------------------------------------
(* The signer's consent is what gets signed.  ConsentInv follows the approval through the  *)
(* flow: the pending handle's redirect was issued, the code exchanged came back from an    *)
(* approved redirect showing the handle's hash, the SAD is what that code bought, and the  *)
(* signature kept for the timestamp was really made over that hash.                        *)

\* What a handle in each phase has behind it, with the redirects b issued, the
\* states a approved and the signatures g made so far.
HandleConsents(h, b, a, g) ==
  /\ h.phase = "CredentialAuthPending" =>
       \E r \in b : /\ r.scope = "credential" /\ r.state = h.state
                    /\ r.hash = h.attrs /\ r.credential = h.credential
  /\ h.phase \in AfterConsent => \E r \in b : r.hash = h.attrs /\ r.state \in a
  /\ h.phase = "TimestampPending" => ReallySigned(h.cms, h.staged, b, a, g)

StepConsents(h, s, b, a, g) ==
  /\ h.phase = "CredentialTokenPending" /\ s.kind = "http" =>
       BoughtByConsent(s.code, h.attrs, h.credential, b, a)
  /\ s.kind = "http" /\ s.op = "sign" =>
       s.hash = h.attrs /\ BoughtByConsent(s.sad, s.hash, s.credential, b, a)
  /\ s.kind = "done" => ReallySigned(s.pdf.cms, s.pdf.staged, b, a, g)

Consents(h, s, b, a, g) == HandleConsents(h, b, a, g) /\ StepConsents(h, s, b, a, g)

\* The world does not invent approvals, codes or signatures.
InboxHonest ==
  inbox # None =>
    /\ inbox.kind = "return" =>
         inbox.code = inbox.state /\ (inbox.state \in approved \/ inbox.state = 0)
    /\ inbox.kind = "http" /\ inbox.status = "ok" =>
         /\ step.op = "token" => inbox.body = step.code
         /\ step.op = "sign" =>
              \/ inbox.body.sig = None \/ inbox.body.sig.over = None
              \/ inbox.body.sig \in signatures

ConsentInv ==
  /\ Consents(handle, step, browser, approved, signatures)
  /\ Consents(durable.handle, durable.step, browser, approved, signatures)
  /\ InboxHonest
  /\ \A r \in browser : r.state # 0

LEMMA ConsentInvImplies == ConsentInv => SignsWhatWasApproved /\ DoneIsSigned
  BY DEF ConsentInv, Consents, StepConsents, SignsWhatWasApproved, DoneIsSigned

\* Approvals, redirects and signatures only accumulate.
LEMMA ConsentsGrow ==
  ASSUME NEW h, NEW s, NEW b, NEW a, NEW g, NEW b2, NEW a2, NEW g2,
         b \subseteq b2, a \subseteq a2, g \subseteq g2, Consents(h, s, b, a, g)
  PROVE  Consents(h, s, b2, a2, g2)
<1>1. HandleConsents(h, b2, a2, g2)
  BY DEF Consents, HandleConsents, ReallySigned
<1>2. StepConsents(h, s, b2, a2, g2)
  BY DEF Consents, StepConsents, ReallySigned, BoughtByConsent
<1>3. QED
  BY <1>1, <1>2 DEF Consents

\* Outside the consent phases there is nothing to show.
LEMMA Unconcerned ==
  ASSUME NEW h, NEW s, NEW b, NEW a, NEW g,
         h.phase \notin Consenting, s.kind # "done", s.kind = "http" => s.op # "sign"
  PROVE  Consents(h, s, b, a, g)
  BY DEF Consents, HandleConsents, StepConsents, Consenting, AfterConsent

-----------------------------------------------------------------------------
\* The arms of resume.

Kept == Consents(handle', step', browser', approved, signatures)

LEMMA RejectKeeps ==
  ASSUME ConsentInv, NEW e, Reject(e), browser' = browser PROVE Kept
  BY DEF ConsentInv, Reject, Kept

LEMMA FailKeeps ==
  ASSUME NEW h \in Handles, NEW o, Fail(h, o) PROVE Kept
<1>1. handle'.phase = "Failed" /\ step'.kind = "failed"
  BY DEF Fail, Emit, FailedStep, Scrub, Handles
<1>2. QED
  BY <1>1, Unconcerned DEF Kept, Consenting, AfterConsent

LEMMA ServiceAuthKeeps ==
  ASSUME CoreInv, ConsentInv, ResumeAuth("ServiceAuthPending", "ServiceTokenPending")
  PROVE  Kept
<1>1. CASE handle.state # inbox.state
  BY <1>1, RejectKeeps DEF ResumeAuth, NoDraw
<1>2. CASE handle.state = inbox.state
  <2>1. /\ handle \in Handles /\ step' = TokenExchange(inbox.code)
        /\ handle' = [handle EXCEPT !.state = None, !.phase = "ServiceTokenPending"]
    BY <1>2 DEF ResumeAuth, Emit, CoreInv, Sound
  <2>2. handle'.phase = "ServiceTokenPending" /\ step'.kind = "http" /\ step'.op = "token"
    BY <2>1 DEF TokenExchange, Handles
  <2>3. QED
    BY <2>2, Unconcerned DEF Kept, Consenting, AfterConsent
<1>3. QED
  BY <1>1, <1>2

\* The state on the handle is a drawn one, so the code behind it was approved.
LEMMA CredentialAuthKeeps ==
  ASSUME CoreInv, ConsentInv, inbox # None,
         ResumeAuth("CredentialAuthPending", "CredentialTokenPending")
  PROVE  Kept
<1>1. CASE handle.state # inbox.state
  BY <1>1, RejectKeeps DEF ResumeAuth, NoDraw
<1>2. CASE handle.state = inbox.state
  <2>1. /\ handle \in Handles /\ handle.phase = "CredentialAuthPending"
        /\ inbox.kind = "return" /\ browser' = browser
        /\ handle' = [handle EXCEPT !.state = None, !.phase = "CredentialTokenPending"]
        /\ step' = TokenExchange(inbox.code)
    BY <1>2 DEF ResumeAuth, At, NoDraw, Emit, CoreInv, Sound
  <2>2. PICK r \in browser :
          /\ r.scope = "credential" /\ r.state = handle.state
          /\ r.hash = handle.attrs /\ r.credential = handle.credential
    BY <2>1 DEF ConsentInv, Consents, HandleConsents
  <2>3. inbox.code = r.state /\ r.state \in approved
    BY <1>2, <2>1, <2>2 DEF ConsentInv, InboxHonest
  <2>4. /\ handle'.phase = "CredentialTokenPending" /\ handle'.attrs = handle.attrs
        /\ handle'.credential = handle.credential
        /\ step'.kind = "http" /\ step'.op = "token" /\ step'.code = r.state
    BY <2>1, <2>3 DEF Handles, TokenExchange
  <2>5. HandleConsents(handle', browser', approved, signatures)
    BY <2>1, <2>2, <2>3, <2>4 DEF HandleConsents
  <2>6. StepConsents(handle', step', browser', approved, signatures)
    BY <2>1, <2>2, <2>3, <2>4 DEF StepConsents, BoughtByConsent
  <2>7. QED
    BY <2>5, <2>6 DEF Kept, Consents
<1>3. QED
  BY <1>1, <1>2

LEMMA RefusedKeeps ==
  ASSUME CoreInv, ConsentInv, NEW p, NEW o, Refused(p, o) \/ Unparsable(p) PROVE Kept
<1>1. handle \in Handles
  BY DEF CoreInv, Sound
<1>2. (\E e : Reject(e) /\ browser' = browser) \/ Fail(handle, o)
  BY DEF Refused, Unparsable, NoDraw
<1>3. QED
  BY <1>1, <1>2, RejectKeeps, FailKeeps

LEMMA FetchKeeps ==
  ASSUME CoreInv, ConsentInv, inbox # None, ResumeServiceToken \/ ResumeList PROVE Kept
<1>1. handle \in Handles
  BY DEF CoreInv, Sound
<1>2. \/ \E p, o : Refused(p, o) \/ Unparsable(p)
      \/ Fail(handle, "CredentialUnavailable")
      \/ handle'.phase \in {"ListPending", "InfoPending"} /\ step' \in {Http("list"), Http("info")}
  BY <1>1 DEF ResumeServiceToken, ResumeList, Emit, Handles
<1>3. CASE handle'.phase \in {"ListPending", "InfoPending"}
           /\ step' \in {Http("list"), Http("info")}
  BY <1>3, Unconcerned DEF Kept, Http, Consenting, AfterConsent
<1>4. QED
  BY <1>1, <1>2, <1>3, RefusedKeeps, FailKeeps

\* The redirect shows the hash the handle keeps.
LEMMA InfoAcceptedKeeps ==
  ASSUME CoreInv, NEW info, ResumeInfoAccepted(info) PROVE Kept
<1>1. PICK now \in Times :
        LET h == Prepared(handle, info, now, fresh')
            r == Redirect(fresh', "credential", h.credential, h.attrs)
        IN  Emit(h, r) /\ browser' = browser \cup {r}
  BY DEF ResumeInfoAccepted
<1> DEFINE h == Prepared(handle, info, now, fresh')
           r == Redirect(fresh', "credential", h.credential, h.attrs)
<1>2. handle' = h /\ step' = r /\ browser' = browser \cup {r}
  BY <1>1 DEF Emit
<1>3. h.phase = "CredentialAuthPending" /\ h.state = fresh'
  BY DEF Prepared, CoreInv, Sound, Handles
<1> HIDE DEF h
<1>4. /\ r.kind = "redirect" /\ r.scope = "credential" /\ r.state = h.state
      /\ r.hash = h.attrs /\ r.credential = h.credential
  BY <1>3 DEF Redirect
<1> HIDE DEF r
<1>5. HandleConsents(h, browser', approved, signatures)
  BY <1>2, <1>3, <1>4 DEF HandleConsents, AfterConsent
<1>6. StepConsents(h, r, browser', approved, signatures)
  BY <1>3, <1>4 DEF StepConsents
<1>7. QED
  BY <1>2, <1>5, <1>6 DEF Kept, Consents

LEMMA InfoKeeps ==
  ASSUME CoreInv, ConsentInv, inbox # None, ResumeInfo PROVE Kept
<1>1. CASE Refused("InfoPending", "CredentialUnavailable") \/ Unparsable("InfoPending")
  BY <1>1, RefusedKeeps
<1>2. CASE Answer("InfoPending")
  <2> DEFINE info == inbox.body
             named == [handle EXCEPT !.signer = SignerIdentity(info)]
  <2>1. handle \in Handles /\ info \in Infos
    BY <1>2, AnswerTyped DEF BodyMatches, OpOf
  <2>2. \/ Fail(handle, "CredentialUnavailable")
        \/ ~Unusable(info) /\ \E o : Fail(named, o)
        \/ Reject("Internal") /\ browser' = browser
        \/ ResumeInfoAccepted(info)
    BY <1>2 DEF ResumeInfo, Refused, Unparsable, Answer, NoDraw
  <2>3. ~Unusable(info) => named \in Handles
    <3>1. ~Unusable(info) => SignerIdentity(info) \in Subjects
      BY <2>1 DEF Unusable, SignerIdentity, Infos, Opt
    <3>2. QED
      BY <2>1, <3>1, SignerTyped
  <2> HIDE DEF named
  <2>4. QED
    BY <2>1, <2>2, <2>3, FailKeeps, RejectKeeps, InfoAcceptedKeeps
<1>3. QED
  BY <1>1, <1>2 DEF ResumeInfo

\* The SAD is what the approved code bought.
LEMMA CredentialTokenKeeps ==
  ASSUME CoreInv, ConsentInv, inbox # None, ResumeCredentialToken PROVE Kept
<1>1. CASE Answer("CredentialTokenPending") /\ NoDraw
           /\ Emit([handle EXCEPT !.phase = "SignPending"], SignHash(handle, inbox.body))
  <2>1. /\ handle \in Handles /\ handle.phase = "CredentialTokenPending"
        /\ step.kind = "http" /\ step.op = "token" /\ inbox.body = step.code
    BY <1>1, AnswerTyped
       DEF Answer, Answered, CoreInv, Sound, StepMatches, OpOf, InboxMatches, ConsentInv,
           InboxHonest
  <2>2. BoughtByConsent(inbox.body, handle.attrs, handle.credential, browser, approved)
        /\ \E r \in browser : r.hash = handle.attrs /\ r.state \in approved
    BY <2>1 DEF ConsentInv, Consents, StepConsents, HandleConsents, AfterConsent
  <2>3. /\ handle'.phase = "SignPending" /\ handle'.attrs = handle.attrs
        /\ step' = SignHash(handle, inbox.body) /\ browser' = browser
    BY <1>1, <2>1 DEF Emit, Handles, NoDraw
  <2>4. HandleConsents(handle', browser', approved, signatures)
    BY <2>2, <2>3 DEF HandleConsents
  <2>5. StepConsents(handle', step', browser', approved, signatures)
    BY <2>2, <2>3 DEF StepConsents, SignHash
  <2>6. QED
    BY <2>4, <2>5 DEF Kept, Consents
<1>2. QED
  BY <1>1, RefusedKeeps DEF ResumeCredentialToken

LEMMA EmbedKeeps ==
  ASSUME CoreInv, ConsentInv, NEW c, NEW fits, Embed(handle, c, fits), browser' = browser,
         ReallySigned(c, handle.staged, browser, approved, signatures)
  PROVE  Kept
<1>1. CASE Reject("Internal")
  BY <1>1, RejectKeeps
<1>2. CASE Finalize(handle, [staged |-> handle.staged, cms |-> c])
  <2>1. /\ handle'.phase = "Completed" /\ step'.kind = "done"
        /\ step'.pdf.cms = c /\ step'.pdf.staged = handle.staged
    BY <1>2 DEF Finalize, Emit, Scrub, CoreInv, Sound, Handles
  <2>2. HandleConsents(handle', browser', approved, signatures)
    BY <2>1 DEF HandleConsents, AfterConsent
  <2>3. StepConsents(handle', step', browser', approved, signatures)
    BY <2>1 DEF StepConsents
  <2>4. QED
    BY <2>2, <2>3 DEF Kept, Consents
<1>3. QED
  BY <1>1, <1>2 DEF Embed

LEMMA SignKeeps ==
  ASSUME CoreInv, ConsentInv, inbox # None, ResumeSign PROVE Kept
<1>1. CASE Refused("SignPending", "CredentialUnavailable") \/ Unparsable("SignPending")
  BY <1>1, RefusedKeeps
<1>2. CASE Answer("SignPending")
  <2> DEFINE c == [attrs |-> handle.attrs, sig |-> inbox.body.sig, token |-> None]
  <2>1. handle \in Handles /\ handle.phase = "SignPending" /\ handle.attrs \in Attrs
        /\ inbox.body.sig \in Opt(Signature)
    BY <1>2, AnswerTyped
       DEF BodyMatches, OpOf, FieldsMatchPhase, Handles, Opt, Consenting, AfterConsent
  <2>2. inbox.body.sig = None \/ inbox.body.sig.over = None \/ inbox.body.sig \in signatures
    BY <1>2, <2>1 DEF Answer, Answered, CoreInv, Sound, StepMatches, OpOf, InboxMatches,
                      ConsentInv, InboxHonest
  <2>3. \E r \in browser : r.hash = handle.attrs /\ r.state \in approved
    BY <2>1 DEF ConsentInv, Consents, HandleConsents, AfterConsent
  <2>4. CASE inbox.body.sig # None /\ CmsVerifies(handle, c)
             /\ ResumeSignAccepted(c, inbox.body.fits)
    <3>1. ReallySigned(c, handle.staged, browser, approved, signatures)
      BY <2>1, <2>2, <2>3, <2>4, NoneAssumption DEF ReallySigned, CmsVerifies
    <3>2. CASE Embed(handle, c, inbox.body.fits) /\ NoDraw
      BY <3>1, <3>2, EmbedKeeps DEF NoDraw
    <3>3. CASE handle.level = "BT"
      <4> DEFINE h == [handle EXCEPT !.cms = c, !.nonce = fresh', !.phase = "TimestampPending"]
      <4>1. handle' = h /\ step' = TsaRequest(h) /\ browser' = browser
        BY <2>4, <3>3 DEF ResumeSignAccepted, Emit
      <4>2. h.phase = "TimestampPending" /\ h.cms = c /\ h.staged = handle.staged
            /\ h.attrs = handle.attrs
        BY <2>1 DEF Handles
      <4>3. HandleConsents(h, browser, approved, signatures)
        BY <2>3, <3>1, <4>2 DEF HandleConsents
      <4>4. StepConsents(h, TsaRequest(h), browser, approved, signatures)
        BY <4>2 DEF StepConsents, TsaRequest
      <4>5. QED
        BY <4>1, <4>3, <4>4 DEF Kept, Consents
    <3>4. QED
      BY <2>4, <3>2, <3>3 DEF ResumeSignAccepted
  <2>5. QED
    BY <1>2, <2>1, <2>4, FailKeeps, RejectKeeps
       DEF ResumeSign, Refused, Unparsable, Answer, NoDraw
<1>3. QED
  BY <1>1, <1>2 DEF ResumeSign

LEMMA TimestampKeeps ==
  ASSUME CoreInv, ConsentInv, inbox # None, ResumeTimestamp PROVE Kept
<1>1. handle \in Handles /\ browser' = browser /\ handle.phase = "TimestampPending"
      /\ FieldsMatchPhase(handle)
  BY DEF CoreInv, Sound, ResumeTimestamp, NoDraw, Answered, At
<1>2. handle.cms \in Cms /\ ReallySigned(handle.cms, handle.staged, browser, approved, signatures)
  BY <1>1 DEF FieldsMatchPhase, Handles, Opt, ConsentInv, Consents, HandleConsents
<1>3. \A t : ReallySigned([handle.cms EXCEPT !.token = t], handle.staged, browser, approved,
                          signatures)
  BY <1>2 DEF ReallySigned, Cms
<1>4. \/ \E o : Fail(handle, o)
      \/ \E t, fits : Embed(handle, [handle.cms EXCEPT !.token = t], fits)
  BY DEF ResumeTimestamp
<1>5. QED
  BY <1>1, <1>3, <1>4, FailKeeps, EmbedKeeps

LEMMA ResumeKeeps ==
  ASSUME CoreInv, ConsentInv, Resume PROVE Kept
<1>1. handle \in Handles /\ inbox # None
  BY DEF CoreInv, Sound, Resume
<1>2. ASSUME ResumeBadHandle \/ ResumeRedirectError \/ ResumeUnexpected PROVE Kept
  <2>1. (\E e : Reject(e) /\ browser' = browser) \/ \E o : Fail(handle, o)
    BY <1>2 DEF ResumeBadHandle, ResumeRedirectError, ResumeUnexpected, NoDraw
  <2>2. QED
    BY <1>1, <2>1, RejectKeeps, FailKeeps
<1>3. QED
  BY <1>1, <1>2, ServiceAuthKeeps, CredentialAuthKeeps, FetchKeeps, InfoKeeps,
     CredentialTokenKeeps, SignKeeps, TimestampKeeps DEF Resume

-----------------------------------------------------------------------------
\* ConsentInv is inductive, given CoreInv.

LEMMA ConsentInit == Init => ConsentInv
<1> SUFFICES ASSUME Init PROVE ConsentInv
  OBVIOUS
<1>1. /\ handle = Blank /\ step = NoStep /\ inbox = None /\ browser = {}
      /\ durable.handle = Blank /\ durable.step = NoStep
  BY DEF Init
<1>2. Blank.phase \notin Consenting /\ NoStep.kind = "none"
  BY DEF Blank, NoStep, Consenting, AfterConsent
<1>3. Consents(Blank, NoStep, browser, approved, signatures)
  BY <1>2, Unconcerned
<1>4. QED
  BY <1>1, <1>3 DEF ConsentInv, InboxHonest

\* The saved copy is justified by what happened before it was saved.
LEMMA SavedKeeps ==
  ASSUME ConsentInv, durable' = durable, browser \subseteq browser',
         approved \subseteq approved', signatures \subseteq signatures'
  PROVE  Consents(durable'.handle, durable'.step, browser', approved', signatures')
  BY ConsentsGrow DEF ConsentInv

LEMMA ResumeKeepsConsent == CoreInv /\ ConsentInv /\ Resume => ConsentInv'
<1> SUFFICES ASSUME CoreInv, ConsentInv, Resume PROVE ConsentInv'
  OBVIOUS
<1>1. inbox' = None /\ UNCHANGED <<durable, approved, signatures>>
  BY DEF Resume, trust
<1>2. /\ browser \subseteq browser'
      /\ \A r \in browser' : r.state # 0
  <2>1. fresh \in Nat /\ \A r \in browser : r.state # 0
    BY DEF CoreInv, RestTyped, ConsentInv
  <2>2. browser' = browser \/ \E info : ResumeInfoAccepted(info)
    BY DEF Resume, ResumeBadHandle, ResumeRedirectError, ResumeUnexpected, ResumeAuth,
           ResumeServiceToken, ResumeList, ResumeInfo, ResumeCredentialToken, ResumeSign,
           ResumeSignAccepted, ResumeTimestamp, Refused, Unparsable, NoDraw
  <2>3. ASSUME NEW info, ResumeInfoAccepted(info)
        PROVE  \E c, x : browser' = browser \cup {Redirect(fresh + 1, "credential", c, x)}
    BY <2>3 DEF ResumeInfoAccepted
  <2>4. \A c, x : Redirect(fresh + 1, "credential", c, x).state = fresh + 1
    BY DEF Redirect
  <2>5. QED
    BY <2>1, <2>2, <2>3, <2>4
<1>3. Consents(durable'.handle, durable'.step, browser', approved', signatures')
  BY <1>1, <1>2, SavedKeeps
<1>4. QED
  BY <1>1, <1>2, <1>3, ResumeKeeps DEF ConsentInv, Kept, InboxHonest

LEMMA BeginKeepsConsent == CoreInv /\ ConsentInv /\ Begin => ConsentInv'
<1> SUFFICES ASSUME CoreInv, ConsentInv, Begin PROVE ConsentInv'
  OBVIOUS
<1>1. PICK req \in Requests, tsa \in BOOLEAN :
        BeginRefused(req, tsa) \/ BeginInvalid(req, tsa) \/ BeginAccepted(req, tsa)
  BY DEF Begin
<1>2. inbox' = None /\ UNCHANGED <<durable, approved, signatures>>
  BY DEF Begin, trust
<1>3. fresh \in Nat /\ \A r \in browser : r.state # 0
  BY DEF CoreInv, RestTyped, ConsentInv
<1>4. Kept /\ browser \subseteq browser' /\ \A r \in browser' : r.state # 0
  <2>1. CASE BeginRefused(req, tsa)
    BY <1>2, <1>3, <2>1, RejectKeeps DEF BeginRefused
  <2>2. CASE BeginInvalid(req, tsa)
    <3>1. handle'.phase = "Failed" /\ step'.kind = "failed" /\ browser' = browser
      BY <2>2 DEF BeginInvalid, Emit, Blank, FailedStep
    <3>2. QED
      BY <1>2, <1>3, <3>1, Unconcerned DEF Kept, Consenting, AfterConsent
  <2>3. CASE BeginAccepted(req, tsa)
    <3>1. /\ handle'.phase = "ServiceAuthPending" /\ step'.kind = "redirect"
          /\ browser' = browser \cup {Redirect(fresh + 1, "service", None, None)}
      BY <2>3 DEF BeginAccepted, Emit, Blank, Redirect
    <3>2. Redirect(fresh + 1, "service", None, None).state = fresh + 1
      BY DEF Redirect
    <3>3. Kept
      BY <1>2, <3>1, Unconcerned DEF Kept, Consenting, AfterConsent
    <3>4. QED
      BY <1>3, <3>1, <3>2, <3>3
  <2>4. QED
    BY <1>1, <2>1, <2>2, <2>3
<1>5. QED
  BY <1>2, <1>4, SavedKeeps DEF ConsentInv, Kept, InboxHonest

LEMMA PerformKeepsConsent == CoreInv /\ ConsentInv /\ Perform => ConsentInv'
<1> SUFFICES ASSUME CoreInv, ConsentInv, Perform PROVE ConsentInv'
  OBVIOUS
<1>1. UNCHANGED <<handle, step, durable, browser>> /\ step.op = OpOf(handle.phase)
  BY PerformDelivers
     DEF CoreInv, Sound, StepMatches, Perform, PerformBadly, PerformToken, PerformList,
         PerformInfo, PerformSign, PerformSignWrongly, PerformTsa, Pending
<1>2. approved' = approved /\ signatures \subseteq signatures'
  BY DEF Perform, PerformBadly, PerformToken, PerformList, PerformInfo, PerformSign,
         PerformSignWrongly, PerformTsa, trust
<1>3. InboxHonest'
  <2>1. CASE PerformBadly
    BY <2>1 DEF PerformBadly, Deliver, HttpResult, InboxHonest
  <2>2. CASE PerformToken
    BY <1>1, <2>2 DEF PerformToken, Pending, Deliver, core, HttpResult, InboxHonest
  <2>3. CASE PerformList \/ PerformInfo \/ PerformTsa
    <3>1. step.op \notin {"token", "sign"} /\ inbox'.kind = "http"
      BY <2>3 DEF PerformList, PerformInfo, PerformTsa, Pending, Deliver, HttpResult
    <3>2. QED
      BY <1>1, <3>1 DEF InboxHonest
  <2>4. CASE PerformSign
    <3>1. PICK by \in Subjects, built \in BOOLEAN, fits \in BOOLEAN :
            LET sig == [by |-> by, over |-> step.hash]
            IN  /\ Deliver(HttpResult("ok", [sig |-> sig, built |-> built, fits |-> fits]))
                /\ signatures' = signatures \cup {sig}
      BY <2>4 DEF PerformSign
    <3>2. step.op = "sign"
      BY <2>4 DEF PerformSign, Pending
    <3>3. /\ inbox'.kind = "http" /\ inbox'.body.sig = [by |-> by, over |-> step.hash]
          /\ inbox'.body.sig \in signatures'
      BY <3>1 DEF Deliver, HttpResult
    <3>4. QED
      BY <1>1, <3>2, <3>3 DEF InboxHonest
  <2>5. CASE PerformSignWrongly
    <3>1. step.op = "sign" /\ inbox'.kind = "http"
          /\ (inbox'.body.sig = None \/ inbox'.body.sig.over = None)
      BY <2>5 DEF PerformSignWrongly, Pending, Deliver, HttpResult
    <3>2. QED
      BY <1>1, <3>1 DEF InboxHonest
  <2>6. QED
    BY <2>1, <2>2, <2>3, <2>4, <2>5 DEF Perform
<1>4. QED
  BY <1>1, <1>2, <1>3, ConsentsGrow DEF ConsentInv

LEMMA CallbackKeepsConsent == CoreInv /\ ConsentInv /\ Callback => ConsentInv'
<1> SUFFICES ASSUME CoreInv, ConsentInv, Callback PROVE ConsentInv'
  OBVIOUS
<1>1. /\ UNCHANGED <<handle, step, durable, browser, signatures>>
      /\ approved \subseteq approved'
  BY DEF Callback, UserApproves, UserRefuses, ForgedCallback, Deliver, core, trust
<1>2. InboxHonest'
  BY DEF Callback, UserApproves, UserRefuses, ForgedCallback, Deliver, InboxHonest
<1>3. QED
  BY <1>1, <1>2, ConsentsGrow DEF ConsentInv

\* A restored handle has lost at most its effect.
LEMMA EffectOfKeeps ==
  ASSUME NEW h, NEW s, NEW b, NEW a, NEW g, Consents(h, s, b, a, g)
  PROVE  Consents(h, EffectOf(h), b, a, g)
<1>1. StepConsents(h, EffectOf(h), b, a, g)
  BY DEF StepConsents, EffectOf, Redirect, Http, TsaRequest, NoStep
<1>2. QED
  BY <1>1 DEF Consents

LEMMA HostKeepsConsent == ConsentInv /\ (Persist \/ Crash) => ConsentInv'
<1>1. ConsentInv /\ Persist => ConsentInv'
  BY DEF ConsentInv, Persist, InboxHonest, core, trust
<1>2. ConsentInv /\ Crash => ConsentInv'
  BY EffectOfKeeps DEF ConsentInv, Crash, InboxHonest, trust
<1>3. QED
  BY <1>1, <1>2

LEMMA ConsentInvInductive == CoreInv /\ ConsentInv /\ [Next]_vars => ConsentInv'
<1>1. ConsentInv /\ UNCHANGED vars => ConsentInv'
  BY DEF vars, ConsentInv, InboxHonest
<1>2. QED
  BY <1>1, ResumeKeepsConsent, BeginKeepsConsent, PerformKeepsConsent, CallbackKeepsConsent,
     HostKeepsConsent DEF Next

LEMMA ConsentInvHolds == Spec => []ConsentInv
<1>1. CoreInv /\ ConsentInv /\ [Next]_vars => (CoreInv /\ ConsentInv)'
  BY CoreInvInductive, ConsentInvInductive
<1>2. QED
  BY <1>1, CoreInit, ConsentInit, PTL DEF Spec

\* signHash is only ever asked for the hash the signer approved in the credential
\* authorization, whatever callbacks, answers and restarts came before.
THEOREM OnlyApprovedIsSigned == Spec => []SignsWhatWasApproved
  BY ConsentInvHolds, ConsentInvImplies, PTL

\* A Done step carries a signature really made by the certificate's key over
\* attributes an approved redirect showed, binding the returned PDF.
THEOREM SuccessIsSigned == Spec => []DoneIsSigned
  BY ConsentInvHolds, ConsentInvImplies, PTL
================================================================================
