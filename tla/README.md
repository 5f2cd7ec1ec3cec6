# A verification project for the Cleverbase SDK

TLA+ models of this repository: the signing state machine of
`crates/cleverbase-core`, the reference signing service that drives it with
concurrent handlers, and `crates/cleverbase-attestation`, from the issuance of
an attestation through its presentation to its verification, with the path
search, the status lists and the trust lists a verdict rests on. TLC checks them
on small instances; TLAPS proves the safety properties of the signing core, with its refinement
of the abstract flow, of the reference service, the trust-list engine, the path search, the
verifier and the exchange from issuance to verdict, for every instance.
Paths below are relative to the repository (`src/` in `PROJECT.json`).

## 1. Inventory

| Component | State it keeps | Operations | Correct when |
|---|---|---|---|
| Signing state machine, `crates/cleverbase-core/src/signing/` | none of its own: a `SigningSessionHandle` is passed in and returned | `begin`, `resume` (nine pending phases, redirect errors) | only what the signer approved is signed; a reported success is a valid signature; each field is in the handle exactly while it is needed |
| Host of the core (bindings' callers) | the handle, what it persisted of it | performs each `Step`, feeds the answer back, restarts | a consented signature is settled |
| CMS and PAdES, `crypto/`, `pades/` | none | `prepare`, `build_signed_attrs`, `assemble_signed_data`, `verify_signed_data`, `embed_cms`, `embed_timestamp` | signed attributes bind the staged PDF and the leaf |
| Timestamp client, `timestamp/` | none | `build_request`, `parse_response`, `parse_nonce`, ... | a token answers this very query |
| PDF verification, `verification.rs` | none | `verify_pdf` | no false VALID |
| Wire, C ABI, bindings | buffers handed over the C ABI | one call each | one result per call, freed once |
| Session store, `examples/reference-integration/signing-service/internal/session` | two indexes and the sessions, under one mutex | `New`, `Get`, `GetByState`, `ViewByID`, `ConsumeForResume`, `Update`, `SetState`, `Finalize`, expiry, eviction | indexes agree; one handler per session |
| Flow engine and HTTP handlers, `internal/flow`, `internal/httpapi` | local variables of each goroutine | start, complete, status, result | one-time effects happen once; outcomes are final; secrets go |
| Issuance, `crates/cleverbase-attestation/src/issuance` | `ObtainSession`, `PresentSession` | `begin_obtain`, `resume_obtain`, presentation | proof bound to the fresh nonce, clean terminal states |
| Trust-list engine, `trust/engine.rs` | cached anchors, freshness bound, clock | `refresh_with`, `resolve`, `set_now` | nothing stale or unauthenticated anchors trust |
| Path building, `trust/chain.rs` | budget of one search | `verify_chain` | finds a valid path iff there is one within the bounds |
| Status list, `status/` | none | `verify_status_list_token`, `check_status` | never `Good` on doubt |
| DCQL, OpenID4VP, `dcql.rs`, `openid4vp/` | none | `evaluate_single`, `verify_response`, `verify_vp_token` | satisfied only by what was asked for |
| Credential bars, `sdjwtvc/`, `mdoc/`, `verify.rs` | none | `verify` | every check of the bar is applied to every document |
| Qualified gate, `qualified/` | an authenticated list | `qualified_status` | never a false "qualified" |
| Frontend helper, web demo, mock upstream, scripts, deployment | | | outside the logic checked here |

How they interact: the core performs no I/O. It returns a `Step` (redirect a
browser, perform an HTTP request, done, failed); the host performs it and calls
`resume` with what came back. The reference service is such a host: `Engine`
loops over HTTP steps inside one request handler, stores the handle in the
session between redirects, and finds the session again by the OAuth state that
the browser brings back. Handlers share only the store; its mutex is never held
during an upstream call.

What is hard here: callbacks repeat, come late, come for an earlier redirect, or
come from nobody; two of them run at once; the TTL passes during a handler's
work; an upstream call fails or answers garbage after consent; the host restarts
from an older handle; a time-stamping answer belongs to another query. The
hazards in `PROJECT.json` list these at their lines.

The attestation crate does no I/O either. An issuance is a session the host
carries from effect to answer; a presentation is prepared, signed by the host and
finished. A call of the verifier is one synchronous function over one
presentation, but a long one: a response of several documents is folded, each
document searches for a path to a root, may search for another for the signer of
its status list, and is held against the query and the qualified list at the end.
What is hard there: a later step uses what an earlier one found (the root, the role, the
raw items, the status), the pairing of lists by position, dates at their last
second, a search that backtracks under a budget, queries that quantify over
nothing; and between calls, presentations delivered to another verifier,
under another id, or twice.

## 2. Modules

- `FlowStages` - the kind of step each call of the core may return next. Shared
  by the abstract flow and by `RefService`, whose SDK it is.
- `SigningFlow` - the abstract promise of the core: a document is offered,
  approved, sealed; the host may fall back to an earlier saved point.
- `SigningCore` - `begin` and `resume`, one operator per arm, and the world:
  trust service, TSA, browser, host. `Flow` at its end is the refinement mapping.
- `TimestampToken` - the readers of a timestamp token, byte by byte.
- `SigningFlowProofs`, `SigningCoreProofs`, `SigningOutcomeProofs` -
  theorems about the two.
- `SessionStore` - the store, one operator per method.
- `RefService` - handlers as threads over `SessionStore` and `FlowStages`.
- `RefServiceProofs` - theorems about them.
- `TrustEngine` - the trust-list engine: refresh list by list, policy, clock, resolve.
- `TrustEngineProofs` - theorems about it.
- `DecodedValues`, `Datetime` - what decoders leave, tdate and NumericDate.
- `CertChain` - path building and path validation, the search as a machine of its own.
- `CertChainProofs` - theorems about it: what is accepted, what is missed.
- `Disclosures`, `SdJwtVc` - the digests of an SD-JWT and the bar of an SD-JWT VC.
- `Mdoc` - the bar of an mdoc.
- `StatusList`, `QualifiedGate`, `Dcql` - status tokens, the national list, queries.
- `CredentialVerifier` - a call of `verify` or `verify_response`, composed of
  the modules above and a `CertChain` that it calls up to three times per document.
- `VerifierProofs` - theorems about it.
- `VpToken` - the wire requests and `verify_vp_token` around `CredentialVerifier`.
- `SignerHook`, `Obtain`, `Wallet` - what the host signs, issuance, presentation.
- `Exchange` - `VpToken`, `Obtain` and `Wallet` composed, with issuer, host and network.
- `ExchangeProofs` - theorems about them, on top of the verifier's.
- `MCSigningCore`, `MCRefService`, `MCTrustEngine`, `MCVerifier`, `MCExchange`,
  `MCCertChain` - instances for TLC; `MCCredentials` - the certificates and
  credentials the last three share.

### SigningCore against the code

`handle` has the fields of `SigningSessionHandle` that a later phase reads;
`key_algo`, `contents_span`, `pdf_a`, the request digest and the correlation id
are left out (written once, never compared with anything that may change). `step` is the
`Step` returned, `err` the `CoreError`. `Reject` leaves the handle and the step:
`resume` takes the handle by value, and on `Err` the caller still has its own.

- An action is a whole call: `ResumeInfo` is the InfoPending arm with every
  early return in the order of the code. `Carried` collects the
  `BadHandle("missing ...")` exits of an arm, which the code reaches one by one;
  here they come first. No behaviour of a live flow reaches them, which is what
  `NoMissingField` says and `LiveHandleIsComplete` proves.
- `DocKinds` are the documents the code treats differently: not a PDF, visibly
  signed, signed where only `prepare` sees it, without pages, with an appearance
  off the page, unloadable, and signable.
- A credentials/info answer is its key algorithm (supported or `Other`), SCAL, leaf
  certificate and the identity fields sent next to it. The other ways to fail to
  parse, base64 and DER included, are the answer `malformed`.
- A staged PDF is its claimed time and signer name, signed attributes are its
  digest and the leaf: two hashes are equal iff what they hash is. `built` and
  `fits` say whether `assemble_signed_data` accepts the signature and whether the
  CMS fits the placeholder.
- Entropy is a number never drawn twice (`fresh`), so 0 is a state or nonce the
  core never drew. An authorization code is named after the state of the redirect
  it was given for, a token and a SAD after the code that bought them: this is
  how a property can ask which consent a signature was bought with.
- `queries` records a timestamp request when it is asked for. The TSA's answer
  may belong to any recorded request.
- `Persist` saves handle and step together; `Crash` restores them. With
  `PersistEffects = FALSE` only the handle survives and the host derives the
  step from it (`EffectOf`), which works for the phases whose effect is a function
  of the handle.

Left out: configurations that `validate` rejects, entropy below 16 bytes and
clocks outside four-digit years (the call returns an error and changes nothing),
and the text of evidence records beyond signer, level and time.

`TimestampToken` is below `SigningCore`, which compares the nonce of a token as a value: it has the
DER readers of `timestamp/mod.rs` over bytes, `Uint` of the `der` crate and a TSA as
externals, and a token is a record of its content types and TSTInfo.

### SessionStore and RefService against the code

Every store method is one action on one lock acquisition. `drive` is split at
each lock and at each upstream call: `Drive` (Update of the handle), `Performed`
or `PerformError`, `RedirectSetState` then `RedirectReply` (two critical
sections), `Done` or `Fail` then `FinalizeReply`. `Lookup` and `Consume` are two
actions, as `GetByState` and `ConsumeForResume` are two acquisitions. A session is a
pointer, so `sess` keeps one that the indexes have dropped. The SDK is opaque: a
handle is the stage it stands at and the state it awaits. `ResumeError` needs no
mismatch: drawing entropy may fail too (`sdk/sdk.go`). A clock tick is any time
at all; TTL and grace are one tick.

Left out: request decoding and size limits, and a callback with neither code nor error
(they end the request, after at most the lookup). A restart of the service
empties its memory: nothing remains to state a property about.

### TrustEngine against the code

`refresh_with` borrows the engine for the whole refresh, so between two fetches
nobody else acts; it is nevertheless one action per list (`RefreshWith`, then
`Ingest` or a failure, then `RefreshOk`), which keeps the cache being built, a local of
`refresh_into_cache`, visible. A fetch may end as unreachable, as a list that does not
authenticate, or as any edition (anchors and a NextUpdate). Not authenticated
is a list that does not parse, and every XML list: `authenticate` has no branch that
succeeds for one. `lists` may grow after a refresh, and `now_unix` is set to
any value, as the host may. `Resolve` stands for `resolve` and
`resolve_status_signer` given a chain that validates up to one root; the
validation is `trust/chain.rs`, which `CertChain` models. The trait's
`refresh` without a fetcher changes nothing and is no action. `pending`,
`good` and `verdict` are histories that only properties read.

### CertChain against the code

`walk` is recursive; an element of `stack` is one of its frames, `next` the
candidate the frame is at: 0 on entry, then the anchors, then the intermediates.
`Enter`, `TryAnchor`, `AtCap`, `TryIntermediate` and `Leave` are the parts of its
body in order, `Return` is what a caller does with a branch that failed.
`VerifyChain` is `verify_chain` up to the search, `Reached` the rest of it:
the path constraints are enforced on the first path found. A certificate is a
record of what the code reads; `by` is the key its signature verifies under, and two
certificates are the same bytes iff the records are equal. A name is its type
and an identity, a subtree the set of names within it: the matching of labels and
RDNs is abstracted. `lastErr` is the reason kept by `record_more_specific`:
an anchor that does not parse is no reason (`GenericReasons`), so a search over such anchors alone
answers `IssuerMismatch`, as the comment at `chain.rs:459` and the test
`only_a_malformed_anchor_yields_a_specific_error` have it.

### CredentialVerifier against the code

`job` holds the arguments. `Verify` decides what needs no document: the accepted
formats, the audience and nonce of the request, the shape of the response. Then,
per document, `StartDocument` runs the bar as far as the trust decision and calls
the search; `Search` is a step of it; `Trust` takes the answer, runs the bar on to
the status, and either concludes or calls a second search for the signer of a
status token (`StatusSigner`). `Conclude` is the rest of the bar, the fold into
`claimed` and `shown`, and after the last document the query and, with the gate
on, the search for the signer of the qualified list (`ListSigner`). The bars
themselves are operators that answer the first reason in the order of the code:
`SdJwtBeforeTrust`, `SdJwtBeforeStatus`, `SdJwtAfterStatus` and the same for an
mdoc. `Deliver` is the return: a call leaves nothing to the next.

- A signature is the key it was made with and what it is over; a digest stands for
  the one disclosure it is of; a digest of an mdoc item is the algorithm and the item.
- A NumericDate may have a fraction: the model counts in half seconds, and rounds
  as `Datetime` says. A tdate is its six fields, leap second included. Calendars are checked
  against counting days one by one.
- What does not decode is `Garbage`, what is missing `Absent`. An element of
  an mdoc is keyed by namespace and identifier, as `shown` is a set of both.
- The status list is the bytes after inflation; `ExtractStatusValue` works on them
  by division, its reference `EntryAt` bit by bit.
- The national list reaches the gate as its services and their histories. The SKI and AKI of
  a certificate are the octets it asserts; the model takes them as always present, each as the key it names
  (`Ski`, `Aki`). The code's match fails where one is absent, so what is left out is refusals of the gate;
  an asserted identifier that is not its key's is left out too.

`VpToken` adds the wire: `ProcessVerify` and `ProcessVpToken` build the job, `OpenSlot`
and `CloseSlot` are the loop of `verify_vp_token_slots`, `FinishSet` the
credential sets. `SetToSeq` fixes one order of the ids, as the map's order does.

### Obtain, Wallet and Exchange against the code

`BeginObtain` and `ResumeObtain` are whole calls, one operator per phase. The
session is a value the host holds: an error returns none, and the host resumes with the
bytes it kept, so `ReturnErr` changes nothing. (A Rust caller that moved its session
into the call has lost it after the error of `obtain.rs:369`; over the wire it has not.)
`PreparePresent` and `Finish` are operators: the code keeps no state between them but the
value it returns, `draft` in `Exchange`. `conceal` of the crate `sd_jwt_payload` is not in
the repository: `WithBelow` says of it what `present.rs` relies on, that the disclosures under a
concealed one go too. `PrepareSdJwt` leaves out the `Build` error of `into_presentation` (`present.rs:323`), after which
nothing is presented. A selector is the path as a tuple, with `item` for any array index, so that items of one array
that disclose the same name are not told apart; the code joins names and indices with '/', escaped in an SD-JWT
(`present.rs:492`) and documented as absent from the names of an mdoc (`present.rs:672`).

`Exchange` is the world. The issuer answers each request with an error, with
something that is not JSON, with a JSON object that lacks the field, with a deferral
or properly; it issues to the key that made the proof. The host may sign with another key, return a
signature of the wrong length, or resume with the wrong kind of input. What is
presented may reach a verifier of either request, under the id it was made for,
another, none, or two at once, and more than one under an id. The host of the verifier asks its status
source and passes the answer on. The library's calls share no state, so a
verification runs from its start to its end before the next begins.

## 3. Runs

| Run | Shows |
|---|---|
| `core_safety` | With every answer, refusal, stale or forged callback and one restart: `SignsWhatWasApproved`, `DoneIsSigned`, `DoneIsTimestamped`, `DoneEvidence`, the life of each handle field (`CarriedFields`, `NoMissingField`), `FlowMovesForward`, and the refinement `ImplementsFlow`. 1.4 million states. `TokenIsReadBack`, of no state, is evaluated once: 125 nonces in 16 forms of a token. |
| `core_settles` | A host that saves the effect with the handle settles every consented signature (`ConsentIsSettled`), also after a restart. |
| `core_handle_only` | The same property fails for a host that saves the handle alone: see findings. |
| `core_certified` | The expected signer is not compared with the certificate: see findings. |
| `service_safety` | Two sessions, two handlers: `IndexCoherent`, `ClaimExclusive`, `EffectsOnce`, `NoSecretAtRest`, `ServedIsSealed`, and `OutcomeIsFinal`: status, reason and document of a session that completed, was declined, or failed on the word of the SDK or an upstream. A failure by expiry or on a refused resume is not final: see finding 4. About a million states. |
| `service_live` | `HandlersReply`, `SessionsEnd`. |
| `service_stale_callback` | A delayed duplicate callback passes the claim with a state the session no longer awaits: see findings. |
| `service_expiry` | An expired session is revived by the handler that was at work: see findings. |
| `trust_safety` | Two lists, any failure of either, both policies, any clock: `CacheIsOneRefresh`, `TrustIsBacked`, `FailedRefreshStops`, `TrustIsGained`. 1.2 million states. |
| `verifier_safety` | One call of `verify`, every chain of up to four certificates over a cross-signed hierarchy, every presentation with up to two faults, every status list and trust list of a pool. Of the search: `PathIsValid` (`PathIsLinked` and `PathMeetsConstraints`), `SearchIsExhaustive` (against a definition of routes without a search), `ReasonIsKept` (a refusal names a reason really met, `IssuerMismatch` only where there was none). Of the verdict: `DocumentMeetsBar`, `DisclosuresAreSigned`, `ShownIsSigned`, `StatusIsKnown`, `QualifiedIsEarned`, `AnswersTheQuery`. 56 thousand states. |
| `exchange` | From offer to verdict: `AcceptedWasMadeForIt`, `HonestIsAccepted`, `OnlySelectedIsShown`, `SatisfiedMeetsQuery`, and `ObtainEnds`. 77 thousand states. |
| `chain_constraints` | A valid path is not taken because another is found first: see findings. |

Every property of a passing run has a mutant in `PROJECT.json`: a changed
definition, as a slip in that code would change it, for which TLC finds the
property violated.

### Findings

1. *Resuming from the handle alone* (`core_handle_only`). FR-013 promises that a
   signature can be completed after a restart "using only the persisted handle".
   In CredentialTokenPending the code, in SignPending the SAD, are in the effect
   only. A host must save the effect too; then `core_settles` holds.
2. *Expected signer* (`core_certified`). FR-014 wants the certificate checked.
   `signer_identity` prefers the fields the service sends beside it.
3. *Stale duplicate callback* (`service_stale_callback`). The comment on
   `ConsumeForResume` excludes a duplicate by the index and by the `resuming` flag.
   One that did its lookup before, and claims after the next redirect is
   indexed, passes both; the SDK refuses its state and the session fails. The upstream
   effects still run once (`EffectsOnce`).
4. *Revived session* (`service_expiry`). `expireLocked` ends a session during a
   handler's work; `drive` then stores handle, state and status again.
5. *Constraints without backtracking* (`chain_constraints`). The search backs out of
   a wrong turn only for what `issued_by` checks. Name constraints and critical
   extensions are checked on the finished path, and a violation is the answer: whether a
   leaf with two ways to an anchor is accepted depends on the order of the intermediates.
   The direction is safe (`PathMeetsConstraints` holds), the promise of
   `chain.rs:403` is not kept.

Met while reading, without a run of their own: `Engine.Begin` says that begin
"always emits the service-scope redirect", while a document the core refuses yields a
`Failed` step (and an HTTP 500); `specs/002-reference-integration/data-model.md`
says "there is no separate `409`", while the service answers 409 to a conflict,
and lists a `pending` status that no code stores. The module comment of
`trust/engine.rs` says that a failed refresh clears the cache under `FailClosed`;
the trait's `refresh`, which has no fetcher and reports `Unreachable` once a list is
configured, leaves it. `sdjwtvc/mod.rs:226` says that the claims of a VALID presentation can
always be put together again; the walk over the digests refuses a disclosed
name that meets another disclosed or structured one, but not one that meets a clear scalar claim,
and then `presented_claims` is empty (a query then finds nothing, which
is the safe side).
`qualified/mod.rs:74` says the names are tightened by
AKI and SKI "when both are present"; the match requires both to be present.
`obtain.rs:300` reserves `Err` for usage errors, while a
signature of the wrong length is an `Err` too, in a phase whose other failures are
steps. A DCQL entry that does not parse is dropped, so that a query may ask for less than it
says, and credential sets of which none is required are satisfied by nothing presented:
`AnswersTheQuery` and `SatisfiedMeetsQuery` are stated of the entries kept and of the required sets.

## 4. Bounds

- `MaxFresh = 6`: a flow keeps three draws (two states, one nonce); with one
  restart it can draw them all again. A call that needs more does not happen.
- Nonces of three bytes (16 in the code), each 0, 1, 127, 128 or 255, so that zeros lead or
  not and the sign bit is set or not; an imprint whose length takes one byte or two; each optional
  field there or not.
- `MaxRestarts = 1`: one restore puts any persisted handle next to any history of
  the flow after it. A second adds histories of the same kind; the proved
  invariants do not depend on the bound.
- Two signers: the expected one and another. One credential: nothing compares
  credentials but with themselves, and the proofs do not fix the number. Two clock values: a later call at another time.
- `Corrs`, `Threads` of two: a race needs two handlers; a second session shows
  eviction and index mix-ups, since starting it sweeps the first.
- `TTL = Grace = 1`, `MaxTime = 5`: a session can be live, expired and evicted,
  and a second one after it. A session starts only if the clock can still outrun it.
- `MaxHops`: HTTP effects between two redirects; 1 in the safety run, 2 in the
  liveness run, where the loop of `drive` repeats. The core makes at most three.
- `MaxLists = 2`: the second list may fail after the first was ingested, its bound may
  be earlier or later than the first's, and each may be of any kind. `Times = 0..2`:
  before, at and after a NextUpdate. Two keys, one root: an anchor of one key
  must not serve the other; roots are only compared for equality.

- `MaxPathLen = 2` (8 in the code), `MaxNodeVisits = 9` (4096): with two or three
  intermediates both bounds are met, a search that needs more than either happens, and one that
  just does not. All four properties of the search are proved for any.
- `MaxI64`, five seconds after the verification time, and `MaxU64 = 16`: a sum or a bit
  index may pass them. `KbSkew = 2`: inside, at and beyond the window.
- `Jobs`: each pool crosses one thing with one other (chains with anchors, a fault of the JWS with a fault of the
  key binding, trees with disclosures, documents with statuses, widths with indices, services with dates), over a
  credential that is otherwise sound. Two documents are enough for a pairing to go wrong.
- In `exchange`: `MaxAttempts = 3` sessions for two attestations, so one may fail;
  `MaxMade = 2` presentations, two requests, two keys: one of each that should not
  count. What is held is obtained before anything is presented, since the two share nothing. The
  issuer's certificate is its own anchor there; paths are `verifier_safety`'s.

Symmetry is used in safety runs only, over signers, sessions, threads and trust keys.

## 5. Fairness

- `SF_vars(Perform)`: the host performs the effect it was given. Strong, because a
  stray callback takes the one inbox and disables performing again and again; the host does
  not drop its own work for it.
- `WF_vars(Resume)`: the host feeds an answer it has to `resume`, a plain call.
- No fairness for the browser: a signer may never answer.
- `WF_vars(Work(t))`: a goroutine runs, and an upstream call ends because
  `http.Client` has a 30 s timeout (`upstream/client.go`).
- `WF_vars(Status(c))`: the frontend polls (`frontend/helper-ts`). Expiry happens only when
  someone looks, which is why `SessionsEnd` needs it.
- `WF_vars(Tick)`: time passes.
- `WF(VerifierStep)`, `WF(Walk)`, `WF(VerifierWorks)`: the verifier is a synchronous call
  without I/O.
- `WF(Answer)`: the host of an issuance answers the effect it was given, in the end
  with an answer to it: `http.Client`s time out, and a signature of the right length is what
  a working signer makes. Which answer is not said: an error ends the session as well.
  `Misanswer` has no fairness and may happen any number of times before.

`ConsentIsSettled` counts a reported `ProtocolParse` or `Internal` as settled: the core returned an
error and left the decision to the host.

## 6. Proofs

Assumptions on the constants: the absent value is none of the present ones,
document kinds are among those listed, `PersistEffects` is a Boolean; times are integers
and the absent bound is not one; no OAuth state, SDK handle or PDF is the absent value
(`NilAssumption`). Sets may be infinite; `MaxFresh`, `MaxRestarts` and
`MaxLists` are arbitrary. For the path search: the arguments of a call are sequences of
certificates or `Garbage` (`CallsAssumption`), `Garbage` is no certificate and a
subject is a directory name (`CertsAssumption`), the cap and the budget are numbers (`BoundsAssumption`).
For the verifier, what its decoders guarantee of any argument (`IsJob`, of each call by `JobsAssumption`): lists are sequences, dates
and claims are numbers or not there or garbage, bytes are bytes, a list that comes to the gate has
been parsed. Nothing is assumed of who signed what. Where calls come from the exchange, `IsJob` is
not assumed but proved of each of them. `Absent` and `Garbage` are no numbers
(`DecodedAssumption`), no status and no challenge, and a certificate has a key (`AbsentAssumption`);
the acceptable skew is a natural number (`SkewAssumption`). For the exchange: no two requests share a nonce
(`RequestsAssumption`; the verifier's host draws one per request, and with a nonce used twice the statement
would be false); what an issuer makes out decodes, and has the members that issuance and presentation
write to (`TemplatesAssumption`); the host's clock is a number and its anchors are a list of certificates, parsed or not
(`HostAssumption`); the schema version is a value (`SchemaAssumption`). Nothing is assumed of what the attestations, the
queries and the selections contain, or of which keys the host signs with.

- `SigningCoreProofs` - `CoreInv` is inductive. The type invariant and
  `CarriedFields` are not, taken alone: an arm copies fields from the answer and
  from the effect, so the invariant also says what the pending `step` may be in each
  phase, and that the inbox holds an answer to it, for the live and for the persisted
  pair. From it: `SigningCoreTypeOK`, `HandleCarriesItsFields`, `LiveHandleIsComplete`.
  `ConsentInv` is inductive relative to `CoreInv`: a pending
  consent's redirect shows the handle's attributes (`HandleConsents`), a code
  or SAD in a step was bought by an approved one (`StepConsents`), and what
  is in the inbox was really issued (`InboxHonest`). Histories (`browser`,
  `approved`, `signatures`) only grow, so the persisted pair keeps its consents.
  From it: `OnlyApprovedIsSigned`, `SuccessIsSigned`.
- `SigningOutcomeProofs` - `RefinedInv` adds two parts to `CoreInv` and `ConsentInv`. `EvidenceInv`: a
  handle keeps the request of its begin, its level and, from consent on, the time of what is staged
  and a signer who passed the check; a flow that awaits its timestamp has recorded its query, over its own
  signature; a token that came back holds a nonce and an imprint and nothing else.
  `RedirectsInv`: no two redirects share a state, none is approved before it is drawn, only a
  credential authorization shows a hash. From the first: `SuccessIsTimestamped`, `SuccessTellsTheTruth`.
  From both, call by call, `CoreImplementsFlow`: what a call changes of stage, redirects, approvals and result
  is a step of `SigningFlow`, or nothing of it.
  `FlowNeverTurnsBack` goes through the arms with the order of the phases.
- `SigningFlowProofs` - `FlowSealsOnlyApproved`, for the abstract flow.
- `TrustEngineProofs` - that the cache is one refresh's (`OneRefreshCached`) is not
  inductive alone, since `RefreshOk` installs what was built: `EngineInv` adds that the cache
  being built equals what was ingested so far (`BuildingInv`). `NothingStaleAnchors`
  follows: the bound is at most each LOTL's NextUpdate. `FailClosedStops` needs
  that such a failure left the default cache (`VerdictInv`), `GainedTrust` goes action by action. `TrustEngineTypeOK` is a part of it.
- `RefServiceProofs` - none of the service's invariants is inductive alone. `ServiceInv` is the
  store's half, `StoreInv`: `IndexCoherent` and `ClaimExclusive` with where a thread may be
  (`Placed`), what may have happened before a client is told of a session (`Beginnings`), that only a session
  out of time leaves the index (`Evictions`), that a session awaits its own redirects (`OwnStates`);
  and the flow's half, for each session by itself, `SessionOk`: how far its redirects, claims and upstream effects
  have come, seen from the store and from the local variables of the handler at work. A session with an outcome
  has no handler left but those that have just found it and the one about to finalize (`Ending`), since the handler that
  decides it was engaged with the SDK, and then no other publishes a redirect (`Alone`). A handler's step
  touches one session (and those its sweep evicts), so the second half is proved one session at a time.
  From it, for any sessions, handlers, TTL and bounds: `ServiceTyped`, `IndexesCoherent`,
  `ClaimsExclusive`, `EffectsHappenOnce`, `EndedHasNoSecret`, `ServedWasSealed`, `OutcomesAreFinal`.
- `CertChainProofs` - the search remembers a path only as its frames, so `ChainInv` says that at
  any moment the frames form a line (`IsLine`): each stands for a certificate that certifies
  the one below, at the depth at which it was checked. That depth is the number of intermediates
  below that are not self-issued, counted here over the frames and in `PathIsLinked` over the path,
  which is reversed: the two counts agree by a bijection. `PositionsInv`
  ties the candidate of a frame to the frame above it: backing out leaves the rest a line, and
  when a frame was entered is never in question. From it: `AcceptedPathIsLinked`, `ChainTypes`.
  That an accepted path meets its constraints is an induction along the path:
  `enforce_path_constraints` is a recursive function, which exists and unfolds (`EnforceRuns`), and what it
  knows after each certificate contains the constraints of all above. The induction is first-order, by the least
  counterexample (`LeastOf`, from the well-foundedness of <). That the search misses nothing is `SearchInv`: under each
  frame, every candidate already passed leads to no route to an anchor (`FrameMisses`), and to one that is
  cut by the cap only if "too long" is noted; as long as only `IssuerMismatch` was recorded, every candidate
  passed failed for that reason (`FrameIsQuiet`), and any other reason recorded is that of a candidate
  of a path the search stood on (`Heard`). A route through a frame is a route of the frame
  above or below it, so leaving a frame hands its promise to the one below.
  From it: `AcceptedPathIsValid`, `SearchMissesNoRoute`, `SpecificReasonIsKept`, for any cap and budget.
- `VerifierProofs` - a call is a fold over documents with searches in between, so `VerifierInv` says,
  stage by stage, what was asked of the search under way (`TrustInv`, `StatusInv`, `ListInv`), what had been checked
  before it was asked (`DocInv`), and what each document that passed left behind (`ClaimedInv`). None of
  `ShownIsSigned`, `QualifiedIsEarned` and `AnswersTheQuery` is inductive alone: they speak of all documents at once,
  a step of one. `LeafInv` carries the check of the leaf's purpose and dates, made before a
  search begins, to its answer. The invariant of the search is `CertChainProofs`', kept for whatever is asked
  (`AskedInv`). One lemma per action; `ConcludeKeeps` serves the two that end a document. From
  it, for any presentation, anchors, tokens, lists and times: `VerifierTypeIsKept`, `ShownStaysSigned`,
  `QualifiedStaysEarned`, `ValidAnswersTheQuery`, `VerifierPathIsLinked`, and of a step in which a document passes,
  `StatusStaysKnown` and `DocumentsMeetTheBar`. What a document met when it passed is kept to the end of the call
  (`PassedInv`), so that a valid verdict is of documents that all met their bar (`AcceptedIsSound`). The promises of the
  search hold for each of the up to three searches of a document, since what a call asks is an
  `IsCall`: `VerifierPathIsValid`, `VerifierSearchIsExhaustive`, `VerifierReasonIsKept`. These rest on what the operators compute: the closed formula of
  `days_from_civil` counts the days of every year (`CivilDaysAreCounted`; the years are counted up by the least
  counterexample, as in `CertChainProofs`), the status entry read by division and remainder is the bits of the list
  (`EntryIsZero`), a NumericDate rounded up is compared as the fraction would be (`RoundedUp`), and a
  namespace with as many records as entries has every item read (`AllAreRead`, by counting).
  The proof found that the last is false of a namespace named twice, where the records of both are
  joined: there an item may stay unread, and undigested. It is shown nowhere, as `ShownIsSigned` says, and
  `MdocIsSound` says which items are meant; `MCVerifier` has such a document since.

- `ExchangeProofs` - `ExchangeInv` follows the holder's key and the request's nonce from hand to hand. The session and its
  effect name the holder's key (`SessionInv`, `EffectInv`), so an attestation obtained is bound to it
  (`HeldInv`); a draft was prepared from one that is held, for one request (`DraftInv`); what is made of it still carries that
  key, and the key that signed and the request signed for (`MadeInv`). On the other side a slot of a vp_token, and the argument of
  the call under way, is a presentation somebody made (`SetInv`, `CallInv`), and the call is an `IsJob`, so the
  verifier's own invariants hold within it. `AcceptedWasMadeForIt` speaks of both sides and is inductive on neither:
  the bar of an accepted document (`PassedInv`) compares its signature with the key it is bound to, and what is signed with the request.
  From it: `ExchangeInvariance`, `AcceptedStaysMadeForIt`.
  For a vp_token, `AnswerInv`: the places left are in a row per id and the next one is the one to be answered
  (`LineInv`; otherwise an answer could be put at another's index), every id matched has a valid answer
  to a presentation by the holder that meets the id's entry (`MatchedInv`), and the result is of these (`OutcomeInv`).
  From it: `SatisfiedStaysWithTheHolder`.
  What is shown: `conceal` takes along the least set that holds the claims left out and is closed under "lies below"
  (`WithBelowIsClosed`, by counting: a level that is not closed holds one more of the disclosures than the level above, so the
  last of `Len(D)` levels is; `WithBelowIsLeast`), and pruning leaves the elements named (`PrunedNames`). From it:
  `OnlySelectedStaysShown` and, with the scan of the raw items and the paths of a query, `OnlySelectedStaysFound`.

Model-checked only:
- liveness, which is out of the prover's reach: `ConsentIsSettled`, `HandlersReply`,
  `SessionsEnd`, `ObtainEnds`;
- `TokenIsReadBack`, a statement about readers that fold over bytes;
- `DisclosuresAreSigned`, a statement about trees of any depth: induction over data;
- `HonestIsAccepted`: that nothing refuses an honest presentation depends on the attestation, which may be
  expired, badly signed or bear the wrong type, and is stated of the ones the run makes out;
- of `SatisfiedMeetsQuery`, which compares the raw query with what the holder selected, the
  part that the claims an SD-JWT entry asks for were selected: it holds if they are not in the clear, and takes the
  rebuilding of the claims from the disclosures, over trees of any depth. The rest is `SatisfiedStaysWithTheHolder`, and for an mdoc
  `OnlySelectedStaysFound`.

## 7. Not modelled

- `verification.rs`: one stateless verdict over the bytes of one PDF. What may go wrong in it is
  in byte ranges, xref sections and DER, which a model would have to assume; there are no
  steps of several actors and nothing is kept. What it shares with signing, that the signed attributes bind
  the staged PDF and the leaf, is in `SigningCore`.
- The wire formats, the C ABI and the language bindings: CBOR and memory handed over
  a pointer. The wire entry points that put a verification together are in `VpToken`; the others
  decode, call one function and encode. The conformance data are tests.
- `trust/xml.rs` and the XML of the national list: lists reach `TrustEngine` and
  `QualifiedGate` parsed, and a list that does not parse is one of their inputs.
- Cryptography, DER, PDF layout, base64, compression, JOSE and COSE structures: by what
  they tell apart (a key, what is signed, garbage).
- The frontend helper and the web demo are the polling client and the browser of the models;
  the mock upstream, scripts, packaging and deployment hold no logic of the SDK.
- The `conceal` of `sd_jwt_payload` is external, as is what servers answer.

## 8. Plan

Every component with a state or an order of its own has a module, and the safety properties of all of
them are proved but for those under "Model-checked only". Worth doing next:

1. The claims rebuilt from disclosures (`Rebuilt`), as a first-order induction over the length of paths, for `DisclosuresAreSigned`
   and the SD-JWT half of `SatisfiedMeetsQuery`.
2. The readers of `TimestampToken` with lengths bounded by the DER length field, for `TokenIsReadBack`.
3. `HonestIsAccepted` from a statement of what an issuer must make out to be accepted.

## 9. Running

```
tlc -workers 2 -config MCSigningCore.cfg MCSigningCore
tlapm SigningCoreProofs.tla
```
