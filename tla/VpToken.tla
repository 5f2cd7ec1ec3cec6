-------------------------------- MODULE VpToken --------------------------------
(***************************************************************************)
(* The wire entry points of the verifier (wire.rs) and the verification of  *)
(* a vp_token (verify_vp_token, openid4vp/mod.rs): a request arrives, for   *)
(* one presentation or for a map from the ids of the query's entries to     *)
(* presentations, which are verified slot by slot against the entry each    *)
(* is sent for; then the credential sets of the query are decided.          *)
(***************************************************************************)
EXTENDS CredentialVerifier

CONSTANT SchemaVersion  \* ATTESTATION_SCHEMA_VERSION
ASSUME SchemaAssumption == SchemaVersion # Absent

VARIABLES
  set,      \* the vp_token request under verification, Absent when none is
  todo,     \* its slots yet to verify: id and index
  answers,  \* the verdicts of its slots, by id
  matched,  \* the ids some valid presentation answers
  outcome   \* the last response

setVars == <<set, todo, answers, matched, outcome>>
vpVars == <<verifierVars, setVars>>

\* decode_versioned.
IsSpoken(req) == req # Garbage /\ req.schemaVersion = SchemaVersion
Err == [kind |-> "err"]

\* anchors_from_wire: the anchors of a role and format, in their order.
AnchorsFromWire(entries, now) ==
  LET Of(k) == Retain(entries, {e \in Range(entries) : <<e.role, e.format>> = k})
  IN  [now |-> now,
       lists |-> [k \in Roles \X Formats |->
                    IF Of(k) = <<>> THEN Absent ELSE [i \in DOMAIN Of(k) |-> Of(k)[i].cert]]]

VpTokenInit ==
  /\ VerifierInit
  /\ set = Absent /\ todo = <<>> /\ answers = [id \in {} |-> <<>>] /\ matched = {} /\ outcome = Absent

-----------------------------------------------------------------------------
(* One presentation *)

\* process_verify_bytes: the context's flag asks for the gate too.
ProcessVerify(req) ==
  /\ set = Absent /\ outcome = Absent
  /\ \/ ~IsSpoken(req) /\ stage = "idle" /\ outcome' = Err /\ UNCHANGED verifierVars
     \/ /\ IsSpoken(req) /\ UNCHANGED outcome
        /\ Verify([format |-> req.format, presentation |-> req.presentation, role |-> req.role,
                   now |-> req.now, statuses |-> req.statuses, tokens |-> req.tokens,
                   transcript |-> req.transcript, request |-> req.request, audience |-> req.audience,
                   policy |-> [req.policy EXCEPT !.gate = @ \/ req.gate],
                   list |-> IF req.list = Absent THEN Absent ELSE ParseList(req.list),
                   schemeAnchors |-> req.schemeAnchors,
                   anchors |-> AnchorsFromWire(req.anchors, req.now)])
  /\ UNCHANGED <<set, todo, answers, matched>>

\* encode_verify_response.
RespondVerify ==
  /\ set = Absent /\ stage = "done" /\ Deliver
  /\ outcome' = [kind |-> "verdict", verdict |-> verdict]
  /\ UNCHANGED <<set, todo, answers, matched>>

-----------------------------------------------------------------------------
(* A vp_token *)

\* A query that does not parse has no entries.
SentQuery(request) ==
  IF request.query = Absent \/ ParseQuery(request.query) = Garbage THEN EmptyQuery ELSE ParseQuery(request.query)
Asked(query, id) == {q \in Entries(query) : q.id = id}
EntryOf(id) == CHOOSE q \in Entries(SentQuery(set.request)) : q.id = id

\* An id the query does not have, or more presentations than it allows, is not verified at all.
IsAnswerable(query, id, tokens) ==
  Asked(query, id) # {} /\ (Len(tokens) <= 1 \/ \E q \in Asked(query, id) : q.multiple)

\* process_vp_token_bytes, which refuses the gate, and the start of verify_vp_token_slots.
ProcessVpToken(req) ==
  /\ set = Absent /\ stage = "idle" /\ outcome = Absent
  /\ IF ~IsSpoken(req) \/ req.policy.gate
     THEN outcome' = Err /\ UNCHANGED <<set, todo, answers, matched>>
     ELSE /\ set' = [req EXCEPT !.anchors = AnchorsFromWire(@, req.now)]
          /\ LET query == SentQuery(req.request)
                 ids   == {id \in DOMAIN req.vpToken : IsAnswerable(query, id, req.vpToken[id])}
                 Slots(id) == [i \in DOMAIN req.vpToken[id] |-> <<id, i>>]
                 order == SetToSeq(ids)
             IN  todo' = FlattenSeq([k \in DOMAIN order |-> Slots(order[k])])
          /\ answers' = [id \in DOMAIN req.vpToken |-> <<>>] /\ matched' = {} /\ UNCHANGED outcome
  /\ UNCHANGED verifierVars

Slot == set.vpToken[Head(todo)[1]][Head(todo)[2]]
\* An mdoc that came without its audience.
IsUnaddressed == Slot.format = "Mdoc" /\ Slot.audience = Absent

\* The statuses of a presentation are those of its id and index.
SlotStatuses ==
  LET id == Head(todo)[1]
      i  == Head(todo)[2]
  IN  IF id \in DOMAIN set.statuses /\ i \in DOMAIN set.statuses[id] THEN set.statuses[id][i] ELSE <<>>

\* The types an entry asks for decide the role its presentations are held to.
SlotRole == LET asked == RoleFromMeta(EntryOf(Head(todo)[1])) IN IF asked = Absent THEN set.role ELSE asked

Answered1(answer) ==
  /\ answers' = [answers EXCEPT ![Head(todo)[1]] = Append(@, answer)]
  /\ todo' = Tail(todo)

OpenSlot ==
  /\ set # Absent /\ stage = "idle" /\ todo # <<>>
  /\ \/ /\ IsUnaddressed /\ Answered1([NoVerdict EXCEPT !.reason = "MissingRequestBinding"])
        /\ UNCHANGED <<verifierVars, set, matched, outcome>>
     \/ /\ ~IsUnaddressed
        /\ Verify([format |-> Slot.format, presentation |-> Slot.presentation, role |-> SlotRole,
                   now |-> set.now, statuses |-> SlotStatuses, tokens |-> set.tokens, transcript |-> Absent,
                   request |-> set.request, audience |-> Slot.audience, policy |-> set.policy,
                   list |-> Absent, schemeAnchors |-> <<>>, anchors |-> set.anchors])
        /\ UNCHANGED setVars

\* Mutant: a valid presentation counts for the entry it is sent for.
AnyValidMatches(entry) == verdict.valid
\* Valid, and an answer to the very entry it was sent for.
MatchesEntry(entry) == verdict.valid /\ QuerySatisfiedBy(entry, job.format, Types, Presented(shown))

CloseSlot ==
  /\ set # Absent /\ stage = "done"
  /\ Answered1(verdict)
  /\ LET id == Head(todo)[1] IN matched' = IF MatchesEntry(EntryOf(id)) THEN matched \union {id} ELSE matched
  /\ Deliver /\ UNCHANGED <<set, outcome>>

FinishSet ==
  /\ set # Absent /\ stage = "idle" /\ todo = <<>> /\ outcome = Absent
  /\ outcome' = [kind |-> "set", satisfied |-> CredentialSetsSatisfied(SentQuery(set.request), matched), matched |-> matched]
  /\ UNCHANGED <<verifierVars, set, todo, answers, matched>>

\* The response is gone to the host.
Respond ==
  /\ outcome # Absent /\ stage = "idle"
  /\ outcome' = Absent /\ set' = Absent /\ answers' = [id \in {} |-> <<>>] /\ matched' = {}
  /\ UNCHANGED <<verifierVars, todo>>

VpTokenStep ==
  \/ VerifierStep /\ UNCHANGED setVars
  \/ RespondVerify \/ OpenSlot \/ CloseSlot \/ FinishSet \/ Respond
==============================================================================
