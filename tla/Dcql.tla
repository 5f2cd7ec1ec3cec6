--------------------------------- MODULE Dcql ---------------------------------
(***************************************************************************)
(* DCQL (dcql.rs): how the verifier reads the query it sent and decides     *)
(* whether presented claims answer it.  A query is Garbage or its raw       *)
(* credential and credential set entries.                                   *)
(***************************************************************************)
EXTENDS SdJwtVc

Unsatisfiable == [id |-> Absent, path |-> <<[kind |-> "none"]>>, values |-> Absent]

\* Constraints that do not parse stay, unsatisfiable; they are never dropped.
ParseClaim(raw) ==
  IF raw = Garbage THEN Unsatisfiable
  ELSE [raw EXCEPT !.path = IF @ \in {Absent, Garbage, <<>>} THEN Unsatisfiable.path ELSE @,
                   !.values = IF @ \in {Garbage, {}} THEN {Garbage} ELSE @]
ParseClaims(raw) ==
  IF raw = Absent THEN <<>>
  ELSE IF raw \in {Garbage, <<>>} THEN <<Unsatisfiable>>
  ELSE [i \in DOMAIN raw |-> ParseClaim(raw[i])]
ParseClaimSets(raw) ==
  IF raw = Absent THEN <<>> ELSE IF raw = Garbage THEN <<{""}>>
  ELSE [i \in DOMAIN raw |-> IF raw[i] = Garbage THEN {""} ELSE raw[i]]

\* An entry without an id, of another format, or with claim sets but no claims is dropped.
EntryIsKept(raw) ==
  /\ raw # Garbage /\ raw.id \notin {Absent, ""} /\ raw.format \in Formats
  /\ ParseClaimSets(raw.claimSets) = <<>> \/ ParseClaims(raw.claims) # <<>>
ParseEntry(raw) ==
  [id |-> raw.id, format |-> raw.format, types |-> IF raw.types = {} THEN Absent ELSE raw.types,
   claims |-> ParseClaims(raw.claims), claimSets |-> ParseClaimSets(raw.claimSets), multiple |-> raw.multiple]

\* A set with an unreadable option or without options is dropped.
SetIsKept(raw) == raw # Garbage /\ raw.options \notin {Absent, {}} /\ Garbage \notin raw.options

EmptyQuery == [credentials |-> <<>>, sets |-> <<>>]
\* DcqlQuery::parse: Garbage for no JSON object and for an id that repeats; entries where they were sent.
ParseQuery(raw) ==
  IF raw = Garbage THEN Garbage
  ELSE LET sent == raw.credentials
           kept == {i \in DOMAIN sent : EntryIsKept(sent[i])}
       IN  IF \E i, j \in kept : i # j /\ sent[i].id = sent[j].id THEN Garbage
           ELSE [credentials |-> [i \in kept |-> ParseEntry(sent[i])],
                 sets |-> SelectSeq(raw.sets, SetIsKept)]
Entries(query) == {query.credentials[i] : i \in DOMAIN query.credentials}

-----------------------------------------------------------------------------
(* Claims *)

\* The values one component selects among those reached so far.
SelectFrom(values, component) ==
  CASE component.kind = "key" ->
         {v.members[component.key] : v \in {w \in values : w.kind = "object" /\ component.key \in DOMAIN w.members}}
    [] component.kind = "index" ->
         {v.items[component.index + 1] : v \in {w \in values : w.kind = "array" /\ component.index < Len(w.items)}}
    [] component.kind = "all" ->
         UNION {{v.items[i] : i \in DOMAIN v.items} : v \in {w \in values : w.kind = "array"}}
    [] component.kind = "none" -> {}

\* Claims are rooted at a named one.
ResolvePath(root, path) ==
  LET Reached[n \in 0..Len(path)] == IF n = 0 THEN {root} ELSE SelectFrom(Reached[n - 1], path[n])
  IN  IF path[1].kind # "key" THEN {} ELSE Reached[Len(path)]

ValueMatches(v, expected) == v.kind = "scalar" /\ v.value \in expected \ {Garbage}

ClaimResolves(claim, presented) ==
  LET selected == ResolvePath(presented, claim.path)
  IN  selected # {} /\ (claim.values = Absent \/ \E v \in selected : ValueMatches(v, claim.values))

\* With claim sets, one of them is met in full; claim ids may not repeat then.
ClaimsSatisfied(query, presented) ==
  LET claims == {query.claims[i] : i \in DOMAIN query.claims}
      Repeats == \E i, j \in DOMAIN query.claims :
                   i # j /\ query.claims[i].id # Absent /\ query.claims[i].id = query.claims[j].id
      IsMet(id) == \E c \in claims : c.id = id /\ ClaimResolves(c, presented)
  IN  IF claims = {} THEN TRUE
      ELSE IF query.claimSets = <<>> THEN \A c \in claims : ClaimResolves(c, presented)
      ELSE /\ ~Repeats
           /\ \E i \in DOMAIN query.claimSets : query.claimSets[i] # {} /\ \A id \in query.claimSets[i] : IsMet(id)

\* types: those the credential was verified to have; of an mdoc, one per document.
FormatAndMetaMatch(query, format, types) ==
  /\ query.format = format
  /\ format = "Mdoc" => types # {}
  /\ query.types = Absent \/ (types # {} /\ types \subseteq query.types)

\* Mutant: the type asked for is not compared.
AnyType(query, format, types, presented) == query.format = format /\ ClaimsSatisfied(query, presented)

QuerySatisfiedBy(query, format, types, presented) ==
  FormatAndMetaMatch(query, format, types) /\ ClaimsSatisfied(query, presented)

\* evaluate_single, for a response that names no entry.
EvaluateSingle(raw, format, types, presented) ==
  IF raw = Absent THEN "Inactive"
  ELSE IF ParseQuery(raw) = Garbage THEN "NotSatisfied"
  ELSE IF Entries(ParseQuery(raw)) = {} THEN "Inactive"
  ELSE IF \E q \in Entries(ParseQuery(raw)) : QuerySatisfiedBy(q, format, types, presented)
  THEN "Satisfied" ELSE "NotSatisfied"

\* The role an entry's types give; types that disagree give none.
RoleFromMeta(query) ==
  IF query.types # Absent /\ query.types \subseteq PidTypes THEN "Pid" ELSE Absent

\* Without sets every entry is needed; of the sets, the required ones.
CredentialSetsSatisfied(query, satisfied) ==
  IF query.sets = <<>> THEN Entries(query) # {} /\ \A q \in Entries(query) : q.id \in satisfied
  ELSE \A i \in DOMAIN query.sets : query.sets[i].required =>
         \E option \in query.sets[i].options : option # {} /\ option \subseteq satisfied
==============================================================================
