----------------------------- MODULE Disclosures -----------------------------
(***************************************************************************)
(* Selective disclosure of an SD-JWT (sdjwtvc/mod.rs): the claims an issuer *)
(* signed hold digests, the presentation brings disclosures for some.       *)
(* A JSON value is a scalar, an array of values or of redacted elements, or *)
(* an object: its members and its _sd digests.  A digest stands for one     *)
(* disclosure; walks that fail, fail with one reason.                       *)
(***************************************************************************)
EXTENDS DecodedValues, Sequences, FiniteSets, SequencesExt

ReservedKeys == {"_sd", "_sd_alg", "cnf"}
Scalar(v)           == [kind |-> "scalar", value |-> v]
Object(members, sd) == [kind |-> "object", members |-> members, sd |-> sd]
Array(items)        == [kind |-> "array", items |-> items]
Redacted(digest)    == [kind |-> "redacted", digest |-> digest, alone |-> TRUE]
Plain(members)      == Object(members, <<>>)

Clear(o) == DOMAIN o.members \ ReservedKeys
Held(d, D) == \E i \in DOMAIN D : D[i].digest = d
Open(d, D) == D[CHOOSE i \in DOMAIN D : D[i].digest = d]
Opened(o, D) == {i \in DOMAIN o.sd : Held(o.sd[i], D)}

-----------------------------------------------------------------------------
(* A walk goes along paths.  A step of one leads to a member, to an item, or *)
(* through a digest to the value its disclosure holds.                       *)

Steps(v, D) ==
  CASE v.kind = "object" -> {<<"key", k>> : k \in DOMAIN v.members} \union {<<"sd", i>> : i \in Opened(v, D)}
    [] v.kind = "array"  -> {<<"item", i>> : i \in DOMAIN v.items}
    [] v.kind = "redacted" -> IF Held(v.digest, D) THEN {<<"open", 0>>} ELSE {}
    [] OTHER -> {}
Child(v, step, D) ==
  CASE step[1] = "key"  -> v.members[step[2]]
    [] step[1] = "item" -> v.items[step[2]]
    [] step[1] = "sd"   -> Open(v.sd[step[2]], D).value
    [] step[1] = "open" -> Open(v.digest, D).value
Node(tree, path, D) ==
  LET At[n \in 0..Len(path)] == IF n = 0 THEN tree ELSE Child(At[n - 1], path[n], D)
  IN  At[Len(path)]

\* The paths into a tree, the longer ones from the shorter; without disclosures, its clear ones.
Paths(tree, D) ==
  LET OfLength[n \in Nat] ==
        IF n = 0 THEN {<<>>}
        ELSE UNION {{Append(p, step) : step \in Steps(Node(tree, p, D), D)} : p \in OfLength[n - 1]}
      From[n \in Nat] == IF OfLength[n] = {} THEN {} ELSE OfLength[n] \union From[n + 1]
  IN  From[0]

IsOpening(step) == step[1] \in {"sd", "open"}
\* Machinery is not walked.
Walks(tree, D) == {p \in Paths(tree, D) : \A i \in DOMAIN p : p[i][1] = "key" => p[i][2] \notin ReservedKeys}

\* _sd_alg anywhere below.
HasSdAlg(v) ==
  \E p \in Paths(v, <<>>) : Node(v, p, <<>>).kind = "object" /\ "_sd_alg" \in DOMAIN Node(v, p, <<>>).members

\* The digest a step leads through, of the value it is taken from.
DigestOf(v, step) == IF step[1] = "sd" THEN v.sd[step[2]] ELSE v.digest
\* The places where a disclosure is put, each with its digest.
Places(tree, D) ==
  {<<p, DigestOf(Node(tree, Front(p), D), Last(p))>> : p \in {q \in Walks(tree, D) : q # <<>> /\ IsOpening(Last(q))}}

\* A redacted element nobody opened.
IsDropped(item, D) == item.kind = "redacted" /\ ~Held(item.digest, D)
NamesAt(o, D) == {Open(o.sd[i], D).name : i \in Opened(o, D)}
NameOf(o, i, D) == Open(o.sd[i], D).name

\* reconstruct_value, at every path: the clear values with the disclosed ones in their places.
Rebuilt(tree, D) ==
  LET R[p \in Walks(tree, D)] ==
        LET v == Node(tree, p, D) IN
        CASE v.kind = "object" ->
               Plain([n \in Clear(v) \union NamesAt(v, D) |->
                 R[Append(p, IF n \in NamesAt(v, D) THEN <<"sd", CHOOSE i \in Opened(v, D) : NameOf(v, i, D) = n>>
                             ELSE <<"key", n>>)]])
          [] v.kind = "array" ->
               LET kept == SelectSeq([i \in DOMAIN v.items |-> i], LAMBDA i : ~IsDropped(v.items[i], D))
               IN  Array([i \in DOMAIN kept |-> R[Append(p, <<"item", kept[i]>>)]])
          [] v.kind = "redacted" -> IF Held(v.digest, D) THEN R[Append(p, <<"open", 0>>)] ELSE v
          [] OTHER -> v
  IN  R

IsEmpty(v) == \/ v.kind = "scalar"
              \/ v.kind = "object" /\ v.members = [k \in {} |-> v]
              \/ v.kind = "array" /\ v.items = <<>>
\* disclosed_object and disclosed_array, at every path: what the disclosures add; clear scalars
\* are left out.
Revealed(tree, D) ==
  LET R[p \in Walks(tree, D)] ==
        LET v == Node(tree, p, D)
            Below(kind, k) == R[Append(p, <<kind, k>>)]
        IN  CASE v.kind = "object" ->
                   LET nested == {k \in Clear(v) : ~IsEmpty(Below("key", k))}
                   IN  Plain([n \in NamesAt(v, D) \union nested |->
                         IF n \in NamesAt(v, D) THEN Rebuilt(tree, D)[p].members[n] ELSE Below("key", n)])
              [] v.kind = "array" ->
                   LET Redacts(i) == v.items[i].kind = "redacted"
                       Part(i)    == IF Redacts(i) THEN Rebuilt(tree, D)[Append(p, <<"item", i>>)] ELSE Below("item", i)
                       shown == SelectSeq([i \in DOMAIN v.items |-> i],
                                  LAMBDA i : IF Redacts(i) THEN ~IsDropped(v.items[i], D) ELSE ~IsEmpty(Part(i)))
                   IN  Array([i \in DOMAIN shown |-> Part(shown[i])])
              [] OTHER -> v
  IN  R

\* insert_unique_at_level, for the whole claim set (reconstruct_object) or for what is disclosed.
NamesAreUnique(tree, p, D, whole) ==
  LET v == Node(tree, p, D)
      clear == IF whole THEN Clear(v) ELSE {k \in Clear(v) : ~IsEmpty(Revealed(tree, D)[Append(p, <<"key", k>>)])}
  IN  /\ \A i, j \in Opened(v, D) : NameOf(v, i, D) = NameOf(v, j, D) => i = j
      /\ \A i \in Opened(v, D) : NameOf(v, i, D) \notin clear

\* The walk fails nowhere, digests used twice apart; below a disclosure it is always the whole.
WellPlaced(tree, D, whole) ==
  \A p \in Walks(tree, D) :
    LET v == Node(tree, p, D) IN
    /\ v.kind = "object" =>
         /\ \A i \in DOMAIN v.sd : v.sd[i] # Garbage
         /\ \A i \in Opened(v, D) : NameOf(v, i, D) \notin {Absent, "_sd", "..."}
         /\ NamesAreUnique(tree, p, D, whole \/ \E i \in DOMAIN p : IsOpening(p[i]))
    /\ v.kind = "redacted" => v.alone /\ (Held(v.digest, D) => Open(v.digest, D).name = Absent)

\* Mutant: nobody looks for the disclosures that were put nowhere.
NoneUsedTwice(tree, D) ==
  LET places == Places(tree, D)
  IN  \A i \in DOMAIN D : Cardinality({p \in places : p[2] = D[i].digest}) <= 1
\* Every disclosure is put in exactly one place.
EachUsedOnce(tree, D) ==
  LET places == Places(tree, D)
  IN  \A i \in DOMAIN D : Cardinality({p \in places : p[2] = D[i].digest}) = 1

\* reconstruct_claim_set: "ok" or its reason.
ClaimSetVerdict(tree, sdAlg, D, whole) ==
  LET bad == {i \in DOMAIN D : HasSdAlg(D[i].value) \/ \E j \in 1..(i - 1) : D[j].digest = D[i].digest}
      first == CHOOSE i \in bad : \A j \in bad : i <= j
  IN  IF sdAlg \notin {Absent, "sha-256"} THEN "UnsupportedFormat"
      ELSE IF bad # {} THEN IF HasSdAlg(D[first].value) THEN "MalformedCredential" ELSE "DisclosureIntegrity"
      ELSE IF \E k \in DOMAIN tree.members : HasSdAlg(tree.members[k]) THEN "MalformedCredential"
      ELSE IF ~WellPlaced(tree, D, whole) \/ ~EachUsedOnce(tree, D) THEN "DisclosureIntegrity"
      ELSE "ok"

NoClaims == Plain([k \in {} |-> Garbage])
\* presented_claims: an integrity failure shows nothing.
PresentedClaims(tree, sdAlg, D) ==
  IF ClaimSetVerdict(tree, sdAlg, D, TRUE) = "ok" THEN Rebuilt(tree, D)[<<>>] ELSE NoClaims
==============================================================================
