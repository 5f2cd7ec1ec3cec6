--------------------------------- MODULE Wallet ---------------------------------
(***************************************************************************)
(* Presentation by the holder (issuance/present.rs): a held attestation is  *)
(* cut down to what is to be disclosed and bound to the verifier's request; *)
(* the host signs; the signature is put in place.  A selector is a path of  *)
(* names: of an SD-JWT claim from the root, of an mdoc element its          *)
(* namespace and identifier.                                                *)
(***************************************************************************)
EXTENDS SignerHook

\* walk_disclosure_tree over the clear payload, never into a disclosure: the digests of object
\* properties under the path of their claim, those of array elements under their top-level claim.
Disclosable(tree, D) ==
  LET Selector(path) == [i \in DOMAIN path |-> IF path[i][1] = "key" THEN path[i][2] ELSE "item"]
      Of(path) ==
        LET v == Node(tree, path, <<>>) IN
        CASE v.kind = "object" ->
               {[selector |-> Append(Selector(path), NameOf(v, i, D)), digest |-> v.sd[i]]
                : i \in {k \in Opened(v, D) : NameOf(v, k, D) # Absent}}
          [] v.kind = "array" ->
               {[selector |-> <<Selector(path)[1]>>, digest |-> v.items[i].digest]
                : i \in {k \in DOMAIN v.items : v.items[k].kind = "redacted" /\ Held(v.items[k].digest, D)
                                                /\ Open(v.items[k].digest, D).name = Absent}}
          [] OTHER -> {}
  IN  UNION {Of(path) : path \in Paths(tree, <<>>)}

\* Digests within the value of a disclosure.
DigestsBelow(v) ==
  LET Of(w) == IF w.kind = "object" THEN Range(w.sd) ELSE IF w.kind = "redacted" THEN {w.digest} ELSE {}
  IN  UNION {Of(Node(v, path, <<>>)) : path \in Paths(v, <<>>)}
\* conceal takes what is disclosed below along: no chain of disclosures is longer than all of them.
WithBelow(digests, D) ==
  LET Within[n \in 0..Len(D)] ==
        IF n = 0 THEN digests
        ELSE LET above == Within[n - 1]
             IN  above \union UNION {DigestsBelow(Open(d, D).value) : d \in {x \in above : Held(x, D)}}
  IN  Within[Len(D)]

Prepared(held, input) == [kind |-> "prepared", held |-> held, input |-> input]
Refusal(reason) == [kind |-> "refused", reason |-> reason]

\* The disclosures left when what is not selected is concealed.
Conceal(p, disclose) ==
  LET all == Disclosable(p.jws.tree, p.disclosures)
      out == WithBelow({d.digest : d \in {x \in all : x.selector \notin disclose}}, p.disclosures)
  IN  Retain(p.disclosures, {d \in Range(p.disclosures) : d.digest \notin out})

\* Mutant: the hash is taken before the disclosures are concealed.
HashOfHeld(cut, p) == SdHash(p)
HashToBind(cut, p) == SdHash(cut)

PrepareSdJwt(p, request, disclose, iat) ==
  IF p = Garbage THEN Refusal("Malformed")
  ELSE IF ~(disclose \subseteq {d.selector : d \in Disclosable(p.jws.tree, p.disclosures)})
  THEN Refusal("UndisclosableClaim")
  ELSE LET cut == [p EXCEPT !.disclosures = Conceal(p, disclose), !.kb = Absent]
       IN  Prepared([format |-> "SdJwtVc", presentation |-> cut], KbInput(request, iat, HashToBind(cut, p)))

-----------------------------------------------------------------------------
\* Mutant: items by their identifiers alone.
PruneByName(nameSpaces, disclose) ==
  LET Kept(e) == [e EXCEPT !.items = SelectSeq(@, LAMBDA item : item # Garbage /\ \E d \in disclose : d[2] = item.identifier)]
  IN  SelectSeq([i \in DOMAIN nameSpaces |-> Kept(nameSpaces[i])], LAMBDA e : e.items # <<>>)
\* prune_name_spaces: items by their qualified names; a namespace left with none goes.
Prune(nameSpaces, disclose) ==
  LET Kept(e) == Retain(e.items, {item \in Range(e.items) : item # Garbage /\ <<e.ns, item.identifier>> \in disclose})
      pruned  == [i \in DOMAIN nameSpaces |-> [nameSpaces[i] EXCEPT !.items = Kept(nameSpaces[i])]]
  IN  Retain(pruned, {e \in Range(pruned) : e.items # <<>>})

IssuedIdentifiers(doc) ==
  IF doc.nameSpaces = Garbage THEN {}
  ELSE UNION {{<<doc.nameSpaces[i].ns, item.identifier>> : item \in Range(doc.nameSpaces[i].items) \ {Garbage}}
              : i \in DOMAIN doc.nameSpaces}

EmptyNameSpaces == "none"
\* One document at a time; the holder's own namespaces are signed as they are.
PrepareMdoc(resp, request, disclose) ==
  LET doc  == resp.documents[1]
      many == resp # Garbage /\ resp.documents # Absent /\ Len(resp.documents) > 1
      own  == IF doc.deviceSigned = Absent \/ doc.deviceSigned.nameSpaces = Absent THEN EmptyNameSpaces
              ELSE doc.deviceSigned.nameSpaces
  IN  IF resp = Garbage THEN Refusal("Malformed")
      ELSE IF many THEN Refusal("MultiDocumentMdoc")
      ELSE IF resp.documents \in {Absent, <<>>} \/ doc.docType = Absent \/ own = Garbage THEN Refusal("Malformed")
      ELSE IF ~(disclose \subseteq IssuedIdentifiers(doc)) THEN Refusal("UndisclosableClaim")
      ELSE LET pruned == IF doc.nameSpaces = Garbage THEN Garbage ELSE Prune(doc.nameSpaces, disclose)
               transcript == <<request.audience, request.nonce, request.responseUri>>
           IN  IF pruned = Garbage THEN Refusal("Malformed")
               ELSE Prepared([format |-> "Mdoc", presentation |-> [resp EXCEPT !.documents[1].nameSpaces = pruned]],
                             DeviceInput(request, transcript, doc.docType, own))

\* prepare_present.
PreparePresent(held, request, disclose, iat) ==
  IF held.format = "SdJwtVc" THEN PrepareSdJwt(held.presentation, request, disclose, iat)
  ELSE PrepareMdoc(held.presentation, request, disclose)

\* PreparedPresentation::finish: the slot the verifier is sent.
Finish(prepared, signature) ==
  LET p == prepared.held.presentation IN
  IF ~HasLength(signature) THEN Refusal("Build")
  ELSE IF prepared.held.format = "SdJwtVc"
  THEN [kind |-> "presented", format |-> "SdJwtVc", audience |-> Absent,
        presentation |-> [p EXCEPT !.kb = AssembledKb(prepared.input, signature)]]
  ELSE IF p.documents[1].deviceSigned = Absent THEN Refusal("Malformed")
  ELSE [kind |-> "presented", format |-> "Mdoc", audience |-> prepared.input.audience,
        presentation |-> [p EXCEPT !.documents[1].deviceSigned.signature =
                            AssembledDevice(prepared.input, signature)]]
==============================================================================
