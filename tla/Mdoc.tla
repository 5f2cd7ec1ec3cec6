--------------------------------- MODULE Mdoc ---------------------------------
(***************************************************************************)
(* The mdoc bar (mdoc/mod.rs): a DeviceResponse and its documents, each with*)
(* an issuer signature over a mobile security object, the items whose       *)
(* digests that object holds, and a device signature over the session       *)
(* transcript.  The bytes of an item are scanned apart from its decoding.   *)
(***************************************************************************)
EXTENDS SdJwtVc

DigestAlgorithms == {"SHA-256", "SHA-384", "SHA-512"}

\* What a COSE_Sign1 may list in crit.
CritUnderstood(sign1) == sign1.crit \subseteq {"alg"}
Mso(doc) == doc.issuerAuth.mso

\* Whether the response is read at all (verify_inner up to its documents).
ResponseVerdict(resp) ==
  IF \/ resp = Garbage \/ ~resp.definite \/ resp.version # "1.0" \/ resp.status # 0
     \/ resp.documents \in {Absent, <<>>}
  THEN "MalformedCredential" ELSE "ok"

-----------------------------------------------------------------------------
(* Items.  An entry of nameSpaces is a namespace and its items; an item is a *)
(* tagged byte string that holds an id, an element and its value, or not.    *)

\* What the scan reads of an item.
IsRead(item) == IsValue(item.digestID) /\ IsValue(item.value)

\* scan_raw_issuer_items: the namespaces of a document as scanned, each with its items by where
\* they stand, those of a repeated one joined;
\* an item that is no tagged byte string leaves the document without any.
RawItems(doc) ==
  LET entries == IF doc.nameSpaces = Garbage THEN <<>> ELSE doc.nameSpaces
      names   == {entries[i].ns : i \in DOMAIN entries}
      ItemAt(at) == entries[at[1]].items[at[2]]
      Of(ns)  == UNION {{<<i, j>> : j \in DOMAIN entries[i].items} : i \in {k \in DOMAIN entries : entries[k].ns = ns}}
      Read(ns) == {at \in Of(ns) : IsRead(ItemAt(at))}
  IN  IF \E i \in DOMAIN entries : \E j \in DOMAIN entries[i].items : entries[i].items[j] = Garbage
      THEN [ns \in {} |-> <<>>]
      ELSE [ns \in names |-> [at \in Read(ns) |-> ItemAt(at)]]

Digest(alg, item) == <<alg, item>>

ItemIsSigned(ns, item, mso) ==
  /\ item.digestID \in DOMAIN mso.valueDigests[ns]
  /\ mso.valueDigests[ns][item.digestID] = Digest(mso.digestAlgorithm, item)

\* insert_no_shadow over a set of elements: equal values repeat, others clash.
NoShadow(elements) == \A e, f \in elements : e.ns = f.ns /\ e.id = f.id => e.value = f.value

Elements(raw) ==
  UNION {{[ns |-> ns, id |-> raw[ns][i].identifier, value |-> raw[ns][i].value] : i \in DOMAIN raw[ns]}
         : ns \in DOMAIN raw}

\* verify_value_digests, over the raw items found at the document's position.
ValueDigestsVerdict(doc, raw) ==
  IF \/ doc.nameSpaces = Garbage \/ Mso(doc).valueDigests = Garbage THEN "MalformedCredential"
  ELSE IF /\ \A i \in DOMAIN doc.nameSpaces :
               LET ns == doc.nameSpaces[i].ns IN
               /\ ns \in DOMAIN Mso(doc).valueDigests
               /\ ns \in DOMAIN raw /\ Cardinality(DOMAIN raw[ns]) = Len(doc.nameSpaces[i].items)
               /\ \A j, k \in DOMAIN raw[ns] : raw[ns][j].digestID = raw[ns][k].digestID => j = k
               /\ \A j \in DOMAIN raw[ns] : ItemIsSigned(ns, raw[ns][j], Mso(doc))
          /\ NoShadow(Elements(raw))
  THEN "ok" ELSE "DisclosureIntegrity"

-----------------------------------------------------------------------------
(* One document *)

Sign1Verdict(sign1) ==
  IF sign1 \in {Absent, Garbage} \/ ~CritUnderstood(sign1) THEN "MalformedCredential" ELSE "ok"

DocChain(doc) == doc.issuerAuth.x5chain

\* The object's own docType may ask for a role; without one the caller's stands.
DocRole(doc, caller) ==
  IF Mso(doc).docType = Absent THEN caller ELSE ReconcileRole(caller, Mso(doc).docType)

Signed(doc) == ParseRfc3339(Mso(doc).validityInfo.signed)

\* parse_validity_info: nothing is signed in the future or after it begins to be valid.
ValidityInfoVerdict(doc, now) ==
  LET info == Mso(doc).validityInfo IN
  IF info = Absent \/ Garbage \in {ParseRfc3339(info.signed), ParseRfc3339(info.from), ParseRfc3339(info.until)}
  THEN "MalformedCredential"
  ELSE IF Signed(doc) > now \/ Signed(doc) > ParseRfc3339(info.from) THEN "Tamper" ELSE "ok"

\* verify_issuer_signed, up to the trust anchors.
MdocBeforeTrust(doc, caller, now) ==
  IF doc.docType = Absent \/ Sign1Verdict(doc.issuerAuth) # "ok" THEN "MalformedCredential"
  ELSE IF Mso(doc) = Garbage \/ DocChain(doc) \in {Absent, Garbage, <<>>} THEN "MalformedCredential"
  ELSE IF doc.issuerAuth.alg # "ES256" \/ ~IsSignedUnder(DocChain(doc)[1], doc.issuerAuth.by) THEN "Tamper"
  ELSE IF DocRole(doc, caller) = "mismatch" THEN "RoleMismatch"
  ELSE ValidityInfoVerdict(doc, now)

\* enforce_validity: both ends inclusive.
MdocBeforeStatus(doc, now) ==
  IF Mso(doc).digestAlgorithm \notin DigestAlgorithms THEN "MalformedCredential"
  ELSE IF \/ now < ParseRfc3339(Mso(doc).validityInfo.from)
          \/ now > ParseRfc3339(Mso(doc).validityInfo.until)
  THEN "Expired" ELSE "ok"

\* What a device signature is over (build_device_authentication).
DeviceAuthentication(transcript, doc) == <<transcript, doc.docType, doc.deviceSigned.nameSpaces>>

\* Mutant: the device signature is not tied to the session.
AnySession(doc, transcript) ==
  IF doc.deviceSigned = Absent THEN "MalformedCredential"
  ELSE IF doc.deviceSigned.signature = Absent THEN "HolderBinding"
  ELSE IF transcript = Absent THEN "MissingRequestBinding"
  ELSE IF Sign1Verdict(doc.deviceSigned.signature) # "ok" \/ ~IsValue(doc.deviceSigned.nameSpaces)
          \/ transcript = Garbage THEN "MalformedCredential"
  ELSE IF doc.deviceSigned.signature.by # Mso(doc).deviceKey THEN "HolderBinding"
  ELSE "ok"

\* verify_device_binding, deviceAuth being the signature.
DeviceBindingVerdict(doc, transcript) ==
  IF doc.deviceSigned = Absent THEN "MalformedCredential"
  ELSE IF doc.deviceSigned.signature = Absent THEN "HolderBinding"
  ELSE IF transcript = Absent THEN "MissingRequestBinding"
  ELSE IF Sign1Verdict(doc.deviceSigned.signature) # "ok" \/ ~IsValue(doc.deviceSigned.nameSpaces)
          \/ transcript = Garbage THEN "MalformedCredential"
  ELSE IF LET s == doc.deviceSigned.signature IN
          \/ ~s.detached \/ s.alg # "ES256" \/ s.by # Mso(doc).deviceKey
          \/ s.over # DeviceAuthentication(transcript, doc) THEN "HolderBinding"
  ELSE "ok"

MdocAfterStatus(doc, raw, transcript) ==
  IF Mso(doc).docType # doc.docType THEN "Tamper"
  ELSE IF ValueDigestsVerdict(doc, raw) # "ok" THEN ValueDigestsVerdict(doc, raw)
  ELSE IF ~IsValue(Mso(doc).deviceKey) THEN "MalformedCredential"
  ELSE DeviceBindingVerdict(doc, transcript)

\* The category the qualified gate reads, an element of its own namespace.
CategoryNamespace == "qeaa"
MdocCategory(doc) ==
  LET found == {e \in Elements(RawItems(doc)) : e.ns = CategoryNamespace /\ e.id = "category"}
  IN  IF found = {} THEN Absent ELSE (CHOOSE e \in found : TRUE).value

\* device_binding_machinery_sound: the device signature is there and well formed, whatever it is over.
MachineryIsSound(doc) ==
  /\ Sign1Verdict(doc.issuerAuth) = "ok" /\ Mso(doc) # Garbage /\ IsValue(Mso(doc).deviceKey)
  /\ doc.deviceSigned # Absent
  /\ Sign1Verdict(doc.deviceSigned.signature) = "ok"
  /\ doc.deviceSigned.signature.alg = "ES256" /\ doc.deviceSigned.signature.formed
==============================================================================
