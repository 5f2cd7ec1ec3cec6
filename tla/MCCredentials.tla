----------------------------- MODULE MCCredentials -----------------------------
(***************************************************************************)
(* The world of the verifier's runs: a public key infrastructure of two     *)
(* roots, the credentials its issuers sign, and what goes wrong with them.  *)
(* The verification time is 1972-03-01T00:00:00Z.                           *)
(***************************************************************************)
EXTENDS Disclosures

Now == 790 * 86400

Dn(n)  == [type |-> "dn", id |-> n]
Dns(n) == [type |-> "dns", id |-> n]
Cert(subject, issuer) ==
  [subject |-> Dn(subject), issuer |-> Dn(issuer), key |-> subject, by |-> issuer,
   alg |-> "EcdsaP256Sha256", inner |-> "EcdsaP256Sha256", from |-> Now - 50, to |-> Now + 50,
   ca |-> "critical", pathLen |-> Absent, ku |-> {"keyCertSign"}, eku |-> Absent, qc |-> {},
   crit |-> FALSE, san |-> {}, nc |-> Absent]
Signer(subject, issuer) ==
  [Cert(subject, issuer) EXCEPT !.ca = "none", !.ku = {"digitalSignature"}, !.eku = {"mdlDS"},
                                !.qc = {"QctPid"}, !.san = {Dns("x")}]

RootR == Cert("R", "R")
RootS == Cert("S", "S")
CaA   == Cert("A", "R")
Leaf0 == Signer("leaf", "A")
Roots == <<RootR, RootS>>

\* A cross-signed hierarchy: A and B certify each other, both are certified by R.
ByB == Cert("A", "B")
BByR == Cert("B", "R")
Subtree(t, names) == [type |-> t, names |-> names, ranged |-> FALSE]
Permits(S) == [permitted |-> S, excluded |-> {}]
Intermediates ==
  {CaA, ByB, BByR, Cert("B", "A"), Cert("A", "A"),
   [CaA EXCEPT !.to = Now - 1], [BByR EXCEPT !.pathLen = 0], [CaA EXCEPT !.ca = "plain"],
   [BByR EXCEPT !.by = "A"],
   [CaA EXCEPT !.nc = [permitted |-> {Subtree("dns", {Dns("x")})}, excluded |-> {Subtree("dn", {Dn("leaf")})}]],
   [ByB EXCEPT !.nc = Permits({Subtree("dns", {Dns("y")}), Subtree("dn", {Dn("leaf")})})],
   [ByB EXCEPT !.crit = TRUE], [CaA EXCEPT !.inner = "RsaSha256"]}
AnchorLists ==
  {<<RootR>>, <<[RootR EXCEPT !.to = Now - 1], RootR>>, <<Garbage, [RootR EXCEPT !.pathLen = 1]>>,
   <<BByR>>, <<[RootR EXCEPT !.nc = Permits({Subtree("dns", {Dns("x")})})]>>}
SelfIssued == [Leaf0 EXCEPT !.issuer = Dn("leaf"), !.by = "leaf"]
Chains == {<<Leaf0>> \o s : s \in UNION {[1..n -> Intermediates] : n \in 0..2}}
          \union {<<Leaf0, ByB, s, t>> : s, t \in Intermediates}
          \union {<<[Leaf0 EXCEPT !.subject = Dn("A")], s, BByR>> : s \in Intermediates}
          \union {<<[Leaf0 EXCEPT !.san = Unreadable], s>> : s \in Intermediates}
          \union {<<SelfIssued>>, <<SelfIssued, CaA>>, <<Leaf0, Garbage>>}

-----------------------------------------------------------------------------
\* Seconds around the verification time, the leap second among them.
At(second) == [year |-> 1972, month |-> 2, day |-> 29, hour |-> 23, minute |-> 59, second |-> second]
After(second) == [year |-> 1972, month |-> 3, day |-> 1, hour |-> 0, minute |-> 0, second |-> second]
NoSuchDay == [year |-> 1972, month |-> 2, day |-> 30, hour |-> 0, minute |-> 0, second |-> 0]

Disclosure(digest, name, value) == [digest |-> digest, name |-> name, value |-> value]

Request(query) == [audience |-> "rp", nonce |-> "n1", responseUri |-> "uri", query |-> query]
Entry(id, format, types, claims) ==
  [id |-> id, format |-> format, types |-> types, claims |-> claims, claimSets |-> Absent, multiple |-> FALSE]
Key(name) == [kind |-> "key", key |-> name]
ClaimOf(id, path) == [id |-> id, path |-> path, values |-> Absent]
Query(entries) == [credentials |-> entries, sets |-> <<>>]

(* SD-JWT *)
Member(name, v) == [n \in {name} |-> Scalar(v)]
Without(f, name) == [n \in DOMAIN f \ {name} |-> f[n]]
With(f, name, v) == [n \in DOMAIN f \union {name} |-> IF n = name THEN Scalar(v) ELSE f[n]]
ClaimsOf(vct) ==
  [vct |-> Scalar(vct), cnf |-> Scalar("holder"), iat |-> Scalar(2 * Now - 1), exp |-> Scalar(2 * Now + 3),
   category |-> Scalar("eaa-eu-qualified")]
Jws(members, sd) ==
  [segments |-> 3, alg |-> "ES256", crit |-> Absent, typ |-> "dc+sd-jwt", x5c |-> <<Leaf0, CaA>>, by |-> "leaf",
   tree |-> Object(members, sd), sdAlg |-> Absent]
Bound(jws, disclosures) ==
  [jws |-> jws, disclosures |-> disclosures,
   kb |-> [aud |-> "rp", nonce |-> "n1", iat |-> Now, sdHash |-> <<jws, disclosures>>, crit |-> Absent,
           alg |-> "ES256", by |-> "holder"]]
Age  == Disclosure("dAge", "age", Scalar("18"))
Name == Disclosure("dName", "name", Scalar("n"))
PlainSdJwt == Bound(Jws(ClaimsOf("urn:pid"), <<"dAge", "dName">>), <<Age>>)

(* mdoc *)
Item(id, name, v) == [digestID |-> id, identifier |-> name, value |-> v]
AgeItem == Item(1, "age", "18")
CategoryItem == Item(2, "category", "eaa-eu-qualified")
Items == <<AgeItem, CategoryItem>>
MsoOf(docType) ==
  [docType |-> docType, digestAlgorithm |-> "SHA-256", status |-> Absent, deviceKey |-> "holder",
   validityInfo |-> [signed |-> At(58), from |-> At(59), until |-> At(60)],
   valueDigests |-> [ns \in {"qeaa"} |-> [id \in {1, 2} |-> <<"SHA-256", Items[id]>>]]]
Handed == <<"rp", "n1", "uri">>
DeviceSigned(docType, transcript) ==
  [nameSpaces |-> "ns0",
   signature |-> [crit |-> {}, alg |-> "ES256", detached |-> TRUE, by |-> "holder", formed |-> TRUE,
                  over |-> <<transcript, docType, "ns0">>]]
DocOf(docType) ==
  [docType |-> docType,
   issuerAuth |-> [crit |-> {"alg"}, alg |-> "ES256", by |-> "leaf", x5chain |-> <<Leaf0, CaA>>, mso |-> MsoOf(docType)],
   nameSpaces |-> <<[ns |-> "qeaa", items |-> Items]>>,
   deviceSigned |-> DeviceSigned(docType, Handed)]
Response(docs) == [definite |-> TRUE, version |-> "1.0", status |-> 0, documents |-> docs]
==============================================================================
