------------------------------ MODULE MCVerifier ------------------------------
(* Calls of verify: every chain under a plain credential, every presentation with up to two
   faults under a plain chain, every status list, list of services and query. *)
EXTENDS CredentialVerifier, MCCredentials

\* Certificates of issuers, of status lists and of trust lists.
OddLeaves == {[Leaf0 EXCEPT !.to = Now - 1], [Leaf0 EXCEPT !.to = Now - 3],
              [Leaf0 EXCEPT !.eku = Unreadable], [Leaf0 EXCEPT !.ku = {"keyCertSign"}],
              [Leaf0 EXCEPT !.ca = "plain"], [Leaf0 EXCEPT !.san = Unreadable]}
Statements == {{}, {"QctPid"}, {"QcCompliance", "QctEseal"}, Unreadable}
StatusSignerCert == [Signer("T", "A") EXCEPT !.eku = {"statusSigning"}]
StatusSignerChains ==
  {<<StatusSignerCert, CaA>>, <<Signer("T", "A"), CaA>>, <<Leaf0>>, <<Garbage>>,
   <<[Signer("T", "S") EXCEPT !.eku = {"statusSigning"}]>>, <<[StatusSignerCert EXCEPT !.key = "rsa"], CaA>>}
ListSigners == {Signer("L", "S"), Signer("L", "A")}
MCCerts ==
  (Intermediates \union {RootS, [Leaf0 EXCEPT !.subject = Dn("A")], SelfIssued, Signer("leaf2", "A")} \union OddLeaves
   \union {[Leaf0 EXCEPT !.qc = qc] : qc \in Statements} \union {c[1] : c \in StatusSignerChains} \union ListSigners
   \union UNION {Range(a) : a \in AnchorLists}) \ {Garbage}

Lists(pid, other) ==
  [k \in {"Pid", "Qeaa", "NonQualifiedEaa"} \X {"SdJwtVc", "Mdoc"} |->
     IF k = <<"Pid", "SdJwtVc">> THEN pid ELSE IF k[1] = "Pid" THEN pid ELSE other]
Base(format, presentation) ==
  [format |-> format, presentation |-> presentation, role |-> "Pid", now |-> Now, statuses |-> <<"Good">>,
   tokens |-> [u \in {} |-> Absent], transcript |-> Absent, request |-> Request(Absent), audience |-> "rp",
   policy |-> [formats |-> {}, gate |-> FALSE], list |-> Absent, schemeAnchors |-> <<>>,
   anchors |-> [now |-> Now, lists |-> Lists(Roots, Absent)]]
SdJwtJob(p) == Base("SdJwtVc", p)
MdocJob(docs) == Base("Mdoc", Response(docs))
PidDoc == DocOf("pid")

\* A faulty credential whose signature is sound.
Resigned(jws) == Bound(jws, <<Age>>)

-----------------------------------------------------------------------------
ChainJobs ==
  {[SdJwtJob(Resigned([PlainSdJwt.jws EXCEPT !.x5c = c])) EXCEPT !.anchors.lists = Lists(a, Absent)]
   : c \in Chains, a \in AnchorLists}
  \union
  {[MdocJob(<<[PidDoc EXCEPT !.issuerAuth.x5chain = c]>>) EXCEPT !.anchors.lists = Lists(<<RootR>>, Absent)]
   : c \in {<<l, CaA>> : l \in OddLeaves}}
  \union
  {[SdJwtJob(Resigned([Jws(ClaimsOf(t), <<"dAge", "dName">>) EXCEPT !.x5c = <<[Leaf0 EXCEPT !.qc = qc], CaA>>]))
      EXCEPT !.role = r, !.anchors.lists = Lists(<<RootR>>, <<RootR, RootS>>)]
   : t \in {"urn:pid", "urn:eaa", "short"}, r \in {"Pid", "Qeaa", "NonQualifiedEaa"},
     qc \in Statements}

\* One fault of the JWS, one of the binding, and the claims they are about.
JwsFaults ==
  LET j == PlainSdJwt.jws IN
  {j, [j EXCEPT !.segments = 2], [j EXCEPT !.alg = "none"], [j EXCEPT !.crit = {"b64"}], [j EXCEPT !.typ = "jwt"],
   [j EXCEPT !.x5c = Absent], [j EXCEPT !.by = "mallory"], [j EXCEPT !.sdAlg = "md5"],
   [j EXCEPT !.tree.members = Without(@, "cnf")], [j EXCEPT !.tree.members = Without(@, "exp")]}
  \union {[j EXCEPT !.tree.members = With(@, name, v)]
          : name \in {"exp", "nbf", "iat"}, v \in {2 * Now - 1, 2 * Now, 2 * Now + 1, 2 * MaxI64 + 1, Garbage}}
KbFaults(p) ==
  {[p EXCEPT !.kb = Absent], [p EXCEPT !.kb.aud = "other"], [p EXCEPT !.kb.nonce = "n2"],
   [p EXCEPT !.kb.sdHash = <<p.jws, <<Name>>>>], [p EXCEPT !.kb.by = "mallory"], [p EXCEPT !.kb.crit = {"x"}],
   [p EXCEPT !.disclosures = <<Name>>]}
  \union {[p EXCEPT !.kb.iat = Now + d] : d \in {-KbSkew - 1, -KbSkew, KbSkew, KbSkew + 1}}
SdJwtJobs ==
  LET presentations == {Garbage} \union UNION {{Resigned(j)} \union KbFaults(Resigned(j)) : j \in JwsFaults}
  IN  {[SdJwtJob(p) EXCEPT !.request = r] : p \in presentations, r \in {Absent, Request(Absent)}}
      \union {[SdJwtJob(PlainSdJwt) EXCEPT !.policy.formats = {"Mdoc"}],
              [SdJwtJob(PlainSdJwt) EXCEPT !.statuses = <<>>], [SdJwtJob(PlainSdJwt) EXCEPT !.now = @ + 1]}

\* Trees and disclosures: nested, in arrays, repeated, unused, clashing.
Street == Disclosure("dStreet", "street", Scalar("s"))
Address == Disclosure("dAddress", "address", Object([k \in {} |-> Absent], <<"dStreet">>))
Element == Disclosure("dElement", Absent, Scalar("e"))
SecondAge == Disclosure("dAge2", "age", Scalar("21"))
Reserved == Disclosure("dName", "_sd", Scalar("n"))
Algorithm == Disclosure("dName", "name", Plain(Member("_sd_alg", "md5")))
Pool == {Age, SecondAge, Name, Reserved, Algorithm, Street, Address, Element}
Extra(name, v) == [n \in {name} |-> v]
Trees ==
  {Object(ClaimsOf("urn:pid"), sd) : sd \in {<<>>, <<"dAge">>, <<"dAge", "dName">>, <<"dAge", "dAge2">>,
                                            <<"dAddress">>, <<"dAge", "dAge">>, <<Garbage>>}}
  \union {Object(ClaimsOf("urn:pid") @@ m, sd) : sd \in {<<>>, <<"dAge">>, <<"dAddress">>},
          m \in {Extra("address", Object(Member("country", "c"), <<"dStreet">>)),
                 Extra("address", Object(Member("country", "c"), <<"dAge", "dAge2">>)),
                 Extra("list", Array(<<Redacted("dElement"), Scalar("f")>>)),
                 Extra("list", Array(<<[Redacted("dElement") EXCEPT !.alone = FALSE]>>)),
                 Extra("list", Array(<<Redacted("dAge")>>)), Extra("age", Scalar("17"))}}
DisclosureJobs ==
  {SdJwtJob(Bound([PlainSdJwt.jws EXCEPT !.tree = t], D))
   : t \in Trees, D \in UNION {[1..n -> Pool] : n \in 0..2}}

-----------------------------------------------------------------------------
DocFaults ==
  LET d == PidDoc
      m == PidDoc.issuerAuth.mso
      Resign(mso) == [d EXCEPT !.issuerAuth.mso = mso]
      Time(field, v) == Resign([m EXCEPT !.validityInfo = [@ EXCEPT ![field] = v]])
      Present(items) == [d EXCEPT !.nameSpaces = <<[ns |-> "qeaa", items |-> items]>>]
  IN  {d, [d EXCEPT !.docType = Absent], [d EXCEPT !.docType = "eaa"], [d EXCEPT !.issuerAuth.crit = {"x"}],
       [d EXCEPT !.issuerAuth.alg = "ES384"], [d EXCEPT !.issuerAuth.by = "mallory"],
       [d EXCEPT !.issuerAuth.x5chain = <<>>], Resign(Garbage), Resign([m EXCEPT !.docType = Absent]),
       Resign([m EXCEPT !.validityInfo = Absent]), Resign([m EXCEPT !.digestAlgorithm = "MD5"]),
       Resign([m EXCEPT !.deviceKey = Absent]), Resign([m EXCEPT !.valueDigests = Garbage]),
       [d EXCEPT !.nameSpaces = Garbage], [d EXCEPT !.nameSpaces = <<>>], Present(<<AgeItem>>),
       Present(<<Garbage>>), Present(<<AgeItem, AgeItem>>), Present(<<Item(1, "age", "21")>>),
       Present(<<Item(3, "age", "21")>>), Present(<<Item(Garbage, "age", "18")>>),
       [d EXCEPT !.nameSpaces = <<[ns |-> "other", items |-> Items]>>],
       [d EXCEPT !.nameSpaces = <<[ns |-> "qeaa", items |-> <<AgeItem>>], [ns |-> "qeaa", items |-> <<CategoryItem>>]>>],
       [d EXCEPT !.nameSpaces = <<[ns |-> "qeaa", items |-> <<AgeItem>>],
                                  [ns |-> "qeaa", items |-> <<Item(Garbage, "category", "none")>>]>>],
       [d EXCEPT !.deviceSigned = Absent], [d EXCEPT !.deviceSigned.signature = Absent],
       [d EXCEPT !.deviceSigned.signature = Garbage], [d EXCEPT !.deviceSigned.nameSpaces = Garbage],
       [d EXCEPT !.deviceSigned.signature.detached = FALSE], [d EXCEPT !.deviceSigned.signature.by = "mallory"],
       [d EXCEPT !.deviceSigned.signature.formed = FALSE, !.deviceSigned.signature.by = "mallory"],
       [d EXCEPT !.deviceSigned.signature.over = <<<<"rp", "n2", "uri">>, "pid", "ns0">>]}
      \union {Time(f, v) : f \in {"signed", "from", "until"},
              v \in {At(58), At(59), At(60), After(0), After(1), NoSuchDay}}
MdocJobs ==
  LET Shown(d, items) == [d EXCEPT !.nameSpaces = <<[ns |-> "qeaa", items |-> items]>>]
      pairs == {<<d, e>> : d \in {PidDoc, Shown(PidDoc, <<CategoryItem>>), [PidDoc EXCEPT !.nameSpaces = <<>>]},
                           e \in {PidDoc, Shown(PidDoc, <<AgeItem>>), DocOf("eaa"),
                                  [PidDoc EXCEPT !.deviceSigned.signature.by = "mallory"],
                                  [PidDoc EXCEPT !.nameSpaces[1].items[1].value = "21",
                                    !.issuerAuth.mso.valueDigests["qeaa"][1] = <<"SHA-256", Item(1, "age", "21")>>]}}
  IN  {[MdocJob(<<d>>) EXCEPT !.request = r, !.transcript = t]
       : d \in DocFaults, r \in {Absent, Request(Absent)}, t \in {Absent, Garbage, Handed}}
      \union {[MdocJob(docs) EXCEPT !.statuses = s, !.anchors.lists = Lists(Roots, Roots)]
              : docs \in pairs, s \in {<<>>, <<"Good">>, <<"Good", "NoStatus">>, <<"NoStatus", "Revoked">>,
                                       <<"Untrusted", "Good">>}}
      \union {[MdocJob(<<PidDoc>>) EXCEPT !.audience = a] : a \in {Absent, "other"}}
      \union {[MdocJob(<<PidDoc>>) EXCEPT !.presentation = p]
              : p \in {Garbage, [Response(<<PidDoc>>) EXCEPT !.definite = FALSE], [Response(<<>>) EXCEPT !.version = "1.0"],
                       [Response(<<PidDoc>>) EXCEPT !.status = 10]}}

-----------------------------------------------------------------------------
\* Status lists: entries of every width at both ends of a byte and of the list.
Token(uri, bits, lst) ==
  [form |-> "jwt", typ |-> "statuslist+jwt", alg |-> "ES256", crit |-> Absent, x5c |-> Absent, by |-> "leaf",
   sub |-> uri, iat |-> 2 * Now - 5, exp |-> Absent, ttl |-> Absent, bits |-> bits, lst |-> lst]
Listed(idx) == With(ClaimsOf("urn:pid"), "status", [list |-> [idx |-> idx, uri |-> "u"]])
ListedSdJwt(idx) == Resigned(Jws(Listed(idx), <<"dAge">>))
WithToken(j, token) == [j EXCEPT !.tokens = [u \in {"u"} |-> token]]
Tokens ==
  LET t == Token("u", 1, <<254>>) IN
  {t, Garbage, [t EXCEPT !.typ = "jwt"], [t EXCEPT !.alg = "none"], [t EXCEPT !.crit = {"alg"}], [t EXCEPT !.sub = "v"],
   [t EXCEPT !.by = "mallory"], [t EXCEPT !.bits = 3], [t EXCEPT !.lst = Unreadable],
   [t EXCEPT !.form = "cwt", !.typ = "application/statuslist+cwt", !.crit = {"alg"}],
   [t EXCEPT !.form = "cwt", !.typ = "application/statuslist+cwt", !.x5c = <<>>]}
  \union {[t EXCEPT !.iat = i, !.exp = e, !.ttl = l]
          : i \in {2 * Now - 5, 2 * MaxI64}, e \in {Absent, 2 * Now - 1, 2 * Now, 2 * Now + 1},
            l \in {Absent, -1, 1, 2, 3, 4, 5, 2 * MaxI64}}
  \union {[t EXCEPT !.x5c = c, !.by = k]
          : c \in StatusSignerChains, k \in {"T", "leaf"}}
StatusJobs ==
  {WithToken(SdJwtJob(ListedSdJwt(idx)), Token("u", bits, lst))
   : idx \in {0, 1, 3, 4, 7, 8, 15, MaxU64}, bits \in {1, 2, 4, 8}, lst \in {<<>>, <<0>>, <<225, 6>>, <<16, 127>>}}
  \union {WithToken(SdJwtJob(ListedSdJwt(0)), t) : t \in Tokens}
  \union {[SdJwtJob(Resigned(Jws(With(ClaimsOf("urn:pid"), "status", c), <<"dAge">>))) EXCEPT !.statuses = s]
          : c \in {[list |-> Absent], [list |-> [idx |-> Absent, uri |-> "u"]], [list |-> [idx |-> 0, uri |-> "u"]]},
            s \in {<<>>, <<"Good">>, <<"NoStatus">>, <<"Revoked">>, <<"Unavailable">>}}

\* The qualified gate: services that match by certificate, key or issuer, and do not.
Service(type, cert, ski, history) == [type |-> type, cert |-> cert, ski |-> ski, history |-> history]
Granted(t) == [status |-> "granted", start |-> t]
Withdrawn(t) == [status |-> "withdrawn", start |-> t]
Services ==
  {Service(type, cert, ski, h)
   : type \in {"EAA/Q", "CA/QC"}, cert \in {Absent, Leaf0, CaA, [RootS EXCEPT !.subject = Dn("A")]},
     ski \in {Absent, "leaf", "S"},
     h \in {<<Granted(At(58))>>, <<Granted(After(0))>>, <<Withdrawn(At(58)), Granted(At(57))>>,
            <<Granted(At(57)), Withdrawn(At(59))>>, <<Withdrawn(At(57)), Granted(At(57))>>}}
ListOf(services) == [nextUpdate |-> After(1), signer |-> Signer("L", "S"), services |-> services]
Gated(j, list) ==
  [j EXCEPT !.policy.gate = TRUE, !.schemeAnchors = <<RootS>>, !.list = ParseList(list)]
GateJobs ==
  LET Dated(t) == SdJwtJob(Resigned([PlainSdJwt.jws EXCEPT !.tree.members = With(@, "iat", t)]))
      good == Service("EAA/Q", Leaf0, Absent, <<Granted(At(57))>>)
      two  == [MdocJob(<<PidDoc, [PidDoc EXCEPT !.issuerAuth.x5chain = <<Signer("leaf2", "A"), CaA>>,
                                                 !.issuerAuth.by = "leaf2"]>>) EXCEPT !.statuses = <<"Good", "Good">>]
  IN  {Gated(j, ListOf({s})) : s \in Services, j \in {Dated(2 * (Now - 1) + 1), MdocJob(<<PidDoc>>)}}
      \union {Gated(two, ListOf(S)) : S \in {{}, {good}, {good, Service("EAA/Q", Absent, "leaf2", <<Granted(At(57))>>)},
                                            {Service("EAA/Q", CaA, Absent, <<Granted(At(57))>>)}}}
      \union {Gated(Dated(2 * Now - 1), l)
              : l \in {Absent, [ListOf({good}) EXCEPT !.nextUpdate = After(0)], [ListOf({good}) EXCEPT !.nextUpdate = NoSuchDay],
                       [ListOf({good}) EXCEPT !.signer = Absent], [ListOf({good}) EXCEPT !.signer = Signer("L", "A")]}}

\* Queries a single presentation is held against.
QueryJobs ==
  LET claims == {Absent, Garbage, <<>>, <<ClaimOf("a", <<Key("age")>>)>>, <<ClaimOf("q", <<Key("qeaa"), Key("age")>>)>>}
      entries == {Entry("i", f, t, c) : f \in {"SdJwtVc", "Mdoc", "other"}, t \in {Absent, {}, {"urn:pid", "pid"}, {"eaa"}},
                                        c \in claims}
  IN  {[j EXCEPT !.request.query = q] : q \in {Garbage, Query(<<>>)} \union {Query(<<e>>) : e \in entries},
                                        j \in {SdJwtJob(PlainSdJwt), MdocJob(<<PidDoc>>)}}

MCJobs == ChainJobs \union SdJwtJobs \union DisclosureJobs \union MdocJobs \union StatusJobs \union GateJobs \union QueryJobs
==============================================================================
