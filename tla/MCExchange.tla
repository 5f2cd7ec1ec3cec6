------------------------------ MODULE MCExchange ------------------------------
(* One holder, an SD-JWT VC with a nested disclosure and an mdoc with one name in two namespaces,
   two requests.  The issuer's certificate is an anchor itself: paths are searched in MCVerifier. *)
EXTENDS Exchange, MCCredentials

MCCerts == {Leaf0, CaA}
MCOffers == {[format |-> f, code |-> "code", txCode |-> Absent, configuration |-> f] : f \in Formats}
MCBackends == {[kind |-> "None"], [kind |-> "Http", issuer |-> "issuer"]}

Street == Disclosure("dStreet", "street", Scalar("s"))
Address == Disclosure("dAddress", "address", Object([k \in {} |-> Absent], <<"dStreet">>))
SdJwt ==
  [PlainSdJwt EXCEPT !.jws.tree = Object([Without(ClaimsOf("urn:pid"), "exp") EXCEPT !["cnf"] = Scalar(Absent)] @@
                                        [n \in {"status"} |-> Scalar([list |-> [idx |-> 0, uri |-> "u"]])],
                                        <<"dAge", "dAddress">>),
                     !.disclosures = <<Age, Address, Street>>, !.kb = Absent]
OtherAge == Item(3, "age", "years")
Mdoc2 ==
  LET d == DocOf("eaa") IN
  [d EXCEPT !.nameSpaces = <<[ns |-> "qeaa", items |-> Items], [ns |-> "other", items |-> <<OtherAge>>]>>,
            !.issuerAuth.mso.validityInfo.until = After(30),
            !.issuerAuth.mso.deviceKey = Absent,
            !.issuerAuth.mso.valueDigests = @ @@ [ns \in {"other"} |-> [id \in {3} |-> <<"SHA-256", OtherAge>>]],
            !.deviceSigned.signature = Absent]
MCTemplates == [f \in Formats |-> IF f = "SdJwtVc" THEN SdJwt ELSE Response(<<Mdoc2>>)]

AgeEntry == Entry("a", "SdJwtVc", {"urn:pid"}, <<ClaimOf("c", <<Key("age")>>)>>)
EaaEntry == Entry("b", "Mdoc", {"eaa"}, <<ClaimOf("c", <<Key("qeaa"), Key("age")>>)>>)
\* Both; either of them, or several of the first.
Both == Query(<<AgeEntry, EaaEntry>>)
Either ==
  [credentials |-> <<[AgeEntry EXCEPT !.multiple = TRUE], EaaEntry>>,
   sets |-> <<[options |-> {{}, {"a"}, {"b"}}, required |-> TRUE], [options |-> {{"a", "b"}}, required |-> FALSE]>>]
MCRequests == {Request(Both), [Request(Either) EXCEPT !.nonce = "n2"]}
MCSelections ==
  [f \in Formats |-> IF f = "SdJwtVc" THEN {{<<"age">>}, {<<"address">>}, {<<"cnf">>}}
                     ELSE {{}, {<<"qeaa", "age">>}}]
MCTimes == {Now, Now + 3}
MCHostAnchors ==
  <<[role |-> "Pid", format |-> "SdJwtVc", cert |-> Leaf0], [role |-> "NonQualifiedEaa", format |-> "Mdoc", cert |-> Leaf0],
    [role |-> "Pid", format |-> "Mdoc", cert |-> Leaf0]>>
MCStatusAnswers == {Absent, <<0>>, <<1>>}
===============================================================================
