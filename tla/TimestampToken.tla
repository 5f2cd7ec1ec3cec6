--------------------------- MODULE TimestampToken ---------------------------
(***************************************************************************)
(* What the timestamp client reads of a token, byte by byte (timestamp):    *)
(* SigningCore takes it that a token made for a query is known by its nonce *)
(* and its imprint, this module is why.  A reader returns the set of the    *)
(* one value it reads, the empty set for None.                              *)
(***************************************************************************)
EXTENDS Integers, Sequences
LOCAL INSTANCE SequencesExt

TagInteger == 2
TagOid == 6
TagGeneralizedTime == 24
TagSequence == 48

From(b, i) == SubSeq(b, i, Len(b))
Slice(b, first, n) == IF first + n - 1 > Len(b) THEN {} ELSE {SubSeq(b, first, first + n - 1)}

-----------------------------------------------------------------------------
\* The DER that the der crate writes, and its Uint: canonical, never negative.
DerLen(n) ==
  IF n < 128 THEN <<n>> ELSE IF n < 256 THEN <<129, n>> ELSE <<130, n \div 256, n % 256>>

Tlv(tag, content) == <<tag>> \o DerLen(Len(content)) \o content

WithoutZeros(b) ==
  LET kept == {i \in DOMAIN b : b[i] # 0 \/ i = Len(b)}
  IN  From(b, CHOOSE i \in kept : \A j \in kept : i <= j)

UintToDer(b) ==
  LET magnitude == WithoutZeros(b)
  IN  Tlv(TagInteger, IF magnitude[1] >= 128 THEN <<0>> \o magnitude ELSE magnitude)

-----------------------------------------------------------------------------
\* The readers of timestamp.
ReadDerLen(b) ==
  IF b = <<>> THEN {}
  ELSE IF b[1] < 128 THEN {[content |-> b[1], field |-> 1]}
  ELSE LET n == b[1] % 128
       IN  {[content |-> FoldLeft(LAMBDA len, byte : len * 256 + byte, 0, bytes), field |-> 1 + n] :
              bytes \in IF n \in 1..4 THEN Slice(b, 2, n) ELSE {}}

SequenceContent(der) ==
  IF der = <<>> \/ der[1] # TagSequence THEN {}
  ELSE UNION {Slice(der, 2 + l.field, l.content) : l \in ReadDerLen(From(der, 2))}

FirstTlv(der) == UNION {Slice(der, 1, 1 + l.field + l.content) : l \in ReadDerLen(From(der, 2))}

FirstTlvWithTag(der, tag) ==
  LET found[i \in 1..(Len(der) + 1)] ==
        UNION {IF tlv[1] = tag THEN {tlv} ELSE found[i + Len(tlv)] :
                 tlv \in FirstTlv(From(der, i))}
  IN  found[1]

\* Uint::from_der refuses a negative number, padding, and a length written longer than it need be.
UintFromDer(tlv) ==
  UNION {LET b == From(tlv, 2 + l.field)
         IN  IF \/ b = <<>> \/ b[1] >= 128 \/ l.field # Len(DerLen(l.content))
                \/ b[1] = 0 /\ Len(b) > 1 /\ b[2] < 128
             THEN {} ELSE {WithoutZeros(b)} : l \in ReadDerLen(From(tlv, 2))}

IsPositive(b) == \E i \in DOMAIN b : b[i] # 0

\* Mutant: the nonce keeps its leading zeros.
NonceUncut(digest) == IF IsPositive(digest) THEN digest ELSE <<1>>

NonceFromEntropy(digest) == IF IsPositive(digest) THEN WithoutZeros(digest) ELSE <<1>>

\* The nonce of build_request, {} for InvalidNonce.
RequestNonce(nonce) == IF IsPositive(nonce) THEN {UintToDer(nonce)} ELSE {}

TokenTstInfo(token) ==
  IF token.contentType = "signed-data" /\ token.econtentType = "tst-info" THEN {token.econtent} ELSE {}

\* The fields of a TSTInfo, for each TSTInfo there is.
Fields(token) == UNION {SequenceContent(info) : info \in TokenTstInfo(token)}

\* What is left after version, policy, messageImprint, serialNumber and genTime.
AfterGenTime(fields) ==
  LET skip(rests, tag) ==
        UNION {{From(rest, Len(tlv) + 1) : tlv \in {t \in FirstTlv(rest) : t[1] = tag}} : rest \in rests}
  IN  FoldLeft(skip, {fields},
               <<TagInteger, TagOid, TagSequence, TagInteger, TagGeneralizedTime>>)

ParseNonce(token) ==
  LET integers == UNION {FirstTlvWithTag(rest, TagInteger) : rest \in UNION {AfterGenTime(f) : f \in Fields(token)}}
  IN  {nonce \in UNION {UintFromDer(tlv) : tlv \in integers} : IsPositive(nonce)}

\* Decoding the MessageImprint and the digits of genTime is left to their TLVs.
ParseMessageImprint(token) == UNION {FirstTlvWithTag(f, TagSequence) : f \in Fields(token)}
ParseGenTime(token) == UNION {FirstTlvWithTag(f, TagGeneralizedTime) : f \in Fields(token)}

-----------------------------------------------------------------------------
\* A TSA, outside the code: RFC 3161 fixes the order of the fields; nonce is a TLV or <<>>.
Issue(form, nonce) ==
  [contentType |-> "signed-data", econtentType |-> "tst-info",
   econtent |-> Tlv(TagSequence,
     form.version \o form.policy \o form.imprint \o form.serial \o form.genTime
     \o form.accuracy \o form.ordering \o nonce \o form.tsa)]

(* A token issued for a query reads back the nonce the query was sent with, its imprint and its
   time; one that echoes no nonce reads none (parse_nonce, parse_message_imprint, parse_gen_time).
   digest is what nonce_from_entropy keeps of a hash, form the other fields of a TSTInfo as TLVs. *)
ReadsBack(digest, form) ==
  LET nonce == NonceFromEntropy(digest) IN
  /\ RequestNonce(nonce) # {}
  /\ \A asked \in RequestNonce(nonce) :
       /\ ParseNonce(Issue(form, asked)) = {nonce}
       /\ ParseMessageImprint(Issue(form, asked)) = {form.imprint}
       /\ ParseGenTime(Issue(form, asked)) = {form.genTime}
  /\ ParseNonce(Issue(form, <<>>)) = {}
=============================================================================
