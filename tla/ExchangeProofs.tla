---------------------------- MODULE ExchangeProofs ----------------------------
(***************************************************************************)
(* Proofs about Exchange: that what a verifier accepts for a request was    *)
(* made for it by the holder, that a vp_token satisfies a query by such     *)
(* presentations only, and that these show what the holder selected. The    *)
(* invariant follows the holder's key from its proof of possession into the *)
(* attestation, from there into every presentation, and with the request's  *)
(* nonce to the verifier, whose own invariant is kept since every call it   *)
(* gets here is one it may get.                                             *)
(***************************************************************************)
EXTENDS Exchange, VerifierProofs

(* The holder's side *)

\* An attestation an issuer has made out to the holder.
IsIssued(a) == a.format \in Formats /\ a.presentation = Issue(a.format, HolderKey)

\* The proof of possession names the holder's key, and so does the credential request it is sent with.
SessionInv ==
  session # Absent =>
    /\ {"phase", "backend", "holder", "offer", "now", "token", "pop"} \subseteq DOMAIN session
    /\ session.holder = [jwk |-> HolderKey] /\ session.offer \in Offers /\ session.phase \in Phases
    /\ session.phase = "ProofPending" => session.pop.over.jwk = HolderKey
EffectInv ==
  session # Absent /\ asked.kind = "PerformHttp" =>
    /\ asked.endpoint \in {"token", "nonce", "credential"}
    /\ asked.endpoint = "credential" => asked.content.proof.payload.jwk = HolderKey
HeldInv == \A a \in held : IsIssued(a)

\* A presentation that awaits its signature was prepared of an attestation, for a request.
DraftInv ==
  draft # Absent =>
    /\ draft.request \in Requests
    /\ \E a \in held : draft.prepared = PreparePresent(a, draft.request, draft.disclose, PresentedAt)

\* What binds a presentation: the key it is bound to, the key it is signed with, the request it is signed for.
IsBoundSdJwt(p, key, request) ==
  /\ IsSdJwt(p) /\ Claim(p, "cnf") = HolderKey
  /\ p.kb.by = key /\ p.kb.aud = request.audience /\ p.kb.nonce = request.nonce
IsBoundMdoc(resp, key, request) ==
  /\ IsMdocResponse(resp) /\ Len(resp.documents) = 1 /\ DOMAIN resp.documents = {1}
  /\ LET d == resp.documents[1] IN
       /\ Mso(d).deviceKey = HolderKey /\ d.deviceSigned.signature.by = key
       /\ d.deviceSigned.signature.over[1] = Handover(request)
IsBound(m) ==
  /\ {"format", "presentation", "audience"} \subseteq DOMAIN m.slot /\ m.slot.format \in Formats /\ m.request \in Requests
  /\ IF m.slot.format = "SdJwtVc" THEN IsBoundSdJwt(m.slot.presentation, m.by, m.request)
     ELSE IsBoundMdoc(m.slot.presentation, m.by, m.request)
MadeInv == \A m \in made : IsBound(m)

WalletInv == SessionInv /\ EffectInv /\ HeldInv /\ DraftInv /\ MadeInv

-----------------------------------------------------------------------------
(* The verifier's side *)

\* A slot that holds a presentation somebody made.
IsMade(slot) == \E m \in made : slot.format = m.slot.format /\ slot.presentation = m.slot.presentation
\* The places of a vp_token.
SlotsOf(token) == UNION {{<<id, i>> : i \in DOMAIN token[id]} : id \in DOMAIN token}
SetInv ==
  set # Absent =>
    /\ set.request \in Requests /\ set.now = PresentedAt /\ set.role \in Roles
    /\ set.anchors = AnchorsFromWire(HostAnchors, PresentedAt)
    /\ \A place \in SlotsOf(set.vpToken) : IsMade(set.vpToken[place[1]][place[2]])
    /\ todo \in Seq(SlotsOf(set.vpToken))
    /\ \A id \in DOMAIN set.statuses : \A i \in DOMAIN set.statuses[id] : set.statuses[id][i] \in Seq(StatusOutcomes)
    /\ DOMAIN set.tokens = {}
\* What is verified was made by somebody, for a request or another; of a vp_token it is the slot at hand.
CallInv ==
  stage # "idle" =>
    /\ job.request \in Requests /\ IsMade(job)
    /\ set # Absent => todo # <<>> /\ job.request = set.request
                       /\ job.format = Slot.format /\ job.presentation = Slot.presentation

ExchangeInv == VerifierInv /\ PassedInv /\ WalletInv /\ SetInv /\ CallInv
-----------------------------------------------------------------------------
(* What a vp_token is satisfied by *)

\* What a presentation carries of its attestation, for a query to be held against.
Carried(slot) ==
  IF slot.format = "Mdoc" THEN MdocPresented(Elements(RawItems(slot.presentation.documents[1])))
  ELSE SdJwtPresented(slot.presentation)

\* An entry of the query is met by the answer at a place under its id, which is a valid one to the
\* presentation that was sent there: made by the holder for this request, of the entry's type, with its claims.
MetAt(id, i) ==
  LET slot == set.vpToken[id][i] IN
  /\ i \in DOMAIN set.vpToken[id] /\ i \in DOMAIN answers[id] /\ answers[id][i].valid
  /\ Verified(slot.presentation, set.request) # {}
  /\ \E entry \in Asked(SentQuery(set.request), id) :
       QuerySatisfiedBy(entry, slot.format, {TypeOf(slot)}, Carried(slot))
IsMetByHolder(id) ==
  /\ id \in DOMAIN set.vpToken /\ IsAnswerable(SentQuery(set.request), id, set.vpToken[id])
  /\ \E i \in DOMAIN set.vpToken[id] : MetAt(id, i)

\* The places left are of entries that may be answered, those of an id in a row,
\* and the next of them is the next to be answered.
FollowsIn(line, k) == k > 1 /\ line[k - 1][1] = line[k][1]
LineInv ==
  set # Absent =>
    /\ DOMAIN answers = DOMAIN set.vpToken /\ \A id \in DOMAIN answers : IsSequence(answers[id])
    /\ \A k \in DOMAIN todo :
         LET id == todo[k][1] IN
         /\ IsAnswerable(SentQuery(set.request), id, set.vpToken[id])
         /\ IF FollowsIn(todo, k) THEN todo[k][2] = todo[k - 1][2] + 1
            ELSE todo[k][2] = Len(answers[id]) + 1 /\ \A j \in 1..(k - 1) : todo[j][1] # id
MatchedInv == set # Absent => \A id \in matched : IsMetByHolder(id)
OutcomeInv ==
  outcome # Absent /\ outcome.kind = "set" =>
    /\ set # Absent /\ stage = "idle" /\ todo = <<>>
    /\ outcome.satisfied = CredentialSetsSatisfied(SentQuery(set.request), matched)
AnswerInv == LineInv /\ MatchedInv /\ OutcomeInv

-----------------------------------------------------------------------------
(* Sequences *)

\* What a sequence retains, up to each place.
IsRetained(s, S, f, n) ==
  f = [i \in 0..n |-> IF i = 0 THEN <<>> ELSE IF s[i] \in S THEN Append(f[i - 1], s[i]) ELSE f[i - 1]]

LEMMA RetainedExists ==
  ASSUME NEW s, NEW S, NEW n \in Nat
  PROVE  \E f : IsRetained(s, S, f, n)
PROOF
  <1> DEFINE Next1(i, before) == IF s[i] \in S THEN Append(before, s[i]) ELSE before
             T == {i \in 0..n : \E f : IsRetained(s, S, f, i)}
  <1>1. 0 \in T
    <2> DEFINE f == [i \in 0..0 |-> <<>>]
    <2>1. IsRetained(s, S, f, 0)
      BY DEF IsRetained
    <2> QED
      BY <2>1
  <1>2. ASSUME NEW i \in 1..n, i - 1 \in T
        PROVE  i \in T
    <2>1. PICK f : IsRetained(s, S, f, i - 1)
      BY <1>2
    <2> DEFINE last == Next1(i, f[i - 1])
               g == [j \in 0..i |-> IF j < i THEN f[j] ELSE last]
    <2>2. \A j \in 0..(i - 1) : f[j] = IF j = 0 THEN <<>> ELSE Next1(j, f[j - 1])
      BY <2>1 DEF IsRetained
    <2> HIDE DEF last, Next1
    <2>3. \A j \in 0..i : g[j] = IF j = 0 THEN <<>> ELSE Next1(j, g[j - 1])
      <3> TAKE j \in 0..i
      <3>1. CASE j = i
        <4>1. g[j] = last /\ j # 0 /\ g[j - 1] = f[i - 1]
          BY <3>1
        <4> QED
          BY <3>1, <4>1 DEF last
      <3>2. CASE j \in 0..(i - 1)
        <4>1. g[j] = f[j] /\ (j # 0 => g[j - 1] = f[j - 1])
          BY <3>2
        <4> QED
          BY <2>2, <3>2, <4>1
      <3> QED
        BY <3>1, <3>2
    <2>4. g = [j \in 0..i |-> g[j]]
      OBVIOUS
    <2> HIDE DEF g
    <2>5. IsRetained(s, S, g, i)
      BY <2>3, <2>4, Zenon DEF IsRetained, Next1
    <2> QED
      BY <1>2, <2>5
  <1> HIDE DEF T
  <1>3. \A i \in 0..n : i \in T
    BY <1>1, <1>2, CountingUp
  <1> QED
    BY <1>3 DEF T

\* Retain keeps of a sequence what lies in the set, and nothing else.
LEMMA RetainKeeps ==
  ASSUME NEW s, IsSequence(s), NEW S
  PROVE  IsSequence(Retain(s, S)) /\ Range(Retain(s, S)) = Range(s) \intersect S
PROOF
  <1> DEFINE n == Len(s)
             f == CHOOSE g : g = [i \in 0..n |-> IF i = 0 THEN <<>>
                                                  ELSE IF s[i] \in S THEN Append(g[i - 1], s[i]) ELSE g[i - 1]]
             Kept(i) == {s[k] : k \in 1..i} \intersect S
             T == {i \in 0..n : f[i] \in Seq(Kept(i)) /\ \A x \in Kept(i) : \E k \in DOMAIN f[i] : f[i][k] = x}
  <1>1. n \in Nat /\ DOMAIN s = 1..n
    BY DEF IsSequence
  <1>2. \E g : g = [i \in 0..n |-> IF i = 0 THEN <<>>
                                    ELSE IF s[i] \in S THEN Append(g[i - 1], s[i]) ELSE g[i - 1]]
    <2>1. \E g : IsRetained(s, S, g, Len(s))
      BY <1>1, RetainedExists
    <2> QED
      BY <2>1, Zenon DEF IsRetained
  <1>3. IsRetained(s, S, f, n)
    BY <1>2, Zenon DEF IsRetained
  <1>4. Retain(s, S) = f[n]
    BY Zenon DEF Retain
  <1> HIDE DEF f
  <1>5. \A i \in 0..n : f[i] = IF i = 0 THEN <<>> ELSE IF s[i] \in S THEN Append(f[i - 1], s[i]) ELSE f[i - 1]
    BY <1>3 DEF IsRetained
  <1>6. 0 \in T
    <2>1. f[0] = <<>> /\ Kept(0) = {}
      BY <1>1, <1>5
    <2> HIDE DEF Kept
    <2>2. f[0] \in Seq(Kept(0)) /\ 0 \in 0..n
      BY <1>1, <2>1
    <2> QED
      BY <2>1, <2>2
  <1>7. ASSUME NEW i \in 1..n, i - 1 \in T
        PROVE  i \in T
    <2> DEFINE before == f[i - 1]
    <2>1. /\ before \in Seq(Kept(i - 1)) /\ \A x \in Kept(i - 1) : \E k \in DOMAIN before : before[k] = x
          /\ i \in Nat /\ i \in 0..n /\ i # 0
      BY <1>7
    <2>2. f[i] = IF s[i] \in S THEN Append(before, s[i]) ELSE before
      BY <1>5, <2>1
    <2>3. Kept(i) = Kept(i - 1) \union ({s[i]} \intersect S)
      <3>1. 1..i = 1..(i - 1) \union {i}
        BY <2>1
      <3> QED
        BY <3>1
    <2> HIDE DEF before, Kept
    <2>4. CASE s[i] \in S
      <3>1. Kept(i) = Kept(i - 1) \union {s[i]} /\ f[i] = Append(before, s[i])
        BY <2>2, <2>3, <2>4
      <3>2. before \in Seq(Kept(i)) /\ s[i] \in Kept(i)
        BY <2>1, <3>1
      <3>3. /\ f[i] \in Seq(Kept(i)) /\ DOMAIN f[i] = 1..(Len(before) + 1) /\ f[i][Len(before) + 1] = s[i]
            /\ DOMAIN before = 1..Len(before) /\ Len(before) \in Nat
            /\ \A k \in 1..Len(before) : f[i][k] = before[k]
        BY <3>1, <3>2
      <3>4. ASSUME NEW x \in Kept(i) PROVE \E k \in DOMAIN f[i] : f[i][k] = x
        <4>1. CASE x = s[i]
          BY <3>3, <4>1
        <4>2. CASE x \in Kept(i - 1)
          BY <2>1, <3>3, <4>2
        <4> QED
          BY <3>1, <4>1, <4>2
      <3> QED
        BY <2>1, <3>3, <3>4
    <2>5. CASE s[i] \notin S
      <3>1. Kept(i) = Kept(i - 1) /\ f[i] = before
        BY <2>2, <2>3, <2>5
      <3> QED
        BY <2>1, <3>1
    <2> QED
      BY <2>4, <2>5
  <1> HIDE DEF T
  <1>8. n \in T
    <2>1. \A i \in 0..n : i \in T
      BY <1>1, <1>6, <1>7, CountingUp
    <2> QED
      BY <1>1, <2>1
  <1>9. f[n] \in Seq(Kept(n)) /\ \A x \in Kept(n) : \E k \in DOMAIN f[n] : f[n][k] = x
    BY <1>8 DEF T
  <1>10. Kept(n) = Range(s) \intersect S
    BY <1>1 DEF Range
  <1> HIDE DEF Kept
  <1>11. Range(f[n]) = Kept(n)
    BY <1>9 DEF Range
  <1> QED
    BY <1>4, <1>9, <1>10, <1>11 DEF IsSequence
\* The elements of a finite set in some order.
LEMMA ListedSet ==
  ASSUME NEW S, IsFiniteSet(S)
  PROVE  SetToSeq(S) \in Seq(S) /\ IsInjective(SetToSeq(S))
PROOF
  <1>1. PICK n \in Nat : ExistsBijection(1..n, S)
    BY FS_NatBijection
  <1>2. Cardinality(S) = n
    BY <1>1, FS_CountingElements
  <1>3. \E f \in [1..n -> S] : IsInjective(f)
    BY <1>1 DEF ExistsBijection, Bijection, Injection
  <1>4. SetToSeq(S) \in [1..n -> S] /\ IsInjective(SetToSeq(S))
    BY <1>2, <1>3 DEF SetToSeq
  <1> QED
    BY <1>1, <1>4

\* The sequences of a sequence, joined up to each place.
IsJoined(seqs, f, n) == f = [i \in 1..n |-> IF i = 1 THEN seqs[i] ELSE f[i - 1] \o seqs[i]]

LEMMA JoinedExists ==
  ASSUME NEW seqs, NEW n \in Nat
  PROVE  \E f : IsJoined(seqs, f, n)
PROOF
  <1> DEFINE Next1(i, before) == before \o seqs[i]
             T == {i \in 0..n : \E f : IsJoined(seqs, f, i)}
  <1>1. 0 \in T
    <2> DEFINE f == [i \in 1..0 |-> <<>>]
    <2>1. IsJoined(seqs, f, 0)
      BY DEF IsJoined
    <2> QED
      BY <2>1
  <1>2. ASSUME NEW i \in 1..n, i - 1 \in T
        PROVE  i \in T
    <2>1. PICK f : IsJoined(seqs, f, i - 1)
      BY <1>2
    <2> DEFINE last == IF i = 1 THEN seqs[1] ELSE Next1(i, f[i - 1])
               g == [j \in 1..i |-> IF j < i THEN f[j] ELSE last]
    <2>2. \A j \in 1..(i - 1) : f[j] = IF j = 1 THEN seqs[j] ELSE Next1(j, f[j - 1])
      BY <2>1 DEF IsJoined
    <2> HIDE DEF last, Next1
    <2>3. \A j \in 1..i : g[j] = IF j = 1 THEN seqs[j] ELSE Next1(j, g[j - 1])
      <3> TAKE j \in 1..i
      <3>1. CASE j = i
        <4>1. g[j] = last /\ (j # 1 => g[j - 1] = f[i - 1])
          BY <3>1
        <4> QED
          BY <3>1, <4>1 DEF last
      <3>2. CASE j \in 1..(i - 1)
        <4>1. g[j] = f[j] /\ (j # 1 => g[j - 1] = f[j - 1])
          BY <3>2
        <4> QED
          BY <2>2, <3>2, <4>1
      <3> QED
        BY <3>1, <3>2
    <2>4. g = [j \in 1..i |-> g[j]]
      OBVIOUS
    <2> HIDE DEF g
    <2>5. IsJoined(seqs, g, i)
      BY <2>3, <2>4, Zenon DEF IsJoined, Next1
    <2> QED
      BY <1>2, <2>5
  <1> HIDE DEF T
  <1>3. \A i \in 0..n : i \in T
    BY <1>1, <1>2, CountingUp
  <1> QED
    BY <1>3 DEF T

\* A sequence that is flattened, part by part.
LEMMA FlatByParts ==
  ASSUME NEW seqs, NEW n \in Nat, n = Len(seqs), n # 0
  PROVE  \E f : /\ FlattenSeq(seqs) = f[n]
                /\ \A i \in 1..n : f[i] = IF i = 1 THEN seqs[i] ELSE f[i - 1] \o seqs[i]
PROOF
  <1> DEFINE f == CHOOSE g : g = [i \in 1..n |-> IF i = 1 THEN seqs[i] ELSE g[i - 1] \o seqs[i]]
  <1>1. \E g : g = [i \in 1..n |-> IF i = 1 THEN seqs[i] ELSE g[i - 1] \o seqs[i]]
    <2>1. \E g : IsJoined(seqs, g, n)
      BY JoinedExists
    <2> QED
      BY <2>1, Zenon DEF IsJoined
  <1>2. IsJoined(seqs, f, n)
    BY <1>1, Zenon DEF IsJoined
  <1>3. FlattenSeq(seqs) = f[n]
    BY Zenon DEF FlattenSeq
  <1> HIDE DEF f
  <1> QED
    BY <1>2, <1>3 DEF IsJoined

\* What is flattened are sequences of the same elements.
LEMMA FlatSequence ==
  ASSUME NEW X, NEW seqs, Len(seqs) \in Nat, \A i \in 1..Len(seqs) : seqs[i] \in Seq(X),
         Len(seqs) = 0 => seqs \in Seq(X)
  PROVE  FlattenSeq(seqs) \in Seq(X)
PROOF
  <1> DEFINE n == Len(seqs)
  <1>1. CASE n = 0
    BY <1>1 DEF FlattenSeq
  <1>2. CASE n # 0
    <2>1. PICK f : /\ FlattenSeq(seqs) = f[n]
                   /\ \A i \in 1..n : f[i] = IF i = 1 THEN seqs[i] ELSE f[i - 1] \o seqs[i]
      BY <1>2, FlatByParts
    <2> DEFINE T == {i \in 0..n : i # 0 => f[i] \in Seq(X)}
    <2>2. 0 \in T
      OBVIOUS
    <2>3. ASSUME NEW i \in 1..n, i - 1 \in T
          PROVE  i \in T
      <3>1. CASE i = 1
        BY <2>1, <3>1
      <3>2. CASE i # 1
        <4>1. f[i - 1] \in Seq(X) /\ seqs[i] \in Seq(X)
          BY <2>3, <3>2
        <4>2. f[i] = f[i - 1] \o seqs[i]
          BY <2>1, <3>2
        <4>3. f[i] \in Seq(X)
          BY <4>1, <4>2
        <4> QED
          BY <4>3
      <3> QED
        BY <3>1, <3>2
    <2> HIDE DEF T
    <2>4. \A i \in 0..n : i \in T
      BY <2>2, <2>3, CountingUp
    <2> QED
      BY <1>2, <2>1, <2>4 DEF T
  <1> QED
    BY <1>1, <1>2

\* Rows of places, one after the other: a place follows the one before it, or begins a row of its own.
InRows(line) ==
  \A k \in DOMAIN line :
    IF FollowsIn(line, k) THEN line[k][2] = line[k - 1][2] + 1
    ELSE line[k][2] = 1 /\ \A j \in 1..(k - 1) : line[j][1] # line[k][1]

LEMMA OneMoreRow ==
  ASSUME NEW X, NEW line \in Seq(X), InRows(line), NEW id, \A k \in DOMAIN line : line[k][1] # id,
         NEW row \in Seq(X), \A i \in DOMAIN row : row[i] = <<id, i>>
  PROVE  InRows(line \o row)
PROOF
  <1> DEFINE all == line \o row
             n == Len(line)
  <1>1. /\ all \in Seq(X) /\ n \in Nat /\ DOMAIN line = 1..n /\ DOMAIN row = 1..Len(row) /\ Len(row) \in Nat
        /\ DOMAIN all = 1..(n + Len(row))
        /\ \A k \in 1..n : all[k] = line[k]
        /\ \A k \in (n + 1)..(n + Len(row)) : all[k] = row[k - n]
    OBVIOUS
  <1> HIDE DEF all, n
  <1>2. \A k \in 1..n : all[k][1] # id
    BY <1>1
  <1>3. \A k \in (n + 1)..(n + Len(row)) : all[k] = <<id, k - n>>
    <2> TAKE k \in (n + 1)..(n + Len(row))
    <2>1. k - n \in DOMAIN row
      BY <1>1
    <2> QED
      BY <1>1, <2>1
  <1>4. \A k \in (n + 1)..(n + Len(row)) : all[k][1] = id /\ all[k][2] = k - n
    BY <1>3
  <1>5. ASSUME NEW k \in 1..n
        PROVE  IF FollowsIn(all, k) THEN all[k][2] = all[k - 1][2] + 1
               ELSE all[k][2] = 1 /\ \A j \in 1..(k - 1) : all[j][1] # all[k][1]
    <2>1. all[k] = line[k] /\ \A j \in 1..(k - 1) : all[j] = line[j]
      BY <1>1
    <2>2. k > 1 => all[k - 1] = line[k - 1]
      BY <1>1
    <2>3. FollowsIn(all, k) <=> FollowsIn(line, k)
      BY <2>1, <2>2 DEF FollowsIn
    <2>4. IF FollowsIn(line, k) THEN line[k][2] = line[k - 1][2] + 1
          ELSE line[k][2] = 1 /\ \A j \in 1..(k - 1) : line[j][1] # line[k][1]
      BY <1>1 DEF InRows
    <2>5. CASE FollowsIn(line, k)
      BY <2>1, <2>2, <2>3, <2>4, <2>5 DEF FollowsIn
    <2>6. CASE ~FollowsIn(line, k)
      BY <2>1, <2>3, <2>4, <2>6
    <2> QED
      BY <2>5, <2>6
  <1>6. ASSUME NEW k \in (n + 1)..(n + Len(row))
        PROVE  IF FollowsIn(all, k) THEN all[k][2] = all[k - 1][2] + 1
               ELSE all[k][2] = 1 /\ \A j \in 1..(k - 1) : all[j][1] # all[k][1]
    <2>1. CASE k = n + 1
      BY <1>1, <1>2, <1>4, <2>1 DEF FollowsIn
    <2>2. CASE k # n + 1
      <3>1. k - 1 \in (n + 1)..(n + Len(row)) /\ k > 1
        BY <1>1, <2>2
      <3> QED
        BY <1>1, <1>4, <3>1 DEF FollowsIn
    <2> QED
      BY <2>1, <2>2
  <1>7. \A k \in DOMAIN all : k \in 1..n \/ k \in (n + 1)..(n + Len(row))
    BY <1>1
  <1>8. InRows(all)
    BY <1>5, <1>6, <1>7 DEF InRows
  <1> QED
    BY <1>8 DEF all

-----------------------------------------------------------------------------
(* What the host sends *)

\* The anchors of a role and format are certificates, parsed or not.
LEMMA TypedAnchors ==
  ASSUME NEW now, NEW role \in Roles, NEW format \in Formats
  PROVE  AnchorsFromWire(HostAnchors, now).lists[<<role, format>>] \in {Absent} \union CertLists
         /\ AnchorsFromWire(HostAnchors, now).now = now
PROOF
  <1> DEFINE Of(k) == Retain(HostAnchors, {e \in Range(HostAnchors) : <<e.role, e.format>> = k})
             of == Of(<<role, format>>)
             certs == [i \in DOMAIN of |-> of[i].cert]
  <1>1. AnchorsFromWire(HostAnchors, now).lists[<<role, format>>] = IF of = <<>> THEN Absent ELSE certs
    BY DEF AnchorsFromWire
  <1>2. IsSequence(of) /\ Range(of) \subseteq Range(HostAnchors)
    BY RetainKeeps, HostAssumption
  <1> HIDE DEF of
  <1>3. Len(of) \in Nat /\ DOMAIN of = 1..Len(of) /\ \A i \in 1..Len(of) : of[i] \in Range(HostAnchors)
    <2>1. \A i \in DOMAIN of : of[i] \in Range(of)
      BY DEF Range
    <2>2. Len(of) \in Nat /\ DOMAIN of = 1..Len(of)
      BY <1>2 DEF IsSequence
    <2> QED
      BY <1>2, <2>1, <2>2
  <1>4. \A i \in 1..Len(of) : of[i].cert \in Certs \union {Garbage}
    BY <1>3, HostAssumption
  <1>5. certs \in Seq(Certs \union {Garbage})
    BY <1>3, <1>4
  <1>6. AnchorsFromWire(HostAnchors, now).now = now
    BY DEF AnchorsFromWire
  <1> QED
    BY <1>1, <1>5, <1>6 DEF CertLists

LEMMA TypedStatuses ==
  ASSUME NEW slot, NEW answer, NEW reachability
  PROVE  HostStatus(slot, answer, reachability) \in StatusOutcomes
PROOF
  <1>1. ASSUME NEW claim
        PROVE  CheckStatus(StatusReference(claim), answer, reachability) \in StatusOutcomes
    <2>1. StatusReference(claim).kind \in {"none", "malformed", "list"}
      BY DEF StatusReference, NoReference
    <2> QED
      BY <2>1 DEF CheckStatus, UnreachableOutcome, StatusOutcomes
  <1> QED
    BY <1>1 DEF HostStatus

-----------------------------------------------------------------------------
(* From the attestation to the presentation *)

LEMMA IssuedSdJwt ==
  ASSUME NEW p, p = Issue("SdJwtVc", HolderKey)
  PROVE  /\ {"jws", "disclosures", "kb"} \subseteq DOMAIN p /\ IsSequence(p.disclosures)
         /\ Claim(p, "cnf") = HolderKey
         /\ \A name \in {"iat", "nbf", "exp"} : Claim(p, name) \in OrNone(Int)
         /\ p.jws.x5c \in OrNone(CertLists)
PROOF
  <1> DEFINE t == Templates["SdJwtVc"]
             key == Scalar(HolderKey)
             members == [t.jws.tree.members EXCEPT !["cnf"] = key]
  <1>1. IsAttestation("SdJwtVc", t)
    BY TemplatesAssumption DEF Formats
  <1>2. /\ t # Garbage /\ IsSdJwt(t) /\ {"jws", "disclosures", "kb"} \subseteq DOMAIN t
        /\ {"tree", "x5c"} \subseteq DOMAIN t.jws /\ IsSequence(t.disclosures)
        /\ "members" \in DOMAIN t.jws.tree /\ "cnf" \in DOMAIN t.jws.tree.members
    BY <1>1 DEF IsAttestation
  <1>3. p = [t EXCEPT !.jws.tree.members["cnf"] = key]
    BY DEF Issue
  <1> HIDE DEF t, key
  <1>4. DOMAIN p = DOMAIN t /\ p.jws = [t.jws EXCEPT !.tree.members["cnf"] = key] /\ p.disclosures = t.disclosures
    BY <1>2, <1>3
  <1>5. p.jws.x5c = t.jws.x5c /\ p.jws.tree = [t.jws.tree EXCEPT !.members["cnf"] = key]
    BY <1>2, <1>4
  <1>6. p.jws.tree.members = members
    BY <1>2, <1>5
  <1>7. DOMAIN members = DOMAIN t.jws.tree.members /\ members["cnf"] = key
        /\ \A name \in DOMAIN members : name # "cnf" => members[name] = t.jws.tree.members[name]
    BY <1>2
  <1>8. key.kind = "scalar" /\ key.value = HolderKey
    BY DEF key, Scalar
  <1> HIDE DEF members
  <1>9. Claim(p, "cnf") = HolderKey
    BY <1>2, <1>6, <1>7, <1>8 DEF Claim
  <1>10. \A name \in {"iat", "nbf", "exp"} : Claim(p, name) = Claim(t, name)
    BY <1>6, <1>7 DEF Claim
  <1> QED
    BY <1>2, <1>4, <1>5, <1>9, <1>10 DEF IsSdJwt

LEMMA PreparedSdJwt ==
  ASSUME NEW p, NEW request, NEW disclose, NEW signature,
         {"jws", "disclosures", "kb"} \subseteq DOMAIN p, Claim(p, "cnf") = HolderKey,
         \A name \in {"iat", "nbf", "exp"} : Claim(p, name) \in OrNone(Int), p.jws.x5c \in OrNone(CertLists),
         PrepareSdJwt(p, request, disclose, PresentedAt).kind = "prepared",
         signature.over = PrepareSdJwt(p, request, disclose, PresentedAt).input.over,
         Finish(PrepareSdJwt(p, request, disclose, PresentedAt), signature).kind # "refused"
  PROVE  LET slot == Finish(PrepareSdJwt(p, request, disclose, PresentedAt), signature)
         IN  /\ {"format", "presentation", "audience"} \subseteq DOMAIN slot /\ slot.format = "SdJwtVc"
             /\ IsBoundSdJwt(slot.presentation, signature.by, request)
             /\ slot.presentation.disclosures = Conceal(p, disclose)
PROOF
  <1> DEFINE cut == [p EXCEPT !.disclosures = Conceal(p, disclose), !.kb = Absent]
             input == KbInput(request, PresentedAt, HashToBind(cut, p))
             prepared == Prepared([format |-> "SdJwtVc", presentation |-> cut], input)
             kb == AssembledKb(input, signature)
             shows == [cut EXCEPT !.kb = kb]
             slot == Finish(prepared, signature)
  <1>1. \A reason : Refusal(reason).kind = "refused"
    BY DEF Refusal
  <1>2. PrepareSdJwt(p, request, disclose, PresentedAt) = prepared
    BY <1>1 DEF PrepareSdJwt
  <1>3. slot = [kind |-> "presented", format |-> "SdJwtVc", audience |-> Absent, presentation |-> shows]
    <2>1. slot.kind # "refused"
      BY <1>2
    <2>2. prepared.held.format = "SdJwtVc" /\ prepared.held.presentation = cut /\ prepared.input = input
      BY DEF Prepared
    <2> HIDE DEF prepared, cut, input
    <2> QED
      BY <1>1, <2>1, <2>2 DEF Finish
  <1>4. /\ kb.aud = request.audience /\ kb.nonce = request.nonce /\ kb.iat = PresentedAt /\ kb.by = signature.by
    <2>1. /\ input.over.aud = request.audience /\ input.over.nonce = request.nonce /\ input.over.iat = PresentedAt
          /\ signature.over = input.over
      BY <1>2 DEF KbInput, SigningInput, Prepared
    <2> HIDE DEF input
    <2> QED
      BY <2>1 DEF AssembledKb, VerifiesUnder
  <1>5. shows.jws = p.jws /\ shows.kb = kb /\ shows.disclosures = Conceal(p, disclose)
    OBVIOUS
  <1> HIDE DEF shows, kb
  <1>6. \A name : Claim(shows, name) = Claim(p, name)
    BY <1>5 DEF Claim
  <1>7. IsSdJwt(shows)
    BY <1>4, <1>5, <1>6, HostAssumption DEF IsSdJwt
  <1>8. IsBoundSdJwt(shows, signature.by, request)
    BY <1>4, <1>5, <1>6, <1>7 DEF IsBoundSdJwt
  <1> QED
    BY <1>2, <1>3, <1>5, <1>8

\* An mdoc bound to the holder's key, with a place for a device signature and namespaces to prune.
IsMdocOfHolder(p) ==
  /\ IsMdocResponse(p) /\ "documents" \in DOMAIN p /\ 1 \in DOMAIN p.documents
  /\ LET d == p.documents[1] IN
       /\ {"nameSpaces", "issuerAuth", "deviceSigned"} \subseteq DOMAIN d
       /\ Mso(d).deviceKey = HolderKey
       /\ d.deviceSigned # Absent => "signature" \in DOMAIN d.deviceSigned
       /\ d.nameSpaces # Garbage =>
            IsSequence(d.nameSpaces) /\ \A i \in DOMAIN d.nameSpaces : {"ns", "items"} \subseteq DOMAIN d.nameSpaces[i]

\* A function over the first naturals is a sequence.
LEMMA CountedSequence ==
  ASSUME NEW s, NEW n \in Nat, s = [i \in 1..n |-> s[i]]
  PROVE  IsSequence(s) /\ Len(s) = n /\ DOMAIN s = 1..n
PROOF
  <1> DEFINE R == Range(s)
  <1>1. \A i \in 1..n : s[i] \in R
    BY DEF Range
  <1> HIDE DEF R
  <1>2. s \in [1..n -> R]
    BY <1>1
  <1>3. s \in Seq(R) /\ Len(s) = n /\ DOMAIN s = 1..n
    BY <1>2
  <1> QED
    BY <1>3 DEF IsSequence, R

\* A document of a response that is replaced by one as well formed leaves the response well formed.
LEMMA ReplacedDocument ==
  ASSUME NEW p, NEW q, NEW new,
         IsMdocResponse(p), p # Garbage, p.documents # Absent, 1 \in DOMAIN p.documents,
         q.documents = [p.documents EXCEPT ![1] = new],
         new.issuerAuth = p.documents[1].issuerAuth \/
           /\ IsValue(p.documents[1].issuerAuth) /\ Mso(p.documents[1]) # Garbage
           /\ new.issuerAuth.x5chain = p.documents[1].issuerAuth.x5chain
           /\ Mso(new).validityInfo = Mso(p.documents[1]).validityInfo,
         new.nameSpaces # Garbage => \A i \in DOMAIN new.nameSpaces : IsSequence(new.nameSpaces[i].items)
  PROVE  IsMdocResponse(q) /\ DOMAIN q.documents = DOMAIN p.documents /\ Len(q.documents) = Len(p.documents)
PROOF
  <1> DEFINE docs == p.documents
             d == docs[1]
  <1>1. IsSequence(docs) /\ d \in Range(docs)
    BY DEF IsMdocResponse, Range
  <1>2. /\ IsValue(d.issuerAuth) => d.issuerAuth.x5chain \in OrNone(CertLists)
        /\ IsValue(d.issuerAuth) /\ Mso(d) # Garbage /\ Mso(d).validityInfo # Absent =>
             LET info == Mso(d).validityInfo IN HasYear(info.signed) /\ HasYear(info.from) /\ HasYear(info.until)
    BY <1>1 DEF IsMdocResponse
  <1>3. Len(docs) \in Nat /\ DOMAIN docs = 1..Len(docs)
    BY <1>1 DEF IsSequence
  <1>4. DOMAIN q.documents = 1..Len(docs) /\ q.documents[1] = new /\ q.documents = [i \in 1..Len(docs) |-> q.documents[i]]
        /\ \A i \in DOMAIN docs : i # 1 => q.documents[i] = docs[i]
    BY <1>3
  <1>5. Len(q.documents) = Len(docs) /\ IsSequence(q.documents)
    <2> DEFINE n == Len(docs)
               s == q.documents
    <2>1. n \in Nat /\ s = [i \in 1..n |-> s[i]]
      BY <1>3, <1>4
    <2> HIDE DEF n, s
    <2>2. IsSequence(s) /\ Len(s) = n
      BY ONLY <2>1, CountedSequence, Zenon
    <2> QED
      BY <2>2 DEF n, s
  <1>6. /\ IsValue(new.issuerAuth) => new.issuerAuth.x5chain \in OrNone(CertLists)
        /\ IsValue(new.issuerAuth) /\ Mso(new) # Garbage /\ Mso(new).validityInfo # Absent =>
             LET info == Mso(new).validityInfo IN HasYear(info.signed) /\ HasYear(info.from) /\ HasYear(info.until)
    BY <1>2 DEF Mso
  <1>7. ASSUME NEW e \in Range(q.documents)
        PROVE  e = new \/ e \in Range(docs)
    BY <1>3, <1>4 DEF Range
  <1>8. ASSUME NEW e \in Range(q.documents)
        PROVE  /\ IsValue(e.issuerAuth) => e.issuerAuth.x5chain \in OrNone(CertLists)
               /\ e.nameSpaces # Garbage => \A i \in DOMAIN e.nameSpaces : IsSequence(e.nameSpaces[i].items)
               /\ IsValue(e.issuerAuth) /\ Mso(e) # Garbage /\ Mso(e).validityInfo # Absent =>
                    LET info == Mso(e).validityInfo IN HasYear(info.signed) /\ HasYear(info.from) /\ HasYear(info.until)
    <2>1. CASE e = new
      BY <1>6, <2>1
    <2>2. CASE e \in Range(docs)
      BY <2>2 DEF IsMdocResponse
    <2> QED
      BY <1>7, <2>1, <2>2
  <1>9. IsMdocResponse(q)
    BY <1>5, <1>8 DEF IsMdocResponse
  <1> QED
    BY <1>3, <1>4, <1>5, <1>9

LEMMA IssuedMdoc ==
  ASSUME NEW p, p = Issue("Mdoc", HolderKey)
  PROVE  IsMdocOfHolder(p)
PROOF
  <1> DEFINE t == Templates["Mdoc"]
             d == t.documents[1]
             ia == d.issuerAuth
             mso == [ia.mso EXCEPT !.deviceKey = HolderKey]
             auth == [ia EXCEPT !.mso = mso]
             new == [d EXCEPT !.issuerAuth = auth]
  <1>1. IsAttestation("Mdoc", t)
    BY TemplatesAssumption DEF Formats
  <1>2. /\ t # Garbage /\ IsMdocResponse(t) /\ "documents" \in DOMAIN t /\ t.documents # Absent /\ 1 \in DOMAIN t.documents
        /\ {"nameSpaces", "issuerAuth", "deviceSigned"} \subseteq DOMAIN d
        /\ IsValue(ia) /\ {"mso", "x5chain"} \subseteq DOMAIN ia
        /\ ia.mso # Garbage /\ {"deviceKey", "validityInfo"} \subseteq DOMAIN ia.mso
        /\ d.deviceSigned # Absent => "signature" \in DOMAIN d.deviceSigned
        /\ d.nameSpaces # Garbage =>
             IsSequence(d.nameSpaces) /\ \A e \in Range(d.nameSpaces) : {"ns", "items"} \subseteq DOMAIN e
    BY <1>1 DEF IsAttestation, Mso
  <1>3. p = [t EXCEPT !.documents[1].issuerAuth.mso.deviceKey = HolderKey]
    BY DEF Issue
  <1> HIDE DEF t
  <1>4. p = [t EXCEPT !.documents = [t.documents EXCEPT ![1] = new]]
    BY <1>3
  <1>5. mso.deviceKey = HolderKey /\ mso.validityInfo = ia.mso.validityInfo
    BY <1>2
  <1> HIDE DEF mso
  <1>6. auth.mso = mso /\ auth.x5chain = ia.x5chain
    BY <1>2
  <1> HIDE DEF auth
  <1>7. /\ new.issuerAuth = auth /\ new.nameSpaces = d.nameSpaces /\ new.deviceSigned = d.deviceSigned
        /\ DOMAIN new = DOMAIN d
    BY <1>2
  <1> HIDE DEF new
  <1>8. p.documents = [t.documents EXCEPT ![1] = new] /\ DOMAIN p = DOMAIN t
    BY <1>2, <1>4
  <1>9. p.documents[1] = new
    BY <1>2, <1>8
  <1>10. d.nameSpaces # Garbage => \A i \in DOMAIN d.nameSpaces : IsSequence(d.nameSpaces[i].items)
    <2>1. d \in Range(t.documents)
      BY <1>2 DEF Range
    <2> QED
      BY <1>2, <2>1 DEF IsMdocResponse
  <1>11. IsMdocResponse(p) /\ DOMAIN p.documents = DOMAIN t.documents
    <2>1. Mso(new).validityInfo = Mso(d).validityInfo /\ Mso(d) # Garbage
      BY <1>2, <1>5, <1>6, <1>7 DEF Mso
    <2> QED
      BY <1>2, <1>6, <1>7, <1>8, <1>10, <2>1, ReplacedDocument
  <1>13. d.nameSpaces # Garbage => \A i \in DOMAIN d.nameSpaces : {"ns", "items"} \subseteq DOMAIN d.nameSpaces[i]
    BY <1>2 DEF Range
  <1>14. Mso(new).deviceKey = HolderKey
    BY <1>5, <1>6, <1>7 DEF Mso
  <1> QED
    BY <1>2, <1>7, <1>8, <1>9, <1>11, <1>13, <1>14 DEF IsMdocOfHolder

\* What is pruned is still namespaces with sequences of items.
LEMMA PrunedItems ==
  ASSUME NEW nameSpaces, NEW disclose, IsSequence(nameSpaces),
         \A i \in DOMAIN nameSpaces : "items" \in DOMAIN nameSpaces[i] /\ IsSequence(nameSpaces[i].items)
  PROVE  \A i \in DOMAIN Prune(nameSpaces, disclose) : IsSequence(Prune(nameSpaces, disclose)[i].items)
PROOF
  <1> DEFINE Kept(e) == Retain(e.items, {item \in Range(e.items) : item # Garbage /\ <<e.ns, item.identifier>> \in disclose})
             pruned == [i \in DOMAIN nameSpaces |-> [nameSpaces[i] EXCEPT !.items = Kept(nameSpaces[i])]]
             left == {e \in Range(pruned) : e.items # <<>>}
  <1>1. Prune(nameSpaces, disclose) = Retain(pruned, left)
    BY Zenon DEF Prune
  <1>2. ASSUME NEW i \in DOMAIN nameSpaces
        PROVE  IsSequence(pruned[i].items)
    <2>1. IsSequence(Kept(nameSpaces[i]))
      BY RetainKeeps
    <2> HIDE DEF Kept
    <2> QED
      BY <2>1
  <1>3. IsSequence(pruned)
    <2> DEFINE n == Len(nameSpaces)
    <2>1. n \in Nat /\ DOMAIN nameSpaces = 1..n
      BY DEF IsSequence
    <2> HIDE DEF Kept
    <2>2. pruned = [i \in 1..n |-> pruned[i]]
      BY <2>1
    <2> HIDE DEF n, pruned
    <2> QED
      BY ONLY <2>1, <2>2, CountedSequence, Zenon
  <1>4. \A e \in Range(pruned) : IsSequence(e.items)
    BY <1>2 DEF Range
  <1> HIDE DEF pruned, left
  <1>5. Range(Retain(pruned, left)) \subseteq Range(pruned)
    BY <1>3, RetainKeeps
  <1> QED
    BY <1>1, <1>4, <1>5 DEF Range

\* The names of the items in the namespaces of a document.
Names(nameSpaces) == UNION {{<<e.ns, item.identifier>> : item \in Range(e.items)} : e \in Range(nameSpaces)}

\* What is pruned has the items selected, under the names they had, and no others.
LEMMA PrunedNames ==
  ASSUME NEW nameSpaces, NEW disclose, IsSequence(nameSpaces),
         \A i \in DOMAIN nameSpaces :
           {"ns", "items"} \subseteq DOMAIN nameSpaces[i] /\ IsSequence(nameSpaces[i].items),
         \A x \in disclose : \E i \in DOMAIN nameSpaces :
           \E item \in Range(nameSpaces[i].items) \ {Garbage} : x = <<nameSpaces[i].ns, item.identifier>>
  PROVE  Names(Prune(nameSpaces, disclose)) = disclose
PROOF
  <1> DEFINE chosen(e) == {item \in Range(e.items) : item # Garbage /\ <<e.ns, item.identifier>> \in disclose}
             Kept(e) == Retain(e.items, chosen(e))
             pruned == [i \in DOMAIN nameSpaces |-> [nameSpaces[i] EXCEPT !.items = Kept(nameSpaces[i])]]
             left == {e \in Range(pruned) : e.items # <<>>}
  <1>1. Prune(nameSpaces, disclose) = Retain(pruned, left)
    BY Zenon DEF Prune
  <1>2. ASSUME NEW i \in DOMAIN nameSpaces
        PROVE  /\ pruned[i].ns = nameSpaces[i].ns /\ IsSequence(pruned[i].items)
               /\ Range(pruned[i].items) = chosen(nameSpaces[i])
    <2>1. IsSequence(Kept(nameSpaces[i])) /\ Range(Kept(nameSpaces[i])) = Range(nameSpaces[i].items) \intersect chosen(nameSpaces[i])
      BY RetainKeeps
    <2>2. chosen(nameSpaces[i]) \subseteq Range(nameSpaces[i].items)
      OBVIOUS
    <2> HIDE DEF Kept, chosen
    <2>3. pruned[i].ns = nameSpaces[i].ns /\ pruned[i].items = Kept(nameSpaces[i])
      OBVIOUS
    <2> QED
      BY <2>1, <2>2, <2>3
  <1>3. IsSequence(pruned) /\ DOMAIN pruned = DOMAIN nameSpaces
    <2> DEFINE n == Len(nameSpaces)
    <2>1. n \in Nat /\ DOMAIN nameSpaces = 1..n
      BY DEF IsSequence
    <2> HIDE DEF Kept
    <2>2. pruned = [i \in 1..n |-> pruned[i]] /\ DOMAIN pruned = 1..n
      BY <2>1
    <2> HIDE DEF n, pruned
    <2>3. IsSequence(pruned)
      BY ONLY <2>1, <2>2, CountedSequence, Zenon
    <2> QED
      BY <2>1, <2>2, <2>3
  <1> HIDE DEF pruned
  <1>4. Range(Retain(pruned, left)) = left
    <2>1. Range(Retain(pruned, left)) = Range(pruned) \intersect left
      BY <1>3, RetainKeeps
    <2> QED
      BY <2>1
  <1>5. Names(Prune(nameSpaces, disclose)) = UNION {{<<e.ns, item.identifier>> : item \in Range(e.items)} : e \in left}
    <2> HIDE DEF left
    <2> QED
      BY <1>1, <1>4 DEF Names
  <1>6. ASSUME NEW e \in left, NEW item \in Range(e.items)
        PROVE  <<e.ns, item.identifier>> \in disclose
    <2>1. PICK i \in DOMAIN nameSpaces : e = pruned[i]
      BY <1>3 DEF Range
    <2> QED
      BY <1>2, <2>1
  <1>7. ASSUME NEW x \in disclose
        PROVE  \E e \in left : \E item \in Range(e.items) : x = <<e.ns, item.identifier>>
    <2>1. PICK i \in DOMAIN nameSpaces : \E item \in Range(nameSpaces[i].items) \ {Garbage} : x = <<nameSpaces[i].ns, item.identifier>>
      OBVIOUS
    <2>2. PICK item \in Range(nameSpaces[i].items) \ {Garbage} : x = <<nameSpaces[i].ns, item.identifier>>
      BY <2>1
    <2>3. item \in chosen(nameSpaces[i])
      BY <2>2
    <2> HIDE DEF chosen
    <2>4. item \in Range(pruned[i].items) /\ pruned[i].ns = nameSpaces[i].ns
      BY <1>2, <2>3
    <2>5. pruned[i].items # <<>> /\ pruned[i] \in Range(pruned)
      BY <1>3, <2>4 DEF Range
    <2> QED
      BY <2>2, <2>4, <2>5
  <1> HIDE DEF left
  <1> QED
    BY <1>5, <1>6, <1>7

LEMMA PreparedMdoc ==
  ASSUME NEW p, NEW request, NEW disclose, NEW signature,
         IsMdocOfHolder(p),
         PrepareMdoc(p, request, disclose).kind = "prepared",
         signature.over = PrepareMdoc(p, request, disclose).input.over,
         Finish(PrepareMdoc(p, request, disclose), signature).kind # "refused"
  PROVE  LET slot == Finish(PrepareMdoc(p, request, disclose), signature)
         IN  /\ {"format", "presentation", "audience"} \subseteq DOMAIN slot /\ slot.format = "Mdoc"
             /\ IsBoundMdoc(slot.presentation, signature.by, request)
             /\ Names(slot.presentation.documents[1].nameSpaces) = disclose
PROOF
  <1> DEFINE d == p.documents[1]
             own == IF d.deviceSigned = Absent \/ d.deviceSigned.nameSpaces = Absent THEN EmptyNameSpaces
                    ELSE d.deviceSigned.nameSpaces
             pruned == Prune(d.nameSpaces, disclose)
             cut == [d EXCEPT !.nameSpaces = pruned]
             reduced == [p EXCEPT !.documents[1].nameSpaces = pruned]
             input == DeviceInput(request, Handover(request), d.docType, own)
             prepared == Prepared([format |-> "Mdoc", presentation |-> reduced], input)
             device == AssembledDevice(input, signature)
             signed == [cut EXCEPT !.deviceSigned.signature = device]
             shows == [reduced EXCEPT !.documents[1].deviceSigned.signature = device]
             slot == Finish(prepared, signature)
  <1>1. \A reason : Refusal(reason).kind = "refused"
    BY DEF Refusal
  <1>2. /\ PrepareMdoc(p, request, disclose) = prepared
        /\ p # Garbage /\ p.documents \notin {Absent, <<>>} /\ ~(Len(p.documents) > 1) /\ d.nameSpaces # Garbage
        /\ disclose \subseteq IssuedIdentifiers(d)
    BY <1>1 DEF PrepareMdoc, Handover
  <1>3. /\ IsMdocResponse(p) /\ "documents" \in DOMAIN p /\ 1 \in DOMAIN p.documents
        /\ {"nameSpaces", "issuerAuth", "deviceSigned"} \subseteq DOMAIN d
        /\ Mso(d).deviceKey = HolderKey
        /\ d.deviceSigned # Absent => "signature" \in DOMAIN d.deviceSigned
        /\ IsSequence(d.nameSpaces) /\ \A i \in DOMAIN d.nameSpaces : {"ns", "items"} \subseteq DOMAIN d.nameSpaces[i]
    BY <1>2 DEF IsMdocOfHolder
  <1>4. Len(p.documents) = 1 /\ DOMAIN p.documents = {1}
    <2>1. Len(p.documents) \in Nat /\ DOMAIN p.documents = 1..Len(p.documents)
      BY <1>2, <1>3 DEF IsMdocResponse, IsSequence
    <2>2. 1 \in DOMAIN p.documents
      BY <1>3
    <2>3. ~(Len(p.documents) > 1)
      BY <1>2, Zenon
    <2> DEFINE n == Len(p.documents)
    <2>4. n \in Nat /\ 1 \in 1..n /\ ~(n > 1)
      BY <2>1, <2>2, <2>3, Zenon
    <2> HIDE DEF n
    <2>5. n = 1
      BY <2>4
    <2> QED
      BY <2>1, <2>5 DEF n
  <1>5. \A i \in DOMAIN d.nameSpaces : IsSequence(d.nameSpaces[i].items)
    <2>1. d \in Range(p.documents)
      BY <1>3 DEF Range
    <2> QED
      BY <1>2, <2>1, <1>3 DEF IsMdocResponse
  <1>6. \A i \in DOMAIN pruned : IsSequence(pruned[i].items)
    BY <1>3, <1>5, PrunedItems
  <1>6a. Names(pruned) = disclose
    <2>1. \A x \in disclose : \E i \in DOMAIN d.nameSpaces :
            \E item \in Range(d.nameSpaces[i].items) \ {Garbage} : x = <<d.nameSpaces[i].ns, item.identifier>>
      <3> HIDE DEF d, prepared
      <3> QED
        BY <1>2 DEF IssuedIdentifiers
    <2> QED
      BY <1>3, <1>5, <2>1, PrunedNames
  <1>7. input.over = <<Handover(request), d.docType, own>> /\ signature.over = input.over
    <2>1. prepared.input = input
      BY DEF Prepared
    <2>2. input.over = <<Handover(request), d.docType, own>>
      BY DEF DeviceInput, SigningInput
    <2> QED
      BY <1>2, <2>1, <2>2
  <1>8. device.by = signature.by /\ device.over[1] = Handover(request)
    <2> HIDE DEF own, input
    <2> QED
      BY <1>7 DEF AssembledDevice, VerifiesUnder
  <1> HIDE DEF pruned, input, device
  <1>9. /\ reduced.documents = [p.documents EXCEPT ![1] = cut] /\ DOMAIN reduced = DOMAIN p
        /\ reduced.documents[1] = cut /\ 1 \in DOMAIN reduced.documents
    BY <1>3
  <1>10. /\ cut.issuerAuth = d.issuerAuth /\ cut.deviceSigned = d.deviceSigned /\ cut.nameSpaces = pruned
         /\ "deviceSigned" \in DOMAIN cut
    BY <1>3
  <1>11. slot = [kind |-> "presented", format |-> "Mdoc", audience |-> input.audience, presentation |-> shows]
         /\ cut.deviceSigned # Absent
    <2>1. slot.kind # "refused"
      BY <1>2
    <2>2. prepared.held.format = "Mdoc" /\ prepared.held.presentation = reduced /\ prepared.input = input
      BY DEF Prepared
    <2>3. slot = IF ~HasLength(signature) THEN Refusal("Build")
                 ELSE IF reduced.documents[1].deviceSigned = Absent THEN Refusal("Malformed")
                 ELSE [kind |-> "presented", format |-> "Mdoc", audience |-> input.audience, presentation |-> shows]
      <3> HIDE DEF prepared, reduced
      <3> QED
        BY <2>2 DEF Finish, device
    <2> HIDE DEF slot, reduced, shows
    <2> QED
      BY <1>1, <1>9, <2>1, <2>3
  <1>12. /\ shows.documents = [p.documents EXCEPT ![1] = signed]
         /\ shows.documents[1] = signed
    <2>1. shows = [reduced EXCEPT !.documents = [reduced.documents EXCEPT ![1] = [reduced.documents[1] EXCEPT !.deviceSigned.signature = device]]]
      OBVIOUS
    <2>2. shows.documents = [reduced.documents EXCEPT ![1] = signed]
      <3> HIDE DEF reduced, shows, cut
      <3> QED
        BY <1>3, <1>9, <2>1
    <2>3. [reduced.documents EXCEPT ![1] = signed] = [p.documents EXCEPT ![1] = signed]
      <3> HIDE DEF reduced, cut, signed
      <3> QED
        BY <1>3, <1>9
    <2> HIDE DEF reduced, shows, signed
    <2> QED
      BY <1>3, <2>2, <2>3
  <1>13. signed.issuerAuth = d.issuerAuth /\ signed.nameSpaces = pruned /\ signed.deviceSigned.signature = device
    <2> HIDE DEF cut
    <2> QED
      BY <1>3, <1>10, <1>11
  <1> HIDE DEF shows, signed, cut, reduced, slot
  <1>14. IsMdocResponse(shows) /\ Len(shows.documents) = 1 /\ DOMAIN shows.documents = {1}
    BY <1>2, <1>3, <1>4, <1>6, <1>12, <1>13, ReplacedDocument
  <1>15. Mso(signed).deviceKey = HolderKey
    BY <1>3, <1>13 DEF Mso
  <1>16. IsBoundMdoc(shows, signature.by, request)
    BY <1>8, <1>12, <1>13, <1>14, <1>15 DEF IsBoundMdoc
  <1> QED
    BY <1>2, <1>6a, <1>11, <1>12, <1>13, <1>16 DEF slot
-----------------------------------------------------------------------------
(* The holder's steps *)

LEMMA WalletUnchanged ==
  ASSUME WalletInv, UNCHANGED <<session, asked, held, draft, made>>
  PROVE  WalletInv'
PROOF
  <1>1. session' = session /\ asked' = asked /\ held' = held /\ draft' = draft /\ made' = made
    OBVIOUS
  <1>2. SessionInv' /\ EffectInv'
    BY <1>1 DEF WalletInv, SessionInv, EffectInv
  <1>3. HeldInv' /\ DraftInv' /\ MadeInv'
    BY <1>1 DEF WalletInv, HeldInv, DraftInv, MadeInv
  <1> QED
    BY <1>2, <1>3 DEF WalletInv

\* A step of a session that returns something else than an attestation.
LEMMA ReturnedKeeps ==
  ASSUME WalletInv, KeepStep, UNCHANGED <<draft, made>>, SessionInv', step'.kind # "Obtained",
         step'.kind # "Err" /\ step'.kind = "PerformHttp" /\ session' # Absent =>
            /\ step'.endpoint \in {"token", "nonce", "credential"}
            /\ step'.endpoint = "credential" => step'.content.proof.payload.jwk = HolderKey,
         step'.kind = "Err" => session' = session,
         IsTerminal(step') => session' = Absent
  PROVE  WalletInv'
PROOF
  <1>1. held' = held
    BY DEF KeepStep
  <1>2. HeldInv' /\ DraftInv' /\ MadeInv'
    BY <1>1 DEF WalletInv, HeldInv, DraftInv, MadeInv
  <1>3. EffectInv'
    <2>1. CASE step'.kind = "Err"
      <3>1. asked' = asked /\ session' = session
        BY <2>1 DEF KeepStep, IsTerminal
      <3> QED
        BY <3>1 DEF WalletInv, EffectInv
    <2>2. CASE IsTerminal(step')
      BY <2>2 DEF EffectInv
    <2>3. CASE step'.kind # "Err" /\ ~IsTerminal(step')
      <3>1. asked' = step'
        BY <2>3 DEF KeepStep
      <3> QED
        BY <2>3, <3>1 DEF EffectInv
    <2> QED
      BY <2>1, <2>2, <2>3
  <1> QED
    BY <1>2, <1>3 DEF WalletInv

LEMMA BeginKeeps ==
  ASSUME WalletInv, Begin
  PROVE  WalletInv'
PROOF
  <1>1. PICK offer \in Offers, backend \in Backends : BeginObtain(offer, backend, [jwk |-> HolderKey], PresentedAt)
    BY DEF Begin
  <1>2. KeepStep /\ UNCHANGED <<draft, made>>
    BY DEF Begin
  <1> DEFINE s == [phase |-> "TokenPending", backend |-> backend, holder |-> [jwk |-> HolderKey], offer |-> offer,
                   now |-> PresentedAt, token |-> Absent, pop |-> Absent]
  <1>3. CASE backend.kind = "None"
    <2>1. step' = Terminal("Skipped", Absent) /\ session' = Absent
      BY <1>1, <1>3 DEF BeginObtain, Return2, IsTerminal, Terminal
    <2>2. SessionInv'
      BY <2>1 DEF SessionInv, Phases
    <2> QED
      BY <1>2, <2>1, <2>2, ReturnedKeeps DEF Terminal, IsTerminal
  <1>4. CASE backend.kind # "None"
    <2>1. step' = PerformHttp("token", [code |-> offer.code, txCode |-> offer.txCode]) /\ session' = s
      BY <1>1, <1>4 DEF BeginObtain, Return2, IsTerminal, PerformHttp
    <2>2. SessionInv'
      BY <2>1 DEF SessionInv, Phases
    <2>3. step'.kind = "PerformHttp" /\ step'.endpoint = "token"
      BY <2>1 DEF PerformHttp
    <2> QED
      BY <1>2, <2>2, <2>3, ReturnedKeeps DEF IsTerminal
  <1> QED
    BY <1>3, <1>4

\* The host resumes its session; a credential it gets was issued to the key of its last request.
LEMMA ResumeKeeps ==
  ASSUME WalletInv, NEW input, session # Absent, ResumeObtain(input), KeepStep, UNCHANGED <<draft, made>>,
         input.kind # "signature" /\ input.body # Garbage /\ input.body.credential # Absent =>
           input.body.credential = Issue(session.offer.format, HolderKey)
  PROVE  WalletInv'
PROOF
  <1>1. /\ {"phase", "backend", "holder", "offer", "now", "token", "pop"} \subseteq DOMAIN session
        /\ session.holder = [jwk |-> HolderKey] /\ session.offer \in Offers /\ session.phase \in Phases
        /\ session.phase = "ProofPending" => session.pop.over.jwk = HolderKey
    BY DEF WalletInv, SessionInv
  <1>2. ASSUME NEW reason, ReturnErr(reason)
        PROVE  WalletInv'
    <2>1. step'.kind = "Err" /\ session' = session
      BY <1>2 DEF ReturnErr, Error
    <2>2. SessionInv'
      BY <2>1 DEF WalletInv, SessionInv
    <2> QED
      BY <2>1, <2>2, ReturnedKeeps DEF IsTerminal
  <1>3. ASSUME NEW reason, Fail(reason)
        PROVE  WalletInv'
    <2>1. step'.kind = "Failed" /\ session' = Absent
      BY <1>3 DEF Fail, Return2, Terminal, IsTerminal
    <2>2. SessionInv'
      BY <2>1 DEF SessionInv, Phases
    <2> QED
      BY <2>1, <2>2, ReturnedKeeps
  <1>4. CASE session.phase = "TokenPending" /\ ResumeToken(input)
    <2>1. \/ Fail("TokenRequest")
          \/ Return2([session EXCEPT !.token = input.body.token, !.phase = "NoncePending"], PerformHttp("nonce", Absent))
      BY <1>4 DEF ResumeToken
    <2>2. CASE Return2([session EXCEPT !.token = input.body.token, !.phase = "NoncePending"], PerformHttp("nonce", Absent))
      <3>1. step'.kind = "PerformHttp" /\ step'.endpoint = "nonce"
            /\ session' = [session EXCEPT !.token = input.body.token, !.phase = "NoncePending"]
        BY <2>2 DEF Return2, PerformHttp, IsTerminal
      <3>2. SessionInv'
        BY <1>1, <3>1 DEF SessionInv, Phases
      <3> QED
        BY <3>1, <3>2, ReturnedKeeps DEF IsTerminal
    <2> QED
      BY <1>3, <2>1, <2>2
  <1>5. CASE session.phase = "NoncePending" /\ ResumeNonce(input)
    <2> DEFINE pop == PopInput(session.holder, session.backend.issuer, input.body.nonce, session.now)
    <2>1. \/ Fail("NonceRequest")
          \/ Return2([session EXCEPT !.phase = "ProofPending", !.pop = pop], SignStep(pop))
      BY <1>5 DEF ResumeNonce
    <2>2. CASE Return2([session EXCEPT !.phase = "ProofPending", !.pop = pop], SignStep(pop))
      <3>1. pop.over.jwk = HolderKey
        BY <1>1 DEF PopInput, SigningInput
      <3> HIDE DEF pop
      <3>2. step'.kind = "Sign" /\ session' = [session EXCEPT !.phase = "ProofPending", !.pop = pop]
        BY <2>2 DEF Return2, SignStep, IsTerminal
      <3>3. SessionInv'
        BY <1>1, <3>1, <3>2 DEF SessionInv, Phases
      <3> QED
        BY <3>2, <3>3, ReturnedKeeps DEF IsTerminal
    <2> QED
      BY <1>3, <2>1, <2>2
  <1>6. CASE session.phase = "ProofPending" /\ ResumeProof(input)
    <2> DEFINE proof == AssembledPop(session.pop, input.signature)
               next == PerformHttp("credential", [token |-> session.token, configuration |-> session.offer.configuration,
                                                  proof |-> proof])
    <2>1. ReturnErr("Proof") \/ Return2([session EXCEPT !.phase = "CredentialPending"], next)
      BY <1>6 DEF ResumeProof
    <2>2. CASE Return2([session EXCEPT !.phase = "CredentialPending"], next)
      <3>1. proof.payload.jwk = HolderKey
        BY <1>1, <1>6 DEF AssembledPop
      <3> HIDE DEF proof
      <3>2. next.kind = "PerformHttp" /\ next.endpoint = "credential" /\ next.content.proof = proof
        BY DEF PerformHttp
      <3> HIDE DEF next
      <3>3. step' = next /\ session' = [session EXCEPT !.phase = "CredentialPending"]
        BY <2>2, <3>2 DEF Return2, IsTerminal
      <3>4. SessionInv'
        BY <1>1, <3>3 DEF SessionInv, Phases
      <3> QED
        BY <3>1, <3>2, <3>3, <3>4, ReturnedKeeps DEF IsTerminal
    <2> QED
      BY <1>2, <2>1, <2>2
  <1>7. CASE session.phase = "CredentialPending" /\ ResumeCredential(input) /\ input.kind # "signature"
    <2> DEFINE a == [format |-> session.offer.format, presentation |-> input.body.credential]
    <2>1. \/ \E reason : Fail(reason)
          \/ /\ Return2(session, Terminal("Obtained", a))
             /\ input.body # Garbage /\ input.body.credential # Absent
      BY <1>7 DEF ResumeCredential
    <2>2. CASE /\ Return2(session, Terminal("Obtained", a))
               /\ input.body # Garbage /\ input.body.credential # Absent
      <3>1. IsIssued(a)
        BY <1>1, <1>7, <2>2, TemplatesAssumption DEF IsIssued
      <3> HIDE DEF a
      <3>2. step' = Terminal("Obtained", a) /\ session' = Absent
        BY <2>2 DEF Return2, IsTerminal, Terminal
      <3>3. held' = held \union {a}
        BY <3>2 DEF KeepStep, Terminal
      <3>4. HeldInv' /\ MadeInv'
        BY <3>1, <3>3 DEF WalletInv, HeldInv, MadeInv
      <3>5. DraftInv'
        BY <3>3 DEF WalletInv, DraftInv
      <3>6. SessionInv' /\ EffectInv'
        BY <3>2 DEF SessionInv, EffectInv
      <3> QED
        BY <3>4, <3>5, <3>6 DEF WalletInv
    <2> QED
      BY <1>3, <2>1, <2>2
  <1> QED
    BY <1>2, <1>4, <1>5, <1>6, <1>7, <1>1 DEF ResumeObtain, Phases

\* Nobody but the issuer answers with a credential, and it does for the key it was asked to bind.
LEMMA AnsweredCredential ==
  ASSUME WalletInv, session # Absent, asked.kind = "PerformHttp", NEW input \in IssuerAnswers(asked),
         input.body # Garbage, input.body.credential # Absent
  PROVE  input.body.credential = Issue(session.offer.format, HolderKey)
PROOF
  <1> DEFINE issued == Issue(session.offer.format, asked.content.proof.payload.jwk)
             good == CASE asked.endpoint = "token" -> {[NoBody EXCEPT !.token = attempts]}
                       [] asked.endpoint = "nonce" -> {[NoBody EXCEPT !.nonce = attempts]}
                       [] asked.endpoint = "credential" ->
                            IF ~IssuerAccepts(asked.content) THEN {}
                            ELSE {[NoBody EXCEPT !.credential = issued]}
  <1>1. /\ asked.endpoint \in {"token", "nonce", "credential"}
        /\ asked.endpoint = "credential" => issued = Issue(session.offer.format, HolderKey)
    BY DEF WalletInv, EffectInv
  <1> HIDE DEF issued
  <1>2. /\ NoBody.credential = Absent
        /\ [NoBody EXCEPT !.transaction = "t1"].credential = Absent
        /\ [NoBody EXCEPT !.token = attempts].credential = Absent
        /\ [NoBody EXCEPT !.nonce = attempts].credential = Absent
        /\ [NoBody EXCEPT !.credential = issued].credential = issued
    BY DEF NoBody
  <1>3. \A body \in good : body.credential = Absent \/ (asked.endpoint = "credential" /\ body.credential = issued)
    BY <1>1, <1>2
  <1>4. \/ input \in {Http(400, NoBody), Http(200, Garbage), Http(200, NoBody), Http(202, NoBody)}
        \/ input = Http(200, [NoBody EXCEPT !.transaction = "t1"])
        \/ \E body \in good : input = Http(200, body)
    <2> HIDE DEF good
    <2>1. IssuerAnswers(asked) =
            {Http(400, NoBody), Http(200, Garbage), Http(200, NoBody)} \union {Http(200, body) : body \in good}
            \union (IF asked.endpoint = "credential"
                    THEN {Http(202, NoBody), Http(200, [NoBody EXCEPT !.transaction = "t1"])} ELSE {})
      BY Zenon DEF IssuerAnswers, good, issued
    <2> QED
      BY <2>1
  <1> HIDE DEF good
  <1>5. CASE \E body \in good : input = Http(200, body)
    BY <1>1, <1>3, <1>5 DEF Http
  <1>6. CASE ~\E body \in good : input = Http(200, body)
    <2> DEFINE deferred == [NoBody EXCEPT !.transaction = "t1"]
    <2>1. deferred.credential = Absent /\ NoBody.credential = Absent
      BY <1>2
    <2> HIDE DEF deferred
    <2>2. input.body \in {NoBody, Garbage, deferred}
      BY <1>4, <1>6 DEF Http, deferred
    <2> QED
      BY <2>1, <2>2
  <1> QED
    BY <1>5, <1>6

LEMMA AnswerKeeps ==
  ASSUME WalletInv, Answer
  PROVE  WalletInv'
PROOF
  <1>1. session # Absent /\ KeepStep /\ UNCHANGED <<draft, made>>
    BY DEF Answer
  <1>2. CASE asked.kind = "PerformHttp"
    <2>1. PICK input \in IssuerAnswers(asked) : ResumeObtain(input)
      BY <1>2 DEF Answer
    <2> QED
      BY <1>1, <1>2, <2>1, AnsweredCredential, ResumeKeeps
  <1>3. CASE asked.kind # "PerformHttp"
    <2>1. PICK k \in Keys : ResumeObtain(Signature(k, asked.input.over, SignatureLength))
      BY <1>3 DEF Answer
    <2>2. Signature(k, asked.input.over, SignatureLength).kind = "signature"
      BY DEF Signature
    <2> QED
      BY <1>1, <2>1, <2>2, ResumeKeeps
  <1> QED
    BY <1>2, <1>3

LEMMA MisanswerKeeps ==
  ASSUME WalletInv, Misanswer
  PROVE  WalletInv'
PROOF
  <1>1. session # Absent /\ KeepStep /\ UNCHANGED <<draft, made>>
    BY DEF Misanswer
  <1>2. PICK by, over, length : ResumeObtain(Signature(by, over, length))
    BY DEF Misanswer
  <1>3. Signature(by, over, length).kind = "signature"
    BY DEF Signature
  <1> QED
    BY <1>1, <1>2, <1>3, ResumeKeeps

LEMMA PrepareKeeps ==
  ASSUME WalletInv, Prepare
  PROVE  WalletInv'
PROOF
  <1>1. PICK a \in held, request \in Requests : \E disclose \in Selections[a.format] :
          draft' = [prepared |-> PreparePresent(a, request, disclose, PresentedAt), request |-> request, disclose |-> disclose]
    BY DEF Prepare
  <1>2. PICK disclose \in Selections[a.format] :
          draft' = [prepared |-> PreparePresent(a, request, disclose, PresentedAt), request |-> request, disclose |-> disclose]
    BY <1>1
  <1>3. session = Absent /\ UNCHANGED <<session, asked, held, made>>
    BY DEF Prepare
  <1>4. DraftInv'
    <2>1. /\ draft'.request = request /\ draft'.disclose = disclose
          /\ draft'.prepared = PreparePresent(a, request, disclose, PresentedAt)
      BY <1>2
    <2> QED
      BY <1>3, <2>1 DEF DraftInv
  <1>5. SessionInv' /\ EffectInv' /\ HeldInv' /\ MadeInv'
    BY <1>3 DEF WalletInv, SessionInv, EffectInv, HeldInv, MadeInv
  <1> QED
    BY <1>4, <1>5 DEF WalletInv

\* What is finished is bound to the key it was signed with, for the request it was prepared for.
LEMMA FinishedIsBound ==
  ASSUME NEW a, IsIssued(a), NEW request \in Requests, NEW disclose, NEW signature, NEW prepared,
         prepared = PreparePresent(a, request, disclose, PresentedAt),
         prepared.kind = "prepared", signature.over = prepared.input.over, Finish(prepared, signature).kind # "refused",
         NEW m, DOMAIN m = {"slot", "by", "request", "disclose"}, m.slot = Finish(prepared, signature),
         m.by = signature.by, m.request = request
  PROVE  IsBound(m)
PROOF
  <1> DEFINE slot == Finish(prepared, signature)
  <1>1. CASE a.format = "SdJwtVc"
    <2>1. prepared = PrepareSdJwt(a.presentation, request, disclose, PresentedAt)
      BY <1>1 DEF PreparePresent
    <2>2. a.presentation = Issue("SdJwtVc", HolderKey)
      BY <1>1 DEF IsIssued
    <2>3. /\ {"format", "presentation", "audience"} \subseteq DOMAIN slot /\ slot.format = "SdJwtVc"
          /\ IsBoundSdJwt(slot.presentation, signature.by, request)
      BY <2>1, <2>2, IssuedSdJwt, PreparedSdJwt
    <2> QED
      BY <2>3 DEF IsBound, Formats
  <1>2. CASE a.format = "Mdoc"
    <2>1. prepared = PrepareMdoc(a.presentation, request, disclose)
      BY <1>2 DEF PreparePresent
    <2>2. a.presentation = Issue("Mdoc", HolderKey)
      BY <1>2 DEF IsIssued
    <2>3. /\ {"format", "presentation", "audience"} \subseteq DOMAIN slot /\ slot.format = "Mdoc"
          /\ IsBoundMdoc(slot.presentation, signature.by, request)
      BY <2>1, <2>2, IssuedMdoc, PreparedMdoc
    <2> QED
      BY <2>3 DEF IsBound, Formats
  <1> QED
    BY <1>1, <1>2 DEF IsIssued, Formats

LEMMA SignKeeps ==
  ASSUME WalletInv, Sign
  PROVE  WalletInv' /\ made \subseteq made'
PROOF
  <1>1. draft # Absent /\ draft' = Absent /\ UNCHANGED <<session, step, asked, held>>
    BY DEF Sign, obtainVars
  <1>2. SessionInv' /\ EffectInv' /\ HeldInv' /\ DraftInv'
    BY <1>1 DEF WalletInv, SessionInv, EffectInv, HeldInv, DraftInv
  <1>3. CASE UNCHANGED made
    BY <1>2, <1>3 DEF WalletInv, MadeInv
  <1>4. CASE ~UNCHANGED made
    <2>1. draft.prepared.kind = "prepared"
      BY <1>4 DEF Sign
    <2>2. PICK k \in Keys, length \in {SignatureLength, SignatureLength - 1} :
            LET slot == Finish(draft.prepared, [by |-> k, over |-> draft.prepared.input.over, length |-> length])
            IN  made' = IF slot.kind = "refused" THEN made
                        ELSE made \union {[slot |-> slot, by |-> k, request |-> draft.request, disclose |-> draft.disclose]}
      BY <1>4, Zenon DEF Sign
    <2> DEFINE signature == [by |-> k, over |-> draft.prepared.input.over, length |-> length]
               slot == Finish(draft.prepared, signature)
               m == [slot |-> slot, by |-> k, request |-> draft.request, disclose |-> draft.disclose]
    <2>3. signature.by = k /\ signature.over = draft.prepared.input.over
      OBVIOUS
    <2>4. slot.kind # "refused" /\ made' = made \union {m}
      BY <1>4, <2>2, Zenon
    <2> HIDE DEF signature
    <2>5. m.slot = slot /\ m.by = k /\ m.request = draft.request /\ DOMAIN m = {"slot", "by", "request", "disclose"}
      OBVIOUS
    <2> HIDE DEF m
    <2>6. PICK a \in held : draft.prepared = PreparePresent(a, draft.request, draft.disclose, PresentedAt)
      BY <1>1 DEF WalletInv, DraftInv
    <2>7. draft.request \in Requests /\ IsIssued(a)
      BY <1>1 DEF WalletInv, DraftInv, HeldInv
    <2>8. IsBound(m)
      BY <2>1, <2>3, <2>4, <2>5, <2>6, <2>7, FinishedIsBound
    <2>9. MadeInv'
      BY <2>4, <2>8 DEF WalletInv, MadeInv
    <2> QED
      BY <1>2, <2>4, <2>9 DEF WalletInv
  <1> QED
    BY <1>3, <1>4
-----------------------------------------------------------------------------
(* The verifier's steps *)

LEMMA MadeIsDecoded ==
  ASSUME WalletInv, NEW slot, IsMade(slot)
  PROVE  /\ slot.format \in Formats
         /\ IF slot.format = "Mdoc" THEN IsMdocResponse(slot.presentation) ELSE IsSdJwt(slot.presentation)
PROOF
  <1>1. PICK m \in made : slot.format = m.slot.format /\ slot.presentation = m.slot.presentation
    BY DEF IsMade
  <1>2. IsBound(m)
    BY DEF WalletInv, MadeInv
  <1> QED
    BY <1>1, <1>2 DEF IsBound, Formats, IsBoundSdJwt, IsBoundMdoc

\* Every call a verifier gets here is one it may get.
LEMMA CalledJob ==
  ASSUME WalletInv, NEW j, IsMade(j), j.role \in Roles, j.now \in Int, j.anchors = AnchorsFromWire(HostAnchors, j.now),
         j.statuses \in Seq(StatusOutcomes), DOMAIN j.tokens = {}, j.list = Absent, j.schemeAnchors = <<>>,
         j.request \in Requests
  PROVE  IsJob(j)
PROOF
  <1>1. /\ j.format \in Formats
        /\ IF j.format = "Mdoc" THEN IsMdocResponse(j.presentation) ELSE IsSdJwt(j.presentation)
    BY MadeIsDecoded
  <1>2. j.anchors.now = j.now /\ j.anchors.lists[<<j.role, j.format>>] \in {Absent} \union CertLists
    BY <1>1, TypedAnchors
  <1>3. j.schemeAnchors \in CertLists
    BY DEF CertLists
  <1>4. <<j.request.audience, j.request.nonce>> # Absent
    BY RequestsAssumption
  <1>5. IsTrustList(j.list)
    BY DEF IsTrustList
  <1> QED
    BY <1>1, <1>2, <1>3, <1>4, <1>5 DEF IsJob

\* What was made stays made.
LEMMA MadeGrows ==
  ASSUME made \subseteq made', NEW slot, IsMade(slot)
  PROVE  IsMade(slot)'
  BY DEF IsMade

LEMMA SetKept ==
  ASSUME SetInv, made \subseteq made', UNCHANGED <<set, todo>>
  PROVE  SetInv'
PROOF
  <1> SUFFICES ASSUME set' # Absent PROVE SetInv'
    BY DEF SetInv
  <1>1. /\ set.request \in Requests /\ set.now = PresentedAt /\ set.role \in Roles
        /\ set.anchors = AnchorsFromWire(HostAnchors, PresentedAt)
        /\ \A place \in SlotsOf(set.vpToken) : IsMade(set.vpToken[place[1]][place[2]])
        /\ todo \in Seq(SlotsOf(set.vpToken))
        /\ \A id \in DOMAIN set.statuses : \A i \in DOMAIN set.statuses[id] : set.statuses[id][i] \in Seq(StatusOutcomes)
        /\ DOMAIN set.tokens = {}
    BY DEF SetInv
  <1>2. \A place \in SlotsOf(set.vpToken) : IsMade(set.vpToken[place[1]][place[2]])'
    BY <1>1, MadeGrows
  <1> QED
    BY <1>1, <1>2 DEF SetInv, SlotsOf

LEMMA CallKept ==
  ASSUME CallInv, made \subseteq made', UNCHANGED <<job, set, todo>>, stage' # "idle" => stage # "idle"
  PROVE  CallInv'
PROOF
  <1> SUFFICES ASSUME stage' # "idle" PROVE CallInv'
    BY DEF CallInv
  <1>1. /\ job.request \in Requests /\ IsMade(job)
        /\ set # Absent => todo # <<>> /\ job.request = set.request
                           /\ job.format = Slot.format /\ job.presentation = Slot.presentation
    BY DEF CallInv
  <1>2. IsMade(job)' /\ Slot' = Slot
    BY <1>1 DEF IsMade, Slot
  <1> QED
    BY <1>1, <1>2 DEF CallInv

\* While the holder acts no call is made.
LEMMA HolderStep ==
  ASSUME ExchangeInv, WalletInv', made \subseteq made', UNCHANGED vpVars
  PROVE  ExchangeInv'
PROOF
  <1>1. UNCHANGED verifierVars /\ set' = set /\ todo' = todo
    BY DEF vpVars, setVars
  <1>2. UNCHANGED <<job, claimed, shown, stage>>
    BY <1>1 DEF verifierVars
  <1> QED
    BY <1>1, <1>2, StutterKeeps, PassedKept, SetKept, CallKept DEF ExchangeInv

\* While a call is under way nothing else happens to its request.
LEMMA CallStep ==
  ASSUME ExchangeInv, VerifierStep, UNCHANGED <<setVars, obtainVars, walletVars>>
  PROVE  ExchangeInv'
PROOF
  <1>1. VerifierInv'
    BY StartDocumentKeeps, SearchKeeps, TrustKeeps, StatusSignerKeeps, ListSignerKeeps DEF VerifierStep, ExchangeInv
  <1>2. PassedInv'
    BY PassedStep DEF ExchangeInv
  <1>3. UNCHANGED <<session, asked, held, draft, made, set, todo>>
    BY DEF obtainVars, walletVars, setVars
  <1>4. job' = job
    <2>1. \A known : Conclude(known) => job' = job
      BY DEF Conclude, Refuse
    <2> QED
      BY <2>1 DEF VerifierStep, StartDocument, Search, Trust, StatusSigner, ListSigner, Refuse
  <1>5. stage' # "idle" => stage # "idle"
    BY DEF VerifierStep, StartDocument, Search, Trust, StatusSigner, ListSigner
  <1> QED
    BY <1>1, <1>2, <1>3, <1>4, <1>5, WalletUnchanged, SetKept, CallKept DEF ExchangeInv

\* A call begins.
LEMMA CallBegins ==
  ASSUME ExchangeInv, NEW j, IsJob(j), Verify(j), j.request \in Requests, IsMade(j),
         UNCHANGED <<set, todo, obtainVars, walletVars>>,
         set # Absent => todo # <<>> /\ j.request = set.request /\ j.format = Slot.format /\ j.presentation = Slot.presentation
  PROVE  ExchangeInv'
PROOF
  <1>1. UNCHANGED <<session, asked, held, draft, made, set, todo>>
    BY DEF obtainVars, walletVars
  <1>2. VerifierInv'
    BY VerifyKeeps DEF ExchangeInv
  <1>3. PassedInv'
    <2>1. claimed' = <<>> /\ shown' = {}
      BY DEF Verify, ExchangeInv, VerifierInv, IdleInv
    <2> QED
      BY <2>1 DEF PassedInv
  <1>4. CallInv'
    <2>1. job' = j /\ Slot' = Slot
      BY <1>1 DEF Verify, Slot
    <2>2. IsMade(j)'
      BY <1>1, MadeGrows
    <2> QED
      BY <1>1, <2>1, <2>2 DEF CallInv, IsMade
  <1> QED
    BY <1>1, <1>2, <1>3, <1>4, WalletUnchanged, SetKept DEF ExchangeInv

\* A step between two calls.
LEMMA BetweenCalls ==
  ASSUME ExchangeInv, UNCHANGED <<obtainVars, walletVars>>, SetInv', stage' = "idle", Deliver \/ UNCHANGED verifierVars
  PROVE  ExchangeInv'
PROOF
  <1>1. UNCHANGED <<session, asked, held, draft, made>>
    BY DEF obtainVars, walletVars
  <1>2. VerifierInv'
    BY DeliverKeeps, StutterKeeps DEF ExchangeInv
  <1>3. PassedInv'
    <2>1. claimed' = <<>> /\ shown' = {}
      <3>1. CASE Deliver
        BY <3>1 DEF Deliver
      <3>2. CASE UNCHANGED verifierVars
        BY <3>2 DEF verifierVars, ExchangeInv, VerifierInv, IdleInv
      <3> QED
        BY <3>1, <3>2
    <2> QED
      BY <2>1 DEF PassedInv
  <1>4. CallInv'
    BY DEF CallInv
  <1> QED
    BY <1>1, <1>2, <1>3, <1>4, WalletUnchanged DEF ExchangeInv

LEMMA VerifyOneKeeps ==
  ASSUME ExchangeInv, VerifyOne
  PROVE  ExchangeInv'
PROOF
  <1>1. PICK m \in made, request \in Requests, now \in Times, answer \in StatusAnswers, reachability \in {"BestEffort", "Strict"} :
          ProcessVerify([schemaVersion |-> SchemaVersion, format |-> m.slot.format, presentation |-> m.slot.presentation,
                         role |-> RoleFor(m.slot), now |-> now, statuses |-> <<HostStatus(m.slot, answer, reachability)>>,
                         tokens |-> [u \in {} |-> Absent], transcript |-> Absent, request |-> request,
                         audience |-> m.slot.audience, policy |-> Policy, gate |-> FALSE, list |-> Absent,
                         schemeAnchors |-> <<>>, anchors |-> HostAnchors])
    BY DEF VerifyOne
  <1> DEFINE j == [format |-> m.slot.format, presentation |-> m.slot.presentation, role |-> RoleFor(m.slot),
                   now |-> now, statuses |-> <<HostStatus(m.slot, answer, reachability)>>,
                   tokens |-> [u \in {} |-> Absent],
                   transcript |-> Absent, request |-> request, audience |-> m.slot.audience,
                   policy |-> [Policy EXCEPT !.gate = @ \/ FALSE],
                   list |-> IF Absent = Absent THEN Absent ELSE ParseList(Absent),
                   schemeAnchors |-> <<>>,
                   anchors |-> AnchorsFromWire(HostAnchors, now)]
  <1>2. /\ set = Absent /\ UNCHANGED <<set, todo, answers, matched>>
        /\ \/ stage = "idle" /\ UNCHANGED verifierVars
           \/ Verify(j)
    BY <1>1, Zenon DEF ProcessVerify
  <1>3. UNCHANGED <<obtainVars, walletVars>> /\ stage = "idle"
    BY DEF VerifyOne
  <1>4. CASE UNCHANGED verifierVars
    <2>1. SetInv' /\ stage' = "idle"
      BY <1>2, <1>3, <1>4 DEF SetInv, verifierVars
    <2> QED
      BY <1>3, <1>4, <2>1, BetweenCalls
  <1>5. CASE Verify(j)
    <2>1. /\ j.format = m.slot.format /\ j.presentation = m.slot.presentation /\ j.role = RoleFor(m.slot)
          /\ j.now = now /\ j.statuses = <<HostStatus(m.slot, answer, reachability)>>
          /\ DOMAIN j.tokens = {} /\ j.request = request /\ j.list = Absent /\ j.schemeAnchors = <<>>
          /\ j.anchors = AnchorsFromWire(HostAnchors, now)
      OBVIOUS
    <2> HIDE DEF j
    <2>2. IsMade(j) /\ j.role \in Roles /\ j.now \in Int /\ j.request \in Requests
      BY <2>1, HostAssumption DEF IsMade, RoleFor, Roles
    <2>3. j.statuses \in Seq(StatusOutcomes)
      <3>1. HostStatus(m.slot, answer, reachability) \in StatusOutcomes
        BY TypedStatuses
      <3> QED
        BY <2>1, <3>1
    <2>4. IsJob(j)
      BY <2>1, <2>2, <2>3, CalledJob DEF ExchangeInv
    <2> QED
      BY <1>2, <1>3, <1>5, <2>2, <2>4, CallBegins
  <1> QED
    BY <1>2, <1>4, <1>5

\* The vp_tokens of the host: under one id or two, one presentation or two that were made.
LEMMA TokenSlots ==
  ASSUME WalletInv, NEW token \in VpTokens
  PROVE  /\ IsFiniteSet(DOMAIN token)
         /\ \A id \in DOMAIN token : /\ Len(token[id]) \in Nat /\ DOMAIN token[id] = 1..Len(token[id])
                                    /\ \A i \in DOMAIN token[id] : IsMade(token[id][i])
PROOF
  <1> DEFINE slots == MadeSlots
             bare == BareSlots
  <1>1. \A s \in slots : IsMade(s)
    BY DEF IsMade, MadeSlots
  <1>2. \A s \in bare : IsMade(s)
    <2>1. ASSUME NEW m \in made
          PROVE  IsMade([m.slot EXCEPT !.audience = Absent])
      <3>1. {"format", "presentation", "audience"} \subseteq DOMAIN m.slot
        BY DEF WalletInv, MadeInv, IsBound
      <3>2. [m.slot EXCEPT !.audience = Absent].format = m.slot.format
            /\ [m.slot EXCEPT !.audience = Absent].presentation = m.slot.presentation
        BY <3>1
      <3> QED
        BY <3>2 DEF IsMade
    <2> QED
      BY <2>1 DEF MadeSlots, BareSlots
  <1> DEFINE IsRow(row) == Len(row) \in Nat /\ DOMAIN row = 1..Len(row) /\ \A i \in DOMAIN row : IsMade(row[i])
  <1>4. ASSUME NEW s, IsMade(s) PROVE IsRow(<<s>>)
    BY <1>4
  <1>5. ASSUME NEW s, IsMade(s), NEW t, IsMade(t) PROVE IsRow(<<s, t>>)
    <2>1. DOMAIN <<s, t>> = {1, 2} /\ <<s, t>>[1] = s /\ <<s, t>>[2] = t
      OBVIOUS
    <2>2. \A i \in DOMAIN <<s, t>> : IsMade(<<s, t>>[i])
      BY <1>5, <2>1
    <2> QED
      BY <2>2
  <1> HIDE DEF IsRow
  <1>6. ASSUME NEW id, NEW row, IsRow(row), token = SentAs(id, row)
        PROVE  IsFiniteSet(DOMAIN token) /\ \A k \in DOMAIN token : IsRow(token[k])
    BY <1>6, FS_Singleton DEF SentAs
  <1>7. ASSUME NEW s \in slots, NEW t \in slots, token = SentBoth(s, t)
        PROVE  IsFiniteSet(DOMAIN token) /\ \A k \in DOMAIN token : IsRow(token[k])
    <2>1. DOMAIN token = {"a", "b"} /\ token["a"] = <<s>> /\ token["b"] = <<t>>
      BY <1>7 DEF SentBoth
    <2>2. IsRow(<<s>>) /\ IsRow(<<t>>)
      BY <1>1, <1>4
    <2>3. IsFiniteSet({"a", "b"})
      <3>1. IsFiniteSet({"a"})
        BY FS_Singleton
      <3>2. IsFiniteSet({"a"} \union {"b"})
        BY <3>1, FS_AddElement
      <3>3. {"a", "b"} = {"a"} \union {"b"}
        OBVIOUS
      <3> QED
        BY <3>2, <3>3
    <2> QED
      BY <2>1, <2>2, <2>3
  <1>8. \/ \E id : \E s \in slots \union bare : token = SentAs(id, <<s>>)
        \/ \E s, t \in slots : token = SentAs("a", <<s, t>>)
        \/ \E s, t \in slots : token = SentBoth(s, t)
    BY DEF VpTokens
  <1>9. IsFiniteSet(DOMAIN token) /\ \A k \in DOMAIN token : IsRow(token[k])
    <2>1. ASSUME NEW id, NEW s \in slots \union bare, token = SentAs(id, <<s>>)
          PROVE  IsFiniteSet(DOMAIN token) /\ \A k \in DOMAIN token : IsRow(token[k])
      BY <1>1, <1>2, <1>4, <1>6, <2>1
    <2>2. ASSUME NEW s \in slots, NEW t \in slots, token = SentAs("a", <<s, t>>)
          PROVE  IsFiniteSet(DOMAIN token) /\ \A k \in DOMAIN token : IsRow(token[k])
      BY <1>1, <1>5, <1>6, <2>2
    <2> QED
      BY <1>7, <1>8, <2>1, <2>2
  <1> QED
    BY <1>9 DEF IsRow

\* The slots that are put in line are slots of the ids put in line, those of an id in a row.
LineOf(token, ids) == {place \in SlotsOf(token) : place[1] \in ids}
RowsOf(token, order) == [k \in DOMAIN order |-> [i \in DOMAIN token[order[k]] |-> <<order[k], i>>]]
LEMMA SlotsInLine ==
  ASSUME NEW token, NEW ids, ids \subseteq DOMAIN token, IsFiniteSet(ids),
         \A id \in DOMAIN token : Len(token[id]) \in Nat /\ DOMAIN token[id] = 1..Len(token[id]),
         NEW line, line = FlattenSeq(RowsOf(token, SetToSeq(ids)))
  PROVE  line \in Seq(LineOf(token, ids)) /\ InRows(line)
PROOF
  <1> DEFINE X == LineOf(token, ids)
             Slots(id) == [i \in DOMAIN token[id] |-> <<id, i>>]
             order == SetToSeq(ids)
             seqs == [k \in DOMAIN order |-> Slots(order[k])]
  <1>1. order \in Seq(ids) /\ IsInjective(order)
    BY ListedSet
  <1>1a. line = FlattenSeq(seqs)
    BY Zenon DEF RowsOf, Slots
  <1> HIDE DEF order
  <1>2. Len(order) \in Nat /\ DOMAIN order = 1..Len(order) /\ \A k \in 1..Len(order) : order[k] \in ids
    BY <1>1
  <1>3. ASSUME NEW id \in ids PROVE Slots(id) \in Seq(X) /\ \A i \in DOMAIN Slots(id) : Slots(id)[i] = <<id, i>>
    <2>1. \A i \in DOMAIN token[id] : <<id, i>> \in X
      BY DEF SlotsOf, LineOf
    <2>2. Len(token[id]) \in Nat /\ DOMAIN token[id] = 1..Len(token[id])
      OBVIOUS
    <2> HIDE DEF X
    <2> QED
      BY <2>1, <2>2
  <1>4. line = FlattenSeq(seqs)
    BY <1>1a
  <1> HIDE DEF X, Slots
  <1>5. seqs \in Seq(Seq(X)) /\ Len(seqs) = Len(order) /\ \A k \in 1..Len(order) : seqs[k] = Slots(order[k])
    BY <1>2, <1>3
  <1> HIDE DEF seqs
  <1>6. Len(seqs) \in Nat /\ \A k \in 1..Len(seqs) : seqs[k] \in Seq(X)
    BY <1>5
  <1>7. CASE Len(seqs) = 0
    <2>1. seqs \in Seq(X) /\ DOMAIN seqs = {} /\ FlattenSeq(seqs) = seqs
      BY <1>5, <1>7 DEF FlattenSeq
    <2> QED
      BY <1>4, <2>1 DEF InRows, X
  <1>8. CASE Len(seqs) # 0
    <2> DEFINE n == Len(seqs)
    <2>1. PICK f : /\ FlattenSeq(seqs) = f[n]
                   /\ \A i \in 1..n : f[i] = IF i = 1 THEN seqs[i] ELSE f[i - 1] \o seqs[i]
      BY <1>6, <1>8, FlatByParts
    <2> DEFINE Holds(part, i) == /\ part \in Seq(X) /\ InRows(part)
                                 /\ \A k \in DOMAIN part : \E h \in 1..i : part[k][1] = order[h]
               T == {i \in 0..n : i # 0 => Holds(f[i], i)}
    <2>2. 0 \in T
      OBVIOUS
    <2>3. ASSUME NEW i \in 1..n
          PROVE  /\ seqs[i] \in Seq(X) /\ \A k \in DOMAIN seqs[i] : seqs[i][k] = <<order[i], k>>
                 /\ \A h \in 1..(i - 1) : order[h] # order[i]
      <3>1. order[i] \in ids /\ seqs[i] = Slots(order[i])
        BY <1>2, <1>5
      <3>2. ASSUME NEW h \in 1..(i - 1) PROVE order[h] # order[i]
        <4>1. h \in DOMAIN order /\ i \in DOMAIN order /\ h # i
          BY <1>2, <1>5
        <4> QED
          BY <1>1, <4>1 DEF IsInjective
      <3> QED
        BY <1>3, <3>1, <3>2
    <2>4. ASSUME NEW i \in 1..n, i - 1 \in T
          PROVE  i \in T
      <3>1. CASE i = 1
        <4>1. f[i] = seqs[i] /\ DOMAIN seqs[i] = 1..Len(seqs[i]) /\ Len(seqs[i]) \in Nat
          BY <2>1, <2>3, <3>1
        <4>2. \A k \in DOMAIN seqs[i] : seqs[i][k][1] = order[i] /\ seqs[i][k][2] = k
          BY <2>3
        <4>3. InRows(seqs[i])
          BY <4>1, <4>2 DEF InRows, FollowsIn
        <4> QED
          BY <2>3, <4>1, <4>2, <4>3
      <3>2. CASE i # 1
        <4>1. Holds(f[i - 1], i - 1) /\ f[i] = f[i - 1] \o seqs[i]
          <5> HIDE DEF Holds
          <5>1. i - 1 # 0
            BY <3>2
          <5> QED
            BY <2>1, <2>4, <3>2, <5>1
        <4>2. \A k \in DOMAIN f[i - 1] : f[i - 1][k][1] # order[i]
          BY <2>3, <4>1
        <4>3. InRows(f[i])
          <5> DEFINE before == f[i - 1]
                     row == seqs[i]
                     last == order[i]
          <5>1. before \in Seq(X) /\ InRows(before) /\ row \in Seq(X)
            BY <2>3, <4>1
          <5>2. (\A k \in DOMAIN before : before[k][1] # last) /\ \A k \in DOMAIN row : row[k] = <<last, k>>
            BY <2>3, <4>2
          <5> HIDE DEF before, row, last
          <5>3. InRows(before \o row)
            BY <5>1, <5>2, OneMoreRow
          <5> QED
            BY <4>1, <5>3 DEF before, row
        <4>4. f[i] \in Seq(X)
          BY <2>3, <4>1
        <4>5. \A k \in DOMAIN f[i] : \E h \in 1..i : f[i][k][1] = order[h]
          <5> DEFINE before == f[i - 1]
                     row == seqs[i]
          <5>1. before \in Seq(X) /\ row \in Seq(X)
            BY <2>3, <4>1
          <5>2. /\ \A k \in DOMAIN before : \E h \in 1..(i - 1) : before[k][1] = order[h]
                /\ \A k \in DOMAIN row : row[k][1] = order[i]
            BY <2>3, <4>1
          <5> HIDE DEF before, row
          <5>3. \A k \in DOMAIN (before \o row) :
                  \/ k \in DOMAIN before /\ (before \o row)[k] = before[k]
                  \/ k - Len(before) \in DOMAIN row /\ (before \o row)[k] = row[k - Len(before)]
            BY <5>1
          <5>4. \A k \in DOMAIN (before \o row) : \E h \in 1..i : (before \o row)[k][1] = order[h]
            BY <5>2, <5>3
          <5> QED
            BY <4>1, <5>4 DEF before, row
        <4> QED
          BY <4>3, <4>4, <4>5
      <3> QED
        BY <3>1, <3>2
    <2> HIDE DEF T
    <2>5. \A i \in 0..n : i \in T
      BY <1>6, <2>2, <2>4, CountingUp
    <2> QED
      BY <1>4, <1>6, <1>8, <2>1, <2>5 DEF T, X
  <1> QED
    BY <1>7, <1>8

\* A vp_token that is taken on.
LEMMA TakenOn ==
  ASSUME ExchangeInv, NEW token \in VpTokens, NEW request \in Requests, NEW given \in {1, 2}, NEW req,
         req = [schemaVersion |-> SchemaVersion, request |-> request, vpToken |-> token, policy |-> Policy,
                anchors |-> HostAnchors, now |-> PresentedAt, role |-> "NonQualifiedEaa", tokens |-> [u \in {} |-> Absent],
                statuses |-> [id \in {"a", "b"} |-> [i \in 1..given |-> <<"Good">>]]],
         ProcessVpToken(req), UNCHANGED <<obtainVars, walletVars>>
  PROVE  SetInv' /\ AnswerInv'
PROOF
  <1>1. /\ req.request = request /\ req.vpToken = token /\ req.anchors = HostAnchors /\ req.now = PresentedAt
        /\ req.role = "NonQualifiedEaa" /\ DOMAIN req.tokens = {} /\ DOMAIN req.statuses = {"a", "b"}
        /\ \A id \in {"a", "b"} : req.statuses[id] = [i \in 1..given |-> <<"Good">>]
        /\ {"request", "vpToken", "anchors", "now", "role", "tokens", "statuses"} \subseteq DOMAIN req
    OBVIOUS
  <1> DEFINE query == SentQuery(req.request)
             ids   == {id \in DOMAIN req.vpToken : IsAnswerable(query, id, req.vpToken[id])}
             Slots(id) == [i \in DOMAIN req.vpToken[id] |-> <<id, i>>]
             order == SetToSeq(ids)
             line == FlattenSeq([k \in DOMAIN order |-> Slots(order[k])])
             taken == [req EXCEPT !.anchors = AnchorsFromWire(@, req.now)]
  <1>2. \/ set' = set /\ todo' = todo /\ set = Absent
        \/ set' = taken /\ todo' = line /\ answers' = [id \in DOMAIN req.vpToken |-> <<>>] /\ matched' = {}
    BY Zenon DEF ProcessVpToken
  <1>3a. OutcomeInv'
    BY DEF ProcessVpToken, OutcomeInv, Err
  <1>3. made' = made
    BY DEF walletVars
  <1>4. CASE set' = set /\ todo' = todo /\ set = Absent
    BY <1>4, <1>3a DEF SetInv, AnswerInv, LineInv, MatchedInv
  <1>5. CASE set' = taken /\ todo' = line /\ answers' = [id \in DOMAIN req.vpToken |-> <<>>] /\ matched' = {}
    <2>1. /\ taken.request = request /\ taken.vpToken = token /\ taken.now = PresentedAt
          /\ taken.role = "NonQualifiedEaa" /\ taken.tokens = req.tokens /\ taken.statuses = req.statuses
          /\ taken.anchors = AnchorsFromWire(HostAnchors, PresentedAt)
      <3> HIDE DEF AnchorsFromWire
      <3> QED
        BY <1>1
    <2>2. /\ IsFiniteSet(DOMAIN token)
          /\ \A id \in DOMAIN token : /\ Len(token[id]) \in Nat /\ DOMAIN token[id] = 1..Len(token[id])
                                     /\ \A i \in DOMAIN token[id] : IsMade(token[id][i])
      BY TokenSlots DEF ExchangeInv
    <2>3. line \in Seq(LineOf(token, ids)) /\ InRows(line)
      <3>1. ids \subseteq DOMAIN token
        BY <1>1
      <3>2. IsFiniteSet(ids)
        BY <2>2, <3>1, FS_Subset
      <3> HIDE DEF ids
      <3>3. line = FlattenSeq(RowsOf(token, SetToSeq(ids)))
        <4>1. req.vpToken = token
          BY <1>1
        <4> QED
          BY <4>1, Zenon DEF RowsOf, Slots
      <3> HIDE DEF line
      <3> QED
        BY <2>2, <3>1, <3>2, <3>3, SlotsInLine
    <2>4. \A place \in SlotsOf(token) : IsMade(token[place[1]][place[2]])
      BY <2>2 DEF SlotsOf
    <2>5. \A id \in DOMAIN req.statuses : \A i \in DOMAIN req.statuses[id] : req.statuses[id][i] \in Seq(StatusOutcomes)
      <3>1. <<"Good">> \in Seq(StatusOutcomes)
        BY DEF StatusOutcomes
      <3>2. ASSUME NEW id \in {"a", "b"}, NEW i \in DOMAIN req.statuses[id]
            PROVE  req.statuses[id][i] = <<"Good">>
        BY <1>1
      <3> QED
        BY <1>1, <3>1, <3>2
    <2>6. \A id \in ids : IsAnswerable(SentQuery(request), id, token[id])
      BY <1>1, Zenon
    <2>7. \A place \in LineOf(token, ids) : place \in SlotsOf(token) /\ place[1] \in ids
      BY DEF LineOf
    <2> HIDE DEF line, taken, ids
    <2>8. line \in Seq(SlotsOf(token)) /\ \A k \in DOMAIN line : line[k][1] \in ids
      <3> DEFINE X == LineOf(token, ids)
      <3> HIDE DEF X
      <3>1. line \in Seq(X) /\ \A place \in X : place \in SlotsOf(token) /\ place[1] \in ids
        BY <2>3, <2>7 DEF X
      <3>2. \A k \in DOMAIN line : line[k] \in X
        BY <3>1
      <3>3. line \in Seq(SlotsOf(token))
        BY <3>1, <3>2
      <3> QED
        BY <3>1, <3>2, <3>3
    <2>9. \A place \in SlotsOf(token) : IsMade(token[place[1]][place[2]])'
      BY <1>3, <2>4 DEF IsMade
    <2>10. SetInv'
      BY <1>1, <1>5, <2>1, <2>8, <2>5, <2>9 DEF SetInv, Roles
    <2>11. set'.request = request /\ set'.vpToken = token /\ answers' = [id \in DOMAIN token |-> <<>>]
      BY <1>1, <1>5, <2>1
    <2>12. \A k \in DOMAIN line :
             /\ IsAnswerable(SentQuery(request), line[k][1], token[line[k][1]])
             /\ IF FollowsIn(line, k) THEN line[k][2] = line[k - 1][2] + 1
                ELSE line[k][2] = 1 /\ \A j \in 1..(k - 1) : line[j][1] # line[k][1]
      BY <2>3, <2>6, <2>8 DEF InRows
    <2>13. \A k \in DOMAIN line : line[k][1] \in DOMAIN token
      <3>1. \A id \in ids : id \in DOMAIN token
        BY <1>1 DEF ids
      <3> QED
        BY <2>8, <3>1
    <2>14. LineInv'
      <3>1. \A id \in DOMAIN token : IsSequence(<<>>) /\ Len(<<>>) + 1 = 1
        BY DEF IsSequence
      <3>2. \A id \in DOMAIN token : answers'[id] = <<>>
        BY <2>11
      <3>3. \A k \in DOMAIN todo' : Len(answers'[todo'[k][1]]) + 1 = 1
        BY <1>5, <2>13, <3>1, <3>2
      <3> QED
        BY <1>5, <2>11, <2>12, <3>1, <3>2, <3>3, Zenon DEF LineInv
    <2> QED
      BY <1>5, <1>3a, <2>10, <2>14 DEF AnswerInv, MatchedInv
  <1> QED
    BY <1>2, <1>4, <1>5

LEMMA VerifySetKeeps ==
  ASSUME ExchangeInv, VerifySet
  PROVE  ExchangeInv'
PROOF
  <1>1. PICK token \in VpTokens, request \in Requests, given \in {1, 2} :
          ProcessVpToken([schemaVersion |-> SchemaVersion, request |-> request, vpToken |-> token, policy |-> Policy,
                          anchors |-> HostAnchors, now |-> PresentedAt, role |-> "NonQualifiedEaa",
                          tokens |-> [u \in {} |-> Absent],
                          statuses |-> [id \in {"a", "b"} |-> [i \in 1..given |-> <<"Good">>]]])
    BY DEF VerifySet
  <1>2. UNCHANGED <<obtainVars, walletVars>> /\ stage = "idle"
    BY DEF VerifySet
  <1>3. SetInv' /\ AnswerInv'
    BY <1>1, <1>2, TakenOn
  <1>4. UNCHANGED verifierVars /\ stage' = "idle"
    BY <1>1, <1>2 DEF ProcessVpToken, verifierVars
  <1> QED
    BY <1>2, <1>3, <1>4, BetweenCalls

LEMMA VerifyRefusedKeeps ==
  ASSUME ExchangeInv, VerifyRefused
  PROVE  ExchangeInv'
PROOF
  <1> DEFINE gated == [schemaVersion |-> SchemaVersion, policy |-> [Policy EXCEPT !.gate = TRUE]]
  <1>1. UNCHANGED <<obtainVars, walletVars>> /\ stage = "idle"
    BY DEF VerifyRefused
  <1>2. UNCHANGED verifierVars /\ UNCHANGED <<set, todo>>
    <2>1. CASE ProcessVerify(Garbage)
      BY <2>1 DEF ProcessVerify, IsSpoken
    <2>2. CASE ProcessVerify([schemaVersion |-> Absent])
      BY <2>2, SchemaAssumption DEF ProcessVerify, IsSpoken
    <2>3. CASE ProcessVpToken(gated)
      <3>1. gated.policy.gate
        BY DEF Policy
      <3> HIDE DEF gated
      <3> QED
        BY <2>3, <3>1 DEF ProcessVpToken
    <2> QED
      BY <2>1, <2>2, <2>3 DEF VerifyRefused
  <1>3. SetInv'
    BY <1>1, <1>2, SetKept DEF ExchangeInv, walletVars
  <1> QED
    BY <1>1, <1>2, <1>3, BetweenCalls DEF verifierVars

\* The slot at hand of a vp_token, and what it is verified with.
LEMMA SlotAtHand ==
  ASSUME ExchangeInv, set # Absent, todo # <<>>
  PROVE  /\ IsMade(Slot) /\ SlotRole \in Roles /\ SlotStatuses \in Seq(StatusOutcomes)
         /\ Head(todo) \in SlotsOf(set.vpToken) /\ Tail(todo) \in Seq(SlotsOf(set.vpToken))
PROOF
  <1>1. /\ set.role \in Roles /\ todo \in Seq(SlotsOf(set.vpToken))
        /\ \A place \in SlotsOf(set.vpToken) : IsMade(set.vpToken[place[1]][place[2]])
        /\ \A id \in DOMAIN set.statuses : \A i \in DOMAIN set.statuses[id] : set.statuses[id][i] \in Seq(StatusOutcomes)
    BY DEF ExchangeInv, SetInv
  <1>2. Head(todo) \in SlotsOf(set.vpToken) /\ Tail(todo) \in Seq(SlotsOf(set.vpToken))
    <2> DEFINE X == SlotsOf(set.vpToken)
    <2> HIDE DEF X
    <2>1. todo \in Seq(X)
      BY <1>1 DEF X
    <2>2. Head(todo) \in X /\ Tail(todo) \in Seq(X)
      BY <2>1
    <2> QED
      BY <2>2 DEF X
  <1>3. IsMade(Slot)
    BY <1>1, <1>2 DEF Slot
  <1>4. SlotRole \in Roles
    BY <1>1 DEF SlotRole, RoleFromMeta, Roles
  <1>5. SlotStatuses \in Seq(StatusOutcomes)
    BY <1>1 DEF SlotStatuses
  <1> QED
    BY <1>2, <1>3, <1>4, <1>5

LEMMA OpenSlotKeeps ==
  ASSUME ExchangeInv, OpenSlot, UNCHANGED <<obtainVars, walletVars>>
  PROVE  ExchangeInv'
PROOF
  <1>1. set # Absent /\ stage = "idle" /\ todo # <<>>
    BY DEF OpenSlot
  <1>2. /\ set.request \in Requests /\ set.now = PresentedAt /\ set.role \in Roles
        /\ set.anchors = AnchorsFromWire(HostAnchors, PresentedAt) /\ DOMAIN set.tokens = {}
    BY <1>1 DEF ExchangeInv, SetInv
  <1>3. CASE UNCHANGED verifierVars /\ UNCHANGED set /\ todo' = Tail(todo)
    <2>1. SetInv'
      <3>1. made' = made
        BY DEF walletVars
      <3>2. Tail(todo) \in Seq(SlotsOf(set.vpToken))
        BY <1>1, SlotAtHand
      <3> QED
        BY <1>3, <3>1, <3>2 DEF ExchangeInv, SetInv, SlotsOf, IsMade
    <2> QED
      BY <1>1, <1>3, <2>1, BetweenCalls DEF verifierVars
  <1> DEFINE j == [format |-> Slot.format, presentation |-> Slot.presentation, role |-> SlotRole,
                   now |-> set.now, statuses |-> SlotStatuses, tokens |-> set.tokens, transcript |-> Absent,
                   request |-> set.request, audience |-> Slot.audience, policy |-> set.policy,
                   list |-> Absent, schemeAnchors |-> <<>>, anchors |-> set.anchors]
  <1>4. CASE Verify(j) /\ UNCHANGED setVars
    <2>1. /\ j.format = Slot.format /\ j.presentation = Slot.presentation /\ j.role = SlotRole /\ j.now = set.now
          /\ j.statuses = SlotStatuses /\ j.tokens = set.tokens /\ j.request = set.request /\ j.list = Absent
          /\ j.schemeAnchors = <<>> /\ j.anchors = set.anchors
      OBVIOUS
    <2> HIDE DEF j
    <2>2. IsMade(Slot) /\ SlotRole \in Roles /\ SlotStatuses \in Seq(StatusOutcomes)
      BY <1>1, SlotAtHand
    <2>3. IsMade(j)
      BY <2>1, <2>2 DEF IsMade
    <2>4. IsJob(j)
      BY <1>2, <2>1, <2>2, <2>3, HostAssumption, CalledJob DEF ExchangeInv
    <2> QED
      BY <1>1, <1>2, <1>4, <2>1, <2>3, <2>4, CallBegins DEF setVars
  <1> QED
    BY <1>3, <1>4, Zenon DEF OpenSlot, Answered1

LEMMA CloseSlotKeeps ==
  ASSUME ExchangeInv, CloseSlot, UNCHANGED <<obtainVars, walletVars>>
  PROVE  ExchangeInv'
PROOF
  <1>1. set # Absent /\ stage = "done" /\ todo' = Tail(todo) /\ Deliver /\ set' = set /\ made' = made
    BY DEF CloseSlot, Answered1, walletVars
  <1>2. todo # <<>>
    BY <1>1 DEF ExchangeInv, CallInv
  <1>3. SetInv'
    <2>1. Tail(todo) \in Seq(SlotsOf(set.vpToken))
      BY <1>1, <1>2, SlotAtHand
    <2> QED
      BY <1>1, <2>1 DEF ExchangeInv, SetInv, SlotsOf, IsMade
  <1>4. stage' = "idle"
    BY <1>1 DEF Deliver
  <1> QED
    BY <1>1, <1>3, <1>4, BetweenCalls

LEMMA VerifierWorksKeeps ==
  ASSUME ExchangeInv, VerifierWorks
  PROVE  ExchangeInv'
PROOF
  <1>1. UNCHANGED <<obtainVars, walletVars>> /\ made' = made
    BY DEF VerifierWorks, walletVars
  <1>2. CASE VerifierStep /\ UNCHANGED setVars
    BY <1>1, <1>2, CallStep
  <1>3. CASE RespondVerify
    <2>1. Deliver /\ UNCHANGED <<set, todo>> /\ stage' = "idle"
      BY <1>3 DEF RespondVerify, Deliver
    <2> QED
      BY <1>1, <2>1, SetKept, BetweenCalls DEF ExchangeInv
  <1>4. CASE OpenSlot
    BY <1>1, <1>4, OpenSlotKeeps
  <1>5. CASE CloseSlot
    BY <1>1, <1>5, CloseSlotKeeps
  <1>6. CASE FinishSet
    <2>1. UNCHANGED verifierVars /\ UNCHANGED <<set, todo>> /\ stage' = "idle"
      BY <1>6 DEF FinishSet, verifierVars
    <2> QED
      BY <1>1, <2>1, SetKept, BetweenCalls DEF ExchangeInv
  <1>7. CASE Respond
    <2>1. UNCHANGED verifierVars /\ set' = Absent /\ stage' = "idle"
      BY <1>7 DEF Respond, verifierVars
    <2>2. SetInv'
      BY <2>1 DEF SetInv
    <2> QED
      BY <1>1, <2>1, <2>2, BetweenCalls
  <1> QED
    BY <1>2, <1>3, <1>4, <1>5, <1>6, <1>7 DEF VerifierWorks, VpTokenStep

-----------------------------------------------------------------------------
(* Theorems *)

LEMMA InitExchangeInv == ExchangeInit => ExchangeInv
PROOF
  <1> SUFFICES ASSUME ExchangeInit PROVE ExchangeInv
    OBVIOUS
  <1>1. VerifierInit /\ set = Absent
    BY DEF ExchangeInit, VpTokenInit
  <1>2. VerifierInv /\ PassedInv /\ CallInv /\ SetInv
    BY <1>1, InitVerifierInv, NoneHasPassed DEF VerifierInit, CallInv, SetInv
  <1>3. WalletInv
    BY DEF ExchangeInit, ObtainInit, WalletInv, SessionInv, EffectInv, HeldInv, DraftInv, MadeInv
  <1> QED
    BY <1>2, <1>3 DEF ExchangeInv

LEMMA HolderKeeps ==
  ASSUME ExchangeInv, Begin \/ Answer \/ Misanswer \/ Prepare \/ Sign
  PROVE  ExchangeInv'
PROOF
  <1>1. UNCHANGED vpVars
    BY DEF Begin, Answer, Misanswer, Prepare, Sign
  <1>2. WalletInv' /\ made \subseteq made'
    <2>1. CASE Sign
      BY <2>1, SignKeeps DEF ExchangeInv
    <2>2. CASE Begin \/ Answer \/ Misanswer \/ Prepare
      <3>1. made' = made
        BY <2>2 DEF Begin, Answer, Misanswer, Prepare
      <3> QED
        BY <2>2, <3>1, BeginKeeps, AnswerKeeps, MisanswerKeeps, PrepareKeeps DEF ExchangeInv
    <2> QED
      BY <2>1, <2>2
  <1> QED
    BY <1>1, <1>2, HolderStep

(* The chain from the holder's key to the verifier is kept whatever the issuer, the host and the
   network do: an attestation is issued to the key the session has proved, a presentation is
   bound to it and to one request, what is verified was made by somebody, and a call verifies
   just what it was given (obtain.rs, present.rs, verify_vp_token_slots). *)
THEOREM ExchangeInvariance == ExchangeSpec => []ExchangeInv
PROOF
  <1>1. ExchangeInv /\ [ExchangeNext]_exchangeVars => ExchangeInv'
    <2> SUFFICES ASSUME ExchangeInv, [ExchangeNext]_exchangeVars PROVE ExchangeInv'
      OBVIOUS
    <2>1. CASE UNCHANGED exchangeVars
      <3>1. UNCHANGED <<session, asked, held, draft, made>> /\ UNCHANGED vpVars
        BY <2>1 DEF exchangeVars, obtainVars, walletVars
      <3> QED
        BY <3>1, WalletUnchanged, HolderStep DEF ExchangeInv
    <2>2. CASE Begin \/ Answer \/ Misanswer \/ Prepare \/ Sign
      BY <2>2, HolderKeeps
    <2> QED
      BY <2>1, <2>2, VerifyOneKeeps, VerifySetKeeps, VerifyRefusedKeeps, VerifierWorksKeeps DEF ExchangeNext
  <1> QED
    BY <1>1, InitExchangeInv, PTL DEF ExchangeSpec

\* Who made what is accepted: the holder, for this request.
LEMMA AcceptedIsTheHolders ==
  ASSUME ExchangeInv, stage = "done", verdict.valid
  PROVE  Verified(job.presentation, job.request) # {}
PROOF
  <1>1. job.request \in Requests /\ IsMade(job)
    BY DEF ExchangeInv, CallInv
  <1>2. PICK m \in made : job.format = m.slot.format /\ job.presentation = m.slot.presentation
    BY <1>1 DEF IsMade
  <1>3. IsBound(m)
    BY DEF ExchangeInv, WalletInv, MadeInv
  <1>4. \A n \in DOMAIN Docs : IsSound(Docs[n])
    BY AcceptedDocuments DEF ExchangeInv
  <1>5. job.request # Absent /\ \A r \in Requests : r.nonce = job.request.nonce => r = job.request
    BY <1>1, RequestsAssumption
  <1>6. m.by = HolderKey /\ m.request.nonce = job.request.nonce
    <2>1. CASE IsMdoc
      <3> DEFINE d == Docs[1]
      <3>1. Docs = m.slot.presentation.documents /\ IsBoundMdoc(m.slot.presentation, m.by, m.request)
        BY <1>2, <1>3, <2>1 DEF Docs, IsMdoc, IsBound
      <3>2. /\ Mso(d).deviceKey = HolderKey /\ d.deviceSigned.signature.by = m.by
            /\ d.deviceSigned.signature.over[1] = Handover(m.request)
        BY <3>1 DEF IsBoundMdoc
      <3>3. 1 \in DOMAIN Docs
        <4>1. Len(Docs) = 1
          BY <3>1 DEF IsBoundMdoc
        <4>2. Len(claimed) = 1 /\ ClaimedInv
          BY <4>1 DEF ExchangeInv, VerifierInv, ValidInv
        <4>3. 1 \in DOMAIN claimed
          BY <4>2 DEF ClaimedInv, IsSequence
        <4> QED
          BY <4>2, <4>3 DEF ClaimedInv
      <3>4. MdocIsSound(d)
        BY <1>4, <2>1, <3>3 DEF IsSound
      <3>5. d.deviceSigned.signature.by = Mso(d).deviceKey
            /\ d.deviceSigned.signature.over = <<SessionOf(job.request), d.docType, d.deviceSigned.nameSpaces>>
        BY <3>4 DEF MdocIsSound
      <3>6. SessionOf(job.request) = Handover(m.request)
        BY <3>2, <3>5
      <3> QED
        BY <1>5, <3>2, <3>5, <3>6 DEF SessionOf, Handover
    <2>2. CASE ~IsMdoc
      <3> DEFINE p == job.presentation
      <3>1. Docs = <<p>> /\ m.slot.format = "SdJwtVc"
        BY <1>2, <1>3, <2>2 DEF Docs, IsMdoc, IsBound, Formats
      <3>2. SdJwtIsSound(p)
        BY <1>4, <2>2, <3>1 DEF IsSound
      <3>3. IsBoundSdJwt(p, m.by, m.request)
        BY <1>2, <1>3, <3>1 DEF IsBound
      <3> QED
        BY <1>5, <3>2, <3>3 DEF SdJwtIsSound, IsBoundSdJwt
    <2> QED
      BY <2>1, <2>2
  <1>7. m \in Verified(job.presentation, job.request)
    BY <1>2, <1>3, <1>5, <1>6 DEF Verified, IsBound
  <1> QED
    BY <1>7

(* What a verifier accepts for a request was made for that very request, by the holder the
   attestation is bound to, for any number of holders' keys, requests and presentations, and
   wherever they are brought (present.rs, verify_response, verify_vp_token). *)
THEOREM AcceptedStaysMadeForIt == ExchangeSpec => []AcceptedWasMadeForIt
PROOF
  <1>1. ExchangeInv => AcceptedWasMadeForIt
    BY AcceptedIsTheHolders DEF AcceptedWasMadeForIt
  <1> QED
    BY <1>1, ExchangeInvariance, PTL

-----------------------------------------------------------------------------
(* A vp_token *)

\* The next place is answered, and the line moves on.
LEMMA LineMovesOn ==
  ASSUME ExchangeInv, AnswerInv, set # Absent, todo # <<>>, NEW answer, Answered1(answer), set' = set,
         NEW id, id = Head(todo)[1], NEW i, i = Head(todo)[2]
  PROVE  /\ LineInv' /\ DOMAIN answers' = DOMAIN answers
         /\ id \in DOMAIN set.vpToken /\ i \in DOMAIN set.vpToken[id]
         /\ IsAnswerable(SentQuery(set.request), id, set.vpToken[id])
         /\ i \in DOMAIN answers'[id] /\ answers'[id][i] = answer
         /\ \A other \in DOMAIN answers : \A k \in DOMAIN answers[other] :
              k \in DOMAIN answers'[other] /\ answers'[other][k] = answers[other][k]
PROOF
  <1> DEFINE n == Len(todo)
             rest == Tail(todo)
  <1>1. /\ DOMAIN answers = DOMAIN set.vpToken /\ \A other \in DOMAIN answers : IsSequence(answers[other])
        /\ \A k \in DOMAIN todo :
             /\ IsAnswerable(SentQuery(set.request), todo[k][1], set.vpToken[todo[k][1]])
             /\ IF FollowsIn(todo, k) THEN todo[k][2] = todo[k - 1][2] + 1
                ELSE todo[k][2] = Len(answers[todo[k][1]]) + 1 /\ \A j \in 1..(k - 1) : todo[j][1] # todo[k][1]
    BY DEF AnswerInv, LineInv
  <1>2. /\ n \in Nat /\ n > 0 /\ DOMAIN todo = 1..n /\ Head(todo) = todo[1]
        /\ DOMAIN rest = 1..(n - 1) /\ \A k \in 1..(n - 1) : rest[k] = todo[k + 1]
    <2> DEFINE X == SlotsOf(set.vpToken)
    <2> HIDE DEF X
    <2>1. todo \in Seq(X)
      BY DEF ExchangeInv, SetInv, X
    <2> QED
      BY <2>1
  <1>3. \A k \in DOMAIN todo : todo[k][1] \in DOMAIN set.vpToken /\ todo[k][2] \in DOMAIN set.vpToken[todo[k][1]]
    <2> DEFINE X == SlotsOf(set.vpToken)
    <2>1. \A place \in X : place[1] \in DOMAIN set.vpToken /\ place[2] \in DOMAIN set.vpToken[place[1]]
      BY DEF SlotsOf
    <2> HIDE DEF X
    <2>2. todo \in Seq(X)
      BY DEF ExchangeInv, SetInv, X
    <2>3. \A k \in DOMAIN todo : todo[k] \in X
      BY <2>2
    <2> QED
      BY <2>1, <2>3
  <1>4. id = todo[1][1] /\ i = todo[1][2] /\ id \in DOMAIN answers /\ id \in DOMAIN set.vpToken
        /\ i \in DOMAIN set.vpToken[id] /\ IsAnswerable(SentQuery(set.request), id, set.vpToken[id])
    BY <1>1, <1>2, <1>3
  <1>5. i = Len(answers[id]) + 1
    BY <1>1, <1>2, <1>4 DEF FollowsIn
  <1>6. /\ answers' = [answers EXCEPT ![id] = Append(@, answer)] /\ todo' = rest
        /\ DOMAIN answers' = DOMAIN answers /\ answers'[id] = Append(answers[id], answer)
        /\ \A other \in DOMAIN answers : other # id => answers'[other] = answers[other]
    BY <1>4 DEF Answered1
  <1>7. /\ IsSequence(answers'[id]) /\ Len(answers'[id]) = Len(answers[id]) + 1 /\ Len(answers[id]) \in Nat
        /\ DOMAIN answers'[id] = DOMAIN answers[id] \union {Len(answers[id]) + 1}
        /\ answers'[id][Len(answers[id]) + 1] = answer
        /\ \A k \in DOMAIN answers[id] : answers'[id][k] = answers[id][k]
    <2> DEFINE before == answers[id]
               after == answers'[id]
    <2>1. IsSequence(before) /\ after = Append(before, answer)
      BY <1>1, <1>4, <1>6
    <2> HIDE DEF before, after
    <2>2. /\ IsSequence(after) /\ Len(after) = Len(before) + 1 /\ Len(before) \in Nat
          /\ DOMAIN after = DOMAIN before \union {Len(before) + 1}
          /\ after[Len(before) + 1] = answer /\ \A k \in DOMAIN before : after[k] = before[k]
      BY <2>1, OneMore
    <2> QED
      BY <2>2 DEF before, after
  <1>8. \A other \in DOMAIN answers' : IsSequence(answers'[other])
    BY <1>1, <1>6, <1>7
  <1> HIDE DEF n, rest
  <1>9. ASSUME NEW k \in DOMAIN rest
        PROVE  /\ IsAnswerable(SentQuery(set.request), rest[k][1], set.vpToken[rest[k][1]])
               /\ IF FollowsIn(rest, k) THEN rest[k][2] = rest[k - 1][2] + 1
                  ELSE /\ rest[k][2] = Len(answers'[rest[k][1]]) + 1
                       /\ \A j \in 1..(k - 1) : rest[j][1] # rest[k][1]
    <2>1. k \in 1..(n - 1) /\ k + 1 \in DOMAIN todo /\ rest[k] = todo[k + 1] /\ (k > 1 => rest[k - 1] = todo[k])
      BY <1>2
    <2>2. IF FollowsIn(todo, k + 1) THEN todo[k + 1][2] = todo[k][2] + 1
          ELSE /\ todo[k + 1][2] = Len(answers[todo[k + 1][1]]) + 1
               /\ \A j \in 1..k : todo[j][1] # todo[k + 1][1]
      <3>1. (k + 1) - 1 = k
        BY <2>1
      <3> QED
        BY <1>1, <2>1, <3>1
    <2>3. FollowsIn(todo, k + 1) <=> todo[k][1] = todo[k + 1][1]
      BY <2>1 DEF FollowsIn
    <2>4. CASE k = 1
      <3>1. ~FollowsIn(rest, k)
        BY <2>4 DEF FollowsIn
      <3>2. rest[k][2] = Len(answers'[rest[k][1]]) + 1
        <4>1. CASE todo[1][1] = todo[2][1]
          BY <1>4, <1>5, <1>7, <2>1, <2>2, <2>3, <2>4, <4>1
        <4>2. CASE todo[1][1] # todo[2][1]
          <5>1. answers'[todo[2][1]] = answers[todo[2][1]]
            BY <1>1, <1>3, <1>4, <1>6, <2>1, <2>4, <4>2
          <5> QED
            BY <2>1, <2>2, <2>3, <2>4, <4>2, <5>1
        <4> QED
          BY <4>1, <4>2
      <3> QED
        BY <1>1, <2>1, <2>4, <3>1, <3>2
    <2>5. CASE k > 1
      <3>1. FollowsIn(rest, k) <=> FollowsIn(todo, k + 1)
        BY <2>1, <2>3, <2>5 DEF FollowsIn
      <3>2. CASE FollowsIn(todo, k + 1)
        BY <1>1, <2>1, <2>2, <2>5, <3>1, <3>2
      <3>3. CASE ~FollowsIn(todo, k + 1)
        <4>1. todo[k + 1][1] # id /\ answers'[todo[k + 1][1]] = answers[todo[k + 1][1]]
          BY <1>1, <1>3, <1>4, <1>6, <2>1, <2>2, <2>5, <3>3
        <4>2. ASSUME NEW j \in 1..(k - 1) PROVE rest[j][1] # rest[k][1]
          <5>1. j \in 1..(n - 1) /\ j + 1 \in 1..k
            BY <1>2, <2>1
          <5>2. rest[j] = todo[j + 1]
            BY <1>2, <5>1
          <5> QED
            BY <2>1, <2>2, <3>3, <5>1, <5>2
        <4> QED
          BY <1>1, <2>1, <2>2, <3>1, <3>3, <4>1, <4>2
      <3> QED
        BY <3>2, <3>3
    <2> QED
      BY <2>1, <2>4, <2>5
  <1>10. LineInv'
    BY <1>1, <1>6, <1>8, <1>9 DEF LineInv
  <1> QED
    BY <1>4, <1>5, <1>6, <1>7, <1>10

\* An entry that is met stays met.
LEMMA StaysMet ==
  ASSUME NEW id, IsMetByHolder(id), set' = set, made \subseteq made',
         \A k \in DOMAIN answers[id] : k \in DOMAIN answers'[id] /\ answers'[id][k] = answers[id][k]
  PROVE  IsMetByHolder(id)'
PROOF
  <1>1. PICK i \in DOMAIN set.vpToken[id] : MetAt(id, i)
    BY DEF IsMetByHolder
  <1>2. MetAt(id, i)'
    BY <1>1 DEF MetAt, Verified
  <1> QED
    BY <1>1, <1>2 DEF IsMetByHolder

\* What a valid answer is to: a presentation of the type and with the claims the query was held against.
LEMMA AcceptedMeets ==
  ASSUME ExchangeInv, set # Absent, stage = "done", NEW entry, MatchesEntry(entry)
  PROVE  /\ verdict.valid /\ Verified(Slot.presentation, set.request) # {}
         /\ QuerySatisfiedBy(entry, Slot.format, {TypeOf(Slot)}, Carried(Slot))
PROOF
  <1>1. /\ job.request = set.request /\ job.format = Slot.format /\ job.presentation = Slot.presentation /\ IsMade(job)
    BY DEF ExchangeInv, CallInv
  <1>2. verdict.valid /\ QuerySatisfiedBy(entry, job.format, Types, Presented(shown))
    BY DEF MatchesEntry
  <1>3. Verified(Slot.presentation, set.request) # {}
    BY <1>1, <1>2, AcceptedIsTheHolders
  <1>4. Types = {TypeOf(Slot)} /\ Presented(shown) = Carried(Slot)
    <2>1. CASE IsMdoc
      <3>1. PICK m \in made : job.format = m.slot.format /\ job.presentation = m.slot.presentation
        BY <1>1 DEF IsMade
      <3>2. Docs = job.presentation.documents /\ Len(Docs) = 1 /\ DOMAIN Docs = {1}
        <4>1. IsBound(m)
          BY DEF ExchangeInv, WalletInv, MadeInv
        <4> QED
          BY <2>1, <3>1, <4>1 DEF IsBound, IsMdoc, Docs, IsBoundMdoc
      <3>4. DOMAIN claimed = {1}
        <4>1. Len(claimed) = 1 /\ IsSequence(claimed)
          BY <1>2, <3>2 DEF ExchangeInv, VerifierInv, ValidInv, ClaimedInv
        <4> QED
          BY <4>1 DEF IsSequence
      <3>3. shown = ReadOf(Docs[1])
        BY <3>4 DEF ExchangeInv, PassedInv
      <3> QED
        BY <1>1, <2>1, <3>2, <3>3 DEF Types, TypeOf, Presented, Carried, ReadOf, IsMdoc
    <2>2. CASE ~IsMdoc
      <3>1. Slot.format = "SdJwtVc"
        <4>1. job.format \in Formats
          BY <1>1, MadeIsDecoded DEF ExchangeInv
        <4> QED
          BY <1>1, <2>2, <4>1 DEF IsMdoc, Formats
      <3> QED
        BY <1>1, <2>2, <3>1 DEF Types, TypeOf, Presented, Carried
    <2> QED
      BY <2>1, <2>2
  <1> QED
    BY <1>1, <1>2, <1>3, <1>4

\* Nothing is taken on.
LEMMA NothingTaken ==
  set' = Absent /\ (outcome' = Absent \/ outcome'.kind # "set") => AnswerInv'
  BY DEF AnswerInv, LineInv, MatchedInv, OutcomeInv

\* Nothing is answered.
LEMMA AnswersKept ==
  ASSUME AnswerInv, made \subseteq made', UNCHANGED setVars,
         set # Absent /\ todo = <<>> /\ stage = "idle" => stage' = "idle"
  PROVE  AnswerInv'
PROOF
  <1>1. UNCHANGED <<set, todo, answers, matched, outcome>>
    BY DEF setVars
  <1>2. LineInv'
    BY <1>1 DEF AnswerInv, LineInv
  <1>3. MatchedInv'
    <2> SUFFICES ASSUME set' # Absent, NEW id \in matched' PROVE IsMetByHolder(id)'
      BY DEF MatchedInv
    <2>1. IsMetByHolder(id)
      BY <1>1 DEF AnswerInv, MatchedInv
    <2> QED
      BY <1>1, <2>1, StaysMet
  <1>4. OutcomeInv'
    BY <1>1 DEF AnswerInv, OutcomeInv
  <1> QED
    BY <1>2, <1>3, <1>4 DEF AnswerInv

LEMMA OpenSlotAnswers ==
  ASSUME ExchangeInv, AnswerInv, OpenSlot, made' = made
  PROVE  AnswerInv'
PROOF
  <1>1. set # Absent /\ stage = "idle" /\ todo # <<>>
    BY DEF OpenSlot
  <1> DEFINE unbound == [NoVerdict EXCEPT !.reason = "MissingRequestBinding"]
  <1>2. CASE Answered1(unbound) /\ UNCHANGED <<verifierVars, set, matched, outcome>>
    <2> DEFINE h == Head(todo)
    <2>1. PICK id, i : id = h[1] /\ i = h[2]
      OBVIOUS
    <2> HIDE DEF unbound
    <2>2. /\ LineInv' /\ DOMAIN answers' = DOMAIN answers
          /\ \A other \in DOMAIN answers : \A k \in DOMAIN answers[other] :
               k \in DOMAIN answers'[other] /\ answers'[other][k] = answers[other][k]
      BY <1>1, <1>2, <2>1, LineMovesOn
    <2>3. MatchedInv'
      <3> SUFFICES ASSUME NEW id2 \in matched' PROVE IsMetByHolder(id2)'
        BY DEF MatchedInv
      <3>1. IsMetByHolder(id2) /\ id2 \in DOMAIN answers
        BY <1>1, <1>2 DEF AnswerInv, MatchedInv, LineInv, IsMetByHolder
      <3> QED
        BY <1>2, <2>2, <3>1, StaysMet
    <2>4. OutcomeInv'
      BY <1>1, <1>2 DEF AnswerInv, OutcomeInv
    <2> QED
      BY <2>2, <2>3, <2>4 DEF AnswerInv
  <1>3. CASE UNCHANGED setVars
    BY <1>1, <1>3, AnswersKept
  <1> QED
    BY <1>2, <1>3 DEF OpenSlot

LEMMA CloseSlotAnswers ==
  ASSUME ExchangeInv, AnswerInv, CloseSlot, made' = made
  PROVE  AnswerInv'
PROOF
  <1>1. set # Absent /\ stage = "done" /\ Answered1(verdict) /\ UNCHANGED <<set, outcome>> /\ todo # <<>>
    BY DEF CloseSlot, ExchangeInv, CallInv
  <1> DEFINE h == Head(todo)
  <1>2. PICK id, i : id = h[1] /\ i = h[2]
    OBVIOUS
  <1>3. PICK answer : answer = verdict
    OBVIOUS
  <1>4. /\ LineInv' /\ DOMAIN answers' = DOMAIN answers
        /\ id \in DOMAIN set.vpToken /\ i \in DOMAIN set.vpToken[id]
        /\ IsAnswerable(SentQuery(set.request), id, set.vpToken[id])
        /\ i \in DOMAIN answers'[id] /\ answers'[id][i] = answer
        /\ \A other \in DOMAIN answers : \A k \in DOMAIN answers[other] :
             k \in DOMAIN answers'[other] /\ answers'[other][k] = answers[other][k]
    BY <1>1, <1>2, <1>3, LineMovesOn
  <1>5. MatchesEntry(EntryOf(id)) => IsMetByHolder(id)'
    <2> SUFFICES ASSUME MatchesEntry(EntryOf(id)) PROVE IsMetByHolder(id)'
      OBVIOUS
    <2>1. PICK entry : entry = EntryOf(id)
      OBVIOUS
    <2>2. entry \in Asked(SentQuery(set.request), id)
      BY <1>4, <2>1 DEF EntryOf, IsAnswerable, Asked
    <2>3. /\ verdict.valid /\ Verified(Slot.presentation, set.request) # {}
          /\ QuerySatisfiedBy(entry, Slot.format, {TypeOf(Slot)}, Carried(Slot))
      BY <1>1, <2>1, AcceptedMeets
    <2>4. Slot = set.vpToken[id][i]
      BY <1>2 DEF Slot
    <2>5. MetAt(id, i)'
      <3>1. made' = made /\ set' = set
        BY <1>1
      <3> QED
        BY <1>3, <1>4, <2>2, <2>3, <2>4, <3>1 DEF MetAt, Verified
    <2> QED
      BY <1>1, <1>4, <2>5 DEF IsMetByHolder
  <1>6. MatchedInv'
    <2> SUFFICES ASSUME NEW id2 \in matched' PROVE IsMetByHolder(id2)'
      BY DEF MatchedInv
    <2>1. CASE id2 \in matched
      <3>1. IsMetByHolder(id2) /\ id2 \in DOMAIN answers
        BY <1>1, <2>1 DEF AnswerInv, MatchedInv, LineInv, IsMetByHolder
      <3> QED
        BY <1>1, <1>4, <3>1, StaysMet
    <2>2. CASE id2 \notin matched
      <3>1. id2 = id /\ MatchesEntry(EntryOf(id))
        BY <1>2, <2>2 DEF CloseSlot
      <3> QED
        BY <1>5, <3>1
    <2> QED
      BY <2>1, <2>2
  <1>7. OutcomeInv'
    BY <1>1 DEF AnswerInv, OutcomeInv
  <1> QED
    BY <1>4, <1>6, <1>7 DEF AnswerInv

LEMMA VerifierWorksAnswers ==
  ASSUME ExchangeInv, AnswerInv, VerifierWorks
  PROVE  AnswerInv'
PROOF
  <1>1. made' = made
    BY DEF VerifierWorks, walletVars
  <1>2. CASE VerifierStep /\ UNCHANGED setVars
    <2>1. stage = "idle" => stage' = "idle"
      BY <1>2 DEF VerifierStep, StartDocument, Search, Trust, StatusSigner, ListSigner
    <2> QED
      BY <1>1, <1>2, <2>1, AnswersKept
  <1>3. CASE RespondVerify
    BY <1>3, NothingTaken DEF RespondVerify
  <1>4. CASE OpenSlot
    BY <1>1, <1>4, OpenSlotAnswers
  <1>5. CASE CloseSlot
    BY <1>1, <1>5, CloseSlotAnswers
  <1>6. CASE FinishSet
    <2>1. /\ set # Absent /\ stage = "idle" /\ todo = <<>> /\ UNCHANGED <<set, todo, answers, matched>> /\ stage' = stage
          /\ outcome'.kind = "set"
          /\ outcome'.satisfied = CredentialSetsSatisfied(SentQuery(set.request), matched)
      BY <1>6 DEF FinishSet, verifierVars
    <2>2. LineInv'
      BY <2>1 DEF AnswerInv, LineInv
    <2>3. MatchedInv'
      <3> SUFFICES ASSUME NEW id \in matched' PROVE IsMetByHolder(id)'
        BY DEF MatchedInv
      <3>1. IsMetByHolder(id)
        BY <2>1 DEF AnswerInv, MatchedInv
      <3> QED
        BY <1>1, <2>1, <3>1, StaysMet
    <2>4. OutcomeInv'
      BY <2>1 DEF OutcomeInv
    <2> QED
      BY <2>2, <2>3, <2>4 DEF AnswerInv
  <1>7. CASE Respond
    BY <1>7, NothingTaken DEF Respond
  <1> QED
    BY <1>2, <1>3, <1>4, <1>5, <1>6, <1>7 DEF VerifierWorks, VpTokenStep

\* One presentation is taken on, or a request refused.
LEMMA OthersAnswer ==
  ASSUME VerifyOne \/ VerifyRefused
  PROVE  AnswerInv'
PROOF
  <1>1. ASSUME NEW req, ProcessVerify(req) PROVE AnswerInv'
    <2>1. set' = Absent /\ outcome' \in {Err, Absent}
      BY <1>1 DEF ProcessVerify
    <2> QED
      BY <2>1, NothingTaken DEF Err
  <1>2. ASSUME NEW req, req.policy.gate, ProcessVpToken(req) PROVE AnswerInv'
    <2>1. set' = Absent /\ outcome' = Err
      BY <1>2 DEF ProcessVpToken
    <2> QED
      BY <2>1, NothingTaken DEF Err
  <1>3. [schemaVersion |-> SchemaVersion, policy |-> [Policy EXCEPT !.gate = TRUE]].policy.gate
    BY DEF Policy
  <1>4. CASE VerifyOne
    BY <1>1, <1>4 DEF VerifyOne
  <1>5. CASE VerifyRefused
    BY <1>1, <1>2, <1>3, <1>5 DEF VerifyRefused
  <1> QED
    BY <1>4, <1>5

LEMMA VerifySetAnswers ==
  ASSUME ExchangeInv, VerifySet
  PROVE  AnswerInv'
PROOF
  <1>1. PICK token \in VpTokens, request \in Requests, given \in {1, 2} :
          ProcessVpToken([schemaVersion |-> SchemaVersion, request |-> request, vpToken |-> token, policy |-> Policy,
                          anchors |-> HostAnchors, now |-> PresentedAt, role |-> "NonQualifiedEaa",
                          tokens |-> [u \in {} |-> Absent],
                          statuses |-> [id \in {"a", "b"} |-> [i \in 1..given |-> <<"Good">>]]])
    BY DEF VerifySet
  <1>2. UNCHANGED <<obtainVars, walletVars>>
    BY DEF VerifySet
  <1> QED
    BY <1>1, <1>2, TakenOn

LEMMA HolderAnswers ==
  ASSUME ExchangeInv, AnswerInv, Begin \/ Answer \/ Misanswer \/ Prepare \/ Sign
  PROVE  AnswerInv'
PROOF
  <1>1. UNCHANGED vpVars /\ made \subseteq made'
    <2>1. CASE Sign
      BY <2>1, SignKeeps DEF ExchangeInv, Sign
    <2>2. CASE Begin \/ Answer \/ Misanswer \/ Prepare
      BY <2>2 DEF Begin, Answer, Misanswer, Prepare
    <2> QED
      BY <2>1, <2>2
  <1>2. UNCHANGED setVars /\ stage' = stage
    BY <1>1 DEF vpVars, verifierVars
  <1> QED
    BY <1>1, <1>2, AnswersKept

-----------------------------------------------------------------------------
(* What a vp_token is satisfied by *)

\* A vp_token satisfies a query only if the ids that are met suffice for it.
SatisfiedRestsOnHolder ==
  outcome # Absent /\ outcome.kind = "set" /\ outcome.satisfied =>
    set # Absent /\ CredentialSetsSatisfied(SentQuery(set.request), {id \in DOMAIN set.vpToken : IsMetByHolder(id)})

\* More ids satisfy no less.
LEMMA MoreSatisfies ==
  ASSUME NEW query, NEW few, NEW more, few \subseteq more, CredentialSetsSatisfied(query, few)
  PROVE  CredentialSetsSatisfied(query, more)
PROOF
  <1>1. CASE query.sets = <<>>
    BY <1>1 DEF CredentialSetsSatisfied
  <1>2. CASE query.sets # <<>>
    <2> SUFFICES ASSUME NEW i \in DOMAIN query.sets, query.sets[i].required
                 PROVE  \E option \in query.sets[i].options : option # {} /\ option \subseteq more
      BY <1>2 DEF CredentialSetsSatisfied
    <2>1. PICK option \in query.sets[i].options : option # {} /\ option \subseteq few
      BY <1>2 DEF CredentialSetsSatisfied
    <2> QED
      BY <2>1
  <1> QED
    BY <1>1, <1>2

(* A vp_token satisfies a query only by answers of the holder: every id it needs is in the query, has as many
   presentations as its entry allows, and among them one with a valid answer at its own index, made
   by the holder for this request, of the type and with the claims this entry asks for
   (verify_vp_token_slots, credential_sets_satisfied). *)
THEOREM SatisfiedStaysWithTheHolder == ExchangeSpec => []SatisfiedRestsOnHolder
PROOF
  <1>1. ExchangeInit => AnswerInv
    BY DEF ExchangeInit, VpTokenInit, AnswerInv, LineInv, MatchedInv, OutcomeInv
  <1>2. ExchangeInv /\ AnswerInv /\ [ExchangeNext]_exchangeVars => AnswerInv'
    <2> SUFFICES ASSUME ExchangeInv, AnswerInv, [ExchangeNext]_exchangeVars PROVE AnswerInv'
      OBVIOUS
    <2>1. CASE UNCHANGED exchangeVars
      <3>1. made' = made /\ UNCHANGED setVars /\ stage' = stage
        BY <2>1 DEF exchangeVars, vpVars, walletVars, verifierVars
      <3> QED
        BY <3>1, AnswersKept
    <2> QED
      BY <2>1, HolderAnswers, OthersAnswer, VerifySetAnswers, VerifierWorksAnswers DEF ExchangeNext
  <1>3. AnswerInv => SatisfiedRestsOnHolder
    <2> SUFFICES ASSUME AnswerInv, outcome # Absent, outcome.kind = "set", outcome.satisfied
                 PROVE  /\ set # Absent
                        /\ CredentialSetsSatisfied(SentQuery(set.request), {id \in DOMAIN set.vpToken : IsMetByHolder(id)})
      BY DEF SatisfiedRestsOnHolder
    <2>1. set # Absent /\ CredentialSetsSatisfied(SentQuery(set.request), matched)
      BY DEF AnswerInv, OutcomeInv
    <2>2. matched \subseteq {id \in DOMAIN set.vpToken : IsMetByHolder(id)}
      BY <2>1 DEF AnswerInv, MatchedInv, IsMetByHolder
    <2> QED
      BY <2>1, <2>2, MoreSatisfies
  <1> QED
    BY <1>1, <1>2, <1>3, ExchangeInvariance, PTL DEF ExchangeSpec
-----------------------------------------------------------------------------
(* What is left out *)

\* A set of digests with what lies one disclosure below.
OneBelow(A, D) == A \union UNION {DigestsBelow(Open(d, D).value) : d \in {x \in A : Held(x, D)}}
\* Nothing lies below that it does not hold.
IsClosed(A, D) == \A d \in A : Held(d, D) => DigestsBelow(Open(d, D).value) \subseteq A
\* What lies below some digests, level by level.
IsWithin(digests, D, f, n) == f = [i \in 0..n |-> IF i = 0 THEN digests ELSE OneBelow(f[i - 1], D)]

LEMMA WithinExists ==
  ASSUME NEW digests, NEW D, NEW n \in Nat
  PROVE  \E f : IsWithin(digests, D, f, n)
PROOF
  <1> DEFINE T == {i \in 0..n : \E f : IsWithin(digests, D, f, i)}
  <1>1. 0 \in T
    <2> DEFINE f == [i \in 0..0 |-> digests]
    <2>1. IsWithin(digests, D, f, 0)
      BY DEF IsWithin
    <2> QED
      BY <2>1
  <1>2. ASSUME NEW i \in 1..n, i - 1 \in T
        PROVE  i \in T
    <2>1. PICK f : IsWithin(digests, D, f, i - 1)
      BY <1>2
    <2> DEFINE last == OneBelow(f[i - 1], D)
               g == [j \in 0..i |-> IF j < i THEN f[j] ELSE last]
    <2>2. \A j \in 0..(i - 1) : f[j] = IF j = 0 THEN digests ELSE OneBelow(f[j - 1], D)
      BY <2>1 DEF IsWithin
    <2> HIDE DEF last
    <2>3. \A j \in 0..i : g[j] = IF j = 0 THEN digests ELSE OneBelow(g[j - 1], D)
      <3> TAKE j \in 0..i
      <3>1. CASE j = i
        <4>1. g[j] = last /\ j # 0 /\ g[j - 1] = f[i - 1]
          BY <3>1
        <4> QED
          BY <3>1, <4>1 DEF last
      <3>2. CASE j \in 0..(i - 1)
        <4>1. g[j] = f[j] /\ (j # 0 => g[j - 1] = f[j - 1])
          BY <3>2
        <4> QED
          BY <2>2, <3>2, <4>1
      <3> QED
        BY <3>1, <3>2
    <2>4. g = [j \in 0..i |-> g[j]]
      OBVIOUS
    <2> HIDE DEF g
    <2>5. IsWithin(digests, D, g, i)
      BY <2>3, <2>4, Zenon DEF IsWithin
    <2> QED
      BY <1>2, <2>5
  <1> HIDE DEF T
  <1>3. \A i \in 0..n : i \in T
    BY <1>1, <1>2, CountingUp
  <1> QED
    BY <1>3 DEF T

\* What conceal takes along is found at the last level of as many as there are disclosures.
LEMMA WithBelowLevels ==
  ASSUME NEW digests, NEW D, IsSequence(D)
  PROVE  \E f : /\ WithBelow(digests, D) = f[Len(D)] /\ f[0] = digests
                /\ \A i \in 1..Len(D) : f[i] = OneBelow(f[i - 1], D)
PROOF
  <1> DEFINE n == Len(D)
             Within == CHOOSE g : g = [i \in 0..n |->
                         IF i = 0 THEN digests
                         ELSE LET above == g[i - 1]
                              IN  above \union UNION {DigestsBelow(Open(d, D).value) : d \in {x \in above : Held(x, D)}}]
  <1>1. n \in Nat
    BY DEF IsSequence
  <1>2. \E g : g = [i \in 0..n |->
                      IF i = 0 THEN digests
                      ELSE LET above == g[i - 1]
                           IN  above \union UNION {DigestsBelow(Open(d, D).value) : d \in {x \in above : Held(x, D)}}]
    <2>1. \E g : IsWithin(digests, D, g, n)
      BY <1>1, WithinExists
    <2> QED
      BY <2>1, Zenon DEF IsWithin, OneBelow
  <1>3. IsWithin(digests, D, Within, n)
    BY <1>2, Zenon DEF IsWithin, OneBelow
  <1>4. WithBelow(digests, D) = Within[n]
    BY Zenon DEF WithBelow
  <1> HIDE DEF Within
  <1>5. Within[0] = digests /\ \A i \in 1..n : Within[i] = OneBelow(Within[i - 1], D)
    BY <1>1, <1>3 DEF IsWithin
  <1> QED
    BY <1>4, <1>5

\* The digests of the disclosures held are as many as these at most.
LEMMA FewDigests ==
  ASSUME NEW D, IsSequence(D)
  PROVE  /\ IsFiniteSet(Digests(D)) /\ Cardinality(Digests(D)) <= Len(D)
         /\ \A d : Held(d, D) <=> d \in Digests(D)
PROOF
  <1> DEFINE n == Len(D)
             f == [i \in 1..n |-> D[i].digest]
  <1>1. n \in Nat /\ DOMAIN D = 1..n
    BY DEF IsSequence
  <1>2. \A d : Held(d, D) <=> d \in Digests(D)
    BY DEF Held, Digests, Range
  <1>3. f \in Surjection(1..n, Digests(D))
    <2>1. \A i \in 1..n : f[i] \in Digests(D)
      BY <1>1 DEF Digests, Range
    <2>2. \A d \in Digests(D) : \E i \in 1..n : f[i] = d
      BY <1>1 DEF Digests, Range
    <2>3. f \in [1..n -> Digests(D)]
      BY <2>1
    <2> HIDE DEF f
    <2> QED
      BY <2>2, <2>3 DEF Surjection
  <1>4. ExistsSurjection(1..n, Digests(D))
    BY <1>3 DEF ExistsSurjection
  <1>5. IsFiniteSet(Digests(D)) /\ Cardinality(Digests(D)) <= n
    BY <1>1, <1>4, FS_NatSurjection, FS_SurjCardinalityBound
  <1> QED
    BY <1>2, <1>5

\* As long as a level is not closed it holds one disclosure more than the one above: the last one is closed.
LEMMA WithBelowIsClosed ==
  ASSUME NEW digests, NEW D, IsSequence(D)
  PROVE  digests \subseteq WithBelow(digests, D) /\ IsClosed(WithBelow(digests, D), D)
PROOF
  <1> DEFINE n == Len(D)
             all == Digests(D)
  <1>1. n \in Nat
    BY DEF IsSequence
  <1>2. IsFiniteSet(all) /\ Cardinality(all) <= n /\ \A d : Held(d, D) <=> d \in all
    BY FewDigests
  <1>3. PICK f : /\ WithBelow(digests, D) = f[n] /\ f[0] = digests
                 /\ \A i \in 1..n : f[i] = OneBelow(f[i - 1], D)
    BY WithBelowLevels
  <1> DEFINE many(A) == Cardinality(A \intersect all)
             T == {i \in 0..n : digests \subseteq f[i] /\ (IsClosed(f[i], D) \/ many(f[i]) >= i + 1)}
  <1> HIDE DEF n, all
  <1>4. \A A : IsFiniteSet(A \intersect all) /\ many(A) \in Nat /\ many(A) <= n
    <2> TAKE A
    <2>1. A \intersect all \in SUBSET all
      OBVIOUS
    <2>2. IsFiniteSet(A \intersect all) /\ Cardinality(A \intersect all) <= Cardinality(all)
      BY <1>2, <2>1, FS_Subset
    <2>3. Cardinality(A \intersect all) \in Nat /\ Cardinality(all) \in Nat
      BY <1>2, <2>2, FS_CardinalityType
    <2> QED
      BY <1>1, <1>2, <2>2, <2>3
  <1>5. \A A : many(A) = 0 => IsClosed(A, D)
    <2> TAKE A
    <2>1. many(A) = 0 => A \intersect all = {}
      BY <1>4, FS_EmptySet
    <2> QED
      BY <1>2, <2>1 DEF IsClosed
  <1> HIDE DEF many
  <1>6. 0 \in T
    <2>1. many(f[0]) \in Nat /\ (many(f[0]) = 0 => IsClosed(f[0], D))
      BY <1>4, <1>5, Zenon
    <2>2. IsClosed(f[0], D) \/ many(f[0]) >= 1
      BY <2>1
    <2> QED
      BY <1>1, <1>3, <2>2
  <1>7. ASSUME NEW i \in 1..n, i - 1 \in T
        PROVE  i \in T
    <2> DEFINE above == f[i - 1]
    <2>1. f[i] = OneBelow(above, D) /\ digests \subseteq above /\ (IsClosed(above, D) \/ many(above) >= i)
      BY <1>3, <1>7
    <2> HIDE DEF above
    <2>2. above \subseteq f[i]
      BY <2>1 DEF OneBelow
    <2>3. CASE IsClosed(above, D)
      <3>1. f[i] = above
        BY <2>1, <2>3 DEF OneBelow, IsClosed
      <3> QED
        BY <2>1, <2>3, <3>1
    <2>4. CASE many(above) >= i /\ f[i] \intersect all = above \intersect all
      <3>1. IsClosed(f[i], D)
        BY <1>2, <2>1, <2>4 DEF OneBelow, IsClosed
      <3> QED
        BY <2>1, <2>2, <3>1
    <2>5. CASE many(above) >= i /\ f[i] \intersect all # above \intersect all
      <3>1. above \intersect all \in SUBSET (f[i] \intersect all)
        BY <2>2
      <3>2. many(above) <= many(f[i]) /\ many(above) # many(f[i])
        BY <1>4, <2>5, <3>1, FS_Subset DEF many
      <3>3. many(above) \in Nat /\ many(f[i]) \in Nat
        BY <1>4
      <3>4. many(f[i]) >= i + 1
        BY <2>5, <3>2, <3>3
      <3> QED
        BY <2>1, <2>2, <3>4
    <2> QED
      BY <2>1, <2>3, <2>4, <2>5
  <1> HIDE DEF T
  <1>8. n \in T
    <2>1. \A i \in 0..n : i \in T
      BY <1>1, <1>6, <1>7, CountingUp
    <2> QED
      BY <1>1, <2>1
  <1>9. ~(many(f[n]) >= n + 1)
    <2>1. many(f[n]) \in Nat /\ many(f[n]) <= n
      BY <1>4, Zenon
    <2> QED
      BY <1>1, <2>1
  <1> QED
    BY <1>3, <1>8, <1>9 DEF T

\* And it is taken along only if it lies below.
LEMMA WithBelowIsLeast ==
  ASSUME NEW digests, NEW D, IsSequence(D), NEW S, digests \intersect Digests(D) \subseteq S,
         \A d \in S \intersect Digests(D) : DigestsBelow(Open(d, D).value) \intersect Digests(D) \subseteq S
  PROVE  WithBelow(digests, D) \intersect Digests(D) \subseteq S
PROOF
  <1> DEFINE n == Len(D)
             all == Digests(D)
  <1>1. n \in Nat
    BY DEF IsSequence
  <1>2. \A d : Held(d, D) <=> d \in all
    BY FewDigests
  <1>3. PICK f : /\ WithBelow(digests, D) = f[n] /\ f[0] = digests
                 /\ \A i \in 1..n : f[i] = OneBelow(f[i - 1], D)
    BY WithBelowLevels
  <1> DEFINE T == {i \in 0..n : f[i] \intersect all \subseteq S}
  <1> HIDE DEF n
  <1>4. 0 \in T
    BY <1>1, <1>3
  <1>5. ASSUME NEW i \in 1..n, i - 1 \in T
        PROVE  i \in T
    <2> DEFINE above == f[i - 1]
    <2>1. f[i] = OneBelow(above, D) /\ above \intersect all \subseteq S
      BY <1>3, <1>5
    <2> HIDE DEF above, all
    <2>2. \A d \in S \intersect all : DigestsBelow(Open(d, D).value) \intersect all \subseteq S
      BY DEF all
    <2>3. f[i] \intersect all \subseteq S
      BY <1>2, <2>1, <2>2 DEF OneBelow
    <2> QED
      BY <2>3 DEF all
  <1> HIDE DEF T
  <1>6. n \in T
    <2>1. \A i \in 0..n : i \in T
      BY <1>1, <1>4, <1>5, CountingUp
    <2> QED
      BY <1>1, <2>1
  <1> QED
    BY <1>3, <1>6 DEF T

\* A claim may be selected only if its disclosure is held.
LEMMA DisclosableIsHeld ==
  ASSUME NEW tree, NEW D, IsSequence(D), NEW x \in Disclosable(tree, D)
  PROVE  x.digest \in Digests(D)
PROOF
  <1> DEFINE Selector(path) == [i \in DOMAIN path |-> IF path[i][1] = "key" THEN path[i][2] ELSE "item"]
             InObject(v, path) ==
               {[selector |-> Append(Selector(path), NameOf(v, i, D)), digest |-> v.sd[i]]
                : i \in {k \in Opened(v, D) : NameOf(v, k, D) # Absent}}
             InArray(v, path) ==
               {[selector |-> <<Selector(path)[1]>>, digest |-> v.items[i].digest]
                : i \in {k \in DOMAIN v.items : v.items[k].kind = "redacted" /\ Held(v.items[k].digest, D)
                                                /\ Open(v.items[k].digest, D).name = Absent}}
             Of(path) == LET v == Node(tree, path, <<>>) IN
               CASE v.kind = "object" -> InObject(v, path) [] v.kind = "array" -> InArray(v, path) [] OTHER -> {}
  <1>1. Disclosable(tree, D) = UNION {Of(path) : path \in Paths(tree, <<>>)}
    BY Zenon DEF Disclosable
  <1>2. PICK path \in Paths(tree, <<>>) : x \in Of(path)
    <2> HIDE DEF Of
    <2> QED
      BY <1>1
  <1>3. PICK v : v = Node(tree, path, <<>>)
    OBVIOUS
  <1> HIDE DEF InObject, InArray
  <1>4. x \in InObject(v, path) \/ x \in InArray(v, path)
    BY <1>2, <1>3
  <1>5. CASE x \in InObject(v, path)
    <2>1. PICK i \in Opened(v, D) : x = [selector |-> Append(Selector(path), NameOf(v, i, D)), digest |-> v.sd[i]]
      BY <1>5 DEF InObject
    <2>2. x.digest = v.sd[i] /\ Held(v.sd[i], D)
      BY <2>1 DEF Opened
    <2> QED
      BY <2>2, FewDigests
  <1>6. CASE x \in InArray(v, path)
    <2>1. PICK i \in DOMAIN v.items : Held(v.items[i].digest, D) /\ x = [selector |-> <<Selector(path)[1]>>, digest |-> v.items[i].digest]
      BY <1>6 DEF InArray
    <2>2. x.digest = v.items[i].digest
      BY <2>1
    <2> QED
      BY <2>1, <2>2, FewDigests
  <1> QED
    BY <1>4, <1>5, <1>6

\* Of an SD-JWT, what is concealed is the least that the claims left out take along.
LEMMA ConcealsTheLeast ==
  ASSUME NEW p, IsSequence(p.disclosures), NEW disclose, NEW presented,
         presented = {d.digest : d \in Range(Conceal(p, disclose))}
  PROVE  LET all == Digests(p.disclosures)
         IN  /\ presented \subseteq all /\ HoldsBack(all \ presented, disclose, p)
             /\ \A S \in SUBSET all : HoldsBack(S, disclose, p) => all \ presented \subseteq S
PROOF
  <1> DEFINE D == p.disclosures
             all == Digests(D)
             left == {x \in Disclosable(p.jws.tree, D) : x.selector \notin disclose}
             first == {x.digest : x \in left}
             out == WithBelow(first, D)
             kept == {d \in Range(D) : d.digest \notin out}
  <1>1. Conceal(p, disclose) = Retain(D, kept)
    BY Zenon DEF Conceal
  <1>2. first \subseteq all
    BY DisclosableIsHeld
  <1>3. first \subseteq out /\ IsClosed(out, D)
    BY WithBelowIsClosed
  <1> HIDE DEF out
  <1>4. presented = all \ out
    <2>1. Range(Retain(D, kept)) = Range(D) \intersect kept
      BY RetainKeeps
    <2> QED
      BY <1>1, <2>1 DEF Digests
  <1>5. presented \subseteq all /\ all \ presented = out \intersect all
    BY <1>4
  <1>6. HoldsBack(out \intersect all, disclose, p)
    <2>1. \A x \in Disclosable(p.jws.tree, D) : x.selector \notin disclose => x.digest \in out \intersect all
      BY <1>2, <1>3
    <2>2. \A d \in out \intersect all : DigestsBelow(Open(d, D).value) \intersect all \subseteq out \intersect all
      BY <1>3, FewDigests DEF IsClosed
    <2> HIDE DEF left, first
    <2> QED
      BY <2>1, <2>2 DEF HoldsBack
  <1>7. ASSUME NEW S \in SUBSET all, HoldsBack(S, disclose, p)
        PROVE  out \intersect all \subseteq S
    <2>1. first \subseteq S
      BY <1>7 DEF HoldsBack
    <2>2. \A d \in S \intersect all : DigestsBelow(Open(d, D).value) \intersect all \subseteq S
      BY <1>7 DEF HoldsBack
    <2> HIDE DEF first
    <2> QED
      BY <2>1, <2>2, WithBelowIsLeast DEF out
  <1> HIDE DEF first, left, kept
  <1> QED
    BY <1>5, <1>6, <1>7

\* What is finished shows what was selected when it was prepared.
IsSelected(m) ==
  IF m.slot.format = "Mdoc" THEN Names(m.slot.presentation.documents[1].nameSpaces) = m.disclose
  ELSE LET p == Issue("SdJwtVc", HolderKey)
       IN  IsSequence(p.disclosures) /\ m.slot.presentation.disclosures = Conceal(p, m.disclose)
SelectedInv == \A m \in made : IsSelected(m)

LEMMA FinishedIsSelected ==
  ASSUME NEW a, IsIssued(a), NEW request \in Requests, NEW disclose, NEW signature, NEW prepared,
         prepared = PreparePresent(a, request, disclose, PresentedAt),
         prepared.kind = "prepared", signature.over = prepared.input.over, Finish(prepared, signature).kind # "refused",
         NEW m, m.slot = Finish(prepared, signature), m.disclose = disclose
  PROVE  IsSelected(m)
PROOF
  <1> DEFINE slot == Finish(prepared, signature)
  <1>1. CASE a.format = "SdJwtVc"
    <2>1. prepared = PrepareSdJwt(a.presentation, request, disclose, PresentedAt)
      BY <1>1 DEF PreparePresent
    <2>2. a.presentation = Issue("SdJwtVc", HolderKey)
      BY <1>1 DEF IsIssued
    <2>3. slot.format = "SdJwtVc" /\ slot.presentation.disclosures = Conceal(a.presentation, disclose)
          /\ IsSequence(a.presentation.disclosures)
      BY <2>1, <2>2, IssuedSdJwt, PreparedSdJwt
    <2> QED
      BY <2>2, <2>3 DEF IsSelected
  <1>2. CASE a.format = "Mdoc"
    <2>1. prepared = PrepareMdoc(a.presentation, request, disclose)
      BY <1>2 DEF PreparePresent
    <2>2. a.presentation = Issue("Mdoc", HolderKey)
      BY <1>2 DEF IsIssued
    <2>3. slot.format = "Mdoc" /\ Names(slot.presentation.documents[1].nameSpaces) = disclose
      BY <2>1, <2>2, IssuedMdoc, PreparedMdoc
    <2> QED
      BY <2>3 DEF IsSelected
  <1> QED
    BY <1>1, <1>2 DEF IsIssued, Formats

LEMMA SignSelects ==
  ASSUME WalletInv, SelectedInv, Sign
  PROVE  SelectedInv'
PROOF
  <1>1. draft # Absent
    BY DEF Sign
  <1>2. CASE UNCHANGED made
    BY <1>2 DEF SelectedInv
  <1>3. CASE ~UNCHANGED made
    <2>1. draft.prepared.kind = "prepared"
      BY <1>3 DEF Sign
    <2>2. PICK k \in Keys, length \in {SignatureLength, SignatureLength - 1} :
            LET slot == Finish(draft.prepared, [by |-> k, over |-> draft.prepared.input.over, length |-> length])
            IN  made' = IF slot.kind = "refused" THEN made
                        ELSE made \union {[slot |-> slot, by |-> k, request |-> draft.request, disclose |-> draft.disclose]}
      BY <1>3, Zenon DEF Sign
    <2> DEFINE signature == [by |-> k, over |-> draft.prepared.input.over, length |-> length]
               slot == Finish(draft.prepared, signature)
               m == [slot |-> slot, by |-> k, request |-> draft.request, disclose |-> draft.disclose]
    <2>3. signature.over = draft.prepared.input.over
      OBVIOUS
    <2>4. slot.kind # "refused" /\ made' = made \union {m}
      BY <1>3, <2>2, Zenon
    <2> HIDE DEF signature
    <2>5. m.slot = slot /\ m.disclose = draft.disclose
      OBVIOUS
    <2> HIDE DEF m
    <2>6. PICK a \in held : draft.prepared = PreparePresent(a, draft.request, draft.disclose, PresentedAt)
      BY <1>1 DEF WalletInv, DraftInv
    <2>7. draft.request \in Requests /\ IsIssued(a)
      BY <1>1 DEF WalletInv, DraftInv, HeldInv
    <2>8. IsSelected(m)
      BY <2>1, <2>3, <2>4, <2>5, <2>6, <2>7, FinishedIsSelected
    <2> QED
      BY <2>4, <2>8 DEF SelectedInv
  <1> QED
    BY <1>2, <1>3

(* A presentation shows what the holder selected, all of it and nothing else: of an mdoc the elements
   named, of an SD-JWT all but the least that the claims left out take along (prepare_present),
   for any attestations and selections. *)
THEOREM OnlySelectedStaysShown == ExchangeSpec => []OnlySelectedIsShown
PROOF
  <1>1. ExchangeInit => SelectedInv
    BY DEF ExchangeInit, SelectedInv
  <1>2. ExchangeInv /\ SelectedInv /\ [ExchangeNext]_exchangeVars => SelectedInv'
    <2> SUFFICES ASSUME ExchangeInv, SelectedInv, [ExchangeNext]_exchangeVars PROVE SelectedInv'
      OBVIOUS
    <2>1. CASE Sign
      BY <2>1, SignSelects DEF ExchangeInv
    <2>2. CASE made' = made
      BY <2>2 DEF SelectedInv
    <2>3. Sign \/ made' = made
      BY DEF ExchangeNext, Begin, Answer, Misanswer, Prepare, VerifyOne, VerifySet, VerifyRefused, VerifierWorks,
             walletVars, exchangeVars
    <2> QED
      BY <2>1, <2>2, <2>3
  <1>3. SelectedInv => OnlySelectedIsShown
    <2> SUFFICES ASSUME NEW m \in made, IsSelected(m)
                 PROVE  IF m.slot.format = "Mdoc" THEN Shows(m.slot) = m.disclose
                        ELSE LET p   == Issue("SdJwtVc", HolderKey)
                                 all == Digests(p.disclosures)
                             IN  /\ Shows(m.slot) \subseteq all /\ HoldsBack(all \ Shows(m.slot), m.disclose, p)
                                 /\ \A S \in SUBSET all : HoldsBack(S, m.disclose, p) => all \ Shows(m.slot) \subseteq S
      BY DEF SelectedInv, OnlySelectedIsShown
    <2>1. CASE m.slot.format = "Mdoc"
      BY <2>1 DEF IsSelected, Shows, Names
    <2>2. CASE m.slot.format # "Mdoc"
      <3>1. PICK p : p = Issue("SdJwtVc", HolderKey)
        OBVIOUS
      <3>2. IsSequence(p.disclosures) /\ Shows(m.slot) = {d.digest : d \in Range(Conceal(p, m.disclose))}
        BY <2>2, <3>1 DEF IsSelected, Shows
      <3> QED
        BY <2>2, <3>1, <3>2, ConcealsTheLeast
    <2> QED
      BY <2>1, <2>2
  <1> QED
    BY <1>1, <1>2, <1>3, ExchangeInvariance, PTL DEF ExchangeSpec

-----------------------------------------------------------------------------
(* What a verifier finds of what was selected *)

\* What the scan reads of a document has the name of an item in it.
LEMMA RawElements ==
  ASSUME NEW d, NEW e \in Elements(RawItems(d))
  PROVE  d.nameSpaces # Garbage /\ <<e.ns, e.id>> \in Names(d.nameSpaces)
PROOF
  <1> DEFINE raw == RawItems(d)
  <1>1. PICK ns \in DOMAIN raw : \E place \in DOMAIN raw[ns] :
          e = [ns |-> ns, id |-> raw[ns][place].identifier, value |-> raw[ns][place].value]
    <2> HIDE DEF raw
    <2> QED
      BY DEF Elements, raw
  <1>2. PICK place \in DOMAIN raw[ns] : e = [ns |-> ns, id |-> raw[ns][place].identifier, value |-> raw[ns][place].value]
    BY <1>1
  <1>3. e.ns = ns /\ e.id = raw[ns][place].identifier
    BY <1>2
  <1>4. d.nameSpaces # Garbage
    <2> SUFFICES ASSUME d.nameSpaces = Garbage PROVE DOMAIN raw = {}
      BY <1>1
    <2> DEFINE entries == IF d.nameSpaces = Garbage THEN <<>> ELSE d.nameSpaces
               names == {entries[i].ns : i \in DOMAIN entries}
               ItemAt(at) == entries[at[1]].items[at[2]]
               Of(name) == UNION {{<<i, j>> : j \in DOMAIN entries[i].items} : i \in {k \in DOMAIN entries : entries[k].ns = name}}
               Read(name) == {at \in Of(name) : IsRead(ItemAt(at))}
               Items(name) == [at \in Read(name) |-> ItemAt(at)]
               unreadable == \E i \in DOMAIN entries : \E j \in DOMAIN entries[i].items : entries[i].items[j] = Garbage
    <2>1. raw = IF unreadable THEN [name \in {} |-> <<>>] ELSE [name \in names |-> Items(name)]
      BY Zenon DEF RawItems
    <2>2. names = {}
      OBVIOUS
    <2> HIDE DEF raw, names, Items, unreadable
    <2> QED
      BY <2>1, <2>2
  <1>5. /\ place[1] \in DOMAIN d.nameSpaces /\ d.nameSpaces[place[1]].ns = ns
        /\ place[2] \in DOMAIN d.nameSpaces[place[1]].items
        /\ raw[ns][place] = d.nameSpaces[place[1]].items[place[2]]
    BY <1>1, <1>2, <1>4, ReadItems
  <1> QED
    BY <1>3, <1>4, <1>5 DEF Names, Range

\* A path of a namespace and an identifier leads to an element that has both.
LEMMA TwoKeysLead ==
  ASSUME NEW elements, NEW claim, NEW ns, NEW id,
         claim.path = <<[kind |-> "key", key |-> ns], [kind |-> "key", key |-> id]>>,
         ClaimResolves(claim, MdocPresented(elements))
  PROVE  \E e \in elements : e.ns = ns /\ e.id = id
PROOF
  <1> DEFINE base == MdocPresented(elements)
             path == claim.path
             Leads(f) == f = [n \in 0..Len(path) |-> IF n = 0 THEN {base} ELSE SelectFrom(f[n - 1], path[n])]
             Along == CHOOSE f : Leads(f)
             first == SelectFrom({base}, path[1])
             second == SelectFrom(first, path[2])
  <1>1. Len(path) = 2 /\ path[1].kind = "key" /\ path[1].key = ns /\ path[2].kind = "key" /\ path[2].key = id
    OBVIOUS
  <1>2. ResolvePath(base, path) = Along[2]
    <2>1. ResolvePath(base, path) = Along[Len(path)]
      BY <1>1, Zenon DEF ResolvePath
    <2> QED
      BY <1>1, <2>1
  <1> HIDE DEF base, path
  <1>3. Leads(Along)
    <2> DEFINE f == [n \in 0..2 |-> IF n = 0 THEN {base} ELSE IF n = 1 THEN first ELSE second]
    <2>1. f[0] = {base} /\ f[1] = first /\ f[2] = second /\ f = [n \in 0..2 |-> f[n]]
      OBVIOUS
    <2> HIDE DEF f
    <2>2. \A n \in 0..2 : f[n] = IF n = 0 THEN {base} ELSE SelectFrom(f[n - 1], path[n])
      BY <2>1
    <2>3. Leads(f)
      BY <1>1, <2>1, <2>2, Zenon
    <2> QED
      BY <2>3, Zenon
  <1> HIDE DEF Along
  <1>4. Along[2] = second
    BY <1>1, <1>3
  <1>5. second # {}
    BY <1>2, <1>4 DEF ClaimResolves, base, path
  <1>6. second = {v.members[id] : v \in {w \in first : w.kind = "object" /\ id \in DOMAIN w.members}}
    BY <1>1 DEF SelectFrom
  <1>7. first = {v.members[ns] : v \in {w \in {base} : w.kind = "object" /\ ns \in DOMAIN w.members}}
    BY <1>1 DEF SelectFrom
  <1> HIDE DEF first, second
  <1>8. ns \in DOMAIN base.members /\ id \in DOMAIN base.members[ns].members
    <2>1. PICK v \in first : id \in DOMAIN v.members
      BY <1>5, <1>6
    <2>2. v = base.members[ns] /\ ns \in DOMAIN base.members
      BY <1>7, <2>1
    <2> QED
      BY <2>1, <2>2
  <1>9. DOMAIN base.members[ns].members = {e.id : e \in {x \in elements : x.ns = ns}}
    BY <1>8 DEF base, MdocPresented, Plain, Object
  <1> QED
    BY <1>8, <1>9

\* What a path of a query leads to in an mdoc was selected by the holder.
OnlySelectedIsFound ==
  \A m \in made : m.slot.format = "Mdoc" =>
    \A ns, id, values :
      ClaimResolves([path |-> <<[kind |-> "key", key |-> ns], [kind |-> "key", key |-> id]>>, values |-> values],
                    Carried(m.slot))
      => <<ns, id>> \in m.disclose

(* A verifier finds in an mdoc no element but those the holder selected, whatever its query asks for:
   what is pruned from nameSpaces is out of the reach of the scan of its bytes and of a path of
   namespace and identifier (prepare_present, scan_raw_issuer_items, evaluate_single). *)
THEOREM OnlySelectedStaysFound == ExchangeSpec => []OnlySelectedIsFound
PROOF
  <1>1. OnlySelectedIsShown => OnlySelectedIsFound
    <2> SUFFICES ASSUME OnlySelectedIsShown, NEW m \in made, m.slot.format = "Mdoc", NEW ns, NEW id, NEW claim,
                        claim.path = <<[kind |-> "key", key |-> ns], [kind |-> "key", key |-> id]>>,
                        ClaimResolves(claim, Carried(m.slot))
                 PROVE  <<ns, id>> \in m.disclose
      BY DEF OnlySelectedIsFound
    <2>1. PICK d : d = m.slot.presentation.documents[1]
      OBVIOUS
    <2>2. PICK e \in Elements(RawItems(d)) : e.ns = ns /\ e.id = id
      BY <2>1, TwoKeysLead DEF Carried
    <2>3. <<ns, id>> \in Names(d.nameSpaces)
      BY <2>2, RawElements
    <2>4. Names(d.nameSpaces) = m.disclose
      BY <2>1 DEF OnlySelectedIsShown, Shows, Names
    <2> QED
      BY <2>3, <2>4
  <1> QED
    BY <1>1, OnlySelectedStaysShown, PTL
===============================================================================
