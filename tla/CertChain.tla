------------------------------ MODULE CertChain ------------------------------
(***************************************************************************)
(* Certification path building (trust/chain.rs): verify_chain checks the    *)
(* leaf, then walk searches depth first, through the supplied intermediates,*)
(* for a configured anchor, under a cap on the path length and a budget of  *)
(* candidate checks; the path it finds must satisfy the path constraints.   *)
(* A frame of the recursion is an element of `stack`.  A certificate is a   *)
(* record of what the code reads of it, its bytes are that record; bytes    *)
(* that are no certificate are Garbage.                                     *)
(***************************************************************************)
EXTENDS DecodedValues, Sequences, FiniteSets

CONSTANTS
  Certs,          \* certificates that parse
  Calls,          \* arguments of verify_chain
  MaxPathLen,     \* MAX_PATH_LEN, 8 in the code
  MaxNodeVisits   \* MAX_NODE_VISITS, 4096 in the code

\* A chain and anchors, each certificate parsed or not.
IsCall(c) == c.chain \in Seq(Certs \union {Garbage}) /\ c.anchors \in Seq(Certs \union {Garbage})
ASSUME CallsAssumption == \A c \in Calls : IsCall(c)
\* A subject is a directory name.
ASSUME CertsAssumption == Garbage \notin Certs /\ \A cert \in Certs : cert.subject.type = "dn"
ASSUME BoundsAssumption == MaxPathLen \in Nat /\ MaxNodeVisits \in Nat

VARIABLES
  call,      \* the arguments of the current or the last call
  stack,     \* the frames of walk, the leaf's first
  budget,
  lastErr,
  result     \* of the last call

chainVars == <<call, stack, budget, lastErr, result>>

-----------------------------------------------------------------------------
(* One certificate *)

SupportedAlgs == {"EcdsaP256Sha256", "RsaSha256", "RsaSha384", "RsaSha512"}
IsSelfIssued(cert) == cert.subject = cert.issuer
CertIsValidAt(cert, t) == cert.from <= t /\ t <= cert.to

\* Mutant: the path length constraint is off by one.
AssertsCaLoosely(cert, following) ==
  /\ cert.ca = "critical"
  /\ cert.pathLen = Absent \/ following <= cert.pathLen + 1
  /\ cert.ku = Absent \/ (cert.ku # Unreadable /\ "keyCertSign" \in cert.ku)

\* ca: "critical" and "plain" assert cA in a basicConstraints of that criticality.
AssertsCa(cert, following) ==
  /\ cert.ca = "critical"
  /\ cert.pathLen = Absent \/ following <= cert.pathLen
  /\ cert.ku = Absent \/ (cert.ku # Unreadable /\ "keyCertSign" \in cert.ku)

\* What issued_by answers for a child under a candidate issuer.
IssuedBy(child, issuer, now, following) ==
  IF child.issuer # issuer.subject THEN "IssuerMismatch"
  ELSE IF child.alg \notin SupportedAlgs THEN "UnsupportedAlgorithm"
  ELSE IF child.by # issuer.key THEN "SignatureInvalid"
  ELSE IF ~AssertsCa(issuer, following) THEN "NotACa"
  ELSE IF ~CertIsValidAt(issuer, now) THEN "AnchorExpired"
  ELSE "ok"

\* Mutant: an anchor that does not parse counts as a reason.
MoreThanMismatch(last, candidate) == IF last = "IssuerMismatch" THEN candidate ELSE last

\* "No issuer found", and an anchor that does not parse: a fault of the configuration.
GenericReasons == {"IssuerMismatch", "MalformedAnchor"}
\* The first reason that is not generic is kept; one that is generic is never recorded.
MoreSpecific(last, candidate) ==
  IF candidate \notin GenericReasons /\ last \in GenericReasons THEN candidate ELSE last

HasKeyUsage(leaf, usages) == leaf.ku \notin {Absent, Unreadable} /\ leaf.ku \intersect usages # {}
HasEku(leaf, purpose) == leaf.eku \notin {Absent, Unreadable} /\ purpose \in leaf.eku
IsNotCa(leaf) == leaf.ca = "none"

\* The QcStatements an issuer certificate needs for its role; a repeated or
\* unreadable extension is Unreadable.
HasRequiredQcStatements(leaf, role) ==
  \/ role = "NonQualifiedEaa"
  \/ /\ leaf.qc # Unreadable
     /\ CASE role = "Pid"    -> "QctPid" \in leaf.qc
          [] role = "Qeaa"   -> "QcCompliance" \in leaf.qc /\ {"QctEsign", "QctEseal"} \intersect leaf.qc # {}
          [] role = "PubEaa" -> "QcPsb" \in leaf.qc

LeafHasPurpose(leaf, purpose) ==
  CASE purpose.kind = "TrustListSigner"    -> TRUE
    [] purpose.kind = "MdocDocumentSigner" ->
         HasEku(leaf, "mdlDS") /\ HasKeyUsage(leaf, {"digitalSignature"}) /\ IsNotCa(leaf)
    [] purpose.kind = "SdJwtVcIssuer"      ->
         /\ IsNotCa(leaf) /\ HasKeyUsage(leaf, {"digitalSignature", "nonRepudiation"})
         /\ HasRequiredQcStatements(leaf, purpose.role)

LeafHasStatusSigningEku(leaf) == leaf # Garbage /\ HasEku(leaf, "statusSigning")

-----------------------------------------------------------------------------
(* Path constraints.  A subtree is its type and the names within it; a name  *)
(* has a type too.  Only directory and DNS names are constrained.            *)

NameTypes == {"dn", "dns"}
Subtrees(nc) == nc.permitted \union nc.excluded
NoConstraints == [permitted |-> [t \in NameTypes |-> {}], excluded |-> {}]
IsConstrained(nc) == nc # NoConstraints

\* permitted holds one set of subtrees per certificate: all must be met.
NameWithin(name, nc) ==
  /\ \A S \in nc.permitted[name.type] : \E s \in S : name \in s.names
  /\ \A s \in nc.excluded : name \notin s.names

\* The dn of the subject, and the alternative names of a constrained type.
NamesOf(cert) == {cert.subject} \union {n \in cert.san : n.type \in NameTypes}

SubjectWithin(cert, nc) ==
  IF cert.san = Unreadable
  THEN NameWithin(cert.subject, nc) /\ ~IsConstrained(nc)
  ELSE \A n \in NamesOf(cert) : NameWithin(n, nc)

\* A constraint with a range or of another type cannot be processed.
NcProcessable(cert) ==
  cert.nc # Absent => /\ cert.nc # Unreadable
                      /\ \A s \in Subtrees(cert.nc) : s.type \in NameTypes /\ ~s.ranged

Absorb(cert, nc) ==
  IF cert.nc = Absent THEN nc
  ELSE [permitted |-> [t \in NameTypes |->
          LET own == {s \in cert.nc.permitted : s.type = t}
          IN  nc.permitted[t] \union (IF own = {} THEN {} ELSE {own})],
        excluded |-> nc.excluded \union cert.nc.excluded]

\* Mutant: every self-issued certificate is exempt, the leaf too.
ExemptsSelfIssued(cert, isFinal) == ~IsSelfIssued(cert)
MustBeWithin(cert, isFinal) == ~IsSelfIssued(cert) \/ isFinal

Rejected(err) == [verdict |-> err, nc |-> NoConstraints]
\* The next certificate of a path: the anchor itself (1) is not checked, its constraints count.
Enforce(path, i, sofar) ==
  IF sofar.verdict # "ok" THEN sofar
  ELSE IF i > 1 /\ path[i].crit
  THEN Rejected("UnsupportedCriticalExtension")
  ELSE IF \/ i > 1 /\ MustBeWithin(path[i], i = Len(path)) /\ ~SubjectWithin(path[i], sofar.nc)
          \/ ~NcProcessable(path[i])
  THEN Rejected("NameConstraintViolation")
  ELSE [verdict |-> "ok", nc |-> Absorb(path[i], sofar.nc)]

\* From the anchor to the leaf.
EnforcePathConstraints(path) ==
  LET Upto[i \in 0..Len(path)] ==
        IF i = 0 THEN [verdict |-> "ok", nc |-> NoConstraints] ELSE Enforce(path, i, Upto[i - 1])
  IN  Upto[Len(path)].verdict

-----------------------------------------------------------------------------
(* The search *)

Leaf == call.chain[1]
Inters == Tail(call.chain)
IsCert(c) == c # Garbage
Anchors == call.anchors
IsPinned(cert) == \E i \in DOMAIN Anchors : Anchors[i] = cert

\* A frame: its certificate (0 is the leaf), the path length so far, the
\* candidate it is at (0: none yet), and whether a branch below it was too long.
Frame(at, depth) == [at |-> at, depth |-> depth, next |-> 0, tooLong |-> FALSE]
Top == stack[Len(stack)]
CertAt(at) == IF at = 0 THEN Leaf ELSE Inters[at]
Current == CertAt(Top.at)
Used == {stack[k].at : k \in DOMAIN stack}
Hops == Len(stack) - 1
NextAnchor == Top.next
NextInter == Top.next - Len(Anchors)

NoResult == [verdict |-> "none", root |-> Absent, path |-> <<>>]
Failure(err) == [verdict |-> err, root |-> Absent, path |-> <<>>]

\* Anchor first, as enforce_path_constraints wants it; a pinned certificate is its own anchor.
PathTo(anchor) ==
  LET n == IF anchor = Current /\ IsPinned(Current) THEN Len(stack) - 1 ELSE Len(stack)
  IN  <<anchor>> \o [k \in 1..n |-> CertAt(stack[n + 1 - k].at)]

ChainInit ==
  /\ call = [chain |-> <<>>, anchors |-> <<>>]
  /\ stack = <<>> /\ budget = 0 /\ lastErr = "IssuerMismatch" /\ result = NoResult

\* Why verify_chain answers before it searches.  The leaf is judged at its own time if one is given.
BeforeWalk(c) ==
  LET leaf == c.chain[1]
      pinned == \E i \in DOMAIN c.anchors : c.anchors[i] = leaf
  IN  IF c.chain = <<>> THEN "IssuerMismatch"
      ELSE IF \E i \in DOMAIN c.chain : c.chain[i] = Garbage THEN "Malformed"
      ELSE IF ~pinned /\ ~LeafHasPurpose(leaf, c.purpose) THEN "WrongLeafPurpose"
      ELSE IF ~CertIsValidAt(leaf, IF c.leafTime = Absent THEN c.now ELSE c.leafTime) THEN "LeafExpired"
      ELSE "ok"

\* An anchor that does not parse is skipped; the reason it gives is a generic one.
FirstReason(c) ==
  IF \E i \in DOMAIN c.anchors : ~IsCert(c.anchors[i]) THEN MoreSpecific("IssuerMismatch", "MalformedAnchor")
  ELSE "IssuerMismatch"

VerifyChain(c) ==
  /\ stack = <<>>
  /\ call' = c /\ lastErr' = FirstReason(c) /\ budget' = MaxNodeVisits
  /\ IF BeforeWalk(c) = "ok"
     THEN stack' = <<Frame(0, 0)>> /\ result' = NoResult
     ELSE stack' = <<>> /\ result' = Failure(BeforeWalk(c))

\* walk returns without a path, to the frame below or to verify_chain.
\* Mutant: a branch that was cut counts as searched.
ReturnForgetting(res, err) ==
  IF Len(stack) = 1
  THEN stack' = <<>> /\ result' = Failure(IF res = "TooLong" THEN "PathTooLong" ELSE err)
  ELSE /\ stack' = [k \in 1..(Len(stack) - 1) |->
                      IF k < Len(stack) - 1 THEN stack[k]
                      ELSE [stack[k] EXCEPT !.next = @ + 1]]
       /\ UNCHANGED result

Return(res, err) ==
  IF Len(stack) = 1
  THEN stack' = <<>> /\ result' = Failure(IF res = "TooLong" THEN "PathTooLong" ELSE err)
  ELSE /\ stack' = [k \in 1..(Len(stack) - 1) |->
                      IF k < Len(stack) - 1 THEN stack[k]
                      ELSE [stack[k] EXCEPT !.next = @ + 1, !.tooLong = @ \/ res = "TooLong"]]
       /\ UNCHANGED result

\* The first path found decides: its constraints are not part of the search.
Reached(anchor) ==
  LET verdict == EnforcePathConstraints(PathTo(anchor))
  IN  /\ stack' = <<>>
      /\ result' = IF verdict = "ok"
                   THEN [verdict |-> "ok", root |-> anchor, path |-> PathTo(anchor)]
                   ELSE Failure(verdict)

Advance == stack' = [stack EXCEPT ![Len(stack)].next = @ + 1]

Enter ==
  /\ stack # <<>> /\ Top.next = 0
  /\ \/ IsPinned(Current) /\ Reached(Current) /\ UNCHANGED lastErr
     \/ /\ ~IsPinned(Current) /\ Current.inner # Current.alg
        /\ lastErr' = MoreSpecific(lastErr, "SignatureAlgorithmMismatch")
        /\ Return("DeadEnd", lastErr')
     \/ ~IsPinned(Current) /\ Current.inner = Current.alg /\ Advance /\ UNCHANGED <<lastErr, result>>
  /\ UNCHANGED <<call, budget>>

\* The budget is spent before the candidate is looked at.
Exhausted ==
  /\ budget = 0
  /\ Return("TooLong", lastErr)
  /\ UNCHANGED <<call, budget, lastErr>>

\* An anchor that does not parse is none.
TryAnchor ==
  /\ stack # <<>> /\ Top.next > 0 /\ NextAnchor <= Len(Anchors)
  /\ \/ ~IsCert(Anchors[NextAnchor]) /\ Advance /\ UNCHANGED <<call, budget, lastErr, result>>
     \/ IsCert(Anchors[NextAnchor]) /\ Exhausted
     \/ LET anchor == Anchors[NextAnchor]
            answer == IssuedBy(Current, anchor, call.now, Top.depth)
        IN  /\ IsCert(anchor)
            /\ budget > 0 /\ budget' = budget - 1
            /\ IF answer = "ok"
               THEN Reached(anchor) /\ UNCHANGED lastErr
               ELSE lastErr' = MoreSpecific(lastErr, answer) /\ Advance /\ UNCHANGED result
            /\ UNCHANGED call

\* No deeper than the cap: too long if there was somewhere to go.
AtCap ==
  /\ stack # <<>> /\ Top.next > Len(Anchors) /\ Hops >= MaxPathLen
  /\ LET further == \E i \in DOMAIN Inters : i \notin Used /\ Current.issuer = Inters[i].subject
     IN  Return(IF further THEN "TooLong" ELSE "DeadEnd", lastErr)
  /\ UNCHANGED <<call, budget, lastErr>>

TryIntermediate ==
  /\ stack # <<>> /\ Hops < MaxPathLen
  /\ NextInter > 0 /\ NextInter <= Len(Inters)
  /\ \/ NextInter \in Used /\ Advance /\ UNCHANGED <<call, budget, lastErr, result>>
     \/ NextInter \notin Used /\ Exhausted
     \/ LET candidate == Inters[NextInter]
            answer == IssuedBy(Current, candidate, call.now, Top.depth)
        IN  /\ NextInter \notin Used
            /\ budget > 0 /\ budget' = budget - 1
            /\ IF answer = "ok"
               THEN /\ stack' = Append(stack, Frame(NextInter,
                                  IF IsSelfIssued(candidate) THEN Top.depth ELSE Top.depth + 1))
                    /\ UNCHANGED lastErr
               ELSE lastErr' = MoreSpecific(lastErr, answer) /\ Advance
            /\ UNCHANGED <<call, result>>

Leave ==
  /\ stack # <<>> /\ Hops < MaxPathLen /\ NextInter > Len(Inters)
  /\ Return(IF Top.tooLong THEN "TooLong" ELSE "DeadEnd", lastErr)
  /\ UNCHANGED <<call, budget, lastErr>>

Walk == Enter \/ TryAnchor \/ AtCap \/ TryIntermediate \/ Leave

ChainNext == (\E c \in Calls : VerifyChain(c)) \/ Walk
\* walk is a synchronous recursion: nothing keeps it from its next step.
ChainSpec == ChainInit /\ [][ChainNext]_chainVars /\ WF_chainVars(Walk)

-----------------------------------------------------------------------------
(* Properties *)

Answered == stack = <<>> /\ result # NoResult

(* What a search holds and answers. *)
ChainTypeOK ==
  /\ \A k \in DOMAIN stack : /\ stack[k].at \in 0..Len(Inters) /\ stack[k].depth \in Nat
                            /\ stack[k].next \in 0..(Len(Anchors) + Len(Inters) + 1)
                            /\ stack[k].tooLong \in BOOLEAN
  /\ budget \in 0..MaxNodeVisits
  /\ result.verdict = "ok" => result.root \in Certs

\* RFC 5280 6.1: who may certify whom, with that many non-self-issued intermediates below.
Certifies(ca, child, following) ==
  /\ child.issuer = ca.subject /\ child.by = ca.key
  /\ ca.ca = "critical" /\ (ca.pathLen = Absent \/ following <= ca.pathLen)
  /\ ca.from <= call.now /\ call.now <= ca.to

\* Those below position k of a path, without the leaf.
Following(path, k) == Cardinality({j \in (k + 1)..(Len(path) - 1) : ~IsSelfIssued(path[j])})

(* A path that is accepted runs from a configured anchor to the leaf, each certificate
   certified by the one above it as the number of intermediates below allows, no more of
   them than the cap (verify_chain, walk): backtracking leaves no trace. *)
PathIsLinked ==
  result.verdict = "ok" =>
    LET path == result.path IN
    /\ path # <<>> /\ path[Len(path)] = Leaf /\ Len(path) <= MaxPathLen + 2
    /\ result.root = path[1] /\ IsPinned(path[1])
    /\ \A k \in 1..(Len(path) - 1) : Certifies(path[k], path[k + 1], Following(path, k))

\* Whether the constraints of one certificate admit another.
Admits(ca, name) ==
  ca.nc # Absent =>
    /\ (\E s \in ca.nc.permitted : s.type = name.type) =>
         \E s \in ca.nc.permitted : s.type = name.type /\ name \in s.names
    /\ \A s \in ca.nc.excluded : name \notin s.names

(* On an accepted path every name below a certificate lies within its name constraints,
   taken pair by pair (self-issued intermediates excepted, never the leaf); names that cannot be
   read stand below no constraint at all; and nothing below the anchor holds a critical
   extension the code does not know (enforce_path_constraints). *)
PathMeetsConstraints ==
  result.verdict = "ok" =>
    LET path == result.path IN
    \A k \in 2..Len(path) :
      /\ ~path[k].crit
      /\ (~IsSelfIssued(path[k]) \/ k = Len(path)) =>
           \A i \in 1..(k - 1) :
             IF path[k].san = Unreadable
             THEN path[i].nc = Absent \/ Subtrees(path[i].nc) = {}
             ELSE \A n \in NamesOf(path[k]) : Admits(path[i], n)

(* What an accepted chain promises: the path is linked from an anchor to the leaf, and the path as
   a whole meets the constraints each of its certificates states (verify_chain). *)
PathIsValid == PathIsLinked /\ PathMeetsConstraints

\* The ways up from the leaf, as distinct intermediates within the cap.
Routes ==
  UNION {{r \in [1..n -> DOMAIN Inters] : \A i, j \in 1..n : r[i] = r[j] => i = j}
         : n \in 0..(IF Len(Inters) < MaxPathLen THEN Len(Inters) ELSE MaxPathLen)}
AnchorCerts == {Anchors[i] : i \in DOMAIN Anchors} \ {Garbage}
RouteCert(r, k) == IF k = 0 THEN Leaf ELSE Inters[r[k]]
FollowingOn(r, k) == Cardinality({j \in 1..(k - 1) : ~IsSelfIssued(Inters[r[j]])})
IsLinked(r) ==
  \A k \in 1..Len(r) : /\ RouteCert(r, k - 1).inner = RouteCert(r, k - 1).alg
                       /\ IssuedBy(RouteCert(r, k - 1), RouteCert(r, k), call.now, FollowingOn(r, k)) = "ok"
LastOf(r) == RouteCert(r, Len(r))
EndsAtAnchor(r) ==
  \/ IsPinned(LastOf(r))
  \/ /\ LastOf(r).inner = LastOf(r).alg
     /\ \E anchor \in AnchorCerts :
          IssuedBy(LastOf(r), anchor, call.now, FollowingOn(r, Len(r) + 1)) = "ok"
HasRoute == \E r \in Routes : IsLinked(r) /\ EndsAtAnchor(r)
IsCutShort ==
  \E r \in Routes :
    /\ Len(r) = MaxPathLen /\ IsLinked(r) /\ LastOf(r).inner = LastOf(r).alg
    /\ \E i \in DOMAIN Inters \ {r[k] : k \in DOMAIN r} : LastOf(r).issuer = Inters[i].subject
RouteTaken == {"ok", "UnsupportedCriticalExtension", "NameConstraintViolation"}

(* Within its budget the search misses no route: wrong turns, loops and cross-signed
   certificates are backed out of until one is found or none is left, and a branch the cap cut
   is reported as too long, not as untrusted (walk). *)
SearchIsExhaustive ==
  Answered /\ BeforeWalk(call) = "ok" /\ budget > 0 =>
    /\ HasRoute <=> result.verdict \in RouteTaken
    /\ ~HasRoute => (result.verdict = "PathTooLong" <=> IsCutShort)

\* The certificates a search asks at the end of a route, and why they or the route are turned down.
Candidates(r) ==
  AnchorCerts \union
    (IF Len(r) < MaxPathLen THEN {Inters[i] : i \in DOMAIN Inters \ {r[k] : k \in DOMAIN r}} ELSE {})
Rejections(r) ==
  IF LastOf(r).inner # LastOf(r).alg THEN {"SignatureAlgorithmMismatch"}
  ELSE {IssuedBy(LastOf(r), issuer, call.now, FollowingOn(r, Len(r) + 1)) : issuer \in Candidates(r)}
         \ {"ok", "IssuerMismatch"}
RejectionsMet == UNION {Rejections(r) : r \in {s \in Routes : IsLinked(s)}}

(* The reason of a search that finds nothing is one a certificate within its reach was really turned
   down for, and "no issuer found" only where there was none such: neither the branches tried later
   nor an anchor that does not parse hide what can be acted on (record_more_specific). *)
ReasonIsKept ==
  Answered /\ BeforeWalk(call) = "ok" /\ result.verdict \notin RouteTaken \union {"PathTooLong"} =>
    result.verdict \in IF RejectionsMet = {} THEN {"IssuerMismatch"} ELSE RejectionsMet
==============================================================================
