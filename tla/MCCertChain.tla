------------------------------ MODULE MCCertChain ------------------------------
(* The search by itself, called with every chain of the verifier's runs that has a name
   constraint or a critical extension on one of its ways. *)
EXTENDS CertChain, MCCredentials

MCCerts == (Intermediates \union {Leaf0, RootS, SelfIssued, [Leaf0 EXCEPT !.subject = Dn("A")]}
            \union UNION {{a[i] : i \in DOMAIN a} : a \in AnchorLists}) \ {Garbage}
MCCalls ==
  {[chain |-> c, anchors |-> a, now |-> Now, leafTime |-> Absent,
    purpose |-> [kind |-> "SdJwtVcIssuer", role |-> "Pid"]]
   : c \in {<<Leaf0, s, t>> : s, t \in Intermediates}, a \in AnchorLists}

\* The paths a route makes, the anchor first.
PathsOf(r) ==
  LET below == [k \in 1..(Len(r) + 1) |-> RouteCert(r, Len(r) + 1 - k)]
  IN  IF IsPinned(LastOf(r)) THEN {below}
      ELSE {<<anchor>> \o below : anchor \in {a \in AnchorCerts :
              IssuedBy(LastOf(r), a, call.now, FollowingOn(r, Len(r) + 1)) = "ok"}}

(* "A conformant credential whose chain reaches a configured anchor via some valid path is
   therefore accepted" (chain.rs:403-404): a path that reaches an anchor and meets the constraints
   on its certificates, not only the first the search comes upon (verify_chain). *)
SomeValidPathIsAccepted ==
  /\ Answered /\ BeforeWalk(call) = "ok" /\ budget > 0
  /\ \E r \in Routes : /\ IsLinked(r) /\ EndsAtAnchor(r)
                       /\ \E p \in PathsOf(r) : EnforcePathConstraints(p) = "ok"
  => result.verdict = "ok"
===============================================================================
