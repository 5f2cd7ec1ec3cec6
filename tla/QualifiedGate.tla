---------------------------- MODULE QualifiedGate ----------------------------
(***************************************************************************)
(* The qualified gate (qualified/mod.rs): the services of a national trust  *)
(* list, which of them an issuer certificate belongs to, and the status one *)
(* had when the credential was issued.                                      *)
(***************************************************************************)
EXTENDS Datetime, FiniteSets

QualifiedStatuses == {"Qualified", "NotQualified", "Indeterminate"}

\* The identifiers a certificate asserts of its own key and of its issuer's.  Abstraction: every
\* certificate asserts both, each as the key it names; one that leaves them out matches less.
Ski(cert) == cert.key
Aki(cert) == cert.by

\* QualifiedTrustList::parse: one unreadable time loses the list.
ParseList(raw) ==
  IF raw = Absent \/ ParseRfc3339(raw.nextUpdate) = Garbage
     \/ \E s \in raw.services : \E i \in DOMAIN s.history : ParseRfc3339(s.history[i].start) = Garbage
  THEN Absent ELSE raw

\* A service's bare identifier goes before that of its certificate.
ServiceSki(service) ==
  IF service.ski # Absent THEN service.ski
  ELSE IF IsValue(service.cert) THEN Ski(service.cert) ELSE Absent

\* Mutant: the name of the issuer is enough.
MatchesByName(service, leaf) ==
  \/ service.cert = leaf
  \/ leaf # Garbage /\ IsValue(service.cert) /\ leaf.issuer = service.cert.subject

\* The certificate itself, its key, or the name and the key of its issuer.
MatchesLeaf(service, leaf) ==
  \/ service.cert = leaf
  \/ /\ leaf # Garbage
     /\ \/ ServiceSki(service) = Ski(leaf)
        \/ /\ IsValue(service.cert) /\ leaf.issuer = service.cert.subject
           /\ ServiceSki(service) = Aki(leaf)

\* The last status that had begun: sorted by start, equal starts in the order of the list.
EffectiveStatusAt(service, time) ==
  LET h     == service.history
      Start(i) == ParseRfc3339(h[i].start)
      begun == {i \in DOMAIN h : Start(i) <= time}
  IN  IF begun = {} THEN Absent
      ELSE h[CHOOSE i \in begun : \A j \in begun : Start(j) < Start(i) \/ (Start(j) = Start(i) /\ j <= i)].status

\* What authenticate asks of the list apart from the path of its signer.
IsCurrent(list, now) == ParseRfc3339(list.nextUpdate) > 0 /\ now < ParseRfc3339(list.nextUpdate)

ReadStatus(leaf, time, list, category) ==
  LET services == {s \in list.services : MatchesLeaf(s, leaf)}
  IN  IF category # "eaa-eu-qualified" \/ services = {} THEN "Indeterminate"
      ELSE IF \E s \in services : s.type = "EAA/Q" /\ EffectiveStatusAt(s, time) = "granted"
      THEN "Qualified" ELSE "NotQualified"

\* One claimed issuer; the relevant time of an SD-JWT may be missing.
StatusOf(claim, list) ==
  IF claim.cert = Absent \/ claim.time = Absent THEN "Indeterminate"
  ELSE ReadStatus(claim.cert, claim.time, list, claim.category)

\* fold_qualified: the worst of them.
FoldQualified(statuses) ==
  IF statuses = {} \/ "Indeterminate" \in statuses THEN "Indeterminate"
  ELSE IF "NotQualified" \in statuses THEN "NotQualified" ELSE "Qualified"
==============================================================================
