------------------------------ MODULE SigningFlow ------------------------------
(***************************************************************************)
(* What the signing core promises to its host, without phases, handles or   *)
(* protocol: a document (here: what its signature covers) is offered to the *)
(* signer, and only an approved one is ever sealed.  The host may fall back *)
(* to an earlier saved point, but not to one that never was.                *)
(***************************************************************************)
EXTENDS FlowStages

CONSTANTS Documents, None

VARIABLES
  stage,
  offered,   \* the document the flow is about to seal, if any
  shown,     \* documents an authorization redirect has shown
  accepted,  \* documents the signer approved
  output,    \* the document handed out as signed
  saved      \* the point the host can fall back to

flow == <<stage, offered, shown, accepted, output, saved>>

Point == [stage |-> stage, offered |-> offered, output |-> output]

Init ==
  /\ stage = "idle" /\ offered = None /\ output = None
  /\ shown = {} /\ accepted = {} /\ saved = Point

Step(s) == s \in StagesAfter[stage] /\ stage' = s

\* A step that offers and hands out nothing.
Proceed ==
  /\ \E s \in {"login", "fetch"} : Step(s)
  /\ offered = None /\ UNCHANGED <<offered, shown, accepted, output, saved>>

Offer ==
  /\ Step("consent")
  /\ offered' \in Documents
  /\ shown' = shown \cup {offered'}
  /\ UNCHANGED <<accepted, output, saved>>

\* An old redirect may still be approved.
Approve ==
  /\ \E d \in shown : accepted' = accepted \cup {d}
  /\ UNCHANGED <<stage, offered, shown, output, saved>>

Consented ==
  /\ offered \in accepted
  /\ Step("seal")
  /\ UNCHANGED <<offered, shown, accepted, output, saved>>

Seal ==
  /\ Step("done")
  /\ offered \in accepted
  /\ output' = offered /\ offered' = None
  /\ UNCHANGED <<shown, accepted, saved>>

Abort ==
  /\ Step("failed")
  /\ offered' = None
  /\ UNCHANGED <<shown, accepted, output, saved>>

Save == saved' = Point /\ UNCHANGED <<stage, offered, shown, accepted, output>>

\* The host restarts from what it saved; it may have lost what came with it.
Restore ==
  /\ stage' = saved.stage /\ offered' = saved.offered
  /\ output' \in {None, saved.output}
  /\ UNCHANGED <<shown, accepted, saved>>

Next == Proceed \/ Offer \/ Approve \/ Consented \/ Seal \/ Abort \/ Save \/ Restore

Spec == Init /\ [][Next]_flow

\* Only what the signer approved is handed out or about to be, and only what was
\* shown can be approved.
ApprovedPoint(p) ==
  /\ p.output # None => p.output \in accepted
  /\ p.stage = "seal" => p.offered \in accepted

OnlyApprovedIsSealed ==
  /\ accepted \subseteq shown
  /\ ApprovedPoint(Point) /\ ApprovedPoint(saved)
==============================================================================
