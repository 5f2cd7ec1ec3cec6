--------------------------- MODULE SigningFlowProofs ---------------------------
(***************************************************************************)
(* The abstract flow never hands out a document its signer did not approve. *)
(***************************************************************************)
EXTENDS SigningFlow, TLAPS

\* The stages are those a call can lead to, for expanding Step.
LEMMA StepStages ==
  ASSUME NEW s, stage \in Stages, Step(s)
  PROVE  /\ stage' = s
         /\ s = "seal" => stage \in {"seal", "consent"}
         /\ s \in Stages
  BY DEF Step, StagesAfter, Stages, Redirecting, Performing, Ended

FlowInv == stage \in Stages /\ saved.stage \in Stages /\ OnlyApprovedIsSealed

\* FlowInv is inductive: approvals only grow, and a restart returns to a point
\* that satisfied it when it was saved.
LEMMA FlowInvInductive == FlowInv /\ [Next]_flow => FlowInv'
<1> SUFFICES ASSUME FlowInv, [Next]_flow PROVE FlowInv'
  OBVIOUS
<1> USE DEF FlowInv, OnlyApprovedIsSealed, ApprovedPoint, Point
<1>1. CASE Proceed
  BY <1>1, StepStages DEF Proceed
<1>2. CASE Offer
  BY <1>2, StepStages DEF Offer
<1>3. CASE Approve
  BY <1>3 DEF Approve
<1>4. CASE Consented
  BY <1>4, StepStages DEF Consented
<1>5. CASE Seal
  BY <1>5, StepStages DEF Seal
<1>6. CASE Abort
  BY <1>6, StepStages DEF Abort
<1>7. CASE Save
  BY <1>7 DEF Save
<1>8. CASE Restore
  BY <1>8 DEF Restore
<1>9. CASE UNCHANGED flow
  BY <1>9 DEF flow
<1>10. QED
  BY <1>1, <1>2, <1>3, <1>4, <1>5, <1>6, <1>7, <1>8, <1>9 DEF Next

\* What you see is what is signed, in the abstract: only an approved document
\* reaches sealing or the output, also after a restart.
THEOREM FlowSealsOnlyApproved == Spec => []OnlyApprovedIsSealed
<1>1. Init => FlowInv
  BY DEF Init, FlowInv, OnlyApprovedIsSealed, ApprovedPoint, Point, Stages
<1>2. FlowInv => OnlyApprovedIsSealed
  BY DEF FlowInv
<1>3. QED
  BY <1>1, <1>2, FlowInvInductive, PTL DEF Spec
==============================================================================
