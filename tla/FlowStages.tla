------------------------------ MODULE FlowStages ------------------------------
(***************************************************************************)
(* The signing flow as a caller of the core sees it: which kind of Step each *)
(* call may return next.  Shared by SigningFlow, the abstract promise, and  *)
(* by RefService, whose engine drives the core one Step at a time.          *)
(***************************************************************************)

\* login, consent: a redirect is pending; fetch, seal: an HTTP effect is.
Redirecting == {"login", "consent"}
Performing == {"fetch", "seal"}
Ended == {"done", "failed"}
Stages == {"idle"} \cup Redirecting \cup Performing \cup Ended

\* What one successful call of begin or resume may lead to.
StagesAfter ==
  [idle    |-> {"login", "failed"},
   login   |-> {"fetch", "failed"},
   fetch   |-> {"fetch", "consent", "failed"},
   consent |-> {"seal", "failed"},
   seal    |-> {"seal", "done", "failed"},
   done    |-> {},
   failed  |-> {}]
==============================================================================
