------------------------------ MODULE RefService ------------------------------
(***************************************************************************)
(* The reference signing service: concurrent handlers of /v1/sign (start,   *)
(* complete, status, result), the flow engine that drives the SDK, and the  *)
(* session store they share.  A handler is a thread; one action is one      *)
(* critical section of the store, or one upstream call outside any lock.    *)
(* The SDK is the flow of FlowStages: an opaque handle is where its flow    *)
(* stands, the redirect it awaits, and the HTTP effects of this round.      *)
(***************************************************************************)
EXTENDS SessionStore, FlowStages

CONSTANTS
  Threads,   \* handler goroutines that may run at once
  MaxTime,   \* bound: the clock stops here
  MaxHops    \* bound: HTTP effects between two redirects

ASSUME ThreadsAssumption == IsFiniteSet(Threads)
ASSUME HopsAssumption == MaxHops \in Nat \ {0}

SdkHandles == [stage : Stages, state : States \cup {None}, hops : 0..MaxHops]

\* nil is none of the values a pointer or a string of a session holds.
ASSUME NilAssumption == None \notin States /\ None \notin SdkHandles /\ None # "pdf"

VARIABLES
  thread,    \* where each handler is, and its local variables
  offered,   \* OAuth states in redirect URLs returned to clients
  effects,   \* how often each redirect's answer reached the SDK's effects
  sealed,    \* HTTP effects of the sealing round that were performed
  served     \* sessions whose PDF /result has served

vars == <<clock, store, thread, offered, effects, sealed, served>>

Idle == [pc |-> "idle", corr |-> None, state |-> None, error |-> None,
         sdk |-> None, reason |-> None]

Sdk(stage, st, hops) == [stage |-> stage, state |-> st, hops |-> hops]

Init ==
  /\ StoreInit
  /\ thread = [t \in Threads |-> Idle]
  /\ offered = {} /\ served = {}
  /\ effects = [st \in States |-> 0]
  /\ sealed = [c \in Corrs |-> 0]

Goto(t, pc) == thread' = [thread EXCEPT ![t].pc = pc]
Reply(t) == thread' = [thread EXCEPT ![t] = Idle]
Failing(t, reason) == thread' = [thread EXCEPT ![t].pc = "fail", ![t].reason = reason]

History == <<offered, effects, sealed, served>>

-----------------------------------------------------------------------------
\* POST /v1/sign/start.  A begin that does not redirect stores nothing.

\* Bound: only while the clock can still outrun the new session's lifetime.
StartNew(t, c) ==
  /\ thread[t].pc = "idle"
  /\ clock + TTL < MaxTime
  /\ sess[c] = NoSession
  /\ New(c, <<c, 1>>)
  /\ thread' = [thread EXCEPT ![t] = [Idle EXCEPT !.pc = "start", !.corr = c]]
  /\ UNCHANGED <<clock, History>>

StartStore(t) ==
  LET c == thread[t].corr
  IN  /\ thread[t].pc = "start"
      /\ Put(c, [sess[c] EXCEPT !.handle = Sdk("login", <<c, 1>>, 0),
                                !.status = "authorizing"])
      /\ offered' = offered \cup {<<c, 1>>}
      /\ Reply(t)
      /\ UNCHANGED <<clock, effects, sealed, served>>

-----------------------------------------------------------------------------
\* POST /v1/sign/complete with a state some client was given, once or again.

Lookup(t, st, error) ==
  /\ thread[t].pc = "idle"
  /\ ExpireByState(st)
  /\ IF StateIsPending(st)
     THEN thread' = [thread EXCEPT ![t] = [Idle EXCEPT !.pc = "found", !.corr = byState[st],
                                                       !.state = st, !.error = error]]
     ELSE UNCHANGED thread
  /\ UNCHANGED <<clock, History>>

\* Mutant: tries again instead of answering 409.
ConsumeRetries(t) ==
  /\ thread[t].pc = "found"
  /\ ConsumeRefused(thread[t].corr)
  /\ UNCHANGED <<clock, thread, History>>

ConsumeConflict(t) ==
  /\ thread[t].pc = "found"
  /\ ConsumeRefused(thread[t].corr)
  /\ Reply(t)
  /\ UNCHANGED <<clock, History>>

Consume(t) ==
  /\ thread[t].pc = "found"
  /\ ConsumeForResume(thread[t].corr)
  /\ thread' = [thread EXCEPT ![t].pc = "resume", ![t].sdk = sess[thread[t].corr].handle]
  /\ UNCHANGED <<clock, History>>

\* SDK.ResumeRedirect / ResumeRedirectError on the claimed copy of the handle.
AwaitsRedirect(h, st) == h # None /\ h.stage \in Redirecting /\ h.state = st

NextSdk(h) ==
  {Sdk(s, IF s \in Redirecting THEN <<h.state[1], 2>> ELSE h.state, 0) :
     s \in StagesAfter[h.stage] \ {h.stage}}
  \cup {Sdk(h.stage, h.state, h.hops + 1) :
          s \in StagesAfter[h.stage] \cap {h.stage}}

\* The SDK refuses another redirect's state; drawing its entropy may fail too.
ResumeError(t) ==
  /\ thread[t].pc = "resume"
  /\ Failing(t, "resume_error")
  /\ UNCHANGED <<clock, store, History>>

Resume(t) ==
  /\ thread[t].pc = "resume"
  /\ AwaitsRedirect(thread[t].sdk, thread[t].state)
  /\ \E h \in NextSdk(thread[t].sdk) :
       /\ h.stage = "failed" <=> thread[t].error # None
       /\ thread' = [thread EXCEPT ![t].pc = "drive", ![t].sdk = h]
       /\ effects' = IF h.stage \in Performing
                     THEN [effects EXCEPT ![thread[t].state] = @ + 1]
                     ELSE effects
  /\ UNCHANGED <<clock, store, offered, sealed, served>>

-----------------------------------------------------------------------------
\* Engine.drive: store the handle, then do what the step says.

StepKind(h) ==
  CASE h.stage \in Performing -> "perform"
    [] h.stage \in Redirecting -> "redirect"
    [] h.stage = "done" -> "done"
    [] OTHER -> "fail"

\* mapFailed: the outcome of a failed step
Outcome(error) == IF error = "access_denied" THEN "declined" ELSE "failed"

Drive(t) ==
  LET h == thread[t].sdk
  IN  /\ thread[t].pc = "drive"
      /\ SetHandle(thread[t].corr, h)
      /\ thread' = [thread EXCEPT ![t].pc = StepKind(h), ![t].reason = "sdk_outcome"]
      /\ UNCHANGED <<clock, History>>

\* Up.Do failed: refused, timed out, or the client went away.
PerformError(t) ==
  /\ thread[t].pc = "perform"
  /\ Failing(t, "upstream_error")
  /\ UNCHANGED <<clock, store, History>>

\* Up.Do answered; SDK.ResumeHTTP advances, or returns an error.
Performed(t) ==
  /\ thread[t].pc = "perform"
  /\ sealed' = IF thread[t].sdk.stage = "seal"
               THEN [sealed EXCEPT ![thread[t].corr] = @ + 1] ELSE sealed
  /\ \/ Failing(t, "resume_error")
     \/ \E h \in NextSdk(thread[t].sdk) :
          /\ h.hops < MaxHops
          /\ thread' = [thread EXCEPT ![t].pc = "drive", ![t].sdk = h]
  /\ UNCHANGED <<clock, store, offered, effects, served>>

RedirectSetState(t) ==
  /\ thread[t].pc = "redirect"
  /\ SetState(thread[t].corr, thread[t].sdk.state)
  /\ Goto(t, "authorizing")
  /\ UNCHANGED <<clock, History>>

RedirectReply(t) ==
  /\ thread[t].pc = "authorizing"
  /\ SetStatus(thread[t].corr, "authorizing")
  /\ offered' = offered \cup {thread[t].sdk.state}
  /\ Reply(t)
  /\ UNCHANGED <<clock, effects, sealed, served>>

Done(t) ==
  /\ thread[t].pc = "done"
  /\ SetCompleted(thread[t].corr, "pdf")
  /\ Goto(t, "finalize")
  /\ UNCHANGED <<clock, History>>

\* Engine.fail
Fail(t) ==
  LET declined == /\ thread[t].reason = "sdk_outcome"
                  /\ Outcome(thread[t].error) = "declined"
  IN  /\ thread[t].pc = "fail"
      /\ SetFailed(thread[t].corr, IF declined THEN "declined" ELSE "failed", thread[t].reason)
      /\ Goto(t, "finalize")
      /\ UNCHANGED <<clock, History>>

FinalizeReply(t) ==
  /\ thread[t].pc = "finalize"
  /\ Finalize(thread[t].corr)
  /\ Reply(t)
  /\ UNCHANGED <<clock, History>>

-----------------------------------------------------------------------------
\* GET /v1/sign/status and /v1/sign/result, by a client that was given the
\* correlation id; time.

Known(c) == <<c, 1>> \in offered

Status(c) == Known(c) /\ View(c) /\ UNCHANGED <<clock, thread, History>>

\* Mutant: serves whatever the session's status.
ResultAlways(c) ==
  /\ Known(c) /\ View(c)
  /\ served' = served \cup {c}
  /\ UNCHANGED <<clock, thread, offered, effects, sealed>>

Result(c) ==
  /\ Known(c) /\ View(c) /\ sess[c].status = "completed"
  /\ served' = served \cup {c}
  /\ UNCHANGED <<clock, thread, offered, effects, sealed>>

\* Time before the first session is of no consequence.
Tick ==
  /\ \E c \in Corrs : sess[c] # NoSession
  /\ clock < MaxTime /\ clock' = clock + 1
  /\ UNCHANGED <<store, thread, History>>

Errors == {None, "access_denied", "other"}

Work(t) ==
  \/ StartStore(t) \/ ConsumeConflict(t) \/ Consume(t) \/ ResumeError(t) \/ Resume(t)
  \/ Drive(t) \/ PerformError(t) \/ Performed(t) \/ RedirectSetState(t)
  \/ RedirectReply(t) \/ Done(t) \/ Fail(t) \/ FinalizeReply(t)

Next ==
  \/ \E t \in Threads :
       \/ Work(t)
       \/ \E c \in Corrs : StartNew(t, c)
       \/ \E st \in offered, e \in Errors : Lookup(t, st, e)
  \/ \E c \in Corrs : Status(c) \/ Result(c)
  \/ Tick

Spec == Init /\ [][Next]_vars

\* Goroutines run, http.Client has a timeout, time passes, and the frontend
\* asks for the status of a session that is still indexed.
FairSpec ==
  /\ Spec
  /\ \A t \in Threads : WF_vars(Work(t))
  /\ \A c \in Corrs : WF_vars(Status(c))
  /\ WF_vars(Tick)

-----------------------------------------------------------------------------
\* Properties.

Claiming == {"resume", "drive", "perform", "redirect", "done", "fail", "finalize"}
Pcs == {"idle", "start", "found", "authorizing"} \cup Claiming
Holds(t, c) == thread[t].pc \in Claiming /\ thread[t].corr = c

Sessions ==
  [oauthState : States \cup {None}, handle : SdkHandles \cup {None}, status : Statuses,
   reason : {None, "session_expired", "sdk_outcome", "upstream_error", "resume_error"},
   result : {None, "pdf"}, expiresAt : Nat, resuming : BOOLEAN]

TypeOK ==
  /\ clock \in Nat /\ byID \subseteq Corrs
  /\ byState \in [States -> Corrs \cup {None}]
  /\ sess \in [Corrs -> Sessions]
  /\ thread \in [Threads -> [pc : Pcs, corr : Corrs \cup {None}, state : States \cup {None},
                            error : Errors, sdk : SdkHandles \cup {None},
                            reason : {None, "sdk_outcome", "upstream_error", "resume_error"}]]
  /\ offered \subseteq States /\ served \subseteq Corrs
  /\ effects \in [States -> Nat] /\ sealed \in [Corrs -> Nat]

\* The two indexes agree with the sessions under every interleaving of
\* callbacks, expiry and eviction: a pending state leads to the one session
\* that awaits it, and no entry outlives its session.
IndexCoherent ==
  /\ \A st \in States :
       byState[st] # None => byState[st] \in byID /\ sess[byState[st]].oauthState = st
  /\ \A c \in byID :
       sess[c].oauthState # None => byState[sess[c].oauthState] = c

\* A session is checked out exactly while one handler works on it, and never
\* by two: neither callbacks, expiry nor a failure leak or share the claim.
ClaimExclusive ==
  \A c \in Corrs :
    /\ sess[c].resuming <=> \E t \in Threads : Holds(t, c)
    /\ \A t, u \in Threads : Holds(t, c) /\ Holds(u, c) => t = u

\* Store.ConsumeForResume's guarantee: the answer to a redirect starts its
\* one-time upstream effects once, however often the callback is delivered.
EffectsOnce ==
  /\ \A st \in States : effects[st] <= 1
  /\ \A c \in Corrs : sealed[c] <= MaxHops

\* Once no handler works on an ended session, nothing secret of it is left:
\* no SDK handle and no way back in by an OAuth state.
Quiet(c) == \A t \in Threads : thread[t].corr = c => thread[t].pc \in {"idle", "found"}
NoSecretAtRest ==
  \A c \in Corrs : Quiet(c) /\ IsFinal(sess[c]) =>
    /\ sess[c].handle = None
    /\ \A st \in States : byState[st] # c

\* A PDF is served only for a session whose sealing round really ran, and such a
\* session reports completed from then on.
ServedIsSealed ==
  \A c \in Corrs :
    /\ sess[c].status = "completed" <=> sess[c].result # None
    /\ c \in served => sess[c].status = "completed"
    /\ sess[c].result # None => sealed[c] > 0

\* The outcome of a flow the SDK or an upstream ended: not a failure for want of time, or
\* because the SDK refused to resume.
IsOutcome(s) ==
  \/ s.status \in {"completed", "declined"}
  \/ s.status = "failed" /\ s.reason \in {"sdk_outcome", "upstream_error"}

\* Such an outcome is for good: no stale callback, expiry or late writer of another handler
\* changes the status, the reason or the document /status and /result answer with.  A
\* failure for want of time or from a refused resume is not among them: the handler that drives
\* the flow, or publishes its next redirect, overwrites it (EndedStaysEnded).
OutcomeIsFinal ==
  [][\A c \in Corrs : IsOutcome(sess[c]) =>
       /\ sess'[c].status = sess[c].status
       /\ sess'[c].reason = sess[c].reason
       /\ sess'[c].result = sess[c].result]_vars

\* Every accepted request is answered.
HandlersReply == \A t \in Threads : thread[t].pc # "idle" ~> thread[t].pc = "idle"

\* Every session that was started ends, or is evicted, whatever the signer does.
SessionsEnd ==
  \A c \in Corrs : sess[c].status = "authorizing" ~> IsFinal(sess[c]) \/ c \notin byID

\* store.go, ConsumeForResume: a duplicate callback for a state "can neither find
\* the session by state nor pass the resuming check" - so the SDK is only ever
\* resumed with the state its handle awaits.
CallbackMatchesSession ==
  \A t \in Threads :
    thread[t].pc = "resume" => AwaitsRedirect(thread[t].sdk, thread[t].state)

\* store.go, Terminal: "the session has reached an end state"; data-model.md (002):
\* a TTL expiry is failed (expired), "session reclaimed, secrets dropped".
EndedStaysEnded ==
  [][\A c \in Corrs : IsFinal(sess[c]) => IsFinal(sess'[c])]_vars
==============================================================================
