--------------------------- MODULE RefServiceProofs ---------------------------
(***************************************************************************)
(* The session store under any number of handlers: its indexes and claims   *)
(* stay coherent, each redirect is answered once, an ended session keeps no  *)
(* secret and its outcome, and only a sealed PDF is served.                  *)
(*                                                                           *)
(* ServiceInv, the inductive invariant, has two halves.  StoreInv says where *)
(* a handler and its session may be; FlowInv, session by session, what the   *)
(* SDK handle in play says of what has happened.  Every step of a handler is *)
(* shown to be one of Moves on one session, which keeps StoreInv and every   *)
(* other session (MovesKeepStore, MovesApart); what is left is one lemma per *)
(* step about its own session.                                               *)
(***************************************************************************)
EXTENDS RefService, TLAPS

\* The local variables of a handler.
ThreadRecs ==
  [pc : Pcs, corr : Corrs \cup {None}, state : States \cup {None}, error : Errors,
   sdk : SdkHandles \cup {None},
   reason : {None, "sdk_outcome", "upstream_error", "resume_error"}]

\* Where a thread may be: an idle one has nothing, a callback brought a state of the session.
Placed ==
  \A t \in Threads :
    /\ thread[t].pc = "idle" => thread[t] = Idle
    /\ thread[t].pc # "idle" => thread[t].corr \in Corrs
    /\ thread[t].pc \in {"found", "resume"} =>
         thread[t].state \in offered /\ thread[t].state[1] = thread[t].corr

\* No one has a session that is not started; one that no client was told of has
\* at most the handler that starts it.
Beginnings ==
  /\ \A c \in Corrs : sess[c].status = "pending" =>
       /\ sess[c] = NoSession /\ c \notin byID /\ <<c, 1>> \notin offered
       /\ \A t \in Threads : thread[t].corr # c
  /\ \A c \in Corrs : <<c, 1>> \notin offered =>
       /\ <<c, 2>> \notin offered /\ effects[<<c, 1>>] = 0 /\ effects[<<c, 2>>] = 0
       /\ sealed[c] = 0
       /\ \A t \in Threads : thread[t].corr = c => thread[t].pc = "start"
  /\ \A t \in Threads : thread[t].pc = "start" =>
       /\ <<thread[t].corr, 1>> \notin offered
       /\ \A u \in Threads : thread[u].corr = thread[t].corr => u = t

\* A session that is not indexed is out of time, and no handler has it.
Evictions ==
  \A c \in Corrs :
    /\ sess[c].resuming => c \in byID
    /\ c \notin byID /\ sess[c].status # "pending" => clock > sess[c].expiresAt

\* A session awaits its own redirects.
OwnStates == \A c \in Corrs : sess[c].oauthState # None => sess[c].oauthState[1] = c

\* The store, its indexes and its claims.
StoreInv ==
  TypeOK /\ Placed /\ Beginnings /\ Evictions /\ OwnStates /\ IndexCoherent /\ ClaimExclusive

\* What a handle of session c says of what has happened.
HandleOk(c, h) ==
  h # None =>
    /\ h.stage \in {"login", "fetch"} => h.state = <<c, 1>>
    /\ h.stage \in {"consent", "seal", "done"} => h.state = <<c, 2>>
    /\ h.stage = "login" => effects[<<c, 1>>] = 0 /\ <<c, 2>> \notin offered
    /\ h.stage \in {"fetch", "consent"} => effects[<<c, 1>>] > 0
    /\ h.stage \in {"login", "fetch", "consent"} => effects[<<c, 2>>] = 0 /\ sealed[c] = 0

\* A handler the SDK has accepted the callback of.
Driving == {"drive", "perform", "redirect", "done"}
Engaged(t) ==
  \/ thread[t].pc \in Driving
  \/ thread[t].pc = "fail" /\ thread[t].reason \in {"sdk_outcome", "upstream_error"}

\* What the SDK's step led the handler to do.
StepOk(t) ==
  LET c == thread[t].corr
      h == thread[t].sdk
  IN  /\ thread[t].pc \in {"resume"} \cup Driving => HandleOk(c, h)
      /\ thread[t].pc \in Driving =>
           /\ h # None /\ h.stage \notin {"idle", "login"}
           /\ h.stage \in {"fetch", "consent"} => <<c, 2>> \notin offered
           /\ h.stage = "seal" => sealed[c] = h.hops /\ h.hops < MaxHops
           /\ h.stage = "done" => sealed[c] > 0
      /\ thread[t].pc \in Driving \ {"drive"} =>
           thread[t].pc = StepKind(h) /\ sess[c].handle \in {None, h}
      /\ thread[t].pc = "authorizing" =>
           h # None /\ h.state = <<c, 2>> /\ effects[<<c, 1>>] > 0 /\ <<c, 2>> \notin offered

\* While a handler drives the SDK, or publishes the redirect, no other publishes one.
Alone(c) ==
  \A t, u \in Threads : thread[t].corr = c /\ thread[u].corr = c /\ t # u =>
    /\ Engaged(t) => thread[u].pc # "authorizing"
    /\ thread[t].pc = "authorizing" => thread[u].pc # "authorizing"

\* The handle in the store is the one to resume, unless a handler has a newer one.
StoredHandle(c) ==
  (\A t \in Threads : thread[t].pc = "drive" => thread[t].corr # c) => HandleOk(c, sess[c].handle)

\* A session with an outcome has no handler that could change that; an ended one
\* that nobody works on has no secret left.
Ending(c) ==
  /\ IsOutcome(sess[c]) =>
       \A t \in Threads : thread[t].corr = c => thread[t].pc \in {"found", "finalize"}
  /\ IsFinal(sess[c]) /\ Quiet(c) => sess[c].handle = None /\ sess[c].oauthState = None

\* The conjuncts of EffectsOnce and ServedIsSealed about session c.
EffectsOf(c) == effects[<<c, 1>>] <= 1 /\ effects[<<c, 2>>] <= 1 /\ sealed[c] <= MaxHops
ServedOf(c) ==
  /\ sess[c].status = "completed" <=> sess[c].result # None
  /\ c \in served => sess[c].status = "completed"
  /\ sess[c].result # None => sealed[c] > 0

\* The flow of session c is in order.
SessionOk(c) ==
  /\ \A t \in Threads : thread[t].corr = c => StepOk(t)
  /\ Alone(c) /\ StoredHandle(c) /\ Ending(c) /\ EffectsOf(c) /\ ServedOf(c)

FlowInv == \A c \in Corrs : SessionOk(c)

-----------------------------------------------------------------------------
\* States, and what Put does.

\* The two OAuth states of a session, each its own.
LEMMA StateParts ==
  ASSUME NEW c \in Corrs
  PROVE  /\ <<c, 1>> \in States /\ <<c, 2>> \in States
         /\ <<c, 1>> # <<c, 2>> /\ <<c, 1>>[1] = c /\ <<c, 2>>[1] = c
         /\ <<c, 1>> # None /\ <<c, 2>> # None /\ c # None
  BY NilAssumption, CorrsAssumption DEF States, Rounds

\* Every OAuth state is one of the two of some session.
LEMMA StateForms ==
  ASSUME NEW st \in States
  PROVE  /\ st[1] \in Corrs /\ st # None
         /\ st = <<st[1], 1>> \/ st = <<st[1], 2>>
  BY NilAssumption DEF States, Rounds

\* Put changes one session and keeps the types.
LEMMA PutTyped ==
  ASSUME TypeOK, NEW c \in Corrs, NEW s \in Sessions, Put(c, s)
  PROVE  /\ sess' \in [Corrs -> Sessions] /\ byID' = byID
         /\ sess'[c] = s /\ \A d \in Corrs : d # c => sess'[d] = sess[d]
         /\ byState' \in [States -> Corrs \cup {None}]
<1>1. sess \in [Corrs -> Sessions] /\ byState \in [States -> Corrs \cup {None}]
  BY DEF TypeOK
<1>2. sess[c].oauthState \in States \cup {None} /\ s.oauthState \in States \cup {None}
  BY <1>1 DEF Sessions
<1>3. byState' \in [States -> Corrs \cup {None}]
  BY <1>1, <1>2 DEF Put, IndexAfter, Index, Deindex
<1>4. QED
  BY <1>1, <1>3 DEF Put

\* Put keeps the indexes coherent when the session gives its OAuth state up,
\* keeps it, or, being indexed, takes one of its own.
LEMMA PutIndex ==
  ASSUME TypeOK, OwnStates, IndexCoherent, NEW c \in Corrs, NEW s \in Sessions, Put(c, s),
         \/ s.oauthState \in {None, sess[c].oauthState}
         \/ c \in byID /\ s.oauthState \in States /\ s.oauthState[1] = c
  PROVE  OwnStates' /\ IndexCoherent'
<1> DEFINE old == sess[c].oauthState
           new == s.oauthState
<1>1. /\ sess \in [Corrs -> Sessions] /\ byState \in [States -> Corrs \cup {None}]
      /\ byID \subseteq Corrs
  BY DEF TypeOK
<1>2. /\ sess' \in [Corrs -> Sessions] /\ byID' = byID
      /\ sess'[c] = s /\ \A d \in Corrs : d # c => sess'[d] = sess[d]
  BY PutTyped
<1>3. /\ old \in States \cup {None} /\ new \in States \cup {None}
      /\ \A d \in Corrs : sess[d].oauthState \in States \cup {None}
  BY <1>1 DEF Sessions
<1>4. /\ old # None => old[1] = c
      /\ new # None => new[1] = c
  BY <1>3 DEF OwnStates
<1>5. OwnStates'
  BY <1>2, <1>4 DEF OwnStates
<1>6. CASE old = new
  <2>1. byState' = byState
    BY <1>6 DEF Put, IndexAfter
  <2>2. \A d \in Corrs : sess'[d].oauthState = sess[d].oauthState
    BY <1>2, <1>6
  <2>3. IndexCoherent'
    BY <1>1, <1>2, <2>1, <2>2, NilAssumption, CorrsAssumption DEF IndexCoherent
  <2>4. QED
    BY <1>5, <2>3
<1>7. CASE old # new
  <2>1. byState' = Index(Deindex(byState, old), new, c)
    BY <1>7 DEF Put, IndexAfter
  <2>2. \A st \in States : byState'[st] = IF st = new THEN c
                                          ELSE IF st = old THEN None ELSE byState[st]
    BY <2>1, <1>1, <1>3, NilAssumption DEF Index, Deindex
  <2>3. new # None => c \in byID
    BY <1>7
  <2>4. ASSUME NEW st \in States, byState'[st] # None
        PROVE  byState'[st] \in byID' /\ sess'[byState'[st]].oauthState = st
    <3>1. CASE st = new
      BY <3>1, <2>2, <2>3, <1>2, NilAssumption
    <3>2. CASE st # new
      <4>1. byState'[st] = byState[st] /\ st # old
        BY <3>2, <2>2, <2>4
      <4>2. byState[st] \in byID /\ sess[byState[st]].oauthState = st
        BY <4>1, <2>4 DEF IndexCoherent
      <4>3. QED
        BY <4>1, <4>2, <1>1, <1>2
    <3>3. QED
      BY <3>1, <3>2
  <2>5. ASSUME NEW d \in byID', sess'[d].oauthState # None
        PROVE  byState'[sess'[d].oauthState] = d
    <3>1. CASE d = c
      BY <3>1, <2>5, <2>2, <1>2, <1>3
    <3>2. CASE d # c
      <4>1. sess'[d] = sess[d] /\ d \in Corrs /\ d \in byID
        BY <3>2, <1>1, <1>2, <2>5
      <4>2. /\ sess[d].oauthState \in States /\ sess[d].oauthState[1] = d
            /\ byState[sess[d].oauthState] = d
        BY <4>1, <2>5, <1>3 DEF OwnStates, IndexCoherent
      <4>3. sess[d].oauthState # old /\ sess[d].oauthState # new
        BY <4>2, <1>4, <3>2, NilAssumption
      <4>4. QED
        BY <4>1, <4>2, <4>3, <2>2
    <3>3. QED
      BY <3>1, <3>2
  <2>6. IndexCoherent'
    BY <2>4, <2>5 DEF IndexCoherent
  <2>7. QED
    BY <1>5, <2>6
<1>8. QED
  BY <1>5, <1>6, <1>7

-----------------------------------------------------------------------------
\* What all steps of a handler have in common.

\* Handler t steps on session c: no other handler and no other session changes.
Frame(t, c) ==
  /\ sess' \in [Corrs -> Sessions] /\ \A d \in Corrs : d # c => sess'[d] = sess[d]
  /\ thread' \in [Threads -> ThreadRecs] /\ \A u \in Threads : u # t => thread'[u] = thread[u]
  /\ clock' = clock /\ byID' = byID
  /\ TypeOK' /\ OwnStates' /\ IndexCoherent'

\* What a step does to the claim on session c: nothing, take it, release it.
ClaimKept(t, c) ==
  /\ sess'[c].resuming = sess[c].resuming
  /\ thread'[t].pc \in Claiming <=> thread[t].pc \in Claiming
ClaimTaken(t, c) ==
  /\ ~sess[c].resuming /\ sess'[c].resuming /\ c \in byID
  /\ thread[t].pc \notin Claiming /\ thread'[t].pc \in Claiming
ClaimReleased(t, c) ==
  /\ ~sess'[c].resuming
  /\ thread[t].pc \in Claiming /\ thread'[t].pc \notin Claiming

\* The client of session c is told of it, and may be told of its second redirect.
Offers(c) ==
  /\ offered \subseteq offered' /\ <<c, 1>> \in offered'
  /\ offered' \subseteq offered \cup {<<c, 1>>, <<c, 2>>}

\* The session is a started one and keeps its lifetime; the client knows of it
\* when the step is done; the counters of other sessions stay.
SessionStep(t, c) ==
  /\ sess[c].status # "pending" /\ sess'[c].status # "pending"
  /\ sess'[c].expiresAt = sess[c].expiresAt
  /\ Offers(c) /\ served' = served
  /\ thread[t].pc = "start" \/ <<c, 1>> \in offered
  /\ \A d \in Corrs : d # c => /\ sealed'[d] = sealed[d]
                             /\ effects'[<<d, 1>>] = effects[<<d, 1>>]
                             /\ effects'[<<d, 2>>] = effects[<<d, 2>>]

\* Where the handler is, before and after.
HandlerStep(t, c) ==
  /\ thread[t].pc # "idle" => thread[t].corr = c
  /\ thread'[t].pc # "start"
  /\ thread'[t].pc = "idle" => thread'[t] = Idle
  /\ thread'[t].pc # "idle" => thread'[t].corr = c
  /\ thread'[t].pc \in {"found", "resume"} =>
       thread'[t].state \in offered' /\ thread'[t].state[1] = c

Moves(t, c) ==
  /\ t \in Threads /\ c \in Corrs
  /\ Frame(t, c) /\ SessionStep(t, c) /\ HandlerStep(t, c)
  /\ ClaimKept(t, c) \/ ClaimTaken(t, c) \/ ClaimReleased(t, c)

\* What TypeOK says of each session and handler.
LEMMA Typed ==
  ASSUME TypeOK
  PROVE  /\ sess \in [Corrs -> Sessions] /\ thread \in [Threads -> ThreadRecs]
         /\ \A c \in Corrs : sess[c] \in Sessions
         /\ \A t \in Threads : thread[t] \in ThreadRecs
  BY DEF TypeOK, ThreadRecs

\* Handler t goes on with r.
Becomes(t, r) == thread' = [thread EXCEPT ![t] = r]

\* It has replied, or is still at work on session c.
Onward(r, c) == r = Idle \/ (r.pc \notin {"idle", "start"} /\ r.corr = c)

\* The two counters are typed.
Counted == effects \in [States -> Nat] /\ sealed \in [Corrs -> Nat]

\* An idle handler, which has no session.
LEMMA IdleTyped == Idle \in ThreadRecs /\ Idle.pc = "idle" /\ Idle.corr = None
  BY DEF Idle, ThreadRecs, Pcs, Claiming, Errors

\* The frame of a step that puts session s and leaves handler t at r.
LEMMA StepFrame ==
  ASSUME TypeOK, OwnStates, IndexCoherent,
         NEW t \in Threads, NEW c \in Corrs, NEW s \in Sessions, NEW r \in ThreadRecs,
         Put(c, s), Becomes(t, r), clock' = clock,
         \/ s.oauthState \in {None, sess[c].oauthState}
         \/ c \in byID /\ s.oauthState \in States /\ s.oauthState[1] = c,
         offered' \subseteq States, served' \subseteq Corrs,
         Counted'
  PROVE  Frame(t, c) /\ thread'[t] = r /\ sess'[c] = s
<1>1. thread' \in [Threads -> ThreadRecs] /\ thread'[t] = r
      /\ \A u \in Threads : u # t => thread'[u] = thread[u]
  BY Typed DEF Becomes
<1>2. /\ sess' \in [Corrs -> Sessions] /\ byID' = byID /\ sess'[c] = s
      /\ \A d \in Corrs : d # c => sess'[d] = sess[d]
      /\ byState' \in [States -> Corrs \cup {None}]
  BY PutTyped
<1>3. OwnStates' /\ IndexCoherent'
  BY PutIndex
<1>4. TypeOK'
  BY <1>1, <1>2 DEF TypeOK, ThreadRecs, Counted
<1>5. QED
  BY <1>1, <1>2, <1>3, <1>4 DEF Frame

\* Such a step keeps the store's invariant.
LEMMA MovesKeepStore ==
  ASSUME StoreInv, NEW t, NEW c, Moves(t, c)
  PROVE  StoreInv'
<1> USE DEF Moves
<1>1. /\ t \in Threads /\ c \in Corrs
      /\ \A d \in Corrs : d # c => sess'[d] = sess[d]
      /\ \A u \in Threads : u # t => thread'[u] = thread[u]
      /\ clock' = clock /\ byID' = byID
      /\ TypeOK' /\ OwnStates' /\ IndexCoherent'
  BY DEF Frame
<1>2. /\ \A d \in Corrs : sess'[d] \in Sessions /\ sess[d] \in Sessions
      /\ \A u \in Threads : thread'[u] \in ThreadRecs /\ thread[u] \in ThreadRecs
  BY Typed DEF Frame, StoreInv
<1>3. Placed'
  BY <1>1 DEF Placed, StoreInv, HandlerStep, SessionStep, Offers
<1>4. Beginnings'
  <2>1. ASSUME NEW d \in Corrs, sess'[d].status = "pending"
        PROVE  /\ sess'[d] = NoSession /\ d \notin byID' /\ <<d, 1>> \notin offered'
               /\ \A u \in Threads : thread'[u].corr # d
    <3>1. d # c /\ sess'[d] = sess[d]
      BY <1>1, <2>1 DEF SessionStep
    <3>2. <<d, 1>> \notin offered'
      BY <3>1, <2>1 DEF SessionStep, Offers, StoreInv, Beginnings
    <3>3. thread'[t].corr # d
      BY <3>1, <1>1, IdleTyped, CorrsAssumption DEF HandlerStep
    <3>4. QED
      BY <3>1, <3>2, <3>3, <1>1, <2>1 DEF StoreInv, Beginnings
  <2>2. ASSUME NEW d \in Corrs, <<d, 1>> \notin offered'
        PROVE  /\ <<d, 2>> \notin offered' /\ effects'[<<d, 1>>] = 0 /\ effects'[<<d, 2>>] = 0
               /\ sealed'[d] = 0
               /\ \A u \in Threads : thread'[u].corr = d => thread'[u].pc = "start"
    <3>1. d # c /\ <<d, 1>> \notin offered
      BY <2>2 DEF SessionStep, Offers
    <3>2. <<d, 2>> \notin offered'
      BY <3>1 DEF SessionStep, Offers, StoreInv, Beginnings
    <3>3. thread'[t].corr # d
      BY <3>1, <1>1, IdleTyped, CorrsAssumption DEF HandlerStep
    <3>4. QED
      BY <3>1, <3>2, <3>3, <1>1 DEF StoreInv, Beginnings, SessionStep, Offers
  <2>3. ASSUME NEW u \in Threads, thread'[u].pc = "start"
        PROVE  /\ <<thread'[u].corr, 1>> \notin offered'
               /\ \A v \in Threads : thread'[v].corr = thread'[u].corr => v = u
    <3> DEFINE d == thread[u].corr
    <3>1. u # t /\ thread'[u] = thread[u]
      BY <1>1, <2>3 DEF HandlerStep
    <3>2. d \in Corrs /\ <<d, 1>> \notin offered
          /\ \A v \in Threads : thread[v].corr = d => v = u
      BY <3>1, <2>3 DEF StoreInv, Beginnings, Placed
    <3>3. d # c
      BY <3>1, <3>2, <1>1 DEF SessionStep, HandlerStep
    <3>4. <<d, 1>> \notin offered'
      BY <3>2, <3>3 DEF SessionStep, Offers
    <3>5. thread'[t].corr # d
      BY <3>2, <3>3, <1>1, IdleTyped, CorrsAssumption DEF HandlerStep
    <3>6. QED
      BY <3>1, <3>2, <3>4, <3>5, <1>1
  <2>4. QED
    BY <2>1, <2>2, <2>3 DEF Beginnings
<1>5. Evictions'
  <2>1. ASSUME NEW d \in Corrs, sess'[d].resuming PROVE d \in byID'
    BY <1>1, <2>1 DEF StoreInv, Evictions, ClaimKept, ClaimTaken, ClaimReleased
  <2>2. ASSUME NEW d \in Corrs, d \notin byID', sess'[d].status # "pending"
        PROVE  clock' > sess'[d].expiresAt
    BY <1>1, <2>2 DEF StoreInv, Evictions, SessionStep
  <2>3. QED
    BY <2>1, <2>2 DEF Evictions
<1>6. ClaimExclusive'
  <2>1. \A u \in Threads, d \in Corrs : u # t => (Holds(u, d)' <=> Holds(u, d))
    BY <1>1 DEF Holds
  <2>2. \A d \in Corrs : d # c => ~Holds(t, d) /\ ~Holds(t, d)'
    BY <1>1, IdleTyped, CorrsAssumption DEF Holds, HandlerStep, Claiming
  <2>3. /\ Holds(t, c) <=> thread[t].pc \in Claiming
        /\ Holds(t, c)' <=> thread'[t].pc \in Claiming
    BY DEF Holds, HandlerStep, Claiming
  <2>4. \A d \in Corrs : d # c =>
          /\ sess'[d].resuming <=> \E u \in Threads : Holds(u, d)'
          /\ \A u, v \in Threads : Holds(u, d)' /\ Holds(v, d)' => u = v
    BY <2>1, <2>2, <1>1 DEF StoreInv, ClaimExclusive
  <2>5. /\ sess[c].resuming <=> \E u \in Threads : Holds(u, c)
        /\ \A u, v \in Threads : Holds(u, c) /\ Holds(v, c) => u = v
    BY <1>1 DEF StoreInv, ClaimExclusive
  <2>6. /\ sess'[c].resuming <=> \E u \in Threads : Holds(u, c)'
        /\ \A u, v \in Threads : Holds(u, c)' /\ Holds(v, c)' => u = v
    <3>1. CASE ClaimKept(t, c)
      BY <3>1, <2>1, <2>3, <2>5, <1>1 DEF ClaimKept
    <3>2. CASE ClaimTaken(t, c)
      BY <3>2, <2>1, <2>3, <2>5, <1>1 DEF ClaimTaken
    <3>3. CASE ClaimReleased(t, c)
      BY <3>3, <2>1, <2>3, <2>5, <1>1 DEF ClaimReleased
    <3>4. QED
      BY <3>1, <3>2, <3>3
  <2>7. QED
    BY <2>4, <2>6 DEF ClaimExclusive
<1>7. QED
  BY <1>1, <1>3, <1>4, <1>5, <1>6 DEF StoreInv

-----------------------------------------------------------------------------
\* One lemma per step of a handler: it is such a move, and where it leads.

\* Where a handler at work stands.
LEMMA AtWork ==
  ASSUME StoreInv, NEW t \in Threads, NEW c, c = thread[t].corr, thread[t].pc # "idle"
  PROVE  /\ c \in Corrs /\ sess[c].status # "pending"
         /\ sess[c] \in Sessions /\ thread[t] \in ThreadRecs
         /\ thread[t].pc # "start" => <<c, 1>> \in offered
         /\ thread[t].pc \in Claiming => sess[c].resuming /\ c \in byID
<1>1. c \in Corrs
  BY DEF StoreInv, Placed
<1>2. sess[c] \in Sessions /\ thread[t] \in ThreadRecs
  BY <1>1, Typed DEF StoreInv
<1>3. sess[c].status # "pending" /\ (thread[t].pc # "start" => <<c, 1>> \in offered)
  BY <1>1 DEF StoreInv, Beginnings
<1>4. thread[t].pc \in Claiming => sess[c].resuming /\ c \in byID
  BY <1>1 DEF StoreInv, ClaimExclusive, Holds, Evictions
<1>5. QED
  BY <1>1, <1>2, <1>3, <1>4

\* A step of a handler at work that leaves the lifetime of the session alone.
LEMMA StepMoves ==
  ASSUME StoreInv, NEW t \in Threads, NEW c, c = thread[t].corr, thread[t].pc # "idle",
         NEW s \in Sessions, NEW r \in ThreadRecs,
         Put(c, s), Becomes(t, r), clock' = clock,
         \/ s.oauthState \in {None, sess[c].oauthState}
         \/ c \in byID /\ s.oauthState \in States /\ s.oauthState[1] = c,
         s.status # "pending", s.expiresAt = sess[c].expiresAt,
         Offers(c), served' = served,
         Counted',
         \A d \in Corrs : d # c => /\ sealed'[d] = sealed[d]
                                   /\ effects'[<<d, 1>>] = effects[<<d, 1>>]
                                   /\ effects'[<<d, 2>>] = effects[<<d, 2>>],
         Onward(r, c),
         r.pc \in {"found", "resume"} => r.state \in offered' /\ r.state[1] = c,
         \/ s.resuming = sess[c].resuming /\ (r.pc \in Claiming <=> thread[t].pc \in Claiming)
         \/ ~sess[c].resuming /\ s.resuming /\ c \in byID
            /\ thread[t].pc \notin Claiming /\ r.pc \in Claiming
         \/ ~s.resuming /\ thread[t].pc \in Claiming /\ r.pc \notin Claiming
  PROVE  Moves(t, c) /\ sess'[c] = s /\ thread'[t] = r
<1>1. /\ c \in Corrs /\ sess[c].status # "pending"
      /\ thread[t].pc # "start" => <<c, 1>> \in offered
  BY AtWork
<1>2. offered' \subseteq States /\ served' \subseteq Corrs
  BY <1>1, StateParts DEF StoreInv, TypeOK, Offers
<1>3. Frame(t, c) /\ thread'[t] = r /\ sess'[c] = s
  <2>1. TypeOK /\ OwnStates /\ IndexCoherent
    BY DEF StoreInv
  <2>2. QED
    BY <1>1, <1>2, <2>1, StepFrame
<1>4. SessionStep(t, c)
  BY <1>1, <1>3 DEF SessionStep
<1>5. HandlerStep(t, c)
  BY <1>3, IdleTyped DEF HandlerStep, Onward
<1>6. ClaimKept(t, c) \/ ClaimTaken(t, c) \/ ClaimReleased(t, c)
  BY <1>3 DEF ClaimKept, ClaimTaken, ClaimReleased
<1>7. QED
  BY <1>1, <1>3, <1>4, <1>5, <1>6 DEF Moves

\* The part of the bookkeeping that most steps leave alone.
LEMMA HistoryTyped ==
  ASSUME StoreInv, UNCHANGED History, NEW c, <<c, 1>> \in offered
  PROVE  /\ offered' = offered /\ served' = served
         /\ effects' = effects /\ sealed' = sealed
         /\ Counted' /\ Offers(c)
  BY DEF StoreInv, TypeOK, History, Counted, Offers

\* start stores the first handle and answers.
LEMMA StartStoreMoves ==
  ASSUME StoreInv, NEW t \in Threads, NEW c, c = thread[t].corr, StartStore(t)
  PROVE  /\ Moves(t, c)
         /\ sess'[c] = [sess[c] EXCEPT !.handle = Sdk("login", <<c, 1>>, 0),
                                       !.status = "authorizing"]
         /\ thread'[t] = Idle
<1> DEFINE s == [sess[c] EXCEPT !.handle = Sdk("login", <<c, 1>>, 0), !.status = "authorizing"]
<1>1. /\ thread[t].pc = "start" /\ Put(c, s) /\ Becomes(t, Idle)
      /\ clock' = clock /\ effects' = effects /\ sealed' = sealed /\ served' = served
  BY DEF StartStore, Reply, Becomes
<1>2. c \in Corrs /\ sess[c] \in Sessions
  BY <1>1, AtWork
<1>3. Sdk("login", <<c, 1>>, 0) \in SdkHandles
  <2>1. "login" \in Stages
    BY DEF Stages, Redirecting
  <2>2. <<c, 1>> \in States
    BY <1>2, StateParts
  <2>3. 0 \in 0..MaxHops
    BY HopsAssumption
  <2>4. QED
    BY <2>1, <2>2, <2>3 DEF Sdk, SdkHandles
<1>4. s \in Sessions /\ s.oauthState = sess[c].oauthState /\ s.status = "authorizing"
      /\ s.expiresAt = sess[c].expiresAt /\ s.resuming = sess[c].resuming
  BY <1>2, <1>3 DEF Sessions, Statuses
<1>5. Counted'
  BY <1>1 DEF StoreInv, TypeOK, Counted
<1> HIDE DEF s
<1>6. Moves(t, c) /\ sess'[c] = s /\ thread'[t] = Idle
  <2>1. Offers(c)
    BY DEF StartStore, Offers
  <2>2. thread[t].pc \notin Claiming /\ Idle.pc \notin Claiming \cup {"found", "resume"}
    BY <1>1, IdleTyped DEF Claiming
  <2> Onward(Idle, c)
    BY DEF Onward
  <2>3. QED
    BY <1>1, <1>2, <1>4, <1>5, <2>1, <2>2, IdleTyped, StepMoves
<1>7. QED
  BY <1>6 DEF s

\* ConsumeForResume takes the claim of a session that is in time.
LEMMA ConsumeMoves ==
  ASSUME StoreInv, NEW t \in Threads, NEW c, c = thread[t].corr, Consume(t)
  PROVE  /\ Moves(t, c)
         /\ sess'[c] = [sess[c] EXCEPT !.resuming = TRUE, !.oauthState = None]
         /\ thread'[t] = [thread[t] EXCEPT !.pc = "resume", !.sdk = sess[c].handle]
         /\ ~IsFinal(sess[c]) /\ ~sess[c].resuming
<1> DEFINE s == [sess[c] EXCEPT !.resuming = TRUE, !.oauthState = None]
           r == [thread[t] EXCEPT !.pc = "resume", !.sdk = sess[c].handle]
<1>1. thread[t].pc = "found" /\ ~sess[c].resuming /\ Put(c, s)
      /\ Becomes(t, r) /\ clock' = clock
      /\ ~IsFinal(Expire(sess[c]))
  BY DEF Consume, ConsumeForResume, Becomes
<1>2. c \in Corrs /\ sess[c] \in Sessions /\ thread[t] \in ThreadRecs
      /\ sess[c].status # "pending" /\ <<c, 1>> \in offered
  BY <1>1, AtWork
<1>3. s \in Sessions /\ s.oauthState = None /\ s.status = sess[c].status
      /\ s.expiresAt = sess[c].expiresAt /\ s.resuming
  BY <1>2 DEF Sessions
<1>4. r \in ThreadRecs /\ r.pc = "resume" /\ r.corr = c /\ r.state = thread[t].state
      /\ Onward(r, c)
  BY <1>2, <1>3 DEF ThreadRecs, Pcs, Claiming, Sessions, Onward
<1>5. c \in byID /\ ~IsFinal(sess[c])
  <2>1. ~Expires(sess[c]) /\ ~IsFinal(sess[c])
    BY <1>1, <1>2 DEF Expire, IsFinal, Final, Sessions
  <2>2. QED
    BY <1>2, <2>1 DEF StoreInv, Evictions, Expires
<1>6. thread[t].state \in offered /\ thread[t].state[1] = c
  BY <1>1 DEF StoreInv, Placed
<1>7. UNCHANGED History
  BY DEF Consume
<1> HIDE DEF s, r
<1>8. Moves(t, c) /\ sess'[c] = s /\ thread'[t] = r
  BY <1>1, <1>2, <1>3, <1>4, <1>5, <1>6, <1>7, HistoryTyped, StepMoves DEF Claiming
<1>9. QED
  BY <1>5, <1>8, <1>1 DEF s, r

\* A store that does not change is one that every session was put back into.
LEMMA Stays ==
  ASSUME StoreInv, UNCHANGED store, NEW c \in Corrs
  PROVE  Put(c, sess[c])
  BY Typed DEF StoreInv, store, Put, IndexAfter

\* A step that leaves the store and what clients know alone, of a handler that
\* keeps its claim.
LEMMA LocalMoves ==
  ASSUME StoreInv, NEW t \in Threads, NEW c, c = thread[t].corr, UNCHANGED store,
         NEW r \in ThreadRecs, Becomes(t, r), clock' = clock,
         thread[t].pc \in Claiming, r.pc \in Claiming \ {"resume"}, r.corr = c,
         offered' = offered, served' = served, Counted',
         \A d \in Corrs : d # c => /\ sealed'[d] = sealed[d]
                                   /\ effects'[<<d, 1>>] = effects[<<d, 1>>]
                                   /\ effects'[<<d, 2>>] = effects[<<d, 2>>]
  PROVE  Moves(t, c) /\ sess'[c] = sess[c] /\ thread'[t] = r
<1>1. thread[t].pc \notin {"idle", "start"} /\ r.pc \notin {"idle", "start", "found", "resume"}
  BY DEF Claiming
<1>2. /\ c \in Corrs /\ sess[c].status # "pending" /\ sess[c] \in Sessions
      /\ <<c, 1>> \in offered
  BY <1>1, AtWork
<1>3. Offers(c) /\ Onward(r, c) /\ Put(c, sess[c])
  BY <1>1, <1>2, Stays DEF Offers, Onward
<1>4. QED
  BY <1>1, <1>2, <1>3, StepMoves

\* A handler gives up.
LEMMA FailingMoves ==
  ASSUME StoreInv, NEW t \in Threads, NEW c, c = thread[t].corr,
         thread[t].pc \in Claiming, NEW reason \in {"resume_error", "upstream_error"},
         Failing(t, reason), UNCHANGED <<clock, store, offered, effects, served>>,
         sealed' \in [Corrs -> Nat], \A d \in Corrs : d # c => sealed'[d] = sealed[d]
  PROVE  /\ Moves(t, c) /\ sess'[c] = sess[c]
         /\ thread'[t] = [thread[t] EXCEPT !.pc = "fail", !.reason = reason]
<1> DEFINE r == [thread[t] EXCEPT !.pc = "fail", !.reason = reason]
<1>1. thread[t] \in ThreadRecs
  BY Typed DEF StoreInv
<1>2. r \in ThreadRecs /\ r.pc = "fail" /\ r.corr = c
  BY <1>1 DEF ThreadRecs, Pcs, Claiming
<1>3. Becomes(t, r) /\ "fail" \in Claiming /\ Counted'
  BY DEF Failing, Becomes, Claiming, Counted, StoreInv, TypeOK
<1> HIDE DEF r
<1>4. Moves(t, c) /\ sess'[c] = sess[c] /\ thread'[t] = r
  BY <1>2, <1>3, LocalMoves
<1>5. QED
  BY <1>4 DEF r

\* The SDK refused to resume.
LEMMA ResumeErrorMoves ==
  ASSUME StoreInv, NEW t \in Threads, NEW c, c = thread[t].corr, ResumeError(t)
  PROVE  /\ Moves(t, c) /\ sess'[c] = sess[c]
         /\ thread'[t] = [thread[t] EXCEPT !.pc = "fail", !.reason = "resume_error"]
<1>1. /\ thread[t].pc \in Claiming /\ Failing(t, "resume_error")
      /\ UNCHANGED <<clock, store, offered, effects, served>> /\ sealed' = sealed
      /\ sealed' \in [Corrs -> Nat]
  BY DEF ResumeError, Claiming, History, StoreInv, TypeOK
<1>2. QED
  BY <1>1, FailingMoves

\* The upstream call failed.
LEMMA PerformErrorMoves ==
  ASSUME StoreInv, NEW t \in Threads, NEW c, c = thread[t].corr, PerformError(t)
  PROVE  /\ Moves(t, c) /\ sess'[c] = sess[c]
         /\ thread'[t] = [thread[t] EXCEPT !.pc = "fail", !.reason = "upstream_error"]
<1>1. /\ thread[t].pc \in Claiming /\ Failing(t, "upstream_error")
      /\ UNCHANGED <<clock, store, offered, effects, served>> /\ sealed' = sealed
      /\ sealed' \in [Corrs -> Nat]
  BY DEF PerformError, Claiming, History, StoreInv, TypeOK
<1>2. QED
  BY <1>1, FailingMoves

\* The bound on hops is a number.
LEMMA HandleHops ==
  ASSUME NEW h \in SdkHandles
  PROVE  h.hops \in Nat
  BY HopsAssumption DEF SdkHandles

\* What the SDK's next handle is like.
LEMMA NextSdkIs ==
  ASSUME NEW h \in SdkHandles, h.state \in States, h.stage \in Redirecting \cup Performing,
         NEW g \in NextSdk(h)
  PROVE  /\ g = Sdk(g.stage, g.state, g.hops)
         /\ g.stage \in Stages /\ g.state \in States /\ g.hops \in Nat
         /\ h.stage = "login" => g.stage \in {"fetch", "failed"}
         /\ h.stage = "fetch" => g.stage \in {"fetch", "consent", "failed"}
         /\ h.stage = "consent" => g.stage \in {"seal", "failed"}
         /\ h.stage = "seal" => g.stage \in {"seal", "done", "failed"}
         /\ g.stage = h.stage => g.hops = h.hops + 1
         /\ g.stage # h.stage => g.hops = 0
         /\ g.stage = "consent" => g.state = <<h.state[1], 2>>
         /\ g.stage # "consent" => g.state = h.state
<1>1. h.stage \in {"login", "fetch", "consent", "seal"} /\ h.hops \in Nat
  BY HopsAssumption DEF SdkHandles, Redirecting, Performing
<1>2. /\ StagesAfter["login"] = {"fetch", "failed"}
      /\ StagesAfter["fetch"] = {"fetch", "consent", "failed"}
      /\ StagesAfter["consent"] = {"seal", "failed"}
      /\ StagesAfter["seal"] = {"seal", "done", "failed"}
  BY DEF StagesAfter
<1>3. <<h.state[1], 2>> \in States
  BY StateForms, StateParts
<1>4. CASE \E s \in StagesAfter[h.stage] \ {h.stage} :
             g = Sdk(s, IF s \in Redirecting THEN <<h.state[1], 2>> ELSE h.state, 0)
  <2>1. PICK s \in StagesAfter[h.stage] \ {h.stage} :
             g = Sdk(s, IF s \in Redirecting THEN <<h.state[1], 2>> ELSE h.state, 0)
    BY <1>4
  <2>2. /\ g.stage = s /\ g.hops = 0
        /\ g.state = IF s \in Redirecting THEN <<h.state[1], 2>> ELSE h.state
    BY <2>1 DEF Sdk
  <2>3. s \in {"fetch", "consent", "seal", "done", "failed"}
    BY <1>1, <1>2
  <2>4. s \in Redirecting <=> s = "consent"
    BY <2>3 DEF Redirecting
  <2>5. QED
    BY <1>1, <1>2, <1>3, <2>1, <2>2, <2>3, <2>4
       DEF Sdk, Stages, Redirecting, Performing, Ended
<1>5. CASE h.stage \in StagesAfter[h.stage] /\ g = Sdk(h.stage, h.state, h.hops + 1)
  <2>1. g.stage = h.stage /\ g.state = h.state /\ g.hops = h.hops + 1
    BY <1>5 DEF Sdk
  <2>2. h.stage \in {"fetch", "seal"}
    BY <1>1, <1>2, <1>5
  <2>3. QED
    BY <1>1, <2>1, <2>2, <1>5 DEF Sdk, Stages, Redirecting, Performing, Ended
<1>6. QED
  BY <1>4, <1>5 DEF NextSdk

\* A handle of the next step is one the store can hold.
LEMMA NextSdkTyped ==
  ASSUME NEW h \in SdkHandles, h.state \in States, h.stage \in Redirecting \cup Performing,
         NEW g \in NextSdk(h), g.hops <= MaxHops
  PROVE  g \in SdkHandles
<1>1. /\ g = Sdk(g.stage, g.state, g.hops)
      /\ g.stage \in Stages /\ g.state \in States /\ g.hops \in Nat
  BY NextSdkIs
<1>2. g.hops \in 0..MaxHops
  BY <1>1, HopsAssumption
<1>3. QED
  BY <1>1, <1>2 DEF Sdk, SdkHandles

\* The SDK accepts the callback: a redirect's handle gives way to the next one.
LEMMA ResumeMoves ==
  ASSUME StoreInv, NEW t \in Threads, NEW c, c = thread[t].corr, Resume(t)
  PROVE  /\ Moves(t, c) /\ sess'[c] = sess[c] /\ thread[t].pc = "resume"
         /\ thread[t].sdk \in SdkHandles /\ AwaitsRedirect(thread[t].sdk, thread[t].state)
         /\ thread[t].state \in {<<c, 1>>, <<c, 2>>}
         /\ \E h \in NextSdk(thread[t].sdk) :
              /\ h \in SdkHandles
              /\ h.stage = "failed" <=> thread[t].error # None
              /\ thread'[t] = [thread[t] EXCEPT !.pc = "drive", !.sdk = h]
              /\ effects' = IF h.stage \in Performing
                            THEN [effects EXCEPT ![thread[t].state] = @ + 1]
                            ELSE effects
<1>1. /\ thread[t].pc = "resume" /\ AwaitsRedirect(thread[t].sdk, thread[t].state)
      /\ UNCHANGED store /\ clock' = clock /\ offered' = offered
      /\ sealed' = sealed /\ served' = served
  BY DEF Resume
<1>2. PICK h \in NextSdk(thread[t].sdk) :
        /\ h.stage = "failed" <=> thread[t].error # None
        /\ thread' = [thread EXCEPT ![t].pc = "drive", ![t].sdk = h]
        /\ effects' = IF h.stage \in Performing
                      THEN [effects EXCEPT ![thread[t].state] = @ + 1]
                      ELSE effects
  BY DEF Resume
<1> DEFINE r == [thread[t] EXCEPT !.pc = "drive", !.sdk = h]
<1>3. thread[t] \in ThreadRecs /\ c \in Corrs
  BY <1>1, AtWork
<1>4. thread[t].state \in States /\ thread[t].state \in {<<c, 1>>, <<c, 2>>}
  BY <1>1, StateForms DEF StoreInv, Placed, TypeOK
<1>5. /\ thread[t].sdk \in SdkHandles /\ thread[t].sdk.state \in States
      /\ thread[t].sdk.stage \in {"login", "consent"}
  BY <1>1, <1>3, <1>4 DEF AwaitsRedirect, ThreadRecs, Redirecting
<1>6. h \in SdkHandles
  <2>1. h.stage # thread[t].sdk.stage
    BY <1>5, NextSdkIs DEF Redirecting
  <2>2. h.hops = 0
    BY <1>5, <2>1, NextSdkIs DEF Redirecting
  <2>3. QED
    BY <1>5, <2>2, NextSdkTyped, HopsAssumption DEF Redirecting
<1>7. r \in ThreadRecs /\ r.pc = "drive" /\ r.corr = c
  BY <1>3, <1>6 DEF ThreadRecs, Pcs, Claiming
<1>8. Becomes(t, r)
  BY <1>2 DEF Becomes
<1>9. Counted'
  <2>1. /\ effects \in [States -> Nat] /\ sealed \in [Corrs -> Nat]
        /\ effects[thread[t].state] + 1 \in Nat
    BY <1>4 DEF StoreInv, TypeOK
  <2>2. effects' \in [States -> Nat]
    BY <1>2, <1>4, <2>1
  <2>3. QED
    BY <1>1, <2>1, <2>2 DEF Counted
<1>10. \A d \in Corrs : d # c => /\ sealed'[d] = sealed[d]
                                 /\ effects'[<<d, 1>>] = effects[<<d, 1>>]
                                 /\ effects'[<<d, 2>>] = effects[<<d, 2>>]
  BY <1>1, <1>2, <1>4 DEF StoreInv, TypeOK
<1> HIDE DEF r
<1>11. Moves(t, c) /\ sess'[c] = sess[c] /\ thread'[t] = r
  BY <1>1, <1>7, <1>8, <1>9, <1>10, LocalMoves DEF Claiming
<1>12. QED
  BY <1>1, <1>2, <1>4, <1>5, <1>6, <1>11 DEF r

\* The upstream answered: the SDK goes on, or refuses.
LEMMA PerformedMoves ==
  ASSUME StoreInv, NEW t \in Threads, NEW c, c = thread[t].corr, StepOk(t), Performed(t)
  PROVE  /\ Moves(t, c) /\ sess'[c] = sess[c] /\ thread[t].pc = "perform"
         /\ effects' = effects
         /\ sealed' = IF thread[t].sdk.stage = "seal"
                      THEN [sealed EXCEPT ![c] = @ + 1] ELSE sealed
         /\ thread[t].sdk \in SdkHandles /\ thread[t].sdk.state \in States
         /\ thread[t].sdk.stage \in {"fetch", "seal"}
         /\ \/ thread'[t] = [thread[t] EXCEPT !.pc = "fail", !.reason = "resume_error"]
            \/ \E h \in NextSdk(thread[t].sdk) :
                 /\ h \in SdkHandles /\ h.hops < MaxHops
                 /\ thread'[t] = [thread[t] EXCEPT !.pc = "drive", !.sdk = h]
<1>1. /\ thread[t].pc = "perform"
      /\ UNCHANGED store /\ clock' = clock /\ offered' = offered
      /\ effects' = effects /\ served' = served
      /\ sealed' = IF thread[t].sdk.stage = "seal"
                   THEN [sealed EXCEPT ![c] = @ + 1] ELSE sealed
  BY DEF Performed
<1>2. thread[t] \in ThreadRecs /\ c \in Corrs
  BY <1>1, AtWork
<1>3. /\ thread[t].sdk \in SdkHandles /\ thread[t].sdk.state \in States
      /\ thread[t].sdk.stage \in {"fetch", "seal"}
  <2>1. thread[t].sdk \in SdkHandles /\ HandleOk(c, thread[t].sdk)
        /\ StepKind(thread[t].sdk) = "perform"
    BY <1>1, <1>2 DEF StepOk, Driving, ThreadRecs
  <2>2. thread[t].sdk.stage \in {"fetch", "seal"}
    BY <2>1 DEF StepKind, Performing, Redirecting
  <2>3. thread[t].sdk # None
    BY <1>1 DEF StepOk, Driving
  <2>4. QED
    BY <2>1, <2>2, <2>3, <1>2, StateParts DEF HandleOk
<1>4. Counted'
  <2>1. effects \in [States -> Nat] /\ sealed \in [Corrs -> Nat] /\ sealed[c] + 1 \in Nat
    BY <1>2 DEF StoreInv, TypeOK
  <2>2. sealed' \in [Corrs -> Nat]
    BY <1>1, <1>2, <2>1
  <2>3. QED
    BY <1>1, <2>1, <2>2 DEF Counted
<1>5. \A d \in Corrs : d # c => /\ sealed'[d] = sealed[d]
                                /\ effects'[<<d, 1>>] = effects[<<d, 1>>]
                                /\ effects'[<<d, 2>>] = effects[<<d, 2>>]
  BY <1>1, <1>2 DEF StoreInv, TypeOK
<1>6. CASE Failing(t, "resume_error")
  <2>1. thread[t].pc \in Claiming /\ sealed' \in [Corrs -> Nat]
    BY <1>1, <1>4 DEF Claiming, Counted
  <2>2. /\ Moves(t, c) /\ sess'[c] = sess[c]
        /\ thread'[t] = [thread[t] EXCEPT !.pc = "fail", !.reason = "resume_error"]
    BY <1>1, <1>5, <1>6, <2>1, FailingMoves
  <2>3. QED
    BY <1>1, <1>3, <2>2
<1>7. ASSUME NEW h \in NextSdk(thread[t].sdk), h.hops < MaxHops,
             thread' = [thread EXCEPT ![t].pc = "drive", ![t].sdk = h]
      PROVE  /\ Moves(t, c) /\ sess'[c] = sess[c] /\ h \in SdkHandles
             /\ thread'[t] = [thread[t] EXCEPT !.pc = "drive", !.sdk = h]
  <2> DEFINE r == [thread[t] EXCEPT !.pc = "drive", !.sdk = h]
  <2>1. h.hops \in Nat /\ thread[t].sdk.stage \in Redirecting \cup Performing
    BY <1>3, NextSdkIs DEF Performing
  <2>2. h \in SdkHandles
    BY <1>3, <1>7, <2>1, HopsAssumption, NextSdkTyped
  <2>3. r \in ThreadRecs /\ r.pc = "drive" /\ r.corr = c
    BY <1>2, <2>2 DEF ThreadRecs, Pcs, Claiming
  <2>4. Becomes(t, r)
    BY <1>7 DEF Becomes
  <2> HIDE DEF r
  <2>5. Moves(t, c) /\ sess'[c] = sess[c] /\ thread'[t] = r
    BY <1>1, <1>4, <1>5, <2>3, <2>4, LocalMoves DEF Claiming
  <2>6. QED
    BY <2>2, <2>5 DEF r
<1>8. QED
  BY <1>1, <1>3, <1>6, <1>7 DEF Performed

\* The handle is stored and its step followed.
LEMMA DriveMoves ==
  ASSUME StoreInv, NEW t \in Threads, NEW c, c = thread[t].corr, Drive(t)
  PROVE  /\ Moves(t, c) /\ thread[t].pc = "drive" /\ UNCHANGED History
         /\ sess'[c] = [sess[c] EXCEPT !.handle = thread[t].sdk]
         /\ thread'[t] = [thread[t] EXCEPT !.pc = StepKind(thread[t].sdk),
                                           !.reason = "sdk_outcome"]
<1> DEFINE s == [sess[c] EXCEPT !.handle = thread[t].sdk]
           r == [thread[t] EXCEPT !.pc = StepKind(thread[t].sdk), !.reason = "sdk_outcome"]
<1>1. /\ thread[t].pc = "drive" /\ Put(c, s) /\ Becomes(t, r)
      /\ clock' = clock /\ UNCHANGED History
  BY DEF Drive, SetHandle, Becomes
<1>2. c \in Corrs /\ sess[c] \in Sessions /\ thread[t] \in ThreadRecs
      /\ sess[c].status # "pending" /\ <<c, 1>> \in offered
  BY <1>1, AtWork
<1>3. s \in Sessions /\ s.oauthState = sess[c].oauthState /\ s.status = sess[c].status
      /\ s.expiresAt = sess[c].expiresAt /\ s.resuming = sess[c].resuming
  BY <1>2 DEF Sessions, ThreadRecs
<1>4. StepKind(thread[t].sdk) \in {"perform", "redirect", "done", "fail"}
  BY DEF StepKind
<1>5. r \in ThreadRecs /\ r.pc = StepKind(thread[t].sdk) /\ r.corr = c /\ Onward(r, c)
  BY <1>2, <1>4 DEF ThreadRecs, Pcs, Claiming, Onward
<1>6. r.pc \in Claiming /\ r.pc \notin {"found", "resume"}
  BY <1>4, <1>5 DEF Claiming
<1> HIDE DEF s, r
<1>7. Moves(t, c) /\ sess'[c] = s /\ thread'[t] = r
  BY <1>1, <1>2, <1>3, <1>5, <1>6, HistoryTyped, StepMoves DEF Claiming
<1>8. QED
  BY <1>1, <1>7 DEF s, r

\* The consent redirect is registered and the claim released.
LEMMA RedirectSetStateMoves ==
  ASSUME StoreInv, NEW t \in Threads, NEW c, c = thread[t].corr, StepOk(t), RedirectSetState(t)
  PROVE  /\ Moves(t, c) /\ thread[t].pc = "redirect" /\ UNCHANGED History
         /\ sess'[c] = [sess[c] EXCEPT !.oauthState = thread[t].sdk.state, !.resuming = FALSE]
         /\ thread'[t] = [thread[t] EXCEPT !.pc = "authorizing"]
         /\ thread[t].sdk \in SdkHandles /\ thread[t].sdk.stage = "consent"
         /\ thread[t].sdk.state = <<c, 2>>
<1> DEFINE s == [sess[c] EXCEPT !.oauthState = thread[t].sdk.state, !.resuming = FALSE]
           r == [thread[t] EXCEPT !.pc = "authorizing"]
<1>1. /\ thread[t].pc = "redirect" /\ Put(c, s) /\ Becomes(t, r)
      /\ clock' = clock /\ UNCHANGED History
  BY DEF RedirectSetState, SetState, Goto, Becomes
<1>2. c \in Corrs /\ sess[c] \in Sessions /\ thread[t] \in ThreadRecs
      /\ sess[c].status # "pending" /\ <<c, 1>> \in offered /\ c \in byID
  BY <1>1, AtWork DEF Claiming
<1>3. /\ thread[t].sdk \in SdkHandles /\ thread[t].sdk.stage = "consent"
      /\ thread[t].sdk.state = <<c, 2>>
  <2>1. /\ thread[t].sdk # None /\ HandleOk(c, thread[t].sdk)
        /\ StepKind(thread[t].sdk) = "redirect" /\ thread[t].sdk.stage # "login"
    BY <1>1 DEF StepOk, Driving
  <2>2. thread[t].sdk.stage = "consent"
    BY <2>1 DEF StepKind, Performing, Redirecting
  <2>3. QED
    BY <1>2, <2>1, <2>2 DEF HandleOk, ThreadRecs
<1>4. s \in Sessions /\ s.oauthState = <<c, 2>> /\ s.status = sess[c].status
      /\ s.expiresAt = sess[c].expiresAt /\ ~s.resuming
  BY <1>2, <1>3, StateParts DEF Sessions
<1>5. r \in ThreadRecs /\ r.pc = "authorizing" /\ r.corr = c /\ Onward(r, c)
  BY <1>2 DEF ThreadRecs, Pcs, Onward
<1>6. s.oauthState \in States /\ s.oauthState[1] = c
  BY <1>2, <1>4, StateParts
<1> HIDE DEF s, r
<1>7. Moves(t, c) /\ sess'[c] = s /\ thread'[t] = r
  BY <1>1, <1>2, <1>4, <1>5, <1>6, HistoryTyped, StepMoves DEF Claiming
<1>8. QED
  BY <1>1, <1>3, <1>7 DEF s, r

\* The consent redirect is published.
LEMMA RedirectReplyMoves ==
  ASSUME StoreInv, NEW t \in Threads, NEW c, c = thread[t].corr, StepOk(t), RedirectReply(t)
  PROVE  /\ Moves(t, c) /\ thread[t].pc = "authorizing"
         /\ offered' = offered \cup {<<c, 2>>} /\ UNCHANGED <<effects, sealed, served>>
         /\ sess'[c] = [sess[c] EXCEPT !.status = "authorizing"]
         /\ thread'[t] = Idle
<1> DEFINE s == [sess[c] EXCEPT !.status = "authorizing"]
<1>1. /\ thread[t].pc = "authorizing" /\ Put(c, s) /\ Becomes(t, Idle)
      /\ clock' = clock /\ effects' = effects /\ sealed' = sealed /\ served' = served
  BY DEF RedirectReply, SetStatus, Reply, Becomes
<1>2. c \in Corrs /\ sess[c] \in Sessions /\ <<c, 1>> \in offered
  BY <1>1, AtWork
<1>3. s \in Sessions /\ s.oauthState = sess[c].oauthState /\ s.status = "authorizing"
      /\ s.expiresAt = sess[c].expiresAt /\ s.resuming = sess[c].resuming
  BY <1>2 DEF Sessions, Statuses
<1>4. offered' = offered \cup {<<c, 2>>}
  BY <1>1 DEF RedirectReply, StepOk
<1>5. Offers(c)
  BY <1>2, <1>4 DEF Offers
<1>6. Counted'
  BY <1>1 DEF StoreInv, TypeOK, Counted
<1>7. thread[t].pc \notin Claiming /\ Idle.pc \notin Claiming \cup {"found", "resume"}
  BY <1>1, IdleTyped DEF Claiming
<1>8. Onward(Idle, c)
  BY DEF Onward
<1> HIDE DEF s
<1>9. Moves(t, c) /\ sess'[c] = s /\ thread'[t] = Idle
  BY <1>1, <1>2, <1>3, <1>5, <1>6, <1>7, <1>8, IdleTyped, StepMoves
<1>10. QED
  BY <1>1, <1>4, <1>9 DEF s

\* The result is stored.
LEMMA DoneMoves ==
  ASSUME StoreInv, NEW t \in Threads, NEW c, c = thread[t].corr, Done(t)
  PROVE  /\ Moves(t, c) /\ thread[t].pc = "done" /\ UNCHANGED History
         /\ sess'[c] = [sess[c] EXCEPT !.status = "completed", !.result = "pdf"]
         /\ thread'[t] = [thread[t] EXCEPT !.pc = "finalize"]
<1> DEFINE s == [sess[c] EXCEPT !.status = "completed", !.result = "pdf"]
           r == [thread[t] EXCEPT !.pc = "finalize"]
<1>1. /\ thread[t].pc = "done" /\ Put(c, s) /\ Becomes(t, r)
      /\ clock' = clock /\ UNCHANGED History
  BY DEF Done, SetCompleted, Goto, Becomes
<1>2. c \in Corrs /\ sess[c] \in Sessions /\ thread[t] \in ThreadRecs /\ <<c, 1>> \in offered
  BY <1>1, AtWork
<1>3. s \in Sessions /\ s.oauthState = sess[c].oauthState /\ s.status = "completed"
      /\ s.expiresAt = sess[c].expiresAt /\ s.resuming = sess[c].resuming
  BY <1>2 DEF Sessions, Statuses, Final
<1>4. r \in ThreadRecs /\ r.pc = "finalize" /\ r.corr = c /\ Onward(r, c)
  BY <1>2 DEF ThreadRecs, Pcs, Claiming, Onward
<1> HIDE DEF s, r
<1>5. Moves(t, c) /\ sess'[c] = s /\ thread'[t] = r
  BY <1>1, <1>2, <1>3, <1>4, HistoryTyped, StepMoves DEF Claiming
<1>6. QED
  BY <1>1, <1>5 DEF s, r

\* How Fail reports the outcome.
Declined(t) == thread[t].reason = "sdk_outcome" /\ Outcome(thread[t].error) = "declined"

\* The failure is stored.
LEMMA FailMoves ==
  ASSUME StoreInv, NEW t \in Threads, NEW c, c = thread[t].corr, Fail(t)
  PROVE  /\ Moves(t, c) /\ thread[t].pc = "fail" /\ UNCHANGED History
         /\ sess'[c] = [sess[c] EXCEPT !.status = IF Declined(t) THEN "declined" ELSE "failed",
                                       !.reason = thread[t].reason]
         /\ thread'[t] = [thread[t] EXCEPT !.pc = "finalize"]
<1> DEFINE status == IF Declined(t) THEN "declined" ELSE "failed"
           s == [sess[c] EXCEPT !.status = status, !.reason = thread[t].reason]
           r == [thread[t] EXCEPT !.pc = "finalize"]
<1>1. /\ thread[t].pc = "fail" /\ Put(c, s) /\ Becomes(t, r)
      /\ clock' = clock /\ UNCHANGED History
  BY DEF Fail, SetFailed, Goto, Becomes, Declined
<1>2. c \in Corrs /\ sess[c] \in Sessions /\ thread[t] \in ThreadRecs /\ <<c, 1>> \in offered
  BY <1>1, AtWork
<1>3. status \in {"declined", "failed"}
  OBVIOUS
<1> HIDE DEF status
<1>4. s \in Sessions /\ s.oauthState = sess[c].oauthState /\ s.status # "pending"
      /\ s.expiresAt = sess[c].expiresAt /\ s.resuming = sess[c].resuming
  BY <1>2, <1>3 DEF Sessions, Statuses, Final, ThreadRecs
<1>5. r \in ThreadRecs /\ r.pc = "finalize" /\ r.corr = c /\ Onward(r, c)
  BY <1>2 DEF ThreadRecs, Pcs, Claiming, Onward
<1> HIDE DEF s, r
<1>6. Moves(t, c) /\ sess'[c] = s /\ thread'[t] = r
  BY <1>1, <1>2, <1>4, <1>5, HistoryTyped, StepMoves DEF Claiming
<1>7. QED
  BY <1>1, <1>6 DEF s, r, status

\* Handle, OAuth state and claim are dropped.
LEMMA FinalizeReplyMoves ==
  ASSUME StoreInv, NEW t \in Threads, NEW c, c = thread[t].corr, FinalizeReply(t)
  PROVE  /\ Moves(t, c) /\ thread[t].pc = "finalize" /\ UNCHANGED History
         /\ sess'[c] = [sess[c] EXCEPT !.oauthState = None, !.handle = None, !.resuming = FALSE]
         /\ thread'[t] = Idle
<1> DEFINE s == [sess[c] EXCEPT !.oauthState = None, !.handle = None, !.resuming = FALSE]
<1>1. /\ thread[t].pc = "finalize" /\ Put(c, s) /\ Becomes(t, Idle)
      /\ clock' = clock /\ UNCHANGED History
  BY DEF FinalizeReply, Finalize, Reply, Becomes
<1>2. c \in Corrs /\ sess[c] \in Sessions /\ <<c, 1>> \in offered /\ sess[c].status # "pending"
  BY <1>1, AtWork
<1>3. s \in Sessions /\ s.oauthState = None /\ s.status = sess[c].status
      /\ s.expiresAt = sess[c].expiresAt /\ ~s.resuming
  BY <1>2 DEF Sessions
<1>4. thread[t].pc \in Claiming /\ Idle.pc \notin Claiming \cup {"found", "resume"}
  BY <1>1, IdleTyped DEF Claiming
<1>5. Onward(Idle, c)
  BY DEF Onward
<1> HIDE DEF s
<1>6. Moves(t, c) /\ sess'[c] = s /\ thread'[t] = Idle
  BY <1>1, <1>2, <1>3, <1>4, <1>5, HistoryTyped, IdleTyped, StepMoves
<1>7. QED
  BY <1>1, <1>6 DEF s

\* What an expiry leaves of a session.
LEMMA ExpireIs ==
  ASSUME NEW s \in Sessions
  PROVE  /\ Expire(s) \in Sessions
         /\ Expire(s).oauthState \in {None, s.oauthState}
         /\ Expire(s).handle \in {None, s.handle}
         /\ Expire(s).expiresAt = s.expiresAt /\ Expire(s).resuming = s.resuming
         /\ Expire(s).result = s.result
         /\ Expire(s).status # s.status =>
              /\ ~IsFinal(s) /\ Expire(s).status = "failed" /\ Expire(s).reason = "session_expired"
              /\ Expire(s).handle = None /\ Expire(s).oauthState = None
         /\ Expire(s).status = s.status => Expire(s) = s
         /\ Expire(s) # s => Expires(s)
  BY DEF Expire, Expires, Sessions, IsFinal, Statuses, Final

\* A callback that comes too late expires the session at most.
LEMMA ConsumeConflictMoves ==
  ASSUME StoreInv, NEW t \in Threads, NEW c, c = thread[t].corr, ConsumeConflict(t)
  PROVE  /\ Moves(t, c) /\ thread[t].pc = "found" /\ UNCHANGED History
         /\ sess'[c] = Expire(sess[c]) /\ thread'[t] = Idle
<1> DEFINE s == Expire(sess[c])
<1>1. /\ thread[t].pc = "found" /\ Put(c, s) /\ Becomes(t, Idle)
      /\ clock' = clock /\ UNCHANGED History
  BY DEF ConsumeConflict, ConsumeRefused, Reply, Becomes
<1>2. c \in Corrs /\ sess[c] \in Sessions /\ <<c, 1>> \in offered /\ sess[c].status # "pending"
  BY <1>1, AtWork
<1>3. s \in Sessions /\ s.oauthState \in {None, sess[c].oauthState} /\ s.status # "pending"
      /\ s.expiresAt = sess[c].expiresAt /\ s.resuming = sess[c].resuming
  BY <1>2, ExpireIs
<1>4. thread[t].pc \notin Claiming /\ Idle.pc \notin Claiming \cup {"found", "resume"}
  BY <1>1, IdleTyped DEF Claiming
<1>5. Onward(Idle, c)
  BY DEF Onward
<1> HIDE DEF s
<1>6. Moves(t, c) /\ sess'[c] = s /\ thread'[t] = Idle
  BY <1>1, <1>2, <1>3, <1>4, <1>5, HistoryTyped, IdleTyped, StepMoves
<1>7. QED
  BY <1>1, <1>6 DEF s

\* A callback that finds its session leaves the store as it is.
LEMMA LookupMoves ==
  ASSUME StoreInv, NEW t \in Threads, NEW st \in offered, NEW e \in Errors,
         Lookup(t, st, e), StateIsPending(st)
  PROVE  /\ Moves(t, byState[st]) /\ thread[t].pc = "idle" /\ UNCHANGED History
         /\ sess'[byState[st]] = sess[byState[st]] /\ st[1] = byState[st]
         /\ thread'[t].pc = "found" /\ thread'[t].corr = byState[st]
<1> DEFINE c == byState[st]
           r == [Idle EXCEPT !.pc = "found", !.corr = c, !.state = st, !.error = e]
<1>1. /\ thread[t].pc = "idle" /\ Becomes(t, r) /\ clock' = clock /\ UNCHANGED History
      /\ Put(c, Expire(sess[c]))
  BY DEF Lookup, Becomes, ExpireByState, StateIsPending
<1>2. /\ st \in States /\ c \in byID /\ c \in Corrs /\ sess[c] \in Sessions
      /\ ~Expires(sess[c])
  BY Typed DEF StoreInv, TypeOK, StateIsPending
<1>3. Put(c, sess[c])
  BY <1>1, <1>2 DEF Expire
<1>4. sess[c].oauthState = st /\ st[1] = c
  BY <1>2, StateForms DEF StoreInv, IndexCoherent, OwnStates, StateIsPending
<1>5. sess[c].status # "pending" /\ <<c, 1>> \in offered
  BY <1>2, <1>4, StateForms DEF StoreInv, Beginnings
<1>6. r \in ThreadRecs /\ r.pc = "found" /\ r.corr = c /\ r.state = st
  BY <1>2 DEF Idle, ThreadRecs, Pcs, Claiming
<1>7. /\ offered' = offered /\ served' = served /\ effects' = effects /\ sealed' = sealed
      /\ offered \subseteq States /\ served \subseteq Corrs /\ Counted'
  BY <1>1, <1>5, HistoryTyped DEF StoreInv, TypeOK
<1> HIDE DEF r
<1>8. Frame(t, c) /\ thread'[t] = r /\ sess'[c] = sess[c]
  <2>1. TypeOK /\ OwnStates /\ IndexCoherent
    BY DEF StoreInv
  <2> HIDE DEF c
  <2>2. QED
    BY <1>1, <1>2, <1>3, <1>6, <1>7, <2>1, StepFrame
<1>9. SessionStep(t, c)
  BY <1>5, <1>7, <1>8 DEF SessionStep, Offers
<1>10. HandlerStep(t, c)
  BY <1>1, <1>4, <1>6, <1>7, <1>8 DEF HandlerStep
<1>11. ClaimKept(t, c)
  BY <1>1, <1>6, <1>8 DEF ClaimKept, Claiming
<1>12. Moves(t, c)
  BY <1>2, <1>8, <1>9, <1>10, <1>11 DEF Moves
<1>13. QED
  BY <1>1, <1>4, <1>6, <1>8, <1>12

-----------------------------------------------------------------------------
\* The other steps: a look at a session, a new one, the clock.

\* Someone looks at session c, which expires if it is out of time.
Glance(c) ==
  /\ c \in byID /\ Put(c, Expire(sess[c]))
  /\ UNCHANGED <<clock, thread, offered, effects, sealed>>
  /\ served' \subseteq Corrs

\* A look at a session keeps the store's invariant.
LEMMA GlanceKeepsStore ==
  ASSUME StoreInv, NEW c, Glance(c)
  PROVE  /\ StoreInv' /\ c \in Corrs
         /\ sess'[c] = Expire(sess[c]) /\ \A d \in Corrs : d # c => sess'[d] = sess[d]
<1>1. c \in Corrs /\ sess[c] \in Sessions /\ sess[c].status # "pending"
  BY Typed DEF StoreInv, TypeOK, Glance, Beginnings
<1>2. /\ Expire(sess[c]) \in Sessions
      /\ Expire(sess[c]).oauthState \in {None, sess[c].oauthState}
      /\ Expire(sess[c]).status # "pending"
      /\ Expire(sess[c]).expiresAt = sess[c].expiresAt
      /\ Expire(sess[c]).resuming = sess[c].resuming
  BY <1>1, ExpireIs
<1>3. Put(c, Expire(sess[c])) /\ TypeOK /\ OwnStates /\ IndexCoherent
  BY DEF Glance, StoreInv
<1>4. /\ sess' \in [Corrs -> Sessions] /\ byID' = byID
      /\ sess'[c] = Expire(sess[c]) /\ \A d \in Corrs : d # c => sess'[d] = sess[d]
      /\ byState' \in [States -> Corrs \cup {None}]
  BY <1>1, <1>2, <1>3, PutTyped
<1>5. OwnStates' /\ IndexCoherent'
  BY <1>1, <1>2, <1>3, PutIndex
<1>6. TypeOK'
  BY <1>4 DEF StoreInv, TypeOK, Glance
<1>7. Placed'
  BY DEF StoreInv, Placed, Glance
<1>8. Beginnings'
  BY <1>1, <1>2, <1>4 DEF StoreInv, Beginnings, Glance
<1>9. Evictions'
  BY <1>1, <1>2, <1>4 DEF StoreInv, Evictions, Glance
<1>10. ClaimExclusive'
  BY <1>1, <1>2, <1>4 DEF StoreInv, ClaimExclusive, Glance, Holds
<1>11. QED
  BY <1>1, <1>4, <1>5, <1>6, <1>7, <1>8, <1>9, <1>10 DEF StoreInv

\* A new session, and the evictions that come with it, keep the store's invariant.
LEMMA StartNewKeepsStore ==
  ASSUME StoreInv, NEW t \in Threads, NEW c \in Corrs, StartNew(t, c)
  PROVE  /\ StoreInv' /\ thread[t].pc = "idle" /\ UNCHANGED History
         /\ sess[c] = NoSession /\ \A d \in Corrs : d # c => sess'[d] = sess[d]
         /\ sess'[c].status = "authorizing" /\ sess'[c].handle = None /\ sess'[c].result = None
         /\ \A u \in Threads : u # t => thread'[u] = thread[u]
         /\ thread'[t].pc = "start" /\ thread'[t].corr = c
<1> DEFINE r == [Idle EXCEPT !.pc = "start", !.corr = c]
           s == [NoSession EXCEPT !.oauthState = <<c, 1>>, !.status = "authorizing",
                                  !.expiresAt = clock + TTL]
<1>1. /\ thread[t].pc = "idle" /\ sess[c] = NoSession /\ clock' = clock /\ UNCHANGED History
      /\ sess' = [sess EXCEPT ![c] = s] /\ byID' = (byID \ Evicted) \cup {c}
      /\ byState' = [[x \in States |->
                        IF \E e \in Evicted : sess[e].oauthState = x THEN None ELSE byState[x]]
                     EXCEPT ![<<c, 1>>] = c]
      /\ thread' = [thread EXCEPT ![t] = r]
  BY DEF StartNew, New
<1>2. /\ sess \in [Corrs -> Sessions] /\ thread \in [Threads -> ThreadRecs]
      /\ byState \in [States -> Corrs \cup {None}] /\ byID \subseteq Corrs /\ clock \in Nat
  BY Typed DEF StoreInv, TypeOK
<1>3. /\ s \in Sessions /\ s.oauthState = <<c, 1>> /\ s.status = "authorizing"
      /\ s.handle = None /\ s.result = None /\ s.resuming = FALSE
  <2>1. /\ NoSession \in Sessions
        /\ NoSession.handle = None /\ NoSession.result = None /\ NoSession.resuming = FALSE
    BY DEF NoSession, Sessions, Statuses
  <2>2. <<c, 1>> \in States
    BY StateParts
  <2>3. clock + TTL \in Nat
    BY <1>2, LifetimeAssumption
  <2>4. QED
    BY <2>1, <2>2, <2>3 DEF Sessions, Statuses
<1>4. r \in ThreadRecs /\ r.pc = "start" /\ r.corr = c
  BY DEF Idle, ThreadRecs, Pcs, Claiming, Errors
<1> HIDE DEF r, s
<1>5. /\ sess' \in [Corrs -> Sessions] /\ sess'[c] = s
      /\ \A d \in Corrs : d # c => sess'[d] = sess[d]
      /\ thread' \in [Threads -> ThreadRecs] /\ thread'[t] = r
      /\ \A u \in Threads : u # t => thread'[u] = thread[u]
  BY <1>1, <1>2, <1>3, <1>4
<1>6. /\ byState' \in [States -> Corrs \cup {None}] /\ byState'[<<c, 1>>] = c
      /\ \A x \in States : x # <<c, 1>> =>
           byState'[x] = IF \E e \in Evicted : sess[e].oauthState = x THEN None ELSE byState[x]
  BY <1>1, <1>2, StateParts
<1>7. /\ offered' = offered /\ served' = served /\ effects' = effects /\ sealed' = sealed
  BY <1>1 DEF History
<1>8. TypeOK'
  BY <1>1, <1>2, <1>5, <1>6, <1>7 DEF StoreInv, TypeOK, ThreadRecs
<1>9. sess[c].status = "pending" /\ sess[c].oauthState = None /\ ~sess[c].resuming
  BY <1>1 DEF NoSession
<1>10. c \notin byID /\ <<c, 1>> \notin offered /\ \A u \in Threads : thread[u].corr # c
  BY <1>9 DEF StoreInv, Beginnings
<1>11. Evicted \subseteq byID /\ \A d \in Evicted : ~sess[d].resuming /\ clock > sess[d].expiresAt
  BY <1>2, LifetimeAssumption DEF Evicted, Sessions
<1>12. Placed'
  BY <1>4, <1>5, <1>7 DEF StoreInv, Placed
<1>13. Beginnings'
  BY <1>1, <1>3, <1>4, <1>5, <1>7, <1>10 DEF StoreInv, Beginnings, Placed
<1>14. Evictions'
  BY <1>1, <1>3, <1>5, <1>11 DEF StoreInv, Evictions
<1>15. OwnStates'
  BY <1>3, <1>5, StateParts DEF StoreInv, OwnStates
<1>16. IndexCoherent'
  <2>1. ASSUME NEW st \in States, byState'[st] # None
        PROVE  byState'[st] \in byID' /\ sess'[byState'[st]].oauthState = st
    <3>1. CASE st = <<c, 1>>
      BY <3>1, <1>1, <1>3, <1>5, <1>6
    <3>2. CASE st # <<c, 1>>
      <4>1. byState'[st] = byState[st] /\ \A e \in Evicted : sess[e].oauthState # st
        BY <2>1, <3>2, <1>6
      <4>2. byState[st] \in byID /\ sess[byState[st]].oauthState = st
        BY <2>1, <4>1 DEF StoreInv, IndexCoherent
      <4>3. QED
        BY <4>1, <4>2, <1>1, <1>2, <1>5, <1>10
    <3>3. QED
      BY <3>1, <3>2
  <2>2. ASSUME NEW d \in byID', sess'[d].oauthState # None
        PROVE  byState'[sess'[d].oauthState] = d
    <3>1. CASE d = c
      BY <3>1, <1>3, <1>5, <1>6
    <3>2. CASE d # c
      <4> DEFINE x == sess[d].oauthState
      <4>1. d \in byID /\ d \in Corrs /\ d \notin Evicted /\ sess'[d] = sess[d]
        BY <3>2, <2>2, <1>1, <1>2, <1>5
      <4>2. x \in States /\ byState[x] = d /\ x[1] = d
        BY <4>1, <2>2, <1>2 DEF StoreInv, IndexCoherent, OwnStates, Sessions
      <4>3. x # <<c, 1>> /\ \A e \in Evicted : sess[e].oauthState # x
        BY <4>1, <4>2, <3>2, <1>2, <1>11, StateForms DEF StoreInv, OwnStates
      <4>4. QED
        BY <4>1, <4>2, <4>3, <1>6
    <3>3. QED
      BY <3>1, <3>2
  <2>3. QED
    BY <2>1, <2>2 DEF IndexCoherent
<1>17. ClaimExclusive'
  <2>1. \A u \in Threads, d \in Corrs : Holds(u, d)' <=> Holds(u, d)
    BY <1>1, <1>4, <1>5 DEF Holds, Claiming
  <2>2. \A d \in Corrs : sess'[d].resuming <=> sess[d].resuming
    BY <1>3, <1>5, <1>9
  <2>3. QED
    BY <2>1, <2>2 DEF StoreInv, ClaimExclusive
<1>18. QED
  BY <1>1, <1>3, <1>4, <1>5, <1>8, <1>12, <1>13, <1>14, <1>15, <1>16, <1>17 DEF StoreInv

\* So does the passing of time.
LEMMA TickKeepsStore ==
  ASSUME StoreInv, Tick
  PROVE  StoreInv' /\ UNCHANGED <<store, thread, History>>
<1>1. /\ byID' = byID /\ byState' = byState /\ sess' = sess /\ thread' = thread
      /\ offered' = offered /\ effects' = effects /\ sealed' = sealed /\ served' = served
      /\ clock' = clock + 1
  BY DEF Tick, store, History
<1>2. TypeOK' /\ clock \in Nat
  BY <1>1 DEF StoreInv, TypeOK
<1>3. Evictions'
  <2>1. \A c \in Corrs : sess[c].expiresAt \in Nat
    BY Typed DEF StoreInv, Sessions
  <2>2. QED
    BY <1>1, <1>2, <2>1 DEF StoreInv, Evictions
<1>4. Placed' /\ Beginnings' /\ OwnStates' /\ IndexCoherent' /\ ClaimExclusive'
  BY <1>1 DEF StoreInv, Placed, Beginnings, OwnStates, IndexCoherent, ClaimExclusive, Holds
<1>5. QED
  BY <1>2, <1>3, <1>4 DEF StoreInv, Tick

-----------------------------------------------------------------------------
\* The flow of each session.

\* Nothing of session d changes.
Apart(d) ==
  /\ sess'[d] = sess[d] /\ sealed'[d] = sealed[d]
  /\ effects'[<<d, 1>>] = effects[<<d, 1>>] /\ effects'[<<d, 2>>] = effects[<<d, 2>>]
  /\ <<d, 2>> \in offered' <=> <<d, 2>> \in offered
  /\ d \in served' <=> d \in served
  /\ \A u \in Threads : /\ thread'[u].corr = d <=> thread[u].corr = d
                        /\ thread[u].corr = d => thread'[u] = thread[u]

\* A session nothing happens to stays in order.
LEMMA ApartStays ==
  ASSUME NEW d \in Corrs, SessionOk(d), Apart(d)
  PROVE  SessionOk(d)'
<1>1. \A h : HandleOk(d, h) => HandleOk(d, h)'
  BY DEF HandleOk, Apart
<1>2. ASSUME NEW u \in Threads, thread'[u].corr = d PROVE StepOk(u)'
  <2>1. thread'[u] = thread[u] /\ thread[u].corr = d /\ StepOk(u)
    BY <1>2 DEF Apart, SessionOk
  <2>2. QED
    BY <1>1, <2>1 DEF StepOk, Apart
<1>3. Alone(d)'
  BY DEF Apart, SessionOk, Alone, Engaged
<1>4. StoredHandle(d)'
  BY <1>1 DEF Apart, SessionOk, StoredHandle
<1>5. Ending(d)'
  BY DEF Apart, SessionOk, Ending, Quiet, IsFinal
<1>6. EffectsOf(d)' /\ ServedOf(d)'
  BY DEF Apart, SessionOk, EffectsOf, ServedOf
<1>7. QED
  BY <1>2, <1>3, <1>4, <1>5, <1>6 DEF SessionOk

\* A handler's move on one session is nothing to the others.
LEMMA MovesApart ==
  ASSUME StoreInv, NEW t, NEW c, Moves(t, c), NEW d \in Corrs, d # c
  PROVE  Apart(d)
<1>1. thread'[t].corr # d /\ thread[t].corr # d
  BY IdleTyped, CorrsAssumption DEF Moves, HandlerStep, StoreInv, Placed
<1>2. <<d, 2>> \in offered' <=> <<d, 2>> \in offered
  BY DEF Moves, SessionStep, Offers
<1>3. QED
  BY <1>1, <1>2 DEF Apart, Moves, Frame, SessionStep

\* A step on session c that keeps its flow in order keeps every session's.
LEMMA MovesKeepFlow ==
  ASSUME StoreInv, FlowInv, NEW t, NEW c, Moves(t, c), SessionOk(c)'
  PROVE  FlowInv'
BY MovesApart, ApartStays DEF FlowInv

\* What is known of the other handlers of a session that a handler has claimed.
LEMMA OnlyClaimer ==
  ASSUME StoreInv, NEW t \in Threads, NEW c, c = thread[t].corr, thread[t].pc \in Claiming,
         NEW u \in Threads, u # t, thread[u].corr = c
  PROVE  thread[u].pc \in {"found", "authorizing"}
<1>1. c \in Corrs /\ <<c, 1>> \in offered
  BY AtWork DEF Claiming
<1>2. thread[u].pc \notin Claiming
  BY <1>1 DEF StoreInv, ClaimExclusive, Holds
<1>3. thread[u].pc # "start"
  BY <1>1 DEF StoreInv, Beginnings
<1>4. thread[u].pc # "idle"
  BY <1>1, IdleTyped, CorrsAssumption DEF StoreInv, Placed
<1>5. thread[u].pc \in Pcs
  BY Typed DEF StoreInv, ThreadRecs
<1>6. QED
  BY <1>2, <1>3, <1>4, <1>5 DEF Pcs

\* One lemma per step: the flow of its session stays in order.

\* The stored login handle is fresh: nothing has happened yet.
LEMMA StartStoreFlow ==
  ASSUME StoreInv, NEW t \in Threads, NEW c, c = thread[t].corr, SessionOk(c), StartStore(t)
  PROVE  SessionOk(c)'
<1>1. /\ thread[t].pc = "start" /\ offered' = offered \cup {<<c, 1>>}
      /\ effects' = effects /\ sealed' = sealed /\ served' = served
  BY DEF StartStore
<1>2. /\ Moves(t, c) /\ thread'[t] = Idle
      /\ sess'[c] = [sess[c] EXCEPT !.handle = Sdk("login", <<c, 1>>, 0),
                                    !.status = "authorizing"]
  BY StartStoreMoves
<1>3. c \in Corrs /\ sess[c] \in Sessions
  BY <1>1, AtWork
<1>4. /\ <<c, 1>> \notin offered /\ <<c, 2>> \notin offered
      /\ effects[<<c, 1>>] = 0 /\ effects[<<c, 2>>] = 0 /\ sealed[c] = 0
      /\ \A u \in Threads : thread[u].corr = c => u = t
  BY <1>1, <1>3 DEF StoreInv, Beginnings
<1>5. /\ sess'[c].handle = Sdk("login", <<c, 1>>, 0) /\ sess'[c].status = "authorizing"
      /\ sess'[c].result = sess[c].result
  BY <1>2, <1>3 DEF Sessions
<1>6. \A u \in Threads : thread'[u].corr # c
  BY <1>2, <1>3, <1>4, IdleTyped, CorrsAssumption DEF Moves, Frame
<1>7. HandleOk(c, sess[c].handle)'
  <2>1. /\ sess'[c].handle.stage = "login" /\ sess'[c].handle.state = <<c, 1>>
    BY <1>5 DEF Sdk
  <2>2. <<c, 2>> \notin offered'
    BY <1>1, <1>3, <1>4, StateParts
  <2>3. QED
    BY <1>1, <1>4, <2>1, <2>2 DEF HandleOk
<1>8. sess[c].status # "completed"
  BY <1>1 DEF SessionOk, Ending, IsOutcome
<1>9. Alone(c)' /\ \A u \in Threads : thread'[u].corr = c => StepOk(u)'
  BY <1>6 DEF Alone
<1>10. Ending(c)'
  BY <1>5 DEF Ending, IsFinal, Final, IsOutcome
<1>11. EffectsOf(c)' /\ ServedOf(c)'
  BY <1>1, <1>4, <1>5, <1>8, HopsAssumption DEF SessionOk, EffectsOf, ServedOf
<1>12. QED
  BY <1>7, <1>9, <1>10, <1>11 DEF SessionOk, StoredHandle

\* What the handler takes to the SDK is the stored handle.
LEMMA ConsumeFlow ==
  ASSUME StoreInv, NEW t \in Threads, NEW c, c = thread[t].corr, SessionOk(c), Consume(t)
  PROVE  SessionOk(c)'
<1>1. /\ thread[t].pc = "found" /\ UNCHANGED History
  BY DEF Consume
<1>2. /\ Moves(t, c) /\ ~IsFinal(sess[c]) /\ ~sess[c].resuming
      /\ sess'[c] = [sess[c] EXCEPT !.resuming = TRUE, !.oauthState = None]
      /\ thread'[t] = [thread[t] EXCEPT !.pc = "resume", !.sdk = sess[c].handle]
  BY ConsumeMoves
<1>3. c \in Corrs /\ sess[c] \in Sessions /\ thread[t] \in ThreadRecs
  BY <1>1, AtWork
<1>4. /\ sess'[c].handle = sess[c].handle /\ sess'[c].status = sess[c].status
      /\ sess'[c].reason = sess[c].reason /\ sess'[c].result = sess[c].result
      /\ thread'[t].pc = "resume" /\ thread'[t].corr = c /\ thread'[t].sdk = sess[c].handle
  BY <1>2, <1>3 DEF Sessions, ThreadRecs
<1>5. \A u \in Threads : u # t => thread'[u] = thread[u]
  BY <1>2 DEF Moves, Frame
<1>6. effects' = effects /\ sealed' = sealed /\ offered' = offered /\ served' = served
  BY <1>1 DEF History
<1>7. \A h : HandleOk(c, h) => HandleOk(c, h)'
  BY <1>6 DEF HandleOk
<1>8. HandleOk(c, sess[c].handle)
  <2>1. \A u \in Threads : thread[u].pc = "drive" => thread[u].corr # c
    BY <1>2, <1>3 DEF StoreInv, ClaimExclusive, Holds, Claiming
  <2>2. QED
    BY <2>1 DEF SessionOk, StoredHandle
<1>9. ASSUME NEW u \in Threads, thread'[u].corr = c PROVE StepOk(u)'
  <2>1. CASE u = t
    BY <2>1, <1>4, <1>7, <1>8 DEF StepOk, Driving
  <2>2. CASE u # t
    BY <2>2, <1>4, <1>5, <1>6, <1>7, <1>9 DEF SessionOk, StepOk
  <2>3. QED
    BY <2>1, <2>2
<1>10. Alone(c)'
  BY <1>1, <1>4, <1>5 DEF SessionOk, Alone, Engaged, Driving
<1>11. StoredHandle(c)'
  BY <1>4, <1>7, <1>8 DEF StoredHandle
<1>12. Ending(c)'
  BY <1>2, <1>4 DEF Ending, IsFinal, Final, IsOutcome
<1>13. QED
  BY <1>4, <1>6, <1>9, <1>10, <1>11, <1>12 DEF SessionOk, EffectsOf, ServedOf

\* A refused callback leaves the handle alone, or drops it with the session.
LEMMA ConsumeConflictFlow ==
  ASSUME StoreInv, NEW t \in Threads, NEW c, c = thread[t].corr, SessionOk(c), ConsumeConflict(t)
  PROVE  SessionOk(c)'
<1>1. /\ Moves(t, c) /\ thread[t].pc = "found" /\ UNCHANGED History
      /\ sess'[c] = Expire(sess[c]) /\ thread'[t] = Idle
  BY ConsumeConflictMoves
<1>2. c \in Corrs /\ sess[c] \in Sessions
  BY <1>1, AtWork
<1>3. thread'[t].pc = "idle" /\ thread'[t].corr # c
  BY <1>1, <1>2, IdleTyped, CorrsAssumption
<1>4. \A u \in Threads : u # t => thread'[u] = thread[u]
  BY <1>1 DEF Moves, Frame
<1>5. effects' = effects /\ sealed' = sealed /\ offered' = offered /\ served' = served
  BY <1>1 DEF History
<1>6. \A h : HandleOk(c, h) => HandleOk(c, h)'
  BY <1>5 DEF HandleOk
<1>7. \/ sess'[c] = sess[c]
      \/ /\ ~IsFinal(sess[c]) /\ sess'[c].status = "failed" /\ sess'[c].reason = "session_expired"
         /\ sess'[c].handle = None /\ sess'[c].oauthState = None
         /\ sess'[c].result = sess[c].result
  BY <1>1, <1>2, ExpireIs
<1>8. ASSUME NEW u \in Threads, thread'[u].corr = c PROVE StepOk(u)'
  BY <1>3, <1>4, <1>5, <1>6, <1>7, <1>8 DEF SessionOk, StepOk
<1>9. Alone(c)'
  BY <1>3, <1>4 DEF SessionOk, Alone, Engaged
<1>10. StoredHandle(c)'
  BY <1>1, <1>3, <1>4, <1>6, <1>7 DEF SessionOk, StoredHandle, HandleOk
<1>11. Ending(c)'
  BY <1>1, <1>3, <1>4, <1>7 DEF SessionOk, Ending, Quiet, IsFinal, Final, IsOutcome
<1>12. EffectsOf(c)' /\ ServedOf(c)'
  BY <1>5, <1>7 DEF SessionOk, EffectsOf, ServedOf, IsFinal, Final
<1>13. QED
  BY <1>8, <1>9, <1>10, <1>11, <1>12 DEF SessionOk

\* A handler that fails without the SDK's word: the session is as it was.
LEMMA FailingFlow ==
  ASSUME StoreInv, NEW t \in Threads, NEW c, c = thread[t].corr, SessionOk(c),
         thread[t].pc \in {"resume", "perform"},
         Moves(t, c), sess'[c] = sess[c],
         thread'[t].pc = "fail", thread'[t].corr = c,
         thread[t].pc = "perform" \/ thread'[t].reason = "resume_error",
         effects' = effects, offered' = offered, served' = served,
         sealed'[c] = sealed[c] \/ sess[c].handle = None \/ sess[c].handle.stage = "seal",
         sealed'[c] >= sealed[c], sealed'[c] <= MaxHops
  PROVE  SessionOk(c)'
<1>1. /\ c \in Corrs /\ sess[c] \in Sessions /\ sealed[c] \in Nat /\ sealed'[c] \in Nat
      /\ <<c, 1>> \in offered
  BY AtWork DEF StoreInv, TypeOK, Moves, Frame
<1>2. \A u \in Threads : u # t => thread'[u] = thread[u]
  BY DEF Moves, Frame
<1>3. \A u \in Threads : u # t /\ thread[u].corr = c => thread[u].pc \in {"found", "authorizing"}
  BY OnlyClaimer DEF Claiming
<1>4. ASSUME NEW u \in Threads, thread'[u].corr = c PROVE StepOk(u)'
  <2>1. CASE u = t
    BY <2>1 DEF StepOk, Driving
  <2>2. CASE u # t
    BY <2>2, <1>2, <1>3, <1>4 DEF SessionOk, StepOk, Driving
  <2>3. QED
    BY <2>1, <2>2
<1>5. Alone(c)'
  BY <1>2 DEF SessionOk, Alone, Engaged, Driving
<1>6. StoredHandle(c)'
  <2>1. HandleOk(c, sess[c].handle)
    BY <1>3 DEF SessionOk, StoredHandle
  <2>2. HandleOk(c, sess[c].handle)'
    BY <2>1, <1>1 DEF HandleOk
  <2>3. QED
    BY <2>2 DEF StoredHandle
<1>7. Ending(c)'
  BY DEF SessionOk, Ending, Quiet
<1>8. EffectsOf(c)' /\ ServedOf(c)'
  BY <1>1 DEF SessionOk, EffectsOf, ServedOf
<1>9. QED
  BY <1>4, <1>5, <1>6, <1>7, <1>8 DEF SessionOk

\* The SDK's refusal changes nothing yet.
LEMMA ResumeErrorFlow ==
  ASSUME StoreInv, NEW t \in Threads, NEW c, c = thread[t].corr, SessionOk(c), ResumeError(t)
  PROVE  SessionOk(c)'
<1>1. thread[t].pc = "resume" /\ UNCHANGED History
  BY DEF ResumeError
<1>2. /\ Moves(t, c) /\ sess'[c] = sess[c]
      /\ thread'[t] = [thread[t] EXCEPT !.pc = "fail", !.reason = "resume_error"]
  BY ResumeErrorMoves
<1>3. /\ thread'[t].pc = "fail" /\ thread'[t].reason = "resume_error" /\ thread'[t].corr = c
      /\ sealed[c] \in Nat /\ sealed[c] <= MaxHops
  BY <1>1, <1>2, AtWork DEF ThreadRecs, StoreInv, TypeOK, SessionOk, EffectsOf
<1>4. /\ offered' = offered /\ effects' = effects /\ sealed' = sealed /\ served' = served
  BY <1>1 DEF History
<1>5. sealed'[c] = sealed[c] /\ sealed'[c] >= sealed[c] /\ sealed'[c] <= MaxHops
  BY <1>3, <1>4
<1>6. QED
  BY <1>1, <1>2, <1>3, <1>4, <1>5, FailingFlow

\* Nor does a failed upstream call.
LEMMA PerformErrorFlow ==
  ASSUME StoreInv, NEW t \in Threads, NEW c, c = thread[t].corr, SessionOk(c), PerformError(t)
  PROVE  SessionOk(c)'
<1>1. thread[t].pc = "perform" /\ UNCHANGED History
  BY DEF PerformError
<1>2. /\ Moves(t, c) /\ sess'[c] = sess[c]
      /\ thread'[t] = [thread[t] EXCEPT !.pc = "fail", !.reason = "upstream_error"]
  BY PerformErrorMoves
<1>3. /\ thread'[t].pc = "fail" /\ thread'[t].reason = "upstream_error" /\ thread'[t].corr = c
      /\ sealed[c] \in Nat /\ sealed[c] <= MaxHops
  BY <1>1, <1>2, AtWork DEF ThreadRecs, StoreInv, TypeOK, SessionOk, EffectsOf
<1>4. /\ offered' = offered /\ effects' = effects /\ sealed' = sealed /\ served' = served
  BY <1>1 DEF History
<1>5. sealed'[c] = sealed[c] /\ sealed'[c] >= sealed[c] /\ sealed'[c] <= MaxHops
  BY <1>3, <1>4
<1>6. QED
  BY <1>1, <1>2, <1>3, <1>4, <1>5, FailingFlow

\* The handler that has the claim goes on with it while the others have only just
\* found the session.
LEMMA SoloFlow ==
  ASSUME StoreInv, NEW t \in Threads, NEW c, Moves(t, c),
         \A u \in Threads : u # t /\ thread[u].corr = c => thread[u].pc = "found",
         thread'[t].pc \in Driving \cup {"fail", "finalize"}, thread'[t].corr = c, StepOk(t)',
         thread'[t].pc = "drive" \/ HandleOk(c, sess[c].handle)',
         IsOutcome(sess'[c]) => thread'[t].pc = "finalize",
         EffectsOf(c)', ServedOf(c)'
  PROVE  SessionOk(c)'
<1>1. \A u \in Threads : u # t => thread'[u] = thread[u]
  BY DEF Moves, Frame
<1>2. ASSUME NEW u \in Threads, thread'[u].corr = c PROVE StepOk(u)'
  <2>1. CASE u = t
    BY <2>1
  <2>2. CASE u # t
    BY <2>2, <1>1, <1>2 DEF StepOk, Driving
  <2>3. QED
    BY <2>1, <2>2
<1>3. Alone(c)'
  BY <1>1 DEF Alone, Engaged, Driving
<1>4. StoredHandle(c)'
  BY DEF StoredHandle
<1>5. Ending(c)'
  BY <1>1 DEF Ending, Quiet, Driving
<1>6. QED
  BY <1>2, <1>3, <1>4, <1>5 DEF SessionOk

\* Only the answer to the redirect in wait gets past the SDK, and starts its effects
\* for the first time.
LEMMA ResumeFlow ==
  ASSUME StoreInv, NEW t \in Threads, NEW c, c = thread[t].corr, SessionOk(c), Resume(t)
  PROVE  SessionOk(c)'
<1> DEFINE h0 == thread[t].sdk
           st == thread[t].state
<1>1. /\ offered' = offered /\ sealed' = sealed /\ served' = served
  BY DEF Resume
<1>2. /\ Moves(t, c) /\ sess'[c] = sess[c] /\ thread[t].pc = "resume"
      /\ h0 \in SdkHandles /\ AwaitsRedirect(h0, st)
      /\ st \in {<<c, 1>>, <<c, 2>>}
  BY ResumeMoves
<1>3. PICK h \in NextSdk(h0) :
        /\ h \in SdkHandles
        /\ h.stage = "failed" <=> thread[t].error # None
        /\ thread'[t] = [thread[t] EXCEPT !.pc = "drive", !.sdk = h]
        /\ effects' = IF h.stage \in Performing THEN [effects EXCEPT ![st] = @ + 1] ELSE effects
  BY ResumeMoves
<1>4. /\ c \in Corrs /\ sess[c] \in Sessions /\ thread[t] \in ThreadRecs
      /\ effects \in [States -> Nat] /\ <<c, 1>> \in States /\ <<c, 2>> \in States
  BY <1>2, AtWork, StateParts DEF StoreInv, TypeOK
<1>5. thread'[t].pc = "drive" /\ thread'[t].corr = c /\ thread'[t].sdk = h
  BY <1>3, <1>4 DEF ThreadRecs
<1>6. \A u \in Threads : u # t => thread'[u] = thread[u]
  BY <1>2 DEF Moves, Frame
<1>7. \A u \in Threads : u # t /\ thread[u].corr = c => thread[u].pc \in {"found", "authorizing"}
  BY <1>2, OnlyClaimer DEF Claiming
<1>8. h0.stage \in {"login", "consent"} /\ h0.state = st /\ st \in offered /\ h0 # None
  BY <1>2 DEF AwaitsRedirect, Redirecting, StoreInv, Placed
<1>9. HandleOk(c, h0)
  BY <1>2, <1>4 DEF SessionOk, StepOk
<1>10. /\ h0.stage = "login" => h.stage \in {"fetch", "failed"}
       /\ h0.stage = "consent" => h.stage \in {"seal", "failed"}
       /\ h.stage # h0.stage => h.hops = 0
       /\ h.stage # "consent" => h.state = st
  BY <1>2, <1>3, <1>4, <1>8, NextSdkIs DEF Redirecting
<1>11. ServedOf(c)' /\ ~IsOutcome(sess'[c])
  BY <1>1, <1>2 DEF SessionOk, ServedOf, Ending
<1>12. CASE h0.stage = "login"
  <2>1. /\ st = <<c, 1>> /\ effects[<<c, 1>>] = 0 /\ <<c, 2>> \notin offered
        /\ effects[<<c, 2>>] = 0 /\ sealed[c] = 0
    BY <1>8, <1>9, <1>12 DEF HandleOk
  <2>2. /\ h.stage = "fetch" => effects'[<<c, 1>>] = 1
        /\ effects'[<<c, 1>>] <= 1 /\ effects'[<<c, 2>>] = 0
    BY <2>1, <1>3, <1>4, StateParts DEF Performing
  <2>3. HandleOk(c, h)'
    BY <2>1, <2>2, <1>1, <1>8, <1>10, <1>12 DEF HandleOk
  <2>4. \A u \in Threads : u # t /\ thread[u].corr = c => thread[u].pc = "found"
    BY <2>1, <1>7, <1>4 DEF SessionOk, StepOk
  <2>5. /\ h # None /\ h.stage \notin {"idle", "login"}
        /\ h.stage \in {"fetch", "consent"} => <<c, 2>> \notin offered'
        /\ h.stage \notin {"seal", "done"}
    BY <2>1, <1>1, <1>3, <1>10, <1>12, NilAssumption
  <2>6. StepOk(t)' /\ EffectsOf(c)'
    BY <2>1, <2>2, <2>3, <2>5, <1>1, <1>5, HopsAssumption DEF StepOk, Driving, EffectsOf
  <2>7. QED
    BY <2>4, <2>6, <1>1, <1>2, <1>5, <1>11, SoloFlow DEF Driving
<1>13. CASE h0.stage = "consent"
  <2>1. /\ st = <<c, 2>> /\ effects[<<c, 1>>] > 0 /\ <<c, 2>> \in offered
        /\ effects[<<c, 2>>] = 0 /\ sealed[c] = 0
    BY <1>8, <1>9, <1>13 DEF HandleOk
  <2>2. effects'[<<c, 2>>] <= 1 /\ effects'[<<c, 1>>] = effects[<<c, 1>>]
    BY <2>1, <1>3, <1>4, StateParts
  <2>3. HandleOk(c, h)'
    BY <2>1, <2>2, <1>1, <1>8, <1>10, <1>13 DEF HandleOk
  <2>4. \A u \in Threads : u # t /\ thread[u].corr = c => thread[u].pc = "found"
    BY <2>1, <1>7, <1>4 DEF SessionOk, StepOk
  <2>5. /\ h # None /\ h.stage \in {"seal", "failed"}
        /\ h.stage = "seal" => sealed'[c] = h.hops /\ h.hops < MaxHops
    BY <2>1, <1>1, <1>3, <1>10, <1>13, NilAssumption, HopsAssumption
  <2>6. StepOk(t)' /\ EffectsOf(c)'
    BY <2>1, <2>2, <2>3, <2>5, <1>1, <1>4, <1>5, HopsAssumption
       DEF StepOk, Driving, EffectsOf, SessionOk
  <2>7. QED
    BY <2>4, <2>6, <1>1, <1>2, <1>5, <1>11, SoloFlow DEF Driving
<1>14. QED
  BY <1>8, <1>12, <1>13

\* The others of a session whose handler the SDK drives have only found it.
LEMMA EngagedIsSolo ==
  ASSUME StoreInv, NEW t \in Threads, NEW c, c = thread[t].corr, SessionOk(c), Engaged(t),
         NEW u \in Threads, u # t, thread[u].corr = c
  PROVE  thread[u].pc = "found"
<1>1. thread[t].pc \in Claiming
  BY DEF Engaged, Driving, Claiming
<1>2. thread[u].pc \in {"found", "authorizing"}
  BY <1>1, OnlyClaimer
<1>3. QED
  BY <1>2 DEF SessionOk, Alone

\* Storing the handle ends the time in which the stored one is stale.
LEMMA DriveFlow ==
  ASSUME StoreInv, NEW t \in Threads, NEW c, c = thread[t].corr, SessionOk(c), Drive(t)
  PROVE  SessionOk(c)'
<1> DEFINE h == thread[t].sdk
<1>1. /\ Moves(t, c) /\ thread[t].pc = "drive" /\ UNCHANGED History
      /\ sess'[c] = [sess[c] EXCEPT !.handle = h]
      /\ thread'[t] = [thread[t] EXCEPT !.pc = StepKind(h), !.reason = "sdk_outcome"]
  BY DriveMoves
<1>2. c \in Corrs /\ sess[c] \in Sessions /\ thread[t] \in ThreadRecs
  BY <1>1, AtWork
<1>3. /\ sess'[c].handle = h /\ sess'[c].status = sess[c].status
      /\ sess'[c].reason = sess[c].reason /\ sess'[c].result = sess[c].result
      /\ thread'[t].pc = StepKind(h) /\ thread'[t].corr = c /\ thread'[t].sdk = h
  BY <1>1, <1>2 DEF Sessions, ThreadRecs
<1>4. effects' = effects /\ sealed' = sealed /\ offered' = offered /\ served' = served
  BY <1>1 DEF History
<1>5. StepKind(h) \in {"perform", "redirect", "done", "fail"}
  BY DEF StepKind
<1>6. StepOk(t)
  BY <1>2 DEF SessionOk
<1>8. HandleOk(c, h)' /\ HandleOk(c, sess[c].handle)'
  <2>1. HandleOk(c, h)
    BY <1>1, <1>6 DEF StepOk, Driving
  <2>2. QED
    BY <2>1, <1>3, <1>4 DEF HandleOk
<1>9. StepOk(t)'
  BY <1>1, <1>3, <1>4, <1>5, <1>6, <1>8 DEF StepOk, Driving
<1>10. \A u \in Threads : u # t /\ thread[u].corr = c => thread[u].pc = "found"
  BY <1>1, EngagedIsSolo DEF Engaged, Driving
<1>11. ~IsOutcome(sess'[c])
  BY <1>1, <1>2, <1>3 DEF SessionOk, Ending, IsOutcome
<1>12. EffectsOf(c)' /\ ServedOf(c)'
  BY <1>3, <1>4 DEF SessionOk, EffectsOf, ServedOf
<1>13. QED
  BY <1>1, <1>3, <1>5, <1>8, <1>9, <1>10, <1>11, <1>12, SoloFlow DEF Driving

\* An answered effect leads on within its round.
LEMMA PerformedFlow ==
  ASSUME StoreInv, NEW t \in Threads, NEW c, c = thread[t].corr, SessionOk(c), Performed(t)
  PROVE  SessionOk(c)'
<1> DEFINE h0 == thread[t].sdk
<1>1. StepOk(t) /\ thread[t].pc = "perform" /\ offered' = offered /\ served' = served
  BY DEF SessionOk, Performed
<1>2. /\ Moves(t, c) /\ sess'[c] = sess[c] /\ effects' = effects
      /\ sealed' = IF h0.stage = "seal" THEN [sealed EXCEPT ![c] = @ + 1] ELSE sealed
      /\ h0 \in SdkHandles /\ h0.state \in States
      /\ h0.stage \in {"fetch", "seal"}
      /\ \/ thread'[t] = [thread[t] EXCEPT !.pc = "fail", !.reason = "resume_error"]
         \/ \E h \in NextSdk(h0) :
              /\ h \in SdkHandles /\ h.hops < MaxHops
              /\ thread'[t] = [thread[t] EXCEPT !.pc = "drive", !.sdk = h]
  BY <1>1, PerformedMoves
<1>3. /\ c \in Corrs /\ sess[c] \in Sessions /\ thread[t] \in ThreadRecs
      /\ sealed \in [Corrs -> Nat] /\ h0.hops \in Nat
  <2>1. c \in Corrs /\ sess[c] \in Sessions /\ thread[t] \in ThreadRecs
    BY <1>1, AtWork
  <2>2. h0.hops \in Nat
    BY <1>2, HandleHops
  <2>3. QED
    BY <2>1, <2>2 DEF StoreInv, TypeOK
<1>4. /\ HandleOk(c, h0) /\ sess[c].handle \in {None, h0} /\ h0 # None
      /\ h0.stage = "fetch" => <<c, 2>> \notin offered
      /\ h0.stage = "seal" => sealed[c] = h0.hops /\ h0.hops < MaxHops
  BY <1>1 DEF StepOk, Driving
<1>5. sealed'[c] = IF h0.stage = "seal" THEN sealed[c] + 1 ELSE sealed[c]
  BY <1>2, <1>3
<1>6. EffectsOf(c)' /\ ServedOf(c)' /\ ~IsOutcome(sess'[c])
  <2>1. sealed[c] \in Nat /\ sealed[c] <= MaxHops /\ MaxHops \in Nat
    BY <1>3, HopsAssumption DEF SessionOk, EffectsOf
  <2>2. sealed'[c] <= MaxHops /\ (sealed[c] > 0 => sealed'[c] > 0)
    BY <1>3, <1>4, <1>5, <2>1
  <2>3. ~IsOutcome(sess'[c])
    BY <1>1, <1>2, <1>3 DEF SessionOk, Ending
  <2>4. QED
    BY <2>2, <2>3, <1>1, <1>2 DEF SessionOk, EffectsOf, ServedOf
<1>7. CASE thread'[t] = [thread[t] EXCEPT !.pc = "fail", !.reason = "resume_error"]
  <2>1. thread'[t].pc = "fail" /\ thread'[t].reason = "resume_error" /\ thread'[t].corr = c
    BY <1>3, <1>7 DEF ThreadRecs
  <2>2. /\ sealed'[c] = sealed[c] \/ sess[c].handle = None \/ sess[c].handle.stage = "seal"
        /\ sealed'[c] >= sealed[c] /\ sealed'[c] <= MaxHops
    <3>1. sealed[c] \in Nat /\ sealed'[c] <= MaxHops
      BY <1>3, <1>6 DEF EffectsOf
    <3>2. QED
      BY <1>4, <1>5, <3>1
  <2>3. QED
    BY <1>1, <1>2, <2>1, <2>2, FailingFlow
<1>8. ASSUME NEW h \in NextSdk(h0), h \in SdkHandles, h.hops < MaxHops,
             thread'[t] = [thread[t] EXCEPT !.pc = "drive", !.sdk = h]
      PROVE  SessionOk(c)'
  <2>1. thread'[t].pc = "drive" /\ thread'[t].corr = c /\ thread'[t].sdk = h
    BY <1>3, <1>8 DEF ThreadRecs
  <2>2. /\ h0.stage = "fetch" => h.stage \in {"fetch", "consent", "failed"}
        /\ h0.stage = "seal" => h.stage \in {"seal", "done", "failed"}
        /\ h.stage = h0.stage => h.hops = h0.hops + 1
        /\ h.stage = "consent" => h.state = <<h0.state[1], 2>>
        /\ h.stage # "consent" => h.state = h0.state
        /\ h # None
    BY <1>2, <1>8, NextSdkIs, NilAssumption DEF Performing
  <2>3. HandleOk(c, h)'
    <3>1. CASE h0.stage = "fetch"
      BY <3>1, <2>2, <1>1, <1>2, <1>3, <1>4, <1>5, StateParts DEF HandleOk
    <3>2. CASE h0.stage = "seal"
      BY <3>2, <2>2, <1>3, <1>4 DEF HandleOk
    <3>3. QED
      BY <3>1, <3>2, <1>2
  <2>4. /\ h.stage \notin {"idle", "login"}
        /\ h.stage \in {"fetch", "consent"} => <<c, 2>> \notin offered'
        /\ h.stage = "seal" => sealed'[c] = h.hops
        /\ h.stage = "done" => sealed'[c] > 0
    <3>1. h0.stage \in {"fetch", "seal"} /\ sealed[c] \in Nat
      BY <1>2, <1>3
    <3>2. QED
      BY <2>2, <3>1, <1>1, <1>3, <1>4, <1>5
  <2>5. StepOk(t)'
    BY <2>1, <2>2, <2>3, <2>4, <1>8 DEF StepOk, Driving
  <2>6. \A u \in Threads : u # t /\ thread[u].corr = c => thread[u].pc = "found"
    BY <1>1, EngagedIsSolo DEF Engaged, Driving
  <2>7. QED
    BY <1>2, <1>6, <2>1, <2>5, <2>6, SoloFlow DEF Driving
<1>9. QED
  BY <1>2, <1>7, <1>8

\* The consent redirect is registered before it was ever offered.
LEMMA RedirectSetStateFlow ==
  ASSUME StoreInv, NEW t \in Threads, NEW c, c = thread[t].corr, SessionOk(c), RedirectSetState(t)
  PROVE  SessionOk(c)'
<1> DEFINE h == thread[t].sdk
<1>1. thread[t].pc = "redirect" /\ StepOk(t)
  BY DEF RedirectSetState, SessionOk
<1>2. /\ Moves(t, c) /\ UNCHANGED History /\ h \in SdkHandles
      /\ sess'[c] = [sess[c] EXCEPT !.oauthState = h.state, !.resuming = FALSE]
      /\ thread'[t] = [thread[t] EXCEPT !.pc = "authorizing"]
      /\ h.stage = "consent" /\ h.state = <<c, 2>>
  BY <1>1, RedirectSetStateMoves
<1>3. c \in Corrs /\ sess[c] \in Sessions /\ thread[t] \in ThreadRecs
  BY <1>1, AtWork
<1>4. /\ sess'[c].handle = sess[c].handle /\ sess'[c].status = sess[c].status
      /\ sess'[c].reason = sess[c].reason /\ sess'[c].result = sess[c].result
      /\ thread'[t].pc = "authorizing" /\ thread'[t].corr = c /\ thread'[t].sdk = h
  BY <1>2, <1>3 DEF Sessions, ThreadRecs
<1>5. effects' = effects /\ sealed' = sealed /\ offered' = offered /\ served' = served
  BY <1>2 DEF History
<1>6. \A u \in Threads : u # t => thread'[u] = thread[u]
  BY <1>2 DEF Moves, Frame
<1>7. \A u \in Threads : u # t /\ thread[u].corr = c => thread[u].pc = "found"
  BY <1>1, EngagedIsSolo DEF Engaged, Driving
<1>8. /\ HandleOk(c, h) /\ sess[c].handle \in {None, h} /\ h # None /\ <<c, 2>> \notin offered
  BY <1>1, <1>2 DEF StepOk, Driving
<1>9. effects[<<c, 1>>] > 0
  BY <1>2, <1>8 DEF HandleOk
<1>10. ASSUME NEW u \in Threads, thread'[u].corr = c PROVE StepOk(u)'
  <2>1. CASE u = t
    BY <2>1, <1>2, <1>4, <1>5, <1>8, <1>9 DEF StepOk, Driving
  <2>2. CASE u # t
    BY <2>2, <1>6, <1>7, <1>10 DEF StepOk, Driving
  <2>3. QED
    BY <2>1, <2>2
<1>11. Alone(c)'
  BY <1>4, <1>6, <1>7 DEF Alone, Engaged, Driving
<1>12. StoredHandle(c)'
  BY <1>4, <1>5, <1>8 DEF StoredHandle, HandleOk
<1>13. Ending(c)'
  BY <1>1, <1>3, <1>4 DEF SessionOk, Ending, Quiet, IsOutcome
<1>14. EffectsOf(c)' /\ ServedOf(c)'
  BY <1>4, <1>5 DEF SessionOk, EffectsOf, ServedOf
<1>15. QED
  BY <1>10, <1>11, <1>12, <1>13, <1>14 DEF SessionOk

\* Offering it hurts no one: login is over.
LEMMA RedirectReplyFlow ==
  ASSUME StoreInv, NEW t \in Threads, NEW c, c = thread[t].corr, SessionOk(c), RedirectReply(t)
  PROVE  SessionOk(c)'
<1>1. thread[t].pc = "authorizing" /\ StepOk(t)
  BY DEF RedirectReply, SessionOk
<1>2. /\ Moves(t, c) /\ offered' = offered \cup {<<c, 2>>}
      /\ effects' = effects /\ sealed' = sealed /\ served' = served
      /\ sess'[c] = [sess[c] EXCEPT !.status = "authorizing"]
      /\ thread'[t] = Idle
  BY <1>1, RedirectReplyMoves
<1>3. c \in Corrs /\ sess[c] \in Sessions
  BY <1>1, AtWork
<1>4. /\ sess'[c].handle = sess[c].handle /\ sess'[c].status = "authorizing"
      /\ sess'[c].result = sess[c].result /\ thread'[t].corr # c /\ thread'[t].pc = "idle"
  BY <1>2, <1>3, IdleTyped, CorrsAssumption DEF Sessions
<1>5. \A u \in Threads : u # t => thread'[u] = thread[u]
  BY <1>2 DEF Moves, Frame
<1>6. effects[<<c, 1>>] > 0
  BY <1>1 DEF StepOk
<1>7. \A u \in Threads : u # t /\ thread[u].corr = c =>
        ~Engaged(u) /\ thread[u].pc # "authorizing"
  BY <1>1 DEF SessionOk, Alone
<1>8. ASSUME NEW h, HandleOk(c, h) PROVE HandleOk(c, h)'
  BY <1>2, <1>6, <1>8 DEF HandleOk
<1>9. ASSUME NEW u \in Threads, thread'[u].corr = c PROVE StepOk(u)'
  <2>1. u # t /\ thread'[u] = thread[u] /\ thread[u].corr = c /\ StepOk(u)
    BY <1>4, <1>5, <1>9 DEF SessionOk
  <2>2. thread[u].pc \notin Driving \cup {"authorizing"}
    BY <1>7, <2>1 DEF Engaged
  <2>3. QED
    BY <1>8, <2>1, <2>2 DEF StepOk
<1>10. Alone(c)'
  BY <1>4, <1>5 DEF SessionOk, Alone, Engaged
<1>11. StoredHandle(c)'
  <2>1. \A u \in Threads : thread[u].pc = "drive" => thread[u].corr # c
    BY <1>1, <1>7 DEF Engaged, Driving
  <2>2. HandleOk(c, sess[c].handle)
    BY <2>1 DEF SessionOk, StoredHandle
  <2>3. HandleOk(c, sess[c].handle)'
    BY <2>2, <1>2, <1>4, <1>6 DEF HandleOk
  <2>4. QED
    BY <2>3 DEF StoredHandle
<1>12. Ending(c)'
  BY <1>4 DEF Ending, IsFinal, Final, IsOutcome
<1>13. sess[c].status # "completed"
  BY <1>1 DEF SessionOk, Ending, IsOutcome
<1>14. EffectsOf(c)' /\ ServedOf(c)'
  BY <1>2, <1>4, <1>13 DEF SessionOk, EffectsOf, ServedOf
<1>15. QED
  BY <1>9, <1>10, <1>11, <1>12, <1>14 DEF SessionOk

\* A session completes after sealing, and no one is left to overwrite that.
LEMMA DoneFlow ==
  ASSUME StoreInv, NEW t \in Threads, NEW c, c = thread[t].corr, SessionOk(c), Done(t)
  PROVE  SessionOk(c)'
<1> DEFINE h == thread[t].sdk
<1>1. /\ Moves(t, c) /\ thread[t].pc = "done" /\ UNCHANGED History
      /\ sess'[c] = [sess[c] EXCEPT !.status = "completed", !.result = "pdf"]
      /\ thread'[t] = [thread[t] EXCEPT !.pc = "finalize"]
  BY DoneMoves
<1>2. c \in Corrs /\ sess[c] \in Sessions /\ thread[t] \in ThreadRecs
  BY <1>1, AtWork
<1>3. /\ sess'[c].handle = sess[c].handle /\ sess'[c].status = "completed"
      /\ sess'[c].result = "pdf" /\ thread'[t].pc = "finalize" /\ thread'[t].corr = c
  BY <1>1, <1>2 DEF Sessions, ThreadRecs
<1>4. effects' = effects /\ sealed' = sealed /\ offered' = offered /\ served' = served
  BY <1>1 DEF History
<1>5. HandleOk(c, h) /\ h # None /\ sess[c].handle \in {None, h} /\ StepKind(h) = "done"
  BY <1>1, <1>2 DEF SessionOk, StepOk, Driving
<1>6. sealed[c] > 0
  <2>1. h.stage = "done"
    BY <1>5 DEF StepKind
  <2>2. QED
    BY <1>1, <2>1 DEF SessionOk, StepOk, Driving
<1>7. HandleOk(c, sess[c].handle)'
  BY <1>3, <1>4, <1>5 DEF HandleOk
<1>8. \A u \in Threads : u # t /\ thread[u].corr = c => thread[u].pc = "found"
  BY <1>1, EngagedIsSolo DEF Engaged, Driving
<1>9. StepOk(t)'
  BY <1>3 DEF StepOk, Driving
<1>10. EffectsOf(c)' /\ ServedOf(c)'
  BY <1>3, <1>4, <1>6, NilAssumption DEF SessionOk, EffectsOf, ServedOf
<1>11. QED
  BY <1>1, <1>3, <1>7, <1>8, <1>9, <1>10, SoloFlow

\* Only the handler that drives the SDK gives a session its outcome, and no one is
\* left to overwrite that.
LEMMA FailFlow ==
  ASSUME StoreInv, NEW t \in Threads, NEW c, c = thread[t].corr, SessionOk(c), Fail(t)
  PROVE  SessionOk(c)'
<1> DEFINE status == IF Declined(t) THEN "declined" ELSE "failed"
<1>1. /\ Moves(t, c) /\ thread[t].pc = "fail" /\ UNCHANGED History
      /\ sess'[c] = [sess[c] EXCEPT !.status = status, !.reason = thread[t].reason]
      /\ thread'[t] = [thread[t] EXCEPT !.pc = "finalize"]
  BY FailMoves
<1>2. c \in Corrs /\ sess[c] \in Sessions /\ thread[t] \in ThreadRecs
  BY <1>1, AtWork
<1>3. /\ sess'[c].handle = sess[c].handle /\ sess'[c].status = status
      /\ sess'[c].result = sess[c].result /\ sess'[c].reason = thread[t].reason
      /\ thread'[t].pc = "finalize" /\ thread'[t].corr = c
  BY <1>1, <1>2 DEF Sessions, ThreadRecs
<1>4. effects' = effects /\ sealed' = sealed /\ offered' = offered /\ served' = served
  BY <1>1 DEF History
<1>5. \A u \in Threads : u # t => thread'[u] = thread[u]
  BY <1>1 DEF Moves, Frame
<1>6. \A u \in Threads : u # t /\ thread[u].corr = c =>
        /\ thread[u].pc \in {"found", "authorizing"}
        /\ thread[t].reason \in {"sdk_outcome", "upstream_error"} => thread[u].pc = "found"
  BY <1>1, OnlyClaimer, EngagedIsSolo DEF Claiming, Engaged
<1>7. HandleOk(c, sess[c].handle)
  BY <1>1, <1>6 DEF SessionOk, StoredHandle
<1>8. HandleOk(c, sess[c].handle)'
  BY <1>3, <1>4, <1>7 DEF HandleOk
<1>9. ASSUME NEW u \in Threads, thread'[u].corr = c PROVE StepOk(u)'
  <2>1. CASE u = t
    BY <2>1, <1>3 DEF StepOk, Driving
  <2>2. CASE u # t
    BY <2>2, <1>4, <1>5, <1>6, <1>9 DEF SessionOk, StepOk, Driving
  <2>3. QED
    BY <2>1, <2>2
<1>10. Alone(c)'
  BY <1>3, <1>5 DEF SessionOk, Alone, Engaged, Driving
<1>11. Ending(c)'
  <2>1. IsOutcome(sess'[c]) =>
          \A u \in Threads : thread'[u].corr = c => thread'[u].pc \in {"found", "finalize"}
    BY <1>3, <1>5, <1>6 DEF IsOutcome, Declined
  <2>2. ~Quiet(c)'
    BY <1>3 DEF Quiet
  <2>3. QED
    BY <2>1, <2>2 DEF Ending
<1>12. EffectsOf(c)' /\ ServedOf(c)'
  <2>1. sess[c].status # "completed" /\ sess'[c].status # "completed"
    BY <1>1, <1>2, <1>3 DEF SessionOk, Ending, IsOutcome
  <2>2. QED
    BY <2>1, <1>3, <1>4 DEF SessionOk, EffectsOf, ServedOf
<1>13. QED
  BY <1>8, <1>9, <1>10, <1>11, <1>12 DEF SessionOk, StoredHandle

\* Ended, a session keeps its outcome and nothing secret.
LEMMA FinalizeReplyFlow ==
  ASSUME StoreInv, NEW t \in Threads, NEW c, c = thread[t].corr, SessionOk(c), FinalizeReply(t)
  PROVE  SessionOk(c)'
<1>1. /\ Moves(t, c) /\ thread[t].pc = "finalize" /\ UNCHANGED History
      /\ sess'[c] = [sess[c] EXCEPT !.oauthState = None, !.handle = None, !.resuming = FALSE]
      /\ thread'[t] = Idle
  BY FinalizeReplyMoves
<1>2. c \in Corrs /\ sess[c] \in Sessions
  BY <1>1, AtWork
<1>3. /\ sess'[c].handle = None /\ sess'[c].oauthState = None
      /\ sess'[c].status = sess[c].status /\ sess'[c].reason = sess[c].reason
      /\ sess'[c].result = sess[c].result
      /\ thread'[t].pc = "idle" /\ thread'[t].corr # c
  BY <1>1, <1>2, IdleTyped, CorrsAssumption DEF Sessions
<1>4. effects' = effects /\ sealed' = sealed /\ offered' = offered /\ served' = served
  BY <1>1 DEF History
<1>5. \A u \in Threads : u # t => thread'[u] = thread[u]
  BY <1>1 DEF Moves, Frame
<1>6. \A u \in Threads : u # t /\ thread[u].corr = c => thread[u].pc \in {"found", "authorizing"}
  BY <1>1, OnlyClaimer DEF Claiming
<1>7. ASSUME NEW u \in Threads, thread'[u].corr = c PROVE StepOk(u)'
  BY <1>3, <1>4, <1>5, <1>6, <1>7 DEF SessionOk, StepOk, Driving
<1>8. Alone(c)'
  BY <1>3, <1>5 DEF SessionOk, Alone, Engaged
<1>9. Ending(c)'
  BY <1>3, <1>5 DEF SessionOk, Ending, IsOutcome
<1>10. EffectsOf(c)' /\ ServedOf(c)' /\ StoredHandle(c)'
  BY <1>3, <1>4 DEF SessionOk, EffectsOf, ServedOf, StoredHandle, HandleOk
<1>11. QED
  BY <1>7, <1>8, <1>9, <1>10 DEF SessionOk

\* A callback that found its session has changed nothing.
LEMMA LookupFlow ==
  ASSUME StoreInv, NEW t \in Threads, NEW st \in offered, NEW e \in Errors,
         Lookup(t, st, e), StateIsPending(st), NEW c, c = byState[st], SessionOk(c)
  PROVE  SessionOk(c)'
<1>1. /\ Moves(t, c) /\ thread[t].pc = "idle" /\ UNCHANGED History
      /\ sess'[c] = sess[c]
  BY LookupMoves
<1>2. thread'[t].pc = "found" /\ thread'[t].corr = c
  BY LookupMoves
<1>3. effects' = effects /\ sealed' = sealed /\ offered' = offered /\ served' = served
  BY <1>1 DEF History
<1>4. \A u \in Threads : u # t => thread'[u] = thread[u]
  BY <1>1 DEF Moves, Frame
<1>5. thread[t].corr # c
  BY <1>1, IdleTyped, CorrsAssumption DEF StoreInv, Placed, Moves
<1>6. ASSUME NEW h, HandleOk(c, h) PROVE HandleOk(c, h)'
  BY <1>3, <1>6 DEF HandleOk
<1>7. ASSUME NEW u \in Threads, thread'[u].corr = c PROVE StepOk(u)'
  <2>1. CASE u = t
    BY <2>1, <1>2 DEF StepOk, Driving
  <2>2. CASE u # t
    BY <2>2, <1>1, <1>3, <1>4, <1>7 DEF SessionOk, StepOk, HandleOk
  <2>3. QED
    BY <2>1, <2>2
<1>8. Alone(c)'
  BY <1>2, <1>4 DEF SessionOk, Alone, Engaged, Driving
<1>9. StoredHandle(c)'
  BY <1>1, <1>2, <1>3, <1>4, <1>5 DEF SessionOk, StoredHandle, HandleOk
<1>10. Ending(c)'
  BY <1>1, <1>2, <1>4, <1>5 DEF SessionOk, Ending, Quiet, IsFinal
<1>11. EffectsOf(c)' /\ ServedOf(c)'
  BY <1>1, <1>3 DEF SessionOk, EffectsOf, ServedOf
<1>12. QED
  BY <1>7, <1>8, <1>9, <1>10, <1>11 DEF SessionOk

\* A look expires a session that has not ended, or changes nothing.
LEMMA GlanceFlow ==
  ASSUME StoreInv, FlowInv, NEW c, Glance(c),
         \A d \in Corrs : d \in served' \ served => d = c /\ sess[c].status = "completed",
         served \subseteq served'
  PROVE  FlowInv'
<1>1. /\ c \in Corrs /\ sess[c] \in Sessions /\ sess'[c] = Expire(sess[c])
      /\ \A d \in Corrs : d # c => sess'[d] = sess[d]
  BY GlanceKeepsStore, Typed DEF StoreInv
<1>2. /\ thread' = thread /\ effects' = effects /\ sealed' = sealed /\ offered' = offered
  BY DEF Glance
<1>3. \A d \in Corrs : d # c => SessionOk(d)'
  <2> SUFFICES ASSUME NEW d \in Corrs, d # c PROVE SessionOk(d)'
    OBVIOUS
  <2>1. Apart(d)
    BY <1>1, <1>2 DEF Apart
  <2>2. QED
    BY <2>1, ApartStays DEF FlowInv
<1>4. SessionOk(c)
  BY <1>1 DEF FlowInv
<1>5. \/ sess'[c] = sess[c]
      \/ /\ ~IsFinal(sess[c]) /\ sess'[c].status = "failed" /\ sess'[c].reason = "session_expired"
         /\ sess'[c].handle = None /\ sess'[c].oauthState = None
         /\ sess'[c].result = sess[c].result
  BY <1>1, ExpireIs
<1>6. ASSUME NEW u \in Threads, thread'[u].corr = c PROVE StepOk(u)'
  BY <1>2, <1>4, <1>5, <1>6 DEF SessionOk, StepOk, HandleOk
<1>7. Alone(c)' /\ StoredHandle(c)'
  BY <1>2, <1>4, <1>5 DEF SessionOk, Alone, Engaged, StoredHandle, HandleOk
<1>8. Ending(c)'
  BY <1>2, <1>4, <1>5 DEF SessionOk, Ending, Quiet, IsFinal, Final, IsOutcome
<1>9. EffectsOf(c)' /\ ServedOf(c)'
  BY <1>1, <1>2, <1>4, <1>5 DEF SessionOk, EffectsOf, ServedOf, IsFinal, Final
<1>10. QED
  BY <1>3, <1>6, <1>7, <1>8, <1>9 DEF FlowInv, SessionOk

\* A new session has no past.
LEMMA StartNewFlow ==
  ASSUME StoreInv, FlowInv, NEW t \in Threads, NEW c \in Corrs, StartNew(t, c)
  PROVE  FlowInv'
<1>1. /\ thread[t].pc = "idle" /\ UNCHANGED History
      /\ sess[c] = NoSession /\ \A d \in Corrs : d # c => sess'[d] = sess[d]
      /\ sess'[c].status = "authorizing" /\ sess'[c].handle = None /\ sess'[c].result = None
      /\ \A u \in Threads : u # t => thread'[u] = thread[u]
      /\ thread'[t].pc = "start" /\ thread'[t].corr = c
  BY StartNewKeepsStore
<1>2. effects' = effects /\ sealed' = sealed /\ offered' = offered /\ served' = served
  BY <1>1 DEF History
<1>3. sess[c].status = "pending"
  BY <1>1 DEF NoSession
<1>4. /\ <<c, 1>> \notin offered /\ effects[<<c, 1>>] = 0 /\ effects[<<c, 2>>] = 0
      /\ sealed[c] = 0 /\ \A u \in Threads : thread[u].corr # c
  BY <1>3 DEF StoreInv, Beginnings
<1>5. thread[t].corr = None
  BY <1>1, IdleTyped DEF StoreInv, Placed
<1>6. ASSUME NEW d \in Corrs, d # c PROVE SessionOk(d)'
  <2>1. Apart(d)
    BY <1>1, <1>2, <1>5, <1>6, CorrsAssumption DEF Apart
  <2>2. QED
    BY <2>1, ApartStays DEF FlowInv
<1>7. SessionOk(c)'
  <2>1. \A u \in Threads : thread'[u].corr = c => u = t
    BY <1>1, <1>4
  <2>2. ASSUME NEW u \in Threads, thread'[u].corr = c PROVE StepOk(u)'
    BY <2>1, <2>2, <1>1 DEF StepOk, Driving
  <2>3. Alone(c)' /\ Ending(c)' /\ StoredHandle(c)'
    BY <2>1, <1>1 DEF Alone, Ending, StoredHandle, HandleOk, IsFinal, Final, IsOutcome
  <2>4. c \notin served
    BY <1>3 DEF FlowInv, SessionOk, ServedOf
  <2>5. EffectsOf(c)' /\ ServedOf(c)'
    BY <2>4, <1>1, <1>2, <1>4, HopsAssumption DEF EffectsOf, ServedOf
  <2>6. QED
    BY <2>2, <2>3, <2>5 DEF SessionOk
<1>8. QED
  BY <1>6, <1>7 DEF FlowInv

-----------------------------------------------------------------------------
\* The invariant of the service.

ServiceInv == StoreInv /\ FlowInv

\* The service starts in order.
LEMMA ServiceInit == Init => ServiceInv
<1> SUFFICES ASSUME Init PROVE ServiceInv
  OBVIOUS
<1> USE DEF Init, StoreInit
<1>1. /\ \A c \in Corrs : sess[c] = NoSession
      /\ \A t \in Threads : thread[t] = Idle
      /\ \A st \in States : byState[st] = None /\ effects[st] = 0
      /\ \A c \in Corrs : sealed[c] = 0
  OBVIOUS
<1>2. /\ NoSession \in Sessions /\ NoSession.status = "pending" /\ ~NoSession.resuming
      /\ NoSession.oauthState = None /\ NoSession.handle = None /\ NoSession.result = None
  BY DEF NoSession, Sessions, Statuses
<1>3. TypeOK
  <2>1. sess \in [Corrs -> Sessions] /\ thread \in [Threads -> ThreadRecs]
    BY <1>2, IdleTyped
  <2>2. QED
    BY <2>1 DEF TypeOK, ThreadRecs
<1>4. Placed /\ Beginnings
  BY <1>1, <1>2, IdleTyped, StateParts, CorrsAssumption DEF Placed, Beginnings
<1>5. Evictions /\ OwnStates /\ IndexCoherent /\ ClaimExclusive
  BY <1>1, <1>2, IdleTyped DEF Evictions, OwnStates, IndexCoherent, ClaimExclusive, Holds, Claiming
<1>6. ASSUME NEW c \in Corrs PROVE SessionOk(c)
  <2>1. \A t \in Threads : thread[t].corr # c
    BY <1>1, IdleTyped, CorrsAssumption
  <2>2. Alone(c) /\ StoredHandle(c) /\ Ending(c)
    BY <2>1, <1>1, <1>2 DEF Alone, StoredHandle, HandleOk, Ending, IsFinal, Final
  <2>3. EffectsOf(c) /\ ServedOf(c)
    BY <1>1, <1>2, StateParts, HopsAssumption DEF EffectsOf, ServedOf
  <2>4. QED
    BY <2>1, <2>2, <2>3 DEF SessionOk
<1>7. QED
  BY <1>3, <1>4, <1>5, <1>6 DEF ServiceInv, StoreInv, FlowInv

\* A handler's step is a move on its session that keeps the session's flow.
LEMMA WorkMoves ==
  ASSUME ServiceInv, NEW t \in Threads, Work(t)
  PROVE  \E c \in Corrs : Moves(t, c) /\ SessionOk(c)' /\ c = thread[t].corr
<1> DEFINE c == thread[t].corr
<1>1. thread[t].pc # "idle"
  BY DEF Work, StartStore, ConsumeConflict, Consume, ResumeError, Resume, Drive, PerformError,
         Performed, RedirectSetState, RedirectReply, Done, Fail, FinalizeReply
<1>2. StoreInv /\ c \in Corrs /\ SessionOk(c) /\ StepOk(t)
  BY <1>1, AtWork DEF ServiceInv, FlowInv, SessionOk
<1>3. CASE StartStore(t)
  BY <1>2, <1>3, StartStoreMoves, StartStoreFlow
<1>4. CASE ConsumeConflict(t)
  BY <1>2, <1>4, ConsumeConflictMoves, ConsumeConflictFlow
<1>5. CASE Consume(t)
  BY <1>2, <1>5, ConsumeMoves, ConsumeFlow
<1>6. CASE ResumeError(t)
  BY <1>2, <1>6, ResumeErrorMoves, ResumeErrorFlow
<1>7. CASE Resume(t)
  BY <1>2, <1>7, ResumeMoves, ResumeFlow
<1>8. CASE Drive(t)
  BY <1>2, <1>8, DriveMoves, DriveFlow
<1>9. CASE PerformError(t)
  BY <1>2, <1>9, PerformErrorMoves, PerformErrorFlow
<1>10. CASE Performed(t)
  BY <1>2, <1>10, PerformedMoves, PerformedFlow
<1>11. CASE RedirectSetState(t)
  BY <1>2, <1>11, RedirectSetStateMoves, RedirectSetStateFlow
<1>12. CASE RedirectReply(t)
  BY <1>2, <1>12, RedirectReplyMoves, RedirectReplyFlow
<1>13. CASE Done(t)
  BY <1>2, <1>13, DoneMoves, DoneFlow
<1>14. CASE Fail(t)
  BY <1>2, <1>14, FailMoves, FailFlow
<1>15. CASE FinalizeReply(t)
  BY <1>2, <1>15, FinalizeReplyMoves, FinalizeReplyFlow
<1>16. QED
  BY <1>3, <1>4, <1>5, <1>6, <1>7, <1>8, <1>9, <1>10, <1>11, <1>12, <1>13, <1>14, <1>15
     DEF Work

\* A callback finds its session, or looks at one in vain.
LEMMA LookupIs ==
  ASSUME ServiceInv, NEW t \in Threads, NEW st \in offered, NEW e \in Errors, Lookup(t, st, e)
  PROVE  \/ \E c \in Corrs : Moves(t, c) /\ SessionOk(c)' /\ sess'[c] = sess[c]
         \/ \E c \in Corrs : Glance(c) /\ served' = served
         \/ UNCHANGED vars
<1>0. PICK c : c = byState[st]
  OBVIOUS
<1>1. StoreInv /\ FlowInv /\ st \in States
  BY DEF ServiceInv, StoreInv, TypeOK
<1>2. CASE StateIsPending(st)
  <2>1. Moves(t, c) /\ sess'[c] = sess[c]
    BY <1>0, <1>1, <1>2, LookupMoves
  <2>2. c \in Corrs /\ SessionOk(c)
    BY <1>1, <2>1 DEF FlowInv, Moves
  <2>3. SessionOk(c)'
    BY <1>0, <1>1, <1>2, <2>2, LookupFlow
  <2>4. QED
    BY <2>1, <2>2, <2>3
<1>3. CASE ~StateIsPending(st)
  <2>1. /\ clock' = clock /\ thread' = thread /\ offered' = offered /\ effects' = effects
        /\ sealed' = sealed /\ served' = served /\ served \subseteq Corrs
    BY <1>1, <1>3 DEF Lookup, History, StoreInv, TypeOK
  <2>2. CASE c # None /\ c \in byID
    <3>1. Put(c, Expire(sess[c])) /\ c \in Corrs
      BY <2>2, <1>0, <1>1 DEF Lookup, ExpireByState, StoreInv, TypeOK
    <3>2. QED
      BY <2>1, <2>2, <3>1 DEF Glance
  <2>3. CASE ~(c # None /\ c \in byID)
    BY <2>1, <2>3, <1>0 DEF Lookup, ExpireByState, vars
  <2>4. QED
    BY <2>2, <2>3
<1>4. QED
  BY <1>2, <1>3

\* The steps of the service, by what they do to the sessions.
LEMMA NextIs ==
  ASSUME ServiceInv, [Next]_vars
  PROVE  \/ \E t \in Threads, c \in Corrs :
              /\ Moves(t, c) /\ SessionOk(c)'
              /\ sess'[c] = sess[c] \/ (Work(t) /\ c = thread[t].corr)
         \/ \E c \in Corrs :
              /\ Glance(c) /\ served \subseteq served'
              /\ \A d \in Corrs : d \in served' \ served => d = c /\ sess[c].status = "completed"
         \/ \E t \in Threads, c \in Corrs : StartNew(t, c)
         \/ Tick
         \/ UNCHANGED vars
<1>1. CASE \E t \in Threads : Work(t)
  BY <1>1, WorkMoves
<1>2. CASE \E t \in Threads : \E c \in Corrs : StartNew(t, c)
  BY <1>2
<1>3. CASE \E t \in Threads : \E st \in offered, e \in Errors : Lookup(t, st, e)
  BY <1>3, LookupIs
<1>4. ASSUME NEW c \in Corrs, Status(c) \/ Result(c)
      PROVE  /\ Glance(c) /\ served \subseteq served'
             /\ \A d \in Corrs : d \in served' \ served => d = c /\ sess[c].status = "completed"
  <2>1. served \subseteq Corrs
    BY DEF ServiceInv, StoreInv, TypeOK
  <2>2. QED
    BY <1>4, <2>1 DEF Status, Result, View, Glance, History
<1>5. QED
  BY <1>1, <1>2, <1>3, <1>4 DEF Next

\* ServiceInv is inductive.
LEMMA ServiceInvInductive == ServiceInv /\ [Next]_vars => ServiceInv'
<1> SUFFICES ASSUME ServiceInv, [Next]_vars PROVE ServiceInv'
  OBVIOUS
<1> USE DEF ServiceInv
<1>1. ASSUME NEW t \in Threads, NEW c \in Corrs, Moves(t, c), SessionOk(c)' PROVE ServiceInv'
  BY <1>1, MovesKeepStore, MovesKeepFlow
<1>2. ASSUME NEW c \in Corrs, Glance(c), served \subseteq served',
             \A d \in Corrs : d \in served' \ served => d = c /\ sess[c].status = "completed"
      PROVE  ServiceInv'
  BY <1>2, GlanceKeepsStore, GlanceFlow
<1>3. ASSUME NEW t \in Threads, NEW c \in Corrs, StartNew(t, c) PROVE ServiceInv'
  BY <1>3, StartNewKeepsStore, StartNewFlow
<1>4. CASE Tick
  <2>1. StoreInv' /\ UNCHANGED <<store, thread, History>>
    BY <1>4, TickKeepsStore
  <2>2. \A d \in Corrs : Apart(d)
    BY <2>1 DEF Apart, store, History
  <2>3. FlowInv'
    BY <2>2, ApartStays DEF FlowInv
  <2>4. QED
    BY <2>1, <2>3
<1>5. CASE UNCHANGED vars
  <2>1. StoreInv'
    BY <1>5 DEF vars, store, StoreInv, TypeOK, Placed, Beginnings, Evictions, OwnStates,
                IndexCoherent, ClaimExclusive, Holds
  <2>2. \A d \in Corrs : Apart(d)
    BY <1>5 DEF Apart, vars, store
  <2>3. FlowInv'
    BY <2>2, ApartStays DEF FlowInv
  <2>4. QED
    BY <2>1, <2>3
<1>6. QED
  BY <1>1, <1>2, <1>3, <1>4, <1>5, NextIs

\* The invariant holds in every state the service reaches.
LEMMA ServiceInvHolds == Spec => []ServiceInv
<1>1. QED
  BY ServiceInit, ServiceInvInductive, PTL DEF Spec

-----------------------------------------------------------------------------
\* The theorems.

\* Every session, index entry, handler and counter of the service is always one of
\* those the code's types allow, whatever the interleaving of handlers.
THEOREM ServiceTyped == Spec => []TypeOK
<1>1. ServiceInv => TypeOK
  BY DEF ServiceInv, StoreInv
<1>2. QED
  BY <1>1, ServiceInvHolds, PTL

\* The store's two indexes agree with the sessions: a pending OAuth state leads to
\* the one session that awaits it.
THEOREM IndexesCoherent == Spec => []IndexCoherent
<1>1. ServiceInv => IndexCoherent
  BY DEF ServiceInv, StoreInv
<1>2. QED
  BY <1>1, ServiceInvHolds, PTL

\* ConsumeForResume's claim is exclusive and never leaked: a session is checked
\* out exactly while one handler works on it.
THEOREM ClaimsExclusive == Spec => []ClaimExclusive
<1>1. ServiceInv => ClaimExclusive
  BY DEF ServiceInv, StoreInv
<1>2. QED
  BY <1>1, ServiceInvHolds, PTL

\* The answer to a redirect starts its upstream effects at most once, however
\* many handlers the callback is delivered to.
THEOREM EffectsHappenOnce == Spec => []EffectsOnce
<1>1. ServiceInv => EffectsOnce
  <2> SUFFICES ASSUME ServiceInv PROVE EffectsOnce
    OBVIOUS
  <2>1. \A c \in Corrs : EffectsOf(c)
    BY DEF ServiceInv, FlowInv, SessionOk
  <2>2. ASSUME NEW st \in States PROVE effects[st] <= 1
    BY <2>1, StateForms DEF EffectsOf
  <2>3. QED
    BY <2>1, <2>2 DEF EffectsOnce, EffectsOf
<1>2. QED
  BY <1>1, ServiceInvHolds, PTL

\* An ended session that no handler works on keeps no SDK handle, and no OAuth
\* state leads to it.
THEOREM EndedHasNoSecret == Spec => []NoSecretAtRest
<1>1. ServiceInv => NoSecretAtRest
  <2> SUFFICES ASSUME ServiceInv, NEW c \in Corrs, Quiet(c), IsFinal(sess[c])
               PROVE  /\ sess[c].handle = None
                      /\ \A st \in States : byState[st] # c
    BY DEF NoSecretAtRest
  <2>1. sess[c].handle = None /\ sess[c].oauthState = None
    BY DEF ServiceInv, FlowInv, SessionOk, Ending
  <2>2. \A st \in States : byState[st] # c
    BY <2>1, StateForms, CorrsAssumption DEF ServiceInv, StoreInv, IndexCoherent
  <2>3. QED
    BY <2>1, <2>2
<1>2. QED
  BY <1>1, ServiceInvHolds, PTL

\* A PDF is only served for a session whose sealing round ran, and which reports
\* completed from then on.
THEOREM ServedWasSealed == Spec => []ServedIsSealed
<1>1. ServiceInv => ServedIsSealed
  BY DEF ServiceInv, FlowInv, SessionOk, ServedOf, ServedIsSealed
<1>2. QED
  BY <1>1, ServiceInvHolds, PTL

\* No step of any handler, no expiry and no look at a session changes the status, the
\* reason or the document of one that completed, was declined, or failed on the word of
\* the SDK or of an upstream.  (A session that failed by expiry or on a refused resume is
\* not covered: MCRefServiceExpiry shows one going on.)
THEOREM OutcomesAreFinal == Spec => OutcomeIsFinal
<1> DEFINE Same(c) == /\ sess'[c].status = sess[c].status
                      /\ sess'[c].reason = sess[c].reason
                      /\ sess'[c].result = sess[c].result
           Kept(c) == IsOutcome(sess[c]) => Same(c)
           Step == [\A c \in Corrs : Kept(c)]_vars
<1>1. ASSUME ServiceInv, [Next]_vars PROVE \A d \in Corrs : Kept(d)
  <2> SUFFICES ASSUME NEW d \in Corrs, IsOutcome(sess[d])
               PROVE  Same(d)
    OBVIOUS
  <2>1. /\ StoreInv /\ sess[d] \in Sessions /\ IsFinal(sess[d])
        /\ \A t \in Threads : thread[t].corr = d => thread[t].pc \in {"found", "finalize"}
    BY <1>1, Typed DEF ServiceInv, StoreInv, FlowInv, SessionOk, Ending, IsFinal, Final, IsOutcome
  <2>2. Expire(sess[d]) = sess[d]
    BY <2>1 DEF Expire, Expires
  <2>3. ASSUME NEW t \in Threads, NEW c \in Corrs, Moves(t, c),
               sess'[c] = sess[c] \/ (Work(t) /\ c = thread[t].corr)
        PROVE  Same(d)
    <3>1. CASE d # c \/ sess'[c] = sess[c]
      BY <3>1, <2>3 DEF Moves, Frame
    <3>2. CASE d = c /\ Work(t) /\ c = thread[t].corr
      <4>1. thread[t].pc \in {"found", "finalize"}
        BY <3>2, <2>1
      <4>2. ConsumeConflict(t) \/ Consume(t) \/ FinalizeReply(t)
        BY <3>2, <4>1 DEF Work, StartStore, ResumeError, Resume, Drive, PerformError,
                          Performed, RedirectSetState, RedirectReply, Done, Fail
      <4>3. CASE ConsumeConflict(t)
        BY <4>3, <3>2, <2>1, <2>2, ConsumeConflictMoves
      <4>4. CASE Consume(t)
        BY <4>4, <3>2, <2>1, ConsumeMoves
      <4>5. CASE FinalizeReply(t)
        <5>1. sess'[d] = [sess[d] EXCEPT !.oauthState = None, !.handle = None, !.resuming = FALSE]
          BY <4>5, <3>2, <2>1, FinalizeReplyMoves
        <5>2. QED
          BY <5>1, <2>1 DEF Sessions
      <4>6. QED
        BY <4>2, <4>3, <4>4, <4>5
    <3>3. QED
      BY <2>3, <3>1, <3>2
  <2>4. ASSUME NEW c \in Corrs, Glance(c) PROVE Same(d)
    BY <2>1, <2>2, <2>4, GlanceKeepsStore
  <2>5. ASSUME NEW t \in Threads, NEW c \in Corrs, StartNew(t, c)
        PROVE  Same(d)
    <3>1. sess[c] = NoSession /\ (d # c => sess'[d] = sess[d])
      BY <2>1, <2>5, StartNewKeepsStore
    <3>2. QED
      BY <3>1, <2>1 DEF NoSession, IsFinal, Final
  <2>6. CASE Tick
    BY <2>6 DEF Tick, store
  <2>7. CASE UNCHANGED vars
    BY <2>7 DEF vars, store
  <2>8. QED
    BY <1>1, <2>3, <2>4, <2>5, <2>6, <2>7, NextIs
<1>2. ServiceInv /\ [Next]_vars => Step
  BY <1>1
<1>3. Spec => [][\A c \in Corrs : Kept(c)]_vars
  BY <1>2, ServiceInvHolds, PTL DEF Spec
<1>4. QED
  BY <1>3 DEF OutcomeIsFinal

=============================================================================
