----------------------------- MODULE SessionStore -----------------------------
(***************************************************************************)
(* The reference service's in-memory session store (internal/session/       *)
(* store.go).  One operator per method; each is the critical section the    *)
(* method runs under the mutex.  A *Session is a pointer that outlives its   *)
(* index entry, so `sess` keeps a session that `byID` has dropped.          *)
(***************************************************************************)
EXTENDS Integers, FiniteSets

CONSTANTS
  Corrs,    \* correlation ids; each names one session
  None,     \* nil, or the empty string
  TTL,      \* session lifetime
  Grace     \* evictGrace

ASSUME CorrsAssumption == None \notin Corrs
ASSUME LifetimeAssumption == TTL \in Nat /\ Grace \in Nat

Rounds == {1, 2}                 \* service and credential authorization
States == Corrs \X Rounds        \* OAuth states: each redirect draws a fresh one
Final == {"completed", "declined", "failed"}
Statuses == {"pending", "authorizing"} \cup Final

VARIABLES
  clock,
  byID,      \* correlation ids that are indexed
  byState,   \* pending OAuth state -> correlation id, None if not indexed
  sess       \* the session objects

store == <<byID, byState, sess>>

NoSession == [oauthState |-> None, handle |-> None, status |-> "pending", reason |-> None,
              result |-> None, expiresAt |-> 0, resuming |-> FALSE]

StoreInit ==
  /\ clock = 0 /\ byID = {}
  /\ byState = [st \in States |-> None]
  /\ sess = [c \in Corrs |-> NoSession]

IsFinal(s) == s.status \in Final

\* Mutant: expires an ended session too.
ExpiresAlways(s) == clock > s.expiresAt

Expires(s) == ~IsFinal(s) /\ clock > s.expiresAt

\* expireLocked on the session itself
Expire(s) ==
  IF Expires(s)
  THEN [s EXCEPT !.status = "failed", !.reason = "session_expired",
                 !.handle = None, !.oauthState = None]
  ELSE s

Deindex(index, st) == IF st = None THEN index ELSE [index EXCEPT ![st] = None]
Index(index, st, c) == IF st = None THEN index ELSE [index EXCEPT ![st] = c]

\* Mutant: leaves the old state in the index.
IndexGrows(c, s) ==
  IF s.oauthState = sess[c].oauthState THEN byState ELSE Index(byState, s.oauthState, c)

\* The state index after session c became s: only a change of state touches it.
IndexAfter(c, s) ==
  IF s.oauthState = sess[c].oauthState
  THEN byState
  ELSE Index(Deindex(byState, sess[c].oauthState), s.oauthState, c)

Put(c, s) ==
  /\ sess' = [sess EXCEPT ![c] = s]
  /\ byState' = IndexAfter(c, s)
  /\ UNCHANGED byID

\* evictExpiredLocked: never a session whose handle is checked out
Evicted == {c \in byID : ~sess[c].resuming /\ clock > sess[c].expiresAt + Grace}

New(c, st) ==
  /\ sess' = [sess EXCEPT ![c] = [NoSession EXCEPT !.oauthState = st,
                                    !.status = "authorizing", !.expiresAt = clock + TTL]]
  /\ byID' = (byID \ Evicted) \cup {c}
  /\ byState' = [[x \in States |->
                    IF \E e \in Evicted : sess[e].oauthState = x THEN None ELSE byState[x]]
                 EXCEPT ![st] = c]

\* GetByState finds nothing: unknown, evicted, or expired by this very lookup.
StateIsPending(st) ==
  byState[st] # None /\ byState[st] \in byID /\ ~Expires(sess[byState[st]])

\* The lookup's side effect, found or not.
ExpireByState(st) ==
  IF byState[st] # None /\ byState[st] \in byID
  THEN Put(byState[st], Expire(sess[byState[st]]))
  ELSE UNCHANGED store

\* Mutant: every look extends the session.
ViewExtends(c) ==
  c \in byID /\ Put(c, [Expire(sess[c]) EXCEPT !.expiresAt = clock + TTL])

\* ViewByID and Get
View(c) == c \in byID /\ Put(c, Expire(sess[c]))

\* ConsumeForResume refuses, after expiring the session.
ConsumeRefused(c) ==
  LET s == Expire(sess[c]) IN (IsFinal(s) \/ s.resuming) /\ Put(c, s)

\* Mutant: does not look at the claim.
ConsumeUnchecked(c) ==
  /\ ~IsFinal(Expire(sess[c]))
  /\ Put(c, [sess[c] EXCEPT !.resuming = TRUE, !.oauthState = None])

\* Mutant: consumes the state but takes no claim.
ConsumeUnclaimed(c) ==
  /\ ~IsFinal(Expire(sess[c])) /\ ~sess[c].resuming
  /\ Put(c, [sess[c] EXCEPT !.oauthState = None])

ConsumeForResume(c) ==
  /\ ~IsFinal(Expire(sess[c])) /\ ~sess[c].resuming
  /\ Put(c, [sess[c] EXCEPT !.resuming = TRUE, !.oauthState = None])

SetState(c, st) == Put(c, [sess[c] EXCEPT !.oauthState = st, !.resuming = FALSE])

\* Mutant: keeps the handle.
FinalizeKeepsHandle(c) ==
  Put(c, [sess[c] EXCEPT !.oauthState = None, !.resuming = FALSE])

Finalize(c) ==
  Put(c, [sess[c] EXCEPT !.oauthState = None, !.handle = None, !.resuming = FALSE])

SetHandle(c, h) == Put(c, [sess[c] EXCEPT !.handle = h])
SetStatus(c, status) == Put(c, [sess[c] EXCEPT !.status = status])
\* Mutant: status and reason swapped.
SetFailedSwapped(c, status, reason) ==
  Put(c, [sess[c] EXCEPT !.status = reason, !.reason = status])

SetFailed(c, status, reason) ==
  Put(c, [sess[c] EXCEPT !.status = status, !.reason = reason])
SetCompleted(c, pdf) == Put(c, [sess[c] EXCEPT !.status = "completed", !.result = pdf])
==============================================================================
