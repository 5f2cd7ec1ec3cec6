-------------------------- MODULE TrustEngineProofs --------------------------
(***************************************************************************)
(* For any keys, roots, clock and lists: the cache is one refresh's, and    *)
(* what resolve trusts is backed by lists that are still in force.          *)
(***************************************************************************)
EXTENDS TrustEngine, TLAPS

\* While a refresh runs, what it builds is what it has ingested so far.
BuildingInv ==
  IF Idle
  THEN building = DefaultCache /\ pending = <<>>
  ELSE /\ BuiltFrom(building, pending, now)
       /\ ~building.populated
       /\ Len(pending) = at - 1

\* The inductive invariant.
EngineInv == TypeOK /\ BuildingInv /\ CacheIsOneRefresh

\* A failed refresh keeps the cache only where the policy tolerates the error.
VerdictInv ==
  (verdict = "Authentication"
   \/ (reachability = "FailClosed" /\ verdict \in {"Unreachable", "Stale"}))
  => cache = DefaultCache

LEMMA DefaultCacheType == DefaultCache \in ListCaches
  BY DEF DefaultCache, ListCaches

LEMMA InitInv == Init => EngineInv /\ VerdictInv
  BY DefaultCacheType, TimesAssumption
  DEF Init, EngineInv, VerdictInv, TypeOK, BuildingInv, CacheIsOneRefresh, Idle, DefaultCache

\* Ingesting one more list keeps a cache in step with its editions.
LEMMA IngestBuilds ==
  ASSUME TypeOK, NEW e \in Editions, Ingest(e), BuildingInv
  PROVE  /\ BuiltFrom(building', pending', now)
         /\ building' \in ListCaches
         /\ ~building'.populated
         /\ Len(pending') = at
         /\ pending' \in Seq(Ingested)
PROOF
  <1> DEFINE new == [kind |-> lists[at].kind, anchors |-> e.anchors, next |-> e.next]
  <1> USE TimesAssumption, NoBoundAssumption
  <1>1. /\ at \in DOMAIN lists /\ at \in Nat \ {0} /\ DOMAIN lists = 1 .. Len(lists)
        /\ lists[at].kind \in {"Lotl", "National"}
    BY DEF TypeOK, Ingest, ConfiguredLists, Lotl
  <1>2. /\ new \in Ingested
        /\ e.anchors \in SUBSET Anchors /\ e.next \in Times
    BY <1>1 DEF Ingested, Editions
  <1>3. pending \in Seq(Ingested) /\ Len(pending) = at - 1 /\ BuiltFrom(building, pending, now)
        /\ ~building.populated
    BY <1>1 DEF TypeOK, BuildingInv, Idle
  <1>4. /\ pending' = Append(pending, new)
        /\ building' = [building EXCEPT !.anchors = building.anchors \cup e.anchors,
                                         !.bound = EarliestBound(e), !.warnings = Warnings(e)]
    BY DEF Ingest
  <1>5. /\ pending' \in Seq(Ingested) /\ Len(pending') = at
        /\ DOMAIN pending' = DOMAIN pending \cup {at} /\ DOMAIN pending = 1 .. at - 1
        /\ pending'[at] = new
        /\ \A i \in DOMAIN pending : pending'[i] = pending[i]
    BY <1>1, <1>2, <1>3, <1>4
  <1>6. /\ building \in ListCaches
        /\ building'.anchors = building.anchors \cup e.anchors
        /\ building'.bound = EarliestBound(e)
        /\ building'.warnings = Warnings(e)
        /\ building'.populated = building.populated
    BY <1>4 DEF TypeOK, ListCaches
  <1>7. building' \in ListCaches
    <2>1. EarliestBound(e) \in Times \cup {None}
      BY <1>2, <1>6 DEF EarliestBound, ListCaches
    <2>2. Warnings(e) \in SUBSET DOMAIN lists
      BY <1>1, <1>6 DEF Warnings, ListCaches
    <2>3. lists' = lists
      BY DEF Ingest
    <2> QED
      BY <1>2, <1>4, <1>6, <2>1, <2>2, <2>3 DEF ListCaches
  <1>8. building'.anchors = UNION {pending'[i].anchors : i \in DOMAIN pending'}
    <2>1. building.anchors = UNION {pending[i].anchors : i \in DOMAIN pending}
      BY <1>3 DEF BuiltFrom
    <2> QED
      BY <1>5, <1>6, <2>1
  <1>9. building'.warnings = {i \in DOMAIN pending' :
                               pending'[i].kind = "National" /\ now >= pending'[i].next}
    <2>1. building.warnings = {i \in DOMAIN pending :
                                pending[i].kind = "National" /\ now >= pending[i].next}
      BY <1>3 DEF BuiltFrom
    <2>2. (pending'[at].kind = "National" /\ now >= pending'[at].next) <=> IsStale(e)
      BY <1>1, <1>5 DEF Ingest, IsStale
    <2> QED
      BY <1>5, <1>6, <2>1, <2>2 DEF Warnings
  <1>10. LotlsOf(pending') = LotlsOf(pending) \cup (IF lists[at].kind = "Lotl" THEN {at} ELSE {})
    BY <1>1, <1>5 DEF LotlsOf
  <1>11. /\ building.bound \in Times \cup {None}
         /\ \A i \in LotlsOf(pending) : /\ now < pending[i].next
                                        /\ building.bound # None /\ building.bound <= pending[i].next
                                        /\ pending[i].next \in Times /\ pending'[i] = pending[i]
         /\ building.bound # None => \E i \in LotlsOf(pending) : building.bound = pending[i].next
    <2>1. building.bound \in Times \cup {None}
      BY <1>6 DEF ListCaches
    <2>2. ASSUME NEW i \in LotlsOf(pending)
          PROVE  /\ now < pending[i].next
                 /\ building.bound # None /\ building.bound <= pending[i].next
                 /\ pending[i].next \in Times /\ pending'[i] = pending[i]
      <3>1. i \in DOMAIN pending /\ pending[i] \in Ingested
        BY <1>3, <2>2 DEF LotlsOf
      <3>2. pending[i].next \in Times
        BY <3>1 DEF Ingested
      <3> QED
        BY <1>3, <1>5, <2>2, <3>1, <3>2 DEF BuiltFrom
    <2>3. building.bound # None => \E i \in LotlsOf(pending) : building.bound = pending[i].next
      BY <1>3 DEF BuiltFrom
    <2> QED
      BY <2>1, <2>2, <2>3
  <1>12. \A i \in LotlsOf(pending') :
           now < pending'[i].next /\ building'.bound # None /\ building'.bound <= pending'[i].next
    <2>1. CASE lists[at].kind = "National"
      BY <1>6, <1>10, <1>11, <2>1 DEF EarliestBound
    <2>2. CASE lists[at].kind = "Lotl"
      <3>1. now < e.next /\ now \in Int /\ e.next \in Int
        BY <1>2, <2>2 DEF Ingest, IsStale, TypeOK
      <3>2. building'.bound # None /\ building'.bound <= e.next
            /\ (building.bound # None => building'.bound <= building.bound)
            /\ building'.bound \in Int
        <4>1. CASE building.bound = None
          BY <1>6, <2>2, <3>1, <4>1 DEF EarliestBound
        <4>2. CASE building.bound \in Int /\ building.bound < e.next
          BY <1>6, <2>2, <3>1, <4>2 DEF EarliestBound
        <4>3. CASE building.bound \in Int /\ ~(building.bound < e.next)
          BY <1>6, <2>2, <3>1, <4>3 DEF EarliestBound
        <4> QED
          BY <1>11, <4>1, <4>2, <4>3
      <3>3. ASSUME NEW i \in LotlsOf(pending) PROVE building'.bound <= pending'[i].next
        <4>1. building.bound \in Int /\ pending'[i].next \in Int
              /\ building.bound <= pending'[i].next /\ building.bound # None
          BY <1>11
        <4> QED
          BY <3>2, <4>1
      <3> QED
        BY <1>5, <1>10, <1>11, <2>2, <3>1, <3>2, <3>3
    <2> QED
      BY <1>1, <2>1, <2>2
  <1>13. building'.bound # None => \E i \in LotlsOf(pending') : building'.bound = pending'[i].next
    <2>1. CASE lists[at].kind = "National"
      BY <1>6, <1>10, <1>11, <2>1 DEF EarliestBound
    <2>2. CASE lists[at].kind = "Lotl" /\ building'.bound = e.next
      BY <1>5, <1>10, <2>2
    <2>3. CASE lists[at].kind = "Lotl" /\ building'.bound # e.next
      BY <1>6, <1>10, <1>11, <2>3 DEF EarliestBound
    <2> QED
      BY <1>1, <2>1, <2>2, <2>3
  <1> QED
    BY <1>3, <1>5, <1>6, <1>7, <1>8, <1>9, <1>12, <1>13 DEF BuiltFrom

LEMMA FailKeepsInv ==
  ASSUME EngineInv, NEW err \in {"Unreachable", "Stale", "Authentication"}, Fail(err)
  PROVE  EngineInv'
PROOF
  <1>1. cache' = cache \/ cache' = DefaultCache
    BY DEF Fail, CacheAfter
  <1>2. TypeOK'
    BY <1>1, DefaultCacheType DEF EngineInv, TypeOK, Fail, ListCaches
  <1>3. BuildingInv'
    BY DEF Fail, BuildingInv, Idle
  <1>4. CacheIsOneRefresh'
    BY <1>1 DEF EngineInv, Fail, CacheIsOneRefresh, DefaultCache, BuiltFrom, LotlsOf
  <1> QED
    BY <1>2, <1>3, <1>4 DEF EngineInv

LEMMA StepInv == EngineInv /\ [Next]_vars => EngineInv'
PROOF
  <1> SUFFICES ASSUME EngineInv, [Next]_vars PROVE EngineInv'
    OBVIOUS
  <1>1. CASE PushList
    <2>1. PICK l \in ConfiguredLists : lists' = Append(lists, l)
      BY <1>1 DEF PushList
    <2>2. lists' \in Seq(ConfiguredLists) /\ Len(lists') = Len(lists) + 1
          /\ DOMAIN lists \subseteq DOMAIN lists'
      BY <2>1 DEF EngineInv, TypeOK
    <2>3. TypeOK'
      BY <1>1, <2>2 DEF PushList, EngineInv, TypeOK, ListCaches, Idle
    <2> QED
      BY <1>1, <2>3 DEF PushList, EngineInv, BuildingInv, CacheIsOneRefresh, BuiltFrom, Idle, LotlsOf
  <1>2. CASE SetNow
    BY <1>2 DEF SetNow, EngineInv, TypeOK, BuildingInv, CacheIsOneRefresh, BuiltFrom, Idle,
                ListCaches, LotlsOf
  <1>3. CASE RefreshWith
    <2>1. TypeOK'
      BY <1>3, DefaultCacheType DEF RefreshWith, EngineInv, TypeOK, ListCaches, Idle
    <2>2. BuildingInv'
      BY <1>3 DEF RefreshWith, BuildingInv, BuiltFrom, Idle, DefaultCache, LotlsOf
    <2> QED
      BY <1>3, <2>1, <2>2 DEF RefreshWith, EngineInv, CacheIsOneRefresh, BuiltFrom, LotlsOf
  <1>4. CASE Unreachable
    BY <1>4, FailKeepsInv DEF Unreachable
  <1>5. CASE Unauthentic
    BY <1>5, FailKeepsInv DEF Unauthentic
  <1>6. CASE StaleLotl
    BY <1>6, FailKeepsInv DEF StaleLotl
  <1>7. CASE \E e \in Editions : Ingest(e)
    <2>1. PICK e \in Editions : Ingest(e)
      BY <1>7
    <2>2. BuiltFrom(building', pending', now) /\ building' \in ListCaches
          /\ ~building'.populated /\ Len(pending') = at /\ pending' \in Seq(Ingested)
      BY <2>1, IngestBuilds DEF EngineInv
    <2>3. /\ at \in 1 .. Len(lists) /\ at' = at + 1
          /\ UNCHANGED <<reachability, now, lists, cache, good, verdict>>
      BY <2>1 DEF Ingest, EngineInv, TypeOK
    <2>4. TypeOK'
      BY <2>2, <2>3 DEF EngineInv, TypeOK, ListCaches
    <2>5. BuildingInv'
      BY <2>2, <2>3 DEF BuildingInv, Idle, BuiltFrom, LotlsOf
    <2> QED
      BY <2>3, <2>4, <2>5 DEF EngineInv, CacheIsOneRefresh, BuiltFrom, LotlsOf
  <1>8. CASE RefreshOk
    <2>1. ~Idle /\ BuiltFrom(building, pending, now) /\ building \in ListCaches
      BY <1>8 DEF RefreshOk, EngineInv, TypeOK, BuildingInv, Idle
    <2>2. /\ cache' \in ListCaches /\ cache'.anchors = building.anchors
          /\ cache'.bound = building.bound /\ cache'.warnings = building.warnings
          /\ cache'.populated
      BY <1>8, <2>1 DEF RefreshOk, ListCaches
    <2>3. TypeOK'
      BY <1>8, <2>2, DefaultCacheType DEF RefreshOk, EngineInv, TypeOK, ListCaches
    <2>4. BuildingInv'
      BY <1>8 DEF RefreshOk, BuildingInv, Idle
    <2>5. CacheIsOneRefresh'
      BY <1>8, <2>1, <2>2 DEF RefreshOk, CacheIsOneRefresh, BuiltFrom, LotlsOf
    <2> QED
      BY <2>3, <2>4, <2>5 DEF EngineInv
  <1>9. CASE UNCHANGED vars
    BY <1>9 DEF vars, EngineInv, TypeOK, BuildingInv, CacheIsOneRefresh, BuiltFrom, Idle,
                ListCaches, LotlsOf
  <1> QED
    BY <1>1, <1>2, <1>3, <1>4, <1>5, <1>6, <1>7, <1>8, <1>9 DEF Next

\* The engine is well formed in every behaviour.
THEOREM TrustEngineTypeOK == Spec => []TypeOK
PROOF
  <1>1. EngineInv => TypeOK
    BY DEF EngineInv
  <1> QED
    BY <1>1, InitInv, StepInv, PTL DEF Spec

\* The cache is what the last successful refresh ingested, or empty: no refresh leaves a mixture.
THEOREM OneRefreshCached == Spec => []CacheIsOneRefresh
PROOF
  <1>1. EngineInv => CacheIsOneRefresh
    BY DEF EngineInv
  <1> QED
    BY <1>1, InitInv, StepInv, PTL DEF Spec

\* Nothing is trusted but anchors of accepted lists, and only while every LOTL
\* accepted with them is in force.
THEOREM NothingStaleAnchors == Spec => []TrustIsBacked
PROOF
  <1>1. EngineInv => TrustIsBacked
    <2> SUFFICES ASSUME EngineInv, NEW k \in Keys, NEW r \in Roots, Resolve(k, r)
                 PROVE  /\ \E i \in DOMAIN good.editions : <<k, r>> \in good.editions[i].anchors
                        /\ \A i \in LotlsOf(good.editions) : now < good.editions[i].next
      BY DEF TrustIsBacked
    <2>1. BuiltFrom(cache, good.editions, good.at) /\ <<k, r>> \in cache.anchors
      BY DEF EngineInv, Resolve, CacheIsFresh, CacheIsOneRefresh
    <2>2. \E i \in DOMAIN good.editions : <<k, r>> \in good.editions[i].anchors
      BY <2>1 DEF BuiltFrom
    <2>3. ASSUME NEW i \in LotlsOf(good.editions) PROVE now < good.editions[i].next
      <3>1. good.editions \in Seq(Ingested) /\ cache.bound \in Times \cup {None} /\ now \in Int
        BY TimesAssumption DEF EngineInv, TypeOK, ListCaches
      <3>2. good.editions[i] \in Ingested
        BY <2>3, <3>1 DEF LotlsOf
      <3>3. good.editions[i].next \in Int
        BY <3>2, TimesAssumption DEF Ingested
      <3>4. cache.bound # None /\ cache.bound <= good.editions[i].next /\ now < cache.bound
        BY <2>1, <2>3 DEF BuiltFrom, Resolve, CacheIsFresh
      <3>5. now \in Int /\ cache.bound \in Int
        BY <3>1, <3>4, TimesAssumption
      <3> QED
        BY <3>3, <3>4, <3>5
    <2> QED
      BY <2>2, <2>3
  <1> QED
    BY <1>1, InitInv, StepInv, PTL DEF Spec

LEMMA StepVerdict == VerdictInv /\ [Next]_vars => VerdictInv'
PROOF
  <1> SUFFICES ASSUME VerdictInv, [Next]_vars PROVE VerdictInv'
    OBVIOUS
  <1>1. ASSUME NEW err \in {"Unreachable", "Stale", "Authentication"}, Fail(err)
        PROVE  VerdictInv'
    BY <1>1 DEF Fail, CacheAfter, Tolerates, VerdictInv
  <1>2. CASE Unreachable \/ Unauthentic \/ StaleLotl
    BY <1>1, <1>2 DEF Unreachable, Unauthentic, StaleLotl
  <1>3. CASE RefreshOk
    BY <1>3 DEF RefreshOk, VerdictInv
  <1>4. CASE UNCHANGED <<reachability, cache, verdict>>
    BY <1>4 DEF VerdictInv
  <1> QED
    BY <1>2, <1>3, <1>4 DEF Next, PushList, SetNow, RefreshWith, Ingest, vars

\* After a refresh that met a forged list, or that failed under FailClosed, nothing is trusted.
THEOREM FailClosedStops == Spec => []FailedRefreshStops
PROOF
  <1>1. VerdictInv => FailedRefreshStops
    BY DEF VerdictInv, FailedRefreshStops, Resolve, CacheIsFresh, DefaultCache
  <1> QED
    BY <1>1, InitInv, StepVerdict, PTL DEF Spec

\* Trust is gained by a successful refresh or by a clock set back, and by nothing else.
THEOREM GainedTrust == Spec => TrustIsGained
PROOF
  <1> DEFINE Gain == \E k \in Keys, r \in Roots : ~Resolve(k, r) /\ Resolve(k, r)'
             Cause == (at = Len(lists) + 1 /\ verdict' = "Ok") \/ now' < now
  <1>1. EngineInv /\ [Next]_vars => [Gain => Cause]_vars
    <2> SUFFICES ASSUME EngineInv, Next,
                        NEW k \in Keys, NEW r \in Roots, ~Resolve(k, r), Resolve(k, r)'
                 PROVE  Cause
      OBVIOUS
    <2>1. CASE RefreshOk
      BY <2>1 DEF RefreshOk
    <2>2. CASE SetNow
      <3>1. cache' = cache /\ now \in Int /\ now' \in Int /\ cache.bound \in Int \cup {None}
        BY <2>2, TimesAssumption DEF SetNow, EngineInv, TypeOK, ListCaches
      <3>2. cache.bound # None /\ ~(now < cache.bound) /\ now' < cache.bound
        BY <3>1 DEF Resolve, CacheIsFresh
      <3>3. cache.bound \in Int
        BY <3>1, <3>2
      <3> QED
        BY <3>1, <3>2, <3>3
    <2>3. CASE cache' = cache /\ now' = now
      BY <2>3 DEF Resolve, CacheIsFresh
    <2>4. CASE cache' = DefaultCache
      BY <2>4 DEF Resolve, CacheIsFresh, DefaultCache
    <2>5. ASSUME NEW err \in {"Unreachable", "Stale", "Authentication"}, Fail(err) PROVE Cause
      BY <2>3, <2>4, <2>5 DEF Fail, CacheAfter
    <2>6. CASE PushList \/ RefreshWith \/ \E e \in Editions : Ingest(e)
      BY <2>3, <2>6 DEF PushList, RefreshWith, Ingest
    <2> QED
      BY <2>1, <2>2, <2>5, <2>6 DEF Next, Unreachable, Unauthentic, StaleLotl
  <1> QED
    BY <1>1, InitInv, StepInv, PTL DEF Spec, TrustIsGained
==============================================================================
